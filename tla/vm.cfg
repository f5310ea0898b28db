SPECIFICATION Spec
CONSTANTS
    NPAGES = 5
    NFRAMES = 3
INVARIANT FramesDistinct
PROPERTY HandlerMapsPage
PROPERTY ReplacesOldest
