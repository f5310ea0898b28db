SPECIFICATION FairSpec
CONSTANTS
    Programs = {"shell4", "Ques1", "Ques4", "Ques5"}
    CAP = 1
    MaxOut = 2
    MaxKids = 4
    MaxPipes = 2
INVARIANT OnlyStraysLeft
PROPERTY PromptReturns
PROPERTY QuitFreesAll
PROPERTY DriverEnds
CHECK_DEADLOCK FALSE
