SPECIFICATION FairSpec
CONSTANTS
    MaxN = 4
    Arrivals = {0, 1, 4}
    Bursts = {1, 3}
    Quanta = {1, 2}
INVARIANT ChartIsSchedule
INVARIANT StatsMatchChart
INVARIANT SRBFIsBest
INVARIANT BypassedOnce
PROPERTY Ends
CHECK_DEADLOCK FALSE
