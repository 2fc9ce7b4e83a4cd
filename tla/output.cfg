CONSTANTS
    Viewers = {v1}
    ViewCommands <- AllViews
    JobLines <- AllJobs
    ExitCodes = {1}
    JobIdBound = 2
    MaxSlots = 2
    MaxText = 4
    BSIZE = 2
    LastLines = 1
    Garbage <- Stranger
SPECIFICATION FairSpec
INVARIANTS TailComplete SignalsReachJobs
PROPERTIES LastLinesShown ViewersReturn
CHECK_DEADLOCK FALSE
