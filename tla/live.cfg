CONSTANTS
    Clients = {c1, c2, c3}
    Mortal = {}
    CommandLines <- LiveLines
    ExitCodes = {0}
    JobIdBound = 2
    MaxDescriptors = 10
    MaxFinished = 10
    InitSlots = 2
SPECIFICATION FairSpec
PROPERTIES ClientsReturn
CHECK_DEADLOCK FALSE
