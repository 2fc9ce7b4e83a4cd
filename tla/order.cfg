CONSTANTS
    Clients = {c1, c2, c3, c4}
    Mortal = {}
    CommandLines <- OrderLines
    ExitCodes = {0}
    JobIdBound = 3
    MaxDescriptors = 10
    MaxFinished = 10
    InitSlots = 1
SPECIFICATION Spec
SYMMETRY ClientSymmetry
INVARIANTS QueueConsistent JobZeroFirst
CHECK_DEADLOCK FALSE
