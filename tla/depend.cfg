CONSTANTS
    Clients = {c1, c2, c3}
    Mortal = {}
    CommandLines <- DependencyLines
    ExitCodes = {0, 1}
    JobIdBound = 3
    MaxDescriptors = 10
    MaxFinished = 10
    InitSlots = 2
SPECIFICATION Spec
SYMMETRY ClientSymmetry
INVARIANTS DependencyOrder RunsOnlyAfterSuccess JobsHaveClients ReportsAreExpected
CHECK_DEADLOCK FALSE
