CONSTANTS
    Clients = {c1, c2, c3}
    Mortal = {c1, c2, c3}
    CommandLines <- FullLines
    ExitCodes = {0}
    JobIdBound = 2
    MaxDescriptors = 7
    MaxFinished = 10
    InitSlots = 1
SPECIFICATION Spec
SYMMETRY ClientSymmetry
INVARIANTS ClientsAgree
PROPERTIES ImplementsLifecycle
CHECK_DEADLOCK FALSE
