CONSTANTS
    Clients = {c1, c2, c3}
    Mortal = {}
    CommandLines <- WaitLines
    ExitCodes = {0, 1}
    JobIdBound = 3
    MaxDescriptors = 10
    MaxFinished = 2
    InitSlots = 1
SPECIFICATION Spec
SYMMETRY ClientSymmetry
INVARIANTS NoForgottenWaiter WaiterGetsResult ResultsBounded
PROPERTIES ResultStored
CHECK_DEADLOCK FALSE
