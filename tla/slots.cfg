CONSTANTS
    Clients = {c1, c2, c3}
    Mortal = {c1, c2, c3}
    CommandLines <- SlotLines
    ExitCodes = {0}
    JobIdBound = 3
    MaxDescriptors = 10
    MaxFinished = 10
    InitSlots = 2
SPECIFICATION Spec
SYMMETRY ClientSymmetry
INVARIANTS TypeOK SlotAccounting PromptStart
PROPERTIES SlotLimit
CHECK_DEADLOCK FALSE
