CONSTANTS
    Clients = {c1, c2, c3}
    CheckOwner = TRUE
    NoFile = NoFile
    Stale = Stale
SPECIFICATION FairSpec
INVARIANTS TypeOK LoneClientConnects SequentialStarts
PROPERTIES SearchEnds
CHECK_DEADLOCK FALSE
