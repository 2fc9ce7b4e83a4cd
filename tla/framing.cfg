CONSTANTS
    Clients = {c1, c2}
    Mortal = {c1}
    CommandLines <- Lines
    Names <- EnvNames
    PieceSize = 2
SPECIFICATION FairSpec
INVARIANTS Aligned TextsArriveWhole HangsOnlyIfTorn
PROPERTIES RequestsEnd
CHECK_DEADLOCK FALSE
