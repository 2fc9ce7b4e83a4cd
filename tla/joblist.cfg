CONSTANTS
    JobIdBound = 5
    MaxFinished = 3
SPECIFICATION Spec
INVARIANTS ListsAreSequences NoUseAfterFree SavedOnSigterm
CHECK_DEADLOCK FALSE
