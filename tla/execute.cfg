CONSTANTS
    ExitStatus <- Statuses
    MaxOutput = 3
    MaxSigints = 2
SPECIFICATION FairSpec
INVARIANTS ResultIsTheCommands OutputComplete NoOrphan SigintForwarded
PROPERTIES ClientReturns
CHECK_DEADLOCK FALSE
