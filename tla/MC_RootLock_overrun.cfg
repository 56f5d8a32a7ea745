CONSTANTS
    o1 = o1
    o2 = o2
    none = none
    Ops <- MCOps
    InitRoots <- MCInitRoots
    MaxRootId <- MCMaxRootId
    NoOp <- none
    Indefinite = TRUE
    Expiry = 2
    MaxTime = 3
    MaxTries = 2
    TimelyPhases = {"write"}
SPECIFICATION FairSpec
INVARIANTS
    NoLeakedLocks
    IndefiniteLocksReleased
    NoForkedLineage
PROPERTY EditsTerminate
