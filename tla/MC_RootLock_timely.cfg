CONSTANTS
    o1 = o1
    o2 = o2
    none = none
    Ops <- MCOps
    InitRoots <- MCInitRoots
    MaxRootId <- MCMaxRootId
    NoOp <- none
    Indefinite = FALSE
    Expiry = 2
    MaxTime = 4
    MaxTries = 2
    TimelyPhases = {"lock", "renew", "write"}
SPECIFICATION Spec
INVARIANT TypeOK
PROPERTY AbstractSpecHolds
