CONSTANTS
    w1 = w1
    w2 = w2
    main = main
    nolock = nolock
    Workers <- MCWorkers
    Main <- main
    Tasks <- MCTasks
    Parent <- MCParent
    AtomicTasks <- MCAtomic
    NoLock <- nolock
    FeederDelay = FALSE
CHECK_DEADLOCK FALSE
SPECIFICATION FairSpec
PROPERTY WorkersExit
