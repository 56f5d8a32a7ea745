CONSTANTS
    w1 = w1
    w2 = w2
    main = main
    nolock = nolock
    Workers <- MCWorkers
    Main <- main
    Tasks <- MCTasks
    Parent <- MCParent
    AtomicTasks <- MCAtomic
    NoLock <- nolock
    FeederDelay = TRUE
SPECIFICATION Spec
CHECK_DEADLOCK FALSE
INVARIANT TypeOK
INVARIANT QueuedAfterChildren
INVARIANT QueuedOnce
