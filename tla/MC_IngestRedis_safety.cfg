CONSTANTS
    w1 = w1
    w2 = w2
    absent = absent
    Workers <- MCWorkers
    Fanout = 2
    Bounds <- MCBounds
    NLayers = 3
    AtomicOrder <- MCOrder
    Absent <- absent
SPECIFICATION Spec
CHECK_DEADLOCK FALSE
INVARIANT TypeOK
INVARIANT CountAtLeastRemaining
INVARIANT AtomicChunkMatchesSpec
