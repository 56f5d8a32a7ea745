CONSTANTS
    rd = rd
    none = none
    oob = oob
    inf = inf
    Partners <- MCPartners
    Affinities <- MCAffinities
    Inf = inf
    SVs <- MCSVs
    L2s <- MCL2s
    L2Of <- MCL2Of
    InitChild <- MCInitChild
    RootPool <- MCRootPool
    Readers <- MCReaders
    None = none
    IdBits = 12
    LayerBits = 2
    Bitmasks <- MCBitmasks
    FanOut = 2
    NLayers = 3
    MaxTime = 3
    MaxFailures = 1
    MetaFanout = 2
SPECIFICATION Spec
INVARIANTS


    TreeConsistent
