CONSTANTS
    c1 = c1
    root = root
    r1 = r1
    oprow = oprow
    OpRow <- oprow
    Chunks <- MCChunks
    Readers <- MCReaders
    Root <- root
    Steps = {1, 2}
    MaxCounter = 3
    MaxOps = 1
SPECIFICATION Spec
CONSTANT NCounters = 2
INVARIANT TypeOK
INVARIANT UniqueIds
