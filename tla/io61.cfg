\* Reads, seeks and writes of a regular file and reads of a pipe
CONSTANTS
    LEN = 5
    Kinds <- MC_Kinds
    ReadSizes = {1, 2}
    WriteSizes = {1, 3}
    SeekTargets = {0, 1, 2, 3, 4}
    MaxOps = 5
    BUFFER_SIZE = 2
    NUM_CACHE = 2
    W = 5
    WriteSeekTargets = {}
SPECIFICATION Spec
INVARIANT TypeOK
INVARIANT CacheCoherent
PROPERTY IoRefinement
