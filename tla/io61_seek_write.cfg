\* io61_seek on a written file that still holds buffered bytes
CONSTANTS
    LEN = 5
    Kinds <- MC_WriteKinds
    ReadSizes = {1}
    WriteSizes = {1, 3}
    SeekTargets = {}
    MaxOps = 4
    BUFFER_SIZE = 2
    NUM_CACHE = 2
    W = 5
    WriteSeekTargets = {0, 2}
SPECIFICATION Spec
PROPERTY IoRefinement
