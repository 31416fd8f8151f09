\* Any sequence of five malloc, free, realloc and calloc calls over three chunks
CONSTANTS
    Addrs = {1, 2, 3}
    W = 6
    IW = 5
    OVERHEAD = 4
    Sizes <- MC_Sizes
    CallocArgs <- MC_CallocArgs
    MaxOps = 5
    Sites <- MC_Sites
    TableSize = 1000
SPECIFICATION Spec
INVARIANT TypeOK
INVARIANT LeakListExact
INVARIANT StatsMatch
INVARIANT HeavyCountsExact
