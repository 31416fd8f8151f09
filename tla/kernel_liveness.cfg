\* Round-robin scheduling under a fair timer, on a writable image
CONSTANTS
    NPROC = 3
    NPAGES = 10
    PROC_START_PN = 8
    MEMSIZE_VIRTUAL_PN = 11
    ReservedPages <- MC_ReservedPages
    KernelPages <- MC_KernelPages
    Image <- MC_ImageRW
    BootCommand = "fork"
    EaxValues = {0, 1}
SPECIFICATION FairSpec
PROPERTY RunnableEventuallyRuns
