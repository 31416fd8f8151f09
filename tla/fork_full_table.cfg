\* fork() with a full process table
CONSTANTS
    NPROC = 3
    NPAGES = 12
    PROC_START_PN = 9
    MEMSIZE_VIRTUAL_PN = 12
    ReservedPages <- MC_ReservedPages
    KernelPages <- MC_KernelPages
    Image <- MC_ImageMixed
    BootCommand = "fork"
    EaxValues = {0, 1}
SPECIFICATION Spec
PROPERTY ForkReturnValue
