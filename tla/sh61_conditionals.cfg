\* false && true && true, run from a script file
CONSTANTS
    Script <- MC_Chain
    MaxProcs = 4
    FinalNewline = TRUE
SPECIFICATION Spec
INVARIANT RunsAsPosix
