\* A driver reads the request queue after the last driver freed it
CONSTANTS
    d1 = d1
    d2 = d2
    d3 = d3
    Drivers <- MC_Drivers
    MAX_QUEUE_SIZE = 1
    MaxLines = 3
    FreedQueueReads = {"empty", "garbage"}
SPECIFICATION Spec
INVARIANT NoUseAfterFree
