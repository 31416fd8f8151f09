\* Dispatcher and three drivers over a queue of two slots and up to six rides, fair scheduling
CONSTANTS
    d1 = d1
    d2 = d2
    d3 = d3
    Drivers <- MC_Drivers
    MAX_QUEUE_SIZE = 2
    MaxLines = 6
    FreedQueueReads = {"empty"}
SPECIFICATION FairSpec
INVARIANT TypeOK
INVARIANT RideConservation
INVARIANT NoEarlyShutdown
PROPERTY Termination
