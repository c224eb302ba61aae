SPECIFICATION FairSpec
CONSTANTS
    Readings = {r1, r2}
    NoReading = none
    MaxBatch = 2
    Retention = 0
    PruneInterval = 0
    MaxClock = 1
    MaxFaults = 3
INVARIANTS TypeOK LossOnlyByAbandonment OutageOnlyDelays DuplicatesNeedFault
PROPERTIES OldestFirst ImplementsBuffer EventuallyForwarded
