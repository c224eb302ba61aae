SPECIFICATION Spec
CONSTANTS
    Readings = {r1, r2}
    NoReading = none
    MaxBatch = 2
    Retention = 1
    PruneInterval = 1
    MaxClock = 1
    MaxFaults = 2
INVARIANTS NothingIsLost
