SPECIFICATION Spec
CONSTANTS
    server = server
    Nonces = {n1, n2}
    Audiences = {dapp}
    Threads = {t1, t2}
    Processes = {t1, t2}
    ProcessOf <- ProcessEach
    Free = free
    NoFile = nofile
    TTL = 1
    Skew = 1
    Retention = 1
    MaxClock = 3
SYMMETRY Symmetry
INVARIANTS AcceptedAtMostOnce
CHECK_DEADLOCK FALSE
