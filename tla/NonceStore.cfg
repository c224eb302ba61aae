SPECIFICATION Spec
CONSTANTS
    server = server
    Nonces = {n1, n2}
    Audiences = {dapp, other}
    Threads = {t1, t2}
    Processes = {server}
    ProcessOf <- OneProcess
    Free = free
    NoFile = nofile
    TTL = 1
    Skew = 1
    Retention = 1
    MaxClock = 3
SYMMETRY Symmetry
INVARIANTS TypeOK HandedStaysUsable ReplayIsRecognised
PROPERTIES ImplementsOneTimeTokens
CHECK_DEADLOCK FALSE
