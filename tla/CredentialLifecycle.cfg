SPECIFICATION Spec
CONSTANTS
    Creds = {x, n1, n2}
    External = {x}
    Issuers = {dev}
    DevIssuers = {dev}
    Types = {analyst}
    Scopeless = {}
    Strict = FALSE
    Clients = {p1, p2}
    MaxRequests = 3
    None = none
SYMMETRY Symmetry
INVARIANTS TypeOK RevocationSticks NothingAfterRevocation AlwaysVouchedFor ReturnedRotationRetires
CHECK_DEADLOCK FALSE
