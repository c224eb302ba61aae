SPECIFICATION Spec
CONSTANTS
    Issuers = {org}
    DevIssuers = {}
    Types = {analyst}
    Actors = {root, stranger}
    Bootstrap = root
    AuthzAdmins = {}
    Clients = {p1}
    MaxRequests = 4
INVARIANTS ActiveWasApproved
CHECK_DEADLOCK FALSE
