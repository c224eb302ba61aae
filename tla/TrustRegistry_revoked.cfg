SPECIFICATION Spec
CONSTANTS
    Issuers = {org}
    DevIssuers = {}
    Types = {analyst}
    Actors = {root, stranger}
    Bootstrap = root
    AuthzAdmins = {}
    Clients = {p1, p2}
    MaxRequests = 4
SYMMETRY Symmetry
PROPERTIES RevokedIsTerminal
CHECK_DEADLOCK FALSE
