SPECIFICATION Spec
CONSTANTS
    Issuers = {org, dev}
    DevIssuers = {dev}
    Types = {analyst}
    Actors = {root, stranger}
    Bootstrap = root
    AuthzAdmins = {}
    Clients = {p1, p2}
    MaxRequests = 4
SYMMETRY Symmetry
INVARIANTS TypeOK TrustComesFromGovernors AuditBalances
PROPERTIES RevokedUnlessStale
CHECK_DEADLOCK FALSE
