SPECIFICATION ServicesSpec
CONSTANTS
    SchemeIds = {"mock-scheme"}
    Versions = {1, 2}
    Adapted <- SomeAdapters
    ScalarIds = {"mock-scheme"}
    Protocols = {"sf", "sf2"}
    Ambiguous = ambiguous
    AllowedProtocols = {"sf", "sf2"}
    Contents = {"c1", "c2"}
    DefaultProtocol = "sf"
    DefaultContent = "c1"
    Policies = {"p1", "p2"}
    ActivePolicy = "p1"
    Requests <- NearRequests
    Publishers = {"w1", "w2"}
    MaxChanges = 2
    None = none
    Events = {"e1", "e2"}
    MaxInventory = 2
    SupportedIds = {"mock-scheme"}
    MatrixPolicies <- SomePolicies
    Keys = {"k1", "k2", "k3"}
    RequestIds = {"r1"}
    Actors = {"approver", "other"}
    Approvers = {"approver"}
    Procs = {"q1", "q2"}
    MaxBindings = 1
    Writers = {"t1", "t2"}
    Placements <- SomePlacements
    MaxRecords = 3
    MaxFaults = 1
    Limit = 2
    Invocations = {"i1", "i2"}
    MaxCalls = 4
INVARIANTS TypesOK RetiredStaysRetired LateBindingRefused CompletedRecoveryRetires
    AcceptedIsGrounded ProceedingIsGrounded ErrorsAreUnverifiable EventsAreKept ChainHolds
    SilentUnlessConfirmed ConfirmedIsReached
PROPERTIES ContractsStayUnlessCrossed AlertsAreOfBrokenChains
CHECK_DEADLOCK FALSE
