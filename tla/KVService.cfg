SPECIFICATION Spec
CONSTANTS
    NServers = 2
    Client = {c1, c2}
    Key = {k1}
    Kinds = {0, 1, 2}
    Slot = {1}
    Stale = Stale
    Nobody = Nobody
    Snapshots = {}
    AtomicRegister = TRUE
    LateRequests = FALSE
    FreshInstalls = TRUE
    MaxNum = 1
    MaxLog = 4
    MaxElections = 1
    MaxLosses = 1
    MaxRestarts = 0
CHECK_DEADLOCK FALSE
SYMMETRY Symmetry
INVARIANTS
    ReplicaState
    Acknowledged
    ReadsCurrent
    NoStaleChannels
