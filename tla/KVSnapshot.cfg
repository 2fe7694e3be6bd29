SPECIFICATION Spec
CONSTANTS
    NServers = 2
    Client = {c1}
    Key = {k1}
    Kinds = {2}
    Slot = {1}
    Stale = Stale
    Nobody = Nobody
    Snapshots = {0, 1}
    AtomicRegister = FALSE
    LateRequests = FALSE
    FreshInstalls = TRUE
    MaxNum = 2
    MaxLog = 3
    MaxElections = 1
    MaxLosses = 0
    MaxRestarts = 1
CHECK_DEADLOCK FALSE
INVARIANTS
    ReplicaState
    SnapshotState
    Acknowledged
