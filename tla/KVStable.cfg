SPECIFICATION FairSpec
CONSTANTS
    NServers = 2
    Client = {c1}
    Key = {k1}
    Kinds = {0, 1, 2}
    Slot = {1, 2}
    Stale = Stale
    Nobody = Nobody
    Snapshots = {}
    AtomicRegister = FALSE
    LateRequests = FALSE
    FreshInstalls = TRUE
    MaxNum = 1
    MaxLog = 4
    MaxElections = 0
    MaxLosses = 2
    MaxRestarts = 0
CHECK_DEADLOCK FALSE
PROPERTIES
    CallsReturn
