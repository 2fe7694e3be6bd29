SPECIFICATION FairThreads
CONSTANTS
    Servers = 2
    MaxTerm = 2
    Client = {c1}
    Noop = TRUE
INVARIANTS
    TimerKept
    PeersServed
PROPERTIES
    MajorityLeads
    LoopsRetire
    StartReturns
CHECK_DEADLOCK FALSE
