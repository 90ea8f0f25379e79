\* Two numbers for two machines, a short log and a short history.
CONSTANTS
    FsIDs = {0, 1}
    Users = {u1}
    m1 = m1
    m2 = m2
    Machines = {m1, m2}
    Operators = {o1, o2}
    Callers = {c1, c2}
    MsAddr = TRUE
    StaleAfter = 0
    RateWindow = 1
    DefaultQuota = 2
    AlertCapacity = 3
    HistoryLimit = 2
    MaxTargets = 2
    NoEntry = NoEntry
    None = None
    Workloads <- Removals
SPECIFICATION Spec
INVARIANT RemovalsHitTheirTarget
