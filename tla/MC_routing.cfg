\* Two nodes, a second process with the -id of one of them, one user, removal of a
\* node, a crash and a failed write.
CONSTANTS
    u1 = u1  u2 = u2  c1 = c1  c2 = c2  m1 = m1  m2 = m2  m3 = m3  f1 = f1  f2 = f2
    s1 = s1  s2 = s2  p1 = p1
    Users = {u1}
    Paths = {}
    FsIds = {f1, f2}
    Machines = {m1, m2, m3}
    Clients = {c1}
    UserOf <- OneSession
    IdOf <- Impostor
    LegacyMachines = {}
    Sharers = {}
    Admin = Admin
    AllowUserPurge = FALSE
    MountFailures = TRUE
    None = None
    Free = Free
    MaxNum = 4
    MaxFaults = 1
    MaxCrashes = 1
    MaxDeregs = 1
    MaxTimeouts = 0
SPECIFICATION Spec
INVARIANTS
    TypeOK
    NodeTableIsDurable
    RoutingIsDurable
    HomesAreRegistered
    LoadIsExact
    RecheckNeverFails
    NoStranding
PROPERTY AddressIsStable
