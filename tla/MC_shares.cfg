\* One node, upgraded from a build without fs_id, which may come up unmounted under -allow_user_purge, and two users who share with each other.
CONSTANTS
    u1 = u1  u2 = u2  c1 = c1  c2 = c2  m1 = m1  m2 = m2  m3 = m3  f1 = f1  f2 = f2
    s1 = s1  s2 = s2  p1 = p1
    Users = {u1, u2}
    Paths = {p1}
    FsIds = {f1}
    Machines = {m1}
    Clients = {c1, c2}
    UserOf <- OneSessionEach
    IdOf <- OneMachine
    LegacyMachines = {m1}
    Sharers = {s1}
    Admin = Admin
    AllowUserPurge = TRUE
    MountFailures = TRUE
    None = None
    Free = Free
    MaxNum = 3
    MaxFaults = 1
    MaxCrashes = 0
    MaxDeregs = 1
    MaxTimeouts = 0
SPECIFICATION Spec
SYMMETRY Swaps
INVARIANTS
    GrantsAreDurable
    RevocationIsFinal
