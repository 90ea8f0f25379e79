\* One node upgraded from a build without fs_id, and one store write that fails.
CONSTANTS
    u1 = u1  u2 = u2  c1 = c1  c2 = c2  m1 = m1  m2 = m2  m3 = m3  f1 = f1  f2 = f2
    s1 = s1  s2 = s2  p1 = p1
    Users = {u1}
    Paths = {}
    FsIds = {f1}
    Machines = {m1}
    Clients = {c1}
    UserOf <- OneSession
    IdOf <- OneMachine
    LegacyMachines = {m1}
    Sharers = {}
    Admin = Admin
    AllowUserPurge = FALSE
    MountFailures = FALSE
    None = None
    Free = Free
    MaxNum = 4
    MaxFaults = 1
    MaxCrashes = 0
    MaxDeregs = 0
    MaxTimeouts = 0
SPECIFICATION Spec
INVARIANT RetriesKeepTheNumber
