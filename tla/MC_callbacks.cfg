SPECIFICATION Spec
CONSTANTS
    c1 = c1
    c2 = c2
    u1 = u1
    u2 = u2
    top = top
    sub = sub
    Clients = {c1, c2}
    Users = {u1, u2}
    UserOf <- MCUserOf
    Owner = u1
    Dirs = {top, sub}
    ParentOf <- MCParentOf
    RootOf <- MCRootOf
    Names = {"f"}
    NamesIn <- MCNamesIn
    Commands = {"read", "create", "upload", "download", "delete", "cd", "refresh"}
    maxCallbackFailures = 2
    MaxClock = 2
    MaxCalls = 2
    MaxFaults = 1
    None = None
INVARIANTS
    TypeOK
    CachedCopiesAreCurrent
    SessionFollowsClient
