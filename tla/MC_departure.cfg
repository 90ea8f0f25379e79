\* Two clients of one user and one of another, a limit of two sessions a user
\* and three in all, built with use_google_auth.
SPECIFICATION Spec
CONSTANTS
    c1 = c1  c2 = c2  c3 = c3  u1 = u1  u2 = u2
    Clients = {c1, c2, c3}
    Users = {u1, u2}
    UserOf <- MCUserOf
    Addrs = {a1}
    perUserLimit = 2
    globalLimit = 3
    idleTTL = 0
    absoluteTTL = 1
    Builds = {"google"}
    MaxTokens = 3
    MaxLost = 1
    None = None
INVARIANTS
    DepartureRevokes
