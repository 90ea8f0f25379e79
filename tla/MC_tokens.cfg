\* Two clients of one user, who may have one session, and one of another user;
\* two sessions in all, both builds.
SPECIFICATION Spec
CONSTANTS
    c1 = c1  c2 = c2  c3 = c3  u1 = u1  u2 = u2
    Clients = {c1, c2, c3}
    Users = {u1, u2}
    UserOf <- MCUserOf
    Addrs = {a1}
    perUserLimit = 1
    globalLimit = 2
    idleTTL = 0
    absoluteTTL = 1
    Builds = {"google", "default"}
    MaxTokens = 3
    MaxLost = 1
    None = None
INVARIANTS
    TypeOK
    MapsAgree
    TokensAreLostForAReason
    LimitsHold
