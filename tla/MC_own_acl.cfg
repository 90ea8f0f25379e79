\* One tree and one grantee; clients make files called .acl.
CONSTANTS
    Owner = o
    Grantees = {g1}
    ChosenIds = {}
    MaxId = 4
    Callers = {c1}
    None = None
    Workloads <- Lists
SPECIFICATION Spec
PROPERTY RestartsKeepAccess
