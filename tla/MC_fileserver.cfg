\* One tree and one grantee under six workloads.
CONSTANTS
    Owner = o
    Grantees = {g1}
    ChosenIds = {}
    MaxId = 4
    Callers = {c1, c2}
    None = None
    Workloads <- AllOfThem
SPECIFICATION Spec
SYMMETRY Symmetry
INVARIANTS
    TypeOK
    TreeIsConsistent
    DiskMatchesMemory
    FidsAreStable
    FidsAreNotReused
    SizesAreExact
    SharingIsDurable
    AccessHasASource
    AnnouncedSharesAreCurrent
PROPERTIES
    QuotaIsRespected
    FailedUploadsAreScrapped
