CONSTANTS
    None = None
    s1 = s1
    s2 = s2
    c1 = c1
    c2 = c2
    AnyId = AnyId
    Session = {s1, s2}
    Actor = {"call"}
    Client = {c1, c2}
    Reader = {"r"}
    PageSize = 1
    MaxEntries = 3
    MaxListed = 2
    Pipelines <- MCPipelines
    Folder = {d1, d2}
    Code = {t1, t2, t3}
    IllTyped = {t2}
    Binds = {t1}
    Single = {t2}
    Line = {1, 2}
    MaxChecks = 2
    Typeable = {"(", ")", "."}
    MaxLine = 1
    MaxText = 3
    MaxHistory = 1
    MaxPreChecks = 2
    File = {f1, f2}
    MaxWrites = 2
    MaxCalls = 2
    MaxStarts = 3
    MaxTools = 1
    MaxStops = 1

SPECIFICATION ClientsSpec
SYMMETRY MCSymmetry
CHECK_DEADLOCK FALSE

INVARIANTS
    TrailComplete
    FeedMissesOnlyAborted
    PagingMissesNothing
    ClientsTypeOK
    ShellIsHonest
    ViewsKeepUp
