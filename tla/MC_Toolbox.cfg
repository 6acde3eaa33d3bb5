CONSTANTS
    None = None
    p1 = p1
    p2 = p2
    good = good
    bad = bad
    a1 = a1
    a2 = a2
    e1 = e1
    Name = {p1, p2}
    Source = {good, bad}
    Valid <- MCValid
    Granted <- MCGranted
    Approval = {a1, a2}
    Execution = {e1}
    MaxRequests = 3
    Ms = 2
    BaseDelay = 1
    MaxAttempts = 3
    MaxCalls = 3
    Interval = 2
    SlowDown = 3
    Timeout = 4
    Star = "*"
    Item <- MCItem
    Port = {1, 2}
    Matches <- MCMatches
    RealPath <- MCRealPath
    RealPattern <- MCRealPattern
    Offered <- MCOffered
    MaxContexts = 2
    Killer = {k1, k2}
    Iterator = it
    Patience = 4
    Pause = 2
    MaxBytes = 5
    Stages <- MCStages
    Yieldable <- MCYieldable
    N = 2
    MaxItems = 3
    MaxField = 2
    Fields = 2
    MaxWord = 3
    Watchable = {w1, w2}
    MaxBackoff = 4
    MaxShown = 2
    MaxOutages = 2
    MaxViews = 2

SPECIFICATION ToolboxSpec
CHECK_DEADLOCK FALSE

INVARIANTS
    ToolboxTypeOK
    CallableIsApproved
    PendingIsNewest
    ForgottenOnlyByOverlap
    DerivedWithin
    
    TextArrives
    DataArrives
    NothingLeftOver
PROPERTIES
    WorkEnds
