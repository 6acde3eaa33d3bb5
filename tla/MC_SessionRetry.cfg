CONSTANTS
    r1 = r1
    r2 = r2
    AnyId = AnyId
    MaxSessions = 1
    Session <- MCSession
    Actor = {r1, r2}
    Client = {}
    Reader = {}
    PageSize = 1
    MaxEntries = 1

SPECIFICATION MCSpec
CHECK_DEADLOCK FALSE

PROPERTIES
    RetryRepeatsNothing
