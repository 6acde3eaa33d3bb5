CONSTANTS
    r1 = r1
    r2 = r2
    AnyId = AnyId
    MaxSessions = 2
    Session <- MCSession
    Actor = {r1, r2}
    Client = {"dashboard"}
    Reader = {}
    PageSize = 1
    MaxEntries = 2

SPECIFICATION MCSpec
CHECK_DEADLOCK FALSE

INVARIANTS
    TypeOK
    CallsAreCounted
    NoTimerOutlivesItsCall
    AnswerCoversItsEntries
PROPERTIES
    DestroyedIsFinal
    EveryCallAnswered
    AuditSpec
