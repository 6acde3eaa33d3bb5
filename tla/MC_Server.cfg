CONSTANTS
    None = None
    Never = Never
    MaxTime = 1
    Call = {q1, q2}
    MaxSessions = 2
    MaxWork = 3
    Sinks = 2
    MaxEntries = 3

SPECIFICATION ServerSpec
CHECK_DEADLOCK FALSE

INVARIANTS
    TypeOK
    ResultIsHonest
    TrailInOrder
    NothingOutlivesARun
    AnswersCanBeReliedOn
    NoRequestIsStuck
PROPERTIES
    RunSettles
