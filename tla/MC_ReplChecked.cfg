CONSTANTS
    None = None
    Code = {c1, c2}
    IllTyped = {c2}
    Binds = {c1}
    Single = {c2}
    Line = {1, 2}
    MaxChecks = 2

SPECIFICATION ReplSpec
CHECK_DEADLOCK FALSE

INVARIANT IllTypedNeverRuns
