CONSTANTS
    Name = {p1, p2}
    Source = {good, bad}
    Valid = {good}
    Granted = {p1}
    Approval = {a1, a2}
    Execution = {e1}
    MaxRequests = 3

SPECIFICATION Spec
CHECK_DEADLOCK FALSE

PROPERTY RejectedIsDiscarded
