SPECIFICATION Spec
CONSTANTS
    Tabs = {t1, t2}
    Callers = {c1, c2}
    Members = {m1, m2}
    None = None
    MaxSessions = 2
    MaxRotations = 2
    MaxRevision = 3
    MaxFaults = 1
SYMMETRY Symmetry
CHECK_DEADLOCK FALSE
INVARIANTS
    EndedStaysEnded
    AgreeWhenSettled
PROPERTY AnswerIsTheAskers
