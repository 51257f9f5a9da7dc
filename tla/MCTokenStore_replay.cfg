SPECIFICATION Spec
CONSTANTS
    Replicas = {r1}
    Callers = {c1, c2}
    None = None
    MaxGrants = 3
    MaxFaults = 0
INVARIANTS NeverReplaysItsOwn
CHECK_DEADLOCK FALSE
