SPECIFICATION Spec
CONSTANTS
    Members = {m1}
    Credentials = {c1}
    Requests = {r1, r2}
    Flights = {f1, f2}
    None = None
    MaxInstalls = 1
    MaxRefreshes = 1
SYMMETRY Symmetry
INVARIANTS RefreshNotUndone CancelIsPrivate
           RegistryHoldsRunningLoads AnswersSinceRefresh
PROPERTY NoLatePublication
