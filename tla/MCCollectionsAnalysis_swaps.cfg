SPECIFICATION FairSpec
CONSTANTS
    Members = {m1}
    Credentials = {c1}
    Requests = {r1, r2}
    Flights = {f1}
    None = None
    MaxInstalls = 2
    MaxRefreshes = 1
INVARIANTS SettledIsCurrent AnswersSinceSwap
PROPERTY CallersReleased
