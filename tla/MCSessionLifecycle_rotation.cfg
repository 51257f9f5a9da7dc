SPECIFICATION MCSpec
CONSTANTS
    Replicas = {r1, r2}
    Callers = {c1, c2}
    Sessions = {s1, s2}
    None = None
    MaxSessionsPerUser = 1
    MaxTokens = 3
    MaxVersion = 2
    MaxFaults = 1
SYMMETRY Symmetry
INVARIANTS NoTokenSurvivesSignOut EndedOnlyForReplay RefusalIsFinal
PROPERTIES TokenRotatesOnce
CHECK_DEADLOCK FALSE
