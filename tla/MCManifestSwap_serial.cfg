SPECIFICATION FairSpec
CONSTANTS
    Downloads = {d1}
    Queries = {q1, q2}
    MaxVersions = 3
    MaxCrashes = 1
INVARIANTS UpdateNeverForgotten IndexNotOlderThanItsVersion
PROPERTIES NoRenameUnderHandle SwapsEnd
