SPECIFICATION FairSpec
CONSTANTS
    Downloads = {d1, d2}
    Queries = {q1}
    MaxVersions = 2
    MaxCrashes = 0
PROPERTY NoRenameUnderHandle
