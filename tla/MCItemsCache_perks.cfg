SPECIFICATION Spec
CONSTANTS
    Versions = {A, B}
    NoVersion = NoVersion
    Hashes = {1, 2}
    Callers = {c1}
    MaxEntries = 2
    MaxInstalls = 2
SYMMETRY Symmetry
INVARIANT PerksFreshWhenSettled
