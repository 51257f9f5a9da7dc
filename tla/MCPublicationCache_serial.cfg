SPECIFICATION Spec
CONSTANTS
    Versions = {A, B}
    NoVersion = NoVersion
    Keys = {k1, k2}
    Loaders = {w1, w2}
    Downloads = {d1}
    NoKey = NoKey
    MaxReads = 2
    MaxInstalls = 3
INVARIANT FreshWhenSettled
PROPERTY FencedSpec
