SPECIFICATION Spec
CONSTANTS
    None = None
    Named = Named
    Unnamed = Unnamed
    Failed = Failed
    c1 = c1
    c2 = c2
    f1 = f1
    f2 = f2
    v1 = v1
    v2 = v2
    n0 = n0
    n1 = n1
    n2 = n2
    n3 = n3
    s1 = s1
    s2 = s2
    below = below
    active = active
    legacy = legacy
    t1 = t1
    t2 = t2
    t3 = t3
    w1 = w1
    w2 = w2
    plug = plug
    enhanced = enhanced
    other = other
    barrel = barrel
    perk = perk
    trait = trait
    bore = bore
    Callers = {c1, c2}
    ItemVersions = {v1, v2}
    Hashes = {1, 2}
    MaxEntries = 1
    MaxItemInstalls = 2
    Flights = {f1, f2}
    Members = {m1}
    Credentials = {k1}
    MaxFetches = 2
    Guardians = {g1}
    MaxIndexInstalls = 2
    FirstTicks = {4, 7, 19}
    Floor = 2
    Day = 3
    MaxTicks = 4
    MaxBuild = 1
    Nodes = {n0, n1, n2, n3, s1, s2, below, active, legacy}
    TriumphRecords = {t1, t2, t3}
    Catalysts = {t1}
    Redeemed = {t1, t2}
    Root = n0
    SealRoots <- SealRootNodes
    Children <- NodeChildren
    Listed <- NodeRecords
    Weapons = {w1, w2}
    Copies <- Armory
    Targets <- Wanted
    Pool <- PerkColumns
    MaxRefreshes = 1
    MaxInstalls = 1
    MaxFaults = 1
SYMMETRY Symmetry
CHECK_DEADLOCK FALSE
INVARIANTS
    TypeOK
    FactsFreshWhenSettled
    RefreshStays
    IndexNotMislabelled
    PayloadEndsAtEvent
    RowsNamedByTheirVersion
    WalkCollectsOnce
    OneRootFailsAlone
    CopiesToldAlike
PROPERTIES
    FreshEntryKept
