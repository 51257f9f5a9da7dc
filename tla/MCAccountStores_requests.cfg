SPECIFICATION Spec
CONSTANTS
    Callers = {c1, c2}
    None = None
    i1 = i1
    i2 = i2
    w1 = w1
    w2 = w2
    p1 = p1
    p2 = p2
    TokenReplicas = {r1, r2}
    MaxGrants = 3
    Weapons = {w1, w2}
    Perks = {p1, p2}
    RollManifests <- RollsManifests
    FirstPools <- RollsFirst
    Files <- RollsFiles
    OfferedRolls <- RollsOffered
    Edits <- RollsEdits
    MaxPerks = 1
    MaxBulkTargets = 1
    MaxTargets = 2
    Collectibles = {i1}
    VisitGap = 1
    MaxVisitTime = 4
    RoleReplicas = {r0}
    Users = {u1, u2}
    Bootstrap = {u1}
    OfferedRoles = {1, 3}
    FlagPatches <- RolesPatches
    MaxAudit = 3
    Items = {i1, i2}
    ItemManifests <- WishesManifests
    FirstItems = {i1, i2}
    WishCommands <- Wished
    WishPatches <- WishesPatches
    MaxNoteRunes = 0
    MaxBulkEntries = 1
    MaxEntries = 2
    PreferencePatches <- DevicesPatches
    MaxPreferenceTime = 2
    MaxFaults = 1
SYMMETRY Symmetry
CHECK_DEADLOCK FALSE
INVARIANTS
    ConnectionKept
    TargetsCanMatch
    ReportsHold
    AcquiredToldOnce
    AdminRemains
    AuditTells
    RefusalWritesNothing
PROPERTIES
    RefreshNeverStepsBack
    PatchesMerge
