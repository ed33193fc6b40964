\* One module, two old rows, every kind of failure.
CONSTANTS
    u1 = u1
    u2 = u2
    Uuids = {u1}
    MaxModules = 2
    RingCap = 2
    FlushRows = 1
    PruneRows = 1
    PruneEvery = 2
    Interval = 1
    Keeps = {0, 1}
    KeepDefault = 1
    OldRows <- OneOldRows
    FirstTime = 2
    MaxTime = 4
    None = None
    MayFail = {"open", "write", "read"}
SPECIFICATION Spec
INVARIANTS
    PruneThorough
    MigratedWhole
PROPERTIES
    PruneOnlyOverdue
