\* A migration that a crash interrupts.
CONSTANTS
    u1 = u1
    u2 = u2
    Uuids = {u1, u2}
    MaxModules = 2
    RingCap = 2
    FlushRows = 1
    PruneRows = 1
    PruneEvery = 2
    Interval = 1
    Keeps = {0, 1}
    KeepDefault = 1
    OldRows <- MCOldRows
    FirstTime = 2
    MaxTime = 3
    None = None
    MayFail = {}
SPECIFICATION Spec
INVARIANTS
    RemovedAreRetired
