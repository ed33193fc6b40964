\* Two modules that share a ring of two samples, and no shared file; plugins, files
\* and INSERTs may fail to open.
CONSTANTS
    u1 = u1
    u2 = u2
    Uuids = {u1, u2}
    MaxModules = 2
    RingCap = 2
    FlushRows = 1
    PruneRows = 1
    PruneEvery = 2
    Interval = 1
    Keeps = {0}
    KeepDefault = 0
    OldRows <- NoOldRows
    FirstTime = 0
    MaxTime = 1
    None = None
    MayFail = {"open"}
SPECIFICATION Spec
INVARIANTS
    TypeOK
    CaptureSpacing
    NothingUnrecorded
