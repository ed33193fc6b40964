\* Two drivers that come and go, and helpers that die.
CONSTANTS
    Drivers = {d1, d2}
    Socks = {s1, s2}
    Pids = {p1, p2}
    MaxCli = 2
    MaxLines = 1
    MaxRef = 3
    None = None
    MayDie = TRUE
SYMMETRY Symmetry
SPECIFICATION Spec
INVARIANTS
    MacExclusive
    OwnerPresent
    DataIsLive
PROPERTIES
    QuitOnlyByLast
