\* A client that changes its mind while a module is still stopping.
CONSTANTS
    NSlots = 4
    MaxDevices = 2
    Uuids = {u1, u2}
    Names = {n1, n2}
    i1 = i1
    i2 = i2
    e1 = e1
    e2 = e2
    Idents = {i1, i2}
    Endpoint <- MCEndpoint
    NoEndpoint = NoEndpoint
    Conns = {c1, c2}
    Acceptor = Acceptor
    None = None
    Patient = FALSE
    Distinct = TRUE
    MayFail = FALSE
SPECIFICATION Spec
INVARIANT
    EnabledModulesRun
