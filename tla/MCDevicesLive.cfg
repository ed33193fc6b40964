\* Clients of every kind; what must happen whatever they do.
CONSTANTS
    NSlots = 2
    MaxDevices = 1
    Uuids = {u1, u2}
    Names = {n1}
    i1 = i1
    i2 = i2
    e1 = e1
    e2 = e2
    Idents = {i1, i2}
    Endpoint <- MCEndpoint
    NoEndpoint = NoEndpoint
    Conns = {c1, c2}
    Acceptor = Acceptor
    None = None
    Patient = FALSE
    Distinct = FALSE
    MayFail = TRUE
SPECIFICATION Spec
PROPERTIES
    IdentityFixed
    DyingDies
    ShutdownCompletes
