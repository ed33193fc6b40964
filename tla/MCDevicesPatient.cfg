\* Careful clients: they wait until nothing is stopping or pending, and give
\* new modules names and endpoints that no configured module has.
CONSTANTS
    NSlots = 4
    MaxDevices = 2
    Uuids = {u1, u2}
    Names = {n1, n2}
    i1 = i1
    i2 = i2
    e1 = e1
    e2 = e2
    Idents = {i1, i2}
    Endpoint <- MCEndpoint
    NoEndpoint = NoEndpoint
    Conns = {c1}
    Acceptor = Acceptor
    None = None
    Patient = TRUE
    Distinct = TRUE
    MayFail = FALSE
SPECIFICATION Spec
INVARIANTS
    EnabledModulesRun
    RunningIsConfigured
    ConfigBoots
PROPERTIES
    Settles
