\* Clients of every kind: impatient, and free to reuse names and endpoints.
CONSTANTS
    NSlots = 2
    MaxDevices = 2
    Uuids = {u1, u2}
    Names = {n1, n2}
    i1 = i1
    i2 = i2
    e1 = e1
    e2 = e2
    Idents = {i1}
    Endpoint <- MCService
    NoEndpoint = NoEndpoint
    Conns = {c1, c2}
    Acceptor = Acceptor
    None = None
    Patient = FALSE
    Distinct = FALSE
    MayFail = TRUE
SYMMETRY Symmetry
SPECIFICATION Spec
INVARIANTS
    TypeOK
    ThreadDiscipline
    ModulesDistinct
    NothingOpenAtUnload
