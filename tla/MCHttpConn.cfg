\* One slot; a client that waits for replies and one that does not, nor always
\* reads.
CONSTANTS
    c1 = c1
    c2 = c2
    Clients = {c1, c2}
    Listeners = {l1, l2, l3}
    Requests <- SomeRequests
    Pipeliners = {c2}
    Deaf = {c2}
    MaxConns = 1
    HdrCap = 3
    BodyCap = 2
    OutCap = 2
    MaxReq = 2
    First = l1
    None = None
SPECIFICATION Spec
INVARIANTS
    TypeOK
    ServedInOrder
    ListenersOwned
PROPERTIES
    ConnectionsEnd
    Answered
CHECK_DEADLOCK FALSE
