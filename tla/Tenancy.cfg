\* Two clients on two pooled connections, with the worker, over the same content.
SPECIFICATION Spec
CONSTANTS
    Clients = {a, b}
    NoClient = NoClient
    Shas = {s}
    NoDoc = NoDoc
    AppConns = {k1, k2}
    Workers = {w1}
    NoWorker = NoWorker
    MaxRequests = 5
SYMMETRY Symmetry
INVARIANTS TypeOK Isolation ChildrenStayWithParents
PROPERTIES Implements
CHECK_DEADLOCK FALSE
