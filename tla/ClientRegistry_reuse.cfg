SPECIFICATION Spec
CONSTANTS
    Clients = {k1, k2, k3}
    Threads = {t1, t2}
    Handles = {h1, h2}
    NoClient = NoClient
    NoHandle = NoHandle
INVARIANTS
    CallReachesOwnClient
CHECK_DEADLOCK FALSE
