SPECIFICATION Spec
CONSTANTS
    Readers = {r1, r2}
    Syncers = {s1, s2}
    PoolCapacity = 2
    MaxUpdates = 3
    MaxErrors = 1
    MaxCommands = 2
    Nobody = Nobody
    NoRequest = NoRequest
SYMMETRY Symmetry
INVARIANTS
    NothingLost
    HandoffComplete
    SyncCoversReceived
    RequestsMatchWaiters
PROPERTIES
    ImplementsQueue
    
