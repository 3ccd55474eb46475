SPECIFICATION FairSpec
CONSTANTS
    Readers = {r1, r2}
    Syncers = {s1}
    PoolCapacity = 2
    MaxUpdates = 2
    MaxErrors = 1
    MaxCommands = 1
    Nobody = Nobody
    NoRequest = NoRequest
PROPERTIES
    ReadReturns
    SyncReturns
    PoolIsDrained
    AbortTakesEffect
