SPECIFICATION Spec
CONSTANTS
    Readers = {r1, r2, r3}
    Requests = {NoTimeout, 0, 1, 5}
    NoTimeout = NoTimeout
    MinWait = 1
    DefaultWait = 2
    MaxWait = 3
INVARIANTS
    WaitBounded
