SPECIFICATION FairClientSpec
CONSTANTS
    Callers = {c1, c2}
    MaxStarts = 2
    Free = Free
    Closers = {c1, 1}
INVARIANTS
    StoppedBeforeClosed
PROPERTIES
    ClosedClientIsLetGo
