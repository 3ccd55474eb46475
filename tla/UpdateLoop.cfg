SPECIFICATION FairSpec
CONSTANTS
    Callers = {c1, c2}
    MaxStarts = 2
    Free = Free
INVARIANTS
    RunningLoopIsKnown
    StopIsHonoured
    LoopEndsForAReason
    FailureIsOfLastLoop
PROPERTIES
    CallsReturn
