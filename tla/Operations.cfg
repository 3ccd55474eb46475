SPECIFICATION MCSpec
CONSTANTS
    Callers = {c1, c2}
    Peers = {p1, p2}
    MaxHandles = 2
    Items = {1, 2, 3, 4}
    NoItem = 0
    Limit = 2
    Messages = {m1, m2}
    NoMessage = NoMessage
    MaxStamp = 6
    MaxChanges = 2
    MaxRows = 6
SYMMETRY Symmetry
INVARIANTS
    MCTypeOK
    RefusedIsUnsent
    FailedIsUnsentOrUnanswered
    HandleNamesItsPeer
    MessagesAreListedOnce
    IndexDriftsByTheChanges
    DialogsAreListedWhileTheCursorHolds
