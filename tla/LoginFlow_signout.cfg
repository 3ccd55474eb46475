SPECIFICATION Spec
CONSTANTS
    Callers = {c1, c2}
    MaxTokens = 4
    Idle = Idle
INVARIANTS
    SignOutClears
