SPECIFICATION Spec
CONSTANTS
    Slots = {v1, v2}
    Passwords = {p1, p2}
    NoPassword = NoPassword
    Hashing = {"current", "legacy"}
    MaxSessions = 2
SYMMETRY Symmetry
INVARIANT ChosenInForce
CHECK_DEADLOCK FALSE
