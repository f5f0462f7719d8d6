\* Two handlers at once, two passwords, two rows of sessions.
SPECIFICATION Spec
CONSTANTS
    Slots = {v1, v2}
    Passwords = {p1, p2}
    NoPassword = NoPassword
    Hashing = {"current", "legacy"}
    MaxSessions = 2
SYMMETRY Symmetry
INVARIANTS RefreshBudget SurvivorsBounded OutlivedBounded
CHECK_DEADLOCK FALSE
