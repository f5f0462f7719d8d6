SPECIFICATION Spec
CONSTANTS
    Senders = {s1, s2}
    Verifiers = {v1, v2}
    Purposes = {login}
    c1 = c1
    c2 = c2
    h1 = h1
    h2 = h2
    Codes <- MCCodes
    Digests <- MCDigests
    Hash <- MCHash
    NoAccount = NoAccount
    NoDraft = NoDraft
    MaxAttempts = 2
    ResendGap = 1
    Lifetime = 2
    MaxRows = 2
    MaxTime = 2
CONSTRAINT OneSideAtATime
SYMMETRY Symmetry
INVARIANTS GuessBudget OneAccount BurstBounded
PROPERTY ImplementsOneTime
CHECK_DEADLOCK FALSE
