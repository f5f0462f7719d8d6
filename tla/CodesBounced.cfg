\* One sender and two verifiers are enough for a mail that is refused.
SPECIFICATION Spec
CONSTANTS
    Senders = {s1}
    Verifiers = {v1, v2}
    Purposes = {login}
    c1 = c1
    c2 = c2
    h1 = h1
    h2 = h2
    Codes <- MCCodes
    Digests <- MCDigests
    Hash <- MCHash
    NoAccount = NoAccount
    NoDraft = NoDraft
    MaxAttempts = 2
    ResendGap = 1
    Lifetime = 2
    MaxRows = 2
    MaxTime = 3
INVARIANT BouncedIsVoid
CHECK_DEADLOCK FALSE
