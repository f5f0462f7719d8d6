\* Two callbacks at once, two identities, two addresses and three accounts:
\* an account may be deleted and its address signed up again.
SPECIFICATION Spec
CONSTANTS
    Slots = {s1, s2}
    Subs = {x1, x2}
    Emails = {e1, e2}
    NoSub = NoSub
    NoEmail = NoEmail
    MaxUser = 3
SYMMETRY Symmetry
INVARIANTS GoogleReachesItsLink GitHubReachBounded
