\* Three requests at once.  Tokens: three, of any of four ceremonies.  Limiter:
\* counters of 3 and 2 over two windows.  Lock: the fifth failure, a lock of two
\* ticks and its expiry.
SPECIFICATION SignInSpec
CONSTANTS
    Handlers = {h1, h2, h3}
    Tokens = {k1, k2, k3}
    NoToken = NoToken
    Kinds = {"code", "bind", "login", "register"}
    MaxFailures = 5
    LockTicks = 2
    MaxNow = 5
    IpLimit = 3
    PairLimit = 2
    Window = 1
    MaxClock = 1
SYMMETRY Symmetry
INVARIANTS GrantsExclusive ReplayBounded LockHolds AdmittedBounded
PROPERTY ImplementsOneTime
