\* Quota: three requests of one user, his key and a key without a user, two at a
\* time, limits the third request meets; the log of an error may fail.  Windows: seven
\* ticks (two and a half days), a month of two days.  Router: the models of the seed
\* and any of the edited rows in their places.
CONSTANTS
    r1 = r1  r2 = r2  r3 = r3
    u1 = u1  u2 = u2  k1 = k1  k2 = k2
    m1 = m1  m2 = m2  m3 = m3  m4 = m4
    hostA = hostA  hostB = hostB
    NoUser = NoUser  NoKey = NoKey
    Requests = {r1, r2, r3}
    Users = {u1}
    Admins = {}
    Keys = {k1, k2}
    Owner <- MCOwner
    Models = {m1}
    Host <- MCHost
    Available = {m1}
    Chains <- OneChain
    Charges = {0, 2}
    Modes = {FALSE}
    MayFail = {"errlog"}
    DailyLimit = 1
    PointLimit = 2
    KeyLimit = 1
    MaxConcurrent = 2
    MaxDay = 1
    Plans = {"free", "pro"}
    Limits <- MCLimits
    NoLimit = NoLimit
    OddPlan = "odd"
    Ends = {1, 3, 5}
    Never = Never
    PlanCharges = {0, 2}
    Month = 2
    MaxNow = 6
    MaxRows = 1
    IdOrder <- MCIdOrder
    Rows <- MCRows
    Seed <- MCSeed
    RoutedRequests <- MCRequests
    NoRequest = NoRequest
SPECIFICATION PlansSpec
SYMMETRY Perms
INVARIANTS DailyOvershootBounded AllowanceOvershootBounded DashboardAgrees RouteKeepsTerms ChainIsBestClass
