\* Two requests of a user's session or key, or of a key without a user; chains with
\* unavailable heads and shared hosts.  The count of a key and the usage row can fail
\* to be written (the log of a success fails like a usage row), a ban and a midnight
\* can fall between any two steps, and the Worker is fair.
CONSTANTS
    r1 = r1  r2 = r2  r3 = r3
    u1 = u1  u2 = u2  k1 = k1  k2 = k2
    m1 = m1  m2 = m2  m3 = m3  m4 = m4
    hostA = hostA  hostB = hostB
    NoUser = NoUser  NoKey = NoKey
    Requests = {r1, r2}
    Users = {u1}
    Admins = {}
    Keys = {k1, k2}
    Owner <- MCOwner
    Models = {m1, m2, m3, m4}
    Host <- MCHost
    Available = {m1, m2, m3}
    Chains <- MCChains
    Charges = {1}
    Modes = {TRUE, FALSE}
    MayFail = {"key", "usage"}
    DailyLimit = 1
    PointLimit = 1
    KeyLimit = 1
    MaxConcurrent = 2
    MaxDay = 1
SPECIFICATION FairSpec
INVARIANTS TypeOK BilledIffServed DoubleLogOnlyAfterLoss ProviderDiscipline
PROPERTIES ImplementsMetered EventuallyAnswered
