\* Two tabs, two requests in flight and two sign-ins at once; one ticket or
\* passkey and two sessions; a pause of two seconds between codes.
SPECIFICATION PagesSpec
CONSTANTS
    t1 = t1  t2 = t2
    c1 = c1  c2 = c2
    f1 = f1  f2 = f2
    Tabs <- TwoTabs
    Calls <- TwoCalls
    Flows <- TwoFlows
    Items = {ticket}
    MaxSession = 2
    NoTab = NoTab
    NoList = NoList
    Ranges = {week, month}
    NoRange = NoRange
    Limits = {low, high}
    Default = low
    Hours = {0}
    MaxHour = 8
    Offsets = {0, 8}
    NoRow = NoRow
    Gap = 2
    MaxTime = 6
SYMMETRY Symmetry
INVARIANTS AppIsAuthorised LoginKept LogoutRevokes ScreensCurrent HandedOverOnce NeverEarly
PROPERTY UntouchedKept
\* The clock of the resend button is bounded.
CHECK_DEADLOCK FALSE
