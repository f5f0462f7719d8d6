\* Two requests at once.  Three contributions over two accounts of an address;
\* three feedback tickets, an archive of one; four requests around a deletion;
\* three bans and three appeals.
SPECIFICATION AccountsSpec
CONSTANTS
    s1 = s1  s2 = s2
    t1 = t1  t2 = t2  t3 = t3
    a1 = a1  a2 = a2  a3 = a3
    Slots <- TwoSlots
    BanIds <- MCTicketIds
    AppealIds <- MCAppealIds
    NoBan = NoBan
    NoAppeal = NoAppeal
    TicketIds <- MCTicketIds
    NoTicket = NoTicket
    MaxUsers = 2
    Awards <- MCAwards
    Plans = {"free", "pro"}
    Never = Never
    ArchiveSize = 1
    MaxSecond = 1
    MaxStarted = 4
SYMMETRY Symmetry
INVARIANTS AwardInForce PendingBounded LeftoversBounded BannedCanAppeal RacesBounded
PROPERTY VerdictFinal
