---------------------------- MODULE QuotaWindows ----------------------------
(***************************************************************************)
(* The usage of one user against his plan, counted twice over: by the      *)
(* check of a chat request (membership/membership.js) and by the user's    *)
(* dashboard (dashboard/routes.js).  Days and months are those of          *)
(* Asia/Shanghai, the rows are stamped in UTC.  A tick is eight hours, so  *)
(* Shanghai is one tick ahead.  The races of the check are in ChatGateway; *)
(* here it is atomic, and what is compared is the windows.                 *)
(***************************************************************************)
EXTENDS Integers, FiniteSets, Functions

CONSTANTS
    Plans,     \* rows of membership_plans
    Limits,    \* their daily_request_limit and monthly_point_limit
    NoLimit,   \* such a limit that is NULL
    OddPlan,   \* a membership_type without a row, which updateUser accepts
    Ends,      \* bound: ticks at which a membership can expire
    Never,     \* membership_expires_at is NULL
    Charges,   \* points a request can cost
    Month,     \* days of a month
    MaxNow,    \* bound: the last tick
    MaxRows    \* bound: requests of one tick

QuotaAssumption ==
    /\ "free" \in Plans /\ OddPlan \notin Plans
    /\ Ends \subseteq Nat
    /\ Charges \subseteq Nat
    /\ Month \in Nat \ {0} /\ MaxNow \in Nat /\ MaxRows \in Nat
    /\ NoLimit \notin Nat
    /\ \A p \in Plans : {Limits[p].daily, Limits[p].points} \subseteq Nat \cup {NoLimit}

VARIABLES
    now,    \* the UTC clock
    admin,  \* users.role = 'admin'
    plan,   \* users.membership_type
    until,  \* users.membership_expires_at
    usage   \* usage_records of each tick: how many and their points

vars == <<now, admin, plan, until, usage>>

Ticks == 0..MaxNow
ShanghaiDay(t) == (t + 1) \div 3
DayStart(d) == 3 * d - 1
ShanghaiMonth(t) == Month * (ShanghaiDay(t) \div Month)

Init ==
    /\ now = 0
    /\ admin = FALSE
    /\ plan = "free" /\ until = Never
    /\ usage = [t \in Ticks |-> [requests |-> 0, points |-> 0]]

Since(start) == {t \in Ticks : start <= t}
RequestsSince(start) == SumFunction([t \in Since(start) |-> usage[t].requests])
PointsSince(start) == SumFunction([t \in Since(start) |-> usage[t].points])
Reached(used, limit) == limit # NoLimit /\ used >= limit
Later(a, b) == IF a > b THEN a ELSE b

-----------------------------------------------------------------------------
(* checkUserQuota.                                                         *)

Lapsed == plan # "free" /\ until # Never /\ now >= until

QuotaStart(start) == IF Lapsed /\ until > start THEN until ELSE start

\* A plan without a row is refused, an administrator never.
Refused ==
    LET effective == IF Lapsed THEN "free" ELSE plan
        today == DayStart(ShanghaiDay(now))
        month == DayStart(ShanghaiMonth(now))
    IN  /\ ~admin
        /\ \/ effective \notin Plans
           \/ Reached(RequestsSince(QuotaStart(today)), Limits[effective].daily)
           \/ Reached(PointsSince(QuotaStart(month)), Limits[effective].points)

-----------------------------------------------------------------------------
(* The dashboard: periodStarts, effectivePlan and quotaStarts.             *)

ShownPlan == IF plan # "free" /\ until # Never /\ now >= until THEN "free" ELSE plan

Transition == IF ShownPlan = "free" /\ plan # "free" THEN until ELSE Never

\* Mutant of ShownStart: a lapsed plan does not start a new count.
ShownStartPlain(start) == start

ShownStart(start) == IF Transition = Never THEN start ELSE Later(Transition, start)

\* What is left of a limit, as quotaMarkup shows it.
Left(used, limit) == IF limit = NoLimit THEN NoLimit
                     ELSE IF used > limit THEN 0 ELSE limit - used

\* Without a row of membership_plans no limit is shown.
ShownDaily ==
    IF ShownPlan \notin Plans THEN NoLimit
    ELSE Left(RequestsSince(ShownStart(DayStart(ShanghaiDay(now)))), Limits[ShownPlan].daily)

ShownPoints ==
    IF ShownPlan \notin Plans THEN NoLimit
    ELSE Left(PointsSince(ShownStart(DayStart(ShanghaiMonth(now)))), Limits[ShownPlan].points)

-----------------------------------------------------------------------------
(* The user calls, time passes, the membership changes.                    *)

\* A request that is let in leaves its row at once.
Call ==
    /\ ~Refused
    /\ usage[now].requests < MaxRows
    /\ \E c \in Charges :
          usage' = [usage EXCEPT ![now] = [requests |-> @.requests + 1, points |-> @.points + c]]
    /\ UNCHANGED <<now, admin, plan, until>>

Tick ==
    /\ now < MaxNow
    /\ now' = now + 1
    /\ UNCHANGED <<admin, plan, until, usage>>

\* reviewContribution and updateUser, which takes any plan and any end.
SetMembership ==
    /\ plan' \in Plans \cup {OddPlan}
    /\ until' \in Ends \cup {Never}
    /\ UNCHANGED <<now, admin, usage>>

SetRole ==
    /\ admin' = ~admin
    /\ UNCHANGED <<now, plan, until, usage>>

Next == Call \/ Tick \/ SetMembership \/ SetRole

Spec == Init /\ [][Next]_vars

-----------------------------------------------------------------------------
(* Properties.                                                             *)

\* The clock, the user and the rows keep their type.
TypeOK ==
    /\ now \in Ticks /\ admin \in BOOLEAN
    /\ plan \in Plans \cup {OddPlan} /\ until \in Ends \cup {Never}
    /\ usage \in [Ticks -> [requests : 0..MaxRows, points : Nat]]

\* The dashboard and the check of a request are two copies of one rule: the
\* dashboard shows a user that nothing is left of a limit exactly when his next
\* request is refused, through midnights, ends of months, plans that lapse in
\* the middle of either and plans that are changed.  An administrator is never
\* refused, and a plan without a row is refused although no limit is shown
\* (dashboard/routes.js, checkUserQuota in membership/membership.js).
DashboardAgrees ==
    ~admin /\ ShownPlan \in Plans =>
        (Refused <=> ShownDaily = 0 \/ ShownPoints = 0)

=============================================================================
