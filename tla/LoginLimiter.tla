---------------------------- MODULE LoginLimiter ----------------------------
(***************************************************************************)
(* The password-login limiter (security/rateLimit.js): for every login     *)
(* one counter per client address and one per address and email are read,  *)
(* judged and written back by two separate statements.  Logins of one      *)
(* address and one email run in Slots, one statement per step; what comes  *)
(* after the limiter is reduced to its effect on it: a login that succeeds *)
(* deletes both rows.                                                      *)
(***************************************************************************)
EXTENDS Naturals, FiniteSets

CONSTANTS
    Slots,      \* concurrent requests
    IpLimit,    \* LOGIN_IP_LIMIT
    PairLimit,  \* LOGIN_IP_EMAIL_LIMIT
    Window,     \* LOGIN_IP_WINDOW_MS, in ticks
    MaxNow      \* bound: ticks of the clock

LimiterAssumption ==
    /\ IsFiniteSet(Slots) /\ Slots # {}
    /\ {IpLimit, PairLimit, Window} \subseteq Nat \ {0}
    /\ MaxNow \in Nat

Keys == {"ip", "pair"}
Limit == [ip |-> IpLimit, pair |-> PairLimit]

VARIABLES
    now,
    row,       \* auth_rate_limits, by key
    pc,        \* where the login of a slot stands
    key,       \* the key its consume() works on
    new,       \* the row it is about to write
    admitted   \* history: logins each key admitted in this tick, since the last success

vars == <<now, row, pc, key, new, admitted>>

NoRow == [start |-> 0, count |-> 0, until |-> 0, exists |-> FALSE]
Row == [start : 0 .. MaxNow, count : Nat, until : 0 .. MaxNow + Window, exists : BOOLEAN]

-----------------------------------------------------------------------------
Init ==
    /\ now = 0
    /\ row = [k \in Keys |-> NoRow]
    /\ pc = [s \in Slots |-> "idle"]
    /\ key = [s \in Slots |-> "ip"]
    /\ new = [s \in Slots |-> NoRow]
    /\ admitted = [k \in Keys |-> 0]

\* A login starts with the address key (checkLoginRateLimits).
Begin(s) ==
    /\ pc[s] = "idle"
    /\ pc' = [pc EXCEPT ![s] = "read"]
    /\ key' = [key EXCEPT ![s] = "ip"]
    /\ UNCHANGED <<now, row, new, admitted>>

Blocked(r) == r.until # 0 /\ now < r.until
\* Mutant of InWindow: the window ends a tick early.
InWindowShort(r) == r.exists /\ now - r.start < Window - 1

InWindow(r) == r.exists /\ now - r.start < Window

\* The row consume() makes of the one it read.
Counted(r, limit) ==
    LET count == IF InWindow(r) THEN r.count + 1 ELSE 1
    IN [start  |-> IF InWindow(r) THEN r.start ELSE now,
        count  |-> count,
        until  |-> IF count > limit THEN now + Window ELSE 0,
        exists |-> TRUE]

\* The first statement of consume(): a blocked key refuses the login at once,
\* else the new row is computed from what was read and when it was read.
ConsumeRead(s) ==
    /\ pc[s] = "read"
    /\ IF Blocked(row[key[s]])
       THEN /\ pc' = [pc EXCEPT ![s] = "idle"]
            /\ UNCHANGED new
       ELSE /\ pc' = [pc EXCEPT ![s] = "write"]
            /\ new' = [new EXCEPT ![s] = Counted(row[key[s]], Limit[key[s]])]
    /\ UNCHANGED <<now, row, key, admitted>>

\* The second statement of consume(): the row is written over whatever it is by
\* then, and an admitted address goes on to the pair.
ConsumeWrite(s) ==
    LET k == key[s] IN
    /\ pc[s] = "write"
    /\ row' = [row EXCEPT ![k] = new[s]]
    /\ new' = [new EXCEPT ![s] = NoRow]
    /\ IF new[s].until # 0
       THEN /\ pc' = [pc EXCEPT ![s] = "idle"]
            /\ UNCHANGED <<key, admitted>>
       ELSE /\ admitted' = [admitted EXCEPT ![k] = @ + 1]
            /\ key' = [key EXCEPT ![s] = "pair"]
            /\ pc' = [pc EXCEPT ![s] = IF k = "ip" THEN "read" ELSE "verify"]
    /\ UNCHANGED now

\* The password is wrong, or the account is locked: the counters stay.
Reject(s) ==
    /\ pc[s] = "verify"
    /\ pc' = [pc EXCEPT ![s] = "idle"]
    /\ UNCHANGED <<now, row, key, new, admitted>>

\* The password is right: resetLoginRateLimits deletes both rows.
Reset(s) ==
    /\ pc[s] = "verify"
    /\ pc' = [pc EXCEPT ![s] = "idle"]
    /\ row' = [k \in Keys |-> NoRow]
    /\ admitted' = [k \in Keys |-> 0]
    /\ UNCHANGED <<now, key, new>>

Tick ==
    /\ now < MaxNow
    /\ now' = now + 1
    /\ admitted' = [k \in Keys |-> 0]
    /\ UNCHANGED <<row, pc, key, new>>

Next == \/ Tick
        \/ \E s \in Slots : \/ Begin(s) \/ ConsumeRead(s) \/ ConsumeWrite(s)
                            \/ Reject(s) \/ Reset(s)

Spec == Init /\ [][Next]_vars

-----------------------------------------------------------------------------
(* Properties.                                                             *)

\* Every part of the state keeps its type; a counter never passes the first
\* refused attempt, and only that one carries a block.
TypeOK ==
    /\ now \in 0 .. MaxNow
    /\ \A k \in Keys : /\ row[k] \in Row
                       /\ row[k].count <= Limit[k] + 1
                       /\ row[k].until # 0 <=> row[k].count = Limit[k] + 1
    /\ pc \in [Slots -> {"idle", "read", "write", "verify"}]
    /\ key \in [Slots -> Keys]
    /\ new \in [Slots -> Row]
    /\ admitted \in [Keys -> Nat]

\* How many logins n slots can get past the c values a counter has left: one
\* that stalls between the read and the write of consume() sets the counter and
\* its block back to what it read, so first the others use up all c values,
\* then it writes, and all of them have what is left.  This is the binomial
\* coefficient of n in c + n, less one.
SetBacks[p \in Nat \X Nat] ==
    LET c == p[1]
        n == p[2]
    IN  IF c = 0 \/ n = 0 THEN 0 ELSE SetBacks[<<c, n - 1>>] + 1 + SetBacks[<<c - 1, n>>]

\* The values below the limit, and the expired one of the window before.
SetBackBudget(limit, n) == SetBacks[<<limit + 1, n>>]

\* The limiter is no exact limit, but it is one: with a tick as long as a
\* window, no tick admits more than SetBackBudget logins past a key (n = 1
\* gives limit + 1: a window may end and another begin in one tick).
AdmittedBounded ==
    \A k \in Keys : admitted[k] <= SetBackBudget(Limit[k], Cardinality(Slots))
=============================================================================
