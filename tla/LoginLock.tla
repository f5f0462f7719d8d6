------------------------------ MODULE LoginLock ------------------------------
(***************************************************************************)
(* The failure counter and the lock of a password (handlePasswordLogin in  *)
(* auth/routes.js, recordFailedLogin, clearFailedLogins and savePassword   *)
(* in database/credentials.js).  Several logins to one account run in      *)
(* Slots; each reads the credential once, checks the password outside the  *)
(* database and then reports a failure with a lock deadline it computed    *)
(* from the counter it read, or clears the counter.  LoginLimiter models   *)
(* the limiter in front; Sessions models the session that follows.         *)
(***************************************************************************)
EXTENDS Naturals, FiniteSets

CONSTANTS
    Slots,        \* concurrent logins
    MaxFailures,  \* failures that lock the account
    LockTicks,    \* the length of a lock
    MaxNow        \* bound: ticks of the clock

LockAssumption ==
    /\ IsFiniteSet(Slots) /\ Slots # {}
    /\ {MaxFailures, LockTicks} \subseteq Nat \ {0}
    /\ MaxNow \in Nat

VARIABLES
    now,
    failed,   \* failed_login_count
    locked,   \* locked_until, NoLock for NULL
    pc,       \* where the login of a slot stands
    until,    \* the deadline a failed login will report
    reached,  \* history: when the counter reached MaxFailures, NoLock before
    late      \* history: passwords tried from then on for LockTicks

vars == <<now, failed, locked, pc, until, reached, late>>

NoLock == 0
Deadlines == 0 .. MaxNow + LockTicks + 1

-----------------------------------------------------------------------------
Init ==
    /\ now = 1
    /\ failed = 0
    /\ locked = NoLock
    /\ pc = [s \in Slots |-> "idle"]
    /\ until = [s \in Slots |-> NoLock]
    /\ reached = NoLock
    /\ late = 0

IsLocked == locked # NoLock /\ now < locked

\* The lock ought to hold: MaxFailures in a row, and not LockTicks ago.
InLockPeriod == reached # NoLock /\ now < reached + LockTicks

\* lockUntil of handlePasswordLogin, from the counter the login read.
LockUntil(count) == IF count + 1 >= MaxFailures THEN now + LockTicks ELSE NoLock

\* getCredentialByEmail and verifyPassword: a locked account refuses the login
\* without trying the password; a login past the limiter tries it.
Try(s) ==
    /\ pc[s] = "idle"
    /\ ~IsLocked
    /\ \/ /\ pc' = [pc EXCEPT ![s] = "wrong"]
          /\ until' = [until EXCEPT ![s] = LockUntil(failed)]
       \/ /\ pc' = [pc EXCEPT ![s] = "right"]
          /\ UNCHANGED until
    /\ late' = IF InLockPeriod THEN late + 1 ELSE late
    /\ UNCHANGED <<now, failed, locked, reached>>

\* Mutant of RecordFailed: the stale counter decides about the lock.
RecordStale(s) ==
    /\ pc[s] = "wrong"
    /\ failed' = failed + 1
    /\ locked' = IF until[s] # NoLock THEN until[s] ELSE locked
    /\ reached' = IF failed' = MaxFailures THEN now ELSE reached
    /\ pc' = [pc EXCEPT ![s] = "idle"]
    /\ until' = [until EXCEPT ![s] = NoLock]
    /\ UNCHANGED <<now, late>>

\* recordFailedLogin: the database counts, and sets the deadline it was handed.
RecordFailed(s) ==
    /\ pc[s] = "wrong"
    /\ failed' = failed + 1
    /\ locked' = IF failed' >= MaxFailures THEN until[s] ELSE locked
    /\ reached' = IF failed' = MaxFailures THEN now ELSE reached
    /\ pc' = [pc EXCEPT ![s] = "idle"]
    /\ until' = [until EXCEPT ![s] = NoLock]
    /\ UNCHANGED <<now, late>>

Forget ==
    /\ failed' = 0
    /\ locked' = NoLock
    /\ reached' = NoLock
    /\ late' = 0

\* clearFailedLogins after a right password.
Clear(s) ==
    /\ pc[s] = "right"
    /\ Forget
    /\ pc' = [pc EXCEPT ![s] = "idle"]
    /\ UNCHANGED <<now, until>>

\* savePassword: a new password starts with no failures and no lock.
SetPassword ==
    /\ Forget
    /\ UNCHANGED <<now, pc, until>>

Tick ==
    /\ now < MaxNow
    /\ now' = now + 1
    /\ UNCHANGED <<failed, locked, pc, until, reached, late>>

Next == \/ Tick \/ SetPassword
        \/ \E s \in Slots : Try(s) \/ RecordFailed(s) \/ Clear(s)

Spec == Init /\ [][Next]_vars

-----------------------------------------------------------------------------
(* Properties.                                                             *)

\* Every part of the state keeps its type; a deadline lies at most a lock's
\* length ahead, and an idle login carries none.
TypeOK ==
    /\ now \in 1 .. MaxNow + 1
    /\ failed \in Nat
    /\ locked \in Deadlines /\ locked <= now + LockTicks
    /\ pc \in [Slots -> {"idle", "wrong", "right"}]
    /\ until \in [Slots -> Deadlines]
    /\ \A s \in Slots : pc[s] # "wrong" => until[s] = NoLock
    /\ reached \in Deadlines
    /\ late \in Nat

\* A stored lock is always backed by failures that are still counted: a login
\* that read the counter before the owner got in never locks the owner out
\* with fewer than MaxFailures new failures, however late it reports.
LockJustified == locked # NoLock => failed >= MaxFailures

\* What remains true of the lock: each login that was under way when the account
\* should have locked, with a deadline that is early or none, can open the lock
\* once, and while it is open every slot that is not such a login tries one
\* password: 1 + 2 + ... + n with n slots.
LateBounded == 2 * late <= Cardinality(Slots) * (Cardinality(Slots) + 1)
=============================================================================
