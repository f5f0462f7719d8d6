------------------------------- MODULE MCSignIn -------------------------------
(***************************************************************************)
(* What stands between a client and a session, for TLC: the one-time       *)
(* tokens, and the two guards in front of a password, the limiter per      *)
(* address and the lock of the account.  The three share no variable, and  *)
(* each is checked against the most general rest of the system (any login  *)
(* may pass the limiter, any may reach it), so interleaving them would     *)
(* show nothing more: the initial state picks the one that moves.          *)
(***************************************************************************)
EXTENDS OneTimeGrants, TLC

CONSTANTS MaxFailures, LockTicks, MaxNow, IpLimit, PairLimit, Window, MaxClock

VARIABLES
    part,
    clock, addresses, stage, key, new, admitted,
    now, failed, locked, login, until, reached, late

limiterVars == <<clock, addresses, stage, key, new, admitted>>
lockVars == <<now, failed, locked, login, until, reached, late>>

Limiter == INSTANCE LoginLimiter WITH
    Slots <- Handlers, now <- clock, row <- addresses, pc <- stage, MaxNow <- MaxClock

Lock == INSTANCE LoginLock WITH Slots <- Handlers, pc <- login

ASSUME SignInAssumption == Limiter!LimiterAssumption /\ Lock!LockAssumption

SignInInit == Init /\ Limiter!Init /\ Lock!Init /\ part \in {"tokens", "limiter", "lock"}

SignInNext ==
    /\ UNCHANGED part
    /\ \/ part = "tokens" /\ Next /\ UNCHANGED <<limiterVars, lockVars>>
       \/ part = "limiter" /\ Limiter!Next /\ UNCHANGED <<vars, lockVars>>
       \/ part = "lock" /\ Lock!Next /\ UNCHANGED <<vars, limiterVars>>

SignInSpec == SignInInit /\ [][SignInNext]_<<part, vars, limiterVars, lockVars>>

\* Every part of the guards keeps its type; a counter of the limiter never
\* passes the first refused attempt, and only that one carries a block.
GuardsTypeOK == Limiter!TypeOK /\ Lock!TypeOK

\* A stored lock is backed by failures that are still counted (recordFailedLogin
\* and clearFailedLogins in database/credentials.js), and an account that should
\* be locked tries no more passwords than the logins that race it allow
\* (handlePasswordLogin in auth/routes.js).
LockHolds == Lock!LockJustified /\ Lock!LateBounded

\* The limiter admits no more than a bounded excess in one window, by logins that
\* race it (consume in security/rateLimit.js).
AdmittedBounded == Limiter!AdmittedBounded

Symmetry == Permutations(Handlers) \cup Permutations(Tokens)
=============================================================================
