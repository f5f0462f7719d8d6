----------------------------- MODULE SignIn_proofs -----------------------------
(***************************************************************************)
(* What stands between a client and a session, for any number of requests, *)
(* tokens and ceremonies, any threshold and any length of a lock.  A       *)
(* one-time token is granted at most once, codes and challenges implement  *)
(* the one-time token, and the replays of a registration challenge are     *)
(* bounded by the invocations open.  A lock is backed by failures that are *)
(* still counted, and it is opened no more often than logins race it.  The *)
(* limiter admits no more logins than the stalled ones can set back.       *)
(***************************************************************************)
EXTENDS MCSignIn, FiniteSetTheorems, WellFoundedInduction, TLAPS

-----------------------------------------------------------------------------
(* The tokens.                                                             *)

\* What a handler relies on between its statements: the token it holds exists,
\* and the one it is about to grant is used up and was no registration.
HeldTokens ==
    \A h \in Handlers :
        /\ pc[h] \in {"verify", "grant"} => tok[h] \in Tokens /\ row[tok[h]] # "none"
        /\ pc[h] = "grant" => row[tok[h]] \in {"used", "swept"}
        /\ pc[h] = "insert" => "code" \in Kinds

\* Time has only passed for tokens that exist.
ExpiredIssued == \A t \in expired : row[t] # "none"

\* What was claimed is marked, and nobody holds what was not issued.
ClaimedMarked == \A t \in Tokens : row[t] \in {"none", "open"} => claims[t] = 0

GrantsInv == TypeOK /\ HeldTokens /\ GrantsExclusive /\ ExpiredIssued /\ ClaimedMarked

\* Initially nothing is issued and nobody holds anything.
LEMMA GrantsInit == Init => GrantsInv
<1> USE GrantsAssumption DEF Init, GrantsInv, TypeOK, HeldTokens, GrantsExclusive,
    ExpiredIssued, ClaimedMarked, Stage
<1> QED OBVIOUS

\* Every step of every handler keeps the invariant: the claims of code and
\* challenge test the row they mark, and a registration grants nothing.
LEMMA GrantsStep ==
    ASSUME GrantsInv, [Next]_vars PROVE GrantsInv'
<1> USE GrantsAssumption DEF GrantsInv, TypeOK, HeldTokens, GrantsExclusive,
    ExpiredIssued, ClaimedMarked, Stage, AllKinds
<1>1. ASSUME NEW t \in Tokens, Challenge(t) PROVE GrantsInv'
    BY <1>1 DEF Challenge, Put, handlerVars
<1>2. ASSUME NEW t \in Tokens, Expire(t) PROVE GrantsInv'
    BY <1>2 DEF Expire, handlerVars
<1>3. ASSUME NEW h \in Handlers, Sweep(h) PROVE GrantsInv'
    BY <1>3 DEF Sweep, Goto
<1>4. ASSUME NEW h \in Handlers, InsertCode(h) PROVE GrantsInv'
    BY <1>4 DEF InsertCode, Put, Finish, Goto
<1>5. ASSUME NEW h \in Handlers, Read(h) PROVE GrantsInv'
    BY <1>5 DEF Read, Goto
<1>6. ASSUME NEW h \in Handlers, ClaimCode(h) PROVE GrantsInv'
    BY <1>6 DEF ClaimCode, Take, Finish, Goto
<1>7. ASSUME NEW h \in Handlers, ClaimChallenge(h) PROVE GrantsInv'
    BY <1>7 DEF ClaimChallenge, Take, Finish, Goto
<1>8. ASSUME NEW h \in Handlers, Register(h) PROVE GrantsInv'
    BY <1>8 DEF Register, Take, Finish, Goto
<1>9. ASSUME NEW h \in Handlers, Grant(h) PROVE GrantsInv'
    BY <1>9 DEF Grant, Finish, Goto
<1>10. ASSUME NEW h \in Handlers, Abandon(h) PROVE GrantsInv'
    BY <1>10 DEF Abandon, Finish, Goto
<1>11. CASE UNCHANGED vars
    BY <1>11 DEF vars, handlerVars
<1> QED
    BY <1>1, <1>2, <1>3, <1>4, <1>5, <1>6, <1>7, <1>8, <1>9, <1>10, <1>11 DEF Next

\* Every part of the state keeps its type, whatever the constants.
THEOREM GrantsTypeCorrect == Spec => []TypeOK
<1>1. GrantsInv /\ [Next]_vars => GrantsInv'
    BY GrantsStep
<1>2. GrantsInv => TypeOK
    BY DEF GrantsInv
<1> QED BY GrantsInit, <1>1, <1>2, PTL DEF Spec

\* In every reachable state the token a handler is about to grant is its own
\* alone: no session and no password is granted twice on one token.
THEOREM GrantsAreExclusive == Spec => []GrantsExclusive
<1>1. GrantsInv /\ [Next]_vars => GrantsInv'
    BY GrantsStep
<1>2. GrantsInv => GrantsExclusive
    BY DEF GrantsInv
<1> QED BY GrantsInit, <1>1, <1>2, PTL DEF Spec

-----------------------------------------------------------------------------
\* Replays of a challenge.

\* A handler that leaves the verification of a token lowers the number of those
\* that verify it.
LEMMA LeavesVerifying ==
    ASSUME NEW t, NEW h \in Handlers, h \in Verifying(t), Verifying(t)' = Verifying(t) \ {h}
    PROVE  Cardinality(Verifying(t))' = Cardinality(Verifying(t)) - 1
<1>1. IsFiniteSet(Verifying(t))
    BY GrantsAssumption, FS_Subset DEF Verifying
<1> QED BY <1>1, FS_RemoveElement

\* How many handlers verify a token: no more than there are, and one of them
\* at least if one is known.
LEMMA VerifyingBounds ==
    ASSUME NEW t
    PROVE  /\ IsFiniteSet(Verifying(t)) /\ Cardinality(Verifying(t)) \in Nat
           /\ Cardinality(Handlers) \in Nat
           /\ Cardinality(Verifying(t)) <= Cardinality(Handlers)
<1>1. IsFiniteSet(Handlers) /\ Verifying(t) \subseteq Handlers
    BY GrantsAssumption DEF Verifying
<1> QED BY <1>1, FS_Subset, FS_CardinalityType

\* No step raises the number of claims and of those who may still claim beyond
\* the handlers: a claim is made by one that leaves the verification, and
\* after the first nobody joins.
LEMMA ReplayStep ==
    ASSUME GrantsInv, ReplayBounded, [Next]_vars PROVE ReplayBounded'
<1> SUFFICES ASSUME NEW t \in Tokens
             PROVE  (claims[t] + Cardinality(Verifying(t)) <= Cardinality(Handlers))'
    BY DEF ReplayBounded
<1> USE GrantsAssumption
<1>a. claims[t] + Cardinality(Verifying(t)) <= Cardinality(Handlers)
    BY DEF ReplayBounded
<1>b. claims[t] \in Nat
    BY DEF GrantsInv, TypeOK
<1>c. /\ Cardinality(Verifying(t)) \in Nat
      /\ Cardinality(Handlers) \in Nat
    BY VerifyingBounds
<1>d. IsFiniteSet(Verifying(t))
    BY VerifyingBounds
<1>1. ASSUME claims'[t] = claims[t], Verifying(t)' \subseteq Verifying(t)
      PROVE  (claims[t] + Cardinality(Verifying(t)) <= Cardinality(Handlers))'
    <2>1. Cardinality(Verifying(t)') <= Cardinality(Verifying(t))
             /\ Cardinality(Verifying(t)') \in Nat
        BY <1>d, <1>1, FS_Subset, FS_CardinalityType
    <2> QED BY <1>a, <1>b, <1>c, <1>1, <2>1
<1>2. ASSUME NEW h \in Handlers, Register(h) \/ ClaimCode(h) \/ ClaimChallenge(h)
      PROVE  (claims[t] + Cardinality(Verifying(t)) <= Cardinality(Handlers))'
    <2>1. tok[h] \in Tokens /\ pc[h] = "verify"
        BY <1>2 DEF Register, ClaimCode, ClaimChallenge, GrantsInv, HeldTokens
    <2>2. Verifying(t)' = Verifying(t) \ {h}
        BY <1>2, <2>1 DEF Register, ClaimCode, ClaimChallenge, Finish, Goto, Take,
            Verifying, GrantsInv, TypeOK
    <2>3. CASE claims'[t] = claims[t]
        BY <1>1, <2>2, <2>3
    <2>4. CASE claims'[t] # claims[t]
        <3>1. claims'[t] = claims[t] + 1 /\ tok[h] = t
            BY <1>2, <2>1, <2>4 DEF Register, ClaimCode, ClaimChallenge, Take,
                GrantsInv, TypeOK
        <3>2. h \in Verifying(t)
            BY <2>1, <3>1 DEF Verifying
        <3>3. Cardinality(Verifying(t))' = Cardinality(Verifying(t)) - 1
            BY <2>2, <3>2, LeavesVerifying
        <3> QED BY <1>a, <1>b, <1>c, <3>1, <3>3
    <2> QED BY <2>3, <2>4
<1>3. ASSUME NEW h \in Handlers, Read(h)
      PROVE  (claims[t] + Cardinality(Verifying(t)) <= Cardinality(Handlers))'
    <2>1. PICK u \in Tokens : row[u] = "open" /\ Goto(h, "verify", u)
        BY <1>3 DEF Read
    <2>2. claims' = claims /\ pc[h] = "idle"
        BY <1>3 DEF Read
    <2>3. CASE u = t
        <3>1. claims[t] = 0
            BY <2>1, <2>3 DEF GrantsInv, ClaimedMarked
        <3>2. IsFiniteSet(Handlers) /\ Verifying(t)' \subseteq Handlers
            BY DEF Verifying
        <3>3. Cardinality(Verifying(t)') <= Cardinality(Handlers)
                 /\ Cardinality(Verifying(t)') \in Nat
            BY <3>2, FS_Subset, FS_CardinalityType
        <3> QED BY <1>c, <2>2, <3>1, <3>3
    <2>4. CASE u # t
        <3>1. Verifying(t)' \subseteq Verifying(t)
            BY <2>1, <2>2, <2>4 DEF Goto, Verifying, GrantsInv, TypeOK
        <3> QED BY <1>1, <2>2, <3>1
    <2> QED BY <2>3, <2>4
<1>4. ASSUME NEW h \in Handlers, Sweep(h) \/ InsertCode(h) \/ Grant(h) \/ Abandon(h)
      PROVE  (claims[t] + Cardinality(Verifying(t)) <= Cardinality(Handlers))'
    <2>1. claims' = claims /\ Verifying(t)' \subseteq Verifying(t)
        BY <1>4 DEF Sweep, InsertCode, Grant, Abandon, Finish, Goto, Verifying,
            GrantsInv, TypeOK
    <2> QED BY <1>1, <2>1
<1>5. ASSUME NEW u \in Tokens, Challenge(u) \/ Expire(u)
      PROVE  (claims[t] + Cardinality(Verifying(t)) <= Cardinality(Handlers))'
    <2>1. claims' = claims /\ Verifying(t)' = Verifying(t)
        BY <1>5 DEF Challenge, Expire, handlerVars, Verifying
    <2> QED BY <1>1, <2>1
<1>6. CASE UNCHANGED vars
    <2>1. claims' = claims /\ Verifying(t)' = Verifying(t)
        BY <1>6 DEF vars, handlerVars, Verifying
    <2> QED BY <1>1, <2>1
<1> QED BY <1>2, <1>3, <1>4, <1>5, <1>6 DEF Next

\* For any number of handlers, a challenge is never claimed more often than
\* there are invocations open: a registration challenge can be replayed only
\* by those that had read it before it was used.
THEOREM ReplaysAreBounded == Spec => []ReplayBounded
<1>1. Init => ReplayBounded
    BY VerifyingBounds DEF Init, ReplayBounded
<1>2. GrantsInv /\ ReplayBounded /\ [Next]_vars => GrantsInv' /\ ReplayBounded'
    BY GrantsStep, ReplayStep
<1> QED BY GrantsInit, <1>1, <1>2, PTL DEF Spec

-----------------------------------------------------------------------------
\* Refinement.

\* A step of the tables is a step of the promise, or none.
LEMMA GrantsRefine ==
    ASSUME GrantsInv, [Next]_vars
    PROVE OneTime!Next \/ UNCHANGED OneTime!vars
<1> USE GrantsAssumption DEF GrantsInv, TypeOK, HeldTokens, ExpiredIssued, ClaimedMarked,
    AllKinds, OneTime!vars, Dead, Honoured
<1> DEFINE Issued == {t \in Tokens : row[t] # "none"}
<1>1. ASSUME NEW t \in Tokens, NEW k \in Kinds, Put(t, k), UNCHANGED <<expired, claims>>
      PROVE OneTime!Issue(t)
    <2>1. t \notin Issued /\ Issued' = Issued \cup {t}
        BY <1>1 DEF Put
    <2>2. Dead' = Dead
        BY <1>1 DEF Put
    <2>3. Honoured' = Honoured
        BY <1>1 DEF Put
    <2> QED BY <1>1, <2>1, <2>2, <2>3 DEF OneTime!Issue
<1>2. ASSUME NEW t \in Tokens, Challenge(t) PROVE OneTime!Next
    BY <1>1, <1>2 DEF Challenge, OneTime!Next
<1>3. ASSUME NEW t \in Tokens, Expire(t) PROVE OneTime!Next \/ UNCHANGED OneTime!vars
    <2>1. Issued' = Issued /\ t \in Issued /\ Honoured' = Honoured
        BY <1>3 DEF Expire
    <2>2. Dead' = Dead \/ Dead' = Dead \cup {t}
        BY <1>3 DEF Expire
    <2>3. CASE Dead' = Dead
        BY <1>3, <2>1, <2>3 DEF Expire
    <2>4. CASE Dead' = Dead \cup {t}
        <3>1. OneTime!Void({t})
            BY <1>3, <2>1, <2>4 DEF OneTime!Void, Expire
        <3>2. {t} \in SUBSET Issued
            BY <2>1
        <3> QED BY <3>1, <3>2 DEF OneTime!Next
    <2> QED BY <2>2, <2>3, <2>4
<1>4. ASSUME NEW h \in Handlers, Sweep(h) PROVE UNCHANGED OneTime!vars
    <2>1. Issued' = Issued
        BY <1>4 DEF Sweep
    <2>2. Dead' = Dead
        BY <1>4 DEF Sweep
    <2>3. Honoured' = Honoured
        BY <1>4 DEF Sweep
    <2> QED BY <1>4, <2>1, <2>2, <2>3 DEF Sweep
<1>5. ASSUME NEW h \in Handlers, InsertCode(h) PROVE OneTime!Next
    BY <1>1, <1>5 DEF InsertCode, OneTime!Next
<1>6. ASSUME NEW t \in Tokens, row[t] = "open", t \notin Dead, Take(t),
             kind[t] # "register", UNCHANGED <<kind, expired>>
      PROVE OneTime!Next
    <2>1. Issued' = Issued /\ t \in Issued
        BY <1>6 DEF Take
    <2>2. Dead' = Dead \cup {t}
        BY <1>6 DEF Take
    <2>3. Honoured' = [Honoured EXCEPT ![t] = @ + 1]
        BY <1>6 DEF Take
    <2>4. OneTime!Honour(t)
        BY <1>6, <2>1, <2>2, <2>3 DEF OneTime!Honour, Take
    <2> QED BY <2>4 DEF OneTime!Next
<1>7. ASSUME NEW h \in Handlers, ClaimCode(h)
      PROVE OneTime!Next \/ UNCHANGED OneTime!vars
    BY <1>6, <1>7 DEF ClaimCode
<1>8. ASSUME NEW h \in Handlers, ClaimChallenge(h)
      PROVE OneTime!Next \/ UNCHANGED OneTime!vars
    BY <1>6, <1>8 DEF ClaimChallenge
<1>9. ASSUME NEW h \in Handlers, Read(h) \/ Grant(h) \/ Abandon(h) \/ UNCHANGED vars
      PROVE UNCHANGED OneTime!vars
    BY <1>9 DEF Read, Grant, Abandon, vars
<1>10. ASSUME NEW h \in Handlers, Register(h) PROVE OneTime!Next
    <2>0. PICK t \in Tokens : t = tok[h]
        BY <1>10 DEF Register
    <2>1. row[t] # "none" /\ kind[t] = "register"
        BY <1>10, <2>0 DEF Register
    <2>2. Issued' = Issued /\ t \in Issued
        BY <1>10, <2>0, <2>1 DEF Register, Take
    <2>3. Dead' = Dead \cup {t}
        BY <1>10, <2>0, <2>1 DEF Register, Take
    <2>4. Honoured' = Honoured
        BY <1>10, <2>0, <2>1 DEF Register, Take
    <2>5. OneTime!Void({t})
        BY <2>2, <2>3, <2>4 DEF OneTime!Void
    <2>6. {t} \in SUBSET Issued
        BY <2>2
    <2> QED BY <2>5, <2>6 DEF OneTime!Next
<1>11. CASE UNCHANGED vars
    BY <1>11 DEF vars
<1> QED
    BY <1>2, <1>3, <1>4, <1>5, <1>7, <1>8, <1>9, <1>10, <1>11 DEF Next

\* Authorization codes, first-password challenges, GitHub bindings and passkey
\* logins implement the one-time token: honoured at most once, never after it
\* was used, deleted or, for a code, after it expired.
THEOREM GrantsAreOneTime == Spec => ImplementsOneTime
<1>1. Init => OneTime!Init
    BY DEF Init, OneTime!Init, Dead, Honoured
<1>2. GrantsInv /\ [Next]_vars => [OneTime!Next]_(OneTime!vars)
    BY GrantsRefine
<1>3. GrantsInv /\ [Next]_vars => GrantsInv'
    BY GrantsStep
<1> QED
    BY GrantsInit, <1>1, <1>2, <1>3, PTL DEF Spec, ImplementsOneTime, OneTime!Spec

-----------------------------------------------------------------------------
(* The lock of a password.  Init has no lock; recordFailedLogin locks on   *)
(* the count it has just written, and whoever resets the count drops the   *)
(* lock.  From the failure that should lock the account on, the logins     *)
(* under way whose deadline is too early (or none) can each open the lock  *)
(* once more.  They only get fewer: a login that starts later carries a    *)
(* deadline of the full length.                                            *)

Early == {h \in Handlers : login[h] = "wrong" /\ until[h] < reached + LockTicks}
Others == Handlers \ Early
Waiting == {h \in Handlers : login[h] = "idle"}

\* The lock that is stored ends before the account has been locked long enough.
Opened == locked < reached + LockTicks

\* Twice the sum of the numbers up to k.
Twice(k) == k * (k + 1)

\* While the lock is open, whoever waits can still try; then the early ones open
\* it again, each for one login more.
TriesLeft ==
    reached # 0 =>
        /\ 2 * late <= Twice(Cardinality(Others))
        /\ Opened => 2 * (late + Cardinality(Waiting)) <= Twice(Cardinality(Others))

LockShape ==
    /\ now \in Nat /\ now # 0 /\ failed \in Nat /\ locked \in Nat
    /\ login \in [Handlers -> {"idle", "wrong", "right"}]
    /\ until \in [Handlers -> Nat]
    /\ reached \in Nat /\ late \in Nat

LockInv ==
    /\ LockShape
    /\ Lock!LockJustified
    /\ reached <= now
    /\ reached # 0 <=> failed >= MaxFailures
    /\ reached = 0 => late = 0
    /\ TriesLeft

\* The constants, as numbers.
LEMMA LockConstants ==
    /\ IsFiniteSet(Handlers)
    /\ MaxFailures \in Nat /\ MaxFailures >= 1 /\ LockTicks \in Nat /\ LockTicks >= 1
  BY GrantsAssumption, SignInAssumption DEF Lock!LockAssumption

\* The instance counts as this module does.
LEMMA LockCardinality == Lock!Cardinality(Handlers) = Cardinality(Handlers)
  BY DEF Cardinality, Lock!Cardinality

\* A product of naturals is no smaller when its factors are no smaller.
LEMMA TwiceMonotone ==
    ASSUME NEW j \in Nat, NEW k \in Nat, j <= k
    PROVE  Twice(j) \in Nat /\ Twice(k) \in Nat /\ Twice(j) <= Twice(k)
<1> DEFINE d == k - j
<1>1. d \in Nat /\ k = j + d
    OBVIOUS
<1>2. j * j \in Nat /\ d * j \in Nat /\ d * d \in Nat
    BY <1>1
<1> HIDE DEF d
<1>3. k * (k + 1) = j * j + j + (2 * (d * j) + d * d + d)
    BY <1>1
<1>4. j * (j + 1) = j * j + j
    OBVIOUS
<1> QED BY <1>1, <1>2, <1>3, <1>4 DEF Twice

\* One more number to sum.
LEMMA TwiceNext ==
    ASSUME NEW k \in Nat
    PROVE  /\ Twice(k) \in Nat /\ Twice(k + 1) = Twice(k) + 2 * k + 2
           /\ k # 0 => 2 * k <= Twice(k)
<1>1. k * k \in Nat /\ (k + 1) * (k + 2) = k * k + 3 * k + 2 /\ k * (k + 1) = k * k + k
    OBVIOUS
<1>2. ASSUME k # 0 PROVE k <= k * k
  <2> DEFINE d == k - 1
  <2>1. d \in Nat /\ k = d + 1
      BY <1>2
  <2>2. d * d \in Nat
      BY <2>1
  <2> HIDE DEF d
  <2>3. k * k = d * d + 2 * d + 1
      BY <2>1
  <2> QED BY <2>1, <2>2, <2>3
<1> QED BY <1>1, <1>2 DEF Twice

\* Of the logins, those that wait are among those that are not early.
LEMMA LockCounts ==
    ASSUME NEW others \in SUBSET Handlers, NEW waiting \in SUBSET others
    PROVE  /\ IsFiniteSet(others) /\ IsFiniteSet(waiting)
           /\ Cardinality(others) \in Nat /\ Cardinality(waiting) \in Nat
           /\ Cardinality(Handlers) \in Nat
           /\ Cardinality(waiting) <= Cardinality(others)
           /\ Cardinality(others) <= Cardinality(Handlers)
<1>1. IsFiniteSet(Handlers)
    BY LockConstants
<1>2. IsFiniteSet(others) /\ Cardinality(others) <= Cardinality(Handlers)
    BY <1>1, FS_Subset
<1>3. IsFiniteSet(waiting) /\ Cardinality(waiting) <= Cardinality(others)
    BY <1>2, FS_Subset
<1> QED BY <1>1, <1>2, <1>3, FS_CardinalityType

\* A login that tries its password is never an early one, if the account should
\* be locked by then; and it tries only while the lock is open.
LEMMA TryStep ==
    ASSUME LockInv, NEW h \in Handlers, Lock!Try(h)
    PROVE  LockInv'
<1>1. LockShape' /\ UNCHANGED <<now, failed, locked, reached>>
    BY LockConstants
       DEF Lock!Try, Lock!LockUntil, Lock!NoLock, LockInv, LockShape
<1>2. login[h] = "idle" /\ late' = IF Lock!InLockPeriod THEN late + 1 ELSE late
    BY DEF Lock!Try
<1>3. reached = 0 => late' = 0
    BY <1>2 DEF LockInv, Lock!InLockPeriod, Lock!NoLock
<1>4. ASSUME reached # 0 PROVE TriesLeft'
  <2>1. Others' = Others
    <3>1. failed + 1 >= MaxFailures /\ now + LockTicks >= reached + LockTicks
        BY <1>4, LockConstants DEF LockInv, LockShape
    <3>2. h \notin Early
        BY <1>2 DEF Early
    <3>3. login'[h] = "wrong" => until'[h] = now + LockTicks
        BY <3>1 DEF Lock!Try, Lock!LockUntil, LockInv, LockShape
    <3>4. h \notin Early'
        BY <1>1, <3>1, <3>3, LockConstants DEF Early, LockInv, LockShape
    <3>5. \A g \in Handlers \ {h} : login'[g] = login[g] /\ until'[g] = until[g]
        BY DEF Lock!Try, LockInv, LockShape
    <3> QED BY <1>1, <3>2, <3>4, <3>5 DEF Others, Early
  <2>2. Waiting' = Waiting \ {h} /\ h \in Waiting
      BY <1>2 DEF Lock!Try, Waiting, LockInv, LockShape
  <2>3. /\ Others \in SUBSET Handlers /\ Waiting \in SUBSET Others
      BY DEF Others, Waiting, Early
  <2>4. /\ IsFiniteSet(Waiting) /\ Cardinality(Waiting) \in Nat
        /\ Cardinality(Others) \in Nat
      BY <2>3, LockCounts
  <2>5. Cardinality(Waiting') = Cardinality(Waiting) - 1
      BY <2>2, <2>4, FS_RemoveElement
  <2>6. ~Opened => ~Lock!InLockPeriod
      BY LockConstants
         DEF Lock!Try, Lock!IsLocked, Lock!InLockPeriod, Lock!NoLock, Opened, LockInv, LockShape
  <2>7. Opened' <=> Opened
      BY <1>1 DEF Opened
  <2>8. Cardinality(Others') = Cardinality(Others)
      BY <2>1
  <2>9. late \in Nat /\ Twice(Cardinality(Others)) \in Nat
      BY <2>4, TwiceNext DEF LockInv, LockShape
  <2>10. /\ 2 * late <= Twice(Cardinality(Others))
         /\ Opened => 2 * (late + Cardinality(Waiting)) <= Twice(Cardinality(Others))
      BY <1>4 DEF LockInv, TriesLeft
  <2>11. 2 * late' <= Twice(Cardinality(Others))
    <3>1. CASE ~Opened
        BY <3>1, <1>2, <2>6, <2>10
    <3>2. CASE Opened
      <4>1. Cardinality(Waiting) >= 1
        <5>1. Cardinality(Waiting') \in Nat
            BY <2>2, <2>4, FS_RemoveElement, FS_CardinalityType
        <5> QED BY <2>4, <2>5, <5>1
      <4> QED BY <3>2, <1>2, <2>4, <2>9, <2>10, <4>1
    <3> QED BY <3>1, <3>2
  <2>12. Opened => 2 * (late' + Cardinality(Waiting')) <= Twice(Cardinality(Others))
      BY <1>2, <2>4, <2>5, <2>9, <2>10
  <2> QED BY <2>7, <2>8, <2>11, <2>12 DEF TriesLeft
<1> QED BY <1>1, <1>3, <1>4 DEF LockInv, TriesLeft, Lock!LockJustified

\* A failure that is reported: before the account should be locked it counts, the
\* one that should lock it leaves n - 1 logins that may be early, and later ones
\* open the lock if they are early and close it if they are not.
LEMMA RecordStep ==
    ASSUME LockInv, NEW h \in Handlers, Lock!RecordFailed(h)
    PROVE  LockInv'
<1>1. LockShape' /\ UNCHANGED <<now, late>> /\ failed' = failed + 1
    BY LockConstants DEF Lock!RecordFailed, Lock!NoLock, LockInv, LockShape
<1>2. /\ login[h] = "wrong" /\ login' = [login EXCEPT ![h] = "idle"]
      /\ until' = [until EXCEPT ![h] = 0]
      /\ locked' = IF failed' >= MaxFailures THEN until[h] ELSE locked
      /\ reached' = IF failed' = MaxFailures THEN now ELSE reached
    BY DEF Lock!RecordFailed, Lock!NoLock
<1>3. /\ failed \in Nat /\ locked \in Nat /\ reached \in Nat /\ late \in Nat
      /\ now \in Nat /\ now # 0 /\ until[h] \in Nat /\ until \in [Handlers -> Nat]
      /\ login \in [Handlers -> {"idle", "wrong", "right"}]
    BY DEF LockInv, LockShape
<1>4. /\ locked # 0 => failed >= MaxFailures
      /\ reached <= now /\ (reached # 0 <=> failed >= MaxFailures)
      /\ reached = 0 => late = 0
    BY DEF LockInv, Lock!LockJustified, Lock!NoLock
<1>5. /\ login'[h] = "idle"
      /\ \A g \in Handlers \ {h} : login'[g] = login[g] /\ until'[g] = until[g]
    BY <1>2, <1>3
<1>6. /\ Others \in SUBSET Handlers /\ Waiting \in SUBSET Others
      /\ Others' \in SUBSET Handlers /\ Waiting' \in SUBSET Others'
    BY DEF Others, Waiting, Early
<1>7. /\ IsFiniteSet(Others) /\ IsFiniteSet(Waiting)
      /\ Cardinality(Others) \in Nat /\ Cardinality(Waiting) \in Nat
      /\ Cardinality(Waiting) <= Cardinality(Others)
    BY <1>6, LockCounts
<1>8. /\ Cardinality(Others') \in Nat /\ Cardinality(Waiting') \in Nat
      /\ Cardinality(Waiting') <= Cardinality(Others')
    BY <1>6, LockCounts
<1>9. CASE failed + 1 < MaxFailures
    BY <1>9, <1>1, <1>2, <1>3, <1>4, LockConstants
       DEF LockInv, TriesLeft, Lock!LockJustified, Lock!NoLock
<1>10. CASE failed + 1 = MaxFailures
  <2>1. reached' = now /\ late' = 0 /\ reached' # 0
      BY <1>1, <1>2, <1>3, <1>4, <1>10, LockConstants
  <2>2. Cardinality(Others') # 0
    <3>1. h \in Others'
        BY <1>5 DEF Others, Early
    <3>2. IsFiniteSet(Others')
        BY <1>6, LockCounts
    <3> QED BY <3>1, <3>2, FS_EmptySet
  <2>3. /\ 2 * Cardinality(Others') <= Twice(Cardinality(Others'))
        /\ Twice(Cardinality(Others')) \in Nat
      BY <1>8, <2>2, TwiceNext
  <2>4. TriesLeft'
      BY <1>8, <2>1, <2>3 DEF TriesLeft
  <2>5. Lock!LockJustified'
      BY <1>1, <1>3, <1>10, LockConstants DEF Lock!LockJustified
  <2> QED BY <1>1, <1>3, <1>10, <2>1, <2>4, <2>5, LockConstants DEF LockInv
<1>11. CASE failed + 1 > MaxFailures
  <2>1. reached' = reached /\ reached # 0 /\ locked' = until[h] /\ failed' # MaxFailures
      BY <1>1, <1>2, <1>3, <1>4, <1>11, LockConstants
  <2>2. Waiting' = Waiting \cup {h} /\ h \notin Waiting
      BY <1>2, <1>5 DEF Waiting
  <2>3. Cardinality(Waiting') = Cardinality(Waiting) + 1
      BY <1>7, <2>2, FS_AddElement
  <2>4. /\ 2 * late <= Twice(Cardinality(Others))
        /\ Opened => 2 * (late + Cardinality(Waiting)) <= Twice(Cardinality(Others))
      BY <2>1 DEF LockInv, TriesLeft
  <2>5. TriesLeft'
    <3>1. CASE h \in Early
      <4>1. Others' = Others \cup {h} /\ h \notin Others
          BY <1>5, <2>1, <3>1 DEF Others, Early
      <4>2. Cardinality(Others') = Cardinality(Others) + 1
          BY <1>7, <4>1, FS_AddElement
      <4>3. /\ Twice(Cardinality(Others')) = Twice(Cardinality(Others)) + 2 * Cardinality(Others) + 2
            /\ Twice(Cardinality(Others)) \in Nat
          BY <1>7, <4>2, TwiceNext
      <4>4. 2 * (late + Cardinality(Waiting')) <= Twice(Cardinality(Others'))
          BY <1>3, <1>7, <2>3, <2>4, <4>3
      <4>5. 2 * late <= Twice(Cardinality(Others'))
          BY <1>3, <1>7, <2>4, <4>3
      <4>6. late' = late
          BY <1>1
      <4> QED BY <4>4, <4>5, <4>6 DEF TriesLeft
    <3>2. CASE h \notin Early
      <4>1. Others' = Others
          BY <1>2, <1>5, <2>1, <3>2 DEF Others, Early
      <4>2. ~Opened'
          BY <1>2, <1>3, <2>1, <3>2, LockConstants DEF Opened, Early
      <4> QED BY <1>1, <2>4, <4>1, <4>2 DEF TriesLeft
    <3> QED BY <3>1, <3>2
  <2>6. Lock!LockJustified'
      BY <1>1, <1>3, <1>11, LockConstants DEF Lock!LockJustified
  <2> QED BY <1>1, <1>3, <1>4, <1>11, <2>1, <2>5, <2>6, LockConstants DEF LockInv
<1> QED BY <1>3, <1>9, <1>10, <1>11, LockConstants

\* Who resets the counter ends it all; time only passes.
LEMMA LockStep ==
    ASSUME LockInv, [Lock!Next]_lockVars PROVE LockInv'
<1>1. CASE Lock!Tick
  <2>1. now' = now + 1 /\ UNCHANGED <<failed, locked, login, until, reached, late>>
      BY <1>1 DEF Lock!Tick
  <2> QED BY <2>1 DEF LockInv, LockShape, Lock!LockJustified, TriesLeft, Others, Early,
          Waiting, Opened
<1>2. ASSUME /\ Lock!Forget /\ now' = now /\ until' \in [Handlers -> Nat]
             /\ login' \in [Handlers -> {"idle", "wrong", "right"}]
      PROVE  LockInv'
    BY <1>2, LockConstants
       DEF LockInv, LockShape, Lock!Forget, Lock!LockJustified, Lock!NoLock, TriesLeft
<1>3. CASE Lock!SetPassword
    BY <1>3, <1>2 DEF Lock!SetPassword, LockInv, LockShape
<1>4. ASSUME NEW h \in Handlers, Lock!Try(h) PROVE LockInv'
    BY <1>4, TryStep
<1>5. ASSUME NEW h \in Handlers, Lock!RecordFailed(h) PROVE LockInv'
    BY <1>5, RecordStep
<1>6. ASSUME NEW h \in Handlers, Lock!Clear(h) PROVE LockInv'
    BY <1>6, <1>2 DEF Lock!Clear, LockInv, LockShape
<1>7. CASE UNCHANGED lockVars
    BY <1>7 DEF lockVars, LockInv, LockShape, Lock!LockJustified, TriesLeft, Others,
       Early, Waiting, Opened
<1> QED BY <1>1, <1>3, <1>4, <1>5, <1>6, <1>7 DEF Lock!Next

\* However many logins race each other, none locks the account on fewer than
\* MaxFailures failures counted since the owner last got in (recordFailedLogin),
\* and n of them try at most n(n+1)/2 passwords on an account that should be
\* locked (handlePasswordLogin).
THEOREM LockIsHeld == SignInSpec => []LockHolds
<1>1. SignInInit => LockInv
    BY LockConstants
       DEF SignInInit, Lock!Init, LockInv, LockShape, Lock!LockJustified, Lock!NoLock, TriesLeft
<1>2. LockInv /\ [SignInNext]_<<part, vars, limiterVars, lockVars>> => LockInv'
  <2>1. [SignInNext]_<<part, vars, limiterVars, lockVars>> => [Lock!Next]_lockVars
      BY DEF SignInNext
  <2> QED BY <2>1, LockStep
<1>3. LockInv => LockHolds
  <2> SUFFICES ASSUME LockInv PROVE LockHolds
      OBVIOUS
  <2>1. Others \in SUBSET Handlers /\ {} \in SUBSET Others
      BY DEF Others
  <2>2. /\ Cardinality(Others) \in Nat /\ Cardinality(Handlers) \in Nat
        /\ Cardinality(Others) <= Cardinality(Handlers)
      BY <2>1, LockCounts
  <2>3. /\ Twice(Cardinality(Others)) \in Nat /\ Twice(Cardinality(Handlers)) \in Nat
        /\ Twice(Cardinality(Others)) <= Twice(Cardinality(Handlers))
      BY <2>2, TwiceMonotone
  <2>4. late \in Nat /\ (reached = 0 => late = 0)
        /\ (reached # 0 => 2 * late <= Twice(Cardinality(Others)))
      BY DEF LockInv, LockShape, TriesLeft
  <2>5. 2 * late <= Twice(Cardinality(Handlers))
      BY <2>3, <2>4
  <2> QED BY <2>5, LockCardinality DEF LockHolds, LockInv, Lock!LateBounded, Twice
<1> QED BY <1>1, <1>2, <1>3, PTL DEF SignInSpec

\* A nonempty set of naturals has a least element.
LEMMA LeastExists ==
    ASSUME NEW I \in SUBSET Nat, I # {}
    PROVE  \E x \in I : \A y \in I : x =< y
  <1>1. PICK x \in I : \A y \in I : ~(<<y, x>> \in OpToRel(<, Nat))
    BY WFMin, NatLessThanWellFounded
  <1>2. ASSUME NEW y \in I PROVE x =< y
    <2>1. x \in Nat /\ y \in Nat
      OBVIOUS
    <2>2. <<y, x>> \in Nat \X Nat /\ <<y, x>> \notin OpToRel(<, Nat)
      BY <1>1, <2>1
    <2>3. ~(<<y, x>>[1] < <<y, x>>[2])
      BY <2>2 DEF OpToRel
    <2> QED
      BY <2>1, <2>3
  <1> QED
    BY <1>2

-----------------------------------------------------------------------------
(* The limiter: what stalled logins can still set back.                    *)

\* What is left of a counter, and how many slots.
Pairs == Nat \X Nat

\* SetBacks, one level of its recursion.
SetBackStep(g, p) ==
    IF p[1] = 0 \/ p[2] = 0 THEN 0 ELSE g[<<p[1], p[2] - 1>>] + 1 + g[<<p[1] - 1, p[2]>>]

\* The recursion of SetBacks has a solution.
LEMMA SetBacksExist == \E g : g = [p \in Pairs |-> SetBackStep(g, p)]
  <1> DEFINE Low(m) == {p \in Pairs : p[1] + p[2] <= m}
             Good(m) == \E g : /\ g = [p \in Pairs |-> g[p]]
                               /\ \A p \in Low(m) : g[p] = SetBackStep(g, p)
             Unique(m) == \A g, h : /\ \A p \in Low(m) : g[p] = SetBackStep(g, p)
                                    /\ \A p \in Low(m) : h[p] = SetBackStep(h, p)
                                    => \A p \in Low(m) : g[p] = h[p]
             Bad == {m \in Nat : ~(Good(m) /\ Unique(m))}
  <1>1. Bad = {}
    <2>1. SUFFICES ASSUME Bad # {} PROVE FALSE
      OBVIOUS
    <2>2. PICK m \in Bad : \A k \in Bad : m =< k
      <3> HIDE DEF Good, Unique
      <3> QED
        BY <2>1, LeastExists
    <2>3. CASE m = 0
      <3>1. \A p \in Low(0) : \A g : SetBackStep(g, p) = 0
        BY DEF SetBackStep, Pairs
      <3>2. Unique(0)
        <4> HIDE DEF Low
        <4> QED
          BY <3>1
      <3>3. Good(0)
        <4> DEFINE g == [p \in Pairs |-> 0]
        <4>1. \A p \in Low(0) : g[p] = SetBackStep(g, p)
          BY <3>1
        <4> QED
          BY <4>1
      <3> QED
        BY <2>2, <2>3, <3>2, <3>3
    <2>4. CASE m # 0
      <3>1. m - 1 \in Nat /\ m - 1 < m /\ m \in Nat
        BY <2>4
      <3>2. Good(m - 1) /\ Unique(m - 1)
        <4> HIDE DEF Good, Unique
        <4> QED
          BY <2>2, <3>1
      <3>3. ASSUME NEW p \in Low(m), p[1] # 0, p[2] # 0
            PROVE  <<p[1], p[2] - 1>> \in Low(m - 1) /\ <<p[1] - 1, p[2]>> \in Low(m - 1)
        <4>1. PICK a \in Nat, b \in Nat : p = <<a, b>>
          BY DEF Pairs
        <4>2. a + b <= m /\ a # 0 /\ b # 0
          BY <3>3, <4>1
        <4>3. a - 1 \in Nat /\ b - 1 \in Nat /\ a + (b - 1) <= m - 1 /\ (a - 1) + b <= m - 1
          BY <3>1, <4>2
        <4> QED
          BY <4>1, <4>3 DEF Pairs
      <3>4. \A g, h : (\A p \in Low(m - 1) : g[p] = h[p])
                        => \A p \in Low(m) : SetBackStep(g, p) = SetBackStep(h, p)
        <4> HIDE DEF Low
        <4> QED
          BY <3>3 DEF SetBackStep
      <3>5. Low(m - 1) \subseteq Low(m)
        BY <3>1 DEF Pairs
      <3>6. Unique(m)
        <4> HIDE DEF Low
        <4> QED
          BY <3>2, <3>4, <3>5
      <3>7. Good(m)
        <4>1. PICK g : /\ g = [p \in Pairs |-> g[p]]
                       /\ \A p \in Low(m - 1) : g[p] = SetBackStep(g, p)
          BY <3>2
        <4> DEFINE h == [p \in Pairs |-> SetBackStep(g, p)]
        <4>2. \A p \in Low(m - 1) : h[p] = g[p]
          BY <4>1
        <4>3. \A p \in Low(m) : h[p] = SetBackStep(g, p)
          OBVIOUS
        <4>4. h = [p \in Pairs |-> h[p]]
          OBVIOUS
        <4> HIDE DEF h, Low
        <4>5. \A p \in Low(m) : h[p] = SetBackStep(h, p)
          BY <3>4, <4>2, <4>3
        <4> QED
          BY <4>4, <4>5
      <3> QED
        BY <2>2, <3>6, <3>7
    <2> QED
      BY <2>3, <2>4
  <1>2. \A m \in Nat : Good(m) /\ Unique(m)
    BY <1>1
  <1> DEFINE At(m) == CHOOSE g : /\ g = [p \in Pairs |-> g[p]]
                                 /\ \A p \in Low(m) : g[p] = SetBackStep(g, p)
             f == [p \in Pairs |-> At(p[1] + p[2])[p]]
  <1>3. ASSUME NEW m \in Nat PROVE \A p \in Low(m) : At(m)[p] = SetBackStep(At(m), p)
    <2>1. Good(m)
      BY <1>2
    <2> QED
      BY <2>1
  <1> HIDE DEF At
  <1>4. ASSUME NEW m \in Nat, NEW k \in Nat, k <= m
        PROVE  \A p \in Low(k) : At(k)[p] = At(m)[p]
    <2>1. Low(k) \subseteq Low(m)
      BY <1>4 DEF Pairs
    <2>2. Unique(k)
      BY <1>2
    <2> HIDE DEF Low
    <2>3. \A p \in Low(k) : At(k)[p] = SetBackStep(At(k), p)
      BY <1>3
    <2>4. \A p \in Low(k) : At(m)[p] = SetBackStep(At(m), p)
      BY <1>3, <2>1
    <2> QED
      BY <2>2, <2>3, <2>4
  <1>5. ASSUME NEW p \in Pairs PROVE f[p] = SetBackStep(f, p)
    <2>1. PICK a \in Nat, b \in Nat : p = <<a, b>>
      BY DEF Pairs
    <2> DEFINE m == a + b
    <2>2. m \in Nat /\ p \in Low(m) /\ f[p] = At(m)[p]
      BY <2>1 DEF Pairs
    <2>3. f[p] = SetBackStep(At(m), p)
      BY <1>3, <2>2
    <2>4. CASE a = 0 \/ b = 0
      BY <2>1, <2>3, <2>4 DEF SetBackStep
    <2>5. CASE a # 0 /\ b # 0
      <3> DEFINE q == <<a, b - 1>>
                 r == <<a - 1, b>>
      <3>1. /\ a - 1 \in Nat /\ b - 1 \in Nat /\ m - 1 \in Nat /\ m - 1 <= m
            /\ a + (b - 1) = m - 1 /\ (a - 1) + b = m - 1
        BY <2>5
      <3>2. q \in Low(m - 1) /\ r \in Low(m - 1) /\ q \in Pairs /\ r \in Pairs
        BY <3>1 DEF Pairs
      <3>3. f[q] = At(m - 1)[q] /\ f[r] = At(m - 1)[r]
        BY <3>1, <3>2
      <3>4. At(m - 1)[q] = At(m)[q] /\ At(m - 1)[r] = At(m)[r]
        BY <1>4, <2>2, <3>1, <3>2
      <3> HIDE DEF f, m
      <3>5. SetBackStep(At(m), p) = At(m)[q] + 1 + At(m)[r] /\ SetBackStep(f, p) = f[q] + 1 + f[r]
        BY <2>1, <2>5 DEF SetBackStep
      <3> QED
        BY <2>3, <3>3, <3>4, <3>5
    <2> QED
      BY <2>4, <2>5
  <1>6. f = [p \in Pairs |-> f[p]]
    OBVIOUS
  <1>7. f = [p \in Pairs |-> SetBackStep(f, p)]
    <2> HIDE DEF f
    <2> QED
      BY <1>5, <1>6
  <1> QED
    BY <1>7

\* How many logins n slots get past c values of a counter.
Budget(c, n) == Limiter!SetBacks[<<c, n>>]

\* The budget, one level of its recursion: a counter with values left and slots
\* to set it back.
LEMMA BudgetStep ==
    ASSUME NEW c \in Nat, NEW n \in Nat
    PROVE  Budget(c, n) = IF c = 0 \/ n = 0 THEN 0 ELSE Budget(c, n - 1) + 1 + Budget(c - 1, n)
  <1> DEFINE g == Limiter!SetBacks
  <1>1. g = CHOOSE h : h = [p \in Pairs |-> SetBackStep(h, p)]
    BY DEF Limiter!SetBacks, SetBackStep, Pairs
  <1>2. g = [p \in Pairs |-> SetBackStep(g, p)]
    BY <1>1, SetBacksExist
  <1> HIDE DEF g
  <1>3. <<c, n>> \in Pairs
    BY DEF Pairs
  <1>4. g[<<c, n>>] = SetBackStep(g, <<c, n>>)
    BY <1>2, <1>3
  <1> QED
    BY <1>4 DEF SetBackStep, Budget, g

\* The budget is a number, for any counter and any slots.
LEMMA BudgetType == \A c, n \in Nat : Budget(c, n) \in Nat
  <1> DEFINE Good(m) == \A c, n \in Nat : c + n <= m => Budget(c, n) \in Nat
             Bad == {m \in Nat : ~Good(m)}
  <1>1. Bad = {}
    <2>1. SUFFICES ASSUME Bad # {} PROVE FALSE
      OBVIOUS
    <2>2. PICK m \in Bad : \A k \in Bad : m =< k
      <3> HIDE DEF Good
      <3> QED
        BY <2>1, LeastExists
    <2>3. ASSUME NEW c \in Nat, NEW n \in Nat, c + n <= m PROVE Budget(c, n) \in Nat
      <3>1. CASE c = 0 \/ n = 0
        BY <3>1, BudgetStep
      <3>2. CASE c # 0 /\ n # 0
        <4>1. /\ c - 1 \in Nat /\ n - 1 \in Nat /\ m - 1 \in Nat /\ m - 1 < m
              /\ c + (n - 1) <= m - 1 /\ (c - 1) + n <= m - 1
          BY <2>2, <2>3, <3>2
        <4>2. Good(m - 1)
          <5> HIDE DEF Good
          <5> QED
            BY <2>2, <4>1
        <4>3. Budget(c, n - 1) \in Nat /\ Budget(c - 1, n) \in Nat
          BY <4>1, <4>2
        <4>4. Budget(c, n) = Budget(c, n - 1) + 1 + Budget(c - 1, n)
          BY <3>2, BudgetStep
        <4> QED
          BY <4>3, <4>4
      <3> QED
        BY <3>1, <3>2
    <2> QED
      BY <2>2, <2>3
  <1> SUFFICES ASSUME NEW c \in Nat, NEW n \in Nat PROVE Budget(c, n) \in Nat
    OBVIOUS
  <1>2. c + n \in Nat /\ c + n <= c + n
    OBVIOUS
  <1>3. Good(c + n)
    <2> HIDE DEF Good
    <2> QED
      BY <1>1, <1>2
  <1> QED
    BY <1>2, <1>3

\* More slots get no fewer logins past.
LEMMA BudgetMonotone ==
    ASSUME NEW c \in Nat, NEW n \in Nat, NEW m \in Nat, n <= m
    PROVE  Budget(c, n) <= Budget(c, m)
  <1> DEFINE Bad == {k \in Nat : ~(Budget(c, n) <= Budget(c, n + k))}
  <1>1. Bad = {}
    <2>1. SUFFICES ASSUME Bad # {} PROVE FALSE
      OBVIOUS
    <2>2. PICK k \in Bad : \A l \in Bad : k =< l
      BY <2>1, LeastExists
    <2>3. k # 0
      <3>1. n + 0 = n /\ Budget(c, n) \in Nat
        BY BudgetType
      <3> QED
        BY <2>2, <3>1
    <2>4. k - 1 \in Nat /\ k - 1 \notin Bad
      BY <2>2, <2>3
    <2>5. Budget(c, n) <= Budget(c, n + (k - 1))
      BY <2>4
    <2>6. Budget(c, n + (k - 1)) <= Budget(c, n + k)
      <3> DEFINE x == n + k
      <3>1. x \in Nat /\ x # 0 /\ x - 1 = n + (k - 1) /\ x - 1 \in Nat
        BY <2>2, <2>3
      <3> HIDE DEF x
      <3>2. Budget(c, x - 1) <= Budget(c, x)
        <4>1. CASE c = 0
          <5>1. Budget(c, x - 1) = 0 /\ Budget(c, x) = 0
            BY <3>1, <4>1, BudgetStep
          <5> QED
            BY <5>1
        <4>2. CASE c # 0
          <5>1. Budget(c, x) = Budget(c, x - 1) + 1 + Budget(c - 1, x)
            BY <3>1, <4>2, BudgetStep
          <5>2. c - 1 \in Nat
            BY <4>2
          <5>3. Budget(c, x - 1) \in Nat /\ Budget(c - 1, x) \in Nat
            BY <3>1, <5>2, BudgetType
          <5> QED
            BY <5>1, <5>3
        <4> QED
          BY <4>1, <4>2
      <3> QED
        BY <3>1, <3>2 DEF x
    <2>7. /\ Budget(c, n) \in Nat /\ Budget(c, n + k) \in Nat /\ n + (k - 1) \in Nat
          /\ Budget(c, n + (k - 1)) \in Nat
      BY <2>2, <2>4, BudgetType
    <2>8. Budget(c, n) <= Budget(c, n + k)
      BY <2>5, <2>6, <2>7
    <2> QED
      BY <2>2, <2>8
  <1>2. m - n \in Nat /\ n + (m - n) = m
    OBVIOUS
  <1> QED
    BY <1>1, <1>2

\* What h slots held back at one value are worth, with j values above it.
Weight(j, h) == IF h = 0 THEN 0 ELSE Budget(j + 1, h - 1) + 1

\* The weight of one slot more is the budget of all below it and one login more,
\* and more slots weigh no less.
LEMMA WeightFacts ==
    ASSUME NEW j \in Nat, NEW h \in Nat
    PROVE  /\ Weight(j, h) \in Nat
           /\ Budget(j + 1, h) = Budget(j, h) + Weight(j, h)
           /\ Weight(j, h + 1) = Budget(j + 1, h) + 1
           /\ \A k \in Nat : h <= k => Weight(j, h) <= Weight(j, k)
  <1>1. j + 1 \in Nat /\ j + 1 # 0 /\ (j + 1) - 1 = j
    OBVIOUS
  <1>2. CASE h = 0
    <2>1. Weight(j, 0) = 0
      BY DEF Weight
    <2>2. Budget(j + 1, 0) = 0 /\ Budget(j, 0) = 0
      BY <1>1, BudgetStep
    <2>3. Weight(j, 1) = Budget(j + 1, 0) + 1
      BY DEF Weight
    <2>4. \A k \in Nat : Weight(j, k) \in Nat
      <3>1. ASSUME NEW k \in Nat, k # 0 PROVE Budget(j + 1, k - 1) \in Nat
        BY <1>1, <3>1, BudgetType
      <3> QED
        BY <3>1 DEF Weight
    <2> QED
      BY <1>2, <2>1, <2>2, <2>3, <2>4
  <1>3. CASE h # 0
    <2>1. h - 1 \in Nat /\ h + 1 # 0 /\ (h + 1) - 1 = h
      BY <1>3
    <2>2. Weight(j, h) = Budget(j + 1, h - 1) + 1 /\ Weight(j, h + 1) = Budget(j + 1, h) + 1
      BY <1>3, <2>1 DEF Weight
    <2>3. Budget(j + 1, h - 1) \in Nat /\ Budget(j, h) \in Nat
      BY <1>1, <2>1, BudgetType
    <2>4. Budget(j + 1, h) = Budget(j + 1, h - 1) + 1 + Budget(j, h)
      BY <1>1, <1>3, BudgetStep
    <2>5. ASSUME NEW k \in Nat, h <= k PROVE Weight(j, h) <= Weight(j, k)
      <3>1. k - 1 \in Nat /\ h - 1 <= k - 1 /\ k # 0
        BY <1>3, <2>5
      <3>2. Budget(j + 1, h - 1) <= Budget(j + 1, k - 1)
        BY <1>1, <2>1, <3>1, BudgetMonotone
      <3>3. Budget(j + 1, k - 1) \in Nat
        BY <1>1, <3>1, BudgetType
      <3>4. Weight(j, k) = Budget(j + 1, k - 1) + 1
        BY <3>1 DEF Weight
      <3> QED
        BY <2>2, <2>3, <3>2, <3>3, <3>4
    <2> QED
      BY <2>2, <2>3, <2>4, <2>5
  <1> QED
    BY <1>2, <1>3

\* q adds up what g slots held back at each of m values are worth.
Adds(q, g, m) ==
  /\ q \in [0 .. m -> Nat] /\ q[0] = 0
  /\ \A j \in 0 .. m - 1 : q[j + 1] = q[j] + Weight(j, g[j])

\* Whatever is held back at each value, it adds up.
LEMMA SumExists ==
    ASSUME NEW m \in Nat, NEW g \in [0 .. m - 1 -> Nat]
    PROVE  \E q : Adds(q, g, m)
  <1> DEFINE Good(i) == \E q \in [0 .. m -> Nat] :
                           /\ q[0] = 0
                           /\ \A j \in 0 .. m - 1 : j < i => q[j + 1] = q[j] + Weight(j, g[j])
             Bad == {i \in Nat : i <= m /\ ~Good(i)}
  <1>1. Bad = {}
    <2>1. SUFFICES ASSUME Bad # {} PROVE FALSE
      OBVIOUS
    <2>2. PICK i \in Bad : \A k \in Bad : i =< k
      <3> HIDE DEF Good
      <3> QED
        BY <2>1, LeastExists
    <2>3. CASE i = 0
      <3> DEFINE q == [j \in 0 .. m |-> 0]
      <3>1. q \in [0 .. m -> Nat] /\ q[0] = 0
        OBVIOUS
      <3>2. \A j \in 0 .. m - 1 : ~(j < 0)
        OBVIOUS
      <3>3. Good(0)
        <4> HIDE DEF q
        <4> QED
          BY <3>1, <3>2
      <3> QED
        BY <2>2, <2>3, <3>3
    <2>4. CASE i # 0
      <3>1. i \in Nat /\ i <= m /\ i - 1 \in Nat /\ i - 1 < i /\ i - 1 <= m
        BY <2>2, <2>4
      <3>2. Good(i - 1)
        <4> HIDE DEF Good
        <4> QED
          BY <2>2, <3>1
      <3>3. PICK q \in [0 .. m -> Nat] :
               /\ q[0] = 0
               /\ \A j \in 0 .. m - 1 : j < i - 1 => q[j + 1] = q[j] + Weight(j, g[j])
        BY <3>2
      <3> DEFINE w == q[i - 1] + Weight(i - 1, g[i - 1])
                 r == [j \in 0 .. m |-> IF j = i THEN w ELSE q[j]]
      <3>4. w \in Nat
        <4>1. i - 1 \in 0 .. m - 1 /\ i - 1 \in 0 .. m
          BY <3>1
        <4>2. g[i - 1] \in Nat /\ q[i - 1] \in Nat
          BY <3>3, <4>1
        <4>3. Weight(i - 1, g[i - 1]) \in Nat
          BY <3>1, <4>2, WeightFacts
        <4> QED
          BY <4>2, <4>3
      <3>5. r \in [0 .. m -> Nat] /\ r[0] = 0
        <4> HIDE DEF w
        <4> QED
          BY <3>1, <3>3, <3>4
      <3>6. ASSUME NEW j \in 0 .. m - 1, j < i PROVE r[j + 1] = r[j] + Weight(j, g[j])
        <4>1. j \in 0 .. m /\ j + 1 \in 0 .. m /\ j # i
          BY <3>1, <3>6
        <4>2. CASE j = i - 1
          <5>1. j + 1 = i /\ r[j + 1] = w /\ r[j] = q[j]
            BY <3>1, <4>1, <4>2
          <5> QED
            BY <4>2, <5>1
        <4>3. CASE j # i - 1
          <5>1. j < i - 1 /\ j + 1 # i
            BY <3>1, <3>6, <4>3
          <5> HIDE DEF w
          <5>2. r[j + 1] = q[j + 1] /\ r[j] = q[j]
            BY <4>1, <5>1
          <5> QED
            BY <3>3, <5>1, <5>2
        <4> QED
          BY <4>2, <4>3
      <3>7. Good(i)
        <4> HIDE DEF r
        <4> QED
          BY <3>5, <3>6
      <3> QED
        BY <2>2, <3>7
    <2> QED
      BY <2>3, <2>4
  <1>2. Good(m)
    <2> HIDE DEF Good
    <2>1. m \in Nat /\ m <= m
      OBVIOUS
    <2> QED
      BY <1>1, <2>1
  <1>3. \A j \in 0 .. m - 1 : j < m
    OBVIOUS
  <1> QED
    BY <1>2, <1>3 DEF Adds

\* Sums grow with what is held back.
LEMMA SumMonotone ==
    ASSUME NEW m \in Nat, NEW g \in [0 .. m - 1 -> Nat], NEW f \in [0 .. m - 1 -> Nat],
           NEW q, Adds(q, g, m), NEW r, Adds(r, f, m),
           NEW i \in 0 .. m, NEW d \in Nat, q[i] + d <= r[i],
           \A j \in 0 .. m - 1 : i <= j => g[j] <= f[j]
    PROVE  q[m] + d <= r[m]
  <1> DEFINE Bad == {k \in Nat : i + k <= m /\ ~(q[i + k] + d <= r[i + k])}
  <1>1. Bad = {}
    <2>1. SUFFICES ASSUME Bad # {} PROVE FALSE
      OBVIOUS
    <2>2. PICK k \in Bad : \A l \in Bad : k =< l
      BY <2>1, LeastExists
    <2>3. k # 0
      <3>1. i + 0 = i
        OBVIOUS
      <3> QED
        BY <2>2, <3>1
    <2> DEFINE j == i + (k - 1)
    <2>4. /\ k \in Nat /\ k - 1 \in Nat /\ j \in 0 .. m - 1 /\ j + 1 = i + k /\ i <= j
          /\ j \in 0 .. m /\ j + 1 \in 0 .. m /\ j \in Nat /\ j <= m
      BY <2>2, <2>3
    <2>5. q[j] + d <= r[j]
      <3>1. i + (k - 1) <= m /\ ~(k =< k - 1)
        BY <2>4
      <3>2. k - 1 \notin Bad
        BY <2>2, <3>1
      <3> QED
        BY <2>4, <3>1, <3>2
    <2> HIDE DEF j
    <2>6. /\ q[j + 1] = q[j] + Weight(j, g[j]) /\ r[j + 1] = r[j] + Weight(j, f[j])
          /\ q[j] \in Nat /\ r[j] \in Nat
      BY <2>4 DEF Adds
    <2>7. g[j] \in Nat /\ f[j] \in Nat /\ g[j] <= f[j]
      BY <2>4
    <2>8. /\ Weight(j, g[j]) \in Nat /\ Weight(j, f[j]) \in Nat
          /\ Weight(j, g[j]) <= Weight(j, f[j])
      BY <2>4, <2>7, WeightFacts
    <2>9. q[j + 1] + d <= r[j + 1]
      BY <2>5, <2>6, <2>8
    <2> QED
      BY <2>2, <2>4, <2>9
  <1>2. m - i \in Nat /\ i + (m - i) = m /\ i + (m - i) <= m
    OBVIOUS
  <1>3. m - i \notin Bad
    BY <1>1
  <1>4. q[i + (m - i)] + d <= r[i + (m - i)]
    BY <1>2, <1>3
  <1> QED
    BY <1>2, <1>4

\* Held back by at most h slots at each of m values, no more than the budget of h.
LEMMA SumBounded ==
    ASSUME NEW m \in Nat, NEW g \in [0 .. m - 1 -> Nat], NEW q, Adds(q, g, m),
           NEW h \in Nat, NEW i \in 0 .. m, \A j \in 0 .. m - 1 : j < i => g[j] <= h
    PROVE  q[i] <= Budget(i, h)
  <1> DEFINE Bad == {k \in Nat : k <= i /\ ~(q[k] <= Budget(k, h))}
  <1>1. Bad = {}
    <2>1. SUFFICES ASSUME Bad # {} PROVE FALSE
      OBVIOUS
    <2>2. PICK k \in Bad : \A l \in Bad : k =< l
      BY <2>1, LeastExists
    <2>3. k # 0
      <3>1. Budget(0, h) \in Nat /\ q[0] = 0
        BY BudgetType DEF Adds
      <3> QED
        BY <2>2, <3>1
    <2> DEFINE j == k - 1
    <2>4. /\ k \in Nat /\ j \in Nat /\ j + 1 = k /\ j \in 0 .. m - 1 /\ j < i /\ j \in 0 .. m
      BY <2>2, <2>3
    <2>5. q[j] <= Budget(j, h)
      BY <2>2, <2>4
    <2> HIDE DEF j
    <2>6. q[j + 1] = q[j] + Weight(j, g[j]) /\ q[j] \in Nat
      BY <2>4 DEF Adds
    <2>7. g[j] \in Nat /\ g[j] <= h
      BY <2>4
    <2>8. /\ Weight(j, g[j]) \in Nat /\ Weight(j, h) \in Nat /\ Weight(j, g[j]) <= Weight(j, h)
          /\ Budget(j + 1, h) = Budget(j, h) + Weight(j, h) /\ Budget(j, h) \in Nat
      BY <2>4, <2>7, WeightFacts, BudgetType
    <2>9. q[j + 1] <= Budget(j + 1, h)
      BY <2>5, <2>6, <2>8
    <2> QED
      BY <2>2, <2>4, <2>9
  <1> QED
    BY <1>1

\* One write: one slot more is held back at value j, no fewer at the values below
\* (later in the sum), and whatever it ran over above is paid for.
LEMMA SumGain ==
    ASSUME NEW m \in Nat, NEW g \in [0 .. m - 1 -> Nat], NEW f \in [0 .. m - 1 -> Nat],
           NEW q, Adds(q, g, m), NEW r, Adds(r, f, m), NEW i \in 0 .. m - 1,
           \A j \in 0 .. m - 1 : j < i => g[j] <= g[i],
           g[i] + 1 <= f[i],
           \A j \in 0 .. m - 1 : i + 1 <= j => g[j] <= f[j]
    PROVE  q[m] + 1 <= r[m]
  <1>1. i \in Nat /\ i \in 0 .. m /\ i + 1 \in 0 .. m
    OBVIOUS
  <1>2. g[i] \in Nat /\ f[i] \in Nat
    OBVIOUS
  <1>3. q[i] <= Budget(i, g[i])
    BY <1>1, <1>2, SumBounded
  <1>4. /\ Weight(i, g[i]) \in Nat /\ Budget(i + 1, g[i]) = Budget(i, g[i]) + Weight(i, g[i])
        /\ Weight(i, g[i] + 1) = Budget(i + 1, g[i]) + 1 /\ Budget(i, g[i]) \in Nat
        /\ Weight(i, g[i] + 1) <= Weight(i, f[i]) /\ Weight(i, f[i]) \in Nat
        /\ Weight(i, g[i] + 1) \in Nat
    <2>1. g[i] + 1 \in Nat
      BY <1>2
    <2> QED
      BY <1>1, <1>2, <2>1, WeightFacts, BudgetType
  <1>5. /\ q[i + 1] = q[i] + Weight(i, g[i]) /\ q[i] \in Nat
        /\ r[i + 1] = r[i] + Weight(i, f[i]) /\ r[i] \in Nat
    BY <1>1 DEF Adds
  <1>6. Budget(i, g[i]) + Weight(i, g[i]) + 1 <= Weight(i, f[i])
    BY <1>4
  <1>7. q[i] + Weight(i, g[i]) + 1 <= r[i] + Weight(i, f[i])
    <2> DEFINE b == Budget(i, g[i])
               w == Weight(i, g[i])
               x == Weight(i, f[i])
               y == q[i]
               z == r[i]
    <2>1. b \in Nat /\ w \in Nat /\ x \in Nat /\ y \in Nat /\ z \in Nat /\ y <= b /\ b + w + 1 <= x
      BY <1>3, <1>4, <1>5, <1>6
    <2> HIDE DEF b, w, x, y, z
    <2>2. y + w + 1 <= z + x
      BY <2>1
    <2> QED
      BY <2>2 DEF b, w, x, y, z
  <1>8. q[i + 1] + 1 <= r[i + 1]
    BY <1>5, <1>7
  <1> QED
    BY <1>1, <1>8, SumMonotone

\* The limit of a key, and the value a row stands for at time t: a blocked one is past
\* the limit, one whose window has passed counts as none.
Cap(k) == Limiter!Limit[k]
Level(r, k, t) ==
    IF r.until # 0 /\ t < r.until THEN Cap(k) + 1
    ELSE IF r.exists /\ t - r.start < Window THEN r.count ELSE 0

\* A row carries a block exactly on the first refused attempt, and no block ends
\* before the window it was set in; no window starts in the future.
RowSound(r, k, t) ==
  /\ r \in Limiter!Row /\ r.count <= Cap(k) + 1 /\ r.start <= t
  /\ r.until # 0 <=> r.count = Cap(k) + 1
  /\ r.until # 0 => r.start + Window <= r.until

\* The parts of the limiter's state, and the rows it keeps or is about to write.
LimiterShape ==
  /\ clock \in 0 .. MaxClock
  /\ addresses \in [Limiter!Keys -> Limiter!Row]
  /\ \A k \in Limiter!Keys : RowSound(addresses[k], k, clock)
  /\ stage \in [Handlers -> {"idle", "read", "write", "verify"}]
  /\ key \in [Handlers -> Limiter!Keys]
  /\ new \in [Handlers -> Limiter!Row]
  /\ \A h \in Handlers : stage[h] = "write" => RowSound(new[h], key[h], clock)
  /\ admitted \in [Limiter!Keys -> Nat]

\* The value a login has read, or could read next, and will set the row to; one
\* that waits to write is held back at that value.
Value(k, h) == IF stage[h] = "write" /\ key[h] = k THEN Level(new[h], k, clock)
               ELSE Level(addresses[k], k, clock) + 1

Above(k) == [x \in 0 .. Cap(k) |-> {h \in Handlers : Value(k, h) > x}]

\* What admitted logins a is paid for by the slots held back above each value up
\* to n, F.
HeldBack(F, n) == [j \in 0 .. n |-> Cardinality(F[n - j])]
PaidFor(F, n, a) == \E q : Adds(q, HeldBack(F, n), n + 1) /\ a <= q[n + 1]

Paid(k) == PaidFor(Above(k), Cap(k), admitted[k])

\* The inductive invariant: sound rows, and every admitted login paid for.
LimiterInv == LimiterShape /\ \A k \in Limiter!Keys : Paid(k)

\* The constants, as numbers.
LEMMA LimiterConstants ==
    /\ IsFiniteSet(Handlers) /\ MaxClock \in Nat /\ Window \in Nat /\ Window >= 1
    /\ \A k \in Limiter!Keys : Cap(k) \in Nat /\ Cap(k) >= 1
  BY GrantsAssumption, SignInAssumption
     DEF Limiter!LimiterAssumption, Limiter!Keys, Limiter!Limit, Cap

\* The values of sound rows.
LEMMA LevelType ==
    ASSUME NEW k \in Limiter!Keys, NEW r, NEW t, RowSound(r, k, t)
    PROVE  Level(r, k, t) \in 0 .. Cap(k) + 1
  <1>1. Cap(k) \in Nat /\ r.count \in Nat
    BY LimiterConstants DEF RowSound, Limiter!Row
  <1> QED
    BY <1>1 DEF Level, RowSound

\* consume() computes a row one value up.
LEMMA CountedUp ==
    ASSUME NEW k \in Limiter!Keys, NEW r, RowSound(r, k, clock), ~Limiter!Blocked(r),
           clock \in 0 .. MaxClock
    PROVE  /\ RowSound(Limiter!Counted(r, Cap(k)), k, clock)
           /\ Level(Limiter!Counted(r, Cap(k)), k, clock) = Level(r, k, clock) + 1
  <1> DEFINE c == Limiter!Counted(r, Cap(k))
             n == IF Limiter!InWindow(r) THEN r.count + 1 ELSE 1
  <1>1. /\ Cap(k) \in Nat /\ Cap(k) >= 1 /\ Window \in Nat /\ Window >= 1 /\ MaxClock \in Nat
        /\ clock \in Nat /\ clock <= MaxClock
    BY LimiterConstants
  <1>2. r.start \in 0 .. MaxClock /\ r.count \in Nat /\ r.until \in 0 .. MaxClock + Window
    BY DEF RowSound, Limiter!Row
  <1>3. c = [start |-> IF Limiter!InWindow(r) THEN r.start ELSE clock, count |-> n,
             until |-> IF n > Cap(k) THEN clock + Window ELSE 0, exists |-> TRUE]
    BY DEF Limiter!Counted
  <1>4. Limiter!InWindow(r) => r.count <= Cap(k) /\ clock - r.start < Window
    <2>1. ASSUME Limiter!InWindow(r), r.until # 0 PROVE FALSE
      <3>1. r.start + Window <= r.until /\ ~(clock < r.until) /\ clock - r.start < Window
        BY <2>1 DEF RowSound, Limiter!Blocked, Limiter!InWindow
      <3> QED
        BY <1>1, <1>2, <3>1
    <2>2. Limiter!InWindow(r) => clock - r.start < Window
      BY DEF Limiter!InWindow
    <2> QED
      BY <1>1, <1>2, <2>1, <2>2 DEF RowSound
  <1> HIDE DEF c
  <1>5. /\ c.start = IF Limiter!InWindow(r) THEN r.start ELSE clock
        /\ c.count = n /\ c.exists = TRUE
        /\ c.until = IF n > Cap(k) THEN clock + Window ELSE 0
    BY <1>3
  <1>6. n \in Nat /\ n <= Cap(k) + 1 /\ n >= 1
    BY <1>1, <1>2, <1>4
  <1>7. c.start \in 0 .. MaxClock /\ c.until \in 0 .. MaxClock + Window
    BY <1>1, <1>2, <1>5, <1>6
  <1>8. c \in Limiter!Row
    <2>1. TRUE \in BOOLEAN
      OBVIOUS
    <2> DEFINE a == IF Limiter!InWindow(r) THEN r.start ELSE clock
               u == IF n > Cap(k) THEN clock + Window ELSE 0
    <2>2. a \in 0 .. MaxClock /\ u \in 0 .. MaxClock + Window
      BY <1>5, <1>7
    <2>3. c = [start |-> a, count |-> n, until |-> u, exists |-> TRUE]
      BY <1>3
    <2> HIDE DEF a, u, n
    <2> QED
      BY <1>6, <2>1, <2>2, <2>3 DEF Limiter!Row
  <1>9. /\ c.until # 0 <=> c.count = Cap(k) + 1
        /\ c.until # 0 => c.start + Window <= c.until
    <2>1. c.start <= clock
      BY <1>1, <1>5 DEF RowSound
    <2> QED
      BY <1>1, <1>2, <1>5, <1>6, <2>1
  <1>10. Limiter!InWindow(c)
    <2>1. clock - c.start < Window
      BY <1>1, <1>4, <1>5
    <2> QED
      BY <1>5, <2>1 DEF Limiter!InWindow
  <1>11. Limiter!Blocked(c) <=> n > Cap(k)
    BY <1>1, <1>5 DEF Limiter!Blocked
  <1>12. Level(c, k, clock) = n
    BY <1>1, <1>5, <1>6, <1>10, <1>11 DEF Level, Limiter!Blocked, Limiter!InWindow
  <1>13. Level(r, k, clock) + 1 = n
    BY <1>2 DEF Level, Limiter!Blocked, Limiter!InWindow
  <1> QED
    BY <1>5, <1>6, <1>8, <1>9, <1>12, <1>13 DEF RowSound, c

\* Time passing leaves a row sound.
LEMMA SoundLater ==
    ASSUME NEW k, NEW r, NEW t, NEW u, RowSound(r, k, t), r.start <= u
    PROVE  RowSound(r, k, u)
  BY DEF RowSound

\* The row a deleted counter stands for is sound, and of value 0.
LEMMA NoRowSound ==
    ASSUME NEW k \in Limiter!Keys, NEW t \in 0 .. MaxClock
    PROVE  RowSound(Limiter!NoRow, k, t) /\ Level(Limiter!NoRow, k, t) = 0
  <1>1. /\ Limiter!NoRow.start = 0 /\ Limiter!NoRow.count = 0 /\ Limiter!NoRow.until = 0
        /\ Limiter!NoRow.exists = FALSE
    BY DEF Limiter!NoRow
  <1>2. Limiter!NoRow \in Limiter!Row
    <2>1. 0 \in 0 .. MaxClock /\ 0 \in 0 .. MaxClock + Window /\ 0 \in Nat
      BY LimiterConstants
    <2>2. FALSE \in BOOLEAN
      OBVIOUS
    <2> QED
      BY <2>1, <2>2 DEF Limiter!NoRow, Limiter!Row
  <1>3. Cap(k) \in Nat /\ Cap(k) >= 1
    BY LimiterConstants
  <1> QED
    BY <1>1, <1>2, <1>3 DEF RowSound, Level

\* The limiter's rows, kept or about to be written, stay sound.
LEMMA LimiterShapeStep == LimiterShape /\ [Limiter!Next]_limiterVars => LimiterShape'
  <1> SUFFICES ASSUME LimiterShape, [Limiter!Next]_limiterVars
               PROVE  LimiterShape'
    OBVIOUS
  <1>0. /\ clock \in 0 .. MaxClock /\ MaxClock \in Nat /\ Window \in Nat
        /\ addresses \in [Limiter!Keys -> Limiter!Row]
        /\ \A k \in Limiter!Keys : RowSound(addresses[k], k, clock)
        /\ stage \in [Handlers -> {"idle", "read", "write", "verify"}]
        /\ key \in [Handlers -> Limiter!Keys]
        /\ new \in [Handlers -> Limiter!Row]
        /\ \A h \in Handlers : stage[h] = "write" => RowSound(new[h], key[h], clock)
        /\ admitted \in [Limiter!Keys -> Nat]
    BY LimiterConstants DEF LimiterShape
  <1>1. Limiter!NoRow \in Limiter!Row
    BY NoRowSound, <1>0 DEF Limiter!Keys, RowSound
  <1>2. CASE Limiter!Tick
    <2>1. /\ clock' = clock + 1 /\ clock' \in 0 .. MaxClock
          /\ addresses' = addresses /\ stage' = stage /\ key' = key /\ new' = new
          /\ admitted' \in [Limiter!Keys -> Nat]
      BY <1>0, <1>2 DEF Limiter!Tick
    <2>2. ASSUME NEW r, NEW k, RowSound(r, k, clock) PROVE RowSound(r, k, clock')
      <3>1. r.start <= clock /\ r.start \in Nat
        BY <1>0, <2>2 DEF RowSound, Limiter!Row
      <3>2. r.start <= clock'
        BY <1>0, <2>1, <3>1
      <3> QED
        BY <2>2, <3>2, SoundLater
    <2>3. \A k \in Limiter!Keys : RowSound(addresses'[k], k, clock')
      BY <1>0, <2>1, <2>2
    <2>4. \A h \in Handlers : stage'[h] = "write" => RowSound(new'[h], key'[h], clock')
      BY <1>0, <2>1, <2>2
    <2> QED
      BY <1>0, <2>1, <2>3, <2>4 DEF LimiterShape
  <1>3. ASSUME NEW s \in Handlers,
               Limiter!Begin(s) \/ Limiter!ConsumeRead(s) \/ Limiter!ConsumeWrite(s)
                 \/ Limiter!Reject(s) \/ Limiter!Reset(s)
        PROVE  LimiterShape'
    <2>1. CASE Limiter!Begin(s)
      <3>1. /\ clock' = clock /\ addresses' = addresses /\ new' = new /\ admitted' = admitted
            /\ stage' = [stage EXCEPT ![s] = "read"] /\ key' = [key EXCEPT ![s] = "ip"]
        BY <2>1 DEF Limiter!Begin
      <3>2. \A h \in Handlers : stage'[h] = "write" => RowSound(new'[h], key'[h], clock')
        BY <1>0, <3>1
      <3>3. key' \in [Handlers -> Limiter!Keys]
        BY <1>0, <3>1 DEF Limiter!Keys
      <3>4. stage' \in [Handlers -> {"idle", "read", "write", "verify"}]
        BY <1>0, <3>1
      <3> QED
        BY <1>0, <3>1, <3>2, <3>3, <3>4 DEF LimiterShape
    <2>2. CASE Limiter!ConsumeRead(s)
      <3>1. /\ clock' = clock /\ addresses' = addresses /\ key' = key /\ admitted' = admitted
            /\ key[s] \in Limiter!Keys
        BY <1>0, <2>2 DEF Limiter!ConsumeRead
      <3>2. CASE Limiter!Blocked(addresses[key[s]])
        <4>1. stage' = [stage EXCEPT ![s] = "idle"] /\ new' = new
          BY <2>2, <3>2 DEF Limiter!ConsumeRead
        <4>2. \A h \in Handlers : stage'[h] = "write" => RowSound(new'[h], key'[h], clock')
          BY <1>0, <3>1, <4>1
        <4>3. stage' \in [Handlers -> {"idle", "read", "write", "verify"}]
          BY <1>0, <4>1
        <4> QED
          BY <1>0, <3>1, <4>1, <4>2, <4>3 DEF LimiterShape
      <3>3. CASE ~Limiter!Blocked(addresses[key[s]])
        <4> DEFINE c == Limiter!Counted(addresses[key[s]], Cap(key[s]))
        <4>1. stage' = [stage EXCEPT ![s] = "write"] /\ new' = [new EXCEPT ![s] = c]
          BY <2>2, <3>3 DEF Limiter!ConsumeRead, Cap
        <4>2. RowSound(c, key[s], clock)
          <5>1. RowSound(addresses[key[s]], key[s], clock)
            BY <1>0, <3>1
          <5> HIDE DEF c
          <5> QED
            BY <1>0, <3>1, <3>3, <5>1, CountedUp DEF c
        <4>3. c \in Limiter!Row
          <5> HIDE DEF c
          <5> QED
            BY <4>2 DEF RowSound
        <4> HIDE DEF c
        <4>4. new' \in [Handlers -> Limiter!Row]
          BY <1>0, <4>1, <4>3
        <4>5. stage' \in [Handlers -> {"idle", "read", "write", "verify"}]
          BY <1>0, <4>1
        <4>6. \A h \in Handlers : stage'[h] = "write" => RowSound(new'[h], key'[h], clock')
          BY <1>0, <3>1, <4>1, <4>2
        <4> QED
          BY <1>0, <3>1, <4>4, <4>5, <4>6 DEF LimiterShape
      <3> QED
        BY <3>2, <3>3
    <2>3. CASE Limiter!ConsumeWrite(s)
      <3>1. /\ clock' = clock /\ stage[s] = "write"
            /\ addresses' = [addresses EXCEPT ![key[s]] = new[s]]
            /\ new' = [new EXCEPT ![s] = Limiter!NoRow]
        BY <2>3 DEF Limiter!ConsumeWrite
      <3>2. RowSound(new[s], key[s], clock) /\ new[s] \in Limiter!Row /\ key[s] \in Limiter!Keys
        BY <1>0, <3>1
      <3>3. /\ addresses' \in [Limiter!Keys -> Limiter!Row]
            /\ \A k \in Limiter!Keys : RowSound(addresses'[k], k, clock')
        BY <1>0, <3>1, <3>2
      <3>4. new' \in [Handlers -> Limiter!Row]
        BY <1>0, <1>1, <3>1
      <3>5. \E p \in {"idle", "read", "verify"} : stage' = [stage EXCEPT ![s] = p]
        BY <2>3 DEF Limiter!ConsumeWrite
      <3>6. key' = key \/ key' = [key EXCEPT ![s] = "pair"]
        BY <2>3 DEF Limiter!ConsumeWrite
      <3>7. key' \in [Handlers -> Limiter!Keys] /\ \A h \in Handlers \ {s} : key'[h] = key[h]
        BY <1>0, <3>6 DEF Limiter!Keys
      <3>8. /\ stage' \in [Handlers -> {"idle", "read", "write", "verify"}]
            /\ \A h \in Handlers : stage'[h] = "write" => h # s /\ stage[h] = "write"
        BY <1>0, <3>5
      <3>9. admitted' \in [Limiter!Keys -> Nat]
        <4>1. admitted' = admitted \/ admitted' = [admitted EXCEPT ![key[s]] = @ + 1]
          BY <2>3 DEF Limiter!ConsumeWrite
        <4> QED
          BY <1>0, <3>2, <4>1
      <3>10. \A h \in Handlers : stage'[h] = "write" => RowSound(new'[h], key'[h], clock')
        BY <1>0, <3>1, <3>7, <3>8
      <3> QED
        BY <1>0, <3>1, <3>3, <3>4, <3>7, <3>8, <3>9, <3>10 DEF LimiterShape
    <2>4. CASE Limiter!Reject(s)
      <3>1. /\ clock' = clock /\ addresses' = addresses /\ new' = new /\ admitted' = admitted
            /\ key' = key /\ stage' = [stage EXCEPT ![s] = "idle"]
        BY <2>4 DEF Limiter!Reject
      <3>2. \A h \in Handlers : stage'[h] = "write" => RowSound(new'[h], key'[h], clock')
        BY <1>0, <3>1
      <3>3. stage' \in [Handlers -> {"idle", "read", "write", "verify"}]
        BY <1>0, <3>1
      <3> QED
        BY <1>0, <3>1, <3>2, <3>3 DEF LimiterShape
    <2>5. CASE Limiter!Reset(s)
      <3>1. /\ clock' = clock /\ addresses' = [k \in Limiter!Keys |-> Limiter!NoRow]
            /\ new' = new /\ admitted' \in [Limiter!Keys -> Nat]
            /\ key' = key /\ stage' = [stage EXCEPT ![s] = "idle"]
        BY <2>5 DEF Limiter!Reset
      <3>2. \A h \in Handlers : stage'[h] = "write" => RowSound(new'[h], key'[h], clock')
        BY <1>0, <3>1
      <3>3. stage' \in [Handlers -> {"idle", "read", "write", "verify"}]
        BY <1>0, <3>1
      <3>4. /\ addresses' \in [Limiter!Keys -> Limiter!Row]
            /\ \A k \in Limiter!Keys : RowSound(addresses'[k], k, clock')
        BY <1>0, <1>1, <3>1, NoRowSound
      <3> QED
        BY <1>0, <3>1, <3>2, <3>3, <3>4 DEF LimiterShape
    <2> QED
      BY <1>3, <2>1, <2>2, <2>3, <2>4, <2>5
  <1>4. CASE UNCHANGED limiterVars
    <2>1. /\ clock' = clock /\ addresses' = addresses /\ new' = new /\ admitted' = admitted
          /\ key' = key /\ stage' = stage
      BY <1>4 DEF limiterVars
    <2> QED
      BY <1>0, <2>1 DEF LimiterShape
  <1>5. Limiter!Next \/ UNCHANGED limiterVars
    BY DEF Limiter!vars, limiterVars
  <1> QED
    BY <1>2, <1>3, <1>4, <1>5 DEF Limiter!Next

\* How many slots are held back is a number, and grows with the slots.
LEMMA HeldBackType ==
    ASSUME NEW n \in Nat, NEW F \in [0 .. n -> SUBSET Handlers]
    PROVE  /\ HeldBack(F, n) \in [0 .. (n + 1) - 1 -> Nat]
           /\ \A j \in 0 .. n : /\ n - j \in 0 .. n /\ IsFiniteSet(F[n - j])
                                /\ HeldBack(F, n)[j] = Cardinality(F[n - j])
  <1>1. \A j \in 0 .. n : n - j \in 0 .. n
    OBVIOUS
  <1>2. \A x \in 0 .. n : IsFiniteSet(F[x]) /\ Cardinality(F[x]) \in Nat
    <2>1. ASSUME NEW x \in 0 .. n PROVE IsFiniteSet(F[x]) /\ Cardinality(F[x]) \in Nat
      <3>1. F[x] \subseteq Handlers
        OBVIOUS
      <3>2. IsFiniteSet(F[x])
        BY <3>1, LimiterConstants, FS_Subset
      <3> QED
        BY <3>2, FS_CardinalityType
    <2> QED
      BY <2>1
  <1>3. (n + 1) - 1 = n
    OBVIOUS
  <1> QED
    BY <1>1, <1>2, <1>3 DEF HeldBack

\* No admitted login needs paying for.
LEMMA PaidNothing ==
    ASSUME NEW n \in Nat, NEW F \in [0 .. n -> SUBSET Handlers]
    PROVE  PaidFor(F, n, 0)
  <1>1. n + 1 \in Nat /\ n + 1 \in 0 .. n + 1
    OBVIOUS
  <1>2. PICK q : Adds(q, HeldBack(F, n), n + 1)
    BY <1>1, HeldBackType, SumExists
  <1>3. q[n + 1] \in Nat
    BY <1>1, <1>2 DEF Adds
  <1> QED
    BY <1>2, <1>3 DEF PaidFor

\* What is paid for stays so while no slot comes free and nothing is admitted.
LEMMA PaidKept ==
    ASSUME NEW n \in Nat, NEW F \in [0 .. n -> SUBSET Handlers],
           NEW G \in [0 .. n -> SUBSET Handlers], \A x \in 0 .. n : F[x] \subseteq G[x],
           NEW a \in Nat, NEW b \in Nat, b <= a, PaidFor(F, n, a)
    PROVE  PaidFor(G, n, b)
  <1> DEFINE m == n + 1
             g == HeldBack(F, n)
             f == HeldBack(G, n)
  <1>1. m \in Nat /\ m \in 0 .. m /\ 0 \in 0 .. m /\ 0 \in Nat
    OBVIOUS
  <1>2. g \in [0 .. m - 1 -> Nat] /\ f \in [0 .. m - 1 -> Nat]
    BY HeldBackType
  <1>3. PICK q : Adds(q, g, m) /\ a <= q[m]
    BY DEF PaidFor
  <1>4. PICK r : Adds(r, f, m)
    BY <1>1, <1>2, SumExists
  <1>5. \A j \in 0 .. n : g[j] <= f[j]
    <2>1. ASSUME NEW j \in 0 .. n PROVE g[j] <= f[j]
      <3>1. /\ n - j \in 0 .. n /\ IsFiniteSet(G[n - j])
            /\ g[j] = Cardinality(F[n - j]) /\ f[j] = Cardinality(G[n - j])
        BY HeldBackType
      <3>2. F[n - j] \subseteq G[n - j]
        BY <3>1
      <3> QED
        BY <3>1, <3>2, FS_Subset
    <2> QED
      BY <2>1
  <1>6. \A j \in 0 .. m - 1 : 0 <= j => g[j] <= f[j]
    BY <1>5
  <1>7. q[0] + 0 <= r[0]
    BY <1>3, <1>4 DEF Adds
  <1>8. q[m] \in Nat /\ r[m] \in Nat
    BY <1>1, <1>3, <1>4 DEF Adds
  <1> HIDE DEF m, g, f
  <1>9. q[m] + 0 <= r[m]
    BY <1>1, <1>2, <1>3, <1>4, <1>6, <1>7, SumMonotone
  <1>10. b <= r[m]
    BY <1>3, <1>8, <1>9
  <1> QED
    BY <1>4, <1>10 DEF PaidFor, m, f

\* A write is paid for by the slot s that is held back at its value v from now on.
LEMMA PaidWrite ==
    ASSUME NEW n \in Nat, NEW F \in [0 .. n -> SUBSET Handlers],
           NEW G \in [0 .. n -> SUBSET Handlers], NEW v \in 0 .. n, NEW s \in Handlers,
           s \notin F[v], F[v] \cup {s} \subseteq G[v],
           \A x \in 0 .. n : x < v => F[x] \subseteq G[x],
           \A x \in 0 .. n : v < x => F[x] \subseteq F[v],
           NEW a \in Nat, NEW b \in Nat, b <= a + 1, PaidFor(F, n, a)
    PROVE  PaidFor(G, n, b)
  <1> DEFINE m == n + 1
             g == HeldBack(F, n)
             f == HeldBack(G, n)
             i == n - v
  <1>1. m \in Nat /\ m \in 0 .. m /\ i \in 0 .. m - 1 /\ i \in 0 .. n /\ n - i = v
    OBVIOUS
  <1>2. g \in [0 .. m - 1 -> Nat] /\ f \in [0 .. m - 1 -> Nat]
    BY HeldBackType
  <1>3. PICK q : Adds(q, g, m) /\ a <= q[m]
    BY DEF PaidFor
  <1>4. PICK r : Adds(r, f, m)
    BY <1>1, <1>2, SumExists
  <1>0. /\ IsFiniteSet(F[v]) /\ IsFiniteSet(G[v]) /\ Cardinality(F[v]) \in Nat
        /\ g[i] = Cardinality(F[v]) /\ f[i] = Cardinality(G[v])
    <2>1. /\ IsFiniteSet(F[n - i]) /\ IsFiniteSet(G[n - i])
          /\ g[i] = Cardinality(F[n - i]) /\ f[i] = Cardinality(G[n - i])
      <3> HIDE DEF i
      <3> QED
        BY <1>1, HeldBackType
    <2> HIDE DEF g, f, i
    <2> QED
      BY <1>1, <2>1, FS_CardinalityType
  <1>5. ASSUME NEW j \in 0 .. m - 1, j < i PROVE g[j] <= g[i]
    <2>1. j \in 0 .. n /\ v < n - j
      BY <1>5
    <2>2. n - j \in 0 .. n /\ g[j] = Cardinality(F[n - j])
      BY <2>1, HeldBackType
    <2>3. F[n - j] \subseteq F[v]
      BY <2>1, <2>2
    <2> QED
      BY <1>0, <2>2, <2>3, FS_Subset
  <1>6. g[i] + 1 <= f[i]
    <2>2. IsFiniteSet(F[v] \cup {s}) /\ Cardinality(F[v] \cup {s}) = Cardinality(F[v]) + 1
      BY <1>0, FS_AddElement
    <2>3. Cardinality(F[v] \cup {s}) <= Cardinality(G[v])
      BY <1>0, <2>2, FS_Subset
    <2> QED
      BY <1>0, <2>2, <2>3
  <1>7. ASSUME NEW j \in 0 .. m - 1, i + 1 <= j PROVE g[j] <= f[j]
    <2>1. j \in 0 .. n /\ n - j < v
      BY <1>7
    <2>2. /\ n - j \in 0 .. n /\ IsFiniteSet(G[n - j])
          /\ g[j] = Cardinality(F[n - j]) /\ f[j] = Cardinality(G[n - j])
      BY <2>1, HeldBackType
    <2>3. F[n - j] \subseteq G[n - j]
      BY <2>1, <2>2
    <2> QED
      BY <2>2, <2>3, FS_Subset
  <1>8. q[m] \in Nat /\ r[m] \in Nat
    BY <1>1, <1>3, <1>4 DEF Adds
  <1> HIDE DEF m, g, f, i
  <1>9. q[m] + 1 <= r[m]
    BY <1>1, <1>2, <1>3, <1>4, <1>5, <1>6, <1>7, SumGain
  <1>10. b <= r[m]
    BY <1>3, <1>8, <1>9
  <1> QED
    BY <1>4, <1>10 DEF PaidFor, m, f

\* What is paid for is within the budget of all the slots.
LEMMA PaidBounded ==
    ASSUME NEW n \in Nat, NEW F \in [0 .. n -> SUBSET Handlers], NEW a \in Nat,
           PaidFor(F, n, a)
    PROVE  a <= Budget(n + 1, Cardinality(Handlers))
  <1> DEFINE m == n + 1
             g == HeldBack(F, n)
             h == Cardinality(Handlers)
  <1>1. m \in Nat /\ m \in 0 .. m
    OBVIOUS
  <1>2. g \in [0 .. m - 1 -> Nat]
    BY HeldBackType
  <1>3. PICK q : Adds(q, g, m) /\ a <= q[m]
    BY DEF PaidFor
  <1>4. h \in Nat /\ IsFiniteSet(Handlers)
    BY LimiterConstants, FS_CardinalityType
  <1>5. ASSUME NEW j \in 0 .. m - 1 PROVE g[j] <= h
    <2>1. j \in 0 .. n
      OBVIOUS
    <2>2. n - j \in 0 .. n /\ g[j] = Cardinality(F[n - j])
      BY <2>1, HeldBackType
    <2>3. F[n - j] \subseteq Handlers
      BY <2>2
    <2> QED
      BY <1>4, <2>2, <2>3, FS_Subset
  <1>6. q[m] \in Nat
    BY <1>1, <1>3 DEF Adds
  <1> HIDE DEF m, g, h
  <1>7. q[m] <= Budget(m, h)
    BY <1>1, <1>2, <1>3, <1>4, <1>5, SumBounded
  <1>8. Budget(m, h) \in Nat
    BY <1>1, <1>4, BudgetType
  <1> QED
    BY <1>3, <1>6, <1>7, <1>8 DEF m, h

\* The sets of slots held back above each value.
LEMMA AboveType ==
    ASSUME NEW k \in Limiter!Keys
    PROVE  /\ Above(k) \in [0 .. Cap(k) -> SUBSET Handlers]
           /\ Above(k)' \in [0 .. Cap(k) -> SUBSET Handlers]
           /\ \A x \in 0 .. Cap(k), h \in Handlers : h \in Above(k)[x] <=> Value(k, h) > x
           /\ \A x \in 0 .. Cap(k), h \in Handlers : h \in Above(k)'[x] <=> Value(k, h)' > x
  <1>1. Cap(k)' = Cap(k)
    BY DEF Cap, Limiter!Limit
  <1>2. Above(k)' = [x \in 0 .. Cap(k) |-> {h \in Handlers : Value(k, h)' > x}]
    BY <1>1 DEF Above
  <1> HIDE DEF Value
  <1> QED
    BY <1>2 DEF Above

\* A slot that is no lower, and no login more: the key stays paid for.
LEMMA PaidStays ==
    ASSUME NEW k \in Limiter!Keys, Paid(k), LimiterShape,
           admitted'[k] = admitted[k],
           \A h \in Handlers : \A x \in 0 .. Cap(k) : Value(k, h) > x => Value(k, h)' > x
    PROVE  Paid(k)'
  <1>1. Cap(k)' = Cap(k) /\ Cap(k) \in Nat /\ admitted[k] \in Nat
    BY LimiterConstants DEF Cap, Limiter!Limit, LimiterShape
  <1>2. \A x \in 0 .. Cap(k) : Above(k)[x] \subseteq Above(k)'[x]
    BY AboveType
  <1>3. PaidFor(Above(k), Cap(k), admitted[k])
    BY DEF Paid
  <1>4. admitted[k] <= admitted[k]
    BY <1>1
  <1> DEFINE F == Above(k)
             G == Above(k)'
  <1>5. F \in [0 .. Cap(k) -> SUBSET Handlers] /\ G \in [0 .. Cap(k) -> SUBSET Handlers]
    BY AboveType
  <1>6. \A x \in 0 .. Cap(k) : F[x] \subseteq G[x]
    BY <1>2
  <1>7. PaidFor(F, Cap(k), admitted[k])
    BY <1>3
  <1> HIDE DEF F, G
  <1>8. PaidFor(G, Cap(k), admitted[k])
    BY <1>1, <1>4, <1>5, <1>6, <1>7, PaidKept
  <1>9. Paid(k)' <=> PaidFor(Above(k)', Cap(k)', admitted'[k])
    BY DEF Paid
  <1> QED
    BY <1>1, <1>8, <1>9 DEF G

\* A key whose count of admitted logins starts anew is paid for.
LEMMA PaidAnew ==
    ASSUME NEW k \in Limiter!Keys, admitted'[k] = 0
    PROVE  Paid(k)'
  <1>1. Cap(k)' = Cap(k) /\ Cap(k) \in Nat
    BY LimiterConstants DEF Cap, Limiter!Limit
  <1> DEFINE G == Above(k)'
  <1>2. G \in [0 .. Cap(k) -> SUBSET Handlers]
    BY AboveType
  <1> HIDE DEF G
  <1>3. PaidFor(G, Cap(k), 0)
    BY <1>1, <1>2, PaidNothing
  <1>4. Paid(k)' <=> PaidFor(Above(k)', Cap(k)', admitted'[k])
    BY DEF Paid
  <1> QED
    BY <1>1, <1>3, <1>4 DEF G

\* Every login the limiter admits is paid for: a write that lowers a counter, or
\* counts a login, holds its slot back from then on.
LEMMA PaidStep ==
    ASSUME LimiterShape, [Limiter!Next]_limiterVars, NEW k \in Limiter!Keys, Paid(k)
    PROVE  Paid(k)'
  <1>0. /\ clock \in 0 .. MaxClock /\ MaxClock \in Nat /\ Window \in Nat
        /\ addresses \in [Limiter!Keys -> Limiter!Row]
        /\ \A l \in Limiter!Keys : RowSound(addresses[l], l, clock)
        /\ stage \in [Handlers -> {"idle", "read", "write", "verify"}]
        /\ key \in [Handlers -> Limiter!Keys]
        /\ new \in [Handlers -> Limiter!Row]
        /\ \A h \in Handlers : stage[h] = "write" => RowSound(new[h], key[h], clock)
        /\ admitted \in [Limiter!Keys -> Nat]
        /\ Cap(k) \in Nat
    BY LimiterConstants DEF LimiterShape
  <1>1. \A h \in Handlers :
           Value(k, h) = IF stage[h] = "write" /\ key[h] = k THEN Level(new[h], k, clock)
                         ELSE Level(addresses[k], k, clock) + 1
    BY DEF Value
  <1>2. \A h \in Handlers :
           Value(k, h)' = IF stage'[h] = "write" /\ key'[h] = k THEN Level(new'[h], k, clock')
                          ELSE Level(addresses'[k], k, clock') + 1
    <2>1. \A h \in Handlers : Level(new[h], k, clock)' = Level(new'[h], k, clock')
      BY DEF Level, Cap, Limiter!Limit
    <2>2. Level(addresses[k], k, clock)' = Level(addresses'[k], k, clock')
      BY DEF Level, Cap, Limiter!Limit
    <2> QED
      BY <2>1, <2>2 DEF Value
  <1>3. CASE Limiter!Tick
    <2>1. admitted'[k] = 0
      BY <1>3 DEF Limiter!Tick
    <2> QED
      BY <2>1, PaidAnew
  <1>4. ASSUME NEW s \in Handlers,
               Limiter!Begin(s) \/ Limiter!ConsumeRead(s) \/ Limiter!ConsumeWrite(s)
                 \/ Limiter!Reject(s) \/ Limiter!Reset(s)
        PROVE  Paid(k)'
    <2>1. CASE Limiter!Begin(s)
      <3>1. /\ clock' = clock /\ addresses' = addresses /\ new' = new /\ admitted' = admitted
            /\ stage[s] = "idle"
            /\ stage' = [stage EXCEPT ![s] = "read"] /\ key' = [key EXCEPT ![s] = "ip"]
        BY <2>1 DEF Limiter!Begin
      <3>2. \A h \in Handlers : Value(k, h)' = Value(k, h)
        BY <1>0, <1>1, <1>2, <3>1
      <3> QED
        BY <3>1, <3>2, PaidStays
    <2>2. CASE Limiter!ConsumeRead(s)
      <3>1. /\ clock' = clock /\ addresses' = addresses /\ key' = key /\ admitted' = admitted
            /\ key[s] \in Limiter!Keys /\ stage[s] = "read"
        BY <1>0, <2>2 DEF Limiter!ConsumeRead
      <3>2. CASE Limiter!Blocked(addresses[key[s]])
        <4>1. stage' = [stage EXCEPT ![s] = "idle"] /\ new' = new
          BY <2>2, <3>2 DEF Limiter!ConsumeRead
        <4>2. \A h \in Handlers : Value(k, h)' = Value(k, h)
          BY <1>0, <1>1, <1>2, <3>1, <4>1
        <4> QED
          BY <3>1, <4>2, PaidStays
      <3>3. CASE ~Limiter!Blocked(addresses[key[s]])
        <4> DEFINE c == Limiter!Counted(addresses[key[s]], Cap(key[s]))
        <4>1. stage' = [stage EXCEPT ![s] = "write"] /\ new' = [new EXCEPT ![s] = c]
          BY <2>2, <3>3 DEF Limiter!ConsumeRead, Cap
        <4>2. Level(c, key[s], clock) = Level(addresses[key[s]], key[s], clock) + 1
          <5>1. RowSound(addresses[key[s]], key[s], clock)
            BY <1>0, <3>1
          <5> HIDE DEF c
          <5> QED
            BY <1>0, <3>1, <3>3, <5>1, CountedUp DEF c
        <4> HIDE DEF c
        <4>3. \A h \in Handlers \ {s} : Value(k, h)' = Value(k, h)
          BY <1>0, <1>1, <1>2, <3>1, <4>1
        <4>4. Value(k, s)' = Value(k, s)
          BY <1>0, <1>1, <1>2, <3>1, <4>1, <4>2
        <4>5. \A h \in Handlers : Value(k, h)' = Value(k, h)
          BY <4>3, <4>4
        <4> QED
          BY <3>1, <4>5, PaidStays
      <3> QED
        BY <3>2, <3>3
    <2>3. CASE Limiter!ConsumeWrite(s)
      <3>1. /\ clock' = clock /\ stage[s] = "write" /\ key[s] \in Limiter!Keys
            /\ addresses' = [addresses EXCEPT ![key[s]] = new[s]]
            /\ new' = [new EXCEPT ![s] = Limiter!NoRow]
        BY <1>0, <2>3 DEF Limiter!ConsumeWrite
      <3>2. \E p \in {"idle", "read", "verify"} : stage' = [stage EXCEPT ![s] = p]
        BY <2>3 DEF Limiter!ConsumeWrite
      <3>3. key' = key \/ key' = [key EXCEPT ![s] = "pair"]
        BY <2>3 DEF Limiter!ConsumeWrite
      <3>4. /\ stage'[s] # "write"
            /\ \A h \in Handlers \ {s} : stage'[h] = stage[h] /\ key'[h] = key[h] /\ new'[h] = new[h]
        BY <1>0, <3>1, <3>2, <3>3
      <3>5. CASE key[s] # k
        <4>1. admitted'[k] = admitted[k]
          <5>1. admitted' = admitted \/ admitted' = [admitted EXCEPT ![key[s]] = @ + 1]
            BY <2>3 DEF Limiter!ConsumeWrite
          <5> QED
            BY <1>0, <3>5, <5>1
        <4>2. addresses'[k] = addresses[k]
          BY <1>0, <3>1, <3>5
        <4>3. \A h \in Handlers : Value(k, h)' = Value(k, h)
          BY <1>1, <1>2, <3>1, <3>4, <3>5, <4>2
        <4> QED
          BY <4>1, <4>3, PaidStays
      <3>6. CASE key[s] = k
        <4> DEFINE v == Level(new[s], k, clock)
                   w == Level(addresses[k], k, clock)
        <4>1. RowSound(new[s], k, clock) /\ v \in 0 .. Cap(k) + 1 /\ w \in 0 .. Cap(k) + 1
          <5>1. RowSound(new[s], k, clock) /\ RowSound(addresses[k], k, clock)
            BY <1>0, <3>1, <3>6
          <5> QED
            BY <5>1, LevelType
        <4>2. addresses'[k] = new[s]
          BY <1>0, <3>1, <3>6
        <4>3. /\ v = Value(k, s)
              /\ \A h \in Handlers : ~(stage[h] = "write" /\ key[h] = k) => Value(k, h)' = v + 1
              /\ \A h \in Handlers : (h # s /\ stage[h] = "write" /\ key[h] = k)
                                        => Value(k, h)' = Value(k, h)
              /\ Value(k, s)' = v + 1
          BY <1>1, <1>2, <3>1, <3>4, <3>6, <4>2
        <4>4. \A h \in Handlers : Value(k, h) \in Nat
          <5>1. ASSUME NEW h \in Handlers PROVE Value(k, h) \in Nat
            <6>1. CASE stage[h] = "write" /\ key[h] = k
              <7>1. RowSound(new[h], k, clock)
                BY <1>0, <6>1
              <7>2. Level(new[h], k, clock) \in 0 .. Cap(k) + 1
                BY <7>1, LevelType
              <7> QED
                BY <1>0, <1>1, <6>1, <7>2
            <6>2. CASE ~(stage[h] = "write" /\ key[h] = k)
              BY <1>0, <1>1, <4>1, <6>2
            <6> QED
              BY <6>1, <6>2
          <5> QED
            BY <5>1
        <4> HIDE DEF v, w
        <4>5. CASE v = Cap(k) + 1
          <5>1. new[s].until # 0
            <6>1. v = Cap(k) + 1 /\ Cap(k) \in Nat /\ new[s].count \in Nat
              BY <1>0, <4>1, <4>5 DEF RowSound, Limiter!Row
            <6>2. new[s].until # 0 <=> new[s].count = Cap(k) + 1
              BY <4>1 DEF RowSound
            <6> QED
              BY <6>1, <6>2 DEF v, Level
          <5>2. admitted' = admitted
            BY <2>3, <5>1 DEF Limiter!ConsumeWrite
          <5>3. ASSUME NEW h \in Handlers, NEW x \in 0 .. Cap(k), Value(k, h) > x
                PROVE  Value(k, h)' > x
            BY <1>0, <4>3, <4>5, <5>3
          <5> QED
            BY <5>2, <5>3, PaidStays
        <4>6. CASE v # Cap(k) + 1
          <5> DEFINE F == Above(k)
                     G == Above(k)'
                     a == admitted[k]
                     b == admitted'[k]
          <5>1. v \in 0 .. Cap(k) /\ v \in Nat
            BY <1>0, <4>1, <4>6
          <5>2. a \in Nat /\ b \in Nat /\ b <= a + 1
            <6>1. admitted' = admitted \/ admitted' = [admitted EXCEPT ![k] = @ + 1]
              BY <2>3, <3>6 DEF Limiter!ConsumeWrite
            <6>2. b = a \/ b = a + 1
              BY <1>0, <6>1
            <6>3. a \in Nat
              BY <1>0
            <6> HIDE DEF a, b
            <6> QED
              BY <6>2, <6>3
          <5>3. /\ F \in [0 .. Cap(k) -> SUBSET Handlers] /\ G \in [0 .. Cap(k) -> SUBSET Handlers]
                /\ \A x \in 0 .. Cap(k), h \in Handlers : h \in F[x] <=> Value(k, h) > x
                /\ \A x \in 0 .. Cap(k), h \in Handlers : h \in G[x] <=> Value(k, h)' > x
            BY AboveType
          <5>4. PaidFor(F, Cap(k), a)
            BY DEF Paid
          <5> HIDE DEF F, G, a, b
          <5>5. s \notin F[v] /\ s \in G[v]
            BY <4>3, <5>1, <5>3
          <5>6. ASSUME NEW x \in 0 .. Cap(k), x <= v, NEW h \in Handlers, Value(k, h) > x
                PROVE  Value(k, h)' > x
            BY <1>0, <4>3, <5>1, <5>6
          <5>7. F[v] \cup {s} \subseteq G[v] /\ \A x \in 0 .. Cap(k) : x < v => F[x] \subseteq G[x]
            <6>1. ASSUME NEW x \in 0 .. Cap(k), x <= v PROVE F[x] \subseteq G[x]
              <7>1. \A h \in F[x] : h \in Handlers
                BY <5>3
              <7> QED
                BY <5>3, <5>6, <6>1, <7>1
            <6>2. v <= v /\ \A x \in 0 .. Cap(k) : x < v => x <= v
              BY <5>1
            <6> QED
              BY <5>1, <5>5, <6>1, <6>2
          <5>8. ASSUME NEW x \in 0 .. Cap(k), v < x PROVE F[x] \subseteq F[v]
            <6>1. \A h \in Handlers : Value(k, h) > x => Value(k, h) > v
              BY <4>4, <5>1, <5>8
            <6>2. \A h \in F[x] : h \in Handlers
              BY <5>3
            <6> QED
              BY <5>1, <5>3, <6>1, <6>2
          <5>9. PaidFor(G, Cap(k), b)
            BY <1>0, <5>1, <5>2, <5>3, <5>4, <5>5, <5>7, <5>8, PaidWrite
          <5>10. Cap(k)' = Cap(k)
            BY DEF Cap, Limiter!Limit
          <5>11. Paid(k)' <=> PaidFor(Above(k)', Cap(k)', admitted'[k])
            BY DEF Paid
          <5> QED
            BY <5>9, <5>10, <5>11 DEF G, b
        <4> QED
          BY <4>5, <4>6
      <3> QED
        BY <3>5, <3>6
    <2>4. CASE Limiter!Reject(s)
      <3>1. /\ clock' = clock /\ addresses' = addresses /\ new' = new /\ admitted' = admitted
            /\ key' = key /\ stage' = [stage EXCEPT ![s] = "idle"] /\ stage[s] = "verify"
        BY <2>4 DEF Limiter!Reject
      <3>2. \A h \in Handlers : Value(k, h)' = Value(k, h)
        BY <1>0, <1>1, <1>2, <3>1
      <3> QED
        BY <3>1, <3>2, PaidStays
    <2>5. CASE Limiter!Reset(s)
      <3>1. admitted'[k] = 0
        BY <2>5 DEF Limiter!Reset
      <3> QED
        BY <3>1, PaidAnew
    <2> QED
      BY <1>4, <2>1, <2>2, <2>3, <2>4, <2>5
  <1>5. CASE UNCHANGED limiterVars
    <2>1. /\ clock' = clock /\ addresses' = addresses /\ new' = new /\ admitted' = admitted
          /\ key' = key /\ stage' = stage
      BY <1>5 DEF limiterVars
    <2>2. \A h \in Handlers : Value(k, h)' = Value(k, h)
      BY <1>1, <1>2, <2>1
    <2> QED
      BY <2>1, <2>2, PaidStays
  <1>6. Limiter!Next \/ UNCHANGED limiterVars
    BY DEF Limiter!vars, limiterVars
  <1> QED
    BY <1>3, <1>4, <1>5, <1>6 DEF Limiter!Next

\* The limiter starts with nothing counted and nothing to pay for.
LEMMA LimiterStart == Limiter!Init => LimiterInv
  <1> SUFFICES ASSUME Limiter!Init PROVE LimiterInv
    OBVIOUS
  <1>1. /\ clock = 0 /\ addresses = [k \in Limiter!Keys |-> Limiter!NoRow]
        /\ stage = [s \in Handlers |-> "idle"] /\ key = [s \in Handlers |-> "ip"]
        /\ new = [s \in Handlers |-> Limiter!NoRow] /\ admitted = [k \in Limiter!Keys |-> 0]
    BY DEF Limiter!Init
  <1>2. clock \in 0 .. MaxClock
    BY <1>1, LimiterConstants
  <1>3. \A k \in Limiter!Keys : RowSound(Limiter!NoRow, k, clock)
    BY <1>2, NoRowSound
  <1>4. Limiter!NoRow \in Limiter!Row
    BY <1>3 DEF RowSound, Limiter!Keys
  <1>5. LimiterShape
    BY <1>1, <1>2, <1>3, <1>4 DEF LimiterShape, Limiter!Keys
  <1>6. ASSUME NEW k \in Limiter!Keys PROVE Paid(k)
    <2>1. admitted[k] = 0 /\ Cap(k) \in Nat
      BY <1>1, LimiterConstants
    <2>2. Above(k) \in [0 .. Cap(k) -> SUBSET Handlers]
      BY AboveType
    <2> QED
      BY <2>1, <2>2, PaidNothing DEF Paid
  <1> QED
    BY <1>5, <1>6 DEF LimiterInv

\* No step of the whole leaves the limiter unsound or a login unpaid.
LEMMA LimiterStep ==
    LimiterInv /\ [SignInNext]_<<part, vars, limiterVars, lockVars>> => LimiterInv'
  <1> SUFFICES ASSUME LimiterInv, [SignInNext]_<<part, vars, limiterVars, lockVars>>
               PROVE  LimiterInv'
    OBVIOUS
  <1>1. [Limiter!Next]_limiterVars
    BY DEF SignInNext
  <1>2. LimiterShape'
    BY <1>1, LimiterShapeStep DEF LimiterInv
  <1>3. \A k \in Limiter!Keys : Paid(k)'
    BY <1>1, PaidStep DEF LimiterInv
  <1>4. LimiterInv' <=> LimiterShape' /\ \A k \in Limiter!Keys : Paid(k)'
    BY DEF LimiterInv, Limiter!Keys
  <1> QED
    BY <1>2, <1>3, <1>4

\* Every part of the limiter keeps its type, no counter passes the first refused
\* attempt, and only that one carries a block (consume in security/rateLimit.js).
THEOREM LimiterTypeCorrect == SignInSpec => []Limiter!TypeOK
  <1>1. SignInInit => LimiterInv
    BY LimiterStart DEF SignInInit
  <1>2. LimiterInv => Limiter!TypeOK
    BY DEF LimiterInv, LimiterShape, RowSound, Cap, Limiter!TypeOK
  <1> QED
    BY <1>1, <1>2, LimiterStep, PTL DEF SignInSpec

\* However the logins of n slots interleave between the read and the write of
\* consume() (security/rateLimit.js), a tick admits no more of them past a key
\* than those that stall can set its counter back for: the binomial coefficient
\* of n in limit + 1 + n, less one.
THEOREM AdmissionsAreBounded == SignInSpec => []AdmittedBounded
  <1>1. SignInInit => LimiterInv
    BY LimiterStart DEF SignInInit
  <1>2. LimiterInv => AdmittedBounded
    <2> SUFFICES ASSUME LimiterInv, NEW k \in Limiter!Keys
                 PROVE  admitted[k] <= Limiter!SetBackBudget(Limiter!Limit[k], Limiter!Cardinality(Handlers))
      BY DEF AdmittedBounded, Limiter!AdmittedBounded
    <2>1. Cap(k) \in Nat /\ admitted[k] \in Nat
      BY LimiterConstants DEF LimiterInv, LimiterShape
    <2>2. Above(k) \in [0 .. Cap(k) -> SUBSET Handlers]
      BY AboveType
    <2>3. PaidFor(Above(k), Cap(k), admitted[k])
      BY DEF LimiterInv, Paid
    <2>4. admitted[k] <= Budget(Cap(k) + 1, Cardinality(Handlers))
      BY <2>1, <2>2, <2>3, PaidBounded
    <2>5. Limiter!Cardinality(Handlers) = Cardinality(Handlers)
      BY DEF Cardinality, Limiter!Cardinality
    <2> QED
      BY <2>4, <2>5 DEF Budget, Cap, Limiter!SetBackBudget
  <1> QED
    BY <1>1, <1>2, LimiterStep, PTL DEF SignInSpec
=============================================================================
