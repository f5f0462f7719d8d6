----------------------------- MODULE Plans_proofs -----------------------------
(***************************************************************************)
(* Proofs about the chat gateway (ChatGateway), the windows of its quota   *)
(* (QuotaWindows) and the models it may ask (Routing), for every value of  *)
(* their constants.                                                        *)
(***************************************************************************)
EXTENDS MCPlans, FiniteSetTheorems, SequenceTheorems, WellFoundedInduction, TLAPS

-----------------------------------------------------------------------------
(* Helpers: least elements and lists of models. *)

\* A nonempty set of naturals has a least element.
LEMMA LeastExists ==
    ASSUME NEW I \in SUBSET Nat, I # {}
    PROVE  \E x \in I : \A y \in I : x =< y
  <1>1. PICK x \in I : \A y \in I : ~(<<y, x>> \in OpToRel(<, Nat))
    BY WFMin, NatLessThanWellFounded
  <1>2. ASSUME NEW y \in I PROVE x =< y
    <2>1. x \in Nat /\ y \in Nat
      OBVIOUS
    <2>2. <<y, x>> \in Nat \X Nat /\ <<y, x>> \notin OpToRel(<, Nat)
      BY <1>1, <2>1
    <2>3. ~(<<y, x>>[1] < <<y, x>>[2])
      BY <2>2 DEF OpToRel
    <2> QED
      BY <2>1, <2>3
  <1> QED
    BY <1>2

\* Min is an element of its set.
LEMMA MinInSet ==
    ASSUME NEW I \in SUBSET Nat, I # {}
    PROVE  Min(I) \in I
  BY LeastExists DEF Min

\* FirstIn returns at most one model, one of the chain that is in ok.
LEMMA FirstInFact ==
    ASSUME NEW c \in Seq(Models), NEW ok
    PROVE  /\ FirstIn(c, ok) \in Seq(Models)
           /\ \/ FirstIn(c, ok) = <<>>
              \/ \E m \in Models \cap ok : FirstIn(c, ok) = <<m>>
  <1> DEFINE hits == {i \in DOMAIN c : c[i] \in ok}
  <1>1. CASE hits = {}
    BY <1>1 DEF FirstIn
  <1>2. CASE hits # {}
    <2>1. hits \in SUBSET Nat
      OBVIOUS
    <2>2. Min(hits) \in hits
      BY <1>2, <2>1, MinInSet
    <2>3. FirstIn(c, ok) = <<c[Min(hits)]>>
      BY <1>2 DEF FirstIn
    <2>4. c[Min(hits)] \in Models \cap ok
      BY <2>2
    <2> HIDE DEF hits
    <2> QED
      BY <2>3, <2>4
  <1> QED
    BY <1>1, <1>2

-----------------------------------------------------------------------------
(* Type correctness. *)

\* The gateway's initial state has its types.
LEMMA TypeInit == Init => TypeOK
  BY FS_EmptySet, LimitAssumption
     DEF Init, TypeOK, Steps, Replies, Writes

\* The router's chain and the model picked from it.
LEMMA RouteType ==
    ASSUME TypeOK, NEW r \in Requests, Route(r)
    PROVE  TypeOK'
  <1>1. PICK c \in Chains :
          /\ chain' = [chain EXCEPT ![r] = c]
          /\ tried' = [tried EXCEPT ![r] = Primary(c)]
    BY DEF Route
  <1>2. c \in Seq(Models)
    BY ModelAssumption
  <1>3. Primary(c) \in Seq(Models)
    BY <1>2, FirstInFact DEF Primary
  <1>4. chain' \in [Requests -> Seq(Models)] /\ tried' \in [Requests -> Seq(Models)]
    BY <1>1, <1>2, <1>3 DEF TypeOK
  <1>5. pc' \in [Requests -> Steps] /\ reply' \in [Requests -> Replies]
    BY ZenonT(60) DEF Route, TypeOK, Return, Goto, Steps, Replies
  <1> QED
    BY <1>4, <1>5 DEF Route, TypeOK, reqVars, writeVars, tableVars, worldVars

\* A retry calls a runtime fallback after the models already called.
LEMMA RetryType ==
    ASSUME TypeOK, NEW r \in Requests, CallRetries(r)
    PROVE  TypeOK'
  <1> DEFINE next == Fallback(chain[r], tried[r][1])
  <1>1. next \in Seq(Models)
    <2> DEFINE ok == {m \in Available \ {tried[r][1]} : Host[m] # Host[tried[r][1]]}
    <2>1. chain[r] \in Seq(Models)
      BY DEF TypeOK
    <2>2. next = FirstIn(chain[r], ok)
      BY DEF Fallback
    <2> HIDE DEF next, ok
    <2> QED
      BY <2>1, <2>2, FirstInFact
  <1>2. tried[r] \o next \in Seq(Models)
    BY <1>1 DEF TypeOK
  <1>3. tried' = [tried EXCEPT ![r] = tried[r] \o next]
    BY DEF CallRetries, TypeOK
  <1>4. tried' \in [Requests -> Seq(Models)]
    BY <1>2, <1>3 DEF TypeOK
  <1> QED
    BY <1>4 DEF CallRetries, TypeOK, reqVars, writeVars, tableVars, worldVars

\* A usage row that is added is a row, and the ledger stays finite.
LEMMA AddUsageType ==
    ASSUME TypeOK, NEW r \in Requests, AddUsage(r), user[r] \in Users
    PROVE  IsFiniteSet(usageRows') /\ usageRows' \subseteq UsageRow
  <1> DEFINE n == Cardinality({row \in usageRows : row.req = r})
             new == [req |-> r, user |-> user[r], key |-> key[r], day |-> today,
                     points |-> cost[r], copy |-> n]
  <1>1. n \in Nat
    <2>1. {row \in usageRows : row.req = r} \in SUBSET usageRows
      OBVIOUS
    <2>2. IsFiniteSet({row \in usageRows : row.req = r})
      BY <2>1, FS_Subset DEF TypeOK
    <2> QED
      BY <2>2, FS_CardinalityType
  <1>2. usageRows' = usageRows \cup {new}
    BY DEF AddUsage
  <1> HIDE DEF n
  <1>3. new \in UsageRow
    BY <1>1 DEF TypeOK, UsageRow
  <1> HIDE DEF new
  <1>4. IsFiniteSet(usageRows \cup {new})
    BY FS_AddElement DEF TypeOK
  <1> QED
    BY <1>2, <1>3, <1>4 DEF TypeOK

\* The same for a row of request_logs.
LEMMA AddLogType ==
    ASSUME TypeOK, NEW r \in Requests,
           NEW kind \in {"success", "failure", "stream"}, AddLog(r, kind)
    PROVE  IsFiniteSet(logRows') /\ logRows' \subseteq LogRow
  <1> DEFINE n == Cardinality({row \in logRows : row.req = r})
             new == [req |-> r, kind |-> kind, copy |-> n]
  <1>1. n \in Nat
    <2>1. {row \in logRows : row.req = r} \in SUBSET logRows
      OBVIOUS
    <2>2. IsFiniteSet({row \in logRows : row.req = r})
      BY <2>1, FS_Subset DEF TypeOK
    <2> QED
      BY <2>2, FS_CardinalityType
  <1>2. logRows' = logRows \cup {new}
    BY DEF AddLog
  <1> HIDE DEF n
  <1>3. new \in LogRow
    BY <1>1 DEF TypeOK, LogRow
  <1> HIDE DEF new
  <1>4. IsFiniteSet(logRows \cup {new})
    BY FS_AddElement DEF TypeOK
  <1> QED
    BY <1>2, <1>3, <1>4 DEF TypeOK

\* What one write does to the tables.
LEMMA EffectType ==
    ASSUME TypeOK, NEW r \in Requests, NEW w \in Writes, Effect(r, w),
           w = "usage" => user[r] \in Users
    PROVE  /\ IsFiniteSet(usageRows') /\ usageRows' \subseteq UsageRow
           /\ IsFiniteSet(logRows') /\ logRows' \subseteq LogRow
           /\ keyCount' \in [Keys -> Nat]
  <1>1. CASE w = "key"
    <2>1. /\ keyCount' = [keyCount EXCEPT ![key[r]] = keyCount[key[r]] + 1]
          /\ UNCHANGED <<usageRows, logRows>>
      BY <1>1 DEF Effect
    <2>2. keyCount' \in [Keys -> Nat]
      <3>1. keyCount \in [Keys -> Nat]
        BY DEF TypeOK
      <3>2. keyCount' = [k \in Keys |->
                IF k = key[r] THEN keyCount[k] + 1 ELSE keyCount[k]]
        BY <2>1, <3>1
      <3> QED
        BY <3>1, <3>2
    <2> QED
      BY <2>1, <2>2 DEF TypeOK
  <1>2. CASE w = "usage"
    BY <1>2, AddUsageType DEF Effect, TypeOK
  <1>3. CASE w = "log"
    BY <1>3, AddLogType DEF Effect, TypeOK
  <1>4. CASE w = "errlog"
    BY <1>4, AddLogType DEF Effect, TypeOK
  <1> QED
    BY <1>1, <1>2, <1>3, <1>4 DEF Writes

\* A stutter, and the steps of the world around the gateway.
LEMMA TypeStep == TypeOK /\ PendingOwned /\ [Next]_vars => TypeOK'
  <1> SUFFICES ASSUME TypeOK, PendingOwned, [Next]_vars PROVE TypeOK'
    OBVIOUS
  <1>1. ASSUME NEW r \in Requests, Arrive(r) PROVE TypeOK'
    BY <1>1, AccountAssumption, LimitAssumption
       DEF Arrive, TypeOK, Goto, Steps, Credentials,
           routeVars, writeVars, tableVars
  <1>2. ASSUME NEW r \in Requests, RejectCredential(r) PROVE TypeOK'
    BY <1>2 DEF RejectCredential, TypeOK, Return, Goto, Steps, Replies, Writes,
       reqVars, routeVars, writeVars, tableVars, worldVars
  <1>3. ASSUME NEW r \in Requests, Authenticate(r) PROVE TypeOK'
    BY <1>3 DEF Authenticate, TypeOK, Return, Goto, Steps, Replies, Writes,
       reqVars, routeVars, writeVars, tableVars, worldVars
  <1>4. ASSUME NEW r \in Requests, CheckBanned(r) PROVE TypeOK'
    BY <1>4 DEF CheckBanned, TypeOK, Return, Goto, Steps, Replies, Writes,
       reqVars, routeVars, writeVars, tableVars, worldVars
  <1>5. ASSUME NEW r \in Requests, Validate(r) PROVE TypeOK'
    BY <1>5 DEF Validate, TypeOK, Return, Goto, Steps, Replies, Writes,
       reqVars, routeVars, writeVars, tableVars, worldVars
  <1>6. ASSUME NEW r \in Requests, CheckDaily(r) PROVE TypeOK'
    BY <1>6 DEF CheckDaily, TypeOK, Return, Goto, Steps, Replies, Writes,
       reqVars, routeVars, writeVars, tableVars, worldVars
  <1>7. ASSUME NEW r \in Requests, CheckPoints(r) PROVE TypeOK'
    BY <1>7 DEF CheckPoints, TypeOK, Return, Goto, Steps, Replies, Writes,
       reqVars, routeVars, writeVars, tableVars, worldVars
  <1>8. ASSUME NEW r \in Requests, Route(r) PROVE TypeOK'
    BY <1>8, RouteType
  <1>9. ASSUME NEW r \in Requests, CallSucceedsJson(r) PROVE TypeOK'
    BY <1>9, LimitAssumption
       DEF CallSucceedsJson, BeginPersist, LedgerWrites, TypeOK, Goto, Steps, Writes,
           reqVars, routeVars, tableVars, worldVars
  <1>10. ASSUME NEW r \in Requests, DrainEnds(r) PROVE TypeOK'
    BY <1>10, LimitAssumption, ZenonT(60)
       DEF DrainEnds, BeginPersist, LedgerWrites, TypeOK, Goto, Steps, Writes,
           reqVars, routeVars, tableVars, worldVars
  <1>11. ASSUME NEW r \in Requests, CallSucceedsStream(r) PROVE TypeOK'
    BY <1>11 DEF CallSucceedsStream, TypeOK, Return, Goto, Steps, Replies, Writes,
       reqVars, routeVars, writeVars, tableVars, worldVars
  <1>12. ASSUME NEW r \in Requests, TeeFails(r) PROVE TypeOK'
    BY <1>12 DEF TeeFails, TypeOK, Return, Goto, Steps, Replies, Writes,
       reqVars, routeVars, writeVars, tableVars, worldVars
  <1>13. ASSUME NEW r \in Requests, CallRetries(r) PROVE TypeOK'
    BY <1>13, RetryType
  <1>14. ASSUME NEW r \in Requests, CallFails(r) PROVE TypeOK'
    BY <1>14 DEF CallFails, TypeOK, Return, Goto, Steps, Replies, Writes,
       reqVars, routeVars, writeVars, tableVars, worldVars
  <1>15. ASSUME NEW r \in Requests, DrainAborts(r) PROVE TypeOK'
    BY <1>15 DEF DrainAborts, TypeOK, Return, Goto, Steps, Replies, Writes,
       reqVars, routeVars, writeVars, tableVars, worldVars
  <1>16. ASSUME NEW r \in Requests, DrainBreaks(r) PROVE TypeOK'
    BY <1>16 DEF DrainBreaks, TypeOK, Return, Goto, Steps, Replies, Writes,
       reqVars, routeVars, writeVars, tableVars, worldVars
  <1>17. ASSUME NEW r \in Requests, Evict(r) PROVE TypeOK'
    BY <1>17 DEF Evict, TypeOK, Return, Goto, Steps, Replies, Writes,
       reqVars, routeVars, writeVars, tableVars, worldVars
  <1>18. ASSUME NEW r \in Requests, WriteFailureLog(r) PROVE TypeOK'
    <2>1. IsFiniteSet(logRows') /\ logRows' \subseteq LogRow
      BY <1>18, AddLogType DEF WriteFailureLog, TypeOK
    <2> QED
      BY <1>18, <2>1
         DEF WriteFailureLog, TypeOK, Goto, Steps,
             reqVars, routeVars, writeVars, worldVars
  <1>19. ASSUME NEW r \in Requests, NEW w \in Writes, WriteSucceeds(r, w)
        PROVE  TypeOK'
    <2>1. /\ IsFiniteSet(usageRows') /\ usageRows' \subseteq UsageRow
          /\ IsFiniteSet(logRows') /\ logRows' \subseteq LogRow
          /\ keyCount' \in [Keys -> Nat]
      BY <1>19, EffectType DEF WriteSucceeds, PendingOwned
    <2> QED
      BY <1>19, <2>1
         DEF WriteSucceeds, Settle, Return, Goto, TypeOK, Steps, Replies, Writes,
             reqVars, routeVars, worldVars
  <1>20. ASSUME NEW r \in Requests, NEW w \in Writes, WriteFails(r, w)
        PROVE  TypeOK'
    BY <1>20
       DEF WriteFails, Goto, TypeOK, Steps, Replies, Writes,
           reqVars, routeVars, tableVars, worldVars
  <1>21. ASSUME NEW u \in Users, Ban(u) PROVE TypeOK'
    BY <1>21 DEF Ban, TypeOK, reqVars, routeVars, writeVars, tableVars
  <1>22. CASE Midnight
    BY <1>22, LimitAssumption
       DEF Midnight, TypeOK, reqVars, routeVars, writeVars, tableVars
  <1>23. CASE UNCHANGED vars
    BY <1>23
       DEF TypeOK, vars, reqVars, routeVars, writeVars, tableVars, worldVars
  <1> QED
    BY <1>1, <1>2, <1>3, <1>4, <1>5, <1>6, <1>7, <1>8, <1>9, <1>10, <1>11, <1>12, <1>13, <1>14, <1>15, <1>16, <1>17, <1>18, <1>19, <1>20, <1>21, <1>22, <1>23
       DEF Next, Serve, Finished

\* Initially no write is pending.
LEMMA PendingInit == Init => PendingOwned
  BY DEF Init, PendingOwned

\* Writes start only past the quota check, for a user, and a write that ends only leaves.
LEMMA PendingStep == TypeOK /\ PendingOwned /\ [Next]_vars => PendingOwned'
  <1> SUFFICES ASSUME TypeOK, PendingOwned, [Next]_vars PROVE PendingOwned'
    OBVIOUS
  <1>1. ASSUME NEW r \in Requests, Arrive(r) PROVE PendingOwned'
    BY <1>1 DEF Arrive, PendingOwned, TypeOK, Goto, writeVars
  <1>2. ASSUME NEW r \in Requests, RejectCredential(r) PROVE PendingOwned'
    BY <1>2 DEF RejectCredential, PendingOwned, TypeOK, Return, Goto, writeVars, reqVars
  <1>3. ASSUME NEW r \in Requests, Authenticate(r) PROVE PendingOwned'
    BY <1>3 DEF Authenticate, PendingOwned, TypeOK, Return, Goto, writeVars, reqVars
  <1>4. ASSUME NEW r \in Requests, CheckBanned(r) PROVE PendingOwned'
    BY <1>4 DEF CheckBanned, PendingOwned, TypeOK, Return, Goto, writeVars, reqVars
  <1>5. ASSUME NEW r \in Requests, Validate(r) PROVE PendingOwned'
    BY <1>5 DEF Validate, PendingOwned, TypeOK, Return, Goto, writeVars, reqVars
  <1>6. ASSUME NEW r \in Requests, CheckDaily(r) PROVE PendingOwned'
    BY <1>6 DEF CheckDaily, PendingOwned, TypeOK, Return, Goto, writeVars, reqVars
  <1>7. ASSUME NEW r \in Requests, CheckPoints(r) PROVE PendingOwned'
    BY <1>7 DEF CheckPoints, PendingOwned, TypeOK, Return, Goto, writeVars, reqVars
  <1>8. ASSUME NEW r \in Requests, Route(r) PROVE PendingOwned'
    BY <1>8 DEF Route, PendingOwned, TypeOK, Return, Goto, writeVars, reqVars
  <1>9. ASSUME NEW r \in Requests, CallSucceedsStream(r) PROVE PendingOwned'
    BY <1>9 DEF CallSucceedsStream, PendingOwned, TypeOK, Return, Goto, writeVars, reqVars
  <1>10. ASSUME NEW r \in Requests, TeeFails(r) PROVE PendingOwned'
    BY <1>10 DEF TeeFails, PendingOwned, TypeOK, Return, Goto, writeVars, reqVars
  <1>11. ASSUME NEW r \in Requests, CallRetries(r) PROVE PendingOwned'
    BY <1>11 DEF CallRetries, PendingOwned, TypeOK, Return, Goto, writeVars, reqVars
  <1>12. ASSUME NEW r \in Requests, CallFails(r) PROVE PendingOwned'
    BY <1>12 DEF CallFails, PendingOwned, TypeOK, Return, Goto, writeVars, reqVars
  <1>13. ASSUME NEW r \in Requests, WriteFailureLog(r) PROVE PendingOwned'
    BY <1>13 DEF WriteFailureLog, PendingOwned, TypeOK, Return, Goto, writeVars, reqVars
  <1>14. ASSUME NEW r \in Requests, DrainAborts(r) PROVE PendingOwned'
    BY <1>14 DEF DrainAborts, PendingOwned, TypeOK, Return, Goto, writeVars, reqVars
  <1>15. ASSUME NEW r \in Requests, CallSucceedsJson(r) PROVE PendingOwned'
    BY <1>15
       DEF CallSucceedsJson, BeginPersist, LedgerWrites, PendingOwned, TypeOK, Goto, Writes,
           reqVars
  <1>16. ASSUME NEW r \in Requests, DrainEnds(r) PROVE PendingOwned'
    BY <1>16
       DEF DrainEnds, BeginPersist, LedgerWrites, PendingOwned, TypeOK, Goto, Writes,
           reqVars
  <1>17. ASSUME NEW r \in Requests, DrainBreaks(r) PROVE PendingOwned'
    BY <1>17 DEF DrainBreaks, PendingOwned, TypeOK, Goto, Writes, reqVars
  <1>18. ASSUME NEW r \in Requests, Evict(r) PROVE PendingOwned'
    BY <1>18 DEF Evict, PendingOwned, TypeOK, Goto, Writes, reqVars
  <1>19. ASSUME NEW r \in Requests, NEW w \in Writes, WriteSucceeds(r, w)
        PROVE  PendingOwned'
    BY <1>19
       DEF WriteSucceeds, Settle, Return, Goto, PendingOwned, TypeOK, Writes, reqVars
  <1>20. ASSUME NEW r \in Requests, NEW w \in Writes, WriteFails(r, w)
        PROVE  PendingOwned'
    BY <1>20 DEF WriteFails, Goto, PendingOwned, TypeOK, Writes, reqVars
  <1>21. ASSUME NEW u \in Users, Ban(u) PROVE PendingOwned'
    BY <1>21 DEF Ban, PendingOwned, reqVars, writeVars
  <1>22. CASE Midnight
    BY <1>22 DEF Midnight, PendingOwned, reqVars, writeVars
  <1>23. CASE UNCHANGED vars
    BY <1>23 DEF PendingOwned, vars, reqVars, writeVars
  <1> QED
    BY <1>1, <1>2, <1>3, <1>4, <1>5, <1>6, <1>7, <1>8, <1>9, <1>10, <1>11, <1>12, <1>13, <1>14, <1>15, <1>16, <1>17, <1>18, <1>19, <1>20, <1>21, <1>22, <1>23
       DEF Next, Serve, Finished

\* Every reachable state of the gateway is well typed.
THEOREM TypeCorrect == Spec => [](TypeOK /\ PendingOwned)
  <1>1. Init => TypeOK /\ PendingOwned
    BY TypeInit, PendingInit
  <1>2. TypeOK /\ PendingOwned /\ [Next]_vars => (TypeOK /\ PendingOwned)'
    BY TypeStep, PendingStep
  <1> QED
    BY <1>1, <1>2, PTL DEF Spec

-----------------------------------------------------------------------------
(* The ledger. *)

\* The row a successful usage write appends is the invocation's own, of today.
LEMMA UsageAppended ==
    ASSUME NEW r \in Requests, WriteSucceeds(r, "usage")
    PROVE  \E new : /\ usageRows' = usageRows \cup {new}
                    /\ new.req = r /\ new.user = user[r] /\ new.day = today
  <1> DEFINE row == [req |-> r, user |-> user[r], key |-> key[r], day |-> today,
                     points |-> cost[r],
                     copy |-> Cardinality({old \in usageRows : old.req = r})]
  <1>1. usageRows' = usageRows \cup {row}
    BY DEF WriteSucceeds, Effect, AddUsage
  <1>2. row.req = r /\ row.user = user[r] /\ row.day = today
    OBVIOUS
  <1> HIDE DEF row
  <1> QED
    BY <1>1, <1>2

\* A usage row is inserted only by the invocation it belongs to, which then has
\* no further one under way.
LEMMA UsageStep == TypeOK /\ PendingOwned /\ UsageLedger /\ [Next]_vars => UsageLedger'
  <1> SUFFICES ASSUME TypeOK, PendingOwned, UsageLedger, [Next]_vars PROVE UsageLedger'
    OBVIOUS
  <1>1. ASSUME NEW r \in Requests, Arrive(r) PROVE UsageLedger'
    BY <1>1 DEF Arrive, UsageLedger, OneUsageRow, TypeOK, UsageRow, Goto, writeVars, tableVars
  <1>2. ASSUME NEW r \in Requests, RejectCredential(r) PROVE UsageLedger'
    BY <1>2
       DEF RejectCredential, UsageLedger, OneUsageRow, TypeOK, UsageRow, Return, Goto,
           writeVars, tableVars, worldVars
  <1>3. ASSUME NEW r \in Requests, Authenticate(r) PROVE UsageLedger'
    BY <1>3
       DEF Authenticate, UsageLedger, OneUsageRow, TypeOK, UsageRow, Return, Goto,
           writeVars, tableVars, worldVars
  <1>4. ASSUME NEW r \in Requests, CheckBanned(r) PROVE UsageLedger'
    BY <1>4
       DEF CheckBanned, UsageLedger, OneUsageRow, TypeOK, UsageRow, Return, Goto,
           writeVars, tableVars, worldVars
  <1>5. ASSUME NEW r \in Requests, Validate(r) PROVE UsageLedger'
    BY <1>5
       DEF Validate, UsageLedger, OneUsageRow, TypeOK, UsageRow, Return, Goto,
           writeVars, tableVars, worldVars
  <1>6. ASSUME NEW r \in Requests, CheckDaily(r) PROVE UsageLedger'
    BY <1>6
       DEF CheckDaily, UsageLedger, OneUsageRow, TypeOK, UsageRow, Return, Goto,
           writeVars, tableVars, worldVars
  <1>7. ASSUME NEW r \in Requests, CheckPoints(r) PROVE UsageLedger'
    BY <1>7
       DEF CheckPoints, UsageLedger, OneUsageRow, TypeOK, UsageRow, Return, Goto,
           writeVars, tableVars, worldVars
  <1>8. ASSUME NEW r \in Requests, Route(r) PROVE UsageLedger'
    BY <1>8, ZenonT(60)
       DEF Route, UsageLedger, OneUsageRow, TypeOK, UsageRow, Return, Goto,
           writeVars, tableVars, worldVars
  <1>9. ASSUME NEW r \in Requests, CallSucceedsStream(r) PROVE UsageLedger'
    BY <1>9
       DEF CallSucceedsStream, UsageLedger, OneUsageRow, TypeOK, UsageRow, Return, Goto,
           writeVars, tableVars, worldVars
  <1>10. ASSUME NEW r \in Requests, TeeFails(r) PROVE UsageLedger'
    BY <1>10
       DEF TeeFails, UsageLedger, OneUsageRow, TypeOK, UsageRow, Return, Goto,
           writeVars, tableVars, worldVars
  <1>11. ASSUME NEW r \in Requests, CallRetries(r) PROVE UsageLedger'
    BY <1>11
       DEF CallRetries, UsageLedger, OneUsageRow, TypeOK, UsageRow, Return, Goto,
           writeVars, tableVars, worldVars
  <1>12. ASSUME NEW r \in Requests, CallFails(r) PROVE UsageLedger'
    BY <1>12
       DEF CallFails, UsageLedger, OneUsageRow, TypeOK, UsageRow, Return, Goto,
           writeVars, tableVars, worldVars
  <1>13. ASSUME NEW r \in Requests, WriteFailureLog(r) PROVE UsageLedger'
    BY <1>13
       DEF WriteFailureLog, UsageLedger, OneUsageRow, TypeOK, UsageRow, Return, Goto,
           writeVars, tableVars, worldVars
  <1>14. ASSUME NEW r \in Requests, DrainAborts(r) PROVE UsageLedger'
    BY <1>14
       DEF DrainAborts, UsageLedger, OneUsageRow, TypeOK, UsageRow, Return, Goto,
           writeVars, tableVars, worldVars
  <1>15. ASSUME NEW r \in Requests, CallSucceedsJson(r) PROVE UsageLedger'
    BY <1>15
       DEF CallSucceedsJson, BeginPersist, UsageLedger, OneUsageRow, TypeOK, UsageRow, Goto,
           tableVars, worldVars
  <1>16. ASSUME NEW r \in Requests, DrainEnds(r) PROVE UsageLedger'
    BY <1>16
       DEF DrainEnds, BeginPersist, UsageLedger, OneUsageRow, TypeOK, UsageRow, Goto,
           tableVars, worldVars
  <1>17. ASSUME NEW r \in Requests, DrainBreaks(r) PROVE UsageLedger'
    BY <1>17
       DEF DrainBreaks, UsageLedger, OneUsageRow, TypeOK, UsageRow, Goto,
           tableVars, worldVars
  <1>18. ASSUME NEW r \in Requests, Evict(r) PROVE UsageLedger'
    BY <1>18
       DEF Evict, UsageLedger, OneUsageRow, TypeOK, UsageRow, Goto,
           tableVars, worldVars
  <1>19. ASSUME NEW r \in Requests, NEW w \in Writes, WriteSucceeds(r, w)
        PROVE  UsageLedger'
    <2>1. /\ pc' = [pc EXCEPT ![r] = "done"] \/ UNCHANGED pc
          /\ pending' = [pending EXCEPT ![r] = pending[r] \ {w}]
          /\ pc[r] = "persist" /\ w \in pending[r] /\ today' = today
      BY <1>19 DEF WriteSucceeds, Settle, Return, Goto, worldVars
    <2>2. CASE w # "usage"
      <3>1. usageRows' = usageRows
        BY <1>19, <2>2 DEF WriteSucceeds, Effect, Writes
      <3> QED
        BY <2>1, <3>1 DEF UsageLedger, OneUsageRow, TypeOK, UsageRow
    <2>3. CASE w = "usage"
      <3>1. PICK new : /\ usageRows' = usageRows \cup {new}
                       /\ new.req = r /\ new.day = today
        BY <1>19, <2>3, UsageAppended
      <3>2. \A row \in usageRows : row.req # r
        BY <2>1, <2>3 DEF UsageLedger
      <3>3. OneUsageRow'
        BY <3>1, <3>2 DEF UsageLedger, OneUsageRow
      <3>4. \A row \in usageRows' : /\ pc'[row.req] \in {"persist", "done"}
                                    /\ "usage" \notin pending'[row.req]
                                    /\ row.day <= today'
        BY <2>1, <2>3, <3>1 DEF UsageLedger, TypeOK, UsageRow
      <3> QED
        BY <3>3, <3>4 DEF UsageLedger
    <2> QED
      BY <2>2, <2>3
  <1>20. ASSUME NEW r \in Requests, NEW w \in Writes, WriteFails(r, w)
        PROVE  UsageLedger'
    BY <1>20
       DEF WriteFails, UsageLedger, OneUsageRow, TypeOK, UsageRow, Goto,
           tableVars, worldVars
  <1>21. ASSUME NEW u \in Users, Ban(u) PROVE UsageLedger'
    BY <1>21 DEF Ban, UsageLedger, OneUsageRow, writeVars, tableVars
  <1>22. CASE Midnight
    BY <1>22
       DEF Midnight, UsageLedger, OneUsageRow, TypeOK, UsageRow, writeVars, tableVars
  <1>23. CASE UNCHANGED vars
    BY <1>23
       DEF UsageLedger, OneUsageRow, vars, writeVars, tableVars, worldVars
  <1> QED
    BY <1>1, <1>2, <1>3, <1>4, <1>5, <1>6, <1>7, <1>8, <1>9, <1>10, <1>11, <1>12, <1>13, <1>14, <1>15, <1>16, <1>17, <1>18, <1>19, <1>20, <1>21, <1>22, <1>23
       DEF Next, Serve, Finished

\* Who has been told what, step by step.
LEMMA ReplyStep == TypeOK /\ ReplyPhase /\ [Next]_vars => ReplyPhase'
  <1> SUFFICES ASSUME TypeOK, ReplyPhase, [Next]_vars PROVE ReplyPhase'
    OBVIOUS
  <1>1. ASSUME NEW r \in Requests, Arrive(r) PROVE ReplyPhase'
    BY <1>1 DEF Arrive, ReplyPhase, TypeOK, Return, Goto, Steps
  <1>2. ASSUME NEW r \in Requests, RejectCredential(r) PROVE ReplyPhase'
    BY <1>2 DEF RejectCredential, ReplyPhase, TypeOK, Return, Goto, Steps
  <1>3. ASSUME NEW r \in Requests, Authenticate(r) PROVE ReplyPhase'
    BY <1>3 DEF Authenticate, ReplyPhase, TypeOK, Return, Goto, Steps
  <1>4. ASSUME NEW r \in Requests, CheckBanned(r) PROVE ReplyPhase'
    BY <1>4 DEF CheckBanned, ReplyPhase, TypeOK, Return, Goto, Steps
  <1>5. ASSUME NEW r \in Requests, Validate(r) PROVE ReplyPhase'
    BY <1>5 DEF Validate, ReplyPhase, TypeOK, Return, Goto, Steps
  <1>6. ASSUME NEW r \in Requests, CheckDaily(r) PROVE ReplyPhase'
    BY <1>6 DEF CheckDaily, ReplyPhase, TypeOK, Return, Goto, Steps
  <1>7. ASSUME NEW r \in Requests, CheckPoints(r) PROVE ReplyPhase'
    BY <1>7 DEF CheckPoints, ReplyPhase, TypeOK, Return, Goto, Steps
  <1>8. ASSUME NEW r \in Requests, Route(r) PROVE ReplyPhase'
    BY <1>8 DEF Route, ReplyPhase, TypeOK, Return, Goto, Steps
  <1>9. ASSUME NEW r \in Requests, CallSucceedsStream(r) PROVE ReplyPhase'
    BY <1>9 DEF CallSucceedsStream, ReplyPhase, TypeOK, Return, Goto, Steps
  <1>10. ASSUME NEW r \in Requests, TeeFails(r) PROVE ReplyPhase'
    BY <1>10 DEF TeeFails, ReplyPhase, TypeOK, Return, Goto, Steps
  <1>11. ASSUME NEW r \in Requests, CallRetries(r) PROVE ReplyPhase'
    BY <1>11 DEF CallRetries, ReplyPhase, TypeOK, Return, Goto, Steps
  <1>12. ASSUME NEW r \in Requests, CallFails(r) PROVE ReplyPhase'
    BY <1>12 DEF CallFails, ReplyPhase, TypeOK, Return, Goto, Steps
  <1>13. ASSUME NEW r \in Requests, WriteFailureLog(r) PROVE ReplyPhase'
    BY <1>13 DEF WriteFailureLog, ReplyPhase, TypeOK, Return, Goto, Steps
  <1>14. ASSUME NEW r \in Requests, DrainAborts(r) PROVE ReplyPhase'
    BY <1>14 DEF DrainAborts, ReplyPhase, TypeOK, Return, Goto, Steps
  <1>15. ASSUME NEW r \in Requests, DrainBreaks(r) PROVE ReplyPhase'
    BY <1>15 DEF DrainBreaks, ReplyPhase, TypeOK, Return, Goto, Steps
  <1>16. ASSUME NEW r \in Requests, Evict(r) PROVE ReplyPhase'
    BY <1>16 DEF Evict, ReplyPhase, TypeOK, Return, Goto, Steps
  <1>17. ASSUME NEW r \in Requests, CallSucceedsJson(r) PROVE ReplyPhase'
    BY <1>17 DEF CallSucceedsJson, BeginPersist, ReplyPhase, TypeOK, Goto, Steps
  <1>18. ASSUME NEW r \in Requests, DrainEnds(r) PROVE ReplyPhase'
    BY <1>18 DEF DrainEnds, BeginPersist, ReplyPhase, TypeOK, Goto, Steps
  <1>19. ASSUME NEW r \in Requests, NEW w \in Writes, WriteSucceeds(r, w)
        PROVE  ReplyPhase'
    BY <1>19 DEF WriteSucceeds, Settle, Return, Goto, ReplyPhase, TypeOK
  <1>20. ASSUME NEW r \in Requests, NEW w \in Writes, WriteFails(r, w)
        PROVE  ReplyPhase'
    BY <1>20 DEF WriteFails, Goto, ReplyPhase, TypeOK
  <1>21. ASSUME NEW u \in Users, Ban(u) PROVE ReplyPhase'
    BY <1>21 DEF Ban, ReplyPhase
  <1>22. CASE Midnight
    BY <1>22 DEF Midnight, ReplyPhase
  <1>23. CASE UNCHANGED vars
    BY <1>23 DEF ReplyPhase, vars
  <1> QED
    BY <1>1, <1>2, <1>3, <1>4, <1>5, <1>6, <1>7, <1>8, <1>9, <1>10, <1>11, <1>12, <1>13, <1>14, <1>15, <1>16, <1>17, <1>18, <1>19, <1>20, <1>21, <1>22, <1>23
       DEF Next, Serve, Finished

-----------------------------------------------------------------------------
(* The daily limit. *)

\* No more invocations open than before.
LEMMA FewerActive ==
    ASSUME ConcurrencyBounded, Active' \subseteq Active
    PROVE  ConcurrencyBounded'
  <1>1. IsFiniteSet(Active)
    <2>1. Active \in SUBSET Requests
      BY DEF Active
    <2> QED
      BY <2>1, FS_Subset, LimitAssumption
  <1>2. IsFiniteSet(Active') /\ Cardinality(Active') <= Cardinality(Active)
    BY <1>1, FS_Subset
  <1>3. Cardinality(Active) \in Nat /\ Cardinality(Active') \in Nat
    BY <1>1, <1>2, FS_CardinalityType
  <1> QED
    BY <1>2, <1>3, LimitAssumption DEF ConcurrencyBounded

\* One more invocation, which Arrive admits below the bound only.
LEMMA OneMoreActive ==
    ASSUME TypeOK, ConcurrencyBounded, NEW r \in Requests, Arrive(r)
    PROVE  ConcurrencyBounded'
  <1>1. Active' = Active \cup {r}
    BY DEF Arrive, Goto, Active, TypeOK, Steps
  <1>2. IsFiniteSet(Active)
    <2>1. Active \in SUBSET Requests
      BY DEF Active
    <2> QED
      BY <2>1, FS_Subset, LimitAssumption
  <1>3. Cardinality(Active) \in Nat
    BY <1>2, FS_CardinalityType
  <1>4. Cardinality(Active') <= Cardinality(Active) + 1
    BY <1>1, <1>2, <1>3, FS_AddElement
  <1>5. Cardinality(Active) < MaxConcurrent
    BY DEF Arrive
  <1>6. Cardinality(Active') \in Nat
    <2>1. IsFiniteSet(Active')
      BY <1>1, <1>2, FS_AddElement
    <2> QED
      BY <2>1, FS_CardinalityType
  <1> QED
    BY <1>3, <1>4, <1>5, <1>6, LimitAssumption DEF ConcurrencyBounded

\* The number of open invocations stays within its bound.
LEMMA ConcurrencyStep == TypeOK /\ ConcurrencyBounded /\ [Next]_vars => ConcurrencyBounded'
  <1> SUFFICES ASSUME TypeOK, ConcurrencyBounded, [Next]_vars PROVE ConcurrencyBounded'
    OBVIOUS
  <1>1. ASSUME NEW r \in Requests, Arrive(r) PROVE ConcurrencyBounded'
    BY <1>1, OneMoreActive
  <1>2. ASSUME NEW r \in Requests, RejectCredential(r) PROVE ConcurrencyBounded'
    <2>1. Active' \subseteq Active
      BY <1>2 DEF RejectCredential, Active, TypeOK, Return, Goto
    <2> QED
      BY <2>1, FewerActive
  <1>3. ASSUME NEW r \in Requests, Authenticate(r) PROVE ConcurrencyBounded'
    <2>1. Active' \subseteq Active
      BY <1>3 DEF Authenticate, Active, TypeOK, Return, Goto
    <2> QED
      BY <2>1, FewerActive
  <1>4. ASSUME NEW r \in Requests, CheckBanned(r) PROVE ConcurrencyBounded'
    <2>1. Active' \subseteq Active
      BY <1>4 DEF CheckBanned, Active, TypeOK, Return, Goto
    <2> QED
      BY <2>1, FewerActive
  <1>5. ASSUME NEW r \in Requests, Validate(r) PROVE ConcurrencyBounded'
    <2>1. Active' \subseteq Active
      BY <1>5 DEF Validate, Active, TypeOK, Return, Goto
    <2> QED
      BY <2>1, FewerActive
  <1>6. ASSUME NEW r \in Requests, CheckDaily(r) PROVE ConcurrencyBounded'
    <2>1. Active' \subseteq Active
      BY <1>6 DEF CheckDaily, Active, TypeOK, Return, Goto
    <2> QED
      BY <2>1, FewerActive
  <1>7. ASSUME NEW r \in Requests, CheckPoints(r) PROVE ConcurrencyBounded'
    <2>1. Active' \subseteq Active
      BY <1>7 DEF CheckPoints, Active, TypeOK, Return, Goto
    <2> QED
      BY <2>1, FewerActive
  <1>8. ASSUME NEW r \in Requests, Route(r) PROVE ConcurrencyBounded'
    <2>1. Active' \subseteq Active
      BY <1>8 DEF Route, Active, TypeOK, Return, Goto
    <2> QED
      BY <2>1, FewerActive
  <1>9. ASSUME NEW r \in Requests, CallSucceedsStream(r) PROVE ConcurrencyBounded'
    <2>1. Active' \subseteq Active
      BY <1>9 DEF CallSucceedsStream, Active, TypeOK, Return, Goto
    <2> QED
      BY <2>1, FewerActive
  <1>10. ASSUME NEW r \in Requests, TeeFails(r) PROVE ConcurrencyBounded'
    <2>1. Active' \subseteq Active
      BY <1>10 DEF TeeFails, Active, TypeOK, Return, Goto
    <2> QED
      BY <2>1, FewerActive
  <1>11. ASSUME NEW r \in Requests, CallRetries(r) PROVE ConcurrencyBounded'
    <2>1. Active' \subseteq Active
      BY <1>11 DEF CallRetries, Active, TypeOK, Return, Goto
    <2> QED
      BY <2>1, FewerActive
  <1>12. ASSUME NEW r \in Requests, CallFails(r) PROVE ConcurrencyBounded'
    <2>1. Active' \subseteq Active
      BY <1>12 DEF CallFails, Active, TypeOK, Return, Goto
    <2> QED
      BY <2>1, FewerActive
  <1>13. ASSUME NEW r \in Requests, WriteFailureLog(r) PROVE ConcurrencyBounded'
    <2>1. Active' \subseteq Active
      BY <1>13 DEF WriteFailureLog, Active, TypeOK, Return, Goto
    <2> QED
      BY <2>1, FewerActive
  <1>14. ASSUME NEW r \in Requests, DrainAborts(r) PROVE ConcurrencyBounded'
    <2>1. Active' \subseteq Active
      BY <1>14 DEF DrainAborts, Active, TypeOK, Return, Goto
    <2> QED
      BY <2>1, FewerActive
  <1>15. ASSUME NEW r \in Requests, DrainBreaks(r) PROVE ConcurrencyBounded'
    <2>1. Active' \subseteq Active
      BY <1>15 DEF DrainBreaks, Active, TypeOK, Return, Goto
    <2> QED
      BY <2>1, FewerActive
  <1>16. ASSUME NEW r \in Requests, Evict(r) PROVE ConcurrencyBounded'
    <2>1. Active' \subseteq Active
      BY <1>16 DEF Evict, Active, TypeOK, Return, Goto
    <2> QED
      BY <2>1, FewerActive
  <1>17. ASSUME NEW r \in Requests, CallSucceedsJson(r) PROVE ConcurrencyBounded'
    <2>1. Active' \subseteq Active
      BY <1>17 DEF CallSucceedsJson, BeginPersist, Active, TypeOK, Goto
    <2> QED
      BY <2>1, FewerActive
  <1>18. ASSUME NEW r \in Requests, DrainEnds(r) PROVE ConcurrencyBounded'
    <2>1. Active' \subseteq Active
      BY <1>18 DEF DrainEnds, BeginPersist, Active, TypeOK, Goto
    <2> QED
      BY <2>1, FewerActive
  <1>19. ASSUME NEW r \in Requests, NEW w \in Writes, WriteSucceeds(r, w)
        PROVE  ConcurrencyBounded'
    <2>1. Active' \subseteq Active
      BY <1>19 DEF WriteSucceeds, Settle, Return, Goto, Active, TypeOK
    <2> QED
      BY <2>1, FewerActive
  <1>20. ASSUME NEW r \in Requests, NEW w \in Writes, WriteFails(r, w)
        PROVE  ConcurrencyBounded'
    <2>1. Active' \subseteq Active
      BY <1>20 DEF WriteFails, Goto, Active, TypeOK
    <2> QED
      BY <2>1, FewerActive
  <1>21. ASSUME NEW u \in Users, Ban(u) PROVE ConcurrencyBounded'
    BY <1>21 DEF Ban, ConcurrencyBounded, Active
  <1>22. CASE Midnight
    BY <1>22 DEF Midnight, ConcurrencyBounded, Active
  <1>23. CASE UNCHANGED vars
    BY <1>23 DEF vars, ConcurrencyBounded, Active
  <1> QED
    BY <1>1, <1>2, <1>3, <1>4, <1>5, <1>6, <1>7, <1>8, <1>9, <1>10, <1>11, <1>12, <1>13, <1>14, <1>15, <1>16, <1>17, <1>18, <1>19, <1>20, <1>21, <1>22, <1>23
       DEF Next, Serve, Finished

\* The sets the daily bound counts are finite.
LEMMA CountedFinite ==
    ASSUME TypeOK, NEW u
    PROVE  /\ IsFiniteSet(RowsToday(u)) /\ Cardinality(RowsToday(u)) \in Nat
           /\ IsFiniteSet(Admitted(u)) /\ Cardinality(Admitted(u)) \in Nat
           /\ IsFiniteSet(Active) /\ Cardinality(Active) \in Nat
           /\ Cardinality(Admitted(u)) <= Cardinality(Active)
  <1>1. RowsToday(u) \in SUBSET usageRows /\ IsFiniteSet(usageRows)
    BY DEF RowsToday, TypeOK
  <1>2. Admitted(u) \in SUBSET Active /\ Active \in SUBSET Requests
    BY DEF Admitted, Active
  <1>3. IsFiniteSet(RowsToday(u)) /\ IsFiniteSet(Active)
    BY <1>1, <1>2, FS_Subset, LimitAssumption
  <1>4. IsFiniteSet(Admitted(u)) /\ Cardinality(Admitted(u)) <= Cardinality(Active)
    BY <1>2, <1>3, FS_Subset
  <1> QED
    BY <1>3, <1>4, FS_CardinalityType

\* Steps that write no usage row and admit nobody.
LEMMA DailyQuiet ==
    ASSUME TypeOK, DailyOvershootBounded,
           usageRows' = usageRows, today' = today,
           \A u \in Users \ Admins : Admitted(u)' \subseteq Admitted(u)
    PROVE  DailyOvershootBounded'
  <1> SUFFICES ASSUME NEW u \in Users \ Admins
               PROVE  Cardinality(RowsToday(u)') + Cardinality(Admitted(u)')
                        <= DailyLimit - 1 + MaxConcurrent
    BY DEF DailyOvershootBounded
  <1>1. RowsToday(u)' = RowsToday(u)
    BY DEF RowsToday
  <1>2. /\ IsFiniteSet(Admitted(u)) /\ Cardinality(Admitted(u)) \in Nat
        /\ Cardinality(RowsToday(u)) \in Nat
    BY CountedFinite
  <1>3. IsFiniteSet(Admitted(u)') /\ Cardinality(Admitted(u)') <= Cardinality(Admitted(u))
    BY <1>2, FS_Subset
  <1>4. Cardinality(Admitted(u)') \in Nat
    BY <1>3, FS_CardinalityType
  <1>5. Cardinality(RowsToday(u)) + Cardinality(Admitted(u))
          <= DailyLimit - 1 + MaxConcurrent
    BY DEF DailyOvershootBounded
  <1> QED
    BY <1>1, <1>2, <1>3, <1>4, <1>5, LimitAssumption

\* The check itself: fewer rows than the limit, and however many are admitted
\* they are all open.
LEMMA DailyCheck ==
    ASSUME TypeOK, TypeOK', DailyOvershootBounded, ConcurrencyBounded',
           NEW r \in Requests, CheckDaily(r)
    PROVE  DailyOvershootBounded'
  <1> SUFFICES ASSUME NEW u \in Users \ Admins
               PROVE  Cardinality(RowsToday(u)') + Cardinality(Admitted(u)')
                        <= DailyLimit - 1 + MaxConcurrent
    BY DEF DailyOvershootBounded
  <1>1. RowsToday(u)' = RowsToday(u)
    BY DEF RowsToday, CheckDaily, tableVars, worldVars
  <1>2. /\ Cardinality(RowsToday(u)) \in Nat /\ Cardinality(Admitted(u)) \in Nat
        /\ IsFiniteSet(Admitted(u))
    BY CountedFinite
  <1>3. /\ Cardinality(Admitted(u)') \in Nat /\ Cardinality(Active') \in Nat
        /\ Cardinality(Admitted(u)') <= Cardinality(Active')
    <2>1. Active' \in SUBSET Requests /\ Admitted(u)' \in SUBSET Active'
      BY DEF Active, Admitted
    <2>2. IsFiniteSet(Active')
      BY <2>1, FS_Subset, LimitAssumption
    <2>3. IsFiniteSet(Admitted(u)') /\ Cardinality(Admitted(u)') <= Cardinality(Active')
      BY <2>1, <2>2, FS_Subset
    <2> QED
      BY <2>2, <2>3, FS_CardinalityType
  <1>4. Cardinality(Active') <= MaxConcurrent
    BY DEF ConcurrencyBounded
  <1>5. CASE user[r] = u /\ Cardinality(RowsToday(u)) < DailyLimit
    BY <1>1, <1>2, <1>3, <1>4, <1>5, LimitAssumption
  <1>6. CASE ~(user[r] = u /\ Cardinality(RowsToday(u)) < DailyLimit)
    <2>1. Admitted(u)' \subseteq Admitted(u)
      BY <1>2, <1>6, LimitAssumption
         DEF CheckDaily, Admitted, TypeOK, Return, Goto, reqVars, writeVars
    <2>2. Cardinality(Admitted(u)') <= Cardinality(Admitted(u))
      BY <1>2, <2>1, FS_Subset
    <2>3. Cardinality(RowsToday(u)) + Cardinality(Admitted(u))
            <= DailyLimit - 1 + MaxConcurrent
      BY DEF DailyOvershootBounded
    <2> QED
      BY <1>1, <1>2, <1>3, <2>2, <2>3, LimitAssumption
  <1> QED
    BY <1>5, <1>6

\* A usage row takes the place of the admission it completes.
LEMMA DailyCharge ==
    ASSUME TypeOK, TypeOK', DailyOvershootBounded,
           NEW r \in Requests, WriteSucceeds(r, "usage")
    PROVE  DailyOvershootBounded'
  <1> SUFFICES ASSUME NEW u \in Users \ Admins
               PROVE  Cardinality(RowsToday(u)') + Cardinality(Admitted(u)')
                        <= DailyLimit - 1 + MaxConcurrent
    BY DEF DailyOvershootBounded
  <1>1. /\ pc[r] = "persist" /\ "usage" \in pending[r]
        /\ pending' = [pending EXCEPT ![r] = pending[r] \ {"usage"}]
        /\ pc' = [pc EXCEPT ![r] = "done"] \/ UNCHANGED pc
        /\ user' = user /\ today' = today
    BY DEF WriteSucceeds, Settle, Return, Goto, reqVars, worldVars
  <1>2. PICK new : usageRows' = usageRows \cup {new} /\ new.user = user[r]
    BY UsageAppended
  <1>3. /\ IsFiniteSet(RowsToday(u)) /\ Cardinality(RowsToday(u)) \in Nat
        /\ IsFiniteSet(Admitted(u)) /\ Cardinality(Admitted(u)) \in Nat
    BY CountedFinite
  <1>4. Cardinality(RowsToday(u)) + Cardinality(Admitted(u))
          <= DailyLimit - 1 + MaxConcurrent
    BY DEF DailyOvershootBounded
  <1>5. CASE user[r] = u
    <2>1. Admitted(u)' = Admitted(u) \ {r} /\ r \in Admitted(u)
      BY <1>1, <1>5 DEF Admitted, TypeOK
    <2>2. Cardinality(Admitted(u)') = Cardinality(Admitted(u)) - 1
      BY <1>3, <2>1, FS_RemoveElement
    <2>3. RowsToday(u)' \subseteq RowsToday(u) \cup {new}
      BY <1>1, <1>2 DEF RowsToday
    <2>4. /\ IsFiniteSet(RowsToday(u) \cup {new})
          /\ Cardinality(RowsToday(u) \cup {new}) <= Cardinality(RowsToday(u)) + 1
      <3>1. IsFiniteSet(RowsToday(u) \cup {new})
        BY <1>3, FS_AddElement
      <3>2. \/ Cardinality(RowsToday(u) \cup {new}) = Cardinality(RowsToday(u))
            \/ Cardinality(RowsToday(u) \cup {new}) = Cardinality(RowsToday(u)) + 1
        BY <1>3, FS_AddElement
      <3> QED
        BY <1>3, <3>1, <3>2
    <2>5. /\ IsFiniteSet(RowsToday(u)')
          /\ Cardinality(RowsToday(u)') <= Cardinality(RowsToday(u) \cup {new})
      BY <2>3, <2>4, FS_Subset
    <2>6. Cardinality(RowsToday(u)') \in Nat /\ Cardinality(RowsToday(u) \cup {new}) \in Nat
      BY <2>4, <2>5, FS_CardinalityType
    <2> QED
      BY <1>3, <1>4, <2>2, <2>4, <2>5, <2>6, LimitAssumption
  <1>6. CASE user[r] # u
    <2>1. RowsToday(u)' = RowsToday(u)
      BY <1>1, <1>2, <1>6 DEF RowsToday
    <2>2. Admitted(u)' = Admitted(u)
      BY <1>1, <1>6 DEF Admitted, TypeOK
    <2> QED
      BY <1>4, <2>1, <2>2
  <1> QED
    BY <1>5, <1>6

\* Midnight starts an empty day, with what is in flight carried over.
LEMMA DailyMidnight ==
    ASSUME TypeOK, UsageLedger, ConcurrencyBounded, Midnight
    PROVE  DailyOvershootBounded'
  <1> SUFFICES ASSUME NEW u \in Users \ Admins
               PROVE  Cardinality(RowsToday(u)') + Cardinality(Admitted(u)')
                        <= DailyLimit - 1 + MaxConcurrent
    BY DEF DailyOvershootBounded
  <1>1. RowsToday(u)' = {}
    BY LimitAssumption
       DEF RowsToday, Midnight, UsageLedger, TypeOK, UsageRow, tableVars
  <1>2. Admitted(u)' = Admitted(u)
    BY DEF Admitted, Midnight, reqVars, writeVars
  <1>3. /\ Cardinality(Admitted(u)) <= Cardinality(Active)
        /\ Cardinality(Admitted(u)) \in Nat /\ Cardinality(Active) \in Nat
    BY CountedFinite
  <1>4. Cardinality(RowsToday(u)') = 0
    BY <1>1, FS_EmptySet
  <1> QED
    BY <1>2, <1>3, <1>4, LimitAssumption DEF ConcurrencyBounded

\* Every step keeps rows and admissions of the day within the bound.
LEMMA DailyStep == TypeOK /\ TypeOK' /\ PendingOwned /\ UsageLedger
                       /\ ConcurrencyBounded /\ ConcurrencyBounded' /\ DailyOvershootBounded /\ [Next]_vars => DailyOvershootBounded'
  <1> SUFFICES ASSUME TypeOK, TypeOK', PendingOwned, UsageLedger, ConcurrencyBounded,
                      ConcurrencyBounded', DailyOvershootBounded, [Next]_vars PROVE DailyOvershootBounded'
    OBVIOUS
  <1>1. ASSUME NEW r \in Requests, Arrive(r) PROVE DailyOvershootBounded'
    <2>1. \A u \in Users \ Admins : Admitted(u)' \subseteq Admitted(u)
      BY <1>1, AccountAssumption
         DEF Arrive, Admitted, PendingOwned, TypeOK, Goto,
             reqVars, writeVars
    <2>2. usageRows' = usageRows /\ today' = today
      BY <1>1 DEF Arrive, tableVars, worldVars
    <2> QED
      BY <2>1, <2>2, DailyQuiet
  <1>2. ASSUME NEW r \in Requests, RejectCredential(r) PROVE DailyOvershootBounded'
    <2>1. \A u \in Users \ Admins : Admitted(u)' \subseteq Admitted(u)
      BY <1>2, AccountAssumption
         DEF RejectCredential, Admitted, PendingOwned, TypeOK, Return, Goto,
             reqVars, writeVars
    <2>2. usageRows' = usageRows /\ today' = today
      BY <1>2 DEF RejectCredential, tableVars, worldVars
    <2> QED
      BY <2>1, <2>2, DailyQuiet
  <1>3. ASSUME NEW r \in Requests, Authenticate(r) PROVE DailyOvershootBounded'
    <2>1. \A u \in Users \ Admins : Admitted(u)' \subseteq Admitted(u)
      BY <1>3, AccountAssumption
         DEF Authenticate, Admitted, PendingOwned, TypeOK, Return, Goto,
             reqVars, writeVars
    <2>2. usageRows' = usageRows /\ today' = today
      BY <1>3 DEF Authenticate, tableVars, worldVars
    <2> QED
      BY <2>1, <2>2, DailyQuiet
  <1>4. ASSUME NEW r \in Requests, CheckBanned(r) PROVE DailyOvershootBounded'
    <2>1. \A u \in Users \ Admins : Admitted(u)' \subseteq Admitted(u)
      BY <1>4, AccountAssumption
         DEF CheckBanned, Admitted, PendingOwned, TypeOK, Return, Goto,
             reqVars, writeVars
    <2>2. usageRows' = usageRows /\ today' = today
      BY <1>4 DEF CheckBanned, tableVars, worldVars
    <2> QED
      BY <2>1, <2>2, DailyQuiet
  <1>5. ASSUME NEW r \in Requests, Validate(r) PROVE DailyOvershootBounded'
    <2>1. \A u \in Users \ Admins : Admitted(u)' \subseteq Admitted(u)
      BY <1>5, AccountAssumption
         DEF Validate, Admitted, PendingOwned, TypeOK, Return, Goto,
             reqVars, writeVars
    <2>2. usageRows' = usageRows /\ today' = today
      BY <1>5 DEF Validate, tableVars, worldVars
    <2> QED
      BY <2>1, <2>2, DailyQuiet
  <1>6. ASSUME NEW r \in Requests, CheckPoints(r) PROVE DailyOvershootBounded'
    <2>1. \A u \in Users \ Admins : Admitted(u)' \subseteq Admitted(u)
      BY <1>6, AccountAssumption
         DEF CheckPoints, Admitted, PendingOwned, TypeOK, Return, Goto,
             reqVars, writeVars
    <2>2. usageRows' = usageRows /\ today' = today
      BY <1>6 DEF CheckPoints, tableVars, worldVars
    <2> QED
      BY <2>1, <2>2, DailyQuiet
  <1>7. ASSUME NEW r \in Requests, Route(r) PROVE DailyOvershootBounded'
    <2>1. \A u \in Users \ Admins : Admitted(u)' \subseteq Admitted(u)
      BY <1>7, AccountAssumption
         DEF Route, Admitted, PendingOwned, TypeOK, Return, Goto,
             reqVars, writeVars
    <2>2. usageRows' = usageRows /\ today' = today
      BY <1>7 DEF Route, tableVars, worldVars
    <2> QED
      BY <2>1, <2>2, DailyQuiet
  <1>8. ASSUME NEW r \in Requests, CallSucceedsStream(r) PROVE DailyOvershootBounded'
    <2>1. \A u \in Users \ Admins : Admitted(u)' \subseteq Admitted(u)
      BY <1>8, AccountAssumption
         DEF CallSucceedsStream, Admitted, PendingOwned, TypeOK, Return, Goto,
             reqVars, writeVars
    <2>2. usageRows' = usageRows /\ today' = today
      BY <1>8 DEF CallSucceedsStream, tableVars, worldVars
    <2> QED
      BY <2>1, <2>2, DailyQuiet
  <1>9. ASSUME NEW r \in Requests, TeeFails(r) PROVE DailyOvershootBounded'
    <2>1. \A u \in Users \ Admins : Admitted(u)' \subseteq Admitted(u)
      BY <1>9, AccountAssumption
         DEF TeeFails, Admitted, PendingOwned, TypeOK, Return, Goto,
             reqVars, writeVars
    <2>2. usageRows' = usageRows /\ today' = today
      BY <1>9 DEF TeeFails, tableVars, worldVars
    <2> QED
      BY <2>1, <2>2, DailyQuiet
  <1>10. ASSUME NEW r \in Requests, CallRetries(r) PROVE DailyOvershootBounded'
    <2>1. \A u \in Users \ Admins : Admitted(u)' \subseteq Admitted(u)
      BY <1>10, AccountAssumption
         DEF CallRetries, Admitted, PendingOwned, TypeOK, Return, Goto,
             reqVars, writeVars
    <2>2. usageRows' = usageRows /\ today' = today
      BY <1>10 DEF CallRetries, tableVars, worldVars
    <2> QED
      BY <2>1, <2>2, DailyQuiet
  <1>11. ASSUME NEW r \in Requests, CallFails(r) PROVE DailyOvershootBounded'
    <2>1. \A u \in Users \ Admins : Admitted(u)' \subseteq Admitted(u)
      BY <1>11, AccountAssumption
         DEF CallFails, Admitted, PendingOwned, TypeOK, Return, Goto,
             reqVars, writeVars
    <2>2. usageRows' = usageRows /\ today' = today
      BY <1>11 DEF CallFails, tableVars, worldVars
    <2> QED
      BY <2>1, <2>2, DailyQuiet
  <1>12. ASSUME NEW r \in Requests, WriteFailureLog(r) PROVE DailyOvershootBounded'
    <2>1. \A u \in Users \ Admins : Admitted(u)' \subseteq Admitted(u)
      BY <1>12, AccountAssumption
         DEF WriteFailureLog, Admitted, PendingOwned, TypeOK, Return, Goto,
             reqVars, writeVars
    <2>2. usageRows' = usageRows /\ today' = today
      BY <1>12 DEF WriteFailureLog, tableVars, worldVars
    <2> QED
      BY <2>1, <2>2, DailyQuiet
  <1>13. ASSUME NEW r \in Requests, DrainAborts(r) PROVE DailyOvershootBounded'
    <2>1. \A u \in Users \ Admins : Admitted(u)' \subseteq Admitted(u)
      BY <1>13, AccountAssumption
         DEF DrainAborts, Admitted, PendingOwned, TypeOK, Return, Goto,
             reqVars, writeVars
    <2>2. usageRows' = usageRows /\ today' = today
      BY <1>13 DEF DrainAborts, tableVars, worldVars
    <2> QED
      BY <2>1, <2>2, DailyQuiet
  <1>14. ASSUME NEW r \in Requests, DrainBreaks(r) PROVE DailyOvershootBounded'
    <2>1. \A u \in Users \ Admins : Admitted(u)' \subseteq Admitted(u)
      BY <1>14, AccountAssumption
         DEF DrainBreaks, Admitted, PendingOwned, TypeOK, Return, Goto,
             reqVars, writeVars
    <2>2. usageRows' = usageRows /\ today' = today
      BY <1>14 DEF DrainBreaks, tableVars, worldVars
    <2> QED
      BY <2>1, <2>2, DailyQuiet
  <1>15. ASSUME NEW r \in Requests, Evict(r) PROVE DailyOvershootBounded'
    <2>1. \A u \in Users \ Admins : Admitted(u)' \subseteq Admitted(u)
      BY <1>15, AccountAssumption
         DEF Evict, Admitted, PendingOwned, TypeOK, Return, Goto,
             reqVars, writeVars
    <2>2. usageRows' = usageRows /\ today' = today
      BY <1>15 DEF Evict, tableVars, worldVars
    <2> QED
      BY <2>1, <2>2, DailyQuiet
  <1>16. ASSUME NEW r \in Requests, CallSucceedsJson(r) PROVE DailyOvershootBounded'
    <2>1. \A u \in Users \ Admins : Admitted(u)' \subseteq Admitted(u)
      BY <1>16, AccountAssumption
         DEF CallSucceedsJson, Admitted, PendingOwned, TypeOK, BeginPersist, LedgerWrites, Goto,
             reqVars, writeVars
    <2>2. usageRows' = usageRows /\ today' = today
      BY <1>16 DEF CallSucceedsJson, tableVars, worldVars
    <2> QED
      BY <2>1, <2>2, DailyQuiet
  <1>17. ASSUME NEW r \in Requests, DrainEnds(r) PROVE DailyOvershootBounded'
    <2>1. \A u \in Users \ Admins : Admitted(u)' \subseteq Admitted(u)
      BY <1>17, AccountAssumption
         DEF DrainEnds, Admitted, PendingOwned, TypeOK, BeginPersist, LedgerWrites, Goto,
             reqVars, writeVars
    <2>2. usageRows' = usageRows /\ today' = today
      BY <1>17 DEF DrainEnds, tableVars, worldVars
    <2> QED
      BY <2>1, <2>2, DailyQuiet
  <1>18. ASSUME NEW r \in Requests, CheckDaily(r) PROVE DailyOvershootBounded'
    BY <1>18, DailyCheck
  <1>19. ASSUME NEW r \in Requests, NEW w \in Writes, WriteSucceeds(r, w)
        PROVE  DailyOvershootBounded'
    <2>1. CASE w = "usage"
      BY <1>19, <2>1, DailyCharge
    <2>2. CASE w # "usage"
      <3>1. \A u \in Users \ Admins : Admitted(u)' \subseteq Admitted(u)
        <4>1. /\ pc' = [pc EXCEPT ![r] = "done"] \/ UNCHANGED pc
              /\ pending' = [pending EXCEPT ![r] = pending[r] \ {w}]
              /\ pc[r] = "persist" /\ user' = user
          BY <1>19 DEF WriteSucceeds, Settle, Return, Goto, reqVars
        <4> QED
          BY <4>1 DEF Admitted, TypeOK
      <3>2. usageRows' = usageRows /\ today' = today
        BY <1>19, <2>2 DEF WriteSucceeds, Effect, Writes, worldVars
      <3> QED
        BY <3>1, <3>2, DailyQuiet
    <2> QED
      BY <2>1, <2>2
  <1>20. ASSUME NEW r \in Requests, NEW w \in Writes, WriteFails(r, w)
        PROVE  DailyOvershootBounded'
    <2>1. \A u \in Users \ Admins : Admitted(u)' \subseteq Admitted(u)
      BY <1>20 DEF WriteFails, Goto, Admitted, TypeOK, reqVars
    <2>2. usageRows' = usageRows /\ today' = today
      BY <1>20 DEF WriteFails, tableVars, worldVars
    <2> QED
      BY <2>1, <2>2, DailyQuiet
  <1>21. ASSUME NEW u \in Users, Ban(u) PROVE DailyOvershootBounded'
    <2>1. \A v \in Users \ Admins : Admitted(v)' \subseteq Admitted(v)
      BY <1>21 DEF Ban, Admitted, reqVars, writeVars
    <2>2. usageRows' = usageRows /\ today' = today
      BY <1>21 DEF Ban, tableVars
    <2> QED
      BY <2>1, <2>2, DailyQuiet
  <1>22. CASE Midnight
    BY <1>22, DailyMidnight
  <1>23. CASE UNCHANGED vars
    BY <1>23
       DEF DailyOvershootBounded, Admitted, RowsToday, vars, reqVars, writeVars,
           tableVars, worldVars
  <1> QED
    BY <1>1, <1>2, <1>3, <1>4, <1>5, <1>6, <1>7, <1>8, <1>9, <1>10, <1>11, <1>12, <1>13, <1>14, <1>15, <1>16, <1>17, <1>18, <1>19, <1>20, <1>21, <1>22, <1>23
       DEF Next, Serve, Finished

-----------------------------------------------------------------------------
(* The theorems. *)

\* The gateway's initial state, with nothing reserved, satisfies its invariant.
LEMMA GatewayInit == Init => GatewayInv
  <1> SUFFICES ASSUME Init PROVE GatewayInv
    OBVIOUS
  <1>1. TypeOK /\ PendingOwned
    BY TypeInit, PendingInit
  <1>2. UsageLedger /\ ReplyPhase
    BY DEF Init, UsageLedger, OneUsageRow, ReplyPhase
  <1>3. Active = {} /\ \A u : RowsToday(u) = {} /\ Admitted(u) = {}
    BY DEF Init, Active, RowsToday, Admitted
  <1>4. ConcurrencyBounded /\ DailyOvershootBounded
    BY <1>3, FS_EmptySet, LimitAssumption
       DEF ConcurrencyBounded, DailyOvershootBounded
  <1> QED
    BY <1>1, <1>2, <1>4 DEF GatewayInv

\* Every step keeps the whole invariant.
LEMMA GatewayStep == GatewayInv /\ [Next]_vars => GatewayInv'
  <1> SUFFICES ASSUME GatewayInv, [Next]_vars PROVE GatewayInv'
    OBVIOUS
  <1>1. TypeOK' /\ PendingOwned'
    BY TypeStep, PendingStep DEF GatewayInv
  <1>2. UsageLedger' /\ ReplyPhase' /\ ConcurrencyBounded'
    BY UsageStep, ReplyStep, ConcurrencyStep DEF GatewayInv
  <1>3. DailyOvershootBounded'
    BY <1>1, <1>2, DailyStep DEF GatewayInv
  <1> QED
    BY <1>1, <1>2, <1>3 DEF GatewayInv

\* The strengthened invariant holds of the gateway.
THEOREM GatewayInvariant == Spec => []GatewayInv
  <1>1. Init => GatewayInv
    BY GatewayInit
  <1>2. GatewayInv /\ [Next]_vars => GatewayInv'
    BY GatewayStep
  <1> QED
    BY <1>1, <1>2, PTL DEF Spec

\* A request leaves at most one usage row, however its writes interleave and
\* fail and whether or not a fallback answered it.
THEOREM UsageAtMostOnce == Spec => []OneUsageRow
  <1>1. GatewayInv => OneUsageRow
    BY DEF GatewayInv, UsageLedger
  <1> QED
    BY <1>1, GatewayInvariant, PTL

\* The daily limit is overshot by less than the number of invocations open at
\* once, for any limit, any number of requests and any number of days.
THEOREM DailyOvershoot == Spec => []DailyOvershootBounded
  <1>1. GatewayInv => DailyOvershootBounded
    BY DEF GatewayInv
  <1> QED
    BY <1>1, GatewayInvariant, PTL

-----------------------------------------------------------------------------
(* Providers. *)

\* The calls a request can have made: none, one on an available model, or a
\* second one on an available model of another host.
Called(models) ==
    \/ models = <<>>
    \/ \E m \in Models \cap Available : models = <<m>>
    \/ \E m, n \in Models \cap Available : Host[m] # Host[n] /\ models = <<m, n>>

\* A request that arrived after the ban is stopped before it is routed: the
\* credential check or the check of users.status answers it.
Stopped(r) ==
    /\ user[r] \in banned
    /\ pc[r] \in {"auth", "status", "done"}
    /\ tried[r] = <<>>
    /\ reply[r] \in {"none", "denied", "quota"}

\* The steps of a request whose user's status has not been read.
Unasked == {"idle", "auth", "status"}

\* ProviderDiscipline made inductive: a ban meets requests that have called nobody.
ProviderInv ==
    /\ \A r \in Requests : Called(tried[r])
    /\ \A r \in Requests : pc[r] \in Unasked => tried[r] = <<>>
    /\ \A r \in lateBan : Stopped(r)

\* A second call is appended to the first.
LEMMA CallAppended ==
    ASSUME NEW m \in Models, NEW n \in Models
    PROVE  <<m>> \o <<n>> = <<m, n>>
  <1> DEFINE calls == <<m>> \o <<n>>
  <1>1. calls \in Seq(Models) /\ Len(calls) = 2
    OBVIOUS
  <1>2. \A i \in 1..2 : calls[i] = <<m, n>>[i]
    OBVIOUS
  <1>3. calls = [i \in 1..2 |-> calls[i]]
    BY <1>1
  <1>4. <<m, n>> = [i \in 1..2 |-> <<m, n>>[i]]
    OBVIOUS
  <1> QED
    BY <1>2, <1>3, <1>4

\* What ProviderDiscipline says of one request.
LEMMA CalledDiscipline ==
    ASSUME NEW models, Called(models)
    PROVE  /\ Len(models) <= 2
           /\ \A i \in DOMAIN models : models[i] \in Available
           /\ Len(models) = 2 => Host[models[1]] # Host[models[2]]
  <1>1. CASE models = <<>>
    BY <1>1
  <1>2. CASE \E m \in Models \cap Available : models = <<m>>
    BY <1>2
  <1>3. CASE \E m, n \in Models \cap Available : Host[m] # Host[n] /\ models = <<m, n>>
    BY <1>3
  <1> QED
    BY <1>1, <1>2, <1>3 DEF Called

\* What has been called, and what a ban has stopped, is what the property asks.
LEMMA ProviderFromInv == ProviderInv => ProviderDiscipline
  <1> SUFFICES ASSUME ProviderInv PROVE ProviderDiscipline
    OBVIOUS
  <1>1. FallbackDiscipline
    BY CalledDiscipline DEF ProviderInv, FallbackDiscipline
  <1>2. BannedNeverServed
    BY DEF ProviderInv, Stopped, BannedNeverServed
  <1> QED
    BY <1>1, <1>2 DEF ProviderDiscipline

\* A step that calls nobody and neither opens a request nor lifts a ban keeps
\* the discipline when those that a ban has met stay stopped.
LEMMA ProviderQuiet ==
    ASSUME ProviderInv, tried' = tried, lateBan' = lateBan,
           \A r \in Requests : pc'[r] \in Unasked => pc[r] \in Unasked,
           \A r \in lateBan : Stopped(r)'
    PROVE  ProviderInv'
  BY DEF ProviderInv

\* Those that a ban has met stay stopped while another request moves.
LEMMA OthersStopped ==
    ASSUME TypeOK, ProviderInv, NEW r \in Requests,
           user' = user, banned' = banned, tried' = tried, lateBan' = lateBan,
           \E s \in Steps : /\ pc' = [pc EXCEPT ![r] = s]
                            /\ s \in Unasked => pc[r] \in Unasked,
           reply' = reply \/ \E a \in Replies : reply' = [reply EXCEPT ![r] = a],
           r \in lateBan => Stopped(r)'
    PROVE  ProviderInv'
  <1>1. \A q \in Requests : pc'[q] \in Unasked => pc[q] \in Unasked
    BY DEF TypeOK
  <1>2. ASSUME NEW q \in lateBan PROVE Stopped(q)'
    <2>1. CASE q = r
      BY <2>1
    <2>2. CASE q # r
      <3>1. q \in Requests /\ pc'[q] = pc[q] /\ reply'[q] = reply[q]
        BY <2>2 DEF TypeOK
      <3> QED
        BY <3>1 DEF ProviderInv, Stopped
    <2> QED
      BY <2>1, <2>2
  <1> QED
    BY <1>1, <1>2, ProviderQuiet

\* The first call is on an available model of the chain, or none is made.
LEMMA ProviderRoute ==
    ASSUME TypeOK, ProviderInv, NEW r \in Requests, Route(r)
    PROVE  ProviderInv'
  <1>1. PICK c \in Chains : tried' = [tried EXCEPT ![r] = Primary(c)]
    BY DEF Route
  <1>2. Called(Primary(c))
    <2>1. c \in Seq(Models)
      BY ModelAssumption
    <2>2. Primary(c) = <<>> \/ \E m \in Models \cap Available : Primary(c) = <<m>>
      BY <2>1, FirstInFact DEF Primary
    <2> QED
      BY <2>2 DEF Called
  <1>3. \E s \in {"done", "call"} : pc' = [pc EXCEPT ![r] = s]
    BY DEF Route, Return, Goto
  <1>4. reply' = reply \/ reply' = [reply EXCEPT ![r] = "unconfigured"]
    BY DEF Route, Return
  <1>5. r \notin lateBan
    BY DEF Route, ProviderInv, Stopped
  <1>6. user' = user /\ banned' = banned /\ lateBan' = lateBan
    BY DEF Route, reqVars, worldVars
  <1>7. \A q \in Requests \ {r} :
          tried'[q] = tried[q] /\ pc'[q] = pc[q] /\ reply'[q] = reply[q]
    BY <1>1, <1>3, <1>4 DEF TypeOK
  <1>8. \A q \in Requests : Called(tried[q])'
    <2>1. tried'[r] = Primary(c)
      BY <1>1 DEF TypeOK
    <2> QED
      BY <1>2, <1>7, <2>1 DEF ProviderInv, Called
  <1>9. \A q \in Requests : pc'[q] \in Unasked => tried'[q] = <<>>
    BY <1>3, <1>7 DEF ProviderInv, TypeOK, Unasked
  <1>10. \A q \in lateBan : q \in Requests \ {r}
    BY <1>5 DEF TypeOK
  <1>11. \A q \in lateBan' : Stopped(q)'
    BY <1>6, <1>7, <1>10 DEF ProviderInv, Stopped
  <1> QED
    BY <1>8, <1>9, <1>11 DEF ProviderInv

\* The second call is on an available model, and not on the host that failed.
LEMMA ProviderRetry ==
    ASSUME TypeOK, ProviderInv, NEW r \in Requests, CallRetries(r)
    PROVE  ProviderInv'
  <1> DEFINE failed == tried[r][1]
             next == Fallback(chain[r], failed)
             ok == {m \in Available \ {failed} : Host[m] # Host[failed]}
  <1>1. pc[r] = "call" /\ Len(tried[r]) = 1 /\ next # <<>>
    BY DEF CallRetries
  <1>2. tried' = [tried EXCEPT ![r] = tried[r] \o next]
    BY DEF CallRetries, TypeOK
  <1>3. PICK first \in Models \cap Available : tried[r] = <<first>>
    BY <1>1 DEF ProviderInv, Called
  <1>4. PICK second \in Models \cap ok : next = <<second>>
    <2>1. chain[r] \in Seq(Models)
      BY DEF TypeOK
    <2>2. next = FirstIn(chain[r], ok)
      BY DEF Fallback
    <2> HIDE DEF next, ok
    <2> QED
      BY <1>1, <2>1, <2>2, FirstInFact
  <1>5. failed = first
    BY <1>3
  <1>6. second \in Models \cap Available /\ Host[first] # Host[second]
    BY <1>4, <1>5
  <1> HIDE DEF next, ok, failed
  <1>7. tried[r] \o next = <<first, second>>
    BY <1>3, <1>4, CallAppended
  <1>8. Called(<<first, second>>)
    BY <1>3, <1>6 DEF Called
  <1>9. tried'[r] = <<first, second>> /\ \A q \in Requests \ {r} : tried'[q] = tried[q]
    BY <1>2, <1>7 DEF TypeOK
  <1>10. UNCHANGED <<pc, user, reply, banned, lateBan>>
    BY DEF CallRetries, reqVars, worldVars
  <1>11. r \notin lateBan /\ lateBan \subseteq Requests
    BY <1>1 DEF ProviderInv, Stopped, TypeOK
  <1>12. \A q \in Requests : Called(tried[q])'
    BY <1>8, <1>9 DEF ProviderInv, Called
  <1>13. \A q \in Requests : pc'[q] \in Unasked => tried'[q] = <<>>
    BY <1>1, <1>9, <1>10 DEF ProviderInv, Unasked
  <1>14. \A q \in lateBan' : Stopped(q)'
    BY <1>9, <1>10, <1>11 DEF ProviderInv, Stopped
  <1> QED
    BY <1>12, <1>13, <1>14 DEF ProviderInv

\* A request whose user is banned already is marked as it arrives.
LEMMA ProviderArrive ==
    ASSUME TypeOK, ReplyPhase, ProviderInv, NEW r \in Requests, Arrive(r)
    PROVE  ProviderInv'
  <1>1. PICK c \in Credentials :
          /\ user' = [user EXCEPT ![r] = c.user]
          /\ lateBan' = IF c.user \in banned THEN lateBan \cup {r} ELSE lateBan
    BY DEF Arrive
  <1>2. /\ pc[r] = "idle" /\ pc' = [pc EXCEPT ![r] = "auth"]
        /\ UNCHANGED <<tried, reply, banned>>
    BY DEF Arrive, Goto, routeVars
  <1>3. user'[r] = c.user /\ pc'[r] = "auth"
    BY <1>1, <1>2 DEF TypeOK
  <1>4. \A q \in Requests \ {r} : user'[q] = user[q] /\ pc'[q] = pc[q]
    BY <1>1, <1>2 DEF TypeOK
  <1>5. tried[r] = <<>> /\ reply[r] = "none" /\ r \notin lateBan
    BY <1>2 DEF ProviderInv, ReplyPhase, Stopped, Unasked
  <1>6. ASSUME NEW q \in lateBan' PROVE Stopped(q)'
    <2>1. CASE q \in lateBan
      <3>1. q \in Requests \ {r}
        BY <1>5, <2>1 DEF TypeOK
      <3> QED
        BY <1>2, <1>4, <2>1, <3>1 DEF ProviderInv, Stopped
    <2>2. CASE q \notin lateBan
      <3>1. q = r /\ c.user \in banned
        BY <1>1, <1>6, <2>2
      <3> QED
        BY <1>2, <1>3, <1>5, <3>1 DEF Stopped
    <2> QED
      BY <2>1, <2>2
  <1>7. \A q \in Requests : pc'[q] \in Unasked => tried'[q] = <<>>
    BY <1>2, <1>4, <1>5 DEF ProviderInv
  <1>8. \A q \in Requests : Called(tried[q])'
    BY <1>2 DEF ProviderInv, Called
  <1> QED
    BY <1>6, <1>7, <1>8 DEF ProviderInv

\* No step calls a provider twice on a host, or for a banned user.
LEMMA ProviderStep == TypeOK /\ ReplyPhase /\ ProviderInv /\ [Next]_vars => ProviderInv'
  <1> SUFFICES ASSUME TypeOK, ReplyPhase, ProviderInv, [Next]_vars PROVE ProviderInv'
    OBVIOUS
  <1>1. ASSUME NEW r \in Requests, Arrive(r) PROVE ProviderInv'
    BY <1>1, ProviderArrive
  <1>2. ASSUME NEW r \in Requests, Route(r) PROVE ProviderInv'
    BY <1>2, ProviderRoute
  <1>3. ASSUME NEW r \in Requests, CallRetries(r) PROVE ProviderInv'
    BY <1>3, ProviderRetry
  <1>4. ASSUME NEW r \in Requests, RejectCredential(r) PROVE ProviderInv'
    <2>1. user' = user /\ banned' = banned /\ tried' = tried /\ lateBan' = lateBan
      BY <1>4 DEF RejectCredential, reqVars, routeVars, worldVars
    <2>2. \E s \in {"done"} : pc' = [pc EXCEPT ![r] = s]
      BY <1>4 DEF RejectCredential, Return, Goto
    <2>3. reply' = reply \/ \E a \in {"denied"} : reply' = [reply EXCEPT ![r] = a]
      BY <1>4 DEF RejectCredential, Return
    <2>4. r \in lateBan => Stopped(r)'
      BY <1>4, <2>1 DEF RejectCredential, Return, Goto, ProviderInv, Stopped, TypeOK
    <2> QED
      BY <2>1, <2>2, <2>3, <2>4, OthersStopped DEF Steps, Replies, Unasked
  <1>5. ASSUME NEW r \in Requests, Authenticate(r) PROVE ProviderInv'
    <2>1. user' = user /\ banned' = banned /\ tried' = tried /\ lateBan' = lateBan
      BY <1>5 DEF Authenticate, reqVars, routeVars, worldVars
    <2>2. pc[r] = "auth" /\ \E s \in {"done", "status"} : pc' = [pc EXCEPT ![r] = s]
      BY <1>5 DEF Authenticate, Return, Goto
    <2>3. reply' = reply \/ \E a \in {"quota"} : reply' = [reply EXCEPT ![r] = a]
      BY <1>5 DEF Authenticate, Return
    <2>4. r \in lateBan => Stopped(r)'
      BY <1>5, <2>1 DEF Authenticate, Return, Goto, ProviderInv, Stopped, TypeOK
    <2> QED
      BY <2>1, <2>2, <2>3, <2>4, OthersStopped DEF Steps, Replies, Unasked
  <1>6. ASSUME NEW r \in Requests, CheckBanned(r) PROVE ProviderInv'
    <2>1. user' = user /\ banned' = banned /\ tried' = tried /\ lateBan' = lateBan
      BY <1>6 DEF CheckBanned, reqVars, routeVars, worldVars
    <2>2. \E s \in {"done", "validate"} : pc' = [pc EXCEPT ![r] = s]
      BY <1>6 DEF CheckBanned, Return, Goto
    <2>3. reply' = reply \/ \E a \in {"denied"} : reply' = [reply EXCEPT ![r] = a]
      BY <1>6 DEF CheckBanned, Return
    <2>4. r \in lateBan => Stopped(r)'
      BY <1>6, <2>1 DEF CheckBanned, Return, Goto, ProviderInv, Stopped, TypeOK
    <2> QED
      BY <2>1, <2>2, <2>3, <2>4, OthersStopped DEF Steps, Replies, Unasked
  <1>7. ASSUME NEW r \in Requests, Validate(r) PROVE ProviderInv'
    <2>1. user' = user /\ banned' = banned /\ tried' = tried /\ lateBan' = lateBan
      BY <1>7 DEF Validate, reqVars, routeVars, worldVars
    <2>2. \E s \in {"done", "route", "daily"} : pc' = [pc EXCEPT ![r] = s]
      BY <1>7 DEF Validate, Return, Goto
    <2>3. reply' = reply \/ \E a \in {"unconfigured", "invalid"} : reply' = [reply EXCEPT ![r] = a]
      BY <1>7 DEF Validate, Return
    <2>4. r \notin lateBan
      BY <1>7 DEF Validate, ProviderInv, Stopped
    <2> QED
      BY <2>1, <2>2, <2>3, <2>4, OthersStopped DEF Steps, Replies, Unasked
  <1>8. ASSUME NEW r \in Requests, CheckDaily(r) PROVE ProviderInv'
    <2>1. user' = user /\ banned' = banned /\ tried' = tried /\ lateBan' = lateBan
      BY <1>8 DEF CheckDaily, reqVars, routeVars, worldVars
    <2>2. \E s \in {"done", "route", "points"} : pc' = [pc EXCEPT ![r] = s]
      BY <1>8 DEF CheckDaily, Return, Goto
    <2>3. reply' = reply \/ \E a \in {"quota"} : reply' = [reply EXCEPT ![r] = a]
      BY <1>8 DEF CheckDaily, Return
    <2>4. r \notin lateBan
      BY <1>8 DEF CheckDaily, ProviderInv, Stopped
    <2> QED
      BY <2>1, <2>2, <2>3, <2>4, OthersStopped DEF Steps, Replies, Unasked
  <1>9. ASSUME NEW r \in Requests, CheckPoints(r) PROVE ProviderInv'
    <2>1. user' = user /\ banned' = banned /\ tried' = tried /\ lateBan' = lateBan
      BY <1>9 DEF CheckPoints, reqVars, routeVars, worldVars
    <2>2. \E s \in {"done", "route"} : pc' = [pc EXCEPT ![r] = s]
      BY <1>9 DEF CheckPoints, Return, Goto
    <2>3. reply' = reply \/ \E a \in {"quota"} : reply' = [reply EXCEPT ![r] = a]
      BY <1>9 DEF CheckPoints, Return
    <2>4. r \notin lateBan
      BY <1>9 DEF CheckPoints, ProviderInv, Stopped
    <2> QED
      BY <2>1, <2>2, <2>3, <2>4, OthersStopped DEF Steps, Replies, Unasked
  <1>10. ASSUME NEW r \in Requests, CallSucceedsStream(r) PROVE ProviderInv'
    <2>1. user' = user /\ banned' = banned /\ tried' = tried /\ lateBan' = lateBan
      BY <1>10 DEF CallSucceedsStream, reqVars, routeVars, worldVars
    <2>2. \E s \in {"drain"} : pc' = [pc EXCEPT ![r] = s]
      BY <1>10 DEF CallSucceedsStream, Return, Goto
    <2>3. reply' = reply \/ \E a \in {"ok"} : reply' = [reply EXCEPT ![r] = a]
      BY <1>10 DEF CallSucceedsStream, Return
    <2>4. r \notin lateBan
      BY <1>10 DEF CallSucceedsStream, ProviderInv, Stopped
    <2> QED
      BY <2>1, <2>2, <2>3, <2>4, OthersStopped DEF Steps, Replies, Unasked
  <1>11. ASSUME NEW r \in Requests, TeeFails(r) PROVE ProviderInv'
    <2>1. user' = user /\ banned' = banned /\ tried' = tried /\ lateBan' = lateBan
      BY <1>11 DEF TeeFails, reqVars, routeVars, worldVars
    <2>2. \E s \in {"done"} : pc' = [pc EXCEPT ![r] = s]
      BY <1>11 DEF TeeFails, Return, Goto
    <2>3. reply' = reply \/ \E a \in {"failed"} : reply' = [reply EXCEPT ![r] = a]
      BY <1>11 DEF TeeFails, Return
    <2>4. r \notin lateBan
      BY <1>11 DEF TeeFails, ProviderInv, Stopped
    <2> QED
      BY <2>1, <2>2, <2>3, <2>4, OthersStopped DEF Steps, Replies, Unasked
  <1>12. ASSUME NEW r \in Requests, CallFails(r) PROVE ProviderInv'
    <2>1. user' = user /\ banned' = banned /\ tried' = tried /\ lateBan' = lateBan
      BY <1>12 DEF CallFails, reqVars, routeVars, worldVars
    <2>2. \E s \in {"faillog"} : pc' = [pc EXCEPT ![r] = s]
      BY <1>12 DEF CallFails, Return, Goto
    <2>3. reply' = reply \/ \E a \in {"failed"} : reply' = [reply EXCEPT ![r] = a]
      BY <1>12 DEF CallFails, Return
    <2>4. r \notin lateBan
      BY <1>12 DEF CallFails, ProviderInv, Stopped
    <2> QED
      BY <2>1, <2>2, <2>3, <2>4, OthersStopped DEF Steps, Replies, Unasked
  <1>13. ASSUME NEW r \in Requests, WriteFailureLog(r) PROVE ProviderInv'
    <2>1. user' = user /\ banned' = banned /\ tried' = tried /\ lateBan' = lateBan
      BY <1>13 DEF WriteFailureLog, reqVars, routeVars, worldVars
    <2>2. \E s \in {"done"} : pc' = [pc EXCEPT ![r] = s]
      BY <1>13 DEF WriteFailureLog, Return, Goto
    <2>3. reply' = reply
      BY <1>13 DEF WriteFailureLog
    <2>4. r \notin lateBan
      BY <1>13 DEF WriteFailureLog, ProviderInv, Stopped
    <2> QED
      BY <2>1, <2>2, <2>3, <2>4, OthersStopped DEF Steps, Replies, Unasked
  <1>14. ASSUME NEW r \in Requests, DrainAborts(r) PROVE ProviderInv'
    <2>1. user' = user /\ banned' = banned /\ tried' = tried /\ lateBan' = lateBan
      BY <1>14 DEF DrainAborts, reqVars, routeVars, worldVars
    <2>2. \E s \in {"done"} : pc' = [pc EXCEPT ![r] = s]
      BY <1>14 DEF DrainAborts, Return, Goto
    <2>3. reply' = reply
      BY <1>14 DEF DrainAborts
    <2>4. r \notin lateBan
      BY <1>14 DEF DrainAborts, ProviderInv, Stopped
    <2> QED
      BY <2>1, <2>2, <2>3, <2>4, OthersStopped DEF Steps, Replies, Unasked
  <1>15. ASSUME NEW r \in Requests, DrainBreaks(r) PROVE ProviderInv'
    <2>1. user' = user /\ banned' = banned /\ tried' = tried /\ lateBan' = lateBan
      BY <1>15 DEF DrainBreaks, reqVars, routeVars, worldVars
    <2>2. \E s \in {"persist"} : pc' = [pc EXCEPT ![r] = s]
      BY <1>15 DEF DrainBreaks, Return, Goto
    <2>3. reply' = reply
      BY <1>15 DEF DrainBreaks
    <2>4. r \notin lateBan
      BY <1>15 DEF DrainBreaks, ProviderInv, Stopped
    <2> QED
      BY <2>1, <2>2, <2>3, <2>4, OthersStopped DEF Steps, Replies, Unasked
  <1>16. ASSUME NEW r \in Requests, Evict(r) PROVE ProviderInv'
    <2>1. user' = user /\ banned' = banned /\ tried' = tried /\ lateBan' = lateBan
      BY <1>16 DEF Evict, reqVars, routeVars, worldVars
    <2>2. \E s \in {"done"} : pc' = [pc EXCEPT ![r] = s]
      BY <1>16 DEF Evict, Return, Goto
    <2>3. reply' = reply
      BY <1>16 DEF Evict
    <2>4. r \notin lateBan
      BY <1>16 DEF Evict, ProviderInv, Stopped
    <2> QED
      BY <2>1, <2>2, <2>3, <2>4, OthersStopped DEF Steps, Replies, Unasked
  <1>17. ASSUME NEW r \in Requests, CallSucceedsJson(r) PROVE ProviderInv'
    <2>1. user' = user /\ banned' = banned /\ tried' = tried /\ lateBan' = lateBan
      BY <1>17 DEF CallSucceedsJson, reqVars, routeVars, worldVars
    <2>2. \E s \in {"persist"} : pc' = [pc EXCEPT ![r] = s]
      BY <1>17 DEF CallSucceedsJson, BeginPersist, Return, Goto
    <2>3. reply' = reply
      BY <1>17 DEF CallSucceedsJson
    <2>4. r \notin lateBan
      BY <1>17 DEF CallSucceedsJson, ProviderInv, Stopped
    <2> QED
      BY <2>1, <2>2, <2>3, <2>4, OthersStopped DEF Steps, Replies, Unasked
  <1>18. ASSUME NEW r \in Requests, DrainEnds(r) PROVE ProviderInv'
    <2>1. user' = user /\ banned' = banned /\ tried' = tried /\ lateBan' = lateBan
      BY <1>18 DEF DrainEnds, reqVars, routeVars, worldVars
    <2>2. \E s \in {"persist"} : pc' = [pc EXCEPT ![r] = s]
      BY <1>18 DEF DrainEnds, BeginPersist, Return, Goto
    <2>3. reply' = reply
      BY <1>18 DEF DrainEnds
    <2>4. r \notin lateBan
      BY <1>18 DEF DrainEnds, ProviderInv, Stopped
    <2> QED
      BY <2>1, <2>2, <2>3, <2>4, OthersStopped DEF Steps, Replies, Unasked
  <1>19. ASSUME NEW r \in Requests, NEW w \in Writes, WriteSucceeds(r, w)
        PROVE  ProviderInv'
    <2>1. user' = user /\ banned' = banned /\ tried' = tried /\ lateBan' = lateBan
      BY <1>19 DEF WriteSucceeds, reqVars, routeVars, worldVars
    <2>2. pc[r] = "persist" /\ r \notin lateBan
      BY <1>19 DEF WriteSucceeds, ProviderInv, Stopped
    <2>3. \E s \in {"persist", "done"} : pc' = [pc EXCEPT ![r] = s]
      BY <1>19, <2>2 DEF WriteSucceeds, Settle, Return, Goto, TypeOK
    <2>4. reply' = reply \/ reply' = [reply EXCEPT ![r] = "ok"]
      BY <1>19 DEF WriteSucceeds, Settle, Return
    <2> QED
      BY <2>1, <2>2, <2>3, <2>4, OthersStopped DEF Steps, Replies, Unasked
  <1>20. ASSUME NEW r \in Requests, NEW w \in Writes, WriteFails(r, w)
        PROVE  ProviderInv'
    <2>1. user' = user /\ banned' = banned /\ tried' = tried /\ lateBan' = lateBan
      BY <1>20 DEF WriteFails, reqVars, routeVars, worldVars
    <2>2. r \notin lateBan
      BY <1>20 DEF WriteFails, ProviderInv, Stopped
    <2>3. \E s \in {"persist", "done"} : pc' = [pc EXCEPT ![r] = s]
      BY <1>20 DEF WriteFails, Goto
    <2>4. reply' = [reply EXCEPT ![r] = "ok"]
      BY <1>20 DEF WriteFails
    <2> QED
      BY <2>1, <2>2, <2>3, <2>4, OthersStopped DEF Steps, Replies, Unasked
  <1>21. ASSUME NEW u \in Users, Ban(u) PROVE ProviderInv'
    <2>1. /\ UNCHANGED <<pc, user, tried, reply>>
          /\ banned \subseteq banned' /\ u \in banned'
          /\ lateBan' = lateBan \cup
                {r \in Requests : user[r] = u /\ pc[r] \in {"auth", "status"}}
      BY <1>21 DEF Ban, reqVars, routeVars
    <2>2. ASSUME NEW r \in Requests, user[r] = u, pc[r] \in {"auth", "status"}
          PROVE  Stopped(r)'
      BY <2>1, <2>2 DEF ProviderInv, ReplyPhase, Stopped, Unasked
    <2>3. ASSUME NEW r \in lateBan PROVE Stopped(r)'
      BY <2>1, <2>3 DEF ProviderInv, Stopped
    <2> QED
      BY <2>1, <2>2, <2>3 DEF ProviderInv
  <1>22. CASE Midnight \/ UNCHANGED vars
    <2>1. UNCHANGED <<pc, user, tried, reply, banned, lateBan>>
      BY <1>22 DEF Midnight, vars, reqVars, routeVars, worldVars
    <2>2. \A r \in lateBan : Stopped(r)'
      BY <2>1 DEF ProviderInv, Stopped
    <2> QED
      BY <2>1, <2>2, ProviderQuiet
  <1> QED
    BY <1>1, <1>2, <1>3, <1>4, <1>5, <1>6, <1>7, <1>8, <1>9, <1>10, <1>11, <1>12, <1>13, <1>14, <1>15, <1>16, <1>17, <1>18, <1>19, <1>20, <1>21, <1>22
       DEF Next, Serve, Finished

\* Nobody who was banned before his status was read reaches a provider, and no
\* request reaches more than two, both available and on different hosts.
THEOREM ProvidersDisciplined == Spec => []ProviderDiscipline
  <1>1. Init => ProviderInv
    <2> SUFFICES ASSUME Init PROVE ProviderInv
      OBVIOUS
    <2>1. lateBan = {} /\ \A r \in Requests : tried[r] = <<>>
      BY DEF Init
    <2> QED
      BY <2>1 DEF ProviderInv, Called
  <1>2. GatewayInv /\ ProviderInv /\ [Next]_vars => ProviderInv'
    BY ProviderStep DEF GatewayInv
  <1> QED
    BY <1>1, <1>2, GatewayInvariant, ProviderFromInv, PTL DEF Spec

-----------------------------------------------------------------------------
(* Ledger and replies. *)

Logs(r) == {row \in logRows : row.req = r}

\* The rows of request_logs a request has, and those it is about to have.
LogsDue(r) ==
    Cardinality(Logs(r)) + (IF "log" \in pending[r] THEN 1 ELSE 0)
                         + (IF "errlog" \in pending[r] THEN 1 ELSE 0)

\* The provider has answered and the client has been, or will be, told so.
Served(r) == pc[r] = "persist" \/ (pc[r] = "done" /\ reply[r] = "ok")

\* One request's share of the ledger, at every step of its bookkeeping.
Accounted(r) ==
    /\ pc[r] \notin {"persist", "done"} => LogsDue(r) = 0
    /\ LogsDue(r) <= 2
    /\ LogsDue(r) = 2 => stream[r] /\ r \in lossy
    /\ Served(r) /\ r \notin lossy =>
          /\ LogsDue(r) = 1
          /\ user[r] # NoUser => "usage" \in pending[r] \/ UsageOf(r) # {}
    /\ r \in lossy => pc[r] \in {"persist", "done"} /\ reply[r] = "ok"
    /\ pc[r] = "faillog" => reply[r] # "ok"
    /\ UsageOf(r) # {} => reply[r] \in {"none", "ok"}
    /\ \A row \in Logs(r) : row.kind = "success" => reply[r] \in {"none", "ok"}

\* The served requests of a key whose unit is not under way any more.
Counted(k) ==
    {r \in Requests : key[r] = k /\ Served(r) /\ "key" \notin pending[r]}

KeysCounted == \A k \in Keys : keyCount[k] <= Cardinality(Counted(k))

\* BilledIffServed and DoubleLogOnlyAfterLoss made inductive.
LedgerInv == (\A r \in Requests : Accounted(r)) /\ KeysCounted

\* A step leaves everything about this request as it was.
Untouched(q) ==
    /\ pc'[q] = pc[q] /\ user'[q] = user[q] /\ key'[q] = key[q]
    /\ stream'[q] = stream[q] /\ reply'[q] = reply[q] /\ pending'[q] = pending[q]
    /\ q \in lossy' <=> q \in lossy
    /\ Logs(q)' = Logs(q) /\ UsageOf(q)' = UsageOf(q)

\* A request has finitely many logs, and those written are among those due.
LEMMA LogsCount ==
    ASSUME TypeOK, NEW r
    PROVE  /\ IsFiniteSet(Logs(r)) /\ Cardinality(Logs(r)) \in Nat
           /\ LogsDue(r) \in Nat /\ Cardinality(Logs(r)) <= LogsDue(r)
  <1>1. IsFiniteSet(Logs(r))
    <2>1. Logs(r) \in SUBSET logRows
      BY DEF Logs
    <2> QED
      BY <2>1, FS_Subset DEF TypeOK
  <1>2. Cardinality(Logs(r)) \in Nat
    BY <1>1, FS_CardinalityType
  <1> HIDE DEF Logs
  <1> QED
    BY <1>1, <1>2 DEF LogsDue

\* A request that is not on the ledger yet has no row of any kind.
LEMMA NotOnLedger ==
    ASSUME TypeOK, PendingOwned, UsageLedger, NEW r \in Requests, Accounted(r),
           pc[r] \notin {"persist", "done"}
    PROVE  /\ Logs(r) = {} /\ UsageOf(r) = {} /\ pending[r] = {}
           /\ LogsDue(r) = 0 /\ r \notin lossy
  <1>1. LogsDue(r) = 0 /\ r \notin lossy
    BY DEF Accounted
  <1>2. IsFiniteSet(Logs(r)) /\ Cardinality(Logs(r)) = 0
    BY <1>1, LogsCount
  <1>3. Logs(r) = {}
    BY <1>2, FS_EmptySet
  <1>4. UsageOf(r) = {}
    BY DEF UsageLedger, UsageOf
  <1>5. pending[r] = {}
    BY DEF PendingOwned
  <1> QED
    BY <1>1, <1>3, <1>4, <1>5

\* What a step leaves alone stays accounted for.
LEMMA UntouchedAccounted ==
    ASSUME NEW q, Accounted(q), Untouched(q)
    PROVE  Accounted(q)'
  <1>1. LogsDue(q)' = LogsDue(q)
    BY DEF Untouched, LogsDue
  <1>2. Served(q)' <=> Served(q)
    BY DEF Untouched, Served
  <1> QED
    BY <1>1, <1>2 DEF Untouched, Accounted

\* Only one request moved, and it is accounted for; no key was counted.
LEMMA OneMoved ==
    ASSUME TypeOK, LedgerInv, NEW r \in Requests,
           \A q \in Requests \ {r} : Untouched(q),
           Accounted(r)', keyCount' = keyCount,
           \A k \in Keys : r \in Counted(k) => r \in Counted(k)'
    PROVE  LedgerInv'
  <1>1. ASSUME NEW q \in Requests PROVE Accounted(q)'
    BY UntouchedAccounted DEF LedgerInv
  <1>2. ASSUME NEW k \in Keys PROVE keyCount'[k] <= Cardinality(Counted(k)')
    <2>1. Counted(k) \subseteq Counted(k)'
      <3> SUFFICES ASSUME NEW q \in Counted(k), q # r PROVE q \in Counted(k)'
        OBVIOUS
      <3>1. q \in Requests /\ Untouched(q)
        BY DEF Counted
      <3> QED
        BY <3>1 DEF Counted, Served, Untouched
    <2>2. IsFiniteSet(Counted(k)')
      <3>1. Counted(k)' \in SUBSET Requests
        BY DEF Counted
      <3> QED
        BY <3>1, FS_Subset, LimitAssumption
    <2>3. IsFiniteSet(Counted(k)) /\ Cardinality(Counted(k)) <= Cardinality(Counted(k)')
      BY <2>1, <2>2, FS_Subset
    <2>4. Cardinality(Counted(k)) \in Nat /\ Cardinality(Counted(k)') \in Nat
      BY <2>2, <2>3, FS_CardinalityType
    <2>5. keyCount[k] \in Nat /\ keyCount[k] <= Cardinality(Counted(k))
      BY DEF TypeOK, LedgerInv, KeysCounted
    <2> QED
      BY <2>3, <2>4, <2>5
  <1> QED
    BY <1>1, <1>2 DEF LedgerInv, KeysCounted

\* Nothing about any request changed.
LEMMA NoneMoved ==
    ASSUME LedgerInv, UNCHANGED <<pc, reqVars, pending, lossy, reply, tableVars>>
    PROVE  LedgerInv'
  <1>1. \A q \in Requests : Untouched(q)
    BY DEF Untouched, Logs, UsageOf, reqVars, tableVars
  <1>2. \A q \in Requests : Accounted(q)'
    BY <1>1, UntouchedAccounted DEF LedgerInv
  <1>3. \A k \in Keys : Counted(k)' = Counted(k)
    BY DEF Counted, Served, reqVars
  <1> QED
    BY <1>2, <1>3 DEF LedgerInv, KeysCounted, tableVars

\* A step of a request that has no provider answer to account for.
EarlyMove(r) ==
    /\ pc[r] \notin {"persist", "done"}
    /\ \E s \in Steps \ {"persist"}, a \in Replies :
        /\ pc' = [pc EXCEPT ![r] = s]
        /\ reply' = [reply EXCEPT ![r] = a]
        /\ s \in {"done", "faillog"} => a # "ok"
    /\ \A q \in Requests \ {r} :
        user'[q] = user[q] /\ key'[q] = key[q] /\ stream'[q] = stream[q]
    /\ UNCHANGED <<pending, lossy, tableVars>>

\* Up to the call of a provider a request has written nothing and owes nothing.
LEMMA EarlyAccounted ==
    ASSUME TypeOK, PendingOwned, UsageLedger, LedgerInv,
           NEW r \in Requests, EarlyMove(r)
    PROVE  LedgerInv'
  <1>1. Accounted(r) /\ pc[r] \notin {"persist", "done"}
    BY DEF LedgerInv, EarlyMove
  <1>2. /\ Logs(r) = {} /\ UsageOf(r) = {} /\ pending[r] = {}
        /\ LogsDue(r) = 0 /\ r \notin lossy
    BY <1>1, NotOnLedger
  <1>3. /\ Logs(r)' = {} /\ UsageOf(r)' = {} /\ LogsDue(r)' = 0
        /\ r \notin lossy' /\ keyCount' = keyCount
    BY <1>2 DEF EarlyMove, Logs, UsageOf, LogsDue, tableVars
  <1>4. /\ pc'[r] # "persist"
        /\ pc'[r] \in {"done", "faillog"} => reply'[r] # "ok"
    BY DEF EarlyMove, TypeOK
  <1>5. Accounted(r)'
    BY <1>3, <1>4 DEF Accounted, Served
  <1>6. \A q \in Requests \ {r} : Untouched(q)
    BY DEF EarlyMove, Untouched, TypeOK, Logs, UsageOf, tableVars
  <1>7. \A k \in Keys : r \notin Counted(k)
    BY <1>1 DEF Counted, Served
  <1> QED
    BY <1>3, <1>5, <1>6, <1>7, OneMoved

\* The completion is in hand and the writes of the ledger are started.
LEMMA BeginAccounted ==
    ASSUME TypeOK, PendingOwned, UsageLedger, LedgerInv,
           NEW r \in Requests, BeginPersist(r), pc[r] \in {"call", "drain"},
           UNCHANGED <<reqVars, lossy, reply, tableVars>>
    PROVE  LedgerInv'
  <1>1. Accounted(r)
    BY DEF LedgerInv
  <1>2. /\ Logs(r) = {} /\ UsageOf(r) = {} /\ pending[r] = {}
        /\ LogsDue(r) = 0 /\ r \notin lossy
    BY <1>1, NotOnLedger
  <1>3. /\ pc' = [pc EXCEPT ![r] = "persist"]
        /\ pending' = [pending EXCEPT ![r] = LedgerWrites(r)]
    BY DEF BeginPersist, Goto
  <1>4. /\ pc'[r] = "persist" /\ pending'[r] = LedgerWrites(r)
        /\ Logs(r)' = {} /\ UsageOf(r)' = {} /\ r \notin lossy'
    BY <1>2, <1>3 DEF TypeOK, Logs, UsageOf, tableVars
  <1>5. LogsDue(r)' = 1
    <2>1. "log" \in pending'[r] /\ "errlog" \notin pending'[r]
      BY <1>4 DEF LedgerWrites
    <2>2. Cardinality(Logs(r)') = 0
      BY <1>4, FS_EmptySet
    <2> QED
      BY <2>1, <2>2 DEF LogsDue
  <1>6. user'[r] # NoUser => "usage" \in pending'[r]
    BY <1>4 DEF LedgerWrites, reqVars
  <1>7. Accounted(r)'
    BY <1>4, <1>5, <1>6 DEF Accounted
  <1>8. \A q \in Requests \ {r} : Untouched(q)
    BY <1>3 DEF Untouched, TypeOK, Logs, UsageOf, reqVars, tableVars
  <1>9. \A k \in Keys : r \notin Counted(k)
    BY DEF Counted, Served
  <1> QED
    BY <1>7, <1>8, <1>9, OneMoved DEF tableVars

\* The client left: nothing is owed any more.
LEMMA AbortAccounted ==
    ASSUME TypeOK, PendingOwned, UsageLedger, ReplyPhase, LedgerInv,
           NEW r \in Requests, DrainAborts(r)
    PROVE  LedgerInv'
  <1>1. Accounted(r) /\ pc[r] = "drain" /\ reply[r] = "ok"
    BY DEF LedgerInv, DrainAborts, ReplyPhase
  <1>2. Logs(r) = {} /\ UsageOf(r) = {} /\ LogsDue(r) = 0
    BY <1>1, NotOnLedger
  <1>3. /\ pc' = [pc EXCEPT ![r] = "done"] /\ lossy' = lossy \cup {r}
        /\ UNCHANGED <<reqVars, pending, reply, tableVars>>
    BY DEF DrainAborts, Goto
  <1>4. /\ pc'[r] = "done" /\ r \in lossy' /\ reply'[r] = "ok"
        /\ Logs(r)' = {} /\ UsageOf(r)' = {} /\ LogsDue(r)' = 0
    BY <1>1, <1>2, <1>3 DEF TypeOK, Logs, UsageOf, LogsDue, tableVars
  <1>5. Accounted(r)'
    BY <1>4 DEF Accounted
  <1>6. \A q \in Requests \ {r} : Untouched(q)
    BY <1>3 DEF Untouched, TypeOK, Logs, UsageOf, reqVars, tableVars
  <1>7. \A k \in Keys : r \notin Counted(k)
    BY <1>1 DEF Counted, Served
  <1> QED
    BY <1>3, <1>5, <1>6, <1>7, OneMoved DEF tableVars

\* The stream broke: the error log is the one row owed.
LEMMA BreakAccounted ==
    ASSUME TypeOK, PendingOwned, UsageLedger, ReplyPhase, LedgerInv,
           NEW r \in Requests, DrainBreaks(r)
    PROVE  LedgerInv'
  <1>1. Accounted(r) /\ pc[r] = "drain" /\ reply[r] = "ok"
    BY DEF LedgerInv, DrainBreaks, ReplyPhase
  <1>2. Logs(r) = {} /\ UsageOf(r) = {}
    BY <1>1, NotOnLedger
  <1>3. /\ pc' = [pc EXCEPT ![r] = "persist"] /\ lossy' = lossy \cup {r}
        /\ pending' = [pending EXCEPT ![r] = {"errlog"}]
        /\ UNCHANGED <<reqVars, reply, tableVars>>
    BY DEF DrainBreaks, Goto
  <1>4. /\ pc'[r] = "persist" /\ r \in lossy' /\ reply'[r] = "ok"
        /\ pending'[r] = {"errlog"} /\ Logs(r)' = {} /\ UsageOf(r)' = {}
    BY <1>1, <1>2, <1>3 DEF TypeOK, Logs, UsageOf, tableVars
  <1>5. LogsDue(r)' = 1
    <2>1. Cardinality(Logs(r)') = 0
      BY <1>4, FS_EmptySet
    <2> QED
      BY <1>4, <2>1 DEF LogsDue
  <1>6. Accounted(r)'
    BY <1>4, <1>5 DEF Accounted
  <1>7. \A q \in Requests \ {r} : Untouched(q)
    BY <1>3 DEF Untouched, TypeOK, Logs, UsageOf, reqVars, tableVars
  <1>8. \A k \in Keys : r \notin Counted(k)
    BY <1>1 DEF Counted, Served
  <1> QED
    BY <1>3, <1>6, <1>7, <1>8, OneMoved DEF tableVars

\* A log adds at most one row to its request, the first one exactly one.
LEMMA LogAppended ==
    ASSUME TypeOK, NEW r \in Requests, NEW kind, AddLog(r, kind)
    PROVE  /\ IsFiniteSet(Logs(r)') /\ Cardinality(Logs(r)') \in Nat
           /\ Cardinality(Logs(r)') <= Cardinality(Logs(r)) + 1
           /\ Cardinality(Logs(r)) = 0 => Cardinality(Logs(r)') = 1
           /\ \A row \in Logs(r)' : row \in Logs(r) \/ row.kind = kind
           /\ \A q \in Requests \ {r} : Logs(q)' = Logs(q)
  <1> DEFINE n == Cardinality({row \in logRows : row.req = r})
             new == [req |-> r, kind |-> kind, copy |-> n]
  <1>1. logRows' = logRows \cup {new}
    BY DEF AddLog
  <1> HIDE DEF n
  <1>2. new.req = r /\ new.kind = kind
    OBVIOUS
  <1> HIDE DEF new
  <1>3. Logs(r)' = Logs(r) \cup {new} /\ \A q \in Requests \ {r} : Logs(q)' = Logs(q)
    BY <1>1, <1>2 DEF Logs
  <1>4. IsFiniteSet(Logs(r)) /\ Cardinality(Logs(r)) \in Nat
    BY LogsCount
  <1>5. IsFiniteSet(Logs(r)')
    BY <1>3, <1>4, FS_AddElement
  <1>6. \/ Cardinality(Logs(r)') = Cardinality(Logs(r)) /\ new \in Logs(r)
        \/ Cardinality(Logs(r)') = Cardinality(Logs(r)) + 1
    BY <1>3, <1>4, FS_AddElement
  <1>7. Cardinality(Logs(r)) = 0 => Cardinality(Logs(r)') = 1
    <2>1. Cardinality(Logs(r)) = 0 => new \notin Logs(r)
      BY <1>4, FS_EmptySet
    <2> QED
      BY <1>4, <1>6, <2>1
  <1>8. \A row \in Logs(r)' : row \in Logs(r) \/ row.kind = kind
    BY <1>2, <1>3
  <1> QED
    BY <1>3, <1>4, <1>5, <1>6, <1>7, <1>8, FS_CardinalityType

\* A failed request has at most its error log.
LEMMA FailureAccounted ==
    ASSUME TypeOK, PendingOwned, UsageLedger, LedgerInv,
           NEW r \in Requests, WriteFailureLog(r)
    PROVE  LedgerInv'
  <1>1. Accounted(r) /\ pc[r] = "faillog" /\ reply[r] # "ok"
    BY DEF LedgerInv, WriteFailureLog, Accounted
  <1>2. /\ Logs(r) = {} /\ UsageOf(r) = {} /\ pending[r] = {} /\ r \notin lossy
        /\ Cardinality(Logs(r)) = 0
    BY <1>1, NotOnLedger, FS_EmptySet
  <1>3. /\ pc' = [pc EXCEPT ![r] = "done"]
        /\ UNCHANGED <<reqVars, pending, lossy, reply, usageRows, keyCount>>
    BY DEF WriteFailureLog, Goto, writeVars
  <1>4. /\ pc'[r] = "done" /\ r \notin lossy' /\ reply'[r] # "ok"
        /\ UsageOf(r)' = {} /\ pending'[r] = {}
    BY <1>1, <1>2, <1>3 DEF TypeOK, UsageOf
  <1>5. /\ Cardinality(Logs(r)') \in Nat /\ Cardinality(Logs(r)') <= 1
        /\ \A row \in Logs(r)' : row.kind # "success"
        /\ \A q \in Requests \ {r} : Logs(q)' = Logs(q)
    <2>1. CASE AddLog(r, "failure")
      BY <1>2, <2>1, LogAppended
    <2>2. CASE UNCHANGED logRows
      BY <1>2, <2>2 DEF Logs
    <2> QED
      BY <2>1, <2>2 DEF WriteFailureLog
  <1>6. LogsDue(r)' \in Nat /\ LogsDue(r)' <= 1
    BY <1>4, <1>5 DEF LogsDue
  <1>7. Accounted(r)'
    BY <1>4, <1>5, <1>6 DEF Accounted, Served
  <1>8. \A q \in Requests \ {r} : Untouched(q)
    BY <1>3, <1>5 DEF Untouched, TypeOK, UsageOf, reqVars
  <1>9. \A k \in Keys : r \notin Counted(k)
    BY <1>1 DEF Counted, Served
  <1> QED
    BY <1>3, <1>7, <1>8, <1>9, OneMoved

\* What a write that succeeds leaves of its request, the row or unit aside.
LEMMA SuccessShape ==
    ASSUME TypeOK, ReplyPhase, LedgerInv,
           NEW r \in Requests, NEW w \in Writes, WriteSucceeds(r, w)
    PROVE  /\ pc[r] = "persist" /\ w \in pending[r] /\ Accounted(r)
           /\ pending'[r] = pending[r] \ {w} /\ Served(r)'
           /\ reply'[r] \in {"none", "ok"} /\ (r \in lossy => reply'[r] = "ok")
           /\ pc'[r] \in {"persist", "done"}
           /\ UNCHANGED <<reqVars, lossy>>
           /\ \A q \in Requests \ {r} :
                 pc'[q] = pc[q] /\ reply'[q] = reply[q] /\ pending'[q] = pending[q]
  <1>1. /\ pc[r] = "persist" /\ w \in pending[r]
        /\ pending' = [pending EXCEPT ![r] = pending[r] \ {w}]
        /\ UNCHANGED <<reqVars, lossy>>
    BY DEF WriteSucceeds, Settle
  <1>2. \/ pc' = [pc EXCEPT ![r] = "done"] /\ reply' = [reply EXCEPT ![r] = "ok"]
        \/ UNCHANGED <<pc, reply>>
    BY DEF WriteSucceeds, Settle, Return, Goto
  <1>3. Accounted(r) /\ reply[r] \in {"none", "ok"} /\ (r \in lossy => reply[r] = "ok")
    BY <1>1 DEF LedgerInv, Accounted, ReplyPhase
  <1>4. pending'[r] = pending[r] \ {w} /\ \A q \in Requests \ {r} : pending'[q] = pending[q]
    BY <1>1 DEF TypeOK
  <1>5. CASE pc' = [pc EXCEPT ![r] = "done"] /\ reply' = [reply EXCEPT ![r] = "ok"]
    <2>1. /\ pc'[r] = "done" /\ reply'[r] = "ok"
          /\ \A q \in Requests \ {r} : pc'[q] = pc[q] /\ reply'[q] = reply[q]
      BY <1>5 DEF TypeOK
    <2> QED
      BY <1>1, <1>3, <1>4, <2>1 DEF Served
  <1>6. CASE UNCHANGED <<pc, reply>>
    BY <1>1, <1>3, <1>4, <1>6 DEF Served
  <1> QED
    BY <1>2, <1>5, <1>6

\* A log that is written was due, and is not due twice.
LEMMA LogsSettled ==
    ASSUME TypeOK, ReplyPhase, LedgerInv,
           NEW r \in Requests, NEW w \in Writes, WriteSucceeds(r, w)
    PROVE  /\ LogsDue(r)' \in Nat /\ LogsDue(r)' <= LogsDue(r)
           /\ LogsDue(r) = 1 => LogsDue(r)' = 1
           /\ \A row \in Logs(r)' : row \in Logs(r) \/ w \in {"log", "errlog"}
           /\ \A q \in Requests \ {r} : Logs(q)' = Logs(q)
  <1>1. w \in pending[r] /\ pending'[r] = pending[r] \ {w}
    BY SuccessShape
  <1>2. Cardinality(Logs(r)) \in Nat
    BY LogsCount
  <1>3. CASE w \in {"key", "usage"}
    <2>1. logRows' = logRows
      BY <1>3 DEF WriteSucceeds, Effect
    <2>2. \A q \in Requests : Logs(q)' = Logs(q)
      BY <2>1 DEF Logs
    <2>3. /\ "log" \in pending'[r] <=> "log" \in pending[r]
          /\ "errlog" \in pending'[r] <=> "errlog" \in pending[r]
      BY <1>1, <1>3
    <2>4. LogsDue(r)' = LogsDue(r)
      BY <2>2, <2>3 DEF LogsDue
    <2>5. LogsDue(r) \in Nat
      BY LogsCount
    <2> QED
      BY <2>2, <2>4, <2>5
  <1>4. CASE w \in {"log", "errlog"}
    <2>1. \E kind \in {"success", "stream"} : AddLog(r, kind)
      BY <1>4 DEF WriteSucceeds, Effect
    <2>2. /\ Cardinality(Logs(r)') \in Nat
          /\ Cardinality(Logs(r)') <= Cardinality(Logs(r)) + 1
          /\ Cardinality(Logs(r)) = 0 => Cardinality(Logs(r)') = 1
          /\ \A q \in Requests \ {r} : Logs(q)' = Logs(q)
      BY <2>1, LogAppended
    <2> HIDE DEF Logs
    <2>3. CASE w = "log"
      <3>1. /\ "log" \in pending[r] /\ "log" \notin pending'[r]
            /\ "errlog" \in pending'[r] <=> "errlog" \in pending[r]
        BY <1>1, <2>3
      <3> QED
        BY <1>2, <1>4, <2>2, <3>1 DEF LogsDue
    <2>4. CASE w = "errlog"
      <3>1. /\ "errlog" \in pending[r] /\ "errlog" \notin pending'[r]
            /\ "log" \in pending'[r] <=> "log" \in pending[r]
        BY <1>1, <2>4
      <3> QED
        BY <1>2, <1>4, <2>2, <3>1 DEF LogsDue
    <2> QED
      BY <1>4, <2>3, <2>4
  <1> QED
    BY <1>3, <1>4 DEF Writes

\* A write that succeeds settles what its request owed of that kind.
LEMMA SuccessAccounted ==
    ASSUME TypeOK, ReplyPhase, LedgerInv,
           NEW r \in Requests, NEW w \in Writes, WriteSucceeds(r, w)
    PROVE  /\ \A q \in Requests \ {r} : Untouched(q)
           /\ Accounted(r)'
  <1>1. /\ pc[r] = "persist" /\ w \in pending[r] /\ Accounted(r)
        /\ pending'[r] = pending[r] \ {w} /\ Served(r)'
        /\ reply'[r] \in {"none", "ok"} /\ (r \in lossy => reply'[r] = "ok")
        /\ pc'[r] \in {"persist", "done"}
        /\ UNCHANGED <<reqVars, lossy>>
    BY SuccessShape
  <1>2. \A q \in Requests \ {r} :
           pc'[q] = pc[q] /\ reply'[q] = reply[q] /\ pending'[q] = pending[q]
    BY SuccessShape
  <1>3. /\ LogsDue(r)' \in Nat /\ LogsDue(r)' <= LogsDue(r)
        /\ LogsDue(r) = 1 => LogsDue(r)' = 1
        /\ \A q \in Requests \ {r} : Logs(q)' = Logs(q)
    BY LogsSettled
  <1>4. /\ \A q \in Requests \ {r} : UsageOf(q)' = UsageOf(q)
        /\ UsageOf(r) # {} \/ w = "usage" => UsageOf(r)' # {}
    <2>1. CASE w = "usage"
      <3>1. PICK new : usageRows' = usageRows \cup {new} /\ new.req = r
        BY <2>1, UsageAppended
      <3> QED
        BY <3>1 DEF UsageOf
    <2>2. CASE w # "usage"
      <3>1. usageRows' = usageRows
        BY <2>2 DEF WriteSucceeds, Effect, Writes
      <3> QED
        BY <2>2, <3>1 DEF UsageOf
    <2> QED
      BY <2>1, <2>2
  <1>5. \A q \in Requests \ {r} : Untouched(q)
    BY <1>1, <1>2, <1>3, <1>4 DEF Untouched, reqVars
  <1>6. LogsDue(r) \in Nat /\ LogsDue(r) <= 2
    BY <1>1, LogsCount DEF Accounted
  <1>7. LogsDue(r)' <= 2 /\ (LogsDue(r)' = 2 => stream'[r] /\ r \in lossy')
    BY <1>1, <1>3, <1>6 DEF Accounted, reqVars
  <1>8. r \notin lossy' =>
          /\ LogsDue(r)' = 1
          /\ user'[r] # NoUser => "usage" \in pending'[r] \/ UsageOf(r)' # {}
    <2>1. r \notin lossy' =>
            /\ LogsDue(r) = 1
            /\ user[r] # NoUser => "usage" \in pending[r] \/ UsageOf(r) # {}
      BY <1>1 DEF Accounted, Served
    <2> QED
      BY <1>1, <1>3, <1>4, <2>1 DEF reqVars
  <1>9. Accounted(r)'
    BY <1>1, <1>7, <1>8 DEF Accounted
  <1> QED
    BY <1>5, <1>9

\* The unit a key is charged is that of a request that was served.
LEMMA KeyCounted ==
    ASSUME TypeOK, ReplyPhase, LedgerInv,
           NEW r \in Requests, WriteSucceeds(r, "key")
    PROVE  KeysCounted'
  <1>1. /\ pc[r] = "persist" /\ "key" \in pending[r]
        /\ pending'[r] = pending[r] \ {"key"} /\ Served(r)' /\ UNCHANGED reqVars
        /\ \A q \in Requests \ {r} :
              pc'[q] = pc[q] /\ reply'[q] = reply[q] /\ pending'[q] = pending[q]
    BY SuccessShape DEF Writes
  <1>2. keyCount' = [keyCount EXCEPT ![key[r]] = keyCount[key[r]] + 1]
    BY DEF WriteSucceeds, Effect
  <1> SUFFICES ASSUME NEW k \in Keys
               PROVE  keyCount'[k] <= Cardinality(Counted(k)')
    BY DEF KeysCounted
  <1>3. /\ IsFiniteSet(Counted(k)) /\ Cardinality(Counted(k)) \in Nat
        /\ keyCount[k] \in Nat /\ keyCount[k] <= Cardinality(Counted(k))
    <2>1. Counted(k) \in SUBSET Requests
      BY DEF Counted
    <2>2. IsFiniteSet(Counted(k))
      BY <2>1, FS_Subset, LimitAssumption
    <2> QED
      BY <2>2, FS_CardinalityType DEF TypeOK, LedgerInv, KeysCounted
  <1>4. CASE key[r] = k
    <2>1. Counted(k)' = Counted(k) \cup {r}
      BY <1>1, <1>4 DEF Counted, Served, reqVars
    <2>2. r \notin Counted(k)
      BY <1>1 DEF Counted
    <2>3. Cardinality(Counted(k)') = Cardinality(Counted(k)) + 1
      BY <1>3, <2>1, <2>2, FS_AddElement
    <2>4. keyCount'[k] = keyCount[k] + 1
      BY <1>2, <1>4 DEF TypeOK
    <2> QED
      BY <1>3, <2>3, <2>4
  <1>5. CASE key[r] # k
    <2>1. Counted(k)' = Counted(k)
      BY <1>1, <1>5 DEF Counted, Served, reqVars
    <2>2. keyCount'[k] = keyCount[k]
      BY <1>2, <1>5 DEF TypeOK
    <2> QED
      BY <1>3, <2>1, <2>2
  <1> QED
    BY <1>4, <1>5

\* A write that succeeds turns what is due into what is there.
LEMMA SuccessStep ==
    ASSUME TypeOK, ReplyPhase, LedgerInv,
           NEW r \in Requests, NEW w \in Writes, WriteSucceeds(r, w)
    PROVE  LedgerInv'
  <1>1. (\A q \in Requests \ {r} : Untouched(q)) /\ Accounted(r)'
    BY SuccessAccounted
  <1>2. CASE w = "key"
    <2>1. \A q \in Requests : Accounted(q)'
      BY <1>1, UntouchedAccounted DEF LedgerInv
    <2> QED
      BY <1>2, <2>1, KeyCounted DEF LedgerInv
  <1>3. CASE w # "key"
    <2>1. keyCount' = keyCount
      BY <1>3 DEF WriteSucceeds, Effect, Writes
    <2>2. pending'[r] = pending[r] \ {w} /\ Served(r)' /\ UNCHANGED reqVars
      BY SuccessShape
    <2>3. \A k \in Keys : r \in Counted(k) => r \in Counted(k)'
      BY <2>2 DEF Counted, reqVars
    <2> QED
      BY <1>1, <2>1, <2>3, OneMoved
  <1> QED
    BY <1>2, <1>3

\* A write that fails: the client is told of success all the same, and the
\* first failure of a stream owes one more log.
LEMMA FailStep ==
    ASSUME TypeOK, LedgerInv, NEW r \in Requests, NEW w \in Writes, WriteFails(r, w)
    PROVE  LedgerInv'
  <1> DEFINE owed == IF r \notin lossy /\ stream[r] THEN {"errlog"} ELSE {}
             rest == (pending[r] \ {w}) \cup owed
  <1>1. /\ pc[r] = "persist" /\ w \in pending[r] /\ lossy' = lossy \cup {r}
        /\ pending' = [pending EXCEPT ![r] = rest]
        /\ pc' = [pc EXCEPT ![r] = IF rest = {} THEN "done" ELSE "persist"]
        /\ reply' = [reply EXCEPT ![r] = "ok"]
        /\ UNCHANGED <<reqVars, tableVars>>
    BY DEF WriteFails, Goto
  <1>2. /\ pending'[r] = rest /\ pc'[r] \in {"persist", "done"} /\ reply'[r] = "ok"
        /\ r \in lossy'
    BY <1>1 DEF TypeOK
  <1>3. \A q \in Requests : Logs(q)' = Logs(q) /\ UsageOf(q)' = UsageOf(q)
    BY <1>1 DEF Logs, UsageOf, tableVars
  <1>4. \A q \in Requests \ {r} : Untouched(q)
    BY <1>1, <1>3 DEF Untouched, TypeOK, reqVars
  <1>5. /\ LogsDue(r) \in Nat /\ LogsDue(r) <= 2 /\ Cardinality(Logs(r)) \in Nat
        /\ LogsDue(r) = 2 => stream[r]
        /\ r \notin lossy => LogsDue(r) = 1
    BY <1>1, LogsCount DEF LedgerInv, Accounted, Served
  <1>6. LogsDue(r)' \in Nat /\ LogsDue(r)' <= 2 /\ (LogsDue(r)' = 2 => stream'[r])
    <2>1. stream'[r] = stream[r] /\ Logs(r)' = Logs(r)
      BY <1>1, <1>3 DEF reqVars
    <2>2. CASE owed = {}
      <3>1. /\ "log" \in pending'[r] => "log" \in pending[r]
            /\ "errlog" \in pending'[r] => "errlog" \in pending[r]
        BY <1>2, <2>2
      <3>2. LogsDue(r)' \in Nat /\ LogsDue(r)' <= LogsDue(r)
        BY <1>5, <2>1, <3>1 DEF LogsDue
      <3> QED
        BY <1>5, <2>1, <3>2
    <2>3. CASE owed # {}
      <3>1. r \notin lossy /\ stream[r] /\ owed = {"errlog"}
        BY <2>3
      <3>2. "log" \in pending'[r] => "log" \in pending[r]
        BY <1>2, <3>1
      <3>3. LogsDue(r)' \in Nat /\ LogsDue(r)' <= LogsDue(r) + 1
        BY <1>5, <2>1, <3>2 DEF LogsDue
      <3> QED
        BY <1>5, <2>1, <3>1, <3>3
    <2> QED
      BY <2>2, <2>3
  <1>7. Accounted(r)'
    BY <1>2, <1>6 DEF Accounted
  <1>8. \A k \in Keys : r \in Counted(k) => r \in Counted(k)'
    <2>1. "key" \in pending'[r] => "key" \in pending[r]
      BY <1>2
    <2> QED
      BY <1>1, <1>2, <2>1 DEF Counted, Served, reqVars
  <1> QED
    BY <1>1, <1>4, <1>7, <1>8, OneMoved DEF tableVars

\* The invocation ends with writes nobody awaits: they are owed no more.
LEMMA EvictStep ==
    ASSUME TypeOK, LedgerInv, NEW r \in Requests, Evict(r)
    PROVE  LedgerInv'
  <1>1. /\ pc[r] = "persist" /\ r \in lossy
        /\ pending' = [pending EXCEPT ![r] = {}] /\ pc' = [pc EXCEPT ![r] = "done"]
        /\ UNCHANGED <<reqVars, lossy, reply, tableVars>>
    BY DEF Evict, Goto
  <1>2. Accounted(r) /\ reply[r] = "ok"
    BY <1>1 DEF LedgerInv, Accounted
  <1>3. pending'[r] = {} /\ pc'[r] = "done" /\ reply'[r] = "ok" /\ r \in lossy'
    BY <1>1, <1>2 DEF TypeOK
  <1>4. \A q \in Requests : Logs(q)' = Logs(q) /\ UsageOf(q)' = UsageOf(q)
    BY <1>1 DEF Logs, UsageOf, tableVars
  <1>5. \A q \in Requests \ {r} : Untouched(q)
    BY <1>1, <1>4 DEF Untouched, TypeOK, reqVars
  <1>6. LogsDue(r) \in Nat /\ LogsDue(r) <= 2 /\ Cardinality(Logs(r)) \in Nat
    BY <1>2, LogsCount DEF Accounted
  <1>7. LogsDue(r)' \in Nat /\ LogsDue(r)' <= LogsDue(r)
    BY <1>3, <1>4, <1>6 DEF LogsDue
  <1>8. LogsDue(r)' <= 2 /\ (LogsDue(r)' = 2 => stream'[r])
    BY <1>1, <1>2, <1>6, <1>7 DEF Accounted, reqVars
  <1>9. Accounted(r)'
    BY <1>3, <1>8 DEF Accounted
  <1>10. \A k \in Keys : r \in Counted(k) => r \in Counted(k)'
    BY <1>1, <1>3 DEF Counted, Served, reqVars
  <1> QED
    BY <1>1, <1>5, <1>9, <1>10, OneMoved DEF tableVars

\* The twelve steps before the provider's answer is accounted for.
LEMMA EarlySteps ==
    ASSUME TypeOK, PendingOwned, ReplyPhase, NEW r \in Requests,
           \/ Arrive(r) \/ RejectCredential(r) \/ Authenticate(r) \/ CheckBanned(r)
           \/ Validate(r) \/ CheckDaily(r) \/ CheckPoints(r) \/ Route(r)
           \/ CallSucceedsStream(r) \/ TeeFails(r) \/ CallRetries(r) \/ CallFails(r)
    PROVE  EarlyMove(r)
  <1>1. pc[r] \notin {"drain", "persist", "faillog", "done"}
    BY DEF Arrive, RejectCredential, Authenticate, CheckBanned, Validate, CheckDaily,
           CheckPoints, Route, CallSucceedsStream, TeeFails, CallRetries, CallFails
  <1>2. reply[r] = "none"
    BY <1>1 DEF ReplyPhase
  <1>3. /\ UNCHANGED <<pending, lossy, tableVars>>
        /\ \A q \in Requests \ {r} :
              user'[q] = user[q] /\ key'[q] = key[q] /\ stream'[q] = stream[q]
    <2>1. CASE Arrive(r)
      BY <2>1 DEF Arrive, TypeOK, writeVars
    <2>2. CASE ~Arrive(r)
      BY <2>2 DEF RejectCredential, Authenticate, CheckBanned, Validate, CheckDaily,
           CheckPoints, Route, CallSucceedsStream, TeeFails, CallRetries, CallFails,
           writeVars, reqVars
    <2> QED
      BY <2>1, <2>2
  <1>4. reply = [reply EXCEPT ![r] = "none"] /\ pc = [pc EXCEPT ![r] = pc[r]]
    BY <1>2 DEF TypeOK
  <1>5. \E s \in Steps \ {"persist"}, a \in Replies :
          /\ pc' = [pc EXCEPT ![r] = s]
          /\ reply' = [reply EXCEPT ![r] = a]
          /\ s \in {"done", "faillog"} => a # "ok"
    <2>1. CASE Arrive(r)
      BY <1>4, <2>1 DEF Arrive, Goto, Steps, Replies
    <2>2. CASE RejectCredential(r) \/ Authenticate(r) \/ CheckBanned(r)
      BY <1>4, <2>2
         DEF RejectCredential, Authenticate, CheckBanned, Return, Goto, Steps, Replies
    <2>3. CASE Validate(r)
      BY <1>4, <2>3 DEF Validate, Return, Goto, Steps, Replies
    <2>4. CASE CheckDaily(r) \/ CheckPoints(r)
      BY <1>4, <2>4 DEF CheckDaily, CheckPoints, Return, Goto, Steps, Replies
    <2>5. CASE Route(r)
      BY <1>4, <2>5 DEF Route, Return, Goto, Steps, Replies
    <2>6. CASE CallSucceedsStream(r) \/ TeeFails(r) \/ CallFails(r)
      BY <2>6 DEF CallSucceedsStream, TeeFails, CallFails, Return, Goto, Steps, Replies
    <2>7. CASE CallRetries(r)
      BY <1>4, <2>7 DEF CallRetries, Steps, Replies
    <2> QED
      BY <2>1, <2>2, <2>3, <2>4, <2>5, <2>6, <2>7
  <1> QED
    BY <1>1, <1>3, <1>5 DEF EarlyMove

\* Every step keeps every request accounted for.
LEMMA LedgerStep == TypeOK /\ PendingOwned /\ UsageLedger /\ ReplyPhase /\ LedgerInv
                       /\ [Next]_vars => LedgerInv'
  <1> SUFFICES ASSUME TypeOK, PendingOwned, UsageLedger, ReplyPhase, LedgerInv,
                      [Next]_vars
               PROVE  LedgerInv'
    OBVIOUS
  <1>1. ASSUME NEW r \in Requests,
               \/ Arrive(r) \/ RejectCredential(r) \/ Authenticate(r) \/ CheckBanned(r)
               \/ Validate(r) \/ CheckDaily(r) \/ CheckPoints(r) \/ Route(r)
               \/ CallSucceedsStream(r) \/ TeeFails(r) \/ CallRetries(r) \/ CallFails(r)
        PROVE  LedgerInv'
    BY <1>1, EarlySteps, EarlyAccounted
  <1>2. ASSUME NEW r \in Requests, CallSucceedsJson(r) PROVE LedgerInv'
    BY <1>2, BeginAccounted DEF CallSucceedsJson
  <1>3. ASSUME NEW r \in Requests, DrainEnds(r) PROVE LedgerInv'
    BY <1>3, BeginAccounted DEF DrainEnds
  <1>4. ASSUME NEW r \in Requests, WriteFailureLog(r) PROVE LedgerInv'
    BY <1>4, FailureAccounted
  <1>5. ASSUME NEW r \in Requests, DrainAborts(r) PROVE LedgerInv'
    BY <1>5, AbortAccounted
  <1>6. ASSUME NEW r \in Requests, DrainBreaks(r) PROVE LedgerInv'
    BY <1>6, BreakAccounted
  <1>7. ASSUME NEW r \in Requests, NEW w \in Writes, WriteSucceeds(r, w) PROVE LedgerInv'
    BY <1>7, SuccessStep
  <1>8. ASSUME NEW r \in Requests, NEW w \in Writes, WriteFails(r, w) PROVE LedgerInv'
    BY <1>8, FailStep
  <1>9. ASSUME NEW r \in Requests, Evict(r) PROVE LedgerInv'
    BY <1>9, EvictStep
  <1>10. CASE (\E u \in Users : Ban(u)) \/ Midnight \/ UNCHANGED vars
    BY <1>10, NoneMoved DEF Ban, Midnight, vars, writeVars
  <1> QED
    BY <1>1, <1>2, <1>3, <1>4, <1>5, <1>6, <1>7, <1>8, <1>9, <1>10
       DEF Next, Serve, Finished

\* Initially nothing is written and nothing is due.
LEMMA LedgerInit == Init => LedgerInv
  <1> SUFFICES ASSUME Init PROVE LedgerInv
    OBVIOUS
  <1>1. ASSUME NEW r \in Requests PROVE Accounted(r)
    <2>1. /\ Logs(r) = {} /\ UsageOf(r) = {} /\ pending[r] = {} /\ pc[r] = "idle"
          /\ r \notin lossy
      BY DEF Init, Logs, UsageOf
    <2>2. LogsDue(r) = 0
      BY <2>1, FS_EmptySet DEF LogsDue
    <2> QED
      BY <2>1, <2>2 DEF Accounted, Served
  <1>2. ASSUME NEW k \in Keys PROVE keyCount[k] <= Cardinality(Counted(k))
    <2>1. Counted(k) = {} /\ keyCount[k] = 0
      BY DEF Init, Counted, Served
    <2> QED
      BY <2>1, FS_EmptySet
  <1> QED
    BY <1>1, <1>2 DEF LedgerInv, KeysCounted

\* The ledger is accounted for in every reachable state.
LEMMA LedgerInvariant == Spec => []LedgerInv
  <1>1. Init => LedgerInv
    BY LedgerInit
  <1>2. GatewayInv /\ LedgerInv /\ [Next]_vars => LedgerInv'
    BY LedgerStep DEF GatewayInv
  <1> QED
    BY <1>1, <1>2, GatewayInvariant, PTL DEF Spec

\* An error costs nothing, and a key counts no more than it was served.
LEMMA ErrorFreeFromInv == TypeOK /\ LedgerInv => ErrorIsFree
  <1> SUFFICES ASSUME TypeOK, LedgerInv PROVE ErrorIsFree
    OBVIOUS
  <1>1. \A row \in usageRows : reply[row.req] \in {"none", "ok"}
    <2> SUFFICES ASSUME NEW row \in usageRows PROVE reply[row.req] \in {"none", "ok"}
      OBVIOUS
    <2>1. row.req \in Requests /\ row \in UsageOf(row.req)
      BY DEF TypeOK, UsageRow, UsageOf
    <2> QED
      BY <2>1 DEF LedgerInv, Accounted
  <1>2. \A row \in logRows : row.kind = "success" => reply[row.req] \in {"none", "ok"}
    <2> SUFFICES ASSUME NEW row \in logRows, row.kind = "success"
                 PROVE  reply[row.req] \in {"none", "ok"}
      OBVIOUS
    <2>1. row.req \in Requests /\ row \in Logs(row.req)
      BY DEF TypeOK, LogRow, Logs
    <2> QED
      BY <2>1 DEF LedgerInv, Accounted
  <1>3. ASSUME NEW k \in Keys
        PROVE  keyCount[k] <= Cardinality({r \in Requests :
                                 key[r] = k /\ (reply[r] = "ok" \/ pc[r] = "persist")})
    <2> DEFINE paid == {r \in Requests :
                          key[r] = k /\ (reply[r] = "ok" \/ pc[r] = "persist")}
    <2>1. Counted(k) \subseteq paid /\ paid \in SUBSET Requests
      BY DEF Counted, Served
    <2>2. IsFiniteSet(paid)
      BY <2>1, FS_Subset, LimitAssumption
    <2>3. IsFiniteSet(Counted(k)) /\ Cardinality(Counted(k)) <= Cardinality(paid)
      BY <2>1, <2>2, FS_Subset
    <2>4. Cardinality(Counted(k)) \in Nat /\ Cardinality(paid) \in Nat
      BY <2>2, <2>3, FS_CardinalityType
    <2>5. keyCount[k] \in Nat /\ keyCount[k] <= Cardinality(Counted(k))
      BY DEF TypeOK, LedgerInv, KeysCounted
    <2> HIDE DEF paid
    <2>6. keyCount[k] <= Cardinality(paid)
      BY <2>3, <2>4, <2>5
    <2> QED
      BY <2>6 DEF paid
  <1> QED
    BY <1>1, <1>2, <1>3 DEF ErrorIsFree

\* With nothing pending any more, what was due is what is there.
LEMMA ServedFromInv == TypeOK /\ PendingOwned /\ LedgerInv => ServedIsBilled
  <1> SUFFICES ASSUME TypeOK, PendingOwned, LedgerInv, NEW r \in Requests,
                      pc[r] = "done", reply[r] = "ok", r \notin lossy
               PROVE  /\ Cardinality(Logs(r)) = 1
                      /\ user[r] # NoUser => \E row \in usageRows : row.req = r
    BY DEF ServedIsBilled, Logs
  <1>1. pending[r] = {} /\ Cardinality(Logs(r)) \in Nat
    BY LogsCount DEF PendingOwned
  <1>2. LogsDue(r) = 1 /\ (user[r] # NoUser => UsageOf(r) # {})
    BY <1>1 DEF LedgerInv, Accounted, Served
  <1>3. Cardinality(Logs(r)) = 1
    BY <1>1, <1>2 DEF LogsDue
  <1> QED
    BY <1>2, <1>3 DEF UsageOf

\* What a client pays for is what he was served: an error leaves no charge, no
\* success log and no unit on the key, and a request served without a loss has
\* its one log and, when it has a user, its usage row.
THEOREM BilledForService == Spec => []BilledIffServed
  <1>1. GatewayInv /\ LedgerInv => BilledIffServed
    BY ErrorFreeFromInv, ServedFromInv DEF GatewayInv, BilledIffServed
  <1> QED
    BY <1>1, GatewayInvariant, LedgerInvariant, PTL

\* A request has two log rows only when it is a stream one of whose writes
\* failed, and never three.
THEOREM DoubleLogsExplained == Spec => []DoubleLogOnlyAfterLoss
  <1>1. GatewayInv /\ LedgerInv => DoubleLogOnlyAfterLoss
    <2> SUFFICES ASSUME TypeOK, LedgerInv, NEW r \in Requests
                 PROVE  /\ Cardinality(Logs(r)) <= 2
                        /\ Cardinality(Logs(r)) = 2 => stream[r] /\ r \in lossy
      BY DEF GatewayInv, DoubleLogOnlyAfterLoss, Logs
    <2>1. /\ Cardinality(Logs(r)) \in Nat /\ LogsDue(r) \in Nat
          /\ Cardinality(Logs(r)) <= LogsDue(r)
      BY LogsCount
    <2>2. LogsDue(r) <= 2 /\ (LogsDue(r) = 2 => stream[r] /\ r \in lossy)
      BY DEF LedgerInv, Accounted
    <2> QED
      BY <2>1, <2>2
  <1> QED
    BY <1>1, GatewayInvariant, LedgerInvariant, PTL

-----------------------------------------------------------------------------
(* Sums of points. *)

\* Among finite sets there is a smallest, so what fails of some of them fails of
\* one all of whose proper subsets are spared: the induction of this part.
LEMMA SmallestSet ==
    ASSUME NEW C, C # {}, \A T \in C : IsFiniteSet(T)
    PROVE  \E T \in C : \A R \in C : ~(R \subseteq T /\ R # T)
  <1> DEFINE sizes == {Cardinality(T) : T \in C}
  <1>1. sizes \in SUBSET Nat /\ sizes # {}
    BY FS_CardinalityType
  <1>2. PICK n \in sizes : \A m \in sizes : n =< m
    <2> HIDE DEF sizes
    <2> QED
      BY <1>1, LeastExists
  <1>3. PICK T \in C : Cardinality(T) = n
    OBVIOUS
  <1>4. ASSUME NEW R \in C, R \subseteq T, R # T PROVE FALSE
    <2>1. Cardinality(R) < Cardinality(T)
      <3>1. IsFiniteSet(T) /\ IsFiniteSet(R)
        OBVIOUS
      <3>2. Cardinality(R) <= Cardinality(T) /\ (Cardinality(R) = Cardinality(T) => R = T)
        BY <1>4, <3>1, FS_Subset
      <3> QED
        BY <1>4, <3>1, <3>2, FS_CardinalityType
    <2>2. n =< Cardinality(R) /\ n \in Nat /\ Cardinality(R) \in Nat
      BY <1>1, <1>2, <1>4, FS_CardinalityType
    <2> QED
      BY <1>3, <2>1, <2>2
  <1> QED
    BY <1>4

\* What finitely many usage rows cost, as PointsUsed adds it up.
Points(S) == MapThenSumSet(LAMBDA row : row.points, S)

\* The row the sum takes next.
First(s) == CHOOSE x \in s : TRUE

\* The recursive function that MapThenSumSet evaluates.
Sums(g, S) == g = [s \in SUBSET S |->
                 IF s = {} THEN 0 ELSE First(s).points + g[s \ {First(s)}]]

\* The sum of the points is the value of that function.
LEMMA PointsUnfolded ==
    ASSUME NEW S
    PROVE  Points(S) = (CHOOSE g : Sums(g, S))[S]
  BY DEF Points, MapThenSumSet, MapThenFoldSet, Sums, First

\* The element taken first is one of the set.
LEMMA FirstInSet ==
    ASSUME NEW s, s # {}
    PROVE  First(s) \in s
  BY DEF First

\* Two such functions agree where both are defined.
LEMMA SumsAgree ==
    ASSUME NEW S, NEW T, NEW g, NEW h, Sums(g, S), Sums(h, T),
           NEW R \in SUBSET (S \cap T), IsFiniteSet(R)
    PROVE  g[R] = h[R]
  <1> DEFINE C == {Q \in SUBSET R : g[Q] # h[Q]}
  <1>1. SUFFICES ASSUME C # {} PROVE FALSE
    OBVIOUS
  <1>2. \A Q \in C : IsFiniteSet(Q)
    BY FS_Subset
  <1>3. PICK Q \in C : \A P \in C : ~(P \subseteq Q /\ P # Q)
    <2> HIDE DEF C
    <2> QED
      BY <1>1, <1>2, SmallestSet
  <1>4. Q \in SUBSET S /\ Q \in SUBSET T
    OBVIOUS
  <1>5. CASE Q = {}
    <2>1. g[Q] = 0 /\ h[Q] = 0
      BY <1>4, <1>5 DEF Sums
    <2> QED
      BY <2>1
  <1>6. CASE Q # {}
    <2> DEFINE rest == Q \ {First(Q)}
    <2>1. First(Q) \in Q
      BY <1>6, FirstInSet
    <2>2. rest \subseteq Q /\ rest # Q /\ rest \in SUBSET R
      BY <2>1
    <2>3. g[rest] = h[rest]
      BY <1>3, <2>2
    <2>4. g[Q] = First(Q).points + g[rest]
      BY <1>4, <1>6 DEF Sums
    <2>5. h[Q] = First(Q).points + h[rest]
      BY <1>4, <1>6 DEF Sums
    <2> QED
      BY <2>3, <2>4, <2>5
  <1> QED
    BY <1>5, <1>6

\* The function exists for every finite set.
LEMMA SumsExist ==
    ASSUME NEW S, IsFiniteSet(S)
    PROVE  \E g : Sums(g, S)
  <1> DEFINE C == {T \in SUBSET S : ~(\E g : Sums(g, T))}
  <1>1. SUFFICES ASSUME C # {} PROVE FALSE
    OBVIOUS
  <1>2. \A T \in SUBSET S : IsFiniteSet(T)
    BY FS_Subset
  <1>3. PICK T \in C : \A R \in C : ~(R \subseteq T /\ R # T)
    <2>1. \A R \in C : IsFiniteSet(R)
      BY <1>2
    <2> HIDE DEF C
    <2> QED
      BY <1>1, <2>1, SmallestSet
  <1>4. ASSUME NEW R \in SUBSET T, R # T PROVE \E g : Sums(g, R)
    BY <1>3, <1>4
  <1> DEFINE top == IF T = {} THEN 0 ELSE First(T).points + Points(T \ {First(T)})
             f == [R \in SUBSET T |-> IF R = T THEN top ELSE Points(R)]
  <1>5. ASSUME NEW R \in SUBSET T
        PROVE  f[R] = IF R = {} THEN 0 ELSE First(R).points + f[R \ {First(R)}]
    <2>1. CASE R = T
      <3>1. f[R] = top
        BY <2>1
      <3>2. CASE T = {}
        BY <2>1, <3>1, <3>2
      <3>3. CASE T # {}
        <4>1. First(T) \in T
          BY <3>3, FirstInSet
        <4>2. T \ {First(T)} \in SUBSET T /\ T \ {First(T)} # T
          BY <4>1
        <4>3. f[T \ {First(T)}] = Points(T \ {First(T)})
          BY <4>2
        <4> QED
          BY <2>1, <3>1, <3>3, <4>3
      <3> QED
        BY <3>2, <3>3
    <2>2. CASE R # T
      <3> DEFINE h == CHOOSE g : Sums(g, R)
      <3>1. Sums(h, R)
        BY <1>4, <2>2
      <3>2. f[R] = h[R]
        BY <2>2, PointsUnfolded
      <3>3. CASE R = {}
        <4>1. h[R] = 0
          BY <3>1, <3>3 DEF Sums
        <4> QED
          BY <3>2, <3>3, <4>1
      <3>4. CASE R # {}
        <4> DEFINE rest == R \ {First(R)}
                   k == CHOOSE g : Sums(g, rest)
        <4>1. First(R) \in R
          BY <3>4, FirstInSet
        <4>2. rest \in SUBSET T /\ rest \in SUBSET R /\ rest # T
          BY <4>1
        <4>3. Sums(k, rest)
          BY <1>4, <4>2
        <4>4. IsFiniteSet(rest)
          BY <1>2, <4>2
        <4>5. h[rest] = k[rest]
          <5> HIDE DEF rest, h, k
          <5> QED
            BY <3>1, <4>2, <4>3, <4>4, SumsAgree
        <4>6. f[rest] = k[rest]
          BY <4>2, PointsUnfolded
        <4>7. h[R] = First(R).points + h[rest]
          BY <3>1, <3>4 DEF Sums
        <4> QED
          BY <3>2, <3>4, <4>5, <4>6, <4>7
      <3> QED
        BY <3>3, <3>4
    <2> QED
      BY <2>1, <2>2
  <1>6. f = [R \in SUBSET T |-> f[R]]
    OBVIOUS
  <1> HIDE DEF f
  <1>7. f = [R \in SUBSET T |-> IF R = {} THEN 0 ELSE First(R).points + f[R \ {First(R)}]]
    BY <1>5, <1>6
  <1>8. Sums(f, T)
    BY <1>7 DEF Sums
  <1> QED
    BY <1>8

\* A sum is its first row and the sum of the others.
LEMMA PointsStep ==
    ASSUME NEW S, IsFiniteSet(S)
    PROVE  Points(S) = IF S = {} THEN 0 ELSE First(S).points + Points(S \ {First(S)})
  <1> DEFINE g == CHOOSE x : Sums(x, S)
             rest == S \ {First(S)}
             h == CHOOSE x : Sums(x, rest)
  <1>1. Sums(g, S) /\ Points(S) = g[S]
    BY SumsExist, PointsUnfolded
  <1>2. CASE S = {}
    <2>1. g[S] = 0
      BY <1>1, <1>2 DEF Sums
    <2> QED
      BY <1>1, <1>2, <2>1
  <1>3. CASE S # {}
    <2>1. IsFiniteSet(rest)
      BY FS_Subset
    <2>2. Sums(h, rest) /\ Points(rest) = h[rest]
      BY <2>1, SumsExist, PointsUnfolded
    <2>3. g[rest] = h[rest]
      <3>1. rest \in SUBSET (S \cap rest)
        OBVIOUS
      <3> HIDE DEF rest, h, g
      <3> QED
        BY <1>1, <2>1, <2>2, <3>1, SumsAgree
    <2>4. g[S] = First(S).points + g[rest]
      BY <1>1, <1>3 DEF Sums
    <2> QED
      BY <1>1, <1>3, <2>2, <2>3, <2>4
  <1> QED
    BY <1>2, <1>3

\* The points of finitely many rows are a natural number.
LEMMA PointsNat ==
    ASSUME NEW S, IsFiniteSet(S), \A row \in S : row.points \in Nat
    PROVE  Points(S) \in Nat
  <1> DEFINE C == {T \in SUBSET S : Points(T) \notin Nat}
  <1>1. SUFFICES ASSUME C # {} PROVE FALSE
    OBVIOUS
  <1>2. \A T \in C : IsFiniteSet(T)
    BY FS_Subset
  <1>3. PICK T \in C : \A R \in C : ~(R \subseteq T /\ R # T)
    <2> HIDE DEF C
    <2> QED
      BY <1>1, <1>2, SmallestSet
  <1>4. CASE T = {}
    <2>1. Points(T) = 0
      BY <1>2, <1>4, PointsStep
    <2> QED
      BY <2>1
  <1>5. CASE T # {}
    <2> DEFINE rest == T \ {First(T)}
    <2>1. First(T) \in T /\ First(T).points \in Nat
      BY <1>5, FirstInSet
    <2>2. Points(rest) \in Nat
      BY <1>3, <2>1
    <2>3. Points(T) = First(T).points + Points(rest)
      BY <1>2, <1>5, PointsStep
    <2> QED
      BY <2>1, <2>2, <2>3
  <1> QED
    BY <1>4, <1>5

\* A sum is any of its rows and the sum of the others.
LEMMA PointsWithout ==
    ASSUME NEW S, IsFiniteSet(S), \A row \in S : row.points \in Nat, NEW x \in S
    PROVE  Points(S) = x.points + Points(S \ {x})
  <1> DEFINE C == {T \in SUBSET S : \E a \in T : Points(T) # a.points + Points(T \ {a})}
  <1>1. SUFFICES ASSUME C # {} PROVE FALSE
    OBVIOUS
  <1>2. \A T \in SUBSET S : IsFiniteSet(T) /\ Points(T) \in Nat
    BY FS_Subset, PointsNat
  <1>3. PICK T \in C : \A R \in C : ~(R \subseteq T /\ R # T)
    <2>1. \A R \in C : IsFiniteSet(R)
      BY <1>2
    <2> HIDE DEF C
    <2> QED
      BY <1>1, <2>1, SmallestSet
  <1>4. PICK a \in T : Points(T) # a.points + Points(T \ {a})
    OBVIOUS
  <1> DEFINE b == First(T)
             both == T \ {a, b}
  <1>5. b \in T /\ Points(T) = b.points + Points(T \ {b})
    BY <1>2, <1>4, FirstInSet, PointsStep
  <1>6. b # a
    BY <1>4, <1>5
  <1>7. (T \ {b}) \ {a} = both /\ (T \ {a}) \ {b} = both
    OBVIOUS
  <1>8. ASSUME NEW R \in SUBSET T, R # T, NEW c \in R
        PROVE  Points(R) = c.points + Points(R \ {c})
    BY <1>3, <1>8
  <1>9. T \in SUBSET S /\ both \in SUBSET S
    OBVIOUS
  <1> HIDE DEF C, b, both
  <1>10. Points(T \ {b}) = a.points + Points((T \ {b}) \ {a})
    <2>1. T \ {b} \in SUBSET T /\ T \ {b} # T /\ a \in T \ {b}
      BY <1>5, <1>6
    <2> QED
      BY <1>8, <2>1
  <1>11. Points(T \ {a}) = b.points + Points((T \ {a}) \ {b})
    <2>1. T \ {a} \in SUBSET T /\ T \ {a} # T /\ b \in T \ {a}
      BY <1>5, <1>6
    <2> QED
      BY <1>8, <2>1
  <1>12. /\ a.points \in Nat /\ b.points \in Nat
         /\ Points(both) \in Nat
    BY <1>2, <1>5, <1>9
  <1> QED
    BY <1>4, <1>5, <1>7, <1>10, <1>11, <1>12

\* A larger number of requests can spend at least as much.
LEMMA TimesMonotone ==
    ASSUME NEW a \in Nat, NEW b \in Nat, NEW c \in Nat, a <= b
    PROVE  a * c <= b * c /\ a * c \in Nat /\ b * c \in Nat
  <1>1. (b - a) * c >= 0
    OBVIOUS
  <1>2. (b - a) * c = b * c - a * c
    OBVIOUS
  <1> QED
    BY <1>1, <1>2

\* One request more can spend once more.
LEMMA TimesSuccessor ==
    ASSUME NEW a \in Nat, NEW c \in Nat
    PROVE  (a + 1) * c = a * c + c
  OBVIOUS

-----------------------------------------------------------------------------
(* The allowances that are not counted by the day. *)

MaxCharge == Max(Charges \cup {0})

\* Past the check of the monthly points, usage row not written yet.
Paying(u) ==
    {r \in Requests :
        /\ user[r] = u
        /\ \/ pc[r] \in {"route", "call", "drain"}
           \/ pc[r] = "persist" /\ "usage" \in pending[r]}

\* Past the check of the key's count, the count not raised yet.
Keyed(k) ==
    {r \in Requests :
        /\ key[r] = k
        /\ \/ pc[r] \in {"status", "validate", "daily", "points", "route", "call", "drain"}
           \/ pc[r] = "persist" /\ "key" \in pending[r]}

OwnRows(u) == {row \in usageRows : row.user = u}

\* No request costs more than the dearest completion.
CostBounded == \A r \in Requests : "usage" \in pending[r] => cost[r] <= MaxCharge

\* The points spent and those the admitted requests can still spend.
PointsBounded ==
    \A u \in Users \ Admins :
        PointsUsed(u) + Cardinality(Paying(u)) * MaxCharge
            <= PointLimit - 1 + MaxConcurrent * MaxCharge

\* The units counted and those the admitted requests can still add.
KeysBounded ==
    \A k \in Keys : keyCount[k] + Cardinality(Keyed(k)) <= KeyLimit - 1 + MaxConcurrent

\* AllowanceOvershootBounded made inductive.
AllowanceInv == CostBounded /\ PointsBounded /\ KeysBounded

\* The dearest charge exists, Charges being finite.
LEMMA MaxChargeFact ==
    MaxCharge \in Nat /\ \A c \in Charges : c <= MaxCharge
  <1> DEFINE all == Charges \cup {0}
             C == {T \in SUBSET all : T # {} /\ ~(\E x \in T : \A y \in T : x >= y)}
  <1>1. IsFiniteSet(all) /\ all \in SUBSET Nat /\ all # {}
    BY LimitAssumption, FS_AddElement
  <1>2. C = {}
    <2>1. SUFFICES ASSUME C # {} PROVE FALSE
      OBVIOUS
    <2>2. \A T \in C : IsFiniteSet(T)
      <3> HIDE DEF all
      <3> QED
        BY <1>1, FS_Subset
    <2>3. PICK T \in C : \A R \in C : ~(R \subseteq T /\ R # T)
      <3> HIDE DEF C
      <3> QED
        BY <2>1, <2>2, SmallestSet
    <2>4. PICK x \in T : TRUE
      OBVIOUS
    <2>5. T \in SUBSET Nat /\ T \ {x} \in SUBSET all /\ T \ {x} # T
      BY <1>1, <2>4
    <2>6. CASE T \ {x} = {}
      <3>1. \A y \in T : x >= y
        BY <2>4, <2>5, <2>6
      <3> QED
        BY <2>3, <2>4, <3>1
    <2>7. CASE T \ {x} # {}
      <3>1. T \ {x} \notin C
        BY <2>3, <2>5
      <3>2. PICK z \in T \ {x} : \A y \in T \ {x} : z >= y
        BY <2>5, <2>7, <3>1
      <3>3. x \in Nat /\ z \in Nat
        BY <2>5
      <3>4. \E top \in T : \A y \in T : top >= y
        <4>1. CASE x >= z
          BY <2>5, <3>2, <3>3, <4>1
        <4>2. CASE ~(x >= z)
          BY <2>5, <3>2, <3>3, <4>2
        <4> QED
          BY <4>1, <4>2
      <3> QED
        BY <2>3, <3>4
    <2> QED
      BY <2>6, <2>7
  <1>3. \E x \in all : \A y \in all : x >= y
    <2>1. all \notin C
      BY <1>2
    <2> QED
      BY <1>1, <2>1
  <1>4. MaxCharge \in all /\ \A y \in all : MaxCharge >= y
    BY <1>3 DEF MaxCharge, Max
  <1> QED
    BY <1>1, <1>4

\* The points used after a step are the sum over the rows after it.
LEMMA PointsAfter ==
    ASSUME NEW u
    PROVE  PointsUsed(u)' = Points(OwnRows(u)')
  <1>1. PointsUsed(u)' = (CHOOSE g : Sums(g, OwnRows(u)'))[OwnRows(u)']
    BY DEF PointsUsed, MapThenSumSet, MapThenFoldSet, Sums, First, OwnRows
  <1> QED
    BY <1>1, PointsUnfolded

\* The sets the two bounds count are finite, and their members are all open.
LEMMA AllowanceFinite ==
    ASSUME TypeOK, NEW u, NEW k
    PROVE  /\ IsFiniteSet(OwnRows(u)) /\ \A row \in OwnRows(u) : row.points \in Nat
           /\ PointsUsed(u) = Points(OwnRows(u)) /\ PointsUsed(u) \in Nat
           /\ IsFiniteSet(Paying(u)) /\ Cardinality(Paying(u)) \in Nat
           /\ IsFiniteSet(Keyed(k)) /\ Cardinality(Keyed(k)) \in Nat
           /\ Cardinality(Paying(u)) <= Cardinality(Active)
           /\ Cardinality(Keyed(k)) <= Cardinality(Active)
           /\ Cardinality(Active) \in Nat
  <1>1. OwnRows(u) \in SUBSET usageRows
    BY DEF OwnRows
  <1>2. IsFiniteSet(OwnRows(u)) /\ \A row \in OwnRows(u) : row.points \in Nat
    BY <1>1, FS_Subset DEF TypeOK, UsageRow
  <1>3. PointsUsed(u) = Points(OwnRows(u))
    BY DEF PointsUsed, Points, OwnRows
  <1>4. Points(OwnRows(u)) \in Nat
    BY <1>2, PointsNat
  <1>5. /\ Paying(u) \in SUBSET Active /\ Keyed(k) \in SUBSET Active
        /\ Active \in SUBSET Requests
    BY DEF Paying, Keyed, Active
  <1>6. IsFiniteSet(Active)
    BY <1>5, FS_Subset, LimitAssumption
  <1>7. /\ IsFiniteSet(Paying(u)) /\ Cardinality(Paying(u)) <= Cardinality(Active)
        /\ IsFiniteSet(Keyed(k)) /\ Cardinality(Keyed(k)) <= Cardinality(Active)
    BY <1>5, <1>6, FS_Subset
  <1> QED
    BY <1>2, <1>3, <1>4, <1>6, <1>7, FS_CardinalityType

\* Steps that write no usage row and let nobody past the check of the points.
LEMMA PointsQuiet ==
    ASSUME TypeOK, PointsBounded, usageRows' = usageRows,
           \A u \in Users \ Admins : Paying(u)' \subseteq Paying(u)
    PROVE  PointsBounded'
  <1> SUFFICES ASSUME NEW u \in Users \ Admins
               PROVE  PointsUsed(u)' + Cardinality(Paying(u)') * MaxCharge
                        <= PointLimit - 1 + MaxConcurrent * MaxCharge
    BY DEF PointsBounded
  <1>1. PointsUsed(u)' = PointsUsed(u)
    <2>1. OwnRows(u)' = OwnRows(u)
      BY DEF OwnRows
    <2> QED
      BY <2>1, PointsAfter, AllowanceFinite
  <1>2. /\ IsFiniteSet(Paying(u)) /\ Cardinality(Paying(u)) \in Nat
        /\ PointsUsed(u) \in Nat
    BY AllowanceFinite
  <1>3. IsFiniteSet(Paying(u)') /\ Cardinality(Paying(u)') <= Cardinality(Paying(u))
    BY <1>2, FS_Subset
  <1>4. Cardinality(Paying(u)') \in Nat
    BY <1>3, FS_CardinalityType
  <1>5. /\ Cardinality(Paying(u)') * MaxCharge <= Cardinality(Paying(u)) * MaxCharge
        /\ Cardinality(Paying(u)') * MaxCharge \in Nat
        /\ Cardinality(Paying(u)) * MaxCharge \in Nat
        /\ MaxConcurrent * MaxCharge \in Nat
    BY <1>2, <1>3, <1>4, TimesMonotone, MaxChargeFact, LimitAssumption
  <1>6. PointsUsed(u) + Cardinality(Paying(u)) * MaxCharge
          <= PointLimit - 1 + MaxConcurrent * MaxCharge
    BY DEF PointsBounded
  <1> QED
    BY <1>1, <1>2, <1>5, <1>6, LimitAssumption

\* The check: below the limit, and all who are past it are open.
LEMMA PointsChecked ==
    ASSUME TypeOK, TypeOK', PointsBounded, ConcurrencyBounded',
           NEW r \in Requests, CheckPoints(r)
    PROVE  PointsBounded'
  <1> SUFFICES ASSUME NEW u \in Users \ Admins
               PROVE  PointsUsed(u)' + Cardinality(Paying(u)') * MaxCharge
                        <= PointLimit - 1 + MaxConcurrent * MaxCharge
    BY DEF PointsBounded
  <1>1. PointsUsed(u)' = PointsUsed(u)
    <2>1. OwnRows(u)' = OwnRows(u)
      BY DEF OwnRows, CheckPoints, tableVars
    <2> QED
      BY <2>1, PointsAfter, AllowanceFinite
  <1>2. /\ IsFiniteSet(Paying(u)) /\ Cardinality(Paying(u)) \in Nat
        /\ PointsUsed(u) \in Nat
    BY AllowanceFinite
  <1>3. /\ Cardinality(Paying(u)') \in Nat
        /\ Cardinality(Paying(u)') <= MaxConcurrent
    <2>1. Active' \in SUBSET Requests /\ Paying(u)' \in SUBSET Active'
      BY DEF Active, Paying
    <2>2. IsFiniteSet(Active')
      BY <2>1, FS_Subset, LimitAssumption
    <2>3. IsFiniteSet(Paying(u)') /\ Cardinality(Paying(u)') <= Cardinality(Active')
      BY <2>1, <2>2, FS_Subset
    <2>4. Cardinality(Active') <= MaxConcurrent
      BY DEF ConcurrencyBounded
    <2>5. Cardinality(Active') \in Nat /\ Cardinality(Paying(u)') \in Nat
      BY <2>2, <2>3, FS_CardinalityType
    <2> QED
      BY <2>3, <2>4, <2>5, LimitAssumption
  <1>4. CASE PointsUsed(u) < PointLimit
    <2>1. /\ Cardinality(Paying(u)') * MaxCharge <= MaxConcurrent * MaxCharge
          /\ Cardinality(Paying(u)') * MaxCharge \in Nat
          /\ MaxConcurrent * MaxCharge \in Nat
      BY <1>3, TimesMonotone, MaxChargeFact, LimitAssumption
    <2> QED
      BY <1>1, <1>2, <1>4, <2>1, LimitAssumption
  <1>5. CASE ~(PointsUsed(u) < PointLimit)
    <2>1. Paying(u)' \subseteq Paying(u)
      <3>1. user[r] = u => pc' = [pc EXCEPT ![r] = "done"]
        BY <1>2, <1>5, LimitAssumption DEF CheckPoints, Return, Goto
      <3>2. \E s \in {"done", "route"} : pc' = [pc EXCEPT ![r] = s]
        BY DEF CheckPoints, Return, Goto
      <3>3. user' = user /\ pending' = pending
        BY DEF CheckPoints, reqVars, writeVars
      <3> QED
        BY <3>1, <3>2, <3>3 DEF Paying, TypeOK
    <2>2. Cardinality(Paying(u)') <= Cardinality(Paying(u))
      BY <1>2, <2>1, FS_Subset
    <2>3. /\ Cardinality(Paying(u)') * MaxCharge <= Cardinality(Paying(u)) * MaxCharge
          /\ Cardinality(Paying(u)') * MaxCharge \in Nat
          /\ Cardinality(Paying(u)) * MaxCharge \in Nat
          /\ MaxConcurrent * MaxCharge \in Nat
      BY <1>2, <1>3, <2>2, TimesMonotone, MaxChargeFact, LimitAssumption
    <2>4. PointsUsed(u) + Cardinality(Paying(u)) * MaxCharge
            <= PointLimit - 1 + MaxConcurrent * MaxCharge
      BY DEF PointsBounded
    <2> QED
      BY <1>1, <1>2, <2>3, <2>4, LimitAssumption
  <1> QED
    BY <1>4, <1>5

\* The row that is written costs no more than what its request was admitted for.
LEMMA PointsCharged ==
    ASSUME TypeOK, TypeOK', UsageLedger, CostBounded, PointsBounded,
           NEW r \in Requests, WriteSucceeds(r, "usage")
    PROVE  PointsBounded'
  <1> SUFFICES ASSUME NEW u \in Users \ Admins
               PROVE  PointsUsed(u)' + Cardinality(Paying(u)') * MaxCharge
                        <= PointLimit - 1 + MaxConcurrent * MaxCharge
    BY DEF PointsBounded
  <1>1. /\ pc[r] = "persist" /\ "usage" \in pending[r]
        /\ pending' = [pending EXCEPT ![r] = pending[r] \ {"usage"}]
        /\ pc' = [pc EXCEPT ![r] = "done"] \/ UNCHANGED pc
        /\ user' = user
    BY DEF WriteSucceeds, Settle, Return, Goto, reqVars
  <1>2. PICK new : /\ usageRows' = usageRows \cup {new} /\ new.req = r
                   /\ new.user = user[r] /\ new.points = cost[r]
    <2> DEFINE row == [req |-> r, user |-> user[r], key |-> key[r], day |-> today,
                       points |-> cost[r],
                       copy |-> Cardinality({old \in usageRows : old.req = r})]
    <2>1. usageRows' = usageRows \cup {row}
      BY DEF WriteSucceeds, Effect, AddUsage
    <2>2. row.req = r /\ row.user = user[r] /\ row.points = cost[r]
      OBVIOUS
    <2> HIDE DEF row
    <2> QED
      BY <2>1, <2>2
  <1>3. /\ IsFiniteSet(OwnRows(u)) /\ PointsUsed(u) \in Nat
        /\ PointsUsed(u) = Points(OwnRows(u))
        /\ IsFiniteSet(Paying(u)) /\ Cardinality(Paying(u)) \in Nat
    BY AllowanceFinite
  <1>4. PointsUsed(u) + Cardinality(Paying(u)) * MaxCharge
          <= PointLimit - 1 + MaxConcurrent * MaxCharge
    BY DEF PointsBounded
  <1>5. CASE user[r] = u
    <2>1. Paying(u)' = Paying(u) \ {r} /\ r \in Paying(u)
      BY <1>1, <1>5 DEF Paying, TypeOK
    <2>2. /\ Cardinality(Paying(u)') = Cardinality(Paying(u)) - 1
          /\ Cardinality(Paying(u)') \in Nat
      <3>1. IsFiniteSet(Paying(u)')
        BY <1>3, <2>1, FS_Subset
      <3> QED
        BY <1>3, <2>1, <3>1, FS_RemoveElement, FS_CardinalityType
    <2>3. Cardinality(Paying(u)) * MaxCharge = Cardinality(Paying(u)') * MaxCharge + MaxCharge
      BY <1>3, <2>2, TimesSuccessor, MaxChargeFact
    <2>4. new \notin OwnRows(u) /\ OwnRows(u)' = OwnRows(u) \cup {new}
      BY <1>1, <1>2, <1>5 DEF UsageLedger, OwnRows
    <2>5. IsFiniteSet(OwnRows(u)') /\ \A row \in OwnRows(u)' : row.points \in Nat
      <3>1. OwnRows(u)' \in SUBSET usageRows'
        BY DEF OwnRows
      <3> QED
        BY <3>1, FS_Subset DEF TypeOK, UsageRow
    <2>6. Points(OwnRows(u)') = new.points + Points(OwnRows(u)' \ {new})
      BY <2>4, <2>5, PointsWithout
    <2>7. OwnRows(u)' \ {new} = OwnRows(u)
      BY <2>4
    <2>8. PointsUsed(u)' = Points(OwnRows(u)')
      BY PointsAfter
    <2>9. cost[r] \in Nat /\ cost[r] <= MaxCharge
      BY <1>1 DEF TypeOK, CostBounded
    <2>10. PointsUsed(u)' = PointsUsed(u) + cost[r]
      BY <1>2, <1>3, <2>6, <2>7, <2>8, <2>9
    <2>11. /\ Cardinality(Paying(u)') * MaxCharge \in Nat
           /\ MaxConcurrent * MaxCharge \in Nat /\ MaxCharge \in Nat
      BY <2>2, TimesMonotone, MaxChargeFact, LimitAssumption
    <2> QED
      BY <1>3, <1>4, <2>3, <2>9, <2>10, <2>11, LimitAssumption
  <1>6. CASE user[r] # u
    <2>1. OwnRows(u)' = OwnRows(u)
      BY <1>2, <1>6 DEF OwnRows
    <2>2. PointsUsed(u)' = PointsUsed(u)
      BY <1>3, <2>1, PointsAfter
    <2>3. Paying(u)' = Paying(u)
      BY <1>1, <1>6 DEF Paying, TypeOK
    <2> QED
      BY <1>4, <2>2, <2>3
  <1> QED
    BY <1>5, <1>6

\* Steps that raise no count and let nobody past the check of a key.
LEMMA KeysQuiet ==
    ASSUME TypeOK, KeysBounded, keyCount' = keyCount,
           \A k \in Keys : Keyed(k)' \subseteq Keyed(k)
    PROVE  KeysBounded'
  <1> SUFFICES ASSUME NEW k \in Keys
               PROVE  keyCount'[k] + Cardinality(Keyed(k)') <= KeyLimit - 1 + MaxConcurrent
    BY DEF KeysBounded
  <1>1. IsFiniteSet(Keyed(k)) /\ Cardinality(Keyed(k)) \in Nat
    BY AllowanceFinite
  <1>2. IsFiniteSet(Keyed(k)') /\ Cardinality(Keyed(k)') <= Cardinality(Keyed(k))
    BY <1>1, FS_Subset
  <1>3. Cardinality(Keyed(k)') \in Nat /\ keyCount[k] \in Nat
    BY <1>2, FS_CardinalityType DEF TypeOK
  <1>4. keyCount[k] + Cardinality(Keyed(k)) <= KeyLimit - 1 + MaxConcurrent
    BY DEF KeysBounded
  <1> QED
    BY <1>1, <1>2, <1>3, <1>4, LimitAssumption

\* authenticateRequest: below the limit, and all who are past it are open.
LEMMA KeysChecked ==
    ASSUME TypeOK, TypeOK', KeysBounded, ConcurrencyBounded',
           NEW r \in Requests, Authenticate(r)
    PROVE  KeysBounded'
  <1> SUFFICES ASSUME NEW k \in Keys
               PROVE  keyCount'[k] + Cardinality(Keyed(k)') <= KeyLimit - 1 + MaxConcurrent
    BY DEF KeysBounded
  <1>1. keyCount' = keyCount /\ keyCount[k] \in Nat
    BY DEF Authenticate, tableVars, TypeOK
  <1>2. IsFiniteSet(Keyed(k)) /\ Cardinality(Keyed(k)) \in Nat
    BY AllowanceFinite
  <1>3. /\ Cardinality(Keyed(k)') \in Nat
        /\ Cardinality(Keyed(k)') <= MaxConcurrent
    <2>1. Active' \in SUBSET Requests /\ Keyed(k)' \in SUBSET Active'
      BY DEF Active, Keyed
    <2>2. IsFiniteSet(Active')
      BY <2>1, FS_Subset, LimitAssumption
    <2>3. IsFiniteSet(Keyed(k)') /\ Cardinality(Keyed(k)') <= Cardinality(Active')
      BY <2>1, <2>2, FS_Subset
    <2>4. Cardinality(Active') <= MaxConcurrent
      BY DEF ConcurrencyBounded
    <2>5. Cardinality(Active') \in Nat /\ Cardinality(Keyed(k)') \in Nat
      BY <2>2, <2>3, FS_CardinalityType
    <2> QED
      BY <2>3, <2>4, <2>5, LimitAssumption
  <1>4. CASE keyCount[k] < KeyLimit
    BY <1>1, <1>3, <1>4, LimitAssumption
  <1>5. CASE ~(keyCount[k] < KeyLimit)
    <2>1. Keyed(k)' \subseteq Keyed(k)
      BY <1>1, <1>5, LimitAssumption, AccountAssumption
         DEF Authenticate, Keyed, TypeOK, Return, Goto, reqVars, writeVars
    <2>2. Cardinality(Keyed(k)') <= Cardinality(Keyed(k))
      BY <1>2, <2>1, FS_Subset
    <2>3. keyCount[k] + Cardinality(Keyed(k)) <= KeyLimit - 1 + MaxConcurrent
      BY DEF KeysBounded
    <2> QED
      BY <1>1, <1>2, <1>3, <2>2, <2>3, LimitAssumption
  <1> QED
    BY <1>4, <1>5

\* A unit takes the place of the admission it completes.
LEMMA KeysCharged ==
    ASSUME TypeOK, KeysBounded, NEW r \in Requests, WriteSucceeds(r, "key")
    PROVE  KeysBounded'
  <1> SUFFICES ASSUME NEW k \in Keys
               PROVE  keyCount'[k] + Cardinality(Keyed(k)') <= KeyLimit - 1 + MaxConcurrent
    BY DEF KeysBounded
  <1>1. /\ pc[r] = "persist" /\ "key" \in pending[r]
        /\ pending' = [pending EXCEPT ![r] = pending[r] \ {"key"}]
        /\ pc' = [pc EXCEPT ![r] = "done"] \/ UNCHANGED pc
        /\ key' = key
        /\ keyCount' = [keyCount EXCEPT ![key[r]] = keyCount[key[r]] + 1]
    BY DEF WriteSucceeds, Settle, Effect, Return, Goto, reqVars
  <1>2. IsFiniteSet(Keyed(k)) /\ Cardinality(Keyed(k)) \in Nat /\ keyCount[k] \in Nat
    BY AllowanceFinite DEF TypeOK
  <1>3. keyCount[k] + Cardinality(Keyed(k)) <= KeyLimit - 1 + MaxConcurrent
    BY DEF KeysBounded
  <1>4. CASE key[r] = k
    <2>1. Keyed(k)' = Keyed(k) \ {r} /\ r \in Keyed(k)
      BY <1>1, <1>4 DEF Keyed, TypeOK
    <2>2. Cardinality(Keyed(k)') = Cardinality(Keyed(k)) - 1
      BY <1>2, <2>1, FS_RemoveElement
    <2>3. keyCount'[k] = keyCount[k] + 1
      BY <1>1, <1>4 DEF TypeOK
    <2> QED
      BY <1>2, <1>3, <2>2, <2>3
  <1>5. CASE key[r] # k
    <2>1. Keyed(k)' = Keyed(k) /\ keyCount'[k] = keyCount[k]
      BY <1>1, <1>5 DEF Keyed, TypeOK
    <2> QED
      BY <1>3, <2>1
  <1> QED
    BY <1>4, <1>5

\* No step but the check of the points admits a request past that check.
LEMMA NobodyPays ==
    ASSUME TypeOK, PendingOwned, NEW r \in Requests, NEW u \in Users \ Admins,
           \/ Arrive(r) \/ RejectCredential(r) \/ Authenticate(r) \/ CheckBanned(r)
           \/ Validate(r) \/ CheckDaily(r) \/ Route(r) \/ CallSucceedsStream(r)
           \/ TeeFails(r) \/ CallRetries(r) \/ CallFails(r) \/ CallSucceedsJson(r)
           \/ DrainEnds(r) \/ WriteFailureLog(r) \/ DrainAborts(r) \/ DrainBreaks(r)
           \/ Evict(r)
    PROVE  Paying(u)' \subseteq Paying(u)
  <1>1. CASE Arrive(r)
    BY <1>1, AccountAssumption
       DEF Arrive, Paying, PendingOwned, TypeOK, Return, Goto, reqVars, writeVars
  <1>2. CASE RejectCredential(r) \/ Authenticate(r) \/ CheckBanned(r)
    BY <1>2, AccountAssumption
       DEF RejectCredential, Authenticate, CheckBanned, Paying, PendingOwned,
       TypeOK, Return, Goto, reqVars, writeVars
  <1>3. CASE Validate(r)
    BY <1>3, AccountAssumption
       DEF Validate, Paying, PendingOwned, TypeOK, Return, Goto, reqVars, writeVars
  <1>4. CASE CheckDaily(r)
    BY <1>4, AccountAssumption
       DEF CheckDaily, Paying, PendingOwned, TypeOK, Return, Goto, reqVars,
       writeVars
  <1>5. CASE Route(r)
    BY <1>5, AccountAssumption
       DEF Route, Paying, PendingOwned, TypeOK, Return, Goto, reqVars, writeVars
  <1>6. CASE CallSucceedsStream(r) \/ TeeFails(r)
    BY <1>6, AccountAssumption
       DEF CallSucceedsStream, TeeFails, Paying, PendingOwned, TypeOK, Return, Goto,
       reqVars, writeVars
  <1>7. CASE CallRetries(r) \/ CallFails(r)
    BY <1>7, AccountAssumption
       DEF CallRetries, CallFails, Paying, PendingOwned, TypeOK, Return, Goto,
       reqVars, writeVars
  <1>8. CASE CallSucceedsJson(r)
    BY <1>8, AccountAssumption
       DEF CallSucceedsJson, BeginPersist, LedgerWrites, Paying, PendingOwned,
       TypeOK, Return, Goto, reqVars, writeVars
  <1>9. CASE DrainEnds(r)
    BY <1>9, AccountAssumption
       DEF DrainEnds, BeginPersist, LedgerWrites, Paying, PendingOwned, TypeOK,
       Return, Goto, reqVars, writeVars
  <1>10. CASE WriteFailureLog(r) \/ DrainAborts(r)
    BY <1>10, AccountAssumption
       DEF WriteFailureLog, DrainAborts, Paying, PendingOwned, TypeOK, Return, Goto,
       reqVars, writeVars
  <1>11. CASE DrainBreaks(r) \/ Evict(r)
    BY <1>11, AccountAssumption
       DEF DrainBreaks, Evict, Paying, PendingOwned, TypeOK, Return, Goto, reqVars,
       writeVars
  <1> QED
    BY <1>1, <1>2, <1>3, <1>4, <1>5, <1>6, <1>7, <1>8, <1>9, <1>10, <1>11

\* No step but authentication admits a request past the check of its key.
LEMMA NobodyKeyed ==
    ASSUME TypeOK, PendingOwned, NEW r \in Requests, NEW k \in Keys,
           \/ Arrive(r) \/ RejectCredential(r) \/ CheckBanned(r) \/ Validate(r)
           \/ CheckDaily(r) \/ CheckPoints(r) \/ Route(r) \/ CallSucceedsStream(r)
           \/ TeeFails(r) \/ CallRetries(r) \/ CallFails(r) \/ CallSucceedsJson(r)
           \/ DrainEnds(r) \/ WriteFailureLog(r) \/ DrainAborts(r) \/ DrainBreaks(r)
           \/ Evict(r)
    PROVE  Keyed(k)' \subseteq Keyed(k)
  <1>1. CASE Arrive(r)
    BY <1>1, AccountAssumption
       DEF Arrive, Keyed, PendingOwned, TypeOK, Return, Goto, reqVars, writeVars
  <1>2. CASE RejectCredential(r) \/ CheckBanned(r)
    BY <1>2, AccountAssumption
       DEF RejectCredential, CheckBanned, Keyed, PendingOwned, TypeOK, Return, Goto,
       reqVars, writeVars
  <1>3. CASE Validate(r)
    BY <1>3, AccountAssumption
       DEF Validate, Keyed, PendingOwned, TypeOK, Return, Goto, reqVars, writeVars
  <1>4. CASE CheckDaily(r) \/ CheckPoints(r)
    BY <1>4, AccountAssumption
       DEF CheckDaily, CheckPoints, Keyed, PendingOwned, TypeOK, Return, Goto,
       reqVars, writeVars
  <1>5. CASE Route(r)
    BY <1>5, AccountAssumption
       DEF Route, Keyed, PendingOwned, TypeOK, Return, Goto, reqVars, writeVars
  <1>6. CASE CallSucceedsStream(r) \/ TeeFails(r)
    BY <1>6, AccountAssumption
       DEF CallSucceedsStream, TeeFails, Keyed, PendingOwned, TypeOK, Return, Goto,
       reqVars, writeVars
  <1>7. CASE CallRetries(r) \/ CallFails(r)
    BY <1>7, AccountAssumption
       DEF CallRetries, CallFails, Keyed, PendingOwned, TypeOK, Return, Goto,
       reqVars, writeVars
  <1>8. CASE CallSucceedsJson(r)
    BY <1>8, AccountAssumption
       DEF CallSucceedsJson, BeginPersist, LedgerWrites, Keyed, PendingOwned,
       TypeOK, Return, Goto, reqVars, writeVars
  <1>9. CASE DrainEnds(r)
    BY <1>9, AccountAssumption
       DEF DrainEnds, BeginPersist, LedgerWrites, Keyed, PendingOwned, TypeOK,
       Return, Goto, reqVars, writeVars
  <1>10. CASE WriteFailureLog(r) \/ DrainAborts(r)
    BY <1>10, AccountAssumption
       DEF WriteFailureLog, DrainAborts, Keyed, PendingOwned, TypeOK, Return, Goto,
       reqVars, writeVars
  <1>11. CASE DrainBreaks(r) \/ Evict(r)
    BY <1>11, AccountAssumption
       DEF DrainBreaks, Evict, Keyed, PendingOwned, TypeOK, Return, Goto, reqVars,
       writeVars
  <1> QED
    BY <1>1, <1>2, <1>3, <1>4, <1>5, <1>6, <1>7, <1>8, <1>9, <1>10, <1>11

\* No step but a write that succeeds changes what is spent or counted, and a
\* request is charged one of the charges a completion can cost.
LEMMA CostStep ==
    ASSUME TypeOK, CostBounded, NEW r \in Requests,
           \/ Arrive(r) \/ RejectCredential(r) \/ Authenticate(r) \/ CheckBanned(r)
           \/ Validate(r) \/ CheckDaily(r) \/ CheckPoints(r) \/ Route(r)
           \/ CallSucceedsStream(r) \/ TeeFails(r) \/ CallRetries(r) \/ CallFails(r)
           \/ CallSucceedsJson(r) \/ DrainEnds(r) \/ WriteFailureLog(r) \/ DrainAborts(r)
           \/ DrainBreaks(r) \/ Evict(r)
    PROVE  CostBounded' /\ usageRows' = usageRows /\ keyCount' = keyCount
  <1>1. CASE CallSucceedsJson(r) \/ DrainEnds(r)
    <2>1. PICK c \in Charges : cost' = [cost EXCEPT ![r] = c]
      BY <1>1 DEF CallSucceedsJson, DrainEnds, BeginPersist
    <2>2. pending' = [pending EXCEPT ![r] = LedgerWrites(r)]
      BY <1>1 DEF CallSucceedsJson, DrainEnds, BeginPersist
    <2>3. usageRows' = usageRows /\ keyCount' = keyCount
      BY <1>1 DEF CallSucceedsJson, DrainEnds, tableVars
    <2>4. cost'[r] <= MaxCharge
      BY <2>1, MaxChargeFact DEF TypeOK
    <2>5. \A q \in Requests \ {r} : cost'[q] = cost[q] /\ pending'[q] = pending[q]
      BY <2>1, <2>2 DEF TypeOK
    <2> QED
      BY <2>3, <2>4, <2>5 DEF CostBounded
  <1>2. CASE ~(CallSucceedsJson(r) \/ DrainEnds(r))
    <2>1. cost' = cost /\ usageRows' = usageRows /\ keyCount' = keyCount
      BY <1>2
         DEF Arrive, RejectCredential, Authenticate, CheckBanned, Validate,
         CheckDaily, CheckPoints, Route, CallSucceedsStream, TeeFails, CallRetries,
         CallFails, WriteFailureLog, DrainAborts, DrainBreaks, Evict, writeVars,
         tableVars
    <2>2. \/ pending' = pending
          \/ pending' = [pending EXCEPT ![r] = {"errlog"}]
          \/ pending' = [pending EXCEPT ![r] = {}]
      BY <1>2
         DEF Arrive, RejectCredential, Authenticate, CheckBanned, Validate,
         CheckDaily, CheckPoints, Route, CallSucceedsStream, TeeFails, CallRetries,
         CallFails, WriteFailureLog, DrainAborts, DrainBreaks, Evict, writeVars
    <2>3. ASSUME NEW q \in Requests, "usage" \in pending'[q]
          PROVE  "usage" \in pending[q]
      <3>1. pending'[q] = pending[q] \/ pending'[q] = {"errlog"} \/ pending'[q] = {}
        BY <2>2 DEF TypeOK
      <3> QED
        BY <2>3, <3>1
    <2> QED
      BY <2>1, <2>3 DEF CostBounded
  <1> QED
    BY <1>1, <1>2

\* A write that succeeds spends, or counts, what was admitted.
LEMMA AllowanceSuccess ==
    ASSUME TypeOK, TypeOK', UsageLedger, AllowanceInv,
           NEW r \in Requests, NEW w \in Writes, WriteSucceeds(r, w)
    PROVE  AllowanceInv'
  <1>1. /\ pc' = [pc EXCEPT ![r] = "done"] \/ UNCHANGED pc
        /\ pending' = [pending EXCEPT ![r] = pending[r] \ {w}]
        /\ pc[r] = "persist" /\ w \in pending[r]
        /\ UNCHANGED <<user, key, cost>>
    BY DEF WriteSucceeds, Settle, Return, Goto, reqVars
  <1>2. CostBounded'
    BY <1>1 DEF AllowanceInv, CostBounded, TypeOK
  <1>3. PointsBounded'
    <2>1. CASE w = "usage"
      BY <2>1, PointsCharged DEF AllowanceInv
    <2>2. CASE w # "usage"
      <3>1. usageRows' = usageRows
        BY <2>2 DEF WriteSucceeds, Effect, Writes
      <3>2. \A u \in Users \ Admins : Paying(u)' \subseteq Paying(u)
        BY <1>1 DEF Paying, TypeOK
      <3> QED
        BY <3>1, <3>2, PointsQuiet DEF AllowanceInv
    <2> QED
      BY <2>1, <2>2
  <1>4. KeysBounded'
    <2>1. CASE w = "key"
      BY <2>1, KeysCharged DEF AllowanceInv
    <2>2. CASE w # "key"
      <3>1. keyCount' = keyCount
        BY <2>2 DEF WriteSucceeds, Effect, Writes
      <3>2. \A k \in Keys : Keyed(k)' \subseteq Keyed(k)
        BY <1>1 DEF Keyed, TypeOK
      <3> QED
        BY <3>1, <3>2, KeysQuiet DEF AllowanceInv
    <2> QED
      BY <2>1, <2>2
  <1> QED
    BY <1>2, <1>3, <1>4 DEF AllowanceInv

\* A write that fails gives its admission up.
LEMMA AllowanceFailure ==
    ASSUME TypeOK, AllowanceInv,
           NEW r \in Requests, NEW w \in Writes, WriteFails(r, w)
    PROVE  AllowanceInv'
  <1>1. /\ pc[r] = "persist" /\ pc'[r] \in {"persist", "done"}
        /\ \A x \in pending'[r] : x \in pending[r] \/ x = "errlog"
        /\ \A q \in Requests \ {r} : pc'[q] = pc[q] /\ pending'[q] = pending[q]
        /\ UNCHANGED <<user, key, cost, usageRows, keyCount>>
    BY DEF WriteFails, Goto, TypeOK, reqVars, tableVars
  <1>2. \A q \in Requests : /\ "usage" \in pending'[q] => "usage" \in pending[q]
                            /\ "key" \in pending'[q] => "key" \in pending[q]
    BY <1>1
  <1>3. /\ \A u \in Users \ Admins : Paying(u)' \subseteq Paying(u)
        /\ \A k \in Keys : Keyed(k)' \subseteq Keyed(k)
    BY <1>1, <1>2 DEF Paying, Keyed
  <1>4. CostBounded'
    BY <1>1, <1>2 DEF AllowanceInv, CostBounded
  <1> QED
    BY <1>1, <1>3, <1>4, PointsQuiet, KeysQuiet DEF AllowanceInv

\* Every step keeps what is spent and what is admitted within the bounds.
LEMMA AllowanceStep == TypeOK /\ TypeOK' /\ PendingOwned /\ UsageLedger
                          /\ ConcurrencyBounded' /\ AllowanceInv /\ [Next]_vars
                             => AllowanceInv'
  <1> SUFFICES ASSUME TypeOK, TypeOK', PendingOwned, UsageLedger, ConcurrencyBounded',
                      AllowanceInv, [Next]_vars
               PROVE  AllowanceInv'
    OBVIOUS
  <1>1. ASSUME NEW r \in Requests,
               \/ Arrive(r) \/ RejectCredential(r) \/ CheckBanned(r) \/ Validate(r)
               \/ CheckDaily(r) \/ Route(r) \/ CallSucceedsStream(r) \/ TeeFails(r)
               \/ CallRetries(r) \/ CallFails(r) \/ CallSucceedsJson(r) \/ DrainEnds(r)
               \/ WriteFailureLog(r) \/ DrainAborts(r) \/ DrainBreaks(r) \/ Evict(r)
        PROVE  AllowanceInv'
    <2>1. CostBounded' /\ usageRows' = usageRows /\ keyCount' = keyCount
      BY <1>1, CostStep DEF AllowanceInv
    <2>2. \A u \in Users \ Admins : Paying(u)' \subseteq Paying(u)
      BY <1>1, NobodyPays
    <2>3. \A k \in Keys : Keyed(k)' \subseteq Keyed(k)
      BY <1>1, NobodyKeyed
    <2> QED
      BY <2>1, <2>2, <2>3, PointsQuiet, KeysQuiet DEF AllowanceInv
  <1>2. ASSUME NEW r \in Requests, Authenticate(r) PROVE AllowanceInv'
    <2>1. CostBounded' /\ usageRows' = usageRows
      BY <1>2, CostStep DEF AllowanceInv
    <2>2. \A u \in Users \ Admins : Paying(u)' \subseteq Paying(u)
      BY <1>2, NobodyPays
    <2> QED
      BY <1>2, <2>1, <2>2, PointsQuiet, KeysChecked DEF AllowanceInv
  <1>3. ASSUME NEW r \in Requests, CheckPoints(r) PROVE AllowanceInv'
    <2>1. CostBounded' /\ keyCount' = keyCount
      BY <1>3, CostStep DEF AllowanceInv
    <2>2. \A k \in Keys : Keyed(k)' \subseteq Keyed(k)
      BY <1>3, NobodyKeyed
    <2> QED
      BY <1>3, <2>1, <2>2, PointsChecked, KeysQuiet DEF AllowanceInv
  <1>4. ASSUME NEW r \in Requests, NEW w \in Writes, WriteSucceeds(r, w)
        PROVE  AllowanceInv'
    BY <1>4, AllowanceSuccess
  <1>5. ASSUME NEW r \in Requests, NEW w \in Writes, WriteFails(r, w)
        PROVE  AllowanceInv'
    BY <1>5, AllowanceFailure
  <1>6. CASE (\E u \in Users : Ban(u)) \/ Midnight \/ UNCHANGED vars
    <2>1. UNCHANGED <<pc, user, key, pending, cost, usageRows, keyCount>>
      BY <1>6 DEF Ban, Midnight, vars, reqVars, writeVars, tableVars
    <2>2. /\ \A u \in Users \ Admins : Paying(u)' \subseteq Paying(u)
          /\ \A k \in Keys : Keyed(k)' \subseteq Keyed(k)
          /\ CostBounded'
      BY <2>1 DEF Paying, Keyed, AllowanceInv, CostBounded
    <2> QED
      BY <2>1, <2>2, PointsQuiet, KeysQuiet DEF AllowanceInv
  <1> QED
    BY <1>1, <1>2, <1>3, <1>4, <1>5, <1>6 DEF Next, Serve, Finished

\* Initially nothing is spent and nobody is admitted.
LEMMA AllowanceInit == Init => AllowanceInv
  <1> SUFFICES ASSUME Init PROVE AllowanceInv
    OBVIOUS
  <1>1. TypeOK
    BY TypeInit
  <1>2. CostBounded
    BY DEF Init, CostBounded
  <1>3. PointsBounded
    <2> SUFFICES ASSUME NEW u \in Users \ Admins
                 PROVE  PointsUsed(u) + Cardinality(Paying(u)) * MaxCharge
                          <= PointLimit - 1 + MaxConcurrent * MaxCharge
      BY DEF PointsBounded
    <2>1. Paying(u) = {} /\ OwnRows(u) = {}
      BY DEF Init, Paying, OwnRows
    <2>2. Cardinality(Paying(u)) = 0 /\ PointsUsed(u) = 0
      BY <1>1, <2>1, AllowanceFinite, PointsStep, FS_EmptySet
    <2>3. MaxCharge \in Nat /\ 0 * MaxCharge = 0 /\ MaxConcurrent * MaxCharge \in Nat
      BY MaxChargeFact, TimesMonotone, LimitAssumption
    <2> QED
      BY <2>2, <2>3, LimitAssumption
  <1>4. KeysBounded
    <2> SUFFICES ASSUME NEW k \in Keys
                 PROVE  keyCount[k] + Cardinality(Keyed(k)) <= KeyLimit - 1 + MaxConcurrent
      BY DEF KeysBounded
    <2>1. Keyed(k) = {} /\ keyCount[k] = 0
      BY DEF Init, Keyed
    <2> QED
      BY <2>1, FS_EmptySet, LimitAssumption
  <1> QED
    BY <1>2, <1>3, <1>4 DEF AllowanceInv

\* What is spent is below the limit plus the charges of those admitted at once.
LEMMA AllowanceFromInv == TypeOK /\ AllowanceInv => AllowanceOvershootBounded
  <1> SUFFICES ASSUME TypeOK, AllowanceInv PROVE AllowanceOvershootBounded
    OBVIOUS
  <1>1. ASSUME NEW u \in Users \ Admins
        PROVE  PointsUsed(u) <= PointLimit - 1 + MaxConcurrent * MaxCharge
    <2>1. PointsUsed(u) \in Nat /\ Cardinality(Paying(u)) \in Nat
      BY AllowanceFinite
    <2>2. /\ Cardinality(Paying(u)) * MaxCharge \in Nat
          /\ MaxConcurrent * MaxCharge \in Nat
      BY <2>1, TimesMonotone, MaxChargeFact, LimitAssumption
    <2>3. PointsUsed(u) + Cardinality(Paying(u)) * MaxCharge
            <= PointLimit - 1 + MaxConcurrent * MaxCharge
      BY DEF AllowanceInv, PointsBounded
    <2> QED
      BY <2>1, <2>2, <2>3, LimitAssumption
  <1>2. ASSUME NEW k \in Keys PROVE keyCount[k] <= KeyLimit - 1 + MaxConcurrent
    <2>1. keyCount[k] \in Nat /\ Cardinality(Keyed(k)) \in Nat
      BY AllowanceFinite DEF TypeOK
    <2>2. keyCount[k] + Cardinality(Keyed(k)) <= KeyLimit - 1 + MaxConcurrent
      BY DEF AllowanceInv, KeysBounded
    <2> QED
      BY <2>1, <2>2, LimitAssumption
  <1> QED
    BY <1>1, <1>2 DEF AllowanceOvershootBounded, MaxCharge

\* The points of a month and the count of a key are overshot by less than what
\* the requests open at once can cost, for any limit and any charges.
THEOREM AllowanceOvershoot == Spec => []AllowanceOvershootBounded
  <1>1. Init => AllowanceInv
    BY AllowanceInit
  <1>2. GatewayInv /\ GatewayInv' /\ AllowanceInv /\ [Next]_vars => AllowanceInv'
    BY AllowanceStep DEF GatewayInv
  <1>3. GatewayInv /\ AllowanceInv => AllowanceOvershootBounded
    BY AllowanceFromInv DEF GatewayInv
  <1> QED
    BY <1>1, <1>2, <1>3, GatewayInvariant, PTL DEF Spec

-----------------------------------------------------------------------------
(* The gateway implements MeteredService. *)

\* Who has nothing on the ledger has no charge; who has a row has one.
LEMMA ChargeOf ==
    ASSUME NEW r \in Requests
    PROVE  UsageOf(r) = {} => Cardinality(UsageOf(r)) = 0
  BY FS_EmptySet

\* A step that neither answers nor charges is invisible.
LEMMA MeteredQuiet ==
    ASSUME UNCHANGED <<reply, usageRows>>
    PROVE  UNCHANGED Metered!vars
  BY DEF Metered!vars, Outcome, UsageOf

\* A step that answers an open request serves it, or refuses it uncharged.
LEMMA MeteredAnswer ==
    ASSUME TypeOK, UsageLedger, NEW r \in Requests, NEW s \in Replies,
           reply' = [reply EXCEPT ![r] = s], usageRows' = usageRows,
           \/ reply[r] = s
           \/ reply[r] = "none" /\ s = "ok"
           \/ reply[r] = "none" /\ pc[r] \notin {"persist", "done"}
    PROVE  [Metered!Next]_(Metered!vars)
  <1> DEFINE states == [q \in Requests |-> Outcome(q)]
             paid == [q \in Requests |-> Cardinality(UsageOf(q))]
  <1>1. paid' = paid
    BY DEF UsageOf
  <1>2. CASE reply[r] = s
    <2>1. reply' = reply
      BY <1>2 DEF TypeOK
    <2> QED
      BY <2>1, MeteredQuiet
  <1>3. CASE reply[r] = "none" /\ s = "ok"
    <2>1. states[r] = "open" /\ states' = [states EXCEPT ![r] = "served"]
      BY <1>3 DEF Outcome, TypeOK
    <2> QED
      BY <1>1, <2>1 DEF Metered!Next, Metered!Serve
  <1>4. CASE reply[r] = "none" /\ s \notin {"none", "ok"} /\ pc[r] \notin {"persist", "done"}
    <2>1. states[r] = "open" /\ states' = [states EXCEPT ![r] = "refused"]
      BY <1>4 DEF Outcome, TypeOK
    <2>2. UsageOf(r) = {}
      BY <1>4 DEF UsageLedger, UsageOf
    <2>3. paid[r] = 0
      BY <2>2, ChargeOf
    <2> QED
      BY <1>1, <2>1, <2>3 DEF Metered!Next, Metered!Refuse
  <1> QED
    BY <1>2, <1>3, <1>4

\* The usage write is the one charge of its request.
LEMMA MeteredCharge ==
    ASSUME TypeOK, UsageLedger, ReplyPhase,
           NEW r \in Requests, WriteSucceeds(r, "usage")
    PROVE  [Metered!Next]_(Metered!vars)
  <1> DEFINE states == [q \in Requests |-> Outcome(q)]
             paid == [q \in Requests |-> Cardinality(UsageOf(q))]
  <1>1. PICK new : usageRows' = usageRows \cup {new} /\ new.req = r
    BY UsageAppended
  <1>2. /\ pc[r] = "persist" /\ "usage" \in pending[r]
        /\ reply' = reply \/ reply' = [reply EXCEPT ![r] = "ok"]
    BY DEF WriteSucceeds, Settle, Return
  <1>3. reply[r] \in {"none", "ok"}
    BY <1>2 DEF ReplyPhase
  <1>4. states' = states \/ states' = [states EXCEPT ![r] = "served"]
    BY <1>2 DEF Outcome, TypeOK
  <1>5. states[r] # "refused"
    BY <1>3 DEF Outcome
  <1>6. UsageOf(r) = {}
    BY <1>2 DEF UsageLedger, UsageOf
  <1>7. paid[r] = 0
    BY <1>6, ChargeOf
  <1>8. paid' = [paid EXCEPT ![r] = 1]
    <2>1. UsageOf(r)' = {new}
      BY <1>1, <1>6 DEF UsageOf
    <2>2. Cardinality(UsageOf(r)') = 1
      BY <2>1, FS_Singleton
    <2>3. \A q \in Requests \ {r} : UsageOf(q)' = UsageOf(q)
      BY <1>1 DEF UsageOf
    <2> QED
      BY <2>2, <2>3
  <1> QED
    BY <1>4, <1>5, <1>7, <1>8 DEF Metered!Next, Metered!Charge

\* Every step of the gateway is a step of the abstract service or invisible.
LEMMA MeteredStep == TypeOK /\ UsageLedger /\ ReplyPhase /\ [Next]_vars
                        => [Metered!Next]_(Metered!vars)
  <1> SUFFICES ASSUME TypeOK, UsageLedger, ReplyPhase, [Next]_vars
               PROVE  [Metered!Next]_(Metered!vars)
    OBVIOUS
  <1> DEFINE Implemented == [Metered!Next]_(Metered!vars)
  <1>1. ASSUME NEW r \in Requests, Arrive(r) PROVE Implemented
    <2>1. UNCHANGED <<reply, usageRows>>
      BY <1>1 DEF Arrive, tableVars
    <2> QED
      BY <2>1, MeteredQuiet
  <1>2. ASSUME NEW r \in Requests, CallSucceedsJson(r) PROVE Implemented
    <2>1. UNCHANGED <<reply, usageRows>>
      BY <1>2 DEF CallSucceedsJson, tableVars
    <2> QED
      BY <2>1, MeteredQuiet
  <1>3. ASSUME NEW r \in Requests, CallRetries(r) PROVE Implemented
    <2>1. UNCHANGED <<reply, usageRows>>
      BY <1>3 DEF CallRetries, tableVars
    <2> QED
      BY <2>1, MeteredQuiet
  <1>4. ASSUME NEW r \in Requests, WriteFailureLog(r) PROVE Implemented
    <2>1. UNCHANGED <<reply, usageRows>>
      BY <1>4 DEF WriteFailureLog
    <2> QED
      BY <2>1, MeteredQuiet
  <1>5. ASSUME NEW r \in Requests, DrainEnds(r) PROVE Implemented
    <2>1. UNCHANGED <<reply, usageRows>>
      BY <1>5 DEF DrainEnds, tableVars
    <2> QED
      BY <2>1, MeteredQuiet
  <1>6. ASSUME NEW r \in Requests, DrainAborts(r) PROVE Implemented
    <2>1. UNCHANGED <<reply, usageRows>>
      BY <1>6 DEF DrainAborts, tableVars
    <2> QED
      BY <2>1, MeteredQuiet
  <1>7. ASSUME NEW r \in Requests, DrainBreaks(r) PROVE Implemented
    <2>1. UNCHANGED <<reply, usageRows>>
      BY <1>7 DEF DrainBreaks, tableVars
    <2> QED
      BY <2>1, MeteredQuiet
  <1>8. ASSUME NEW r \in Requests, Evict(r) PROVE Implemented
    <2>1. UNCHANGED <<reply, usageRows>>
      BY <1>8 DEF Evict, tableVars
    <2> QED
      BY <2>1, MeteredQuiet
  <1>9. ASSUME NEW r \in Requests, RejectCredential(r) PROVE Implemented
    <2>1. reply[r] = "none" /\ pc[r] \notin {"persist", "done"}
      BY <1>9 DEF RejectCredential, ReplyPhase
    <2>2. usageRows' = usageRows
      BY <1>9 DEF RejectCredential, tableVars
    <2>3. reply' = [reply EXCEPT ![r] = "denied"]
      BY <1>9 DEF RejectCredential, Return
    <2> QED
      BY <2>1, <2>2, <2>3, MeteredAnswer DEF Replies
  <1>10. ASSUME NEW r \in Requests, TeeFails(r) PROVE Implemented
    <2>1. reply[r] = "none" /\ pc[r] \notin {"persist", "done"}
      BY <1>10 DEF TeeFails, ReplyPhase
    <2>2. usageRows' = usageRows
      BY <1>10 DEF TeeFails, tableVars
    <2>3. reply' = [reply EXCEPT ![r] = "failed"]
      BY <1>10 DEF TeeFails, Return
    <2> QED
      BY <2>1, <2>2, <2>3, MeteredAnswer DEF Replies
  <1>11. ASSUME NEW r \in Requests, CallFails(r) PROVE Implemented
    <2>1. reply[r] = "none" /\ pc[r] \notin {"persist", "done"}
      BY <1>11 DEF CallFails, ReplyPhase
    <2>2. usageRows' = usageRows
      BY <1>11 DEF CallFails, tableVars
    <2>3. reply' = [reply EXCEPT ![r] = "failed"]
      BY <1>11 DEF CallFails
    <2> QED
      BY <2>1, <2>2, <2>3, MeteredAnswer DEF Replies
  <1>12. ASSUME NEW r \in Requests, CallSucceedsStream(r) PROVE Implemented
    <2>1. reply[r] = "none" /\ pc[r] \notin {"persist", "done"}
      BY <1>12 DEF CallSucceedsStream, ReplyPhase
    <2>2. usageRows' = usageRows
      BY <1>12 DEF CallSucceedsStream, tableVars
    <2>3. reply' = [reply EXCEPT ![r] = "ok"]
      BY <1>12 DEF CallSucceedsStream
    <2> QED
      BY <2>1, <2>2, <2>3, MeteredAnswer DEF Replies
  <1>13. ASSUME NEW r \in Requests, Authenticate(r) PROVE Implemented
    <2>1. reply[r] = "none" /\ pc[r] \notin {"persist", "done"}
      BY <1>13 DEF Authenticate, ReplyPhase
    <2>2. usageRows' = usageRows
      BY <1>13 DEF Authenticate, tableVars
    <2>3. reply' = reply \/ \E s \in {"quota"} : reply' = [reply EXCEPT ![r] = s]
      BY <1>13 DEF Authenticate, Return
    <2>4. CASE reply' = reply
      BY <2>2, <2>4, MeteredQuiet
    <2>5. CASE \E s \in {"quota"} : reply' = [reply EXCEPT ![r] = s]
      BY <2>1, <2>2, <2>5, MeteredAnswer DEF Replies
    <2> QED
      BY <2>3, <2>4, <2>5
  <1>14. ASSUME NEW r \in Requests, CheckBanned(r) PROVE Implemented
    <2>1. reply[r] = "none" /\ pc[r] \notin {"persist", "done"}
      BY <1>14 DEF CheckBanned, ReplyPhase
    <2>2. usageRows' = usageRows
      BY <1>14 DEF CheckBanned, tableVars
    <2>3. reply' = reply \/ \E s \in {"denied"} : reply' = [reply EXCEPT ![r] = s]
      BY <1>14 DEF CheckBanned, Return
    <2>4. CASE reply' = reply
      BY <2>2, <2>4, MeteredQuiet
    <2>5. CASE \E s \in {"denied"} : reply' = [reply EXCEPT ![r] = s]
      BY <2>1, <2>2, <2>5, MeteredAnswer DEF Replies
    <2> QED
      BY <2>3, <2>4, <2>5
  <1>15. ASSUME NEW r \in Requests, Validate(r) PROVE Implemented
    <2>1. reply[r] = "none" /\ pc[r] \notin {"persist", "done"}
      BY <1>15 DEF Validate, ReplyPhase
    <2>2. usageRows' = usageRows
      BY <1>15 DEF Validate, tableVars
    <2>3. reply' = reply \/ \E s \in {"unconfigured", "invalid"} : reply' = [reply EXCEPT ![r] = s]
      BY <1>15 DEF Validate, Return
    <2>4. CASE reply' = reply
      BY <2>2, <2>4, MeteredQuiet
    <2>5. CASE \E s \in {"unconfigured", "invalid"} : reply' = [reply EXCEPT ![r] = s]
      BY <2>1, <2>2, <2>5, MeteredAnswer DEF Replies
    <2> QED
      BY <2>3, <2>4, <2>5
  <1>16. ASSUME NEW r \in Requests, CheckDaily(r) PROVE Implemented
    <2>1. reply[r] = "none" /\ pc[r] \notin {"persist", "done"}
      BY <1>16 DEF CheckDaily, ReplyPhase
    <2>2. usageRows' = usageRows
      BY <1>16 DEF CheckDaily, tableVars
    <2>3. reply' = reply \/ \E s \in {"quota"} : reply' = [reply EXCEPT ![r] = s]
      BY <1>16 DEF CheckDaily, Return
    <2>4. CASE reply' = reply
      BY <2>2, <2>4, MeteredQuiet
    <2>5. CASE \E s \in {"quota"} : reply' = [reply EXCEPT ![r] = s]
      BY <2>1, <2>2, <2>5, MeteredAnswer DEF Replies
    <2> QED
      BY <2>3, <2>4, <2>5
  <1>17. ASSUME NEW r \in Requests, CheckPoints(r) PROVE Implemented
    <2>1. reply[r] = "none" /\ pc[r] \notin {"persist", "done"}
      BY <1>17 DEF CheckPoints, ReplyPhase
    <2>2. usageRows' = usageRows
      BY <1>17 DEF CheckPoints, tableVars
    <2>3. reply' = reply \/ \E s \in {"quota"} : reply' = [reply EXCEPT ![r] = s]
      BY <1>17 DEF CheckPoints, Return
    <2>4. CASE reply' = reply
      BY <2>2, <2>4, MeteredQuiet
    <2>5. CASE \E s \in {"quota"} : reply' = [reply EXCEPT ![r] = s]
      BY <2>1, <2>2, <2>5, MeteredAnswer DEF Replies
    <2> QED
      BY <2>3, <2>4, <2>5
  <1>18. ASSUME NEW r \in Requests, Route(r) PROVE Implemented
    <2>1. reply[r] = "none" /\ pc[r] \notin {"persist", "done"}
      BY <1>18 DEF Route, ReplyPhase
    <2>2. usageRows' = usageRows
      BY <1>18 DEF Route, tableVars
    <2>3. reply' = reply \/ \E s \in {"unconfigured"} : reply' = [reply EXCEPT ![r] = s]
      BY <1>18 DEF Route, Return
    <2>4. CASE reply' = reply
      BY <2>2, <2>4, MeteredQuiet
    <2>5. CASE \E s \in {"unconfigured"} : reply' = [reply EXCEPT ![r] = s]
      BY <2>1, <2>2, <2>5, MeteredAnswer DEF Replies
    <2> QED
      BY <2>3, <2>4, <2>5
  <1>19. ASSUME NEW r \in Requests, NEW w \in Writes, WriteSucceeds(r, w)
        PROVE  Implemented
    <2>1. CASE w = "usage"
      BY <1>19, <2>1, MeteredCharge
    <2>2. CASE w # "usage"
      <3>1. usageRows' = usageRows
        BY <1>19, <2>2 DEF WriteSucceeds, Effect, Writes
      <3>2. reply[r] \in {"none", "ok"}
        BY <1>19 DEF WriteSucceeds, ReplyPhase
      <3>3. reply' = reply \/ reply' = [reply EXCEPT ![r] = "ok"]
        BY <1>19 DEF WriteSucceeds, Settle, Return
      <3>4. CASE reply' = reply
        BY <3>1, <3>4, MeteredQuiet
      <3>5. CASE reply' = [reply EXCEPT ![r] = "ok"]
        BY <3>1, <3>2, <3>5, MeteredAnswer DEF Replies
      <3> QED
        BY <3>3, <3>4, <3>5
    <2> QED
      BY <2>1, <2>2
  <1>20. ASSUME NEW r \in Requests, NEW w \in Writes, WriteFails(r, w)
        PROVE  Implemented
    <2>1. reply[r] \in {"none", "ok"} /\ usageRows' = usageRows
      BY <1>20 DEF WriteFails, ReplyPhase, tableVars
    <2>2. reply' = [reply EXCEPT ![r] = "ok"]
      BY <1>20 DEF WriteFails
    <2> QED
      BY <2>1, <2>2, MeteredAnswer DEF Replies
  <1>21. ASSUME NEW u \in Users, Ban(u) PROVE Implemented
    BY <1>21, MeteredQuiet DEF Ban, tableVars
  <1>22. CASE Midnight
    BY <1>22, MeteredQuiet DEF Midnight, tableVars
  <1>23. CASE UNCHANGED vars
    BY <1>23, MeteredQuiet DEF vars, tableVars
  <1> QED
    BY <1>1, <1>2, <1>3, <1>4, <1>5, <1>6, <1>7, <1>8, <1>9, <1>10, <1>11, <1>12, <1>13, <1>14, <1>15, <1>16, <1>17, <1>18, <1>19, <1>20, <1>21, <1>22, <1>23
       DEF Next, Serve, Finished

\* The gateway answers a request once, charges it at most once and never
\* charges one it refused: it implements MeteredService.
THEOREM GatewayIsMetered == Spec => ImplementsMetered
  <1>1. Init => Metered!Init
    <2> SUFFICES ASSUME Init PROVE Metered!Init
      OBVIOUS
    <2>1. \A r \in Requests : Outcome(r) = "open" /\ UsageOf(r) = {}
      BY DEF Init, Outcome, UsageOf
    <2>2. \A r \in Requests : Cardinality(UsageOf(r)) = 0
      BY <2>1, ChargeOf
    <2> QED
      BY <2>1, <2>2 DEF Metered!Init
  <1>2. GatewayInv /\ [Next]_vars => [Metered!Next]_(Metered!vars)
    BY MeteredStep DEF GatewayInv
  <1> QED
    BY <1>1, <1>2, GatewayInvariant, PTL DEF Spec, ImplementsMetered, Metered!Spec

-----------------------------------------------------------------------------
(* The windows of the quota and of the dashboard.                          *)

\* The recursive function that SumFunction evaluates.
Weights(g, w, S) ==
  g = [s \in SUBSET S |-> IF s = {} THEN 0 ELSE w[First(s)] + g[s \ {First(s)}]]

\* The sum is the value of that function.
LEMMA SumUnfolded ==
    ASSUME NEW w, NEW S, DOMAIN w = S
    PROVE  Windows!SumFunction(w) = (CHOOSE g : Weights(g, w, S))[S]
  BY DEF Windows!SumFunction, Windows!SumFunctionOnSet, Windows!FoldFunctionOnSet,
         Windows!MapThenFoldSet, Weights, First

\* The function exists for every finite set.
LEMMA WeightsExist ==
    ASSUME NEW S, IsFiniteSet(S), NEW w
    PROVE  \E g : Weights(g, w, S)
  <1> DEFINE Small(n) == {s \in SUBSET S : Cardinality(s) <= n}
             Step(g, s) == IF s = {} THEN 0 ELSE w[First(s)] + g[s \ {First(s)}]
             Good(n) == \E g : g = [s \in SUBSET S |-> g[s]]
                               /\ \A s \in Small(n) : g[s] = Step(g, s)
             Bad == {n \in Nat : ~Good(n)}
  <1>1. \A s \in SUBSET S : IsFiniteSet(s) /\ Cardinality(s) \in Nat
    BY FS_Subset, FS_CardinalityType
  <1>2. Bad = {}
    <2>1. SUFFICES ASSUME Bad # {} PROVE FALSE
      OBVIOUS
    <2>2. PICK n \in Bad : \A m \in Bad : n =< m
      <3> HIDE DEF Good
      <3> QED
        BY <2>1, LeastExists
    <2>3. CASE n = 0
      <3> DEFINE g == [s \in SUBSET S |-> 0]
      <3>1. ASSUME NEW s \in Small(0) PROVE g[s] = Step(g, s)
        <4>1. s = {}
          <5>1. Cardinality(s) = 0
            BY <1>1
          <5> QED
            BY <1>1, <5>1, FS_EmptySet
        <4> QED
          BY <4>1
      <3>2. Good(0)
        BY <3>1
      <3> QED
        BY <2>2, <2>3, <3>2
    <2>4. CASE n # 0
      <3>1. n - 1 \in Nat /\ n - 1 < n /\ n \in Nat
        BY <2>4
      <3>2. Good(n - 1)
        <4> HIDE DEF Good
        <4> QED
          BY <2>2, <3>1
      <3>3. PICK g : g = [s \in SUBSET S |-> g[s]] /\ \A s \in Small(n - 1) : g[s] = Step(g, s)
        BY <3>2
      <3> DEFINE h == [s \in SUBSET S |-> Step(g, s)]
      <3>4. ASSUME NEW s \in Small(n) PROVE h[s] = Step(h, s)
        <4>1. CASE s = {}
          BY <4>1
        <4>2. CASE s # {}
          <5> DEFINE rest == s \ {First(s)}
          <5>1. First(s) \in s
            BY <4>2, FirstInSet
          <5>2. Cardinality(rest) = Cardinality(s) - 1
            BY <1>1, <5>1, FS_RemoveElement
          <5>3. rest \in Small(n - 1)
            BY <1>1, <3>1, <5>2
          <5>4. h[rest] = g[rest]
            BY <3>3, <5>3
          <5> QED
            BY <4>2, <5>4
        <4> QED
          BY <4>1, <4>2
      <3>5. h = [s \in SUBSET S |-> h[s]]
        OBVIOUS
      <3>6. Good(n)
        <4> HIDE DEF h, Step, Small
        <4> QED
          BY <3>4, <3>5
      <3> QED
        BY <2>2, <3>6
    <2> QED
      BY <2>3, <2>4
  <1>3. Good(Cardinality(S))
    BY <1>1, <1>2
  <1>4. PICK g : g = [s \in SUBSET S |-> g[s]]
                 /\ \A s \in Small(Cardinality(S)) : g[s] = Step(g, s)
    BY <1>3
  <1>5. \A s \in SUBSET S : s \in Small(Cardinality(S))
    BY <1>1, FS_Subset
  <1>6. g = [s \in SUBSET S |-> Step(g, s)]
    <2>1. \A s \in SUBSET S : g[s] = Step(g, s)
      BY <1>4, <1>5
    <2> HIDE DEF Step
    <2> QED
      BY <1>4, <2>1
  <1> QED
    BY <1>6 DEF Weights

\* Naturals add up to a natural.
LEMMA SumIsNatural ==
    ASSUME NEW S, IsFiniteSet(S), NEW w \in [S -> Nat]
    PROVE  Windows!SumFunction(w) \in Nat
  <1> DEFINE g == CHOOSE f : Weights(f, w, S)
             Bad == {T \in SUBSET S : g[T] \notin Nat}
  <1>1. Weights(g, w, S)
    BY WeightsExist
  <1> HIDE DEF g
  <1>2. \A T \in Bad : IsFiniteSet(T)
    BY FS_Subset
  <1>3. Bad = {}
    <2>1. SUFFICES ASSUME Bad # {} PROVE FALSE
      OBVIOUS
    <2>2. PICK T \in Bad : \A R \in Bad : ~(R \subseteq T /\ R # T)
      <3> HIDE DEF Bad
      <3> QED
        BY <1>2, <2>1, SmallestSet
    <2>3. CASE T = {}
      BY <1>1, <2>3 DEF Weights
    <2>4. CASE T # {}
      <3>1. First(T) \in T
        BY <2>4, FirstInSet
      <3>2. g[T \ {First(T)}] \in Nat
        BY <2>2, <3>1
      <3>3. g[T] = w[First(T)] + g[T \ {First(T)}]
        BY <1>1, <2>4 DEF Weights
      <3> QED
        BY <3>1, <3>2, <3>3
    <2> QED
      BY <2>3, <2>4
  <1>4. g[S] \in Nat
    BY <1>3
  <1> QED
    BY <1>4, SumUnfolded DEF g

\* Every step of the user, of time and of his membership keeps the types.
LEMMA WindowsTypeStep ==
    ASSUME WindowsTypeOK, [Windows!Next]_windowVars
    PROVE  WindowsTypeOK'
  <1> USE PlansAssumption
      DEF WindowsTypeOK, Windows!TypeOK, Windows!QuotaAssumption, Windows!Ticks
  <1>1. CASE Windows!Call
    <2>1. PICK c \in PlanCharges :
              usage' = [usage EXCEPT ![now] = [requests |-> @.requests + 1, points |-> @.points + c]]
      BY <1>1 DEF Windows!Call
    <2>2. [requests |-> usage[now].requests + 1, points |-> usage[now].points + c]
              \in [requests : 0..MaxRows, points : Nat]
      BY <1>1, <2>1 DEF Windows!Call
    <2> QED
      BY <1>1, <2>1, <2>2 DEF Windows!Call
  <1>2. CASE Windows!Tick
    BY <1>2 DEF Windows!Tick
  <1>3. CASE Windows!SetMembership
    BY <1>3 DEF Windows!SetMembership
  <1>4. CASE Windows!SetRole
    <2>1. exempt' \in BOOLEAN
      BY <1>4 DEF Windows!SetRole
    <2> QED
      BY <1>4, <2>1 DEF Windows!SetRole
  <1>5. CASE UNCHANGED windowVars
    BY <1>5 DEF windowVars
  <1> QED
    BY <1>1, <1>2, <1>3, <1>4, <1>5 DEF Windows!Next

\* The quota and the dashboard count from the same tick.
LEMMA SameStart ==
    ASSUME WindowsTypeOK, NEW start
    PROVE  Windows!QuotaStart(start) = Windows!ShownStart(start)
  <1>1. until = Never \/ until \in Nat
    BY PlansAssumption DEF WindowsTypeOK, Windows!TypeOK, Windows!QuotaAssumption
  <1> QED
    BY <1>1 DEF Windows!QuotaStart, Windows!ShownStart, Windows!Lapsed, Windows!Transition,
                Windows!ShownPlan, Windows!Later

\* What is used is a number, from whatever tick it is counted.
LEMMA UsedIsNatural ==
    ASSUME WindowsTypeOK, NEW start
    PROVE  Windows!RequestsSince(start) \in Nat /\ Windows!PointsSince(start) \in Nat
  <1>1. IsFiniteSet(Windows!Since(start))
    <2>1. IsFiniteSet(0..MaxNow)
      BY PlansAssumption, FS_Interval DEF Windows!QuotaAssumption
    <2> QED
      BY <2>1, FS_Subset DEF Windows!Since, Windows!Ticks
  <1>2. \A t \in Windows!Since(start) : usage[t].requests \in Nat /\ usage[t].points \in Nat
    BY PlansAssumption
    DEF WindowsTypeOK, Windows!TypeOK, Windows!QuotaAssumption, Windows!Since
  <1>3. /\ [t \in Windows!Since(start) |-> usage[t].requests] \in [Windows!Since(start) -> Nat]
        /\ [t \in Windows!Since(start) |-> usage[t].points] \in [Windows!Since(start) -> Nat]
    BY <1>2
  <1> QED
    BY <1>1, <1>3, SumIsNatural DEF Windows!RequestsSince, Windows!PointsSince

\* Nothing is left of a limit exactly when it is reached.
LEMMA NothingLeft ==
    ASSUME NEW used \in Nat, NEW limit \in Nat \cup {NoLimit}
    PROVE  Windows!Left(used, limit) = 0 <=> Windows!Reached(used, limit)
  <1>1. NoLimit # 0
    BY PlansAssumption DEF Windows!QuotaAssumption
  <1> QED
    BY <1>1 DEF Windows!Left, Windows!Reached

\* The user's dashboard and the check of his next request agree, whatever the
\* plans, their limits, the clock and the changes of his membership: nothing is
\* shown as left exactly when the request is refused (dashboard/routes.js,
\* checkUserQuota in membership/membership.js).
THEOREM DashboardIsRight == PlansSpec => []DashboardAgrees
  <1>1. PlansInit => WindowsTypeOK
    <2> SUFFICES ASSUME PlansInit PROVE WindowsTypeOK
      OBVIOUS
    <2>1. [requests |-> 0, points |-> 0] \in [requests : 0..MaxRows, points : Nat]
      BY PlansAssumption DEF Windows!QuotaAssumption
    <2>2. exempt \in BOOLEAN
      BY DEF PlansInit, Windows!Init
    <2> QED
      BY <2>1, <2>2, PlansAssumption
      DEF PlansInit, Windows!Init, Windows!QuotaAssumption, Windows!Ticks, WindowsTypeOK,
          Windows!TypeOK
  <1>2. WindowsTypeOK /\ [PlansNext]_<<part, vars, windowVars, routerVars>> => WindowsTypeOK'
    BY WindowsTypeStep DEF PlansNext
  <1>3. WindowsTypeOK => DashboardAgrees
    <2> SUFFICES ASSUME WindowsTypeOK, ~exempt, Windows!ShownPlan \in Plans
                 PROVE  Windows!Refused <=> Windows!ShownDaily = 0 \/ Windows!ShownPoints = 0
      BY DEF DashboardAgrees, Windows!DashboardAgrees
    <2> DEFINE daily == Windows!DayStart(Windows!ShanghaiDay(now))
               monthly == Windows!DayStart(Windows!ShanghaiMonth(now))
               shown == Windows!ShownPlan
    <2>1. shown = IF Windows!Lapsed THEN "free" ELSE plan
      BY DEF Windows!ShownPlan, Windows!Lapsed
    <2>2. Windows!ShownDaily = 0
            <=> Windows!Reached(Windows!RequestsSince(Windows!QuotaStart(daily)), Limits[shown].daily)
      BY SameStart, UsedIsNatural, NothingLeft, PlansAssumption
      DEF Windows!ShownDaily, Windows!QuotaAssumption
    <2>3. Windows!ShownPoints = 0
            <=> Windows!Reached(Windows!PointsSince(Windows!QuotaStart(monthly)), Limits[shown].points)
      BY SameStart, UsedIsNatural, NothingLeft, PlansAssumption
      DEF Windows!ShownPoints, Windows!QuotaAssumption
    <2> QED
      BY <2>1, <2>2, <2>3 DEF Windows!Refused
  <1> QED
    BY <1>1, <1>2, <1>3, PTL DEF PlansSpec


-----------------------------------------------------------------------------
(* The router: sequences in order.                                         *)

\* A function on the first n naturals is a list.
LEMMA ListFact ==
    ASSUME NEW S, NEW n \in Nat, NEW f \in [1 .. n -> S]
    PROVE  f \in Seq(S) /\ Len(f) = n /\ DOMAIN f = 1 .. n
  <1>1. f \in Seq(S)
    BY SeqDef
  <1> QED
    BY <1>1, LenProperties

\* R orders S strictly and totally.
Orders(R, S) ==
  /\ \A a \in S : <<a, a>> \notin R
  /\ \A a, b \in S : a # b => <<a, b>> \in R \/ <<b, a>> \in R
  /\ \A a, b, c \in S : <<a, b>> \in R /\ <<b, c>> \in R => <<a, c>> \in R

\* s holds the elements of S in the order R.
InOrder(s, S, R) ==
  /\ s \in [1 .. Cardinality(S) -> S]
  /\ Router!ToSet(s) = S
  /\ \A i, j \in DOMAIN s : i < j => <<s[i], s[j]>> \in R

\* Cardinality means the same in the instance (FiniteSets).
LEMMA RouterCardinality == ASSUME NEW S PROVE Router!Cardinality(S) = Cardinality(S)
  BY DEF Cardinality, Router!Cardinality

\* A finite set in a strict total order has a last element.
LEMMA LastExists ==
    ASSUME NEW S, IsFiniteSet(S), S # {}, NEW R, Orders(R, S)
    PROVE  \E m \in S : \A x \in S \ {m} : <<x, m>> \in R
  <1> DEFINE Last(T, m) == \A x \in T \ {m} : <<x, m>> \in R
             Bad == {T \in (SUBSET S) \ {{}} : ~\E m \in T : Last(T, m)}
  <1>1. SUFFICES ASSUME Bad # {} PROVE FALSE
    OBVIOUS
  <1>2. \A T \in Bad : IsFiniteSet(T)
    BY FS_Subset
  <1>3. PICK T \in Bad : \A P \in Bad : ~(P \subseteq T /\ P # T)
    <2> HIDE DEF Bad
    <2> QED
      BY <1>1, <1>2, SmallestSet
  <1>4. PICK x \in T : TRUE
    OBVIOUS
  <1>5. CASE T = {x}
    BY <1>5
  <1>6. CASE T # {x}
    <2>1. T \ {x} # {} /\ T \ {x} \subseteq T /\ T \ {x} # T
      BY <1>6
    <2>2. PICK m \in T \ {x} : Last(T \ {x}, m)
      BY <1>3, <2>1
    <2>3. x \in S /\ m \in S /\ x # m /\ T \subseteq S
      BY <2>2
    <2>4. CASE <<x, m>> \in R
      BY <2>2, <2>4
    <2>5. CASE <<m, x>> \in R
      <3>1. \A y \in T \ {x} : <<y, x>> \in R
        BY <2>2, <2>3, <2>5 DEF Orders
      <3> QED
        BY <3>1
    <2> QED
      BY <2>3, <2>4, <2>5 DEF Orders
  <1> QED
    BY <1>5, <1>6

\* Every finite set in a strict total order can be written down in that order.
LEMMA OrderExists ==
    ASSUME NEW S, IsFiniteSet(S), NEW R, Orders(R, S)
    PROVE  \E s : InOrder(s, S, R)
  <1> DEFINE Bad == {T \in SUBSET S : ~\E s : InOrder(s, T, R)}
  <1>1. SUFFICES ASSUME Bad # {} PROVE FALSE
    OBVIOUS
  <1>2. \A T \in Bad : IsFiniteSet(T)
    BY FS_Subset
  <1>3. PICK T \in Bad : \A P \in Bad : ~(P \subseteq T /\ P # T)
    <2> HIDE DEF Bad
    <2> QED
      BY <1>1, <1>2, SmallestSet
  <1>4. IsFiniteSet(T) /\ Orders(R, T)
    BY FS_Subset DEF Orders
  <1>5. CASE T = {}
    <2> DEFINE s == [i \in 1 .. 0 |-> 0]
    <2>1. Cardinality(T) = 0 /\ 1 .. 0 = {}
      BY <1>5, FS_EmptySet
    <2>2. s \in [1 .. 0 -> T] /\ Router!ToSet(s) = T
      BY <1>5, <2>1 DEF Router!ToSet
    <2>3. InOrder(s, T, R)
      BY <2>1, <2>2 DEF InOrder
    <2> QED
      BY <2>3
  <1>6. CASE T # {}
    <2>1. PICK m \in T : \A x \in T \ {m} : <<x, m>> \in R
      BY <1>4, <1>6, LastExists
    <2> DEFINE rest == T \ {m}
               n == Cardinality(T)
    <2>2. /\ rest \in SUBSET S /\ rest \subseteq T /\ rest # T
          /\ Cardinality(rest) = n - 1 /\ n \in Nat /\ n - 1 \in Nat
      <3>1. IsFiniteSet(rest) /\ Cardinality(rest) = n - 1
        BY <1>4, <2>1, FS_RemoveElement
      <3>2. n \in Nat /\ Cardinality(rest) \in Nat
        BY <1>4, <3>1, FS_CardinalityType
      <3> QED
        BY <2>1, <3>1, <3>2
    <2>3. PICK t : InOrder(t, rest, R)
      BY <1>3, <2>2
    <2> DEFINE s == [i \in 1 .. n |-> IF i = n THEN m ELSE t[i]]
    <2> HIDE DEF n, rest
    <2>4. /\ DOMAIN t = 1 .. n - 1 /\ \A i \in 1 .. n - 1 : t[i] \in rest
          /\ \A x \in rest : \E i \in 1 .. n - 1 : t[i] = x
          /\ \A i, j \in 1 .. n - 1 : i < j => <<t[i], t[j]>> \in R
      BY <2>2, <2>3 DEF InOrder, Router!ToSet
    <2>5. \A i \in 1 .. n : i = n \/ i \in 1 .. n - 1
      BY <2>2
    <2>6. s \in [1 .. n -> T]
      BY <2>2, <2>4, <2>5
    <2>7. Router!ToSet(s) = T
      <3>1. Router!ToSet(s) \subseteq T
        BY <2>6 DEF Router!ToSet
      <3>2. ASSUME NEW x \in T PROVE \E i \in 1 .. n : s[i] = x
        <4>1. CASE x = m
          <5>1. n \in 1 .. n
            BY <2>2
          <5> QED
            BY <4>1, <5>1
        <4>2. CASE x # m
          <5>1. PICK i \in 1 .. n - 1 : t[i] = x
            BY <2>4, <4>2 DEF rest
          <5>2. i \in 1 .. n /\ i # n
            BY <2>2
          <5> QED
            BY <5>1, <5>2
        <4> QED
          BY <4>1, <4>2
      <3> QED
        BY <3>1, <3>2 DEF Router!ToSet
    <2>8. ASSUME NEW i \in 1 .. n, NEW j \in 1 .. n, i < j PROVE <<s[i], s[j]>> \in R
      <3>1. i \in 1 .. n - 1
        BY <2>2, <2>8
      <3>2. CASE j = n
        BY <2>1, <2>4, <2>8, <3>1, <3>2 DEF rest
      <3>3. CASE j # n
        BY <2>4, <2>5, <2>8, <3>1, <3>3
      <3> QED
        BY <3>2, <3>3
    <2>9. InOrder(s, T, R)
      BY <2>6, <2>7, <2>8 DEF InOrder, n
    <2> QED
      BY <2>9
  <1> QED
    BY <1>5, <1>6

\* Array.prototype.sort: the elements of a finite set, in order.
LEMMA SortedInOrder ==
    ASSUME NEW S, IsFiniteSet(S), NEW R, Orders(R, S)
    PROVE  InOrder(Router!Sorted(S, R), S, R)
  <1>1. PICK s : InOrder(s, S, R)
    BY OrderExists
  <1>2. \E u \in [1 .. Cardinality(S) -> S] :
            /\ Router!ToSet(u) = S
            /\ \A i, j \in DOMAIN u : i < j => <<u[i], u[j]>> \in R
    BY <1>1 DEF InOrder
  <1> QED
    BY <1>2, RouterCardinality DEF Router!Sorted, InOrder

\* A list with a purpose moved to its front holds the same purposes, each once.
LEMMA FrontKeeps ==
    ASSUME NEW n \in Nat, NEW s, DOMAIN s = 1 .. n,
           \A i, j \in 1 .. n : s[i] = s[j] => i = j,
           NEW p \in Router!ToSet(s)
    PROVE  /\ DOMAIN Router!ToFront(p, s) = 1 .. n
           /\ Router!ToSet(Router!ToFront(p, s)) = Router!ToSet(s)
           /\ \A i, j \in 1 .. n : Router!ToFront(p, s)[i] = Router!ToFront(p, s)[j] => i = j
  <1> DEFINE k == CHOOSE i \in DOMAIN s : s[i] = p
             f == Router!ToFront(p, s)
  <1>1. k \in 1 .. n /\ s[k] = p
    BY DEF Router!ToSet
  <1>2. f = [i \in 1 .. n |-> IF i = 1 THEN p ELSE IF i <= k THEN s[i - 1] ELSE s[i]]
    BY DEF Router!ToFront
  <1> HIDE DEF k, f
  <1>3. \A i \in 1 .. n : f[i] = IF i = 1 THEN s[k] ELSE IF i <= k THEN s[i - 1] ELSE s[i]
    BY <1>1, <1>2
  <1>4. \A i \in 1 .. n : (i # 1 /\ i <= k) => i - 1 \in 1 .. n /\ i - 1 # k
    BY <1>1
  <1>5. ASSUME NEW i \in 1 .. n PROVE f[i] \in Router!ToSet(s)
    BY <1>1, <1>3, <1>4 DEF Router!ToSet
  <1>6. ASSUME NEW i \in 1 .. n PROVE \E j \in 1 .. n : f[j] = s[i]
    <2>1. CASE i = k
      <3>1. 1 \in 1 .. n
        BY <1>1
      <3> QED
        BY <1>3, <2>1, <3>1
    <2>2. CASE i < k
      <3>1. i + 1 \in 1 .. n /\ i + 1 # 1 /\ i + 1 <= k /\ (i + 1) - 1 = i
        BY <1>1, <2>2
      <3> QED
        BY <1>3, <3>1
    <2>3. CASE i > k
      <3>1. i # 1 /\ ~(i <= k)
        BY <1>1, <2>3
      <3> QED
        BY <1>3, <3>1
    <2> QED
      BY <1>1, <2>1, <2>2, <2>3
  <1>7. ASSUME NEW i \in 1 .. n, NEW j \in 1 .. n, f[i] = f[j] PROVE i = j
    BY <1>1, <1>3, <1>4, <1>7
  <1>8. DOMAIN f = 1 .. n
    BY <1>2
  <1>9. Router!ToSet(f) = Router!ToSet(s)
    <2>1. Router!ToSet(f) \subseteq Router!ToSet(s)
      BY <1>5, <1>8 DEF Router!ToSet
    <2>2. ASSUME NEW x \in Router!ToSet(s) PROVE x \in Router!ToSet(f)
      <3>1. PICK i \in 1 .. n : x = s[i]
        BY DEF Router!ToSet
      <3>2. PICK j \in 1 .. n : f[j] = s[i]
        BY <1>6
      <3> QED
        BY <1>8, <3>1, <3>2 DEF Router!ToSet
    <2> QED
      BY <2>1, <2>2
  <1> QED
    BY <1>7, <1>8, <1>9 DEF f


-----------------------------------------------------------------------------
(* The router: the chain of one request.                                   *)

\* A registry as the router reads it: every model has an id and a sound row.
Row == [purposes : (SUBSET {"chat", "light", "reasoning", "vision"}) \ {{}},
        thinking : BOOLEAN, vision : BOOLEAN, streaming : BOOLEAN, context : Nat,
        priority : Nat, plan : {"free", "plus", "pro", "admin"},
        host : STRING, provider : STRING, enabled : BOOLEAN, key : BOOLEAN]

IsView(v) == DOMAIN v \subseteq Router!Ids /\ \A m \in DOMAIN v : v[m] \in Row

\* What the assumption on the router's constants says.
LEMMA RouterConstants ==
    /\ IdOrder \in Seq(Router!Ids)
    /\ \A i, j \in DOMAIN IdOrder : IdOrder[i] = IdOrder[j] => i = j
    /\ DOMAIN Seed \subseteq Router!Ids
    /\ Rows \cup Router!Range(Seed) \subseteq Row
    /\ \A req \in RoutedRequests : /\ req.caller \in DOMAIN Router!Policy
                                   /\ req.plan \in {"free", "plus", "pro", "admin"}
  <1>1. Router!RoutingAssumption
    BY PlansAssumption
  <1>2. DOMAIN Router!PlanRank = {"free", "plus", "pro", "admin"}
    BY DEF Router!PlanRank
  <1>3. Router!ToSet(Router!Ladder) = {"chat", "light", "reasoning", "vision"}
    BY DEF Router!ToSet, Router!Ladder
  <1>4. \A i, j \in DOMAIN IdOrder : IdOrder[i] = IdOrder[j] => i = j
    BY <1>1 DEF Router!RoutingAssumption, Router!IsInjective
  <1>5. Router!ModelRow = Row
    BY <1>2, <1>3 DEF Router!ModelRow, Row
  <1> QED
    BY <1>1, <1>2, <1>4, <1>5 DEF Router!RoutingAssumption

\* Priority, then id: a strict total order on the models of a registry.
LEMMA PrecedenceOrders ==
    ASSUME NEW v, IsView(v), NEW S \in SUBSET (DOMAIN v)
    PROVE  IsFiniteSet(S) /\ Orders(Router!Precedence(v), S)
  <1> DEFINE R == Router!Precedence(v)
             n == Len(IdOrder)
             At(i, a) == i \in 1 .. n /\ IdOrder[i] = a
  <1>1. n \in Nat /\ DOMAIN IdOrder = 1 .. n
    BY RouterConstants
  <1>2. Router!Ids = {IdOrder[i] : i \in 1 .. n}
    BY <1>1 DEF Router!Ids, Router!ToSet
  <1>3. IsFiniteSet(S)
    <2>1. IsFiniteSet(1 .. n)
      BY <1>1, FS_Interval
    <2>2. IdOrder \in Surjection(1 .. n, Router!Ids)
      BY <1>1, <1>2, RouterConstants DEF Surjection
    <2>3. IsFiniteSet(Router!Ids)
      BY <2>1, <2>2, FS_Surjection
    <2> QED
      BY <2>3, FS_Subset DEF IsView
  <1>4. \A a \in S : v[a].priority \in Nat /\ a \in DOMAIN v /\ \E i : At(i, a)
    BY <1>2 DEF IsView, Row
  <1>5. ASSUME NEW a \in S, NEW b \in S
        PROVE  <<a, b>> \in R <=>
                  \/ v[a].priority < v[b].priority
                  \/ /\ v[a].priority = v[b].priority
                     /\ \E i, j \in 1 .. n : i < j /\ At(i, a) /\ At(j, b)
    BY <1>1 DEF Router!Precedence, Router!Before
  <1>6. \A i, j \in 1 .. n : IdOrder[i] = IdOrder[j] => i = j
    BY <1>1, RouterConstants
  <1> HIDE DEF R
  <1>7. ASSUME NEW a \in S PROVE <<a, a>> \notin R
    BY <1>1, <1>4, <1>5, <1>6
  <1>8. ASSUME NEW a \in S, NEW b \in S, a # b PROVE <<a, b>> \in R \/ <<b, a>> \in R
    <2>1. PICK i, j : At(i, a) /\ At(j, b)
      BY <1>4
    <2>2. i # j /\ i \in 1 .. n /\ j \in 1 .. n
      BY <1>8, <2>1
    <2> QED
      BY <1>1, <1>4, <1>5, <2>1, <2>2
  <1>9. ASSUME NEW a \in S, NEW b \in S, NEW c \in S, <<a, b>> \in R, <<b, c>> \in R
        PROVE  <<a, c>> \in R
    <2>1. v[a].priority \in Nat /\ v[b].priority \in Nat /\ v[c].priority \in Nat
      BY <1>4
    <2>2. CASE v[a].priority = v[b].priority /\ v[b].priority = v[c].priority
      <3>1. PICK i, j \in 1 .. n : i < j /\ At(i, a) /\ At(j, b)
        BY <1>5, <1>9, <2>1, <2>2
      <3>2. PICK k, l \in 1 .. n : k < l /\ At(k, b) /\ At(l, c)
        BY <1>5, <1>9, <2>1, <2>2
      <3>3. j = k
        BY <1>6, <3>1, <3>2
      <3>4. i < l
        BY <1>1, <3>1, <3>2, <3>3
      <3> QED
        BY <1>5, <2>2, <3>1, <3>2, <3>4
    <2>3. CASE ~(v[a].priority = v[b].priority /\ v[b].priority = v[c].priority)
      <3>1. v[a].priority <= v[b].priority /\ v[b].priority <= v[c].priority
        BY <1>5, <1>9, <2>1
      <3>2. v[a].priority < v[c].priority
        BY <2>1, <2>3, <3>1
      <3> QED
        BY <1>5, <3>2
    <2> QED
      BY <2>2, <2>3
  <1> QED
    BY <1>3, <1>7, <1>8, <1>9 DEF Orders, R

\* The purposes a request may be routed to are those of the ladder.
LEMMA TargetOnLadder ==
    ASSUME NEW req, req.caller \in DOMAIN Router!Policy
    PROVE  /\ Router!Policy[req.caller].purpose \in {"chat", "light", "reasoning", "vision"}
           /\ Router!TargetPurpose(req) \in {"chat", "light", "reasoning", "vision"}
  <1>0. DOMAIN Router!Policy = {"StudySuggestions", "LLMChat", "SimilarQuestion", "MistakeAI",
                                "ExamReadiness", "MistakeDebate", "ExamAutopsy"}
    BY DEF Router!Policy
  <1>1. Router!Light.purpose = "light" /\ Router!ChatAuto.purpose = "chat"
    BY DEF Router!Light, Router!ChatAuto
  <1>2. Router!ReasoningOn.purpose = "reasoning" /\ Router!VisionAuto.purpose = "vision"
    BY DEF Router!ReasoningOn, Router!VisionAuto, Router!ChatAuto, Router!Light
  <1>3. /\ Router!Policy["LLMChat"] = Router!Light
        /\ Router!Policy["SimilarQuestion"] = Router!ChatAuto
        /\ Router!Policy["MistakeDebate"] = Router!ReasoningOn
        /\ Router!Policy["ExamAutopsy"] = Router!VisionAuto
        /\ Router!Policy["StudySuggestions"] = [Router!Light EXCEPT !.allows = FALSE]
        /\ Router!Policy["MistakeAI"] = [Router!ChatAuto EXCEPT !.upgrades = TRUE]
        /\ Router!Policy["ExamReadiness"] = [Router!ChatAuto EXCEPT !.allows = FALSE]
    BY DEF Router!Policy
  <1>4. /\ Router!Policy["StudySuggestions"].purpose = "light"
        /\ Router!Policy["MistakeAI"].purpose = "chat"
        /\ Router!Policy["ExamReadiness"].purpose = "chat"
    BY <1>3 DEF Router!Light, Router!ChatAuto
  <1>5. Router!Policy[req.caller].purpose \in {"chat", "light", "reasoning", "vision"}
    BY <1>0, <1>1, <1>2, <1>3, <1>4
  <1>6. Router!TargetPurpose(req) \in {"vision", "chat", "reasoning", Router!Policy[req.caller].purpose}
    BY DEF Router!TargetPurpose
  <1> QED
    BY <1>5, <1>6

\* The pools of a request: each searched once; all of the ladder, or vision alone.
LEMMA PoolsOnce ==
    ASSUME NEW req, req.caller \in DOMAIN Router!Policy
    PROVE  \E n \in Nat :
             /\ Router!Pools(req) \in Seq({"chat", "light", "reasoning", "vision"})
             /\ Len(Router!Pools(req)) = n /\ DOMAIN Router!Pools(req) = 1 .. n
             /\ \A i, j \in 1 .. n : Router!Pools(req)[i] = Router!Pools(req)[j] => i = j
             /\ Router!ToSet(Router!Pools(req)) =
                   IF Router!NeedsVision(req) THEN {"vision"}
                   ELSE {"chat", "light", "reasoning", "vision"}
  <1> DEFINE All == {"chat", "light", "reasoning", "vision"}
             P == Router!Pools(req)
  <1>1. CASE Router!NeedsVision(req)
    <2>1. P = <<"vision">>
      BY <1>1 DEF Router!Pools
    <2>2. P \in Seq(All) /\ Len(P) = 1 /\ DOMAIN P = 1 .. 1 /\ P[1] = "vision"
      BY <2>1
    <2>3. Router!ToSet(P) = {"vision"}
      BY <2>2 DEF Router!ToSet
    <2> QED
      BY <1>1, <2>2, <2>3
  <1>2. CASE ~Router!NeedsVision(req)
    <2> DEFINE L == Router!Ladder
               own == Router!Policy[req.caller].purpose
               F == Router!ToFront(own, L)
    <2>0. PICK n \in Nat : n = 4
      OBVIOUS
    <2>1. DOMAIN L = 1 .. n /\ Router!ToSet(L) = All
      BY <2>0 DEF Router!ToSet, Router!Ladder
    <2>2. \A i, j \in 1 .. n : L[i] = L[j] => i = j
      BY <2>0 DEF Router!Ladder
    <2>3. own \in All /\ Router!TargetPurpose(req) \in All
      BY TargetOnLadder
    <2> HIDE DEF L
    <2>4. /\ DOMAIN F = 1 .. n /\ Router!ToSet(F) = All
          /\ \A i, j \in 1 .. n : F[i] = F[j] => i = j
      <3>1. own \in Router!ToSet(L)
        BY <2>1, <2>3
      <3> QED
        BY <2>1, <2>2, <3>1, FrontKeeps
    <2>5. P = Router!ToFront(Router!TargetPurpose(req), F)
      BY <1>2 DEF Router!Pools, L
    <2> HIDE DEF F, P
    <2>6. /\ DOMAIN P = 1 .. n /\ Router!ToSet(P) = All
          /\ \A i, j \in 1 .. n : P[i] = P[j] => i = j
      <3>1. Router!TargetPurpose(req) \in Router!ToSet(F)
        BY <2>3, <2>4
      <3> QED
        BY <2>4, <2>5, <3>1, FrontKeeps
    <2>7. P = [i \in 1 .. n |-> P[i]]
      BY <2>5, <2>6 DEF Router!ToFront
    <2>8. P \in [1 .. n -> All]
      BY <2>6, <2>7 DEF Router!ToSet
    <2>9. P \in Seq(All) /\ Len(P) = n
      BY <2>8, ListFact
    <2> QED
      BY <1>2, <2>6, <2>9 DEF P
  <1> QED
    BY <1>1, <1>2

\* The candidates of the pool that is searched i-th.
Picked(v, req, relaxed, i) == Router!Candidates(v, Router!Pools(req)[i], req, relaxed)

\* What collectChain does with one more pool: append what has not been seen.
Extended(s, fresh, v) == s \o Router!Sorted(fresh \ Router!ToSet(s), Router!Precedence(v))

\* The recursive function that CollectChain evaluates.
Chained(g, v, req, relaxed) ==
  g = [i \in 0 .. Len(Router!Pools(req)) |->
         IF i = 0 THEN <<>> ELSE Extended(g[i - 1], Picked(v, req, relaxed, i), v)]

\* The chain is the value of that function at the last pool.
LEMMA ChainUnfolded ==
    ASSUME NEW v, NEW req, NEW relaxed
    PROVE  Router!CollectChain(v, req, relaxed)
              = (CHOOSE g : Chained(g, v, req, relaxed))[Len(Router!Pools(req))]
  BY DEF Router!CollectChain, Chained, Extended, Picked

\* The function exists.
LEMMA ChainExists ==
    ASSUME NEW v, NEW req, NEW relaxed, Len(Router!Pools(req)) \in Nat
    PROVE  \E g : Chained(g, v, req, relaxed)
  <1> DEFINE n == Len(Router!Pools(req))
             Step(g, i) == IF i = 0 THEN <<>> ELSE Extended(g[i - 1], Picked(v, req, relaxed, i), v)
             Good(k) == \E g : /\ g = [i \in 0 .. n |-> g[i]]
                               /\ \A i \in 0 .. n : i <= k => g[i] = Step(g, i)
             Bad == {k \in Nat : ~Good(k)}
  <1>1. Bad = {}
    <2>1. SUFFICES ASSUME Bad # {} PROVE FALSE
      OBVIOUS
    <2>2. PICK k \in Bad : \A m \in Bad : k =< m
      <3> HIDE DEF Good
      <3> QED
        BY <2>1, LeastExists
    <2>3. CASE k = 0
      <3> DEFINE g == [i \in 0 .. n |-> <<>>]
      <3>1. g = [i \in 0 .. n |-> g[i]] /\ \A i \in 0 .. n : i <= 0 => g[i] = Step(g, i)
        OBVIOUS
      <3>2. Good(0)
        <4> HIDE DEF g, Step
        <4> QED
          BY <3>1
      <3> QED
        BY <2>2, <2>3, <3>2
    <2>4. CASE k # 0
      <3>1. k - 1 \in Nat /\ k - 1 < k /\ k \in Nat
        BY <2>4
      <3>2. Good(k - 1)
        <4> HIDE DEF Good
        <4> QED
          BY <2>2, <3>1
      <3>3. PICK g : /\ g = [i \in 0 .. n |-> g[i]]
                     /\ \A i \in 0 .. n : i <= k - 1 => g[i] = Step(g, i)
        BY <3>2
      <3> DEFINE h == [i \in 0 .. n |-> Step(g, i)]
      <3>4. ASSUME NEW i \in 0 .. n, i <= k PROVE h[i] = Step(h, i)
        <4>1. CASE i = 0
          BY <4>1
        <4>2. CASE i # 0
          <5>1. i - 1 \in 0 .. n /\ i - 1 <= k - 1
            BY <3>1, <3>4, <4>2
          <5>2. h[i - 1] = g[i - 1]
            BY <3>3, <5>1
          <5> QED
            BY <4>2, <5>2
        <4> QED
          BY <4>1, <4>2
      <3>5. h = [i \in 0 .. n |-> h[i]]
        OBVIOUS
      <3>6. Good(k)
        <4> HIDE DEF h, Step
        <4> QED
          BY <3>4, <3>5
      <3> QED
        BY <2>2, <3>6
    <2> QED
      BY <2>3, <2>4
  <1>2. Good(n)
    BY <1>1
  <1>3. PICK g : g = [i \in 0 .. n |-> g[i]] /\ \A i \in 0 .. n : i <= n => g[i] = Step(g, i)
    BY <1>2
  <1>4. g = [i \in 0 .. n |-> Step(g, i)]
    <2> HIDE DEF Step, n
    <2>1. \A i \in 0 .. n : g[i] = Step(g, i)
      BY <1>3
    <2> QED
      BY <1>3, <2>1
  <1> QED
    BY <1>4 DEF Chained

\* Pool i is the first one in which m is a candidate.
FirstPool(v, req, relaxed, m, i) ==
  /\ m \in Picked(v, req, relaxed, i)
  /\ \A k \in 1 .. i - 1 : m \notin Picked(v, req, relaxed, k)

\* The chain after i pools: the candidates of these pools, in order of the
\* first pool that has them, then of priority and id.
GrownTo(s, v, req, relaxed, i) ==
  /\ s \in Seq(DOMAIN v)
  /\ \A k \in 1 .. i : Picked(v, req, relaxed, k) \subseteq Router!ToSet(s)
  /\ \A a \in DOMAIN s : \E p \in 1 .. i : FirstPool(v, req, relaxed, s[a], p)
  /\ \A a, b \in DOMAIN s : a < b =>
       \E p, q \in 1 .. i :
          /\ FirstPool(v, req, relaxed, s[a], p) /\ FirstPool(v, req, relaxed, s[b], q)
          /\ p < q \/ (p = q /\ <<s[a], s[b]>> \in Router!Precedence(v))

\* One more pool keeps that.
LEMMA ExtendedGrows ==
    ASSUME NEW v, IsView(v), NEW req, NEW relaxed, NEW i \in Nat, i # 0,
           NEW s, GrownTo(s, v, req, relaxed, i - 1)
    PROVE  GrownTo(Extended(s, Picked(v, req, relaxed, i), v), v, req, relaxed, i)
  <1> DEFINE P(k) == Picked(v, req, relaxed, k)
             fresh == P(i) \ Router!ToSet(s)
             R == Router!Precedence(v)
             t == Router!Sorted(fresh, R)
             u == s \o t
             D(m, k) == FirstPool(v, req, relaxed, m, k)
             c == Cardinality(fresh)
             l == Len(s)
  <1>1. fresh \in SUBSET (DOMAIN v)
    BY DEF Picked, Router!Candidates
  <1>2. InOrder(t, fresh, R) /\ IsFiniteSet(fresh)
    BY <1>1, PrecedenceOrders, SortedInOrder
  <1>3. c \in Nat /\ t \in [1 .. c -> fresh] /\ DOMAIN t = 1 .. c
    BY <1>2, FS_CardinalityType DEF InOrder
  <1>4. t \in Seq(DOMAIN v) /\ Len(t) = c
    <2>1. t \in [1 .. c -> DOMAIN v]
      BY <1>1, <1>3
    <2> HIDE DEF t, c
    <2> QED
      BY <1>3, <2>1, ListFact
  <1>5. s \in Seq(DOMAIN v) /\ l \in Nat /\ DOMAIN s = 1 .. l
    BY LenProperties DEF GrownTo
  <1>6. /\ u \in Seq(DOMAIN v) /\ Len(u) = l + c /\ DOMAIN u = 1 .. l + c
        /\ \A a \in 1 .. l + c : u[a] = IF a <= l THEN s[a] ELSE t[a - l]
    <2>1. u \in Seq(DOMAIN v) /\ Len(u) = l + c
      BY <1>4, <1>5, ConcatProperties
    <2>2. DOMAIN u = 1 .. l + c
      BY <2>1, LenProperties
    <2>3. \A a \in 1 .. l + c : u[a] = IF a <= l THEN s[a] ELSE t[a - l]
      BY <1>4, <1>5, <2>1, ConcatProperties
    <2> QED
      BY <2>1, <2>2, <2>3
  <1>7. /\ \A x \in fresh : \E b \in 1 .. c : t[b] = x
        /\ \A b \in 1 .. c : t[b] \in fresh
        /\ \A a, b \in 1 .. c : a < b => <<t[a], t[b]>> \in R
    BY <1>2, <1>3 DEF InOrder, Router!ToSet
  <1>8. Extended(s, P(i), v) = u
    BY DEF Extended
  <1>9. /\ \A k \in 1 .. i - 1 : P(k) \subseteq Router!ToSet(s)
        /\ \A a \in 1 .. l : \E p \in 1 .. i - 1 : D(s[a], p)
        /\ \A a, b \in 1 .. l : a < b =>
             \E p, q \in 1 .. i - 1 :
                D(s[a], p) /\ D(s[b], q) /\ (p < q \/ (p = q /\ <<s[a], s[b]>> \in R))
    BY <1>5 DEF GrownTo
  <1>10. \A x \in fresh : D(x, i)
    BY <1>9 DEF FirstPool
  <1>11. \A k \in 1 .. i - 1 : k \in 1 .. i /\ k < i
    OBVIOUS
  <1>12. \A k \in 1 .. i : k = i \/ k \in 1 .. i - 1
    OBVIOUS
  <1> HIDE DEF t, u, D, P, fresh, R, c, l
  <1>13. \A a \in 1 .. l : a \in 1 .. l + c /\ u[a] = s[a]
    BY <1>3, <1>5, <1>6
  <1>14. \A b \in 1 .. c : b + l \in 1 .. l + c /\ u[b + l] = t[b]
    BY <1>3, <1>5, <1>6
  <1>15. \A a \in 1 .. l + c : a \in 1 .. l \/ (a - l \in 1 .. c /\ u[a] = t[a - l] /\ a > l)
    BY <1>3, <1>5, <1>6
  <1>16. ASSUME NEW k \in 1 .. i, NEW x \in P(k) PROVE x \in Router!ToSet(u)
    <2>1. CASE x \in Router!ToSet(s)
      <3>1. PICK a \in 1 .. l : x = s[a]
        BY <1>5, <2>1 DEF Router!ToSet
      <3> QED
        BY <1>6, <1>13, <3>1 DEF Router!ToSet
    <2>2. CASE x \notin Router!ToSet(s)
      <3>1. x \in fresh
        BY <1>9, <1>12, <1>16, <2>2 DEF fresh
      <3>2. PICK b \in 1 .. c : t[b] = x
        BY <1>7, <3>1
      <3> QED
        BY <1>6, <1>14, <3>2 DEF Router!ToSet
    <2> QED
      BY <2>1, <2>2
  <1>17. ASSUME NEW a \in 1 .. l + c PROVE \E p \in 1 .. i : D(u[a], p)
    <2>1. CASE a \in 1 .. l
      BY <1>9, <1>11, <1>13, <2>1
    <2>2. CASE a \notin 1 .. l
      <3>1. D(u[a], i)
        BY <1>7, <1>10, <1>15, <2>2
      <3> QED
        BY <3>1
    <2> QED
      BY <2>1, <2>2
  <1>18. ASSUME NEW a \in 1 .. l + c, NEW b \in 1 .. l + c, a < b
         PROVE  \E p, q \in 1 .. i :
                  D(u[a], p) /\ D(u[b], q) /\ (p < q \/ (p = q /\ <<u[a], u[b]>> \in R))
    <2>1. CASE b \in 1 .. l
      <3>1. a \in 1 .. l
        BY <1>5, <1>18, <2>1
      <3>2. PICK p, q \in 1 .. i - 1 :
               D(s[a], p) /\ D(s[b], q) /\ (p < q \/ (p = q /\ <<s[a], s[b]>> \in R))
        BY <1>9, <1>18, <2>1, <3>1
      <3>3. p \in 1 .. i /\ q \in 1 .. i /\ u[a] = s[a] /\ u[b] = s[b]
        BY <1>11, <1>13, <2>1, <3>1
      <3> QED
        BY <3>2, <3>3
    <2>2. CASE b \notin 1 .. l /\ a \in 1 .. l
      <3>1. D(u[b], i)
        BY <1>7, <1>10, <1>15, <2>2
      <3>2. PICK p \in 1 .. i - 1 : D(u[a], p)
        BY <1>9, <1>13, <2>2
      <3>3. p \in 1 .. i /\ i \in 1 .. i /\ p < i
        BY <1>11
      <3> QED
        BY <3>1, <3>2, <3>3
    <2>3. CASE b \notin 1 .. l /\ a \notin 1 .. l
      <3>1. D(u[a], i) /\ D(u[b], i)
        BY <1>7, <1>10, <1>15, <2>3
      <3>2. a - l \in 1 .. c /\ b - l \in 1 .. c /\ a - l < b - l
        BY <1>5, <1>15, <1>18, <2>3
      <3>3. <<t[a - l], t[b - l]>> \in R
        BY <1>7, <3>2
      <3>4. <<u[a], u[b]>> \in R /\ i \in 1 .. i
        BY <1>15, <2>3, <3>3
      <3> QED
        BY <3>1, <3>4
    <2> QED
      BY <2>1, <2>2, <2>3
  <1> QED
    BY <1>6, <1>8, <1>16, <1>17, <1>18 DEF GrownTo, D, P, R

\* collectChain, as a whole: the candidates of all pools, in order.
LEMMA CollectGrows ==
    ASSUME NEW v, IsView(v), NEW req, NEW relaxed, Len(Router!Pools(req)) \in Nat
    PROVE  GrownTo(Router!CollectChain(v, req, relaxed), v, req, relaxed, Len(Router!Pools(req)))
  <1> DEFINE n == Len(Router!Pools(req))
  <1>1. PICK g : /\ Chained(g, v, req, relaxed)
                 /\ Router!CollectChain(v, req, relaxed) = g[n]
    <2> DEFINE g == CHOOSE h : Chained(h, v, req, relaxed)
    <2>1. Chained(g, v, req, relaxed)
      BY ChainExists
    <2>2. Router!CollectChain(v, req, relaxed) = g[n]
      BY ChainUnfolded
    <2> HIDE DEF g
    <2> QED
      BY <2>1, <2>2
  <1>2. \A i \in 0 .. n : g[i] = IF i = 0 THEN <<>>
                                ELSE Extended(g[i - 1], Picked(v, req, relaxed, i), v)
    <2> DEFINE Step(i) == IF i = 0 THEN <<>> ELSE Extended(g[i - 1], Picked(v, req, relaxed, i), v)
    <2>1. g = [i \in 0 .. n |-> Step(i)]
      BY <1>1 DEF Chained
    <2> HIDE DEF Step, n
    <2>2. \A i \in 0 .. n : g[i] = Step(i)
      BY <2>1
    <2> QED
      BY <2>2 DEF Step
  <1> DEFINE Good(i) == GrownTo(g[i], v, req, relaxed, i)
             Bad == {i \in Nat : i <= n /\ ~Good(i)}
  <1>3. Bad = {}
    <2>1. SUFFICES ASSUME Bad # {} PROVE FALSE
      OBVIOUS
    <2>2. PICK k \in Bad : \A m \in Bad : k =< m
      <3> HIDE DEF Good
      <3> QED
        BY <2>1, LeastExists
    <2>3. CASE k = 0
      <3>1. g[0] = <<>>
        BY <1>2
      <3>2. /\ <<>> \in Seq(DOMAIN v) /\ DOMAIN <<>> = {}
            /\ \A j \in 1 .. 0 : FALSE
        OBVIOUS
      <3>3. GrownTo(<<>>, v, req, relaxed, 0)
        BY <3>2 DEF GrownTo
      <3> QED
        BY <2>2, <2>3, <3>1, <3>3
    <2>4. CASE k # 0
      <3>1. k - 1 \in Nat /\ k - 1 < k /\ k \in Nat /\ k - 1 <= n /\ k \in 0 .. n
        BY <2>2, <2>4
      <3>2. Good(k - 1)
        <4> HIDE DEF Good
        <4> QED
          BY <2>2, <3>1
      <3>3. g[k] = Extended(g[k - 1], Picked(v, req, relaxed, k), v)
        BY <1>2, <2>4, <3>1
      <3>4. Good(k)
        BY <2>4, <3>1, <3>2, <3>3, ExtendedGrows
      <3> QED
        BY <2>2, <3>4
    <2> QED
      BY <2>3, <2>4
  <1>4. Good(n)
    BY <1>3
  <1> QED
    BY <1>1, <1>4

\* The models a chain may hold, from what the filters read.
Fit(v, req, relaxed) ==
  {m \in DOMAIN v : /\ ~Router!PlanBlocked(v[m], req)
                    /\ Router!Compatible(v[m], req, relaxed)
                    /\ Router!NeedsVision(req) => "vision" \in v[m].purposes}

\* The i-th pool of the request is the first one that model m is tagged for.
Tagged(v, req, m, i) ==
  /\ Router!Pools(req)[i] \in v[m].purposes
  /\ \A k \in 1 .. i - 1 : Router!Pools(req)[k] \notin v[m].purposes

\* collectChain: the models that fit, by the depth of their pool, priority and id.
LEMMA CollectFacts ==
    ASSUME NEW v, IsView(v), NEW req, req.caller \in DOMAIN Router!Policy, NEW relaxed
    PROVE  LET c == Router!CollectChain(v, req, relaxed)
           IN  /\ c \in Seq(DOMAIN v)
               /\ Router!ToSet(c) = Fit(v, req, relaxed)
               /\ \A a, b \in DOMAIN c : a < b =>
                    \E p, q \in DOMAIN Router!Pools(req) :
                       /\ Tagged(v, req, c[a], p) /\ Tagged(v, req, c[b], q)
                       /\ p < q \/ (p = q /\ Router!Before(v, c[a], c[b]))
  <1> DEFINE c == Router!CollectChain(v, req, relaxed)
             P == Router!Pools(req)
             All == {"chat", "light", "reasoning", "vision"}
  <1>1. PICK n \in Nat :
          /\ Len(P) = n /\ DOMAIN P = 1 .. n
          /\ Router!ToSet(P) = IF Router!NeedsVision(req) THEN {"vision"} ELSE All
    BY PoolsOnce
  <1>2. GrownTo(c, v, req, relaxed, n)
    BY <1>1, CollectGrows
  <1>3. \A m \in DOMAIN v : v[m].purposes # {} /\ v[m].purposes \subseteq All
    BY DEF IsView, Row
  <1>4. \A m, i : m \in Picked(v, req, relaxed, i) <=>
                    /\ m \in DOMAIN v /\ P[i] \in v[m].purposes
                    /\ ~Router!PlanBlocked(v[m], req)
                    /\ Router!Compatible(v[m], req, relaxed)
    BY DEF Picked, Router!Candidates
  <1> HIDE DEF c, P
  <1>5. ASSUME NEW m \in Router!ToSet(c) PROVE m \in Fit(v, req, relaxed)
    <2>1. PICK a \in DOMAIN c : m = c[a]
      BY DEF Router!ToSet
    <2>2. PICK i \in 1 .. n : m \in Picked(v, req, relaxed, i)
      BY <1>2, <2>1 DEF GrownTo, FirstPool
    <2>3. P[i] \in Router!ToSet(P)
      BY <1>1 DEF Router!ToSet
    <2>4. Router!NeedsVision(req) => P[i] = "vision"
      BY <1>1, <2>3
    <2> QED
      BY <1>4, <2>2, <2>4 DEF Fit
  <1>6. ASSUME NEW m \in Fit(v, req, relaxed) PROVE m \in Router!ToSet(c)
    <2>1. m \in DOMAIN v
      BY DEF Fit
    <2>2. PICK p \in v[m].purposes : p \in Router!ToSet(P)
      <3>1. CASE Router!NeedsVision(req)
        BY <1>1, <3>1 DEF Fit
      <3>2. CASE ~Router!NeedsVision(req)
        BY <1>1, <1>3, <2>1, <3>2
      <3> QED
        BY <3>1, <3>2
    <2>3. PICK i \in 1 .. n : P[i] = p
      BY <1>1, <2>2 DEF Router!ToSet
    <2>4. m \in Picked(v, req, relaxed, i)
      BY <1>4, <2>2, <2>3 DEF Fit
    <2> QED
      BY <1>2, <2>4 DEF GrownTo
  <1>7. ASSUME NEW a \in DOMAIN c, NEW b \in DOMAIN c, a < b
        PROVE  \E p, q \in 1 .. n :
                  /\ Tagged(v, req, c[a], p) /\ Tagged(v, req, c[b], q)
                  /\ p < q \/ (p = q /\ Router!Before(v, c[a], c[b]))
    <2>1. PICK p, q \in 1 .. n :
             /\ FirstPool(v, req, relaxed, c[a], p) /\ FirstPool(v, req, relaxed, c[b], q)
             /\ p < q \/ (p = q /\ <<c[a], c[b]>> \in Router!Precedence(v))
      BY <1>2, <1>7 DEF GrownTo
    <2>2. \A m, i : FirstPool(v, req, relaxed, m, i) => Tagged(v, req, m, i)
      BY <1>4 DEF FirstPool, Tagged, P
    <2>3. <<c[a], c[b]>> \in Router!Precedence(v) => Router!Before(v, c[a], c[b])
      BY DEF Router!Precedence
    <2> QED
      BY <2>1, <2>2, <2>3
  <1>8. c \in Seq(DOMAIN v)
    BY <1>2 DEF GrownTo
  <1>9. Router!ToSet(c) = Fit(v, req, relaxed)
    BY <1>5, <1>6
  <1> QED
    BY <1>1, <1>7, <1>8, <1>9 DEF c, P

\* The chain is empty when nothing fits.
LEMMA EmptyChain ==
    ASSUME NEW S, NEW s \in Seq(S)
    PROVE  s = <<>> <=> Router!ToSet(s) = {}
  <1>1. DOMAIN s = 1 .. Len(s) /\ Len(s) \in Nat
    BY LenProperties
  <1>2. CASE s = <<>>
    BY <1>2 DEF Router!ToSet
  <1>3. CASE s # <<>>
    <2>1. Len(s) \in Nat \ {0}
      BY <1>3, EmptySeq
    <2>2. s[1] \in Router!ToSet(s)
      BY <1>1, <2>1 DEF Router!ToSet
    <2> QED
      BY <1>3, <2>2
  <1> QED
    BY <1>2, <1>3

\* The routing view of a sound registry, and the same without its plan floors.
LEMMA ViewSound ==
    ASSUME NEW table, IsView(table)
    PROVE  LET v == Router!RoutingView(table)
           IN  /\ IsView(v) /\ IsView(Router!Downgraded(v))
               /\ DOMAIN v = {m \in DOMAIN table : table[m].enabled /\ table[m].key}
               /\ DOMAIN Router!Downgraded(v) = DOMAIN v
               /\ \A m \in DOMAIN v : v[m] = table[m]
               /\ \A m \in DOMAIN v : Router!Downgraded(v)[m] = [table[m] EXCEPT !.plan = "free"]
  <1> DEFINE v == Router!RoutingView(table)
             d == Router!Downgraded(v)
  <1>1. /\ DOMAIN v = {m \in DOMAIN table : table[m].enabled /\ table[m].key}
        /\ \A m \in DOMAIN v : v[m] = table[m]
    BY DEF Router!RoutingView
  <1>2. IsView(v)
    BY <1>1 DEF IsView
  <1> HIDE DEF v
  <1>3. DOMAIN d = DOMAIN v /\ \A m \in DOMAIN v : d[m] = [table[m] EXCEPT !.plan = "free"]
    BY <1>1 DEF Router!Downgraded
  <1>4. ASSUME NEW r \in Row PROVE [r EXCEPT !.plan = "free"] \in Row
    BY DEF Row
  <1>5. IsView(d)
    BY <1>1, <1>3, <1>4 DEF IsView
  <1> QED
    BY <1>1, <1>2, <1>3, <1>5 DEF v

-----------------------------------------------------------------------------
(* The router: the state.                                                  *)

\* The registry is sound in every state.
ConfigsSound == DOMAIN configs \subseteq Router!Ids /\ \A m \in DOMAIN configs : configs[m] \in Row

\* A request under way has the route that routeChat computed for it: the
\* registry it was computed from does not change meanwhile.
RouteSound ==
  phase # "idle" => /\ request \in RoutedRequests
                    /\ route = Router!RouteChat(Router!RoutingView(configs), request)

\* What can be sent: a model of the chain, with the mode resolved for its head.
Sendable == {[model |-> m, wire |-> Router!Wire(configs[m].provider, route.thinking)] :
                m \in Router!ToSet(route.chain)}

\* Nothing is sent but to models of the chain.
AskedSound ==
  /\ asked \in Seq(Sendable)
  /\ phase = "idle" => asked = <<>>
  /\ phase = "routed" => route.chain \in Seq(Router!Ids) /\ route.chain # <<>>

\* The invariant of the router.
RouterInv == ConfigsSound /\ RouteSound /\ AskedSound

\* The three passes of routeChat, by what they find.
LEMMA RouteCases ==
    ASSUME NEW v, IsView(v), IsView(Router!Downgraded(v)),
           DOMAIN Router!Downgraded(v) = DOMAIN v,
           NEW req, req.caller \in DOMAIN Router!Policy
    PROVE  LET c == Router!RouteChat(v, req).chain
               all == Fit(Router!Downgraded(v), req, TRUE)
           IN  /\ c \in Seq(DOMAIN v)
               /\ Fit(v, req, FALSE) # {} => c = Router!CollectChain(v, req, FALSE)
               /\ Fit(v, req, FALSE) = {} /\ Fit(v, req, TRUE) # {}
                     => c = Router!CollectChain(v, req, TRUE)
               /\ Fit(v, req, FALSE) = {} /\ Fit(v, req, TRUE) = {}
                     => \/ Router!NeedsVision(req) /\ c = Router!CollectChain(v, req, TRUE)
                        \/ /\ ~Router!NeedsVision(req)
                           /\ c = Router!CollectChain(Router!Downgraded(v), req, TRUE)
  <1> DEFINE d == Router!Downgraded(v)
             strict == Router!CollectChain(v, req, FALSE)
             relaxed == Router!CollectChain(v, req, TRUE)
             last == Router!CollectChain(d, req, TRUE)
             c == Router!RouteChat(v, req).chain
             built == Router!BuildChain(v, req)
  <1>1. /\ strict \in Seq(DOMAIN v) /\ Router!ToSet(strict) = Fit(v, req, FALSE)
        /\ relaxed \in Seq(DOMAIN v) /\ Router!ToSet(relaxed) = Fit(v, req, TRUE)
    BY CollectFacts
  <1>2. last \in Seq(DOMAIN v)
    BY CollectFacts
  <1>3. built = IF strict # <<>> THEN strict ELSE relaxed
    BY DEF Router!BuildChain
  <1>4. c = IF built = <<>> /\ ~Router!NeedsVision(req) THEN last ELSE built
    BY DEF Router!RouteChat
  <1> HIDE DEF strict, relaxed, last, c, built, d
  <1>5. strict = <<>> <=> Fit(v, req, FALSE) = {}
    BY <1>1, EmptyChain
  <1>6. relaxed = <<>> <=> Fit(v, req, TRUE) = {}
    BY <1>1, EmptyChain
  <1>7. c \in Seq(DOMAIN v)
    BY <1>1, <1>2, <1>3, <1>4
  <1> QED
    BY <1>3, <1>4, <1>5, <1>6, <1>7 DEF strict, relaxed, last, c, d

\* The filters of routeChat, in the terms of the property.
LEMMA FitIsClass ==
    ASSUME ConfigsSound, request \in RoutedRequests
    PROVE  LET v == Router!RoutingView(configs)
               affordable == {m \in Router!AbleModels : Router!Affordable(m)}
           IN  /\ Fit(v, request, TRUE) = affordable
               /\ Fit(v, request, FALSE) = {m \in affordable : Router!Suited(m)}
               /\ Router!NeedsVision(request) => affordable = Router!AbleModels
               /\ ~Router!NeedsVision(request)
                     => Fit(Router!Downgraded(v), request, TRUE) = Router!AbleModels
  <1> DEFINE v == Router!RoutingView(configs)
             d == Router!Downgraded(v)
             affordable == {m \in Router!AbleModels : Router!Affordable(m)}
             rank == Router!PlanRank
  <1>1. /\ IsView(v) /\ IsView(d)
        /\ DOMAIN v = {m \in DOMAIN configs : configs[m].enabled /\ configs[m].key}
        /\ DOMAIN d = DOMAIN v
        /\ \A m \in DOMAIN v : v[m] = configs[m]
        /\ \A m \in DOMAIN v : d[m] = [configs[m] EXCEPT !.plan = "free"]
    BY ViewSound DEF ConfigsSound, IsView
  <1>2. \A p \in {"free", "plus", "pro", "admin"} : rank[p] \in Nat
    BY DEF Router!PlanRank
  <1>3. rank["free"] = 0
    BY DEF Router!PlanRank
  <1>4. request.plan \in {"free", "plus", "pro", "admin"}
    BY RouterConstants
  <1>5. \A m \in DOMAIN configs : /\ configs[m].plan \in {"free", "plus", "pro", "admin"}
                                  /\ configs[m].context \in Nat
    BY DEF ConfigsSound, Row
  <1> HIDE DEF v, d, rank
  <1>6. ASSUME NEW m \in DOMAIN configs, Router!Able(m)
        PROVE  Router!PlanBlocked(configs[m], request) <=> ~Router!Affordable(m)
    <2>1. rank[configs[m].plan] \in Nat /\ rank[request.plan] \in Nat
      BY <1>2, <1>4, <1>5
    <2>2. Router!NeedsVision(request) => configs[m].vision
      BY <1>6 DEF Router!Able
    <2>3. rank[configs[m].plan] > rank[request.plan] <=> ~(rank[configs[m].plan] <= rank[request.plan])
      BY <2>1
    <2> QED
      BY <2>2, <2>3 DEF Router!PlanBlocked, Router!Affordable, rank
  <1>7. \A c, t : c \in Nat => ((c > 0 => t <= c) <=> (c = 0 \/ t <= c))
    OBVIOUS
  <1>8. ASSUME NEW m
        PROVE  m \in Router!AbleModels <=>
                 /\ m \in DOMAIN v /\ Router!Compatible(configs[m], request, TRUE)
                 /\ Router!NeedsVision(request) => "vision" \in configs[m].purposes
    <2>1. CASE m \in DOMAIN configs
      <3>1. (configs[m].context > 0 => request.tokens <= configs[m].context)
               <=> (configs[m].context = 0 \/ request.tokens <= configs[m].context)
        BY <1>5, <1>7, <2>1
      <3> QED
        BY <1>1, <2>1, <3>1 DEF Router!AbleModels, Router!Able, Router!Compatible
    <2>2. CASE m \notin DOMAIN configs
      BY <1>1, <2>2 DEF Router!AbleModels
    <2> QED
      BY <2>1, <2>2
  <1>9. \A m \in Router!AbleModels : m \in DOMAIN configs /\ Router!Able(m) /\ m \in DOMAIN v
    BY <1>8 DEF Router!AbleModels
  <1>10. Fit(v, request, TRUE) = affordable
    BY <1>1, <1>6, <1>8, <1>9 DEF Fit
  <1>11. \A m : Router!Compatible(configs[m], request, FALSE)
                  <=> Router!Compatible(configs[m], request, TRUE) /\ Router!Suited(m)
    BY DEF Router!Compatible, Router!Suited
  <1>12. Fit(v, request, FALSE) = {m \in affordable : Router!Suited(m)}
    <2>1. \A m : m \in Fit(v, request, FALSE) <=> m \in Fit(v, request, TRUE) /\ Router!Suited(m)
      BY <1>1, <1>11 DEF Fit
    <2> QED
      BY <1>10, <2>1
  <1>13. Router!NeedsVision(request) => affordable = Router!AbleModels
    BY DEF Router!Affordable
  <1>14. ASSUME ~Router!NeedsVision(request)
         PROVE  Fit(d, request, TRUE) = Router!AbleModels
    <2>1. ASSUME NEW m \in DOMAIN v
          PROVE  /\ d[m].context = configs[m].context /\ d[m].plan = "free"
      <3>1. configs[m] \in Row
        BY <1>1 DEF ConfigsSound
      <3>2. ASSUME NEW r \in Row
            PROVE  /\ [r EXCEPT !.plan = "free"].context = r.context
                   /\ [r EXCEPT !.plan = "free"].plan = "free"
        BY DEF Row
      <3>3. d[m] = [configs[m] EXCEPT !.plan = "free"]
        BY <1>1
      <3> QED
        BY <3>1, <3>2, <3>3
    <2>2. ASSUME NEW m \in DOMAIN v PROVE ~Router!PlanBlocked(d[m], request)
      <3>1. ~(0 > rank[request.plan])
        BY <1>2, <1>4
      <3> QED
        BY <1>3, <2>1, <3>1 DEF Router!PlanBlocked, rank
    <2>3. ASSUME NEW m \in DOMAIN v
          PROVE  Router!Compatible(d[m], request, TRUE)
                   <=> Router!Compatible(configs[m], request, TRUE)
      BY <1>14, <2>1 DEF Router!Compatible
    <2> QED
      BY <1>1, <1>8, <1>14, <2>2, <2>3 DEF Fit
  <1> QED
    BY <1>10, <1>12, <1>13, <1>14 DEF v, d

\* A model's depth is the pool it is first tagged for.
LEMMA DepthIs ==
    ASSUME NEW m, NEW p \in DOMAIN Router!Pools(request), Tagged(configs, request, m, p),
           NEW n \in Nat, DOMAIN Router!Pools(request) = 1 .. n
    PROVE  Router!Depth(m) = p
  <1> DEFINE Deep(i) == /\ Router!Pools(request)[i] \in configs[m].purposes
                        /\ \A j \in 1 .. i - 1 : Router!Pools(request)[j] \notin configs[m].purposes
  <1>1. Deep(p)
    BY DEF Tagged
  <1>2. ASSUME NEW i \in 1 .. n, Deep(i) PROVE i = p
    <2>1. p \in 1 .. n
      OBVIOUS
    <2>2. ~(i < p)
      <3>1. i < p => i \in 1 .. p - 1
        BY <2>1
      <3> QED
        BY <1>1, <1>2, <3>1
    <2>3. ~(p < i)
      <3>1. p < i => p \in 1 .. i - 1
        BY <2>1
      <3> QED
        BY <1>1, <1>2, <3>1
    <2> QED
      BY <2>1, <2>2, <2>3
  <1>3. Router!Depth(m) = CHOOSE i \in 1 .. n : Deep(i)
    BY DEF Router!Depth
  <1> HIDE DEF Deep
  <1> QED
    BY <1>1, <1>2, <1>3

\* Whatever a registry that was downgraded is tagged and ranked by, is unchanged.
LEMMA DowngradedOrder ==
    ASSUME ConfigsSound, NEW v, v = Router!RoutingView(configs)
           \/ v = Router!Downgraded(Router!RoutingView(configs))
    PROVE  /\ \A m \in DOMAIN v : /\ v[m].purposes = configs[m].purposes
                                  /\ v[m].priority = configs[m].priority
           /\ \A m \in DOMAIN v : \A i : Tagged(v, request, m, i) => Tagged(configs, request, m, i)
           /\ \A a, b \in DOMAIN v : Router!Before(v, a, b) => Router!Before(configs, a, b)
  <1> DEFINE w == Router!RoutingView(configs)
  <1>1. /\ DOMAIN w \subseteq DOMAIN configs /\ DOMAIN Router!Downgraded(w) = DOMAIN w
        /\ \A m \in DOMAIN w : w[m] = configs[m]
        /\ \A m \in DOMAIN w : Router!Downgraded(w)[m] = [configs[m] EXCEPT !.plan = "free"]
    <2>1. IsView(configs)
      BY DEF ConfigsSound, IsView
    <2> QED
      BY <2>1, ViewSound
  <1>2. ASSUME NEW r \in Row
        PROVE  /\ [r EXCEPT !.plan = "free"].purposes = r.purposes
               /\ [r EXCEPT !.plan = "free"].priority = r.priority
    BY DEF Row
  <1>3. \A m \in DOMAIN w : configs[m] \in Row
    BY <1>1 DEF ConfigsSound
  <1>4. \A m \in DOMAIN v : /\ v[m].purposes = configs[m].purposes
                            /\ v[m].priority = configs[m].priority
    <2> HIDE DEF w
    <2>1. CASE v = w
      BY <1>1, <2>1
    <2>2. CASE v = Router!Downgraded(w)
      BY <1>1, <1>2, <1>3, <2>2
    <2> QED
      BY <2>1, <2>2 DEF w
  <1>5. \A m \in DOMAIN v : \A i : Tagged(v, request, m, i) => Tagged(configs, request, m, i)
    BY <1>4 DEF Tagged
  <1>6. \A a, b \in DOMAIN v : Router!Before(v, a, b) => Router!Before(configs, a, b)
    BY <1>4 DEF Router!Before
  <1> QED
    BY <1>4, <1>5, <1>6

\* A sound route is the best class that is not empty, in order.
LEMMA RouteIsBest ==
    ASSUME RouterInv, phase # "idle"
    PROVE  /\ route.chain \in Seq(DOMAIN Router!RoutingView(configs))
           /\ Router!ToSet(route.chain) = Router!BestClass
           /\ \A i, j \in DOMAIN route.chain : i < j =>
                \/ Router!Depth(route.chain[i]) < Router!Depth(route.chain[j])
                \/ /\ Router!Depth(route.chain[i]) = Router!Depth(route.chain[j])
                   /\ Router!Before(configs, route.chain[i], route.chain[j])
  <1> DEFINE v == Router!RoutingView(configs)
             d == Router!Downgraded(v)
             c == Router!RouteChat(v, request).chain
             affordable == {m \in Router!AbleModels : Router!Affordable(m)}
             suited == {m \in affordable : Router!Suited(m)}
  <1>1. ConfigsSound /\ request \in RoutedRequests /\ route.chain = c
    BY DEF RouterInv, RouteSound
  <1>2. request.caller \in DOMAIN Router!Policy
    BY <1>1, RouterConstants
  <1>3. IsView(v) /\ IsView(d) /\ DOMAIN d = DOMAIN v
    <2>1. IsView(configs)
      BY <1>1 DEF ConfigsSound, IsView
    <2> QED
      BY <2>1, ViewSound
  <1>4. /\ Fit(v, request, TRUE) = affordable /\ Fit(v, request, FALSE) = suited
        /\ Router!NeedsVision(request) => affordable = Router!AbleModels
        /\ ~Router!NeedsVision(request) => Fit(d, request, TRUE) = Router!AbleModels
    BY <1>1, FitIsClass
  <1>5. /\ c \in Seq(DOMAIN v)
        /\ suited # {} => c = Router!CollectChain(v, request, FALSE)
        /\ suited = {} /\ affordable # {} => c = Router!CollectChain(v, request, TRUE)
        /\ suited = {} /\ affordable = {}
              => \/ Router!NeedsVision(request) /\ c = Router!CollectChain(v, request, TRUE)
                 \/ ~Router!NeedsVision(request) /\ c = Router!CollectChain(d, request, TRUE)
    <2> HIDE DEF v, d, c, affordable, suited
    <2>1. /\ c \in Seq(DOMAIN v)
          /\ Fit(v, request, FALSE) # {} => c = Router!CollectChain(v, request, FALSE)
          /\ Fit(v, request, FALSE) = {} /\ Fit(v, request, TRUE) # {}
                => c = Router!CollectChain(v, request, TRUE)
          /\ Fit(v, request, FALSE) = {} /\ Fit(v, request, TRUE) = {}
                => \/ Router!NeedsVision(request) /\ c = Router!CollectChain(v, request, TRUE)
                   \/ ~Router!NeedsVision(request) /\ c = Router!CollectChain(d, request, TRUE)
      BY <1>2, <1>3, RouteCases DEF c, d
    <2> QED
      BY <1>4, <2>1
  <1>6. Router!BestClass = IF suited # {} THEN suited
                           ELSE IF affordable # {} THEN affordable ELSE Router!AbleModels
    BY DEF Router!BestClass
  <1>7. \E w, relaxed : /\ w = v \/ w = d
                        /\ c = Router!CollectChain(w, request, relaxed)
                        /\ Fit(w, request, relaxed) = Router!BestClass
    <2> HIDE DEF v, d, c, affordable, suited
    <2>1. CASE suited # {}
      BY <1>4, <1>5, <1>6, <2>1
    <2>2. CASE suited = {} /\ affordable # {}
      BY <1>4, <1>5, <1>6, <2>2
    <2>3. CASE suited = {} /\ affordable = {} /\ Router!NeedsVision(request)
      BY <1>4, <1>5, <1>6, <2>3
    <2>4. CASE suited = {} /\ affordable = {} /\ ~Router!NeedsVision(request)
      BY <1>4, <1>5, <1>6, <2>4
    <2> QED
      BY <2>1, <2>2, <2>3, <2>4
  <1>8. PICK w, relaxed : /\ w = v \/ w = d
                          /\ c = Router!CollectChain(w, request, relaxed)
                          /\ Fit(w, request, relaxed) = Router!BestClass
    BY <1>7
  <1>9. /\ Router!ToSet(c) = Router!BestClass /\ c \in Seq(DOMAIN w)
        /\ \A a, b \in DOMAIN c : a < b =>
             \E p, q \in DOMAIN Router!Pools(request) :
                /\ Tagged(w, request, c[a], p) /\ Tagged(w, request, c[b], q)
                /\ p < q \/ (p = q /\ Router!Before(w, c[a], c[b]))
    <2>1. IsView(w)
      BY <1>3, <1>8
    <2> HIDE DEF v, d, c
    <2> QED
      BY <1>2, <1>8, <2>1, CollectFacts
  <1>10. PICK n \in Nat : DOMAIN Router!Pools(request) = 1 .. n
    BY <1>2, PoolsOnce
  <1>11. /\ \A m \in DOMAIN w : \A i : Tagged(w, request, m, i) => Tagged(configs, request, m, i)
         /\ \A a, b \in DOMAIN w : Router!Before(w, a, b) => Router!Before(configs, a, b)
    BY <1>1, <1>8, DowngradedOrder
  <1> HIDE DEF c
  <1>12. ASSUME NEW a \in DOMAIN c, NEW b \in DOMAIN c, a < b
         PROVE  \/ Router!Depth(c[a]) < Router!Depth(c[b])
                \/ Router!Depth(c[a]) = Router!Depth(c[b]) /\ Router!Before(configs, c[a], c[b])
    <2>1. PICK p, q \in DOMAIN Router!Pools(request) :
             /\ Tagged(w, request, c[a], p) /\ Tagged(w, request, c[b], q)
             /\ p < q \/ (p = q /\ Router!Before(w, c[a], c[b]))
      BY <1>9, <1>12
    <2>2. c[a] \in DOMAIN w /\ c[b] \in DOMAIN w
      BY <1>9, LenProperties
    <2>3. Tagged(configs, request, c[a], p) /\ Tagged(configs, request, c[b], q)
      BY <1>11, <2>1, <2>2
    <2>4. Router!Depth(c[a]) = p /\ Router!Depth(c[b]) = q
      BY <1>10, <2>3, DepthIs
    <2> QED
      BY <1>11, <2>1, <2>2, <2>4
  <1>13. c \in Seq(DOMAIN v)
    BY <1>5
  <1> QED
    BY <1>1, <1>9, <1>12, <1>13

\* The router starts with a sound registry and no route under way.
LEMMA RouterInit == Router!Init => RouterInv
  <1> SUFFICES ASSUME Router!Init PROVE RouterInv
    OBVIOUS
  <1>1. ConfigsSound
    <2>1. \A m \in DOMAIN Seed : Seed[m] \in Router!Range(Seed)
      BY DEF Router!Range
    <2> QED
      BY <2>1, RouterConstants DEF Router!Init, ConfigsSound
  <1>2. RouteSound
    BY DEF Router!Init, RouteSound
  <1>3. AskedSound
    BY DEF Router!Init, AskedSound
  <1> QED
    BY <1>1, <1>2, <1>3 DEF RouterInv

\* Asking one more model of the chain (callProvider).
LEMMA SendSound ==
    ASSUME RouterInv, NEW m \in Router!ToSet(route.chain), Router!Send(m),
           UNCHANGED <<configs, request, route>>
    PROVE  asked' \in Seq(Sendable')
  <1> DEFINE sent == [model |-> m, wire |-> Router!Wire(configs[m].provider, route.thinking)]
  <1>1. Sendable' = Sendable
    BY DEF Sendable, Router!Wire, Router!ToSet
  <1>2. sent \in Sendable
    BY DEF Sendable
  <1>3. asked' = Append(asked, sent)
    BY DEF Router!Send
  <1>4. asked \in Seq(Sendable)
    BY DEF RouterInv, AskedSound
  <1> HIDE DEF sent
  <1>5. Append(asked, sent) \in Seq(Sendable)
    BY <1>2, <1>4, AppendProperties
  <1> QED
    BY <1>1, <1>3, <1>5

\* Each step of the router keeps the registry, the route and what was asked sound.
LEMMA RouterStep == RouterInv /\ [Router!Next]_routerVars => RouterInv'
  <1> SUFFICES ASSUME RouterInv, [Router!Next]_routerVars PROVE RouterInv'
    OBVIOUS
  <1> USE DEF RouterInv
  <1>1. CASE Router!Edit
    <2>1. PICK m \in Router!Ids, row \in Rows :
             configs' = [i \in DOMAIN configs \cup {m} |-> IF i = m THEN row ELSE configs[i]]
      BY <1>1 DEF Router!Edit
    <2>2. row \in Row
      BY RouterConstants
    <2>3. ConfigsSound'
      <3>1. DOMAIN configs' = DOMAIN configs \cup {m}
        BY <2>1
      <3>2. \A i \in DOMAIN configs' : configs'[i] \in Row
        BY <2>1, <2>2 DEF ConfigsSound
      <3>3. DOMAIN configs' \subseteq Router!Ids
        BY <3>1 DEF ConfigsSound
      <3> QED
        BY <3>2, <3>3 DEF ConfigsSound, Router!Ids, Router!ToSet
    <2>4. phase = "idle" /\ phase' = phase /\ asked' = asked /\ asked = <<>>
      BY <1>1 DEF Router!Edit, AskedSound
    <2>5. RouteSound'
      BY <2>4 DEF RouteSound
    <2>6. AskedSound'
      <3>1. <<>> \in Seq(Sendable')
        BY EmptySeq
      <3> QED
        BY <2>4, <3>1 DEF AskedSound
    <2> QED
      BY <2>3, <2>5, <2>6
  <1>2. CASE Router!Route
    <2>1. PICK req \in RoutedRequests :
             /\ request' = req /\ route' = Router!RouteChat(Router!RoutingView(configs), req)
             /\ phase' = IF route'.chain = <<>> THEN "refused" ELSE "routed"
      BY <1>2 DEF Router!Route
    <2>2. phase = "idle" /\ UNCHANGED <<configs, asked>> /\ asked = <<>>
      BY <1>2 DEF Router!Route, AskedSound
    <2>3. ConfigsSound'
      BY <2>2 DEF ConfigsSound
    <2>4. RouteSound'
      BY <2>1, <2>2 DEF RouteSound
    <2>5. route'.chain \in Seq(Router!Ids)
      <3> DEFINE v == Router!RoutingView(configs)
      <3>1. IsView(configs)
        BY DEF ConfigsSound, IsView
      <3>2. IsView(v) /\ IsView(Router!Downgraded(v)) /\ DOMAIN Router!Downgraded(v) = DOMAIN v
        BY <3>1, ViewSound
      <3>3. req.caller \in DOMAIN Router!Policy
        BY RouterConstants
      <3> HIDE DEF v
      <3>4. Router!RouteChat(v, req).chain \in Seq(DOMAIN v)
        BY <3>2, <3>3, RouteCases
      <3>5. DOMAIN v \subseteq Router!Ids
        BY <3>2 DEF IsView
      <3>6. Router!RouteChat(v, req).chain \in Seq(Router!Ids)
        BY <3>4, <3>5, SeqMonotonic
      <3> QED
        BY <2>1, <3>6 DEF v
    <2>6. AskedSound'
      <3>1. asked' = <<>> /\ <<>> \in Seq(Sendable')
        BY <2>2, EmptySeq
      <3>2. phase' = "routed" => route'.chain # <<>>
        BY <2>1
      <3>3. phase' # "idle"
        BY <2>1
      <3> QED
        BY <2>5, <3>1, <3>2, <3>3 DEF AskedSound, Router!Ids, Router!ToSet
    <2> QED
      BY <2>3, <2>4, <2>6
  <1>3. ASSUME Router!AskPrimary \/ Router!AskFallback PROVE RouterInv'
    <2>1. /\ phase # "idle" /\ phase' # "idle" /\ phase' # "routed"
          /\ UNCHANGED <<configs, request, route>>
      BY <1>3 DEF Router!AskPrimary, Router!AskFallback
    <2>2. PICK m \in Router!ToSet(route.chain) : Router!Send(m)
      <3>1. CASE Router!AskPrimary
        <4>1. 1 \in DOMAIN route.chain
          <5>1. route.chain \in Seq(Router!Ids) /\ route.chain # <<>>
            BY <3>1 DEF Router!AskPrimary, AskedSound
          <5>2. Len(route.chain) \in Nat \ {0}
            BY <5>1, EmptySeq
          <5> QED
            BY <5>1, <5>2, LenProperties
        <4> QED
          BY <3>1, <4>1 DEF Router!AskPrimary, Router!ToSet
      <3>2. CASE Router!AskFallback
        BY <3>2 DEF Router!AskFallback, Router!Elsewhere, Router!ToSet
      <3> QED
        BY <1>3, <3>1, <3>2
    <2>3. asked' \in Seq(Sendable')
      BY <2>1, <2>2, SendSound
    <2>4. ConfigsSound'
      BY <2>1 DEF ConfigsSound
    <2>5. RouteSound'
      BY <2>1 DEF RouteSound
    <2> QED
      BY <2>1, <2>3, <2>4, <2>5 DEF AskedSound
  <1>4. ASSUME Router!Answer \/ Router!Fail PROVE RouterInv'
    <2>1. /\ phase # "idle" /\ phase' # "idle" /\ phase' # "routed"
          /\ UNCHANGED <<configs, request, route, asked>>
      BY <1>4 DEF Router!Answer, Router!Fail
    <2>2. Sendable' = Sendable
      BY <2>1 DEF Sendable, Router!Wire, Router!ToSet
    <2> QED
      BY <2>1, <2>2 DEF ConfigsSound, RouteSound, AskedSound
  <1>5. CASE Router!Finish
    <2>1. phase' = "idle" /\ asked' = <<>> /\ UNCHANGED configs
      BY <1>5 DEF Router!Finish
    <2>2. <<>> \in Seq(Sendable')
      BY EmptySeq
    <2>3. ConfigsSound' /\ RouteSound'
      BY <2>1 DEF ConfigsSound, RouteSound
    <2> QED
      BY <2>1, <2>2, <2>3 DEF AskedSound
  <1>6. CASE UNCHANGED routerVars
    <2>1. UNCHANGED <<configs, phase, request, route, asked>>
      BY <1>6 DEF routerVars
    <2>2. Sendable' = Sendable
      BY <2>1 DEF Sendable, Router!Wire, Router!ToSet
    <2> QED
      BY <2>1, <2>2 DEF ConfigsSound, RouteSound, AskedSound
  <1> QED
    BY <1>1, <1>2, <1>3, <1>4, <1>5, <1>6 DEF Router!Next

\* The router's invariant, in the composition.
THEOREM RouterInvariant == PlansSpec => []RouterInv
  <1>1. PlansInit => RouterInv
    BY RouterInit DEF PlansInit
  <1>2. RouterInv /\ [PlansNext]_<<part, vars, windowVars, routerVars>> => RouterInv'
    BY RouterStep DEF PlansNext
  <1> QED
    BY <1>1, <1>2, PTL DEF PlansSpec

\* routeChat's three passes compute what they are meant to: for any registry,
\* request and number of models the chain holds exactly the best class that is
\* not empty, in order of pool, priority and id (router.js).
THEOREM ChainIsBest == PlansSpec => []ChainIsBestClass
  <1>1. RouterInv => ChainIsBestClass
    BY RouteIsBest DEF ChainIsBestClass, Router!ChainIsBestClass
  <1> QED
    BY <1>1, RouterInvariant, PTL

\* A thinking mode that a plan may force is passed on as it is.
LEMMA ForcedThinking ==
    ASSUME NEW req, Router!NeedsThinking(req)
    PROVE  Router!EffectiveThinking(Router!Policy[req.caller], req.thinking, req.plan) = "on"
  BY DEF Router!NeedsThinking, Router!EffectiveThinking

\* The mode of a route is the resolved one unless the head of the chain cannot think.
LEMMA ModeOfHead ==
    ASSUME NEW v, NEW req, NEW r, r = Router!RouteChat(v, req),
           r.chain = <<>> \/ v[r.chain[1]].thinking
    PROVE  r.thinking = Router!EffectiveThinking(Router!Policy[req.caller], req.thinking, req.plan)
  <1> DEFINE built == Router!BuildChain(v, req)
             served == IF built = <<>> /\ ~Router!NeedsVision(req)
                       THEN Router!CollectChain(Router!Downgraded(v), req, TRUE)
                       ELSE built
             mode == Router!EffectiveThinking(Router!Policy[req.caller], req.thinking, req.plan)
  <1>1. r = [chain |-> served,
             thinking |-> IF served # <<>> /\ ~v[served[1]].thinking THEN "off" ELSE mode]
    BY DEF Router!RouteChat
  <1> HIDE DEF served, mode
  <1>2. r.chain = served
    BY <1>1
  <1>3. ~(served # <<>> /\ ~v[served[1]].thinking)
    BY <1>2
  <1>4. r.thinking = IF served # <<>> /\ ~v[served[1]].thinking THEN "off" ELSE mode
    BY <1>1
  <1>5. r.thinking = mode
    BY <1>3, <1>4
  <1> QED
    BY <1>5 DEF mode

\* What is asked was in the chain.
LEMMA AskedFromChain ==
    ASSUME RouterInv, NEW i \in DOMAIN asked
    PROVE  /\ phase # "idle" /\ asked[i].model \in Router!BestClass
           /\ asked[i].wire = Router!Wire(configs[asked[i].model].provider, route.thinking)
  <1>1. phase # "idle"
    BY DEF RouterInv, AskedSound
  <1>2. asked[i] \in Sendable
    <2>1. asked \in Seq(Sendable)
      BY DEF RouterInv, AskedSound
    <2> QED
      BY <2>1, LenProperties
  <1>3. Router!ToSet(route.chain) = Router!BestClass
    BY <1>1, RouteIsBest
  <1>4. PICK m \in Router!ToSet(route.chain) :
          asked[i] = [model |-> m, wire |-> Router!Wire(configs[m].provider, route.thinking)]
    BY <1>2 DEF Sendable
  <1> QED
    BY <1>1, <1>3, <1>4

\* A route and its fallback keep what the user may have and what he asked for
\* (routeChat; pickRuntimeFallback and callProvider of gateway.js).
THEOREM TermsKept == PlansSpec => []RouteKeepsTerms
  <1> DEFINE affordable == {m \in Router!AbleModels : Router!Affordable(m)}
             suited == {m \in affordable : Router!Suited(m)}
  <1>1. Router!BestClass = IF suited # {} THEN suited
                           ELSE IF affordable # {} THEN affordable ELSE Router!AbleModels
    BY DEF Router!BestClass
  <1>2. RouterInv => Router!PlanFloorKept
    <2> SUFFICES ASSUME RouterInv, NEW i \in DOMAIN asked
                 PROVE  \/ Router!Affordable(asked[i].model)
                        \/ \A m \in Router!AbleModels : ~Router!Affordable(m)
      BY DEF Router!PlanFloorKept
    <2>1. asked[i].model \in Router!BestClass
      BY AskedFromChain
    <2> QED
      BY <1>1, <2>1
  <1>3. RouterInv => Router!ForcedThinkingKept
    <2> SUFFICES ASSUME RouterInv, phase # "idle", Router!NeedsThinking(request),
                        \E m \in Router!AbleModels : Router!Affordable(m) /\ Router!Suited(m),
                        NEW i \in DOMAIN asked
                 PROVE  configs[asked[i].model].thinking /\ asked[i].wire # "disabled"
      BY DEF Router!ForcedThinkingKept
    <2>1. Router!BestClass = suited
      BY <1>1
    <2>2. \A m \in suited : configs[m].thinking
      BY DEF Router!Suited
    <2>3. /\ asked[i].model \in suited
          /\ asked[i].wire = Router!Wire(configs[asked[i].model].provider, route.thinking)
      BY <2>1, AskedFromChain
    <2>4. route.thinking = "on"
      <3> DEFINE v == Router!RoutingView(configs)
      <3>1. (route.chain = <<>> \/ v[route.chain[1]].thinking) => route.thinking = "on"
        <4>1. route = Router!RouteChat(v, request)
          BY DEF RouterInv, RouteSound
        <4>2. Router!EffectiveThinking(Router!Policy[request.caller], request.thinking, request.plan)
                 = "on"
          BY ForcedThinking
        <4> QED
          BY <4>1, <4>2, ModeOfHead
      <3>2. route.chain # <<>> => v[route.chain[1]].thinking
        <4> SUFFICES ASSUME route.chain # <<>> PROVE v[route.chain[1]].thinking
          OBVIOUS
        <4>1. /\ route.chain \in Seq(DOMAIN v) /\ Router!ToSet(route.chain) = suited
          BY <2>1, RouteIsBest
        <4>2. 1 \in DOMAIN route.chain
          BY <4>1, EmptySeq, LenProperties
        <4>3. route.chain[1] \in suited /\ route.chain[1] \in DOMAIN v
          BY <4>1, <4>2, LenProperties DEF Router!ToSet
        <4>4. v[route.chain[1]] = configs[route.chain[1]]
          BY <4>3 DEF Router!RoutingView
        <4> QED
          BY <2>2, <4>3, <4>4
      <3> QED
        BY <3>1, <3>2
    <2>5. \A p : Router!Wire(p, "on") # "disabled"
      BY DEF Router!Wire
    <2> QED
      BY <2>2, <2>3, <2>4, <2>5
  <1>4. RouterInv => RouteKeepsTerms
    BY <1>2, <1>3 DEF RouteKeepsTerms
  <1> QED
    BY <1>4, RouterInvariant, PTL
==============================================================================
