---------------------------- MODULE Sessions_proofs ----------------------------
(***************************************************************************)
(* For any number of slots, passwords and sessions: what one refresh token *)
(* can mint, what survives a revocation of everything, and what an older   *)
(* password leaves open.                                                   *)
(***************************************************************************)
EXTENDS Sessions, FiniteSetTheorems, SequenceTheorems, TLAPS

-----------------------------------------------------------------------------
\* Types.

\* The table is a sequence of rows.
LEMMA RowFacts ==
    ASSUME TypeOK
    PROVE  /\ Len(sessions) \in Nat /\ DOMAIN sessions = 1..Len(sessions)
           /\ DOMAIN sessions \subseteq 1..MaxSessions
           /\ sessions \in [DOMAIN sessions -> Session]
           /\ \A i \in DOMAIN sessions : sessions[i] \in Session
<1>1. Len(sessions) \in Nat /\ DOMAIN sessions = 1..Len(sessions) /\ Len(sessions) <= MaxSessions
    BY LenProperties DEF TypeOK
<1>2. sessions \in [DOMAIN sessions -> Session] /\ \A i \in DOMAIN sessions : sessions[i] \in Session
    BY <1>1, LenProperties, ElementOfSeq DEF TypeOK
<1> QED BY <1>1, <1>2, SessionAssumption

\* An UPDATE keeps the rows of the table.
LEMMA Updated ==
    ASSUME TypeOK, NEW f \in [DOMAIN sessions -> Session]
    PROVE  f \in Seq(Session) /\ Len(f) = Len(sessions) /\ DOMAIN f = DOMAIN sessions
<1>1. Len(sessions) \in Nat /\ DOMAIN sessions = 1..Len(sessions)
    BY RowFacts
<1>2. f \in Seq(Session)
    BY <1>1, SeqDef
<1> QED BY <1>1, <1>2, LenProperties

\* createSessionWithMetadata appends a usable session that remembers what it
\* rests on.
LEMMA OpenedRow ==
    ASSUME TypeOK, NEW v \in Slots, OpenSession(v)
    PROVE  /\ sessions' \in Seq(Session) /\ Len(sessions') = Len(sessions) + 1
           /\ DOMAIN sessions' = DOMAIN sessions \cup {Len(sessions) + 1}
           /\ Len(sessions) + 1 \notin DOMAIN sessions
           /\ \A i \in DOMAIN sessions : sessions'[i] = sessions[i]
           /\ sessions'[Len(sessions) + 1].parent = target[v]
           /\ sessions'[Len(sessions) + 1].via = pw[v]
           /\ sessions'[Len(sessions) + 1].late = late[v]
<1> DEFINE row == [revoked |-> FALSE, age |-> "valid", parent |-> target[v],
                   via |-> pw[v], late |-> late[v]]
<1>1. row \in Session
    BY DEF TypeOK, Session
<1>2. sessions' = Append(sessions, row)
    BY DEF OpenSession
<1>3. Len(sessions) \in Nat /\ DOMAIN sessions = 1..Len(sessions)
    BY RowFacts
<1>4. row.parent = target[v] /\ row.via = pw[v] /\ row.late = late[v]
    OBVIOUS
<1> HIDE DEF row
<1>5. /\ sessions' \in Seq(Session) /\ Len(sessions') = Len(sessions) + 1
      /\ \A i \in 1..Len(sessions) : sessions'[i] = sessions[i]
      /\ sessions'[Len(sessions) + 1] = row
    BY <1>1, <1>2, AppendProperties DEF TypeOK
<1>6. DOMAIN sessions' = 1..Len(sessions')
    BY <1>5, LenProperties
<1>7. DOMAIN sessions' = DOMAIN sessions \cup {Len(sessions) + 1}
    BY <1>3, <1>5, <1>6
<1> QED BY <1>3, <1>4, <1>5, <1>7

\* A statement other than the INSERT keeps what a session rests on, and none
\* gives a session back what it lost.
Rewritten ==
    /\ sessions' \in [DOMAIN sessions -> Session]
    /\ \A i \in DOMAIN sessions :
          /\ sessions'[i].parent = sessions[i].parent
          /\ sessions'[i].via = sessions[i].via
          /\ sessions[i].revoked => sessions'[i].revoked
          /\ sessions[i].age = "dead" => sessions'[i].age = "dead"

\* Every action but OpenSession rewrites the rows; what RevokeAll does to the
\* flag late is said apart.
LEMMA OthersRewrite ==
    ASSUME TypeOK, [Next]_vars, \A v \in Slots : ~OpenSession(v)
    PROVE  /\ Rewritten
           /\ (\A v \in Slots : ~RevokeAll(v)) =>
                 \A i \in DOMAIN sessions : sessions'[i].late = sessions[i].late
<1> DEFINE Dom == DOMAIN sessions
           Lates == \A i \in Dom : sessions'[i].late = sessions[i].late
<1>1. sessions \in [Dom -> Session] /\ \A i \in Dom : sessions[i] \in Session
    BY RowFacts
<1>2. CASE UNCHANGED sessions
    BY <1>1, <1>2 DEF Rewritten
<1>3. ASSUME NEW v \in Slots, RevokeAll(v) PROVE Rewritten
  <2>1. sessions' = [i \in Dom |-> [sessions[i] EXCEPT !.revoked = TRUE, !.late = TRUE]]
      BY <1>3 DEF RevokeAll
  <2>2. ASSUME NEW i \in Dom
        PROVE  /\ sessions'[i] \in Session
               /\ sessions'[i].parent = sessions[i].parent
               /\ sessions'[i].via = sessions[i].via
               /\ sessions'[i].revoked
               /\ sessions'[i].age = sessions[i].age
    <3>1. sessions'[i] = [sessions[i] EXCEPT !.revoked = TRUE, !.late = TRUE]
        BY <2>1
    <3>2. sessions[i] \in Session
        BY <1>1
    <3> QED BY <3>1, <3>2 DEF Session
  <2>3. sessions' \in [Dom -> Session]
      BY <2>1, <2>2
  <2> QED BY <2>2, <2>3 DEF Rewritten
<1>4. ASSUME NEW i \in Dom, NEW row \in Session,
             /\ row.parent = sessions[i].parent /\ row.via = sessions[i].via
             /\ row.late = sessions[i].late
             /\ sessions[i].revoked => row.revoked
             /\ sessions[i].age = "dead" => row.age = "dead",
             sessions' = [sessions EXCEPT ![i] = row]
      PROVE  Rewritten /\ Lates
  <2>1. sessions' \in [Dom -> Session]
      BY <1>1, <1>4
  <2>2. sessions'[i] = row /\ \A j \in Dom : j # i => sessions'[j] = sessions[j]
      BY <1>1, <1>4
  <2> QED BY <1>4, <2>1, <2>2 DEF Rewritten
<1>5. ASSUME NEW v \in Slots, Retire(v) PROVE Rewritten /\ Lates
  <2>1. sessions' = [sessions EXCEPT ![target[v]].revoked = TRUE]
      BY <1>5 DEF Retire
  <2>2. CASE target[v] \in Dom
    <3>1. PICK row : row = [sessions[target[v]] EXCEPT !.revoked = TRUE]
        OBVIOUS
    <3>0. sessions[target[v]] \in Session
        BY <1>1, <2>2
    <3>2. row \in Session /\ row.revoked /\ row.parent = sessions[target[v]].parent
          /\ row.via = sessions[target[v]].via /\ row.late = sessions[target[v]].late
          /\ row.age = sessions[target[v]].age
        BY <3>0, <3>1 DEF Session
    <3>3. sessions' = [sessions EXCEPT ![target[v]] = row]
        BY <2>1, <3>1
    <3> HIDE DEF Lates
    <3> QED BY <1>4, <2>2, <3>2, <3>3
  <2>3. CASE target[v] \notin Dom
    <3>1. sessions' = sessions
        BY <1>1, <2>1, <2>3
    <3> QED BY <1>2, <3>1
  <2> QED BY <2>2, <2>3
<1>6. ASSUME NEW i \in Dom, Expire(i) PROVE Rewritten /\ Lates
  <2>1. PICK age \in {"expired", "dead"} :
            /\ sessions' = [sessions EXCEPT ![i].age = age]
            /\ sessions[i].age # "dead"
      BY <1>6 DEF Expire
  <2>2. PICK row : row = [sessions[i] EXCEPT !.age = age]
      OBVIOUS
  <2>0. sessions[i] \in Session
      BY <1>1
  <2>3. /\ row \in Session /\ row.parent = sessions[i].parent /\ row.via = sessions[i].via
        /\ row.late = sessions[i].late
        /\ sessions[i].revoked => row.revoked
      BY <2>0, <2>2 DEF Session
  <2>4. sessions' = [sessions EXCEPT ![i] = row]
      BY <2>1, <2>2
  <2> HIDE DEF Lates
  <2> QED BY <1>4, <2>1, <2>3, <2>4
<1>7. ASSUME NEW v \in Slots,
             \/ Login(v) \/ SignIn(v) \/ Register(v) \/ Reset(v) \/ Change(v)
             \/ Refresh(v) \/ Logout(v) \/ LogoutAll(v)
             \/ Prove(v) \/ SavePassword(v) \/ SaveMirror(v) \/ Abandon(v)
      PROVE  UNCHANGED sessions
    BY <1>7 DEF Login, SignIn, Register, Reset, Change, Refresh, Logout, LogoutAll,
                Prove, SavePassword, SaveMirror, Abandon
<1>8. CASE UNCHANGED vars
    BY <1>2, <1>8 DEF vars
<1> QED BY <1>2, <1>3, <1>5, <1>6, <1>7, <1>8 DEF Next

\* One slot serves its handler, the others keep theirs; their authority may
\* become outdated.
Served(v) ==
    /\ pc' \in [Slots -> Stage] /\ kind' \in [Slots -> Kinds]
    /\ pw' \in [Slots -> Secret] /\ target' \in [Slots -> 0..MaxSessions]
    /\ late' \in [Slots -> BOOLEAN]
    /\ \A w \in Slots : w # v =>
          pc'[w] = pc[w] /\ kind'[w] = kind[w] /\ pw'[w] = pw[w] /\ target'[w] = target[w]

SameLate(v) == \A w \in Slots : w # v => late'[w] = late[w]

\* A handler begins.
LEMMA Begins ==
    ASSUME TypeOK, NEW v \in Slots, NEW k \in Kinds, NEW p \in Secret,
           NEW i \in 0..MaxSessions, NEW stage \in Stage, Begin(v, k, p, i, stage)
    PROVE  /\ Served(v) /\ SameLate(v) /\ pc[v] = "idle"
           /\ pc'[v] = stage /\ kind'[v] = k /\ pw'[v] = p /\ target'[v] = i /\ ~late'[v]
<1>1. /\ pc' = [pc EXCEPT ![v] = stage] /\ kind' = [kind EXCEPT ![v] = k]
      /\ pw' = [pw EXCEPT ![v] = p] /\ target' = [target EXCEPT ![v] = i]
      /\ late' = [late EXCEPT ![v] = FALSE] /\ pc[v] = "idle"
    BY DEF Begin
<1>2. /\ pc \in [Slots -> Stage] /\ kind \in [Slots -> Kinds]
      /\ pw \in [Slots -> Secret] /\ target \in [Slots -> 0..MaxSessions]
      /\ late \in [Slots -> BOOLEAN]
    BY DEF TypeOK
<1>3. late' \in [Slots -> BOOLEAN] /\ SameLate(v) /\ ~late'[v]
    BY <1>1, <1>2 DEF SameLate
<1> QED BY <1>1, <1>2, <1>3 DEF Served

\* A handler goes on to its next statement.
LEMMA Goes ==
    ASSUME TypeOK, NEW v \in Slots, NEW stage \in Stage, Goto(v, stage)
    PROVE  /\ Served(v) /\ late' = late
           /\ pc'[v] = stage /\ kind'[v] = kind[v] /\ pw'[v] = pw[v] /\ target'[v] = target[v]
    BY DEF TypeOK, Goto, Served

\* A handler returns.
LEMMA Forgets ==
    ASSUME TypeOK, NEW v \in Slots, NEW flags \in [Slots -> BOOLEAN], Forget(v, flags)
    PROVE  /\ Served(v) /\ \A w \in Slots : w # v => late'[w] = flags[w]
           /\ pc'[v] = "idle" /\ kind'[v] = "none" /\ pw'[v] = NoPassword
           /\ target'[v] = 0 /\ ~late'[v]
<1>1. /\ pc' = [pc EXCEPT ![v] = "idle"] /\ kind' = [kind EXCEPT ![v] = "none"]
      /\ pw' = [pw EXCEPT ![v] = NoPassword] /\ target' = [target EXCEPT ![v] = 0]
      /\ late' = [flags EXCEPT ![v] = FALSE]
    BY DEF Forget
<1>2. /\ pc \in [Slots -> Stage] /\ kind \in [Slots -> Kinds]
      /\ pw \in [Slots -> Secret] /\ target \in [Slots -> 0..MaxSessions]
    BY DEF TypeOK
<1>3. late' \in [Slots -> BOOLEAN] /\ ~late'[v] /\ \A w \in Slots : w # v => late'[w] = flags[w]
    BY <1>1
<1>4. "idle" \in Stage /\ "none" \in Kinds /\ NoPassword \in Secret /\ 0 \in 0..MaxSessions
    BY SessionAssumption DEF Stage, Kinds, Secret
<1> QED BY <1>1, <1>2, <1>3, <1>4 DEF Served

\* revokeAllSessions outdates the authority of everybody else; only a change
\* of password goes on.
LEMMA RevokeServes ==
    ASSUME TypeOK, NEW v \in Slots, RevokeAll(v)
    PROVE  /\ Served(v) /\ ~late'[v]
           /\ \/ /\ kind[v] = "change" /\ pc'[v] = "open" /\ kind'[v] = kind[v]
                 /\ pw'[v] = pw[v] /\ target'[v] = target[v]
              \/ /\ kind[v] # "change" /\ pc'[v] = "idle" /\ kind'[v] = "none"
                 /\ pw'[v] = NoPassword /\ target'[v] = 0
<1>1. Outdated(v) \in [Slots -> BOOLEAN] /\ ~Outdated(v)[v]
    BY DEF Outdated
<1>2. CASE kind[v] = "change"
  <2>1. /\ pc' = [pc EXCEPT ![v] = "open"] /\ late' = Outdated(v)
        /\ UNCHANGED <<kind, pw, target>>
      BY <1>2 DEF RevokeAll
  <2>2. ~late'[v] /\ late' \in [Slots -> BOOLEAN]
      BY <1>1, <2>1
  <2>3. /\ pc' \in [Slots -> Stage] /\ pc'[v] = "open"
        /\ \A w \in Slots : w # v => pc'[w] = pc[w]
      BY <2>1 DEF TypeOK, Stage
  <2> QED BY <1>2, <2>1, <2>2, <2>3 DEF Served, TypeOK
<1>3. CASE kind[v] # "change"
  <2>1. Forget(v, Outdated(v))
      BY <1>3 DEF RevokeAll
  <2> QED BY <1>1, <1>3, <2>1, Forgets
<1> QED BY <1>2, <1>3

-----------------------------------------------------------------------------
\* What each handler is about at each of its stages.

PasswordKinds == {"login", "register", "reset", "change"}
RowKinds == {"refresh", "logout"}

Shape(k, stage, p, i) ==
    /\ k = "none" <=> stage = "idle"
    /\ k \in PasswordKinds => p \in Passwords
    /\ k \notin PasswordKinds => p = NoPassword
    /\ k \in RowKinds => i \in DOMAIN sessions
    /\ k \notin RowKinds => i = 0
    /\ stage \in {"save", "mirror"} => k \in PasswordKinds
    /\ stage = "prove" => k = "change"
    /\ stage = "revoke" => k \in {"reset", "change", "logoutAll"}
    /\ stage = "retire" => k \in RowKinds
    /\ stage = "open" => k \in {"login", "signin", "register", "change", "refresh"}
    /\ k = "refresh" => stage \in {"retire", "open"}

SlotShape == \A v \in Slots : Shape(kind[v], pc[v], pw[v], target[v])

\* No row is deleted.
LEMMA RowsStay ==
    ASSUME TypeOK, [Next]_vars
    PROVE  /\ sessions' \in Seq(Session) /\ Len(sessions') <= MaxSessions
           /\ DOMAIN sessions \subseteq DOMAIN sessions'
<1>1. ASSUME NEW v \in Slots, OpenSession(v)
      PROVE  /\ sessions' \in Seq(Session) /\ Len(sessions') <= MaxSessions
             /\ DOMAIN sessions \subseteq DOMAIN sessions'
  <2>1. Len(sessions) < MaxSessions
      BY <1>1 DEF OpenSession
  <2>2. Len(sessions) \in Nat /\ Len(sessions) + 1 <= MaxSessions
      BY <2>1, RowFacts, SessionAssumption
  <2> QED BY <1>1, <2>2, OpenedRow
<1>2. CASE \A v \in Slots : ~OpenSession(v)
  <2>1. sessions' \in [DOMAIN sessions -> Session]
      BY <1>2, OthersRewrite DEF Rewritten
  <2>2. sessions' \in Seq(Session) /\ Len(sessions') = Len(sessions) /\ DOMAIN sessions' = DOMAIN sessions
      BY <2>1, Updated
  <2> QED BY <2>2 DEF TypeOK
<1> QED BY <1>1, <1>2

\* A slot that is served as its handler is written keeps the shape of all.
LEMMA ServedShape ==
    ASSUME TypeOK, SlotShape, [Next]_vars, NEW v \in Slots, Served(v),
           Shape(kind'[v], pc'[v], pw'[v], target'[v])
    PROVE  SlotShape'
<1> SUFFICES ASSUME NEW w \in Slots PROVE Shape(kind[w], pc[w], pw[w], target[w])'
    BY DEF SlotShape
<1>1. DOMAIN sessions \subseteq DOMAIN sessions'
    BY RowsStay
<1>2. Shape(kind'[w], pc'[w], pw'[w], target'[w])
    BY DEF SlotShape, Served
<1> QED BY <1>1, <1>2 DEF Shape

\* Every handler takes its stages in the order of its statements.
LEMMA SlotStep ==
    ASSUME TypeOK, SlotShape, [Next]_vars
    PROVE  /\ \/ UNCHANGED slotVars
              \/ \E v \in Slots : Served(v)
           /\ SlotShape'
<1> DEFINE Goal == (UNCHANGED slotVars \/ \E v \in Slots : Served(v)) /\ SlotShape'
<1>1. DOMAIN sessions \subseteq 0..MaxSessions /\ 0 \in 0..MaxSessions
    BY RowFacts, SessionAssumption
<1>2. CASE UNCHANGED slotVars
  <2>1. DOMAIN sessions \subseteq DOMAIN sessions'
      BY RowsStay
  <2> QED BY <1>2, <2>1 DEF slotVars, SlotShape, Shape
<1>3. ASSUME NEW v \in Slots, Served(v), Shape(kind'[v], pc'[v], pw'[v], target'[v])
      PROVE  Goal
    BY <1>3, ServedShape
<1>4. ASSUME NEW v \in Slots, NEW k \in Kinds, NEW p \in Secret, NEW i \in 0..MaxSessions,
             NEW stage \in Stage, Begin(v, k, p, i, stage), Shape(k, stage, p, i)
      PROVE  Goal
  <2>1. Served(v) /\ pc'[v] = stage /\ kind'[v] = k /\ pw'[v] = p /\ target'[v] = i
      BY <1>4, Begins
  <2> QED BY <1>3, <1>4, <2>1
<1>5. ASSUME NEW v \in Slots, NEW stage \in Stage, Goto(v, stage),
             Shape(kind[v], stage, pw[v], target[v])
      PROVE  Goal
  <2>1. Served(v) /\ pc'[v] = stage /\ kind'[v] = kind[v] /\ pw'[v] = pw[v] /\ target'[v] = target[v]
      BY <1>5, Goes
  <2> QED BY <1>3, <1>5, <2>1
<1>6. Shape("none", "idle", NoPassword, 0)
    BY DEF Shape, PasswordKinds, RowKinds
<1>7. ASSUME NEW v \in Slots, Forget(v, late) PROVE Goal
  <2>1. Served(v) /\ pc'[v] = "idle" /\ kind'[v] = "none" /\ pw'[v] = NoPassword /\ target'[v] = 0
      BY <1>7, Forgets DEF TypeOK
  <2> QED BY <1>3, <1>6, <2>1
<1> HIDE DEF Goal
<1> USE DEF Kinds, Secret, Stage, Shape, PasswordKinds, RowKinds
<1>8. ASSUME NEW v \in Slots, Login(v) PROVE Goal
  <2>1. PICK p \in Passwords, stage \in {"save", "open"} : Begin(v, "login", p, 0, stage)
      BY <1>8 DEF Login
  <2> QED BY <1>1, <1>4, <2>1
<1>9. ASSUME NEW v \in Slots, SignIn(v) PROVE Goal
    BY <1>1, <1>4, <1>9 DEF SignIn
<1>10. ASSUME NEW v \in Slots, Register(v) PROVE Goal
    BY <1>1, <1>4, <1>10 DEF Register
<1>11. ASSUME NEW v \in Slots, Reset(v) PROVE Goal
    BY <1>1, <1>4, <1>11 DEF Reset
<1>12. ASSUME NEW v \in Slots, Change(v) PROVE Goal
    BY <1>1, <1>4, <1>12 DEF Change
<1>13. ASSUME NEW v \in Slots, Refresh(v) PROVE Goal
    BY <1>1, <1>4, <1>13 DEF Refresh
<1>14. ASSUME NEW v \in Slots, Logout(v) PROVE Goal
    BY <1>1, <1>4, <1>14 DEF Logout
<1>15. ASSUME NEW v \in Slots, LogoutAll(v) PROVE Goal
    BY <1>1, <1>4, <1>15 DEF LogoutAll
<1>16. ASSUME NEW v \in Slots, Prove(v) PROVE Goal
    BY <1>5, <1>16 DEF Prove, SlotShape
<1>17. ASSUME NEW v \in Slots, SavePassword(v) PROVE Goal
    BY <1>5, <1>17 DEF SavePassword, SlotShape
<1>18. ASSUME NEW v \in Slots, SaveMirror(v) PROVE Goal
  <2>1. PICK stage \in {"revoke", "open"} :
            Goto(v, stage) /\ (stage = "revoke" <=> kind[v] \in Revoking)
      BY <1>18 DEF SaveMirror
  <2>2. Shape(kind[v], pc[v], pw[v], target[v]) /\ pc[v] = "mirror"
      BY <1>18 DEF SaveMirror, SlotShape
  <2> QED BY <1>5, <2>1, <2>2 DEF Revoking
<1>19. ASSUME NEW v \in Slots, RevokeAll(v) PROVE Goal
  <2>1. Shape(kind[v], pc[v], pw[v], target[v]) /\ pc[v] = "revoke"
      BY <1>19 DEF RevokeAll, SlotShape
  <2>2. Served(v) /\ Shape(kind'[v], pc'[v], pw'[v], target'[v])
      BY <1>6, <1>19, <2>1, RevokeServes
  <2> QED BY <1>3, <2>2
<1>20. ASSUME NEW v \in Slots, Retire(v) PROVE Goal
  <2>1. Shape(kind[v], pc[v], pw[v], target[v]) /\ pc[v] = "retire"
      BY <1>20 DEF Retire, SlotShape
  <2>2. CASE kind[v] = "refresh"
      BY <1>5, <1>20, <2>1, <2>2 DEF Retire
  <2>3. CASE kind[v] # "refresh"
      BY <1>7, <1>20, <2>3 DEF Retire
  <2> QED BY <2>2, <2>3
<1>21. ASSUME NEW v \in Slots, OpenSession(v) \/ Abandon(v) PROVE Goal
    BY <1>7, <1>21 DEF OpenSession, Abandon
<1>22. CASE (\E i \in DOMAIN sessions : Expire(i)) \/ UNCHANGED vars
  <2>1. UNCHANGED slotVars
      BY <1>22 DEF Expire, vars
  <2> QED BY <1>2, <2>1 DEF Goal
<1> QED
    BY <1>8, <1>9, <1>10, <1>11, <1>12, <1>13, <1>14, <1>15, <1>16, <1>17, <1>18, <1>19,
       <1>20, <1>21, <1>22 DEF Next, Goal

\* Every step keeps the types.
LEMMA TypeStep == ASSUME TypeOK, SlotShape, [Next]_vars PROVE TypeOK'
<1>1. sessions' \in Seq(Session) /\ Len(sessions') <= MaxSessions
    BY RowsStay
<1>2. /\ pc' \in [Slots -> Stage] /\ kind' \in [Slots -> Kinds]
      /\ pw' \in [Slots -> Secret] /\ target' \in [Slots -> 0..MaxSessions]
      /\ late' \in [Slots -> BOOLEAN]
    BY SlotStep DEF Served, slotVars, TypeOK
<1>3. /\ stored' \in [pw : Secret, hash : {"current", "legacy"}]
      /\ mirror' \in Secret /\ chosen' \in Secret /\ lapsed' \in BOOLEAN
  <2> USE DEF TypeOK
  <2>1. ASSUME NEW v \in Slots, SavePassword(v)
        PROVE  /\ stored' \in [pw : Secret, hash : {"current", "legacy"}]
               /\ mirror' \in Secret /\ chosen' \in Secret /\ lapsed' \in BOOLEAN
      BY <2>1 DEF SavePassword
  <2>2. ASSUME NEW v \in Slots, SaveMirror(v) \/ RevokeAll(v) \/ Abandon(v)
        PROVE  /\ stored' = stored /\ mirror' \in Secret /\ chosen' \in Secret
               /\ lapsed' \in BOOLEAN
      BY <2>2 DEF SaveMirror, RevokeAll, Abandon, historyVars
  <2>3. ASSUME NEW v \in Slots,
               \/ Login(v) \/ SignIn(v) \/ Register(v) \/ Reset(v) \/ Change(v)
               \/ Refresh(v) \/ Logout(v) \/ LogoutAll(v)
               \/ Prove(v) \/ Retire(v) \/ OpenSession(v)
        PROVE  UNCHANGED <<stored, mirror, chosen, lapsed>>
      BY <2>3 DEF Login, SignIn, Register, Reset, Change, Refresh, Logout, LogoutAll,
                  Prove, Retire, OpenSession, historyVars
  <2>4. CASE (\E i \in DOMAIN sessions : Expire(i)) \/ UNCHANGED vars
      BY <2>4 DEF Expire, vars, historyVars
  <2> QED BY <2>1, <2>2, <2>3, <2>4 DEF Next
<1> QED BY <1>1, <1>2, <1>3 DEF TypeOK

\* The types of the tables and of the handlers' locals, and the stages each
\* handler goes through (auth/routes.js, auth/session.js).
THEOREM SessionsTypeCorrect == Spec => [](TypeOK /\ SlotShape)
<1>1. Init => TypeOK /\ SlotShape
  <2> SUFFICES ASSUME Init PROVE TypeOK /\ SlotShape
      OBVIOUS
  <2>1. SlotShape
      BY DEF Init, SlotShape, Shape, PasswordKinds, RowKinds
  <2>2. stored \in [pw : Secret, hash : {"current", "legacy"}]
    <3>1. CASE stored \in [pw : Passwords, hash : Hashing]
        BY <3>1, SessionAssumption DEF Secret
    <3>2. CASE stored = [pw |-> NoPassword, hash |-> "current"]
        BY <3>2 DEF Secret
    <3> QED BY <3>1, <3>2 DEF Init
  <2>3. sessions \in Seq(Session) /\ Len(sessions) <= MaxSessions
      BY EmptySeq, SessionAssumption DEF Init
  <2>4. stored.pw \in Secret
      BY <2>2
  <2>5. /\ pc \in [Slots -> Stage] /\ kind \in [Slots -> Kinds] /\ pw \in [Slots -> Secret]
        /\ target \in [Slots -> 0..MaxSessions] /\ late \in [Slots -> BOOLEAN]
        /\ lapsed \in BOOLEAN
    <3>1. /\ pc = [v \in Slots |-> "idle"] /\ kind = [v \in Slots |-> "none"]
          /\ pw = [v \in Slots |-> NoPassword] /\ target = [v \in Slots |-> 0]
          /\ late = [v \in Slots |-> FALSE] /\ lapsed = FALSE
        BY DEF Init
    <3>2. 0 \in 0..MaxSessions
        BY SessionAssumption
    <3> QED BY <3>1, <3>2 DEF Stage, Kinds, Secret
  <2>6. mirror \in Secret /\ chosen \in Secret
      BY <2>4 DEF Init
  <2> QED BY <2>1, <2>2, <2>3, <2>5, <2>6 DEF TypeOK
<1>2. TypeOK /\ SlotShape /\ [Next]_vars => TypeOK' /\ SlotShape'
    BY TypeStep, SlotStep
<1> QED BY <1>1, <1>2, PTL DEF Spec

-----------------------------------------------------------------------------
\* What one refresh token can mint.

\* A session rests on an older one that is revoked, and a refresh that is about
\* to open its session has revoked the one it rests on.
Rotation ==
    /\ \A j \in DOMAIN sessions :
          /\ sessions[j].parent \in DOMAIN sessions \cup {0}
          /\ sessions[j].parent # 0 => sessions[sessions[j].parent].revoked
    /\ \A v \in Slots :
          kind[v] = "refresh" /\ pc[v] = "open" => sessions[target[v]].revoked

\* Finitely many sessions and slots hang on one session.
LEMMA MintFinite ==
    ASSUME TypeOK, TypeOK', NEW i
    PROVE  /\ IsFiniteSet(Minted(i)) /\ IsFiniteSet(Minting(i))
           /\ Cardinality(Minted(i)) \in Nat /\ Cardinality(Minting(i)) \in Nat
           /\ IsFiniteSet(Minted(i)') /\ IsFiniteSet(Minting(i)')
           /\ Cardinality(Minted(i)') \in Nat /\ Cardinality(Minting(i)') \in Nat
           /\ Cardinality(Minting(i)') <= Cardinality(Slots)
           /\ Cardinality(Slots) \in Nat
<1>1. Minting(i) \in SUBSET Slots /\ Minting(i)' \in SUBSET Slots
    BY DEF Minting
<1>2. Minted(i) \in SUBSET (1..Len(sessions)) /\ IsFiniteSet(1..Len(sessions))
  <2>1. Len(sessions) \in Nat /\ DOMAIN sessions = 1..Len(sessions)
      BY RowFacts
  <2>2. IsFiniteSet(1..Len(sessions))
      BY <2>1, FS_Interval
  <2> QED BY <2>1, <2>2 DEF Minted
<1>3. Minted(i)' \in SUBSET (1..Len(sessions')) /\ IsFiniteSet(1..Len(sessions'))
  <2>1. Len(sessions') \in Nat /\ DOMAIN sessions' = 1..Len(sessions')
      BY LenProperties DEF TypeOK
  <2>2. IsFiniteSet(1..Len(sessions'))
      BY <2>1, FS_Interval
  <2> QED BY <2>1, <2>2 DEF Minted
<1> QED BY <1>1, <1>2, <1>3, SessionAssumption, FS_Subset, FS_CardinalityType

\* Opening a session.
LEMMA RotationOpen ==
    ASSUME TypeOK, SlotShape, Rotation, NEW v \in Slots, OpenSession(v)
    PROVE  Rotation'
<1>1. /\ DOMAIN sessions' = DOMAIN sessions \cup {Len(sessions) + 1}
      /\ Len(sessions) + 1 \notin DOMAIN sessions
      /\ \A i \in DOMAIN sessions : sessions'[i] = sessions[i]
      /\ sessions'[Len(sessions) + 1].parent = target[v]
    BY OpenedRow
<1>2. /\ target[v] \in DOMAIN sessions => sessions[target[v]].revoked
      /\ target[v] \in DOMAIN sessions \cup {0}
  <2>1. Shape(kind[v], pc[v], pw[v], target[v]) /\ pc[v] = "open"
      BY DEF SlotShape, OpenSession
  <2>2. 0 \notin DOMAIN sessions
      BY RowFacts
  <2> QED BY <2>1, <2>2 DEF Shape, RowKinds, Rotation
<1>3. /\ \A w \in Slots : kind'[w] = "refresh" => kind[w] = "refresh" /\ pc'[w] = pc[w] /\ target'[w] = target[w]
  <2>1. Served(v) /\ kind'[v] = "none"
      BY Forgets DEF OpenSession, TypeOK
  <2> QED BY <2>1 DEF Served
<1>4. \A w \in Slots : kind[w] = "refresh" => target[w] \in DOMAIN sessions
    BY DEF SlotShape, Shape, RowKinds
<1>5. ASSUME NEW j \in DOMAIN sessions'
      PROVE  /\ sessions'[j].parent \in DOMAIN sessions' \cup {0}
             /\ sessions'[j].parent # 0 => sessions'[sessions'[j].parent].revoked
    BY <1>1, <1>2, <1>5 DEF Rotation
<1>6. ASSUME NEW w \in Slots, kind'[w] = "refresh", pc'[w] = "open"
      PROVE  sessions'[target'[w]].revoked
    BY <1>1, <1>3, <1>4, <1>6 DEF Rotation
<1> QED BY <1>5, <1>6 DEF Rotation

\* Every other statement: revoked stays revoked, and only Retire goes on to
\* open a refreshed session.
LEMMA RotationStep ==
    ASSUME TypeOK, SlotShape, Rotation, [Next]_vars
    PROVE  Rotation'
<1>1. ASSUME NEW v \in Slots, OpenSession(v) PROVE Rotation'
    BY <1>1, RotationOpen
<1>2. CASE \A v \in Slots : ~OpenSession(v)
  <2>1. Rewritten /\ DOMAIN sessions' = DOMAIN sessions
      BY <1>2, OthersRewrite DEF Rewritten
  <2>2. ASSUME NEW j \in DOMAIN sessions'
        PROVE  /\ sessions'[j].parent \in DOMAIN sessions' \cup {0}
               /\ sessions'[j].parent # 0 => sessions'[sessions'[j].parent].revoked
      BY <2>1, <2>2 DEF Rotation, Rewritten
  <2>3. \A w \in Slots : kind[w] = "refresh" => target[w] \in DOMAIN sessions
      BY DEF SlotShape, Shape, RowKinds
  <2>4. ASSUME NEW w \in Slots, kind'[w] = "refresh", pc'[w] = "open"
        PROVE  sessions'[target'[w]].revoked
    <3>1. CASE kind[w] = "refresh" /\ pc[w] = "open" /\ target'[w] = target[w]
        BY <2>1, <2>3, <3>1 DEF Rotation, Rewritten
    <3>2. CASE Retire(w) /\ kind[w] = "refresh"
      <4>1. target'[w] = target[w] /\ target[w] \in DOMAIN sessions
          BY <2>3, <3>2 DEF Retire, Goto
      <4>2. sessions[target[w]] \in Session
          BY <4>1, RowFacts
      <4>3. sessions'[target[w]].revoked
          BY <3>2, <4>1, <4>2 DEF Retire, Session
      <4> QED BY <4>1, <4>3
    <3>3. \/ kind[w] = "refresh" /\ pc[w] = "open" /\ target'[w] = target[w]
          \/ Retire(w) /\ kind[w] = "refresh"
      <4> USE <2>4 DEF TypeOK
      <4>1. ASSUME NEW v \in Slots, NEW k \in Kinds, NEW p \in Secret, NEW i \in 0..MaxSessions,
                   NEW stage \in Stage, Begin(v, k, p, i, stage),
                   k # "refresh" \/ stage # "open"
            PROVE  kind[w] = "refresh" /\ pc[w] = "open" /\ target'[w] = target[w]
        <5>1. Served(v) /\ kind'[v] = k /\ pc'[v] = stage
            BY <4>1, Begins
        <5> QED BY <4>1, <5>1 DEF Served
      <4>2. ASSUME NEW v \in Slots, NEW stage \in Stage, Goto(v, stage),
                   w = v => kind[v] # "refresh" \/ stage # "open"
            PROVE  kind[w] = "refresh" /\ pc[w] = "open" /\ target'[w] = target[w]
        <5>1. Served(v) /\ kind'[v] = kind[v] /\ pc'[v] = stage
            BY <4>2, Goes
        <5> QED BY <4>2, <5>1 DEF Served
      <4>3. ASSUME NEW v \in Slots, Forget(v, late)
            PROVE  kind[w] = "refresh" /\ pc[w] = "open" /\ target'[w] = target[w]
        <5>1. Served(v) /\ kind'[v] = "none"
            BY <4>3, Forgets
        <5> QED BY <5>1 DEF Served
      <4>4. ASSUME NEW v \in Slots, RevokeAll(v)
            PROVE  kind[w] = "refresh" /\ pc[w] = "open" /\ target'[w] = target[w]
        <5>1. Served(v) /\ kind'[v] \in {"change", "none"}
            BY <4>4, RevokeServes
        <5> QED BY <5>1 DEF Served
      <4>5. 0 \in 0..MaxSessions /\ DOMAIN sessions \subseteq 0..MaxSessions
          BY RowFacts, SessionAssumption
      <4>6. ASSUME NEW v \in Slots, Login(v) \/ SignIn(v) \/ Register(v) \/ Reset(v) \/ Change(v)
            PROVE  kind[w] = "refresh" /\ pc[w] = "open" /\ target'[w] = target[w]
        <5>1. PICK k \in Kinds, p \in Secret, stage \in Stage :
                  k # "refresh" /\ Begin(v, k, p, 0, stage)
            BY <4>6 DEF Login, SignIn, Register, Reset, Change, Kinds, Stage, Secret
        <5> QED BY <4>1, <4>5, <5>1
      <4>7. ASSUME NEW v \in Slots, Refresh(v) \/ Logout(v) \/ LogoutAll(v)
            PROVE  kind[w] = "refresh" /\ pc[w] = "open" /\ target'[w] = target[w]
        <5>1. PICK k \in Kinds, p \in Secret, i \in 0..MaxSessions, stage \in Stage :
                  stage # "open" /\ Begin(v, k, p, i, stage)
            BY <4>5, <4>7 DEF Refresh, Logout, LogoutAll, Kinds, Stage, Secret
        <5> QED BY <4>1, <5>1
      <4>8. ASSUME NEW v \in Slots, Prove(v) \/ SavePassword(v)
            PROVE  kind[w] = "refresh" /\ pc[w] = "open" /\ target'[w] = target[w]
          BY <4>2, <4>8 DEF Prove, SavePassword, Stage
      <4>9. ASSUME NEW v \in Slots, SaveMirror(v)
            PROVE  kind[w] = "refresh" /\ pc[w] = "open" /\ target'[w] = target[w]
        <5>1. kind[v] # "refresh"
            BY <4>9 DEF SaveMirror, SlotShape, Shape
        <5>2. PICK stage \in {"revoke", "open"} : Goto(v, stage)
            BY <4>9 DEF SaveMirror
        <5>3. stage \in Stage
            BY DEF Stage
        <5> QED BY <4>2, <5>1, <5>2, <5>3
      <4>10. ASSUME NEW v \in Slots, Retire(v), ~(v = w /\ kind[w] = "refresh")
             PROVE  kind[w] = "refresh" /\ pc[w] = "open" /\ target'[w] = target[w]
        <5>1. CASE kind[v] = "refresh"
          <6>1. Goto(v, "open") /\ v # w
              BY <4>10, <5>1 DEF Retire
          <6>2. "open" \in Stage
              BY DEF Stage
          <6> QED BY <4>2, <6>1, <6>2
        <5>2. CASE kind[v] # "refresh"
            BY <4>3, <4>10, <5>2 DEF Retire
        <5> QED BY <5>1, <5>2
      <4>11. ASSUME NEW v \in Slots, Abandon(v)
             PROVE  kind[w] = "refresh" /\ pc[w] = "open" /\ target'[w] = target[w]
          BY <4>3, <4>11 DEF Abandon
      <4>12. CASE (\E i \in DOMAIN sessions : Expire(i)) \/ UNCHANGED vars
          BY <4>12 DEF Expire, vars, slotVars
      <4> QED
          BY <1>2, <4>4, <4>6, <4>7, <4>8, <4>9, <4>10, <4>11, <4>12 DEF Next
    <3> QED BY <3>1, <3>2, <3>3
  <2> QED BY <2>2, <2>4 DEF Rotation
<1> QED BY <1>1, <1>2

-----------------------------------------------------------------------------
\* What a step does to one slot.

Stays(w) == pc'[w] = pc[w] /\ kind'[w] = kind[w] /\ pw'[w] = pw[w] /\ target'[w] = target[w]

Ends(w) ==
    /\ pc'[w] = "idle" /\ kind'[w] = "none"
    /\ Retire(w) \/ RevokeAll(w) \/ OpenSession(w) \/ Abandon(w)

Advances(w) ==
    /\ kind'[w] = kind[w] /\ pw'[w] = pw[w] /\ target'[w] = target[w]
    /\ Prove(w) \/ SavePassword(w) \/ SaveMirror(w) \/ Retire(w) \/ RevokeAll(w)

Starts(w) ==
    \/ Login(w) \/ SignIn(w) \/ Register(w) \/ Reset(w) \/ Change(w)
    \/ Refresh(w) \/ Logout(w) \/ LogoutAll(w)

\* A slot is left alone, or it ends, goes on with, or begins a handler; only
\* revokeAllSessions marks somebody's authority outdated.
LEMMA Moves ==
    ASSUME TypeOK, SlotShape, [Next]_vars, NEW w \in Slots
    PROVE  /\ Stays(w) \/ Ends(w) \/ Advances(w) \/ Starts(w)
           /\ (\A v \in Slots : ~RevokeAll(v)) /\ late'[w] => late[w]
<1> DEFINE Goal == /\ Stays(w) \/ Ends(w) \/ Advances(w) \/ Starts(w)
                   /\ (\A v \in Slots : ~RevokeAll(v)) /\ late'[w] => late[w]
<1>1. 0 \in 0..MaxSessions /\ DOMAIN sessions \subseteq 0..MaxSessions
    BY RowFacts, SessionAssumption
<1>2. CASE UNCHANGED slotVars
    BY <1>2 DEF slotVars, Stays
<1>3. ASSUME NEW v \in Slots, NEW k \in Kinds, NEW p \in Secret, NEW i \in 0..MaxSessions,
             NEW stage \in Stage, Begin(v, k, p, i, stage), Starts(v)
      PROVE  Goal
  <2>1. Served(v) /\ SameLate(v) /\ ~late'[v]
      BY <1>3, Begins
  <2> QED BY <1>3, <2>1 DEF Served, SameLate, Stays
<1>4. ASSUME NEW v \in Slots, NEW stage \in Stage, Goto(v, stage),
             Prove(v) \/ SavePassword(v) \/ SaveMirror(v) \/ Retire(v)
      PROVE  Goal
  <2>1. /\ Served(v) /\ late' = late /\ kind'[v] = kind[v] /\ pw'[v] = pw[v]
        /\ target'[v] = target[v]
      BY <1>4, Goes
  <2> QED BY <1>4, <2>1 DEF Served, Stays, Advances
<1>5. ASSUME NEW v \in Slots, Forget(v, late), Retire(v) \/ OpenSession(v) \/ Abandon(v)
      PROVE  Goal
  <2>1. /\ Served(v) /\ ~late'[v] /\ kind'[v] = "none" /\ pc'[v] = "idle"
        /\ \A u \in Slots : u # v => late'[u] = late[u]
      BY <1>5, Forgets DEF TypeOK
  <2> QED BY <1>5, <2>1 DEF Served, Stays, Ends
<1>6. ASSUME NEW v \in Slots, RevokeAll(v) PROVE Goal
  <2>1. /\ Served(v)
        /\ \/ kind'[v] = kind[v] /\ pw'[v] = pw[v] /\ target'[v] = target[v]
           \/ kind'[v] = "none" /\ pc'[v] = "idle"
      BY <1>6, RevokeServes
  <2> QED BY <1>6, <2>1 DEF Served, Stays, Ends, Advances
<1> HIDE DEF Goal
<1>7. ASSUME NEW v \in Slots, Starts(v) PROVE Goal
  <2>1. PICK k \in Kinds, p \in Secret, i \in 0..MaxSessions, stage \in Stage :
            Begin(v, k, p, i, stage)
    <3>1. ASSUME Login(v) \/ SignIn(v) \/ Register(v) \/ Reset(v) \/ Change(v)
          PROVE  \E k \in Kinds, p \in Secret, i \in 0..MaxSessions, stage \in Stage :
                     Begin(v, k, p, i, stage)
        BY <1>1, <3>1 DEF Login, SignIn, Register, Reset, Change, Kinds, Stage, Secret
    <3>2. ASSUME Refresh(v) \/ Logout(v) \/ LogoutAll(v)
          PROVE  \E k \in Kinds, p \in Secret, i \in 0..MaxSessions, stage \in Stage :
                     Begin(v, k, p, i, stage)
        BY <1>1, <3>2 DEF Refresh, Logout, LogoutAll, Kinds, Stage, Secret
    <3> QED BY <1>7, <3>1, <3>2 DEF Starts
  <2> QED BY <1>3, <1>7, <2>1
<1>8. ASSUME NEW v \in Slots, Prove(v) \/ SavePassword(v) PROVE Goal
    BY <1>4, <1>8 DEF Prove, SavePassword, Stage
<1>9. ASSUME NEW v \in Slots, SaveMirror(v) PROVE Goal
  <2>1. PICK stage \in {"revoke", "open"} : Goto(v, stage)
      BY <1>9 DEF SaveMirror
  <2>2. stage \in Stage
      BY DEF Stage
  <2> QED BY <1>4, <1>9, <2>1, <2>2
<1>10. ASSUME NEW v \in Slots, Retire(v) PROVE Goal
  <2>1. "open" \in Stage
      BY DEF Stage
  <2> QED BY <1>4, <1>5, <1>10, <2>1 DEF Retire
<1>11. ASSUME NEW v \in Slots, OpenSession(v) \/ Abandon(v) PROVE Goal
    BY <1>5, <1>11 DEF OpenSession, Abandon
<1>12. CASE (\E i \in DOMAIN sessions : Expire(i)) \/ UNCHANGED vars
  <2>1. UNCHANGED slotVars
      BY <1>12 DEF Expire, vars
  <2> QED BY <1>2, <2>1 DEF Goal
<1> QED
    BY <1>6, <1>7, <1>8, <1>9, <1>10, <1>11, <1>12 DEF Next, Starts, Goal

\* The slots about to mint a session from a row are those there were, unless
\* one has just read its refresh token; then the row had minted nothing.
LEMMA MintingStep ==
    ASSUME TypeOK, SlotShape, SlotShape', Rotation, [Next]_vars, NEW i \in DOMAIN sessions
    PROVE  Minting(i)' \subseteq Minting(i) \/ (Minted(i) = {} /\ sessions' = sessions)
<1>1. CASE \E w \in Slots : Refresh(w) /\ target'[w] = i
  <2>1. PICK w \in Slots : Refresh(w) /\ target'[w] = i
      BY <1>1
  <2>2. Refreshable(i)
      BY <2>1 DEF Refresh, Begin, TypeOK
  <2>3. i # 0
      BY RowFacts
  <2>4. Minted(i) = {}
      BY <2>2, <2>3 DEF Minted, Rotation, Refreshable
  <2> QED BY <2>1, <2>4 DEF Refresh
<1>2. CASE ~\E w \in Slots : Refresh(w) /\ target'[w] = i
  <2> SUFFICES ASSUME NEW w \in Slots, kind'[w] = "refresh", target'[w] = i
               PROVE  w \in Minting(i)
      BY DEF Minting
  <2>1. Stays(w) \/ Advances(w) \/ Starts(w)
      BY Moves DEF Ends
  <2>2. CASE kind[w] = "refresh" /\ target[w] = i
      BY <2>2 DEF SlotShape, Shape, Minting
  <2>3. CASE Starts(w)
    <3>1. kind'[w] \in Kinds \ {"refresh"}
        BY <1>2, <2>3 DEF Starts, Login, SignIn, Register, Reset, Change, Refresh, Logout,
                          LogoutAll, Begin, Kinds, TypeOK
    <3> QED BY <3>1
  <2> QED BY <2>1, <2>2, <2>3 DEF Stays, Advances
<1> QED BY <1>1, <1>2

\* A refreshed session joins those its parent minted and leaves those it was
\* about to mint.
LEMMA RefreshStep ==
    ASSUME TypeOK, TypeOK', SlotShape, SlotShape', Rotation, RefreshBudget, [Next]_vars
    PROVE  RefreshBudget'
<1>1. SUFFICES ASSUME NEW i \in DOMAIN sessions'
               PROVE  Cardinality(Minted(i)') + Cardinality(Minting(i)') <= Cardinality(Slots)
    BY DEF RefreshBudget
<1>2. /\ IsFiniteSet(Minted(i)) /\ IsFiniteSet(Minting(i))
      /\ Cardinality(Minted(i)) \in Nat /\ Cardinality(Minting(i)) \in Nat
      /\ IsFiniteSet(Minted(i)') /\ IsFiniteSet(Minting(i)')
      /\ Cardinality(Minted(i)') \in Nat /\ Cardinality(Minting(i)') \in Nat
      /\ Cardinality(Minting(i)') <= Cardinality(Slots)
      /\ Cardinality(Slots) \in Nat
    BY MintFinite
<1>3. CASE Minted(i)' = {}
    BY <1>2, <1>3, FS_EmptySet
<1>4. ASSUME i \in DOMAIN sessions, Minted(i)' \subseteq Minted(i), Minting(i)' \subseteq Minting(i)
      PROVE  Cardinality(Minted(i)') + Cardinality(Minting(i)') <= Cardinality(Slots)
  <2>1. /\ Cardinality(Minted(i)') <= Cardinality(Minted(i))
        /\ Cardinality(Minting(i)') <= Cardinality(Minting(i))
      BY <1>2, <1>4, FS_Subset
  <2>2. Cardinality(Minted(i)) + Cardinality(Minting(i)) <= Cardinality(Slots)
      BY <1>4 DEF RefreshBudget
  <2> QED BY <1>2, <2>1, <2>2
<1>5. ASSUME NEW v \in Slots, OpenSession(v)
      PROVE  Cardinality(Minted(i)') + Cardinality(Minting(i)') <= Cardinality(Slots)
  <2> DEFINE new == Len(sessions) + 1
  <2>1. /\ DOMAIN sessions' = DOMAIN sessions \cup {new} /\ new \notin DOMAIN sessions
        /\ \A j \in DOMAIN sessions : sessions'[j] = sessions[j]
        /\ sessions'[new].parent = target[v]
      BY <1>5, OpenedRow
  <2>2. new # 0 /\ 0 \notin DOMAIN sessions
      BY RowFacts
  <2> HIDE DEF new
  <2>3. Shape(kind[v], pc[v], pw[v], target[v]) /\ pc[v] = "open"
      BY <1>5 DEF SlotShape, OpenSession
  <2>4. Served(v) /\ kind'[v] = "none"
      BY <1>5, Forgets DEF OpenSession, TypeOK
  <2>5. Minting(i)' \subseteq Minting(i) \ {v}
      BY <2>4 DEF Minting, Served
  <2>6. CASE i = new
    <3>1. target[v] # new
        BY <2>1, <2>2, <2>3 DEF Shape
    <3>2. Minted(i)' = {}
        BY <2>1, <2>2, <2>6, <3>1 DEF Minted, Rotation
    <3> QED BY <1>3, <3>2
  <2>7. CASE i # new /\ target[v] # i
    <3>1. i \in DOMAIN sessions /\ Minted(i)' \subseteq Minted(i)
        BY <2>1, <2>7 DEF Minted
    <3> QED BY <1>4, <2>5, <3>1
  <2>8. CASE i # new /\ target[v] = i
    <3>1. i \in DOMAIN sessions
        BY <2>1, <2>8
    <3>2. v \in Minting(i)
        BY <2>2, <2>3, <2>8, <3>1 DEF Shape, RowKinds, Minting
    <3>3. Minted(i)' \subseteq Minted(i) \cup {new}
        BY <2>1 DEF Minted
    <3>4. /\ IsFiniteSet(Minted(i) \cup {new})
          /\ \/ Cardinality(Minted(i) \cup {new}) = Cardinality(Minted(i)) + 1
             \/ Cardinality(Minted(i) \cup {new}) = Cardinality(Minted(i))
        BY <1>2, FS_AddElement
    <3>5. /\ IsFiniteSet(Minting(i) \ {v})
          /\ Cardinality(Minting(i) \ {v}) = Cardinality(Minting(i)) - 1
        BY <1>2, <3>2, FS_RemoveElement
    <3>6. /\ Cardinality(Minted(i)') <= Cardinality(Minted(i) \cup {new})
          /\ Cardinality(Minting(i)') <= Cardinality(Minting(i) \ {v})
        BY <2>5, <3>3, <3>4, <3>5, FS_Subset
    <3>7. Cardinality(Minted(i)) + Cardinality(Minting(i)) <= Cardinality(Slots)
        BY <3>1 DEF RefreshBudget
    <3> QED BY <1>2, <3>4, <3>5, <3>6, <3>7
  <2> QED BY <2>6, <2>7, <2>8
<1>6. CASE \A v \in Slots : ~OpenSession(v)
  <2>1. Rewritten /\ DOMAIN sessions' = DOMAIN sessions
      BY <1>6, OthersRewrite DEF Rewritten
  <2>2. Minted(i)' \subseteq Minted(i)
      BY <2>1 DEF Minted, Rewritten
  <2>3. CASE Minting(i)' \subseteq Minting(i)
      BY <1>4, <2>1, <2>2, <2>3
  <2>4. CASE Minted(i) = {}
      BY <1>3, <2>2, <2>4
  <2> QED BY <2>1, <2>3, <2>4, MintingStep
<1> QED BY <1>5, <1>6

\* A refresh token is spent by the invocations that hold it at one moment, and
\* by no later one: in its whole life it mints no more sessions than there are
\* slots (refreshSession, session.js).
THEOREM RefreshWithinBudget == Spec => []RefreshBudget
<1>1. Init => Rotation /\ RefreshBudget
    BY DEF Init, Rotation, RefreshBudget
<1>2. TypeOK /\ TypeOK' /\ SlotShape /\ SlotShape' /\ Rotation /\ RefreshBudget /\ [Next]_vars
      => Rotation' /\ RefreshBudget'
    BY RotationStep, RefreshStep
<1> QED BY <1>1, <1>2, SessionsTypeCorrect, PTL DEF Spec

-----------------------------------------------------------------------------
\* What survives a revocation.

\* Sets of rows and sets of slots are finite.
LEMMA RowsAndSlotsFinite ==
    ASSUME TypeOK, NEW T \in SUBSET (DOMAIN sessions), NEW U \in SUBSET Slots
    PROVE  /\ IsFiniteSet(T) /\ IsFiniteSet(U)
           /\ Cardinality(T) \in Nat /\ Cardinality(U) \in Nat
           /\ Cardinality(U) <= Cardinality(Slots) /\ Cardinality(Slots) \in Nat
<1>1. Len(sessions) \in Nat /\ DOMAIN sessions = 1..Len(sessions)
    BY RowFacts
<1>2. IsFiniteSet(DOMAIN sessions)
    BY <1>1, FS_Interval
<1> QED BY <1>2, SessionAssumption, FS_Subset, FS_CardinalityType

\* The same of the rows after a step.
LEMMA NextRowsFinite ==
    ASSUME TypeOK', NEW T \in SUBSET (DOMAIN sessions')
    PROVE  IsFiniteSet(T) /\ Cardinality(T) \in Nat
<1>1. Len(sessions') \in Nat /\ DOMAIN sessions' = 1..Len(sessions')
    BY LenProperties DEF TypeOK
<1>2. IsFiniteSet(DOMAIN sessions')
    BY <1>1, FS_Interval
<1> QED BY <1>2, FS_Subset, FS_CardinalityType

\* Two sets that shrink, and an element that passes from the second to the
\* first, keep a bound on what they count together.
LEMMA BoundKept ==
    ASSUME NEW A, NEW B, NEW A1, NEW B1, NEW x, NEW y,
           IsFiniteSet(A), IsFiniteSet(B),
           \/ A1 \subseteq A /\ B1 \subseteq B
           \/ A1 \subseteq A \cup {x} /\ y \in B /\ B1 \subseteq B \ {y}
    PROVE  Cardinality(A1) + Cardinality(B1) <= Cardinality(A) + Cardinality(B)
<1>1. Cardinality(A) \in Nat /\ Cardinality(B) \in Nat
    BY FS_CardinalityType
<1>2. CASE A1 \subseteq A /\ B1 \subseteq B
  <2>1. IsFiniteSet(A1) /\ IsFiniteSet(B1)
      BY <1>2, FS_Subset
  <2>2. Cardinality(A1) \in Nat /\ Cardinality(B1) \in Nat
      BY <2>1, FS_CardinalityType
  <2>3. Cardinality(A1) <= Cardinality(A) /\ Cardinality(B1) <= Cardinality(B)
      BY <1>2, FS_Subset
  <2> QED BY <1>1, <2>2, <2>3
<1>3. CASE A1 \subseteq A \cup {x} /\ y \in B /\ B1 \subseteq B \ {y}
  <2>1. /\ IsFiniteSet(A \cup {x})
        /\ \/ Cardinality(A \cup {x}) = Cardinality(A) + 1
           \/ Cardinality(A \cup {x}) = Cardinality(A)
      BY FS_AddElement
  <2>2. IsFiniteSet(B \ {y}) /\ Cardinality(B \ {y}) = Cardinality(B) - 1
      BY <1>3, FS_RemoveElement
  <2>3. IsFiniteSet(A1) /\ IsFiniteSet(B1)
      BY <1>3, <2>1, <2>2, FS_Subset
  <2>4. Cardinality(A1) \in Nat /\ Cardinality(B1) \in Nat
      BY <2>3, FS_CardinalityType
  <2>5. Cardinality(A1) <= Cardinality(A \cup {x}) /\ Cardinality(B1) <= Cardinality(B \ {y})
      BY <1>3, <2>1, <2>2, FS_Subset
  <2> QED BY <1>1, <2>1, <2>2, <2>4, <2>5
<1> QED BY <1>2, <1>3

\* A row that is refreshable after a rewriting was so before.
LEMMA StillRefreshable ==
    ASSUME TypeOK, Rewritten, NEW i \in DOMAIN sessions, Refreshable(i)'
    PROVE  Refreshable(i)
<1>1. ~sessions'[i].revoked /\ sessions'[i].age # "dead"
    BY DEF Refreshable
<1> QED BY <1>1 DEF Refreshable, Rewritten

\* After a revocation of everything no row is refreshable.
LEMMA NoneRefreshable ==
    ASSUME TypeOK, NEW v \in Slots, RevokeAll(v)
    PROVE  \A i \in DOMAIN sessions' : ~Refreshable(i)'
<1> SUFFICES ASSUME NEW i \in DOMAIN sessions' PROVE sessions'[i].revoked
    BY DEF Refreshable
<1>1. /\ sessions' = [j \in DOMAIN sessions |->
                          [sessions[j] EXCEPT !.revoked = TRUE, !.late = TRUE]]
    BY DEF RevokeAll
<1>2. i \in DOMAIN sessions
    BY <1>1
<1>3. sessions[i] \in Session
    BY <1>2, RowFacts
<1> QED BY <1>1, <1>2, <1>3 DEF Session

\* A revocation spares nobody's session and outdates everybody else; any other
\* step makes nothing late.
LEMMA SurvivorsStep ==
    ASSUME TypeOK, TypeOK', SlotShape, SurvivorsBounded, [Next]_vars
    PROVE  SurvivorsBounded'
<1>1. /\ Survivors \in SUBSET (DOMAIN sessions) /\ Survivors' \in SUBSET (DOMAIN sessions')
      /\ Lagging \in SUBSET Slots /\ Lagging' \in SUBSET Slots
    BY DEF Survivors, Lagging
<1>2. /\ IsFiniteSet(Survivors) /\ IsFiniteSet(Lagging)
      /\ Cardinality(Survivors) \in Nat /\ Cardinality(Lagging) \in Nat
      /\ Cardinality(Lagging') \in Nat /\ Cardinality(Survivors') \in Nat
      /\ Cardinality(Slots) \in Nat
    BY <1>1, RowsAndSlotsFinite, NextRowsFinite
<1>3. Cardinality(Survivors) + Cardinality(Lagging) < Cardinality(Slots)
    BY DEF SurvivorsBounded
<1>4. ASSUME NEW v \in Slots, RevokeAll(v) PROVE SurvivorsBounded'
  <2>1. Survivors' = {}
      BY <1>4, NoneRefreshable DEF Survivors
  <2>2. Lagging' \subseteq Slots \ {v}
      BY <1>4, RevokeServes DEF Lagging
  <2>3. IsFiniteSet(Slots \ {v}) /\ Cardinality(Slots \ {v}) = Cardinality(Slots) - 1
      BY SessionAssumption, FS_RemoveElement
  <2>4. Cardinality(Lagging') <= Cardinality(Slots) - 1
      BY <2>2, <2>3, FS_Subset
  <2>5. Cardinality(Survivors') = 0
      BY <2>1, FS_EmptySet
  <2> QED BY <1>2, <2>4, <2>5 DEF SurvivorsBounded
<1>5. ASSUME Cardinality(Survivors') + Cardinality(Lagging') <= Cardinality(Survivors) + Cardinality(Lagging)
      PROVE  SurvivorsBounded'
    BY <1>2, <1>3, <1>5 DEF SurvivorsBounded
<1>6. ASSUME NEW v \in Slots, OpenSession(v) PROVE SurvivorsBounded'
  <2> DEFINE new == Len(sessions) + 1
  <2>1. /\ DOMAIN sessions' = DOMAIN sessions \cup {new}
        /\ \A j \in DOMAIN sessions : sessions'[j] = sessions[j]
        /\ sessions'[new].late = late[v]
      BY <1>6, OpenedRow
  <2> HIDE DEF new
  <2>2. late' = [late EXCEPT ![v] = FALSE]
      BY <1>6 DEF OpenSession, Forget
  <2>3. Lagging' \subseteq Lagging \ {v}
      BY <2>2 DEF Lagging, TypeOK
  <2>4. Survivors' \subseteq Survivors \cup {new}
      BY <2>1 DEF Survivors, Refreshable
  <2>5. CASE late[v]
    <3>1. v \in Lagging
        BY <2>5 DEF Lagging
    <3> QED BY <1>2, <1>5, <2>3, <2>4, <3>1, BoundKept
  <2>6. CASE ~late[v]
    <3>1. Survivors' \subseteq Survivors
        BY <2>1, <2>6 DEF Survivors, Refreshable
    <3>2. Lagging' \subseteq Lagging
        BY <2>3
    <3> QED BY <1>2, <1>5, <3>1, <3>2, BoundKept
  <2> QED BY <2>5, <2>6
<1>7. CASE (\A v \in Slots : ~RevokeAll(v)) /\ (\A v \in Slots : ~OpenSession(v))
  <2>1. /\ Rewritten /\ DOMAIN sessions' = DOMAIN sessions
        /\ \A i \in DOMAIN sessions : sessions'[i].late = sessions[i].late
      BY <1>7, OthersRewrite DEF Rewritten
  <2>2. Survivors' \subseteq Survivors
      BY <2>1, StillRefreshable DEF Survivors
  <2>3. Lagging' \subseteq Lagging
      BY <1>7, Moves DEF Lagging
  <2> QED BY <1>2, <1>5, <2>2, <2>3, BoundKept
<1> QED BY <1>4, <1>6, <1>7

\* After everything was revoked, fewer sessions than there are slots rest on
\* an authority from before: those that were being opened (revokeAllSessions,
\* session.js).
THEOREM FewSurvivors == Spec => []SurvivorsBounded
<1>1. Init => SurvivorsBounded
  <2> SUFFICES ASSUME Init PROVE SurvivorsBounded
      OBVIOUS
  <2>1. Survivors = {} /\ Lagging = {}
      BY DEF Init, Survivors, Lagging
  <2>2. Cardinality(Slots) \in Nat /\ Cardinality(Slots) # 0
      BY SessionAssumption, FS_CardinalityType, FS_EmptySet
  <2> QED BY <2>1, <2>2, FS_EmptySet DEF SurvivorsBounded
<1>2. TypeOK /\ TypeOK' /\ SlotShape /\ SurvivorsBounded /\ [Next]_vars => SurvivorsBounded'
    BY SurvivorsStep
<1> QED BY <1>1, <1>2, SessionsTypeCorrect, PTL DEF Spec

-----------------------------------------------------------------------------
\* What an older password leaves open.

\* As long as no password was set, none has opened a session, and no handler
\* has got past saving one.
NeverSet ==
    stored.pw = NoPassword =>
        /\ \A i \in DOMAIN sessions : sessions[i].via = NoPassword
        /\ \A v \in Slots : kind[v] \in PasswordKinds => pc[v] \in {"prove", "save"}

\* The password is only replaced by savePassword, and by one that was given.
LEMMA StoredStep ==
    ASSUME TypeOK, SlotShape, [Next]_vars
    PROVE  \/ stored' = stored
           \/ \E v \in Slots : SavePassword(v) /\ pw[v] \in Passwords /\ stored'.pw = pw[v]
<1>1. ASSUME NEW v \in Slots, SavePassword(v) PROVE pw[v] \in Passwords /\ stored'.pw = pw[v]
    BY <1>1 DEF SavePassword, SlotShape, Shape
<1>2. (\A v \in Slots : ~SavePassword(v)) => stored' = stored
    BY DEF Next, Login, SignIn, Register, Reset, Change, Refresh, Logout, LogoutAll, Prove,
           SaveMirror, RevokeAll, Retire, OpenSession, Abandon, Expire, vars
<1> QED BY <1>1, <1>2

\* What a handler that begins does first.
LEMMA StartsWith ==
    ASSUME TypeOK, NEW w \in Slots, Starts(w)
    PROVE  /\ pc[w] = "idle" /\ stored' = stored
           /\ kind'[w] \in PasswordKinds =>
                 \/ pc'[w] \in {"prove", "save"}
                 \/ kind'[w] = "login" /\ pw'[w] = stored.pw /\ stored.pw # NoPassword
<1> USE DEF PasswordKinds, TypeOK
<1>1. CASE Login(w)
  <2>1. PICK p \in Passwords, stage \in {"save", "open"} :
            stored.pw = p /\ Begin(w, "login", p, 0, stage)
      BY <1>1 DEF Login
  <2>2. p # NoPassword
      BY SessionAssumption
  <2> QED BY <1>1, <2>1, <2>2 DEF Login, Begin
<1>2. CASE Register(w)
    BY <1>2 DEF Register, Begin
<1>3. CASE Reset(w)
    BY <1>3 DEF Reset, Begin
<1>4. CASE Change(w)
    BY <1>4 DEF Change, Begin
<1>5. CASE SignIn(w) \/ LogoutAll(w)
    BY <1>5 DEF SignIn, LogoutAll, Begin
<1>6. CASE Refresh(w) \/ Logout(w)
    BY <1>6 DEF Refresh, Logout, Begin
<1> QED BY <1>1, <1>2, <1>3, <1>4, <1>5, <1>6 DEF Starts

\* A first password is saved before anything is opened with it.
LEMMA NeverSetStep ==
    ASSUME TypeOK, SlotShape, NeverSet, [Next]_vars
    PROVE  NeverSet'
<1> SUFFICES ASSUME stored'.pw = NoPassword
             PROVE  /\ \A i \in DOMAIN sessions' : sessions'[i].via = NoPassword
                    /\ \A v \in Slots : kind'[v] \in PasswordKinds => pc'[v] \in {"prove", "save"}
    BY DEF NeverSet
<1>1. stored' = stored /\ stored.pw = NoPassword /\ \A v \in Slots : ~SavePassword(v)
  <2>1. \A v \in Slots : ~SavePassword(v)
    <3> SUFFICES ASSUME NEW v \in Slots, SavePassword(v) PROVE FALSE
        OBVIOUS
    <3>1. pw[v] \in Passwords /\ stored'.pw = pw[v]
        BY DEF SavePassword, SlotShape, Shape
    <3> QED BY <3>1, SessionAssumption
  <2> QED BY <2>1, StoredStep
<1>2. \A v \in Slots : kind[v] \in PasswordKinds => pc[v] \in {"prove", "save"}
    BY <1>1 DEF NeverSet
<1>3. ASSUME NEW i \in DOMAIN sessions' PROVE sessions'[i].via = NoPassword
  <2>1. \A j \in DOMAIN sessions : sessions[j].via = NoPassword
      BY <1>1 DEF NeverSet
  <2>2. ASSUME NEW v \in Slots, OpenSession(v) PROVE sessions'[i].via = NoPassword
    <3>1. pw[v] = NoPassword
        BY <1>2, <2>2 DEF OpenSession, SlotShape, Shape
    <3>2. /\ DOMAIN sessions' = DOMAIN sessions \cup {Len(sessions) + 1}
          /\ \A j \in DOMAIN sessions : sessions'[j] = sessions[j]
          /\ sessions'[Len(sessions) + 1].via = pw[v]
        BY <2>2, OpenedRow
    <3> QED BY <2>1, <3>1, <3>2
  <2>3. CASE \A v \in Slots : ~OpenSession(v)
    <3>1. Rewritten /\ DOMAIN sessions' = DOMAIN sessions
        BY <2>3, OthersRewrite DEF Rewritten
    <3> QED BY <2>1, <3>1 DEF Rewritten
  <2> QED BY <2>2, <2>3
<1>4. ASSUME NEW w \in Slots, kind'[w] \in PasswordKinds PROVE pc'[w] \in {"prove", "save"}
  <2>1. CASE Stays(w)
      BY <1>2, <1>4, <2>1 DEF Stays
  <2>2. CASE Ends(w)
      BY <1>4, <2>2 DEF Ends, PasswordKinds
  <2>3. CASE Advances(w)
    <3>1. pc[w] \in {"prove", "save"}
        BY <1>2, <1>4, <2>3 DEF Advances
    <3>2. Prove(w)
        BY <1>1, <2>3, <3>1 DEF Advances, SaveMirror, Retire, RevokeAll
    <3> QED BY <1>1, <3>2 DEF Prove
  <2>4. CASE Starts(w)
      BY <1>1, <1>4, <2>4, StartsWith
  <2> QED BY <2>1, <2>2, <2>3, <2>4, Moves
<1> QED BY <1>3, <1>4

\* No replacement of the password is half done, and none was left half done.
Calm == ~lapsed /\ \A v \in Slots : ~Replacing(v)

\* Only the revocation ends a replacement.
LEMMA CalmStep ==
    ASSUME TypeOK, SlotShape, [Next]_vars, \A v \in Slots : ~RevokeAll(v), Calm'
    PROVE  Calm
<1>1. lapsed => lapsed'
    BY DEF Next, Login, SignIn, Register, Reset, Change, Refresh, Logout, LogoutAll, Prove,
           SavePassword, SaveMirror, Retire, OpenSession, Abandon, Expire, vars, historyVars
<1>2. ASSUME NEW w \in Slots, Replacing(w) PROVE FALSE
  <2>1. kind[w] \in Revoking /\ pc[w] \in {"mirror", "revoke"}
      BY <1>2 DEF Replacing
  <2>2. ~lapsed' /\ ~(kind'[w] \in Revoking /\ pc'[w] \in {"mirror", "revoke"})
      BY DEF Calm, Replacing
  <2>3. CASE Stays(w)
      BY <2>1, <2>2, <2>3 DEF Stays
  <2>4. CASE Ends(w)
    <3>1. Abandon(w)
        BY <2>1, <2>4 DEF Ends, Retire, OpenSession
    <3> QED BY <1>2, <2>2, <3>1 DEF Abandon
  <2>5. CASE Advances(w)
    <3>1. SaveMirror(w)
        BY <2>1, <2>5 DEF Advances, Prove, SavePassword, Retire
    <3>2. pc'[w] = "revoke"
        BY <2>1, <3>1 DEF SaveMirror, Goto, TypeOK
    <3> QED BY <2>1, <2>2, <2>5, <3>2 DEF Advances
  <2>6. CASE Starts(w)
      BY <2>1, <2>6, StartsWith
  <2> QED BY <2>3, <2>4, <2>5, <2>6, Moves
<1> QED BY <1>1, <1>2 DEF Calm

\* While the password stays, nobody who holds another one comes to open a
\* session.
LEMMA OutlivingStep ==
    ASSUME TypeOK, SlotShape, [Next]_vars, \A v \in Slots : ~RevokeAll(v), stored'.pw = stored.pw,
           \A v \in Slots : SavePassword(v) => pw[v] = stored'.pw
    PROVE  Outliving' \subseteq Outliving
<1> SUFFICES ASSUME NEW w \in Slots, kind'[w] \in {"login", "register", "change"},
                    pc'[w] \in {"mirror", "revoke", "open"}, pw'[w] # stored'.pw
             PROVE  w \in Outliving
    BY DEF Outliving
<1>1. CASE Stays(w)
    BY <1>1 DEF Stays, Outliving
<1>2. CASE Ends(w)
    BY <1>2 DEF Ends
<1>3. CASE Advances(w)
  <2>1. CASE Prove(w)
      BY <2>1 DEF Prove, Goto, TypeOK
  <2>2. CASE SavePassword(w)
      BY <1>3, <2>2 DEF Advances
  <2>3. CASE SaveMirror(w)
      BY <1>3, <2>3 DEF Advances, SaveMirror, Outliving
  <2>4. CASE Retire(w)
      BY <1>3, <2>4 DEF Advances, Retire, SlotShape, Shape, RowKinds
  <2> QED BY <1>3, <2>1, <2>2, <2>3, <2>4 DEF Advances
<1>4. CASE Starts(w)
    BY <1>4, StartsWith DEF PasswordKinds
<1> QED BY <1>1, <1>2, <1>3, <1>4, Moves

\* A replacement revokes what the older password opened before it counts as
\* done.
LEMMA OutlivedStep ==
    ASSUME TypeOK, TypeOK', SlotShape, NeverSet, OutlivedBounded, [Next]_vars
    PROVE  OutlivedBounded'
<1> SUFFICES ASSUME Calm' PROVE Cardinality(Outlived') + Cardinality(Outliving') <= Cardinality(Slots)
    BY DEF OutlivedBounded, Calm
<1>1. /\ Outlived \in SUBSET (DOMAIN sessions) /\ Outlived' \in SUBSET (DOMAIN sessions')
      /\ Outliving \in SUBSET Slots /\ Outliving' \in SUBSET Slots
    BY DEF Outlived, Outliving
<1>2. /\ IsFiniteSet(Outlived) /\ IsFiniteSet(Outliving)
      /\ Cardinality(Outlived) \in Nat /\ Cardinality(Outliving) \in Nat
      /\ Cardinality(Outlived') \in Nat /\ Cardinality(Outliving') \in Nat
      /\ Cardinality(Outliving') <= Cardinality(Slots) /\ Cardinality(Slots) \in Nat
    BY <1>1, RowsAndSlotsFinite, NextRowsFinite
<1>3. CASE Outlived' = {}
    BY <1>2, <1>3, FS_EmptySet
<1>4. ASSUME NEW v \in Slots, RevokeAll(v) PROVE Outlived' = {}
    BY <1>4, NoneRefreshable DEF Outlived
<1>5. CASE \A v \in Slots : ~RevokeAll(v)
  <2>1. Calm
      BY <1>5, CalmStep
  <2>2. Cardinality(Outlived) + Cardinality(Outliving) <= Cardinality(Slots)
      BY <2>1 DEF OutlivedBounded, Calm
  <2>3. ASSUME Cardinality(Outlived') + Cardinality(Outliving') <= Cardinality(Outlived) + Cardinality(Outliving)
        PROVE  Cardinality(Outlived') + Cardinality(Outliving') <= Cardinality(Slots)
      BY <1>2, <2>2, <2>3
  <2>4. ASSUME NEW v \in Slots, SavePassword(v)
        PROVE  Cardinality(Outlived') + Cardinality(Outliving') <= Cardinality(Slots)
    <3>1. sessions' = sessions /\ stored'.pw = pw[v] /\ kind'[v] = kind[v] /\ pc'[v] = "mirror"
        BY <2>4 DEF SavePassword, Goto, TypeOK
    <3>2. kind[v] \notin Revoking
        BY <3>1 DEF Calm, Replacing
    <3>3. stored.pw \in {NoPassword, pw[v]}
        BY <2>4, <3>2 DEF SavePassword, Calm
    <3>4. CASE stored.pw = NoPassword
      <4>1. Outlived' = {}
          BY <3>1, <3>4 DEF Outlived, NeverSet
      <4> QED BY <1>3, <4>1
    <3>5. CASE stored.pw = pw[v]
      <4>1. Outlived' \subseteq Outlived
          BY <3>1, <3>5 DEF Outlived, Refreshable
      <4>2. \A u \in Slots : SavePassword(u) => pw[u] = stored'.pw
          BY DEF SavePassword
      <4>3. Outliving' \subseteq Outliving
          BY <1>5, <3>1, <3>5, <4>2, OutlivingStep
      <4> QED BY <1>2, <2>3, <4>1, <4>3, BoundKept
    <3> QED BY <3>3, <3>4, <3>5
  <2>5. ASSUME NEW v \in Slots, OpenSession(v)
        PROVE  Cardinality(Outlived') + Cardinality(Outliving') <= Cardinality(Slots)
    <3> DEFINE new == Len(sessions) + 1
    <3>1. /\ DOMAIN sessions' = DOMAIN sessions \cup {new}
          /\ \A j \in DOMAIN sessions : sessions'[j] = sessions[j]
          /\ sessions'[new].via = pw[v]
        BY <2>5, OpenedRow
    <3> HIDE DEF new
    <3>2. stored' = stored /\ Served(v) /\ kind'[v] = "none"
        BY <2>5, Forgets DEF OpenSession, TypeOK
    <3>3. Outlived' \subseteq Outlived \cup {new}
        BY <3>1, <3>2 DEF Outlived, Refreshable
    <3>4. Outliving' \subseteq Outliving \ {v}
        BY <3>2 DEF Outliving, Served
    <3>5. CASE pw[v] \notin {NoPassword, stored.pw}
      <4>1. v \in Outliving
          BY <2>5, <3>5 DEF OpenSession, SlotShape, Shape, PasswordKinds, Outliving
      <4> QED BY <1>2, <2>3, <3>3, <3>4, <4>1, BoundKept
    <3>6. CASE pw[v] \in {NoPassword, stored.pw}
      <4>1. Outlived' \subseteq Outlived
          BY <3>1, <3>2, <3>6 DEF Outlived, Refreshable
      <4>2. Outliving' \subseteq Outliving
          BY <3>4
      <4> QED BY <1>2, <2>3, <4>1, <4>2, BoundKept
    <3> QED BY <3>5, <3>6
  <2>6. CASE (\A v \in Slots : ~SavePassword(v)) /\ (\A v \in Slots : ~OpenSession(v))
    <3>1. stored' = stored
        BY <2>6, StoredStep
    <3>2. Rewritten /\ DOMAIN sessions' = DOMAIN sessions
        BY <2>6, OthersRewrite DEF Rewritten
    <3>3. Outlived' \subseteq Outlived
      <4> SUFFICES ASSUME NEW i \in Outlived' PROVE i \in Outlived
          OBVIOUS
      <4>1. i \in DOMAIN sessions /\ Refreshable(i)' /\ sessions'[i].via \notin {NoPassword, stored.pw}
          BY <3>1, <3>2 DEF Outlived
      <4>2. Refreshable(i) /\ sessions[i].via = sessions'[i].via
          BY <3>2, <4>1, StillRefreshable DEF Rewritten
      <4> QED BY <4>1, <4>2 DEF Outlived
    <3>4. Outliving' \subseteq Outliving
        BY <1>5, <2>6, <3>1, OutlivingStep
    <3> QED BY <1>2, <2>3, <3>3, <3>4, BoundKept
  <2> QED BY <2>4, <2>5, <2>6
<1> QED BY <1>3, <1>4, <1>5

\* When no replacement of the password is half done, no more sessions opened
\* with an older one are left than there are slots: the password is saved
\* before the sessions are revoked (savePassword, revokeAllSessions).
THEOREM FewOutlived == Spec => []OutlivedBounded
<1>1. Init => NeverSet /\ OutlivedBounded
  <2> SUFFICES ASSUME Init PROVE NeverSet /\ OutlivedBounded
      OBVIOUS
  <2>1. Outlived = {} /\ Outliving = {}
      BY DEF Init, Outlived, Outliving
  <2>2. Cardinality(Slots) \in Nat
      BY SessionAssumption, FS_CardinalityType
  <2> QED BY <2>1, <2>2, FS_EmptySet DEF Init, NeverSet, OutlivedBounded, PasswordKinds
<1>2. TypeOK /\ TypeOK' /\ SlotShape /\ NeverSet /\ OutlivedBounded /\ [Next]_vars
      => NeverSet' /\ OutlivedBounded'
    BY NeverSetStep, OutlivedStep
<1> QED BY <1>1, <1>2, SessionsTypeCorrect, PTL DEF Spec

==============================================================================
