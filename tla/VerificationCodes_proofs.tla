----------------------- MODULE VerificationCodes_proofs -----------------------
(***************************************************************************)
(* For any number of senders, verifiers, codes and purposes: how many      *)
(* guesses one code can take, how many codes one minute can see, that one  *)
(* address has one user, and that the table of codes is a store of         *)
(* one-time tokens.                                                        *)
(***************************************************************************)
EXTENDS VerificationCodes, FiniteSetTheorems, SequenceTheorems, TLAPS

-----------------------------------------------------------------------------
\* The newest row.

IsTotalOrder(Above, S) ==
    /\ \A x, y \in S : x = y \/ <<x, y>> \in Above \/ <<y, x>> \in Above
    /\ \A x, y \in S : <<x, y>> \in Above /\ <<y, x>> \in Above => x = y
    /\ \A x, y, z \in S : <<x, y>> \in Above /\ <<y, z>> \in Above => <<x, z>> \in Above

\* A finite set that is totally ordered has a greatest element.
LEMMA GreatestExists ==
    ASSUME NEW S, IsFiniteSet(S), S # {}, NEW Above, IsTotalOrder(Above, S)
    PROVE  \E x \in S : \A y \in S : x = y \/ <<x, y>> \in Above
<1> USE DEF IsTotalOrder
<1> DEFINE Heads == {T \in SUBSET S : T # {} /\ \A x \in T, y \in S : <<y, x>> \in Above => y \in T}
<1>1. IsWellFoundedOn(StrictSubsetOrdering(S), SUBSET S)
  <2>1. FiniteSubsetsOf(S) = SUBSET S
      BY FS_FiniteSubsetsOfFinite
  <2>2. IsWellFoundedOn(StrictSubsetOrdering(S), FiniteSubsetsOf(S))
      BY FS_StrictSubsetOrderingWellFounded
  <2> QED BY <2>1, <2>2
<1>2. S \in Heads /\ Heads \subseteq SUBSET S
    OBVIOUS
<1>3. PICK T \in Heads : \A U \in Heads : <<U, T>> \notin StrictSubsetOrdering(S)
    <2> HIDE DEF Heads
    <2> QED BY <1>1, <1>2, WFMin
<1>4. PICK x \in T : TRUE
    OBVIOUS
<1> DEFINE U == {y \in S : y # x /\ <<y, x>> \in Above}
<1>5. U \subseteq T /\ x \notin U /\ x \in S /\ T \subseteq S
    BY <1>4
<1>6. U = {}
  <2> SUFFICES ASSUME U # {} PROVE FALSE
      OBVIOUS
  <2>1. ASSUME NEW y \in U, NEW z \in S, <<z, y>> \in Above PROVE z \in U
    <3>1. y \in S /\ y # x /\ <<y, x>> \in Above
        OBVIOUS
    <3>2. <<z, x>> \in Above
        BY <1>5, <2>1, <3>1
    <3>3. z # x
        BY <1>5, <2>1, <3>1
    <3> QED BY <3>2, <3>3
  <2>2. U \in Heads
      BY <2>1
  <2>3. <<U, T>> \in StrictSubsetOrdering(S)
      BY <1>4, <1>5 DEF StrictSubsetOrdering
  <2> QED BY <1>3, <2>2, <2>3
<1>7. \A y \in S : x = y \/ <<x, y>> \in Above
    BY <1>5, <1>6
<1> QED BY <1>5, <1>7

\* The SELECT of the newest row of a purpose finds one when there is any.
LEMMA NewestExists ==
    ASSUME TypeOK, BoundAssumption, NEW p, Ids(p) # {}
    PROVE  Newest(p) \in Ids(p)
<1> DEFINE S == Ids(p)
           Above == {e \in S \X S : \/ rows[e[2]].created < rows[e[1]].created
                                    \/ rows[e[2]].created = rows[e[1]].created /\ e[2] <= e[1]}
<1>1. /\ Len(rows) \in Nat /\ DOMAIN rows = 1..Len(rows)
      /\ \A i \in DOMAIN rows : rows[i] \in Row
    BY LenProperties, ElementOfSeq DEF TypeOK
<1>2. S \subseteq 1..Len(rows)
    BY <1>1 DEF Ids
<1>3. IsFiniteSet(S)
  <2>1. IsFiniteSet(1..Len(rows))
      BY <1>1, FS_Interval
  <2> HIDE DEF S
  <2> QED BY <1>2, <2>1, FS_Subset
<1>4. \A i \in S : i \in Nat /\ rows[i].created \in Nat
    BY <1>1, <1>2, BoundAssumption DEF Row
<1>5. /\ Above \in SUBSET (S \X S)
      /\ \A x, y \in S : <<x, y>> \in Above <=>
            \/ rows[y].created < rows[x].created
            \/ rows[y].created = rows[x].created /\ y <= x
    OBVIOUS
<1>6. PICK x \in S : \A y \in S : x = y \/ <<x, y>> \in Above
  <2> HIDE DEF S, Above
  <2>1. ASSUME NEW x \in S, NEW y \in S PROVE x = y \/ <<x, y>> \in Above \/ <<y, x>> \in Above
    <3>1. /\ x \in Nat /\ y \in Nat
          /\ rows[x].created \in Nat /\ rows[y].created \in Nat
        BY <1>4
    <3> QED BY <1>5, <3>1
  <2>2. \A x, y \in S : <<x, y>> \in Above /\ <<y, x>> \in Above => x = y
      BY <1>4, <1>5
  <2>3. \A x, y, z \in S : <<x, y>> \in Above /\ <<y, z>> \in Above => <<x, z>> \in Above
      BY <1>4, <1>5
  <2>4. S # {}
      BY DEF S
  <2>5. IsTotalOrder(Above, S)
      BY <2>1, <2>2, <2>3 DEF IsTotalOrder
  <2> QED BY <1>3, <2>4, <2>5, GreatestExists
<1>7. ASSUME NEW y \in Ids(p)
      PROVE  \/ rows[y].created < rows[x].created
             \/ rows[y].created = rows[x].created /\ y <= x
  <2>1. y \in S
      OBVIOUS
  <2> HIDE DEF S, Above
  <2>2. CASE x = y
      BY <1>4, <2>1, <2>2
  <2>3. CASE <<x, y>> \in Above
      BY <1>5, <2>1, <2>3
  <2> QED BY <1>6, <2>1, <2>2, <2>3
<1> QED BY <1>6, <1>7 DEF Newest
-----------------------------------------------------------------------------
\* Types.

\* The table is a sequence of rows.
LEMMA RowFacts ==
    ASSUME TypeOK
    PROVE  /\ Len(rows) \in Nat /\ DOMAIN rows = 1..Len(rows)
           /\ DOMAIN rows \subseteq 1..MaxRows
           /\ \A i \in DOMAIN rows : rows[i] \in Row
<1>1. Len(rows) \in Nat /\ DOMAIN rows = 1..Len(rows) /\ Len(rows) <= MaxRows
    BY LenProperties DEF TypeOK
<1>2. \A i \in DOMAIN rows : rows[i] \in Row
    BY <1>1, ElementOfSeq DEF TypeOK
<1> QED BY <1>1, <1>2, BoundAssumption

\* An UPDATE keeps the rows of the table.
LEMMA Updated ==
    ASSUME TypeOK, NEW f \in [DOMAIN rows -> Row]
    PROVE  f \in Seq(Row) /\ Len(f) = Len(rows) /\ DOMAIN f = DOMAIN rows
<1>1. Len(rows) \in Nat /\ DOMAIN rows = 1..Len(rows)
    BY RowFacts
<1>2. f \in Seq(Row)
    BY <1>1, SeqDef
<1> QED BY <1>1, <1>2, LenProperties

\* What sendVerificationCode inserts is a row.
LEMMA InsertedRow ==
    ASSUME TypeOK, NEW s \in Senders, InsertCode(s)
    PROVE  /\ rows' \in Seq(Row) /\ Len(rows') = Len(rows) + 1
           /\ DOMAIN rows' = DOMAIN rows \cup {Len(rows) + 1}
           /\ Len(rows) + 1 \notin DOMAIN rows
           /\ \A i \in DOMAIN rows : rows'[i] = rows[i]
           /\ rows'[Len(rows) + 1].purpose = draft[s].purpose
           /\ rows'[Len(rows) + 1].created = now
           /\ rows'[Len(rows) + 1].attempts = 0
           /\ ~rows'[Len(rows) + 1].used
<1> DEFINE row == [purpose |-> draft[s].purpose, code |-> Hash[draft[s].code],
                   used |-> FALSE, attempts |-> 0, status |-> "pending",
                   expires |-> draft[s].expires, created |-> now]
<1>1. draft[s] \in Draft
    BY DEF TypeOK, InsertCode
<1>2. row \in Row
    BY <1>1, CodeAssumption DEF TypeOK, Row, Draft
<1>3. rows' = Append(rows, row)
    BY DEF InsertCode
<1>4. Len(rows) \in Nat /\ DOMAIN rows = 1..Len(rows)
    BY RowFacts
<1> HIDE DEF row
<1>5. /\ rows' \in Seq(Row) /\ Len(rows') = Len(rows) + 1
      /\ \A i \in 1..Len(rows) : rows'[i] = rows[i]
      /\ rows'[Len(rows) + 1] = row
    BY <1>2, <1>3, AppendProperties DEF TypeOK
<1>6. DOMAIN rows' = 1..Len(rows')
    BY <1>5, LenProperties
<1>7. DOMAIN rows' = DOMAIN rows \cup {Len(rows) + 1}
    BY <1>4, <1>5, <1>6
<1>8. row.purpose = draft[s].purpose /\ row.created = now /\ row.attempts = 0 /\ ~row.used
    BY DEF row
<1> QED BY <1>4, <1>5, <1>7, <1>8

\* A statement other than the INSERT rewrites the rows there are: their
\* purpose, their digits and their times are not touched, and none is unused
\* again.
Rewritten ==
    /\ rows' \in [DOMAIN rows -> Row]
    /\ \A i \in DOMAIN rows :
          /\ rows'[i].purpose = rows[i].purpose
          /\ rows'[i].created = rows[i].created
          /\ rows[i].used => rows'[i].used

\* Every action but InsertCode rewrites the rows.
LEMMA OthersRewrite ==
    ASSUME TypeOK, [Next]_vars, \A s \in Senders : ~InsertCode(s)
    PROVE  Rewritten
<1> DEFINE Dom == DOMAIN rows
<1>1. rows \in [Dom -> Row] /\ \A i \in Dom : rows[i] \in Row
    BY RowFacts, LenProperties DEF TypeOK
<1>2. CASE UNCHANGED rows
    BY <1>1, <1>2 DEF Rewritten
<1>3. ASSUME NEW s \in Senders, MarkSent(s) PROVE Rewritten
  <2>1. rows' = [i \in Dom |-> IF i \in Marked(s) THEN [rows[i] EXCEPT !.status = "sent"] ELSE rows[i]]
      BY <1>3 DEF MarkSent
  <2> QED BY <1>1, <2>1 DEF Rewritten, Row
<1>4. ASSUME NEW s \in Senders, MarkFailed(s) PROVE Rewritten
  <2>1. rows' = [i \in Dom |-> IF i \in Marked(s) THEN [rows[i] EXCEPT !.status = "failed", !.used = TRUE] ELSE rows[i]]
      BY <1>4 DEF MarkFailed
  <2> QED BY <1>1, <2>1 DEF Rewritten, Row
<1>5. ASSUME NEW v \in Verifiers, LockCode(v) \/ Claim(v) PROVE Rewritten
  <2>1. seen[v] \in Dom
      BY <1>5 DEF TypeOK, LockCode, Claim
  <2>2. rows' = rows \/ rows' = [rows EXCEPT ![seen[v]].used = TRUE]
      BY <1>5 DEF LockCode, Claim
  <2>3. CASE rows' = [rows EXCEPT ![seen[v]].used = TRUE]
    <3>1. rows' = [rows EXCEPT ![seen[v]] = [rows[seen[v]] EXCEPT !.used = TRUE]]
        BY <2>3
    <3>2. rows[seen[v]] \in Row /\ [rows[seen[v]] EXCEPT !.used = TRUE] \in Row
        BY <1>1, <2>1 DEF Row
    <3>3. rows' \in [Dom -> Row]
        BY <1>1, <3>1, <3>2
    <3>4. /\ rows'[seen[v]].purpose = rows[seen[v]].purpose
          /\ rows'[seen[v]].created = rows[seen[v]].created
          /\ rows'[seen[v]].used
        BY <1>1, <2>1, <3>1, <3>2 DEF Row
    <3>5. \A i \in Dom : i # seen[v] => rows'[i] = rows[i]
        BY <1>1, <3>1
    <3> QED BY <3>3, <3>4, <3>5 DEF Rewritten
  <2> QED BY <1>2, <2>2, <2>3
<1>6. ASSUME NEW v \in Verifiers, CountMiss(v) PROVE Rewritten
  <2>1. seen[v] \in Dom
      BY <1>6 DEF TypeOK, CountMiss
  <2>2. rows' = rows \/ rows' = [rows EXCEPT ![seen[v]].attempts = @ + 1]
      BY <1>6 DEF CountMiss
  <2>3. rows[seen[v]] \in Row /\ rows[seen[v]].attempts + 1 \in Nat
      BY <1>1, <2>1 DEF Row
  <2>5. CASE rows' = [rows EXCEPT ![seen[v]].attempts = @ + 1]
    <3>1. rows' \in [Dom -> Row]
      <4>1. PICK n \in Nat : n = rows[seen[v]].attempts + 1
          BY <2>3
      <4>2. [rows[seen[v]] EXCEPT !.attempts = n] \in Row
          BY <2>3 DEF Row
      <4>3. rows' = [rows EXCEPT ![seen[v]] = [rows[seen[v]] EXCEPT !.attempts = n]]
          BY <2>5, <4>1
      <4> QED BY <1>1, <4>2, <4>3
    <3>2. \A i \in Dom : /\ rows'[i].purpose = rows[i].purpose
                         /\ rows'[i].created = rows[i].created
                         /\ rows'[i].used = rows[i].used
        BY <1>1, <2>1, <2>3, <2>5 DEF Row
    <3> QED BY <3>1, <3>2 DEF Rewritten
  <2> QED BY <1>2, <2>2, <2>5
<1>7. ASSUME NEW s \in Senders, AskForCode(s) \/ SendMail(s) PROVE UNCHANGED rows
    BY <1>7 DEF AskForCode, SendMail
<1>8. ASSUME NEW v \in Verifiers, ReadCode(v) \/ FindAccount(v) \/ CreateAccount(v) \/ RereadAccount(v)
      PROVE  UNCHANGED rows
    BY <1>8 DEF ReadCode, FindAccount, CreateAccount, RereadAccount
<1>9. CASE Evict \/ Tick \/ UNCHANGED vars
    BY <1>2, <1>9 DEF Evict, Tick, vars
<1> QED BY <1>2, <1>3, <1>4, <1>5, <1>6, <1>7, <1>8, <1>9 DEF Next

\* Every step keeps the types.
LEMMA TypeStep == ASSUME TypeOK, [Next]_vars PROVE TypeOK'
<1> DEFINE SendPcs == {"idle", "insert", "mail", "accepted", "refused"}
           CheckPcs == {"idle", "lock", "count", "claim", "lookup", "create", "reread"}
<1>1. /\ rows' \in Seq(Row) /\ Len(rows') <= MaxRows
      /\ DOMAIN rows \subseteq DOMAIN rows'
  <2>1. ASSUME NEW s \in Senders, InsertCode(s)
        PROVE  rows' \in Seq(Row) /\ Len(rows') <= MaxRows /\ DOMAIN rows \subseteq DOMAIN rows'
    <3>1. Len(rows) < MaxRows
        BY <2>1 DEF InsertCode
    <3>2. Len(rows) \in Nat /\ Len(rows) + 1 <= MaxRows
        BY <3>1, RowFacts, BoundAssumption
    <3> QED BY <2>1, <3>2, InsertedRow
  <2>2. CASE \A s \in Senders : ~InsertCode(s)
    <3>1. rows' \in [DOMAIN rows -> Row]
        BY <2>2, OthersRewrite DEF Rewritten
    <3>2. rows' \in Seq(Row) /\ Len(rows') = Len(rows) /\ DOMAIN rows' = DOMAIN rows
        BY <3>1, Updated
    <3> QED BY <3>2 DEF TypeOK
  <2> QED BY <2>1, <2>2
<1>2. /\ DOMAIN rows \subseteq 1..MaxRows
      /\ Len(rows) \in Nat
    BY RowFacts
<1> DEFINE Others ==
        /\ sendPc' \in [Senders -> SendPcs]
        /\ draft' \in [Senders -> Draft \cup {NoDraft}]
        /\ \A s \in Senders : sendPc'[s] # "idle" => draft'[s] \in Draft
        /\ checkPc' \in [Verifiers -> CheckPcs]
        /\ seen' \in [Verifiers -> 0..MaxRows]
        /\ \A v \in Verifiers : checkPc'[v] # "idle" => seen'[v] \in DOMAIN rows
        /\ account' \in Verifiers \cup {NoAccount}
        /\ now' \in 0..MaxTime
        /\ granted' \in [1..MaxRows -> Nat]
        /\ answered' \subseteq Verifiers \cup {NoAccount}
        /\ bounced' \subseteq 0..MaxRows
<1>3. Others
  <2> USE BoundAssumption DEF TypeOK
  <2> DEFINE Checks ==
          /\ checkPc' \in [Verifiers -> CheckPcs]
          /\ seen' \in [Verifiers -> 0..MaxRows]
          /\ \A v \in Verifiers : checkPc'[v] # "idle" => seen'[v] \in DOMAIN rows
  <2>0. ASSUME NEW v \in Verifiers, NEW stage \in CheckPcs, checkPc[v] # "idle",
               EndCheck(v) \/ Continue(v, stage)
        PROVE  Checks
    <3>1. CASE EndCheck(v)
        BY <3>1 DEF EndCheck
    <3>2. CASE Continue(v, stage)
        BY <2>0, <3>2 DEF Continue
    <3> QED BY <2>0, <3>1, <3>2
  <2>1. ASSUME NEW s \in Senders, AskForCode(s) PROVE Others
    <3>1. PICK p \in Purposes, c \in Codes : draft' = [draft EXCEPT ![s] = Drafted(p, c)]
        BY <2>1 DEF AskForCode
    <3>2. Drafted(p, c) \in Draft
        BY DEF Drafted, Draft
    <3> QED BY <2>1, <3>1, <3>2 DEF AskForCode, checkVars, historyVars
  <2>2. ASSUME NEW s \in Senders, InsertCode(s) PROVE Others
    <3>1. draft[s] \in Draft /\ Len(rows) + 1 \in 0..MaxRows
        BY <1>2, <2>2 DEF InsertCode
    <3>2. [draft[s] EXCEPT !.id = Len(rows) + 1] \in Draft
        BY <3>1 DEF Draft
    <3>3. draft' = [draft EXCEPT ![s] = [draft[s] EXCEPT !.id = Len(rows) + 1]]
        BY <2>2 DEF InsertCode
    <3>4. /\ draft' \in [Senders -> Draft \cup {NoDraft}]
          /\ sendPc' \in [Senders -> SendPcs]
          /\ \A r \in Senders : sendPc'[r] # "idle" => draft'[r] \in Draft
        BY <2>2, <3>2, <3>3 DEF InsertCode
    <3> QED BY <2>2, <3>4 DEF InsertCode, checkVars, historyVars
  <2>3. ASSUME NEW s \in Senders, SendMail(s) PROVE Others
      BY <2>3 DEF SendMail, checkVars, historyVars
  <2>4. ASSUME NEW s \in Senders, MarkSent(s) PROVE Others
      BY <2>4 DEF MarkSent, EndSend, checkVars, historyVars
  <2>5. ASSUME NEW s \in Senders, MarkFailed(s) PROVE Others
    <3>1. draft[s].id \in 0..MaxRows
        BY <2>5 DEF MarkFailed, Draft
    <3> QED BY <2>5, <3>1 DEF MarkFailed, EndSend, checkVars
  <2>6. ASSUME NEW v \in Verifiers, ReadCode(v) PROVE Others
    <3>1. PICK p \in Purposes, c \in Codes :
              /\ Ids(p) # {}
              /\ Judgement(Newest(p), c) # "idle"
              /\ checkPc' = [checkPc EXCEPT ![v] = Judgement(Newest(p), c)]
              /\ seen' = [seen EXCEPT ![v] = Newest(p)]
        BY <2>6 DEF ReadCode
    <3>2. Newest(p) \in DOMAIN rows
        BY <3>1, NewestExists DEF Ids
    <3>3. Judgement(Newest(p), c) \in {"lock", "count", "claim"}
        BY <3>1 DEF Judgement
    <3>4. Newest(p) \in 0..MaxRows
        BY <1>2, <3>2
    <3>5. Checks
        BY <3>1, <3>2, <3>3, <3>4
    <3> QED BY <2>6, <3>5 DEF ReadCode, sendVars, historyVars
  <2>7. ASSUME NEW v \in Verifiers, LockCode(v) PROVE Others
    <3>1. Checks
        BY <2>7 DEF LockCode, EndCheck
    <3> QED BY <2>7, <3>1 DEF LockCode, sendVars, historyVars
  <2>8. ASSUME NEW v \in Verifiers, CountMiss(v) PROVE Others
    <3>1. Checks
        BY <2>8 DEF CountMiss, EndCheck
    <3> QED BY <2>8, <3>1 DEF CountMiss, sendVars, historyVars
  <2>9. ASSUME NEW v \in Verifiers, Claim(v) PROVE Others
    <3>1. seen[v] \in 1..MaxRows
        BY <1>2, <2>9 DEF Claim
    <3>2. granted' \in [1..MaxRows -> Nat]
      <4>1. granted' = granted \/ granted' = [granted EXCEPT ![seen[v]] = @ + 1]
          BY <2>9 DEF Claim
      <4>2. PICK n \in Nat : n = granted[seen[v]] + 1
          BY <3>1
      <4> QED BY <3>1, <4>1, <4>2
    <3>3. Checks
      <4>1. EndCheck(v) \/ Continue(v, "lookup")
          BY <2>9 DEF Claim
      <4>2. checkPc[v] # "idle"
          BY <2>9 DEF Claim
      <4> HIDE DEF Checks
      <4> QED BY <2>0, <4>1, <4>2
    <3> QED BY <2>9, <3>2, <3>3 DEF Claim, sendVars
  <2>10. ASSUME NEW v \in Verifiers, FindAccount(v) PROVE Others
    <3>1. Checks
      <4>1. EndCheck(v) \/ Continue(v, "create")
          BY <2>10 DEF FindAccount
      <4>2. checkPc[v] # "idle"
          BY <2>10 DEF FindAccount
      <4> HIDE DEF Checks
      <4> QED BY <2>0, <4>1, <4>2
    <3> QED BY <2>10, <3>1 DEF FindAccount, sendVars
  <2>11. ASSUME NEW v \in Verifiers, CreateAccount(v) PROVE Others
      BY <2>11 DEF CreateAccount, Continue, sendVars, historyVars
  <2>12. ASSUME NEW v \in Verifiers, RereadAccount(v) PROVE Others
    <3>1. Checks
        BY <2>12 DEF RereadAccount, EndCheck
    <3>2. answered' \subseteq Verifiers \cup {NoAccount}
        BY <2>12 DEF RereadAccount
    <3> QED BY <2>12, <3>1, <3>2 DEF RereadAccount, sendVars
  <2>13. CASE Evict
    <3>1. ASSUME NEW s \in Senders, EndSend(s), UNCHANGED checkVars PROVE Others
      <4>1. /\ sendPc' \in [Senders -> SendPcs]
            /\ draft' \in [Senders -> Draft \cup {NoDraft}]
            /\ \A r \in Senders : sendPc'[r] # "idle" => draft'[r] \in Draft
          BY <3>1 DEF EndSend
      <4> QED BY <2>13, <3>1, <4>1 DEF Evict, checkVars, historyVars
    <3>2. ASSUME NEW v \in Verifiers, EndCheck(v), UNCHANGED sendVars PROVE Others
      <4>1. Checks
          BY <3>2 DEF EndCheck
      <4> QED BY <2>13, <3>2, <4>1 DEF Evict, sendVars, historyVars
    <3> QED BY <2>13, <3>1, <3>2 DEF Evict
  <2>14. CASE Tick
      BY <2>14 DEF Tick, sendVars, checkVars, historyVars
  <2>15. CASE UNCHANGED vars
      BY <2>15 DEF vars, sendVars, checkVars, historyVars
  <2> QED BY <2>1, <2>2, <2>3, <2>4, <2>5, <2>6, <2>7, <2>8, <2>9, <2>10, <2>11, <2>12, <2>13, <2>14, <2>15 DEF Next
<1> QED BY <1>1, <1>3 DEF TypeOK

\* The types of the table, of the two handlers' locals and of the histories
\* (email.js: sendVerificationCode, consumeVerificationCode, verifyCode).
THEOREM CodesTypeCorrect == Spec => []TypeOK
<1>1. Init => TypeOK
    BY EmptySeq, BoundAssumption DEF Init, TypeOK
<1>2. TypeOK /\ [Next]_vars => TypeOK'
    BY TypeStep
<1> QED BY <1>1, <1>2, PTL DEF Spec

-----------------------------------------------------------------------------
\* How often a code can be tried.

\* A row that was accepted is used, and what is not in the table was never
\* accepted.
Spent ==
    /\ \A i \in DOMAIN rows : granted[i] # 0 => rows[i].used
    /\ \A i \in 1..MaxRows : i \notin DOMAIN rows => granted[i] = 0

\* The verifiers that judge one row are among the verifiers.
LEMMA JudgingFinite ==
    ASSUME NEW i
    PROVE  /\ IsFiniteSet(Judging(i)) /\ IsFiniteSet(Judging(i)')
           /\ Cardinality(Judging(i)) \in Nat /\ Cardinality(Judging(i)') \in Nat
           /\ Cardinality(Judging(i)') <= Cardinality(Verifiers)
           /\ Cardinality(Verifiers) \in Nat
<1>1. Judging(i) \in SUBSET Verifiers /\ Judging(i)' \in SUBSET Verifiers
    BY DEF Judging
<1> QED BY <1>1, BoundAssumption, FS_Subset, FS_CardinalityType

\* What a statement of the verifiers does to the guesses a row has taken.
Quiet(i) ==
    /\ rows'[i].attempts = rows[i].attempts
    /\ granted'[i] = granted[i]
    /\ Judging(i)' \subseteq Judging(i)

Judged(i) ==
    /\ \/ rows'[i].attempts = rows[i].attempts + 1 /\ granted'[i] = granted[i]
       \/ rows'[i].attempts = rows[i].attempts /\ granted'[i] = granted[i] + 1
    /\ \E v \in Judging(i) : Judging(i)' \subseteq Judging(i) \ {v}

Arrived(i) ==
    /\ rows[i].attempts < MaxAttempts
    /\ granted[i] = 0
    /\ rows' = rows /\ granted' = granted

\* Nothing else happens to a row of the table.
LEMMA GuessStep ==
    ASSUME TypeOK, Spent, [Next]_vars, NEW i \in DOMAIN rows
    PROVE  Quiet(i) \/ Judged(i) \/ Arrived(i)
<1>1. /\ DOMAIN rows \subseteq 1..MaxRows
      /\ \A j \in DOMAIN rows : rows[j] \in Row
    BY RowFacts
<1>2. ASSUME NEW s \in Senders, InsertCode(s) PROVE Quiet(i)
  <2>1. rows'[i] = rows[i]
      BY <1>2, InsertedRow
  <2> QED BY <1>2, <2>1 DEF InsertCode, checkVars, historyVars, Quiet, Judging
<1>3. ASSUME NEW s \in Senders, MarkSent(s) \/ MarkFailed(s) PROVE Quiet(i)
  <2>1. rows'[i].attempts = rows[i].attempts
    <3>1. rows[i] \in Row
        BY <1>1
    <3>2. /\ [rows[i] EXCEPT !.status = "sent"].attempts = rows[i].attempts
          /\ [rows[i] EXCEPT !.status = "failed", !.used = TRUE].attempts = rows[i].attempts
        BY <3>1 DEF Row
    <3>3. rows'[i] \in {rows[i], [rows[i] EXCEPT !.status = "sent"],
                        [rows[i] EXCEPT !.status = "failed", !.used = TRUE]}
        BY <1>3 DEF MarkSent, MarkFailed
    <3> QED BY <3>2, <3>3
  <2> QED BY <1>3, <2>1 DEF MarkSent, MarkFailed, checkVars, historyVars, Quiet, Judging
<1>4. ASSUME NEW s \in Senders, AskForCode(s) \/ SendMail(s) PROVE Quiet(i)
    BY <1>4 DEF AskForCode, SendMail, checkVars, historyVars, Quiet, Judging
<1>5. ASSUME NEW v \in Verifiers, ReadCode(v) PROVE Quiet(i) \/ Arrived(i)
  <2>1. PICK p \in Purposes, c \in Codes :
            /\ Ids(p) # {}
            /\ ~rows[Newest(p)].used
            /\ checkPc' = [checkPc EXCEPT ![v] = Judgement(Newest(p), c)]
            /\ seen' = [seen EXCEPT ![v] = Newest(p)]
            /\ UNCHANGED <<rows, granted>>
      BY <1>5 DEF ReadCode, historyVars
  <2>2. Newest(p) \in DOMAIN rows
      BY <2>1, NewestExists, BoundAssumption DEF Ids
  <2>3. CASE i = Newest(p) /\ Judgement(i, c) \in {"count", "claim"}
    <3>1. rows[i].attempts \in Nat /\ rows[i].attempts < MaxAttempts
        BY <1>1, <2>3, BoundAssumption DEF Judgement, Row
    <3> QED BY <2>1, <2>3, <3>1 DEF Arrived, Spent
  <2>4. CASE ~(i = Newest(p) /\ Judgement(i, c) \in {"count", "claim"})
    <3>1. Judging(i)' \subseteq Judging(i)
        BY <2>1, <2>4 DEF Judging, TypeOK
    <3> QED BY <2>1, <3>1 DEF Quiet
  <2> QED BY <2>3, <2>4
<1>6. ASSUME NEW v \in Verifiers, LockCode(v) PROVE Quiet(i)
  <2>1. rows'[i].attempts = rows[i].attempts
      BY <1>1, <1>6 DEF LockCode, Row
  <2> QED BY <1>6, <2>1 DEF LockCode, EndCheck, historyVars, Quiet, Judging, TypeOK
<1>7. ASSUME NEW v \in Verifiers, CountMiss(v) PROVE Quiet(i) \/ Judged(i)
  <2>1. /\ Judging(i)' \subseteq Judging(i) \ {v}
        /\ seen[v] = i => v \in Judging(i)
        /\ granted' = granted
      BY <1>7 DEF CountMiss, EndCheck, historyVars, Judging, TypeOK
  <2>2. CASE seen[v] = i /\ ~rows[i].used
    <3>1. rows'[i].attempts = rows[i].attempts + 1
        BY <1>1, <1>7, <2>2 DEF CountMiss, Row
    <3> QED BY <2>1, <2>2, <3>1 DEF Judged
  <2>3. CASE ~(seen[v] = i /\ ~rows[i].used)
    <3>1. rows'[i].attempts = rows[i].attempts
        BY <1>1, <1>7, <2>3 DEF CountMiss, Row
    <3> QED BY <2>1, <3>1 DEF Quiet
  <2> QED BY <2>2, <2>3
<1>8. ASSUME NEW v \in Verifiers, Claim(v) PROVE Quiet(i) \/ Judged(i)
  <2>1. /\ Judging(i)' \subseteq Judging(i) \ {v}
        /\ seen[v] = i => v \in Judging(i)
      BY <1>8 DEF Claim, EndCheck, Continue, Judging, TypeOK
  <2>2. CASE seen[v] = i /\ ~rows[i].used
    <3>1. /\ rows'[i].attempts = rows[i].attempts
          /\ granted'[i] = granted[i] + 1
      <4>1. /\ rows' = [rows EXCEPT ![i].used = TRUE]
            /\ granted' = [granted EXCEPT ![i] = @ + 1]
          BY <1>8, <2>2 DEF Claim
      <4>2. rows'[i].attempts = rows[i].attempts
          BY <1>1, <4>1 DEF Row
      <4>3. granted'[i] = granted[i] + 1
          BY <1>1, <4>1 DEF TypeOK
      <4> QED BY <4>2, <4>3
    <3> QED BY <2>1, <2>2, <3>1 DEF Judged
  <2>3. CASE ~(seen[v] = i /\ ~rows[i].used)
    <3>1. /\ rows'[i].attempts = rows[i].attempts
          /\ granted'[i] = granted[i]
        BY <1>1, <1>8, <2>3 DEF Claim, Row, TypeOK
    <3> QED BY <2>1, <3>1 DEF Quiet
  <2> QED BY <2>2, <2>3
<1>9. ASSUME NEW v \in Verifiers, FindAccount(v) PROVE Quiet(i)
  <2>1. Judging(i)' \subseteq Judging(i)
      BY <1>9 DEF FindAccount, EndCheck, Continue, Judging, TypeOK
  <2> QED BY <1>9, <2>1 DEF FindAccount, Quiet
<1>10. ASSUME NEW v \in Verifiers, CreateAccount(v) \/ RereadAccount(v) PROVE Quiet(i)
  <2>1. Judging(i)' \subseteq Judging(i)
      BY <1>10 DEF CreateAccount, RereadAccount, EndCheck, Continue, Judging, TypeOK
  <2> QED BY <1>10, <2>1 DEF CreateAccount, RereadAccount, historyVars, Quiet
<1>11. CASE Evict
  <2>1. Judging(i)' \subseteq Judging(i)
      BY <1>11 DEF Evict, EndCheck, checkVars, Judging, TypeOK
  <2> QED BY <1>11, <2>1 DEF Evict, historyVars, Quiet
<1>12. CASE Tick \/ UNCHANGED vars
    BY <1>12 DEF Tick, vars, checkVars, historyVars, Quiet, Judging
<1> QED BY <1>2, <1>3, <1>4, <1>5, <1>6, <1>7, <1>8, <1>9, <1>10, <1>11, <1>12 DEF Next

\* Only a claim of an unused row is granted, and it uses the row.
LEMMA SpentStep == ASSUME TypeOK, Spent, [Next]_vars PROVE Spent'
<1>1. /\ Len(rows) \in Nat
      /\ DOMAIN rows \subseteq 1..MaxRows
      /\ \A i \in DOMAIN rows : rows[i] \in Row
    BY RowFacts
<1>2. ASSUME NEW s \in Senders, InsertCode(s) PROVE Spent'
  <2>1. granted' = granted
      BY <1>2 DEF InsertCode, historyVars
  <2>2. Len(rows) + 1 \in 1..MaxRows
      BY <1>1, <1>2, BoundAssumption DEF InsertCode
  <2>3. granted[Len(rows) + 1] = 0
      BY <1>2, <2>2, InsertedRow DEF Spent
  <2> QED BY <1>2, <2>1, <2>3, InsertedRow DEF Spent
<1>3. CASE \A s \in Senders : ~InsertCode(s)
  <2>1. Rewritten /\ DOMAIN rows' = DOMAIN rows
      BY <1>3, OthersRewrite DEF Rewritten
  <2>2. CASE granted' = granted
      BY <2>1, <2>2 DEF Spent, Rewritten
  <2>3. ASSUME NEW v \in Verifiers, Claim(v) PROVE Spent'
    <3>1. seen[v] \in DOMAIN rows
        BY <2>3 DEF Claim, TypeOK
    <3>2. \/ granted' = granted
          \/ /\ granted' = [granted EXCEPT ![seen[v]] = @ + 1]
             /\ rows'[seen[v]].used
        BY <1>1, <2>3, <3>1 DEF Claim, Row, TypeOK
    <3>3. CASE granted' = [granted EXCEPT ![seen[v]] = @ + 1] /\ rows'[seen[v]].used
      <4>1. \A j \in 1..MaxRows : j # seen[v] => granted'[j] = granted[j]
          BY <3>3 DEF TypeOK
      <4> QED BY <1>1, <2>1, <3>1, <3>3, <4>1 DEF Spent, Rewritten
    <3> QED BY <2>2, <3>2, <3>3
  <2>4. (\E v \in Verifiers : Claim(v)) \/ granted' = granted
      BY DEF Next, AskForCode, InsertCode, SendMail, MarkSent, MarkFailed, ReadCode, LockCode,
             CountMiss, FindAccount, CreateAccount, RereadAccount, Evict, Tick, vars, historyVars
  <2> QED BY <2>2, <2>3, <2>4
<1> QED BY <1>2, <1>3

\* A guess that arrives leaves the attempts below the lock, and a guess that
\* has been judged leaves the guesses in flight.
LEMMA BudgetStep ==
    ASSUME TypeOK, TypeOK', Spent, Spent', GuessBudget, [Next]_vars
    PROVE  GuessBudget'
<1> DEFINE Most == MaxAttempts - 1 + Cardinality(Verifiers)
<1>1. SUFFICES ASSUME NEW i \in DOMAIN rows'
               PROVE  rows'[i].attempts + granted'[i] + Cardinality(Judging(i)') <= Most
    BY DEF GuessBudget
<1>2. /\ Len(rows) \in Nat
      /\ DOMAIN rows \subseteq 1..MaxRows
      /\ \A j \in DOMAIN rows : rows[j] \in Row
    BY RowFacts
<1>3. /\ Cardinality(Judging(i)) \in Nat /\ Cardinality(Judging(i)') \in Nat
      /\ Cardinality(Judging(i)') <= Cardinality(Verifiers)
      /\ Cardinality(Verifiers) \in Nat
      /\ MaxAttempts \in Nat \ {0}
    BY JudgingFinite, BoundAssumption
<1>4. CASE i \in DOMAIN rows
  <2>1. rows[i].attempts \in Nat /\ granted[i] \in Nat
      BY <1>2, <1>4 DEF Row, TypeOK
  <2>2. rows[i].attempts + granted[i] + Cardinality(Judging(i)) <= Most
      BY <1>4 DEF GuessBudget
  <2>3. CASE Quiet(i)
    <3>1. Cardinality(Judging(i)') <= Cardinality(Judging(i))
        BY <2>3, JudgingFinite, FS_Subset DEF Quiet
    <3> QED BY <1>3, <2>1, <2>2, <2>3, <3>1 DEF Quiet
  <2>4. CASE Judged(i)
    <3>1. PICK v \in Judging(i) : Judging(i)' \subseteq Judging(i) \ {v}
        BY <2>4 DEF Judged
    <3>2. /\ IsFiniteSet(Judging(i) \ {v})
          /\ Cardinality(Judging(i) \ {v}) = Cardinality(Judging(i)) - 1
        BY <3>1, JudgingFinite, FS_RemoveElement
    <3>3. Cardinality(Judging(i)') <= Cardinality(Judging(i)) - 1
        BY <3>1, <3>2, FS_Subset
    <3>4. rows'[i].attempts + granted'[i] = rows[i].attempts + granted[i] + 1
        BY <2>1, <2>4 DEF Judged
    <3>5. rows'[i].attempts \in Nat /\ granted'[i] \in Nat
        BY <2>1, <2>4 DEF Judged
    <3> QED BY <1>3, <2>1, <2>2, <3>3, <3>4, <3>5
  <2>5. CASE Arrived(i)
      BY <1>3, <2>1, <2>5 DEF Arrived
  <2> QED BY <1>4, <2>3, <2>4, <2>5, GuessStep
<1>5. CASE i \notin DOMAIN rows
  <2>1. PICK s \in Senders : InsertCode(s)
      BY <1>5, OthersRewrite DEF Rewritten
  <2>0. /\ DOMAIN rows' = DOMAIN rows \cup {Len(rows) + 1}
        /\ rows'[Len(rows) + 1].attempts = 0
      BY <2>1, InsertedRow
  <2>2. i = Len(rows) + 1
      BY <1>5, <2>0
  <2>3. i \in 1..MaxRows
      BY <1>2, <2>1, <2>2, BoundAssumption DEF InsertCode
  <2>4. rows'[i].attempts = 0
      BY <2>0, <2>2
  <2>5. granted'[i] = 0
      BY <1>5, <2>1, <2>3 DEF InsertCode, historyVars, Spent
  <2> QED BY <1>3, <2>4, <2>5
<1> QED BY <1>4, <1>5

\* However many verifiers hold a copy of a row at once, the guesses it takes
\* in its whole life stay within one less than the lock plus the verifiers
\* (consumeVerificationCode, email.js).
THEOREM GuessesWithinBudget == Spec => []GuessBudget
<1>1. Init => Spent /\ GuessBudget
    BY DEF Init, Spent, GuessBudget
<1>2. TypeOK /\ TypeOK' /\ Spent /\ GuessBudget /\ [Next]_vars => Spent' /\ GuessBudget'
    BY SpentStep, BudgetStep
<1> QED BY <1>1, <1>2, CodesTypeCorrect, PTL DEF Spec

-----------------------------------------------------------------------------
\* How many codes one minute can see.

\* The senders about to insert and the codes of the last minute are finitely
\* many.
LEMMA BurstFinite ==
    ASSUME TypeOK, NEW p
    PROVE  /\ IsFiniteSet(Fresh(p)) /\ IsFiniteSet(Inserting(p))
           /\ Cardinality(Fresh(p)) \in Nat /\ Cardinality(Inserting(p)) \in Nat
           /\ Cardinality(Inserting(p)) <= Cardinality(Senders)
           /\ Cardinality(Senders) \in Nat
<1>1. IsFiniteSet(1..Len(rows))
    BY RowFacts, FS_Interval
<1>2. Fresh(p) \in SUBSET (1..Len(rows))
    BY RowFacts DEF Fresh, Ids
<1>3. Inserting(p) \in SUBSET Senders
    BY DEF Inserting
<1>4. IsFiniteSet(Fresh(p)) /\ IsFiniteSet(Inserting(p))
    BY <1>1, <1>2, <1>3, BoundAssumption, FS_Subset
<1>5. Cardinality(Inserting(p)) <= Cardinality(Senders)
    BY <1>3, BoundAssumption, FS_Subset
<1> QED BY <1>4, <1>5, BoundAssumption, FS_CardinalityType

\* No code becomes younger, and only InsertCode adds one.
LEMMA FreshStep ==
    ASSUME TypeOK, TypeOK', [Next]_vars, \A s \in Senders : ~InsertCode(s), NEW p
    PROVE  Fresh(p)' \subseteq Fresh(p)
<1>1. Rewritten /\ DOMAIN rows' = DOMAIN rows
    BY OthersRewrite DEF Rewritten
<1>2. now \in Nat /\ now' \in Nat /\ now <= now'
  <2>1. now' = now \/ now' = now + 1
      BY DEF Next, AskForCode, InsertCode, SendMail, MarkSent, MarkFailed, ReadCode, LockCode,
             CountMiss, Claim, FindAccount, CreateAccount, RereadAccount, Evict, Tick, vars
  <2> QED BY <2>1, BoundAssumption DEF TypeOK
<1>3. ASSUME NEW i \in Fresh(p)' PROVE i \in Fresh(p)
  <2>1. /\ i \in DOMAIN rows /\ rows'[i].purpose = p
        /\ now' - rows'[i].created < ResendGap
      BY <1>1, <1>3 DEF Fresh, Ids
  <2>2. rows[i].created \in Nat /\ rows'[i].created = rows[i].created /\ rows[i].purpose = p
      BY <1>1, <2>1, RowFacts, BoundAssumption DEF Rewritten, Row
  <2>3. now - rows[i].created < ResendGap
      BY <1>2, <2>1, <2>2, BoundAssumption
  <2> QED BY <2>1, <2>2, <2>3 DEF Fresh, Ids
<1> QED BY <1>3

\* Only a request that finds no young code joins the senders about to insert.
LEMMA InsertingStep ==
    ASSUME TypeOK, [Next]_vars, \A s \in Senders : ~AskForCode(s), NEW p
    PROVE  Inserting(p)' \subseteq Inserting(p)
<1> USE DEF Inserting, TypeOK
<1>1. ASSUME NEW s \in Senders, InsertCode(s) PROVE Inserting(p)' \subseteq Inserting(p)
    BY <1>1 DEF InsertCode
<1>2. ASSUME NEW s \in Senders, SendMail(s) PROVE Inserting(p)' \subseteq Inserting(p)
    BY <1>2 DEF SendMail
<1>3. ASSUME NEW s \in Senders, MarkSent(s) \/ MarkFailed(s)
      PROVE  Inserting(p)' \subseteq Inserting(p)
    BY <1>3 DEF MarkSent, MarkFailed, EndSend
<1>4. ASSUME NEW v \in Verifiers,
             \/ ReadCode(v) \/ LockCode(v) \/ CountMiss(v) \/ Claim(v)
             \/ FindAccount(v) \/ CreateAccount(v) \/ RereadAccount(v)
      PROVE  UNCHANGED sendVars
    BY <1>4 DEF ReadCode, LockCode, CountMiss, Claim, FindAccount, CreateAccount, RereadAccount
<1>5. CASE UNCHANGED sendVars
    BY <1>5 DEF sendVars
<1>6. CASE Evict
    BY <1>6 DEF Evict, EndSend, sendVars
<1>7. CASE Tick \/ UNCHANGED vars
    BY <1>7 DEF Tick, vars, sendVars
<1> QED BY <1>1, <1>2, <1>3, <1>4, <1>5, <1>6, <1>7 DEF Next

\* The minute is checked when a code is asked for: then no code is young, and
\* each that is inserted afterwards was about to be inserted.
LEMMA BurstStep ==
    ASSUME TypeOK, TypeOK', BurstBounded, [Next]_vars
    PROVE  BurstBounded'
<1>1. SUFFICES ASSUME NEW p \in Purposes
               PROVE  Cardinality(Fresh(p)') + Cardinality(Inserting(p)') <= Cardinality(Senders)
    BY DEF BurstBounded
<1>2. /\ IsFiniteSet(Fresh(p)) /\ IsFiniteSet(Inserting(p))
      /\ Cardinality(Fresh(p)) \in Nat /\ Cardinality(Inserting(p)) \in Nat
      /\ Cardinality(Senders) \in Nat
      /\ Cardinality(Fresh(p)) + Cardinality(Inserting(p)) <= Cardinality(Senders)
    BY BurstFinite DEF BurstBounded
<1>3. /\ Cardinality(Fresh(p)') \in Nat /\ Cardinality(Inserting(p)') \in Nat
      /\ Cardinality(Inserting(p)') <= Cardinality(Senders)
  <2>1. Inserting(p)' \in SUBSET Senders
      BY DEF Inserting
  <2>2. IsFiniteSet(1..Len(rows'))
      BY LenProperties, FS_Interval DEF TypeOK
  <2>3. Fresh(p)' \in SUBSET (1..Len(rows'))
      BY LenProperties DEF TypeOK, Fresh, Ids
  <2> QED BY <2>1, <2>2, <2>3, BoundAssumption, FS_Subset, FS_CardinalityType
<1>4. CASE Fresh(p)' = {}
    BY <1>2, <1>3, <1>4, FS_EmptySet
<1>5. CASE Fresh(p)' \subseteq Fresh(p) /\ Inserting(p)' \subseteq Inserting(p)
  <2>1. /\ Cardinality(Fresh(p)') <= Cardinality(Fresh(p))
        /\ Cardinality(Inserting(p)') <= Cardinality(Inserting(p))
      BY <1>2, <1>5, FS_Subset
  <2> QED BY <1>2, <1>3, <2>1
<1>6. ASSUME NEW s \in Senders, AskForCode(s)
      PROVE  \/ Fresh(p)' = {}
             \/ Fresh(p)' \subseteq Fresh(p) /\ Inserting(p)' \subseteq Inserting(p)
  <2>1. PICK q \in Purposes, c \in Codes : Fresh(q) = {} /\ draft' = [draft EXCEPT ![s] = Drafted(q, c)]
      BY <1>6 DEF AskForCode
  <2>2. Fresh(p)' = Fresh(p)
      BY <1>6 DEF AskForCode, Fresh, Ids
  <2>3. CASE p = q
      BY <2>1, <2>2, <2>3
  <2>4. CASE p # q
    <3>1. draft'[s].purpose = q
        BY <2>1 DEF Drafted, TypeOK
    <3>2. Inserting(p)' \subseteq Inserting(p)
        BY <1>6, <2>1, <2>4, <3>1 DEF AskForCode, Inserting, TypeOK
    <3> QED BY <2>2, <3>2
  <2> QED BY <2>3, <2>4
<1>7. ASSUME NEW s \in Senders, InsertCode(s), draft[s].purpose = p
      PROVE  Cardinality(Fresh(p)') + Cardinality(Inserting(p)') <= Cardinality(Senders)
  <2>1. now' = now /\ \A i \in DOMAIN rows : rows'[i] = rows[i]
      BY <1>7, InsertedRow DEF InsertCode
  <2>2. Fresh(p)' \subseteq Fresh(p) \cup {Len(rows) + 1}
      BY <1>7, <2>1, InsertedRow DEF Fresh, Ids
  <2>3. s \in Inserting(p)
      BY <1>7 DEF InsertCode, Inserting
  <2>4. Inserting(p)' \subseteq Inserting(p) \ {s}
      BY <1>7 DEF InsertCode, Inserting, TypeOK
  <2>5. /\ IsFiniteSet(Fresh(p) \cup {Len(rows) + 1})
        /\ Cardinality(Fresh(p) \cup {Len(rows) + 1}) <= Cardinality(Fresh(p)) + 1
    <3>1. /\ IsFiniteSet(Fresh(p) \cup {Len(rows) + 1})
          /\ \/ Cardinality(Fresh(p) \cup {Len(rows) + 1}) = Cardinality(Fresh(p)) + 1
             \/ Cardinality(Fresh(p) \cup {Len(rows) + 1}) = Cardinality(Fresh(p))
        BY <1>2, FS_AddElement
    <3> QED BY <1>2, <3>1
  <2>6. /\ IsFiniteSet(Inserting(p) \ {s})
        /\ Cardinality(Inserting(p) \ {s}) = Cardinality(Inserting(p)) - 1
      BY <1>2, <2>3, FS_RemoveElement
  <2>7. /\ Cardinality(Fresh(p)') <= Cardinality(Fresh(p) \cup {Len(rows) + 1})
        /\ Cardinality(Inserting(p)') <= Cardinality(Inserting(p) \ {s})
      BY <2>2, <2>4, <2>5, <2>6, FS_Subset
  <2>8. Cardinality(Fresh(p) \cup {Len(rows) + 1}) \in Nat
      BY <2>5, FS_CardinalityType
  <2> QED BY <1>2, <1>3, <2>5, <2>6, <2>7, <2>8
<1>8. ASSUME NEW s \in Senders, InsertCode(s), draft[s].purpose # p
      PROVE  Fresh(p)' \subseteq Fresh(p) /\ Inserting(p)' \subseteq Inserting(p)
  <2>1. now' = now /\ \A i \in DOMAIN rows : rows'[i] = rows[i]
      BY <1>8, InsertedRow DEF InsertCode
  <2>2. Fresh(p)' \subseteq Fresh(p)
      BY <1>8, <2>1, InsertedRow DEF Fresh, Ids
  <2>3. Inserting(p)' \subseteq Inserting(p)
      BY <1>8 DEF InsertCode, Inserting, TypeOK
  <2> QED BY <2>2, <2>3
<1> QED BY <1>4, <1>5, <1>6, <1>7, <1>8, FreshStep, InsertingStep

\* Whatever the burst of requests, no minute sees more codes of one purpose
\* than there are senders (sendVerificationCode, email.js).
THEOREM BurstsAreBounded == Spec => []BurstBounded
<1>1. Init => BurstBounded
  <2> SUFFICES ASSUME Init, NEW p \in Purposes
               PROVE  Cardinality(Fresh(p)) + Cardinality(Inserting(p)) <= Cardinality(Senders)
      BY DEF BurstBounded
  <2>1. Fresh(p) = {} /\ Inserting(p) = {}
      BY DEF Init, Fresh, Ids, Inserting
  <2> QED BY <2>1, FS_EmptySet, FS_CardinalityType, BoundAssumption
<1>2. TypeOK /\ TypeOK' /\ BurstBounded /\ [Next]_vars => BurstBounded'
    BY BurstStep
<1> QED BY <1>1, <1>2, CodesTypeCorrect, PTL DEF Spec

-----------------------------------------------------------------------------
\* One user behind the address.

\* A verifier that reads the row again has seen it exist, and every answer is
\* that row.
AccountKnown ==
    /\ \A v \in Verifiers : checkPc[v] = "reread" => account # NoAccount
    /\ answered \subseteq {account} \ {NoAccount}

\* The users row is written once; every answer is read after that.
LEMMA AccountStep == ASSUME TypeOK, AccountKnown, [Next]_vars PROVE AccountKnown'
<1> USE DEF AccountKnown, TypeOK
<1>1. ASSUME NEW v \in Verifiers, FindAccount(v) PROVE AccountKnown'
    BY <1>1 DEF FindAccount, EndCheck, Continue
<1>2. ASSUME NEW v \in Verifiers, CreateAccount(v) PROVE AccountKnown'
  <2>1. account' # NoAccount /\ (account # NoAccount => account' = account)
      BY <1>2, BoundAssumption DEF CreateAccount
  <2>2. answered' = answered
      BY <1>2 DEF CreateAccount, historyVars
  <2> QED BY <2>1, <2>2
<1>3. ASSUME NEW v \in Verifiers, RereadAccount(v) PROVE AccountKnown'
    BY <1>3 DEF RereadAccount, EndCheck
<1>4. ASSUME NEW v \in Verifiers, ReadCode(v) PROVE AccountKnown'
  <2>1. \A u \in Verifiers : checkPc'[u] = "reread" => checkPc[u] = "reread"
      BY <1>4 DEF ReadCode, Judgement
  <2> QED BY <1>4, <2>1 DEF ReadCode, historyVars
<1>5. ASSUME NEW v \in Verifiers, LockCode(v) \/ CountMiss(v) \/ Claim(v) PROVE AccountKnown'
  <2>1. \A u \in Verifiers : checkPc'[u] = "reread" => checkPc[u] = "reread"
      BY <1>5 DEF LockCode, CountMiss, Claim, EndCheck, Continue
  <2>2. account' = account /\ answered' = answered
      BY <1>5 DEF LockCode, CountMiss, Claim, historyVars
  <2> QED BY <2>1, <2>2
<1>6. ASSUME NEW s \in Senders,
             AskForCode(s) \/ InsertCode(s) \/ SendMail(s) \/ MarkSent(s) \/ MarkFailed(s)
      PROVE  AccountKnown'
  <2>1. checkPc' = checkPc /\ account' = account /\ answered' = answered
      BY <1>6 DEF AskForCode, InsertCode, SendMail, MarkSent, MarkFailed, checkVars, historyVars
  <2> QED BY <2>1
<1>7. CASE Evict
    BY <1>7 DEF Evict, EndCheck, checkVars, historyVars
<1>8. CASE Tick \/ UNCHANGED vars
    BY <1>8 DEF Tick, vars, checkVars, historyVars
<1> QED BY <1>1, <1>2, <1>3, <1>4, <1>5, <1>6, <1>7, <1>8 DEF Next

\* Every caller who proves the address is told one user, also when several of
\* them insert it (verifyCode, email.js).
THEOREM OneUserPerAddress == Spec => []OneAccount
<1>1. Init => AccountKnown
    BY DEF Init, AccountKnown
<1>2. TypeOK /\ AccountKnown /\ [Next]_vars => AccountKnown'
    BY AccountStep
<1>3. AccountKnown => OneAccount
    BY DEF AccountKnown, OneAccount
<1> QED BY <1>1, <1>2, <1>3, CodesTypeCorrect, PTL DEF Spec

-----------------------------------------------------------------------------
\* The table is a store of one-time tokens.

Void == {i \in DOMAIN rows : rows[i].used}

\* Inserting a code issues it.
LEMMA InsertIssues ==
    ASSUME TypeOK, NEW s \in Senders, InsertCode(s)
    PROVE  Honoured!Next
<1>1. /\ DOMAIN rows' = DOMAIN rows \cup {Len(rows) + 1}
      /\ Len(rows) + 1 \notin DOMAIN rows
      /\ \A i \in DOMAIN rows : rows'[i] = rows[i]
      /\ ~rows'[Len(rows) + 1].used
    BY InsertedRow
<1>2. Len(rows) + 1 \in 1..MaxRows
    BY RowFacts, BoundAssumption DEF InsertCode
<1>3. Void' = Void
    BY <1>1 DEF Void
<1>4. granted' = granted
    BY DEF InsertCode, historyVars
<1>5. Honoured!Issue(Len(rows) + 1)
    BY <1>1, <1>3, <1>4 DEF Honoured!Issue, Void
<1> QED BY <1>2, <1>5 DEF Honoured!Next

\* An UPDATE that is no claim issues and honours nothing: it voids the rows
\* that it marks used.
LEMMA RewritingVoids ==
    ASSUME TypeOK, Rewritten, granted' = granted
    PROVE  [Honoured!Next]_(Honoured!vars)
<1>1. DOMAIN rows' = DOMAIN rows
    BY DEF Rewritten
<1>2. Void' = Void \cup (Void' \ Void)
    BY <1>1 DEF Void, Rewritten
<1>3. PICK dead \in SUBSET (DOMAIN rows) : dead = Void' \ Void
    BY <1>1 DEF Void
<1>4. Honoured!Void(dead)
    BY <1>1, <1>2, <1>3 DEF Honoured!Void, Void
<1> QED BY <1>3, <1>4 DEF Honoured!Next

\* Every step of the handlers is a step of the abstract store or leaves it.
LEMMA CodesRefine ==
    ASSUME TypeOK, [Next]_vars
    PROVE  [Honoured!Next]_(Honoured!vars)
<1>1. ASSUME NEW s \in Senders, InsertCode(s) PROVE [Honoured!Next]_(Honoured!vars)
    BY <1>1, InsertIssues
<1>2. CASE (\A s \in Senders : ~InsertCode(s)) /\ granted' = granted
    BY <1>2, OthersRewrite, RewritingVoids
<1>3. ASSUME NEW v \in Verifiers, Claim(v), granted' # granted
      PROVE  [Honoured!Next]_(Honoured!vars)
  <2>1. PICK i \in DOMAIN rows : i = seen[v]
      BY <1>3 DEF Claim, TypeOK
  <2>2. /\ ~rows[i].used
        /\ rows' = [rows EXCEPT ![i].used = TRUE]
        /\ granted' = [granted EXCEPT ![i] = @ + 1]
      BY <1>3, <2>1 DEF Claim
  <2>3. DOMAIN rows' = DOMAIN rows
      BY <2>2
  <2>4. \A j \in DOMAIN rows : rows'[j].used = (rows[j].used \/ j = i)
    <3>1. rows'[i].used
        BY <2>1, <2>2, RowFacts DEF Row
    <3>2. \A j \in DOMAIN rows : j # i => rows'[j] = rows[j]
        BY <2>2
    <3>3. \A j \in DOMAIN rows : rows[j].used \in BOOLEAN
        BY RowFacts DEF Row
    <3>4. rows'[i].used \in BOOLEAN
        BY <2>1, <2>2, RowFacts DEF Row
    <3> QED BY <3>1, <3>2, <3>3, <3>4
  <2>5. Void' = Void \cup {i}
      BY <2>1, <2>3, <2>4 DEF Void
  <2>6. i \in DOMAIN rows \ Void
      BY <2>1, <2>2 DEF Void
  <2>7. Honoured!Honour(i)
      BY <2>2, <2>3, <2>5, <2>6 DEF Honoured!Honour, Void
  <2>8. i \in 1..MaxRows
      BY <2>1, RowFacts
  <2> QED BY <2>7, <2>8 DEF Honoured!Next
<1>4. \/ \E s \in Senders : InsertCode(s)
      \/ \E v \in Verifiers : Claim(v) /\ granted' # granted
      \/ (\A s \in Senders : ~InsertCode(s)) /\ granted' = granted
    BY DEF Next, AskForCode, SendMail, MarkSent, MarkFailed, ReadCode, LockCode,
           CountMiss, FindAccount, CreateAccount, RereadAccount, Evict, Tick, vars, historyVars
<1> QED BY <1>1, <1>2, <1>3, <1>4

\* No code is honoured twice, or after it was locked or voided, and none is
\* revived (consumeVerificationCode, email.js).
THEOREM CodesAreOneTime == Spec => ImplementsOneTime
<1>1. Init => Honoured!Init
  <2> SUFFICES ASSUME Init PROVE Honoured!Init
      OBVIOUS
  <2>1. rows = <<>> /\ DOMAIN rows = {}
      BY DEF Init
  <2>2. Void = {}
      BY <2>1 DEF Void
  <2> QED BY <2>1, <2>2 DEF Init, Honoured!Init, Void
<1>2. TypeOK /\ [Next]_vars => [Honoured!Next]_(Honoured!vars)
    BY CodesRefine
<1> QED BY <1>1, <1>2, CodesTypeCorrect, PTL DEF Spec, ImplementsOneTime, Honoured!Spec

=============================================================================
