---------------------------- MODULE Accounts_proofs ----------------------------
(***************************************************************************)
(* What an account has done and leaves behind, for any number of           *)
(* concurrent requests, tickets and accounts made again for one address: a *)
(* user never has more pending contributions than there are requests at    *)
(* once, the verdict of a contribution agrees with the membership it       *)
(* awarded unless its reviews raced or one stopped, what outlives a        *)
(* deleted account, an archive of feedback or a Pro plan was under way, a  *)
(* banned user has a ban to appeal against, and verdicts are final.        *)
(***************************************************************************)
EXTENDS MCAccounts, FiniteSetTheorems, TLAPS

-----------------------------------------------------------------------------
(* Contributions.                                                          *)

\* A slot reviews a ticket exactly while its review is under way.
Held ==
    \A s \in Slots : IF pc[s] \in {"decide", "grant"}
                     THEN ticket[s] \in TicketIds ELSE ticket[s] = NoTicket

\* Accounts are numbered in the order they are made.
Owned == \A s \in Slots : owner[s] <= user.id

WellFormed == TypeOK /\ Held /\ Owned

\* Every action keeps the types, the held tickets and the order of accounts.
LEMMA FormStep == ASSUME WellFormed, [Next]_vars PROVE WellFormed'
<1> USE ContributionsAssumption DEF WellFormed, TypeOK, Held, Owned
<1>0. Nothing \in Memberships /\ Unused.award \in Memberships /\ Never \in Ends
    BY DEF Nothing, Unused, Memberships, Ends
<1>1. ASSUME NEW s \in Slots, ReadUser(s) PROVE WellFormed'
    BY <1>1 DEF ReadUser, Goto, history
<1>2. ASSUME NEW s \in Slots, LookForPending(s) PROVE WellFormed'
  <2>1. CASE UNCHANGED locals /\ Goto(s, "insert")
      BY <1>2, <2>1 DEF LookForPending, Goto, history, locals
  <2>2. CASE Done(s)
      BY <1>0, <1>2, <2>2 DEF LookForPending, Done, Goto, history
  <2> QED BY <1>2, <2>1, <2>2 DEF LookForPending
<1>3. ASSUME NEW s \in Slots, InsertTicket(s) PROVE WellFormed'
  <2>1. tickets' \in [TicketIds -> [status : Statuses, award : Memberships]]
      BY <1>3 DEF InsertTicket, Statuses
  <2> QED BY <1>0, <1>3, <2>1 DEF InsertTicket, Done, Goto, history
<1>4. ASSUME NEW s \in Slots, ReadTicket(s) PROVE WellFormed'
  <2>1. PICK t \in Pending, d \in {"approved", "rejected"}, w \in Awards :
          /\ ticket' = [ticket EXCEPT ![s] = t]
          /\ decision' = [decision EXCEPT ![s] = d]
          /\ award' = [award EXCEPT ![s] = IF d = "approved" THEN w ELSE Nothing]
          /\ contested' = IF Reviewing(t) = {} THEN contested ELSE contested \cup {t}
      BY <1>4 DEF ReadTicket
  <2>2. w \in Memberships
      BY DEF Memberships, Ends
  <2> QED BY <1>0, <1>4, <2>1, <2>2 DEF ReadTicket, Goto, Pending
<1>5. ASSUME NEW s \in Slots, Decide(s) PROVE WellFormed'
  <2>1. tickets' \in [TicketIds -> [status : Statuses, award : Memberships]]
      BY <1>5 DEF Decide, Statuses
  <2> QED BY <1>0, <1>5, <2>1 DEF Decide, Done, Goto, history, locals
<1>6. ASSUME NEW s \in Slots, Grant(s) PROVE WellFormed'
  <2>1. award[s].plan \in Plans \cup {"free"} /\ award[s].until \in Ends
      BY DEF Memberships
  <2>2. /\ user' \in [id : Nat, exists : BOOLEAN, plan : Plans \cup {"free"}, until : Ends]
        /\ user'.id = user.id
    <3>1. CASE user' = [user EXCEPT !.plan = award[s].plan, !.until = award[s].until]
        BY <2>1, <3>1
    <3>2. CASE user' = user
        BY <3>2
    <3> QED BY <1>6, <3>1, <3>2 DEF Grant
  <2>3. author' \in TicketIds \cup {NoTicket} /\ granted' \subseteq TicketIds
      BY <1>6 DEF Grant
  <2> QED BY <1>0, <1>6, <2>2, <2>3 DEF Grant, Done, Goto
<1>7. ASSUME NEW s \in Slots, Fail(s) PROVE WellFormed'
    BY <1>0, <1>7 DEF Fail, Done, Goto
<1>8. CASE EditPlan
    BY <1>8 DEF EditPlan, locals
<1>9. CASE EditExpiry
    BY <1>9 DEF EditExpiry, locals
<1>10. CASE CreateUser
    BY <1>0, <1>10 DEF CreateUser, locals
<1>11. CASE Delete
  <2>1. tickets' \in [TicketIds -> [status : Statuses, award : Memberships]]
      BY <1>0, <1>11 DEF Delete, Statuses, Unused
  <2> QED BY <1>11, <2>1 DEF Delete, locals
<1>12. CASE UNCHANGED vars
    BY <1>12 DEF vars, locals, history
<1> QED
    BY <1>1, <1>2, <1>3, <1>4, <1>5, <1>6, <1>7, <1>8, <1>9, <1>10, <1>11, <1>12 DEF Next

-----------------------------------------------------------------------------
(* Pending tickets.                                                        *)

\* Submissions of the account that is there, past their look at the table.
Inserting == {s \in Slots : pc[s] = "insert" /\ owner[s] = user.id}

\* Each pending ticket took the place of a submission that inserted it.
Room == Cardinality(Pending) + Cardinality(Inserting) <= Cardinality(Slots)

\* The sets that are counted are finite.
LEMMA Finite == IsFiniteSet(Pending) /\ IsFiniteSet(Inserting)
                /\ Cardinality(Inserting) <= Cardinality(Slots)
                /\ Cardinality(Pending) \in Nat /\ Cardinality(Inserting) \in Nat
                /\ Cardinality(Slots) \in Nat
<1>1. Pending \subseteq TicketIds /\ Inserting \subseteq Slots
    BY DEF Pending, Inserting
<1> QED BY <1>1, ContributionsAssumption, FS_Subset, FS_CardinalityType

\* The same sets one step later.
LEMMA FiniteNext == IsFiniteSet(Pending') /\ IsFiniteSet(Inserting')
                    /\ Cardinality(Inserting') <= Cardinality(Slots)
                    /\ Cardinality(Pending') \in Nat /\ Cardinality(Inserting') \in Nat
<1>1. Pending' \subseteq TicketIds /\ Inserting' \subseteq Slots
    BY DEF Pending, Inserting
<1> QED BY <1>1, ContributionsAssumption, FS_Subset, FS_CardinalityType

\* A step that adds to neither set leaves room.
LEMMA RoomKept == ASSUME Room, Pending' \subseteq Pending, Inserting' \subseteq Inserting
                  PROVE Room'
<1>1. /\ Cardinality(Pending') <= Cardinality(Pending)
      /\ Cardinality(Inserting') <= Cardinality(Inserting)
    BY Finite, FS_Subset
<1> QED BY <1>1, Finite, FiniteNext DEF Room

\* A submission goes on only when nothing is pending, and its ticket takes its
\* own place among those that insert.
LEMMA RoomStep == ASSUME WellFormed, Room, [Next]_vars PROVE Room'
<1> USE ContributionsAssumption DEF WellFormed, TypeOK, Held, Owned
<1>1. ASSUME NEW s \in Slots, ReadUser(s) PROVE Room'
    BY <1>1, RoomKept DEF ReadUser, Goto, history, Pending, Inserting
<1>2. ASSUME NEW s \in Slots, LookForPending(s) PROVE Room'
  <2>1. CASE Pending # {} \/ owner[s] # user.id
    <3>1. Pending' \subseteq Pending
        BY <1>2 DEF LookForPending, Pending
    <3>2. Inserting' \subseteq Inserting
        BY <1>2, <2>1 DEF LookForPending, Done, Goto, locals, Inserting
    <3> QED BY <3>1, <3>2, RoomKept
  <2>2. CASE Pending = {}
    <3>1. Pending' = {}
        BY <1>2, <2>2 DEF LookForPending, Pending
    <3> QED BY <3>1, FiniteNext, FS_EmptySet DEF Room
  <2> QED BY <2>1, <2>2
<1>3. ASSUME NEW s \in Slots, InsertTicket(s) PROVE Room'
  <2>1. CASE user.exists /\ owner[s] = user.id
    <3>1. PICK t \in TicketIds : /\ tickets[t].status = "none"
                                 /\ tickets' = [tickets EXCEPT ![t].status = "pending"]
        BY <1>3, <2>1 DEF InsertTicket
    <3>2. Pending' = Pending \cup {t} /\ t \notin Pending
        BY <3>1 DEF Pending
    <3>3. Inserting' = Inserting \ {s} /\ s \in Inserting
        BY <1>3, <2>1 DEF InsertTicket, Done, Goto, Inserting
    <3>4. /\ Cardinality(Pending') = Cardinality(Pending) + 1
          /\ Cardinality(Inserting') = Cardinality(Inserting) - 1
        BY <3>2, <3>3, Finite, FS_AddElement, FS_RemoveElement
    <3> QED BY <3>4, Finite DEF Room
  <2>2. CASE ~(user.exists /\ owner[s] = user.id)
    <3>1. Pending' \subseteq Pending
        BY <1>3, <2>2 DEF InsertTicket, Pending
    <3>2. Inserting' \subseteq Inserting
        BY <1>3 DEF InsertTicket, Done, Goto, Inserting
    <3> QED BY <3>1, <3>2, RoomKept
  <2> QED BY <2>1, <2>2
<1>4. ASSUME NEW s \in Slots, ReadTicket(s) PROVE Room'
    BY <1>4, RoomKept DEF ReadTicket, Goto, Pending, Inserting
<1>5. ASSUME NEW s \in Slots, Decide(s) PROVE Room'
  <2>1. Pending' \subseteq Pending
    <3> SUFFICES ASSUME NEW t \in Pending' PROVE t \in Pending
        OBVIOUS
    <3>1. t \in TicketIds /\ tickets'[t].status = "pending"
        BY DEF Pending
    <3>2. CASE tickets' = tickets
        BY <3>1, <3>2 DEF Pending
    <3>3. CASE tickets' = [tickets EXCEPT ![ticket[s]] =
                              [status |-> decision[s], award |-> award[s]]]
        BY <3>1, <3>3 DEF Pending
    <3> QED BY <1>5, <3>2, <3>3 DEF Decide
  <2>2. Inserting' \subseteq Inserting
      BY <1>5 DEF Decide, Done, Goto, locals, Inserting
  <2> QED BY <2>1, <2>2, RoomKept
<1>6. ASSUME NEW s \in Slots, Grant(s) PROVE Room'
  <2>1. Pending' \subseteq Pending
      BY <1>6 DEF Grant, Pending
  <2>2. user'.id = user.id
      BY <1>6 DEF Grant
  <2>3. Inserting' \subseteq Inserting
      BY <1>6, <2>2 DEF Grant, Done, Goto, Inserting
  <2> QED BY <2>1, <2>3, RoomKept
<1>7. ASSUME NEW s \in Slots, Fail(s) PROVE Room'
    BY <1>7, RoomKept DEF Fail, Done, Goto, Pending, Inserting
<1>8. CASE EditPlan
    BY <1>8, RoomKept DEF EditPlan, locals, Pending, Inserting
<1>9. CASE EditExpiry
    BY <1>9, RoomKept DEF EditExpiry, locals, Pending, Inserting
<1>10. CASE CreateUser
    BY <1>10, RoomKept DEF CreateUser, locals, Pending, Inserting
<1>11. CASE Delete
  <2>1. Pending' \subseteq Pending
      BY <1>11 DEF Delete, Pending, Unused
  <2>2. Inserting' \subseteq Inserting
      BY <1>11 DEF Delete, locals, Inserting
  <2> QED BY <2>1, <2>2, RoomKept
<1>12. CASE UNCHANGED vars
    BY <1>12, RoomKept DEF vars, locals, Pending, Inserting
<1> QED
    BY <1>1, <1>2, <1>3, <1>4, <1>5, <1>6, <1>7, <1>8, <1>9, <1>10, <1>11, <1>12 DEF Next

\* The first state: one account, no ticket.
LEMMA FormInit == ASSUME Init PROVE WellFormed /\ Room
<1> USE ContributionsAssumption
<1>1. WellFormed
    BY DEF Init, WellFormed, TypeOK, Held, Owned, Unused, Nothing, Ends, Statuses, Memberships
<1>2. Pending = {} /\ Inserting = {}
    BY DEF Init, Pending, Inserting, Unused
<1> QED BY <1>1, <1>2, Finite, FS_EmptySet DEF Room

\* Every part of the state keeps its type, for any slots, tickets and awards
\* (contributions/service.js).
THEOREM ContributionsTypeCorrect == Spec => [](WellFormed /\ Room)
<1>1. Init => WellFormed /\ Room
    BY FormInit
<1>2. WellFormed /\ Room /\ [Next]_vars => (WellFormed /\ Room)'
    BY FormStep, RoomStep
<1> QED BY <1>1, <1>2, PTL DEF Spec

\* A user never has more pending tickets than there were requests at once
\* (createContribution in contributions/service.js).
THEOREM PendingIsBounded == Spec => []PendingBounded
<1>1. WellFormed /\ Room => PendingBounded
    BY Finite DEF Room, PendingBounded
<1> QED BY <1>1, ContributionsTypeCorrect, PTL
-----------------------------------------------------------------------------
(* Verdicts and memberships.                                               *)

\* Tickets of the account that is there.
Living == {t \in TicketIds : tickets[t].status \notin {"none", "gone"}}

\* Such tickets belong to the present account, and so do their reviews.
OfAccount ==
    /\ Living # {} => user.exists
    /\ \A s \in Slots : ticket[s] \in Living => owner[s] = user.id

\* Nothing came of a ticket that is not decided yet.
Undecided ==
    \A t \in TicketIds : tickets[t].status \in {"none", "pending"} =>
        /\ t \notin granted /\ author # t
        /\ \A s \in Slots : ticket[s] = t =>
              tickets[t].status = "pending" /\ pc[s] = "decide"

\* A ticket that is not contested has one review at a time.
Alone ==
    \A r, s \in Slots :
        ticket[r] = ticket[s] /\ ticket[r] \in TicketIds \ contested => r = s

\* A review that met no other decides a pending ticket, and grants what it
\* has recorded.
Faithful ==
    \A s \in Slots : ticket[s] \in Living \ contested =>
        /\ pc[s] = "decide" => tickets[ticket[s]].status = "pending"
        /\ pc[s] = "grant" => tickets[ticket[s]] = [status |-> "approved", award |-> award[s]]

\* An approved ticket was granted or is about to be.
Agreed ==
    \A t \in Living \ (contested \cup failed) :
        /\ tickets[t].status = "approved" =>
              t \in granted \/ \E s \in Slots : ticket[s] = t /\ pc[s] = "grant"
        /\ t \in granted => tickets[t].status = "approved"
        /\ author = t => /\ tickets[t].status = "approved"
                         /\ user.plan = tickets[t].award.plan
                         /\ user.until = tickets[t].award.until

AwardInv ==
    WellFormed /\ OfAccount /\ Undecided /\ Alone /\ Faithful /\ Agreed

\* No action but these touches a ticket, a review or what came of one.
LEMMA AwardQuiet ==
    ASSUME AwardInv, WellFormed',
           UNCHANGED <<tickets, ticket, granted, contested, failed>>,
           user'.id >= user.id,
           user'.id = user.id \/ Living = {},
           user'.exists = user.exists \/ Living = {},
           \A s \in Slots : ticket[s] \in TicketIds =>
               pc'[s] = pc[s] /\ owner'[s] = owner[s] /\ award'[s] = award[s],
           author' = NoTicket \/ (author' = author /\ user' = user)
    PROVE  AwardInv'
<1> USE ContributionsAssumption DEF AwardInv, WellFormed, Held, TypeOK
<1>1. Living' = Living /\ Living \subseteq TicketIds
    BY DEF Living
<1>2. OfAccount'
    BY <1>1 DEF OfAccount
<1>3. Undecided'
    BY DEF Undecided
<1>4. Alone'
    BY DEF Alone
<1>5. Faithful'
    BY <1>1 DEF Faithful
<1>6. Agreed'
    BY <1>1 DEF Agreed
<1> QED BY <1>2, <1>3, <1>4, <1>5, <1>6

\* A review reads a pending ticket: it is alone, or the ticket is contested.
LEMMA AwardRead == ASSUME AwardInv, NEW s \in Slots, ReadTicket(s), WellFormed'
                   PROVE  AwardInv'
<1> USE ContributionsAssumption DEF AwardInv, WellFormed, Held, TypeOK
<1>1. PICK t \in Pending :
          /\ ticket' = [ticket EXCEPT ![s] = t]
          /\ contested' = IF Reviewing(t) = {} THEN contested ELSE contested \cup {t}
    BY DEF ReadTicket
<1>2. /\ t \in TicketIds /\ tickets[t].status = "pending"
      /\ pc[s] = "idle" /\ ticket[s] = NoTicket
      /\ pc' = [pc EXCEPT ![s] = "decide"] /\ owner' = [owner EXCEPT ![s] = user.id]
      /\ UNCHANGED <<user, tickets, author, granted, failed>>
    BY DEF ReadTicket, Goto, Pending
<1>3. Living' = Living /\ Living \subseteq TicketIds /\ contested \subseteq contested'
    BY <1>1, <1>2 DEF Living
<1>4. \A r \in Slots \ {s} : award'[r] = award[r] /\ pc'[r] = pc[r] /\ ticket'[r] = ticket[r]
    BY <1>1, <1>2 DEF ReadTicket
<1>5. OfAccount'
    BY <1>1, <1>2, <1>3, <1>4 DEF OfAccount
<1>6. Undecided'
    BY <1>1, <1>2, <1>4 DEF Undecided
<1>7. Alone'
  <2> SUFFICES ASSUME NEW q \in Slots, NEW r \in Slots, q # r,
                      ticket'[q] = ticket'[r], ticket'[q] \in TicketIds
               PROVE  ticket'[q] \in contested'
      BY DEF Alone
  <2>1. CASE q = s
      BY <1>1, <1>2, <1>4, <2>1 DEF Reviewing
  <2>2. CASE r = s
      BY <1>1, <1>2, <1>4, <2>2 DEF Reviewing
  <2>3. CASE q # s /\ r # s
      BY <1>3, <1>4, <2>3 DEF Alone
  <2> QED BY <2>1, <2>2, <2>3
<1>8. Faithful'
  <2> SUFFICES ASSUME NEW r \in Slots, ticket'[r] \in Living \ contested'
               PROVE  /\ pc'[r] = "decide" => tickets[ticket'[r]].status = "pending"
                      /\ pc'[r] = "grant" => tickets[ticket'[r]] =
                                                [status |-> "approved", award |-> award'[r]]
      BY <1>2, <1>3 DEF Faithful
  <2>1. CASE r = s
      BY <1>1, <1>2, <2>1
  <2>2. CASE r # s
      BY <1>3, <1>4, <2>2 DEF Faithful
  <2> QED BY <2>1, <2>2
<1>9. Agreed'
  <2>1. ASSUME NEW u \in Living' \ (contested' \cup failed') PROVE u \in Living \ (contested \cup failed)
      BY <1>2, <1>3, <2>1
  <2>2. \A r \in Slots : pc[r] = "grant" => pc'[r] = "grant" /\ ticket'[r] = ticket[r]
      BY <1>2, <1>4
  <2> QED BY <1>2, <2>1, <2>2 DEF Agreed
<1> QED BY <1>5, <1>6, <1>7, <1>8, <1>9

\* The verdict: of a pending ticket it is recorded.
LEMMA AwardDecide == ASSUME AwardInv, NEW s \in Slots, Decide(s), WellFormed'
                     PROVE  AwardInv'
<1> USE ContributionsAssumption DEF AwardInv, WellFormed, Held, TypeOK
<1> DEFINE t == ticket[s]
<1>1. /\ pc[s] = "decide" /\ t \in TicketIds
      /\ UNCHANGED <<user, author, granted, contested, failed>>
    BY DEF Decide, history
<1>2. /\ \A r \in Slots \ {s} : /\ award'[r] = award[r] /\ pc'[r] = pc[r]
                                  /\ ticket'[r] = ticket[r] /\ owner'[r] = owner[r]
      /\ \/ /\ decision[s] = "approved" /\ pc'[s] = "grant"
            /\ ticket'[s] = t /\ award'[s] = award[s] /\ owner'[s] = owner[s]
         \/ decision[s] = "rejected" /\ ticket'[s] = NoTicket /\ pc'[s] = "idle"
    BY DEF Decide, Done, Goto, locals
<1>3. /\ \A u \in TicketIds \ {t} : tickets'[u] = tickets[u]
      /\ IF tickets[t].status = "pending"
         THEN tickets'[t] = [status |-> decision[s], award |-> award[s]]
         ELSE tickets'[t] = tickets[t]
    BY <1>1 DEF Decide
<1>4. Living' = Living /\ Living \subseteq TicketIds
  <2>1. t \in Living' <=> t \in Living
      BY <1>1, <1>3 DEF Living
  <2>2. \A u \in TicketIds \ {t} : u \in Living' <=> u \in Living
      BY <1>3 DEF Living
  <2> QED BY <2>1, <2>2 DEF Living
<1>5. OfAccount'
    BY <1>1, <1>2, <1>4 DEF OfAccount
<1>6. Undecided'
  <2> SUFFICES ASSUME NEW u \in TicketIds, tickets'[u].status \in {"none", "pending"}
               PROVE  /\ u \notin granted /\ author # u
                      /\ \A r \in Slots : ticket'[r] = u =>
                            tickets'[u].status = "pending" /\ pc'[r] = "decide"
      BY <1>1 DEF Undecided
  <2>1. u # t
    <3>1. tickets[t].status \in {"none", "pending"} => tickets[t].status = "pending"
        BY <1>1 DEF Undecided
    <3>2. decision[s] \in {"approved", "rejected"}
        BY <1>1
    <3> QED BY <1>1, <1>3, <3>1, <3>2
  <2>2. tickets'[u] = tickets[u]
      BY <1>3, <2>1
  <2> QED BY <1>2, <2>1, <2>2 DEF Undecided
<1>7. Alone'
    BY <1>1, <1>2 DEF Alone
<1>8. Faithful'
  <2> SUFFICES ASSUME NEW r \in Slots, ticket'[r] \in Living \ contested
               PROVE  /\ pc'[r] = "decide" => tickets'[ticket'[r]].status = "pending"
                      /\ pc'[r] = "grant" => tickets'[ticket'[r]] =
                                                [status |-> "approved", award |-> award'[r]]
      BY <1>1, <1>4 DEF Faithful
  <2>1. CASE r = s
    <3>1. decision[s] = "approved" /\ ticket'[s] = t /\ pc'[s] = "grant" /\ award'[s] = award[s]
        BY <1>2, <1>4, <2>1
    <3>2. tickets[t].status = "pending"
        BY <1>1, <2>1, <3>1 DEF Faithful
    <3> QED BY <1>3, <2>1, <3>1, <3>2
  <2>2. CASE r # s
    <3>1. ticket[r] # t
        BY <1>1, <1>2, <2>2 DEF Alone
    <3>2. tickets'[ticket[r]] = tickets[ticket[r]]
        BY <1>2, <1>3, <1>4, <2>2, <3>1
    <3> QED BY <1>2, <2>2, <3>2 DEF Faithful
  <2> QED BY <2>1, <2>2
<1>9. Agreed'
  <2> SUFFICES ASSUME NEW u \in Living \ (contested \cup failed)
               PROVE  /\ tickets'[u].status = "approved" =>
                            u \in granted \/ \E r \in Slots : ticket'[r] = u /\ pc'[r] = "grant"
                      /\ u \in granted => tickets'[u].status = "approved"
                      /\ author = u => /\ tickets'[u].status = "approved"
                                       /\ user.plan = tickets'[u].award.plan
                                       /\ user.until = tickets'[u].award.until
      BY <1>1, <1>4 DEF Agreed
  <2>1. CASE u = t
    <3>1. tickets[t].status = "pending" /\ t \notin granted /\ author # t
        BY <1>1, <1>4, <2>1 DEF Faithful, Undecided
    <3>2. tickets'[t].status = decision[s]
        BY <1>3, <3>1
    <3> QED BY <1>2, <2>1, <3>1, <3>2
  <2>2. CASE u # t
    <3>1. tickets'[u] = tickets[u]
        BY <1>3, <1>4, <2>2
    <3>2. \A r \in Slots : ticket[r] = u /\ pc[r] = "grant" =>
              ticket'[r] = u /\ pc'[r] = "grant"
        BY <1>2, <2>2
    <3> QED BY <3>1, <3>2 DEF Agreed
  <2> QED BY <2>1, <2>2
<1> QED BY <1>5, <1>6, <1>7, <1>8, <1>9

\* The award: of a ticket that lives it reaches its account.
LEMMA AwardGrant == ASSUME AwardInv, NEW s \in Slots, Grant(s), WellFormed'
                    PROVE  AwardInv'
<1> USE ContributionsAssumption DEF AwardInv, WellFormed, Held, TypeOK
<1> DEFINE t == ticket[s]
<1>1. /\ pc[s] = "grant" /\ t \in TicketIds /\ granted' = granted \cup {t}
      /\ UNCHANGED <<tickets, contested, failed>>
    BY DEF Grant
<1>2. /\ \A r \in Slots \ {s} : /\ award'[r] = award[r] /\ pc'[r] = pc[r]
                                  /\ ticket'[r] = ticket[r] /\ owner'[r] = owner[r]
      /\ ticket'[s] = NoTicket /\ pc'[s] = "idle"
    BY DEF Grant, Done, Goto
<1>3. /\ user'.id = user.id /\ user'.exists = user.exists
      /\ \/ user' = user /\ author' = author /\ ~(user.exists /\ owner[s] = user.id)
         \/ user'.plan = award[s].plan /\ user'.until = award[s].until /\ author' = t
  <2>1. user \in [id : Nat, exists : BOOLEAN, plan : Plans \cup {"free"}, until : Ends]
      OBVIOUS
  <2>2. CASE user.exists /\ owner[s] = user.id
    <3>1. /\ user' = [user EXCEPT !.plan = award[s].plan, !.until = award[s].until]
          /\ author' = t
        BY <2>2 DEF Grant
    <3> HIDE DEF AwardInv, WellFormed, Held, TypeOK, t
    <3> QED BY <2>1, <3>1
  <2>3. CASE ~(user.exists /\ owner[s] = user.id)
      BY <2>3 DEF Grant
  <2> QED BY <2>2, <2>3
<1>4. Living' = Living /\ Living \subseteq TicketIds
    BY <1>1 DEF Living
<1>5. OfAccount'
    BY <1>2, <1>3, <1>4 DEF OfAccount
<1>6. Undecided'
  <2>1. tickets[t].status \notin {"none", "pending"}
      BY <1>1 DEF Undecided
  <2> QED BY <1>1, <1>2, <1>3, <2>1 DEF Undecided
<1>7. Alone'
    BY <1>1, <1>2 DEF Alone
<1>8. Faithful'
    BY <1>1, <1>2, <1>4 DEF Faithful
<1>9. Agreed'
  <2> SUFFICES ASSUME NEW u \in Living \ (contested \cup failed)
               PROVE  /\ tickets[u].status = "approved" =>
                            u \in granted' \/ \E r \in Slots : ticket'[r] = u /\ pc'[r] = "grant"
                      /\ u \in granted' => tickets[u].status = "approved"
                      /\ author' = u => /\ tickets[u].status = "approved"
                                        /\ user'.plan = tickets[u].award.plan
                                        /\ user'.until = tickets[u].award.until
      BY <1>1, <1>4 DEF Agreed
  <2>1. CASE u = t
    <3>1. tickets[t] = [status |-> "approved", award |-> award[s]]
        BY <1>1, <2>1 DEF Faithful
    <3>2. user.exists /\ owner[s] = user.id
        BY <2>1 DEF OfAccount
    <3> QED BY <1>1, <1>3, <2>1, <3>1, <3>2
  <2>2. CASE u # t
    <3>1. \A r \in Slots : ticket[r] = u /\ pc[r] = "grant" =>
              ticket'[r] = u /\ pc'[r] = "grant"
        BY <1>2, <2>2
    <3>2. author' = u => author = u /\ user' = user
        BY <1>3, <2>2
    <3> QED BY <1>1, <2>2, <3>1, <3>2 DEF Agreed
  <2> QED BY <2>1, <2>2
<1> QED BY <1>5, <1>6, <1>7, <1>8, <1>9

\* A review that stops is forgotten, except that its grant is missing.
LEMMA AwardFail == ASSUME AwardInv, NEW s \in Slots, Fail(s), WellFormed'
                   PROVE  AwardInv'
<1> USE ContributionsAssumption DEF AwardInv, WellFormed, Held, TypeOK
<1>1. /\ failed' = IF pc[s] = "grant" THEN failed \cup {ticket[s]} ELSE failed
      /\ UNCHANGED <<user, tickets, author, granted, contested>>
    BY DEF Fail
<1>2. /\ \A r \in Slots \ {s} : /\ award'[r] = award[r] /\ pc'[r] = pc[r]
                                  /\ ticket'[r] = ticket[r] /\ owner'[r] = owner[r]
      /\ ticket'[s] = NoTicket /\ pc'[s] = "idle"
    BY DEF Fail, Done, Goto
<1>3. Living' = Living /\ Living \subseteq TicketIds
    BY <1>1 DEF Living
<1>4. OfAccount'
    BY <1>1, <1>2, <1>3 DEF OfAccount
<1>5. Undecided'
    BY <1>1, <1>2 DEF Undecided
<1>6. Alone'
    BY <1>1, <1>2 DEF Alone
<1>7. Faithful'
    BY <1>1, <1>2, <1>3 DEF Faithful
<1>8. Agreed'
  <2>1. ASSUME NEW u \in Living' \ (contested' \cup failed')
        PROVE  /\ u \in Living \ (contested \cup failed)
               /\ \A r \in Slots : ticket[r] = u /\ pc[r] = "grant" =>
                                       ticket'[r] = u /\ pc'[r] = "grant"
      BY <1>1, <1>2, <1>3, <2>1
  <2> QED BY <1>1, <2>1 DEF Agreed
<1> QED BY <1>4, <1>5, <1>6, <1>7, <1>8

\* A new ticket has no history; a deleted account takes its tickets along.
LEMMA AwardInsert == ASSUME AwardInv, NEW s \in Slots, InsertTicket(s), WellFormed'
                     PROVE  AwardInv'
<1> USE ContributionsAssumption DEF AwardInv, WellFormed, Held, TypeOK
<1>1. /\ UNCHANGED <<user, author, granted, contested, failed>>
      /\ \A r \in Slots \ {s} : /\ award'[r] = award[r] /\ pc'[r] = pc[r]
                                  /\ ticket'[r] = ticket[r] /\ owner'[r] = owner[r]
      /\ ticket'[s] = NoTicket /\ ticket[s] = NoTicket /\ pc[s] = "insert" /\ pc'[s] = "idle"
    BY DEF InsertTicket, Done, Goto, history
<1>2. CASE tickets' = tickets
  <2>1. Living' = Living /\ Living \subseteq TicketIds
      BY <1>2 DEF Living
  <2>2. OfAccount' /\ Undecided' /\ Alone'
      BY <1>1, <1>2, <2>1 DEF OfAccount, Undecided, Alone
  <2>3. Faithful'
      BY <1>1, <1>2, <2>1 DEF Faithful
  <2>4. Agreed'
      BY <1>1, <1>2, <2>1 DEF Agreed
  <2> QED BY <2>2, <2>3, <2>4
<1>3. ASSUME NEW t \in TicketIds, tickets[t].status = "none", user.exists,
             tickets' = [tickets EXCEPT ![t].status = "pending"]
      PROVE  AwardInv'
  <2>1. /\ tickets'[t].status = "pending"
        /\ \A u \in TicketIds \ {t} : tickets'[u] = tickets[u]
        /\ t \notin granted /\ author # t /\ \A r \in Slots : ticket'[r] # t
      BY <1>1, <1>3 DEF Undecided
  <2>2. Living' = Living \cup {t} /\ Living \subseteq TicketIds /\ t \notin Living
      BY <1>3, <2>1 DEF Living
  <2>3. OfAccount'
      BY <1>1, <1>3, <2>1, <2>2 DEF OfAccount
  <2>4. Undecided' /\ Alone'
    <3>1. \A r \in Slots : ticket'[r] = ticket[r]
        BY <1>1
    <3>2. Alone'
        BY <1>1, <3>1 DEF Alone
    <3>3. ASSUME NEW u \in TicketIds, u # t, tickets'[u].status \in {"none", "pending"},
                 NEW r \in Slots, ticket'[r] = u
          PROVE  tickets'[u].status = "pending" /\ pc'[r] = "decide"
        BY <1>1, <2>1, <3>1, <3>3 DEF Undecided
    <3>4. Undecided'
        BY <1>1, <2>1, <3>3 DEF Undecided
    <3> QED BY <3>2, <3>4
  <2>5. Faithful'
      BY <1>1, <2>1, <2>2 DEF Faithful
  <2>6. Agreed'
      BY <1>1, <2>1, <2>2 DEF Agreed
  <2> QED BY <2>3, <2>4, <2>5, <2>6
<1> QED BY <1>2, <1>3 DEF InsertTicket

\* The deletion of the account takes its tickets with it.
LEMMA AwardDelete == ASSUME AwardInv, Delete, WellFormed'
                     PROVE  AwardInv'
<1> USE ContributionsAssumption DEF AwardInv, WellFormed, Held, TypeOK
<1>1. /\ UNCHANGED <<pc, owner, ticket, award, granted, contested, failed>>
      /\ author' = NoTicket
      /\ \A t \in TicketIds : tickets'[t].status \in {"none", "gone"}
      /\ \A t \in TicketIds : tickets'[t].status = "none" => tickets[t].status = "none"
    BY DEF Delete, locals, Unused
<1>2. Living' = {}
    BY <1>1 DEF Living
<1>3. Undecided' /\ Alone'
    BY <1>1 DEF Undecided, Alone
<1> QED BY <1>2, <1>3 DEF OfAccount, Faithful, Agreed

\* Every action keeps the invariant.
LEMMA AwardStep == ASSUME AwardInv, [Next]_vars PROVE AwardInv'
<1>1. WellFormed'
    BY FormStep DEF AwardInv
<1> USE <1>1, ContributionsAssumption
<1>2. ASSUME NEW s \in Slots, ReadUser(s) PROVE AwardInv'
  <2>1. /\ ticket[s] = NoTicket
        /\ UNCHANGED <<user, tickets, ticket, author, granted, contested, failed>>
        /\ \A r \in Slots \ {s} :
              pc'[r] = pc[r] /\ owner'[r] = owner[r] /\ award'[r] = award[r]
      BY <1>2 DEF ReadUser, Goto, history, AwardInv, WellFormed, Held, TypeOK
  <2> QED BY <2>1, AwardQuiet DEF AwardInv, WellFormed, TypeOK
<1>3. ASSUME NEW s \in Slots, LookForPending(s) PROVE AwardInv'
  <2>1. /\ ticket[s] = NoTicket
        /\ UNCHANGED <<user, tickets, author, granted, contested, failed>>
        /\ \A r \in Slots \ {s} :
              pc'[r] = pc[r] /\ owner'[r] = owner[r] /\ award'[r] = award[r]
      BY <1>3 DEF LookForPending, Goto, Done, history, locals, AwardInv, WellFormed, Held,
         TypeOK
  <2>2. ticket' = ticket
      BY <1>3, <2>1 DEF LookForPending, Done, locals, AwardInv, WellFormed, TypeOK
  <2> QED BY <2>1, <2>2, AwardQuiet DEF AwardInv, WellFormed, TypeOK
<1>4. ASSUME NEW s \in Slots, InsertTicket(s) PROVE AwardInv'
    BY <1>4, AwardInsert
<1>5. ASSUME NEW s \in Slots, ReadTicket(s) PROVE AwardInv'
    BY <1>5, AwardRead
<1>6. ASSUME NEW s \in Slots, Decide(s) PROVE AwardInv'
    BY <1>6, AwardDecide
<1>7. ASSUME NEW s \in Slots, Grant(s) PROVE AwardInv'
    BY <1>7, AwardGrant
<1>8. ASSUME NEW s \in Slots, Fail(s) PROVE AwardInv'
    BY <1>8, AwardFail
<1>9. CASE EditPlan
  <2>1. user \in [id : Nat, exists : BOOLEAN, plan : Plans \cup {"free"}, until : Ends]
      BY DEF AwardInv, WellFormed, TypeOK
  <2>2. PICK p \in Plans : user' = [user EXCEPT !.plan = p]
      BY <1>9 DEF EditPlan
  <2>3. user'.id = user.id /\ user'.exists = user.exists
      BY <2>1, <2>2
  <2> QED BY <1>9, <2>1, <2>3, AwardQuiet DEF EditPlan, locals
<1>10. CASE EditExpiry
  <2>1. user \in [id : Nat, exists : BOOLEAN, plan : Plans \cup {"free"}, until : Ends]
      BY DEF AwardInv, WellFormed, TypeOK
  <2>2. PICK e \in Ends : user' = [user EXCEPT !.until = e]
      BY <1>10 DEF EditExpiry
  <2>3. user'.id = user.id /\ user'.exists = user.exists
      BY <2>1, <2>2
  <2> QED BY <1>10, <2>1, <2>3, AwardQuiet DEF EditExpiry, locals
<1>11. CASE CreateUser
  <2>1. Living = {} /\ user'.id >= user.id
      BY <1>11 DEF CreateUser, AwardInv, OfAccount, WellFormed, TypeOK
  <2> QED BY <1>11, <2>1, AwardQuiet DEF CreateUser, locals
<1>12. CASE Delete
    BY <1>12, AwardDelete
<1>13. CASE UNCHANGED vars
    BY <1>13, AwardQuiet DEF vars, locals, history, AwardInv, WellFormed, TypeOK
<1> QED
    BY <1>2, <1>3, <1>4, <1>5, <1>6, <1>7, <1>8, <1>9, <1>10, <1>11, <1>12, <1>13 DEF Next

\* The inductive invariant of verdicts and awards: a review that met no other
\* decides a pending ticket of the present account and grants what it recorded.
THEOREM AwardInvariant == Spec => []AwardInv
<1>1. Init => AwardInv
  <2> SUFFICES ASSUME Init PROVE AwardInv
      OBVIOUS
  <2>1. /\ \A t \in TicketIds : tickets[t].status = "none"
        /\ \A s \in Slots : ticket[s] = NoTicket
        /\ granted = {} /\ author = NoTicket
      BY DEF Init, Unused
  <2>2. Living = {}
      BY <2>1 DEF Living
  <2> QED BY <2>1, <2>2, FormInit, ContributionsAssumption
          DEF AwardInv, OfAccount, Undecided, Alone, Faithful, Agreed
<1>2. AwardInv /\ [Next]_vars => AwardInv'
    BY AwardStep
<1> QED BY <1>1, <1>2, PTL DEF Spec

\* For any number of reviews, edits and accounts, a ticket whose review met no
\* other and did not stop is approved exactly when its award was written, and a
\* membership that came from it is its whole award (reviewContribution in
\* contributions/service.js).
THEOREM AwardsAreInForce == Spec => []AwardInForce
<1>1. AwardInv => AwardInForce
  <2> SUFFICES ASSUME AwardInv, NEW t \in TicketIds,
                      tickets[t].status \notin {"none", "gone"},
                      Reviewing(t) = {}, t \notin contested \cup failed
               PROVE  /\ tickets[t].status = "approved" <=> t \in granted
                      /\ author = t => /\ tickets[t].status = "approved"
                                       /\ user.plan = tickets[t].award.plan
                                       /\ user.until = tickets[t].award.until
      BY DEF AwardInForce
  <2>1. t \in Living \ (contested \cup failed)
      BY DEF Living
  <2>2. ~ \E s \in Slots : ticket[s] = t
      BY DEF Reviewing
  <2> QED BY <2>1, <2>2 DEF AwardInv, Agreed
<1> QED BY <1>1, AwardInvariant, PTL

-----------------------------------------------------------------------------
(* The deletion of an account.  What names the account afterwards is       *)
(* counted together with the requests that still owe a row: each owes one  *)
(* usage row or one ban, a log, and a second log if a write of it fails.   *)

RowOwed == {s \in Slots : \/ chatStep[s] = "ledger" /\ "usage" \in pending[s]
                          \/ chatStep[s] = "ban"}
LogOwed == {s \in Slots : chatStep[s] = "ledger" /\ "log" \in pending[s]}
ErrorOwed == {s \in Slots : chatStep[s] = "ledger" /\ (s \notin lossy \/ "errlog" \in pending[s])}

RemovalShape ==
    /\ exists \in BOOLEAN /\ admin \in BOOLEAN /\ promoted \in BOOLEAN
    /\ rows \in [Removal!Kinds -> Nat]
    /\ chatStep \in [Slots -> {"idle", "quota", "ledger", "ban", "session", "remove"}]
    /\ pending \in [Slots -> SUBSET {"log", "usage", "errlog"}]
    /\ lossy \subseteq Slots
    /\ \A s \in Slots : "errlog" \in pending[s] => s \in lossy

\* No administrator is deleted, unless he was made one behind the deletion's back.
RoleRead ==
    admin /\ (~exists \/ \E s \in Slots : chatStep[s] = "remove") => promoted

\* Of a deleted account, the rows there are and the rows still owed.
Ghosts ==
    ~exists =>
        /\ rows["session"] = 0
        /\ rows["usage"] + rows["ban"] + Cardinality(RowOwed) <= Cardinality(Slots)
        /\ rows["log"] + Cardinality(LogOwed) + Cardinality(ErrorOwed) <= 2 * Cardinality(Slots)

RemovalInv == RemovalShape /\ RoleRead /\ Ghosts

\* Slots are finitely many, and so are those among them that owe something.
LEMMA SlotsCount ==
    ASSUME NEW S \in SUBSET Slots
    PROVE  /\ IsFiniteSet(S) /\ Cardinality(S) \in Nat /\ Cardinality(Slots) \in Nat
           /\ Cardinality(S) <= Cardinality(Slots)
<1>1. IsFiniteSet(Slots)
    BY ContributionsAssumption
<1>2. IsFiniteSet(S) /\ Cardinality(S) <= Cardinality(Slots)
    BY <1>1, FS_Subset
<1> QED BY <1>1, <1>2, FS_CardinalityType

\* Fewer slots owe at most as much, and one slot less at least one row less.
LEMMA FewerOwe ==
    ASSUME NEW S \in SUBSET Slots, NEW T \in SUBSET S
    PROVE  /\ Cardinality(S) \in Nat /\ Cardinality(T) \in Nat
           /\ Cardinality(T) <= Cardinality(S)
           /\ \A s \in S \ T : Cardinality(T) + 1 <= Cardinality(S)
<1>1. IsFiniteSet(S) /\ Cardinality(S) \in Nat
    BY SlotsCount
<1>2. IsFiniteSet(T) /\ Cardinality(T) \in Nat /\ Cardinality(T) <= Cardinality(S)
    BY <1>1, FS_Subset, FS_CardinalityType
<1>3. ASSUME NEW s \in S \ T PROVE Cardinality(T) # Cardinality(S)
    BY <1>1, <1>3, FS_Subset
<1> QED BY <1>1, <1>2, <1>3

\* The sets are sets of slots, before and after a step.
LEMMA OwedSlots ==
    /\ RowOwed \in SUBSET Slots /\ LogOwed \in SUBSET Slots /\ ErrorOwed \in SUBSET Slots
    /\ RowOwed' \in SUBSET Slots /\ LogOwed' \in SUBSET Slots /\ ErrorOwed' \in SUBSET Slots
BY DEF RowOwed, LogOwed, ErrorOwed

\* A step after which no row is there that was not, and nobody owes who did not.
LEMMA GhostsQuiet ==
    ASSUME RemovalInv, rows' = rows, exists' = exists,
           ~exists => /\ RowOwed' \subseteq RowOwed /\ LogOwed' \subseteq LogOwed
                      /\ ErrorOwed' \subseteq ErrorOwed
    PROVE  Ghosts'
<1> SUFFICES ASSUME ~exists PROVE Ghosts'
    BY DEF Ghosts
<1>1. /\ Cardinality(RowOwed) \in Nat /\ Cardinality(RowOwed') \in Nat
      /\ Cardinality(RowOwed') <= Cardinality(RowOwed)
    BY OwedSlots, FewerOwe
<1>2. /\ Cardinality(LogOwed) \in Nat /\ Cardinality(LogOwed') \in Nat
      /\ Cardinality(LogOwed') <= Cardinality(LogOwed)
    BY OwedSlots, FewerOwe
<1>3. /\ Cardinality(ErrorOwed) \in Nat /\ Cardinality(ErrorOwed') \in Nat
      /\ Cardinality(ErrorOwed') <= Cardinality(ErrorOwed)
    BY OwedSlots, FewerOwe
<1>4. /\ rows["usage"] \in Nat /\ rows["ban"] \in Nat /\ rows["log"] \in Nat
    BY DEF RemovalInv, RemovalShape, Removal!Kinds
<1>5. Cardinality(Slots) \in Nat
    BY OwedSlots, SlotsCount
<1>6. /\ rows["session"] = 0
      /\ rows["usage"] + rows["ban"] + Cardinality(RowOwed) <= Cardinality(Slots)
      /\ rows["log"] + Cardinality(LogOwed) + Cardinality(ErrorOwed) <= 2 * Cardinality(Slots)
    BY DEF RemovalInv, Ghosts
<1> QED BY <1>1, <1>2, <1>3, <1>4, <1>5, <1>6 DEF Ghosts

\* The end of a request: it owes nothing any more.
LEMMA DoneOwes ==
    ASSUME RemovalShape, NEW s \in Slots, Removal!Done(s)
    PROVE  /\ RowOwed' = RowOwed \ {s} /\ LogOwed' = LogOwed \ {s}
           /\ ErrorOwed' = ErrorOwed \ {s}
           /\ chatStep' \in [Slots -> {"idle", "quota", "ledger", "ban", "session", "remove"}]
           /\ pending' \in [Slots -> SUBSET {"log", "usage", "errlog"}]
           /\ lossy' \subseteq Slots
           /\ \A q \in Slots : "errlog" \in pending'[q] => q \in lossy'
           /\ \A q \in Slots : chatStep'[q] = "remove" => chatStep[q] = "remove"
<1>1. /\ chatStep' = [chatStep EXCEPT ![s] = "idle"]
      /\ pending' = [pending EXCEPT ![s] = {}] /\ lossy' = lossy \ {s}
    BY DEF Removal!Done, Removal!Goto
<1>2. /\ chatStep'[s] = "idle" /\ pending'[s] = {}
      /\ \A q \in Slots \ {s} : chatStep'[q] = chatStep[q] /\ pending'[q] = pending[q]
    BY <1>1 DEF RemovalShape
<1>3. RowOwed' = RowOwed \ {s}
    BY <1>2 DEF RowOwed
<1>4. LogOwed' = LogOwed \ {s}
    BY <1>2 DEF LogOwed
<1>5. ErrorOwed' = ErrorOwed \ {s}
    BY <1>1, <1>2 DEF ErrorOwed
<1>6. \A q \in Slots : "errlog" \in pending'[q] => q \in lossy'
    BY <1>1, <1>2 DEF RemovalShape
<1> QED BY <1>1, <1>2, <1>3, <1>4, <1>5, <1>6 DEF RemovalShape

\* The end of one write of a request: only that one is not owed any more, and a
\* request whose write failed owes the log of the failure, once.
LEMMA SettleOwes ==
    ASSUME RemovalShape, NEW s \in Slots, chatStep[s] = "ledger", NEW w \in pending[s],
           NEW again \in SUBSET {"errlog"}, NEW short, short = lossy \/ short = lossy \cup {s},
           again # {} => s \notin lossy /\ s \in short,
           Removal!Settle(s, (pending[s] \ {w}) \cup again, short)
    PROVE  /\ RowOwed' \subseteq RowOwed /\ LogOwed' \subseteq LogOwed
           /\ ErrorOwed' \subseteq ErrorOwed
           /\ w = "usage" => s \in RowOwed \ RowOwed'
           /\ w = "log" => s \in LogOwed \ LogOwed'
           /\ w = "errlog" => s \in ErrorOwed \ ErrorOwed'
           /\ chatStep' \in [Slots -> {"idle", "quota", "ledger", "ban", "session", "remove"}]
           /\ pending' \in [Slots -> SUBSET {"log", "usage", "errlog"}]
           /\ lossy' \subseteq Slots
           /\ \A q \in Slots : "errlog" \in pending'[q] => q \in lossy'
           /\ \A q \in Slots : chatStep'[q] = "remove" => chatStep[q] = "remove"
<1> DEFINE rest == (pending[s] \ {w}) \cup again
<1>1. /\ w = "usage" => s \in RowOwed
      /\ w = "log" => s \in LogOwed
      /\ w = "errlog" => s \in ErrorOwed /\ s \in lossy
    BY DEF RowOwed, LogOwed, ErrorOwed, RemovalShape
<1>2. CASE rest = {}
  <2>1. Removal!Done(s)
      BY <1>2 DEF Removal!Settle
  <2> QED BY <1>1, <2>1, DoneOwes
<1>3. CASE rest # {}
  <2>1. pending' = [pending EXCEPT ![s] = rest] /\ lossy' = short /\ chatStep' = chatStep
      BY <1>3 DEF Removal!Settle
  <2>2. /\ pending'[s] = rest
        /\ \A q \in Slots \ {s} : pending'[q] = pending[q]
      BY <2>1 DEF RemovalShape
  <2>3. rest \in SUBSET {"log", "usage", "errlog"}
      BY DEF RemovalShape
  <2>4. "errlog" \in rest => s \in short /\ ("errlog" \in pending[s] \/ s \notin lossy)
      BY DEF RemovalShape
  <2>5. w = "errlog" => "errlog" \notin rest /\ s \in lossy
      BY <1>1
  <2>6. /\ "usage" \in rest => "usage" \in pending[s] /\ w # "usage"
        /\ "log" \in rest => "log" \in pending[s] /\ w # "log"
      OBVIOUS
  <2> HIDE DEF rest
  <2>7. RowOwed' \subseteq RowOwed /\ (w = "usage" => s \notin RowOwed')
      BY <2>1, <2>2, <2>6 DEF RowOwed
  <2>8. LogOwed' \subseteq LogOwed /\ (w = "log" => s \notin LogOwed')
      BY <2>1, <2>2, <2>6 DEF LogOwed
  <2>9. ErrorOwed' \subseteq ErrorOwed /\ (w = "errlog" => s \notin ErrorOwed')
      BY <2>1, <2>2, <2>4, <2>5 DEF ErrorOwed
  <2>10. \A q \in Slots : "errlog" \in pending'[q] => q \in lossy'
      BY <2>1, <2>2, <2>4 DEF RemovalShape
  <2> QED BY <1>1, <2>1, <2>3, <2>7, <2>8, <2>9, <2>10 DEF RemovalShape
<1> QED BY <1>2, <1>3

\* A row that is written was owed.
LEMMA WriteStep ==
    ASSUME RemovalInv, NEW s \in Slots, NEW w \in pending[s], Removal!WriteLedger(s, w)
    PROVE  RemovalInv'
<1> DEFINE k == IF w = "usage" THEN "usage" ELSE "log"
<1>1. /\ chatStep[s] = "ledger" /\ Removal!Settle(s, (pending[s] \ {w}) \cup {}, lossy)
      /\ rows' = [rows EXCEPT ![k] = @ + 1]
      /\ UNCHANGED <<exists, admin, promoted>>
    BY DEF Removal!WriteLedger, Removal!Add
<1>2. RemovalShape /\ w \in {"log", "usage", "errlog"}
    BY DEF RemovalInv, RemovalShape
<1>3. {} \in SUBSET {"errlog"} /\ lossy = lossy
    OBVIOUS
<1>4. /\ RowOwed' \subseteq RowOwed /\ LogOwed' \subseteq LogOwed
      /\ ErrorOwed' \subseteq ErrorOwed
      /\ w = "usage" => s \in RowOwed \ RowOwed'
      /\ w = "log" => s \in LogOwed \ LogOwed'
      /\ w = "errlog" => s \in ErrorOwed \ ErrorOwed'
      /\ chatStep' \in [Slots -> {"idle", "quota", "ledger", "ban", "session", "remove"}]
      /\ pending' \in [Slots -> SUBSET {"log", "usage", "errlog"}]
      /\ lossy' \subseteq Slots
      /\ \A q \in Slots : "errlog" \in pending'[q] => q \in lossy'
      /\ \A q \in Slots : chatStep'[q] = "remove" => chatStep[q] = "remove"
    BY <1>1, <1>2, <1>3, SettleOwes
<1>5. /\ rows' \in [Removal!Kinds -> Nat] /\ rows'["session"] = rows["session"]
      /\ rows'["ban"] = rows["ban"]
      /\ w = "usage" => rows'["usage"] = rows["usage"] + 1 /\ rows'["log"] = rows["log"]
      /\ w # "usage" => rows'["usage"] = rows["usage"] /\ rows'["log"] = rows["log"] + 1
    BY <1>1, <1>2 DEF RemovalShape, Removal!Kinds
<1>6. RemovalShape' /\ RoleRead'
    BY <1>1, <1>2, <1>4, <1>5 DEF RemovalInv, RemovalShape, RoleRead
<1>7. ASSUME ~exists PROVE Ghosts'
  <2>1. /\ Cardinality(RowOwed) \in Nat /\ Cardinality(RowOwed') \in Nat
        /\ Cardinality(RowOwed') <= Cardinality(RowOwed)
        /\ w = "usage" => Cardinality(RowOwed') + 1 <= Cardinality(RowOwed)
      BY <1>4, OwedSlots, FewerOwe
  <2>2. /\ Cardinality(LogOwed) \in Nat /\ Cardinality(LogOwed') \in Nat
        /\ Cardinality(LogOwed') <= Cardinality(LogOwed)
        /\ w = "log" => Cardinality(LogOwed') + 1 <= Cardinality(LogOwed)
      BY <1>4, OwedSlots, FewerOwe
  <2>3. /\ Cardinality(ErrorOwed) \in Nat /\ Cardinality(ErrorOwed') \in Nat
        /\ Cardinality(ErrorOwed') <= Cardinality(ErrorOwed)
        /\ w = "errlog" => Cardinality(ErrorOwed') + 1 <= Cardinality(ErrorOwed)
      BY <1>4, OwedSlots, FewerOwe
  <2>4. /\ rows["usage"] \in Nat /\ rows["ban"] \in Nat /\ rows["log"] \in Nat
        /\ Cardinality(Slots) \in Nat
      BY <1>2, OwedSlots, SlotsCount DEF RemovalShape, Removal!Kinds
  <2>5. /\ rows["session"] = 0
        /\ rows["usage"] + rows["ban"] + Cardinality(RowOwed) <= Cardinality(Slots)
        /\ rows["log"] + Cardinality(LogOwed) + Cardinality(ErrorOwed) <= 2 * Cardinality(Slots)
      BY <1>7 DEF RemovalInv, Ghosts
  <2>6. rows'["usage"] + rows'["ban"] + Cardinality(RowOwed') <= Cardinality(Slots)
      BY <1>2, <1>5, <2>1, <2>4, <2>5
  <2>7. rows'["log"] + Cardinality(LogOwed') + Cardinality(ErrorOwed') <= 2 * Cardinality(Slots)
    <3>1. CASE w = "usage"
        BY <3>1, <1>5, <2>2, <2>3, <2>4, <2>5
    <3>2. CASE w = "log"
        BY <3>2, <1>5, <2>2, <2>3, <2>4, <2>5
    <3>3. CASE w = "errlog"
        BY <3>3, <1>5, <2>2, <2>3, <2>4, <2>5
    <3> QED BY <1>2, <3>1, <3>2, <3>3
  <2> QED BY <1>5, <2>5, <2>6, <2>7 DEF Ghosts
<1> QED BY <1>1, <1>6, <1>7 DEF RemovalInv, Ghosts

\* A write that fails leaves no row.
LEMMA WriteFailsStep ==
    ASSUME RemovalInv, NEW s \in Slots, NEW w \in pending[s], Removal!WriteFails(s, w)
    PROVE  RemovalInv'
<1> DEFINE again == IF s \in lossy THEN {} ELSE {"errlog"}
<1>1. /\ chatStep[s] = "ledger"
      /\ Removal!Settle(s, (pending[s] \ {w}) \cup again, lossy \cup {s})
      /\ UNCHANGED <<exists, admin, rows, promoted>>
    BY DEF Removal!WriteFails
<1>2. RemovalShape
    BY DEF RemovalInv
<1>3. again \in SUBSET {"errlog"} /\ (again # {} => s \notin lossy)
    OBVIOUS
<1> HIDE DEF again
<1>4. /\ RowOwed' \subseteq RowOwed /\ LogOwed' \subseteq LogOwed
      /\ ErrorOwed' \subseteq ErrorOwed
      /\ chatStep' \in [Slots -> {"idle", "quota", "ledger", "ban", "session", "remove"}]
      /\ pending' \in [Slots -> SUBSET {"log", "usage", "errlog"}]
      /\ lossy' \subseteq Slots
      /\ \A q \in Slots : "errlog" \in pending'[q] => q \in lossy'
      /\ \A q \in Slots : chatStep'[q] = "remove" => chatStep[q] = "remove"
    BY <1>1, <1>2, <1>3, SettleOwes
<1>5. RemovalShape' /\ RoleRead'
    BY <1>1, <1>2, <1>4 DEF RemovalInv, RemovalShape, RoleRead
<1>6. Ghosts'
    BY <1>1, <1>4, GhostsQuiet
<1> QED BY <1>5, <1>6 DEF RemovalInv

\* The end of a request that wrote nothing.
LEMMA DoneStep ==
    ASSUME RemovalInv, NEW s \in Slots, Removal!Done(s),
           UNCHANGED <<exists, admin, rows, promoted>>
    PROVE  RemovalInv'
<1>1. RemovalShape
    BY DEF RemovalInv
<1>2. Ghosts'
    BY <1>1, DoneOwes, GhostsQuiet
<1>3. RemovalShape' /\ RoleRead'
    BY <1>1, DoneOwes DEF RemovalInv, RemovalShape, RoleRead
<1> QED BY <1>2, <1>3 DEF RemovalInv

\* A request that begins: a new one owes nothing, and the one that has passed
\* the check of the user has found him.
LEMMA BeginStep ==
    ASSUME RemovalInv, NEW s \in Slots,
           NEW step \in {"quota", "ledger", "ban", "session", "remove"},
           chatStep[s] \in {"idle", "quota"}, chatStep' = [chatStep EXCEPT ![s] = step],
           \/ pending' = pending
           \/ pending' = [pending EXCEPT ![s] = {"log", "usage"}] /\ step = "ledger",
           step # "quota" => exists, step = "remove" => ~admin,
           UNCHANGED <<exists, admin, rows, lossy, promoted>>
    PROVE  RemovalInv'
<1>1. RemovalShape
    BY DEF RemovalInv
<1>2. /\ chatStep'[s] = step
      /\ \A q \in Slots \ {s} : chatStep'[q] = chatStep[q] /\ pending'[q] = pending[q]
    BY <1>1 DEF RemovalShape
<1>3. pending'[s] = pending[s] \/ pending'[s] = {"log", "usage"}
    BY <1>1 DEF RemovalShape
<1>4. RemovalShape'
  <2>1. chatStep' \in [Slots -> {"idle", "quota", "ledger", "ban", "session", "remove"}]
      BY <1>1 DEF RemovalShape
  <2>2. pending' \in [Slots -> SUBSET {"log", "usage", "errlog"}]
      BY <1>1 DEF RemovalShape
  <2>3. \A q \in Slots : "errlog" \in pending'[q] => q \in lossy
      BY <1>1, <1>2, <1>3 DEF RemovalShape
  <2> QED BY <1>1, <2>1, <2>2, <2>3 DEF RemovalShape
<1>5. RoleRead'
    BY <1>2 DEF RemovalInv, RoleRead
<1>6. ~exists => /\ RowOwed' \subseteq RowOwed /\ LogOwed' \subseteq LogOwed
                 /\ ErrorOwed' \subseteq ErrorOwed
    BY <1>2 DEF RowOwed, LogOwed, ErrorOwed
<1>7. Ghosts'
    BY <1>6, GhostsQuiet
<1> QED BY <1>4, <1>5, <1>7 DEF RemovalInv

\* createBan owes the row it inserts.
LEMMA InsertBanStep ==
    ASSUME RemovalInv, NEW s \in Slots, Removal!InsertBan(s)
    PROVE  RemovalInv'
<1>1. /\ chatStep[s] = "ban" /\ Removal!Done(s) /\ UNCHANGED <<exists, admin, promoted>>
      /\ rows' = [rows EXCEPT !["ban"] = @ + 1]
    BY DEF Removal!InsertBan, Removal!Add
<1>2. RemovalShape
    BY DEF RemovalInv
<1>3. /\ rows' \in [Removal!Kinds -> Nat] /\ rows'["session"] = rows["session"]
      /\ rows'["ban"] = rows["ban"] + 1
      /\ rows'["usage"] = rows["usage"] /\ rows'["log"] = rows["log"]
    BY <1>1, <1>2 DEF RemovalShape, Removal!Kinds
<1>4. RemovalShape' /\ RoleRead'
    BY <1>1, <1>2, <1>3, DoneOwes DEF RemovalInv, RemovalShape, RoleRead
<1>5. ASSUME ~exists PROVE Ghosts'
  <2>1. s \in RowOwed /\ RowOwed' = RowOwed \ {s}
      BY <1>1, <1>2, DoneOwes DEF RowOwed
  <2>2. /\ Cardinality(RowOwed) \in Nat /\ Cardinality(RowOwed') \in Nat
        /\ Cardinality(RowOwed') + 1 <= Cardinality(RowOwed)
      BY <2>1, OwedSlots, FewerOwe
  <2>3. LogOwed' \subseteq LogOwed /\ ErrorOwed' \subseteq ErrorOwed
      BY <1>1, <1>2, DoneOwes
  <2>4. /\ Cardinality(LogOwed) \in Nat /\ Cardinality(LogOwed') \in Nat
        /\ Cardinality(LogOwed') <= Cardinality(LogOwed)
      BY <2>3, OwedSlots, FewerOwe
  <2>5. /\ Cardinality(ErrorOwed) \in Nat /\ Cardinality(ErrorOwed') \in Nat
        /\ Cardinality(ErrorOwed') <= Cardinality(ErrorOwed)
      BY <2>3, OwedSlots, FewerOwe
  <2>6. /\ rows["usage"] \in Nat /\ rows["ban"] \in Nat /\ rows["log"] \in Nat
        /\ Cardinality(Slots) \in Nat
      BY <1>2, OwedSlots, SlotsCount DEF RemovalShape, Removal!Kinds
  <2>7. /\ rows["session"] = 0
        /\ rows["usage"] + rows["ban"] + Cardinality(RowOwed) <= Cardinality(Slots)
        /\ rows["log"] + Cardinality(LogOwed) + Cardinality(ErrorOwed) <= 2 * Cardinality(Slots)
      BY <1>5 DEF RemovalInv, Ghosts
  <2> QED BY <1>3, <2>2, <2>4, <2>5, <2>6, <2>7 DEF Ghosts
<1> QED BY <1>1, <1>4, <1>5 DEF RemovalInv, Ghosts

\* The batch of the deletion leaves no row, and every slot owes one at most.
LEMMA RemoveStep ==
    ASSUME RemovalInv, NEW s \in Slots, Removal!Remove(s)
    PROVE  RemovalInv'
<1>1. /\ chatStep[s] = "remove" /\ Removal!Done(s) /\ UNCHANGED <<admin, promoted>>
      /\ exists' = FALSE /\ rows' = [k \in Removal!Kinds |-> 0]
    BY DEF Removal!Remove
<1>2. RemovalShape
    BY DEF RemovalInv
<1>3. /\ rows' \in [Removal!Kinds -> Nat] /\ rows'["session"] = 0 /\ rows'["ban"] = 0
      /\ rows'["usage"] = 0 /\ rows'["log"] = 0
    BY <1>1 DEF Removal!Kinds
<1>4. RemovalShape' /\ RoleRead'
    BY <1>1, <1>2, <1>3, DoneOwes DEF RemovalInv, RemovalShape, RoleRead
<1>5. /\ Cardinality(RowOwed') <= Cardinality(Slots)
      /\ Cardinality(LogOwed') <= Cardinality(Slots)
      /\ Cardinality(ErrorOwed') <= Cardinality(Slots)
      /\ Cardinality(RowOwed') \in Nat /\ Cardinality(LogOwed') \in Nat
      /\ Cardinality(ErrorOwed') \in Nat /\ Cardinality(Slots) \in Nat
    BY OwedSlots, SlotsCount
<1>6. Ghosts'
    BY <1>3, <1>5 DEF Ghosts
<1> QED BY <1>4, <1>6 DEF RemovalInv

\* Every step keeps the account of what is left behind.
LEMMA RemovalStep ==
    ASSUME RemovalInv, [Removal!Next]_removalVars PROVE RemovalInv'
<1> USE DEF Removal!locals
<1>1. ASSUME NEW s \in Slots, Removal!Authenticate(s) PROVE RemovalInv'
  <2>1. /\ chatStep[s] = "idle" /\ chatStep' = [chatStep EXCEPT ![s] = "quota"]
        /\ UNCHANGED <<exists, admin, rows, pending, lossy, promoted>>
      BY <1>1 DEF Removal!Authenticate, Removal!Start, Removal!Goto
  <2> QED BY <2>1, BeginStep
<1>2. ASSUME NEW s \in Slots, Removal!CheckUser(s) PROVE RemovalInv'
  <2>1. CASE exists
    <3>1. /\ chatStep[s] = "quota" /\ chatStep' = [chatStep EXCEPT ![s] = "ledger"]
          /\ pending' = [pending EXCEPT ![s] = {"log", "usage"}]
          /\ UNCHANGED <<exists, admin, rows, lossy, promoted>>
        BY <1>2, <2>1 DEF Removal!CheckUser, Removal!Serve, Removal!Goto
    <3> QED BY <2>1, <3>1, BeginStep
  <2>2. CASE ~exists
      BY <1>2, <2>2, DoneStep DEF Removal!CheckUser
  <2> QED BY <2>1, <2>2
<1>3. ASSUME NEW s \in Slots, NEW w \in pending[s], Removal!WriteLedger(s, w)
      PROVE  RemovalInv'
    BY <1>3, WriteStep
<1>4. ASSUME NEW s \in Slots, NEW w \in pending[s], Removal!WriteFails(s, w)
      PROVE  RemovalInv'
    BY <1>4, WriteFailsStep
<1>5. ASSUME NEW s \in Slots, Removal!ReadForBan(s) PROVE RemovalInv'
  <2>1. /\ chatStep[s] = "idle" /\ exists /\ chatStep' = [chatStep EXCEPT ![s] = "ban"]
        /\ UNCHANGED <<exists, admin, rows, pending, lossy, promoted>>
      BY <1>5 DEF Removal!ReadForBan, Removal!Start, Removal!Goto
  <2> QED BY <2>1, BeginStep
<1>6. ASSUME NEW s \in Slots, Removal!InsertBan(s) PROVE RemovalInv'
    BY <1>6, InsertBanStep
<1>7. ASSUME NEW s \in Slots, Removal!ReadForSession(s) PROVE RemovalInv'
  <2>1. /\ chatStep[s] = "idle" /\ exists /\ chatStep' = [chatStep EXCEPT ![s] = "session"]
        /\ UNCHANGED <<exists, admin, rows, pending, lossy, promoted>>
      BY <1>7 DEF Removal!ReadForSession, Removal!Start, Removal!Goto
  <2> QED BY <2>1, BeginStep
<1>8. ASSUME NEW s \in Slots, Removal!OpenSession(s) PROVE RemovalInv'
  <2>1. CASE ~exists
      BY <1>8, <2>1, DoneStep DEF Removal!OpenSession
  <2>2. CASE exists
    <3>1. /\ Removal!Done(s) /\ UNCHANGED <<exists, admin, promoted>>
          /\ rows' = [rows EXCEPT !["session"] = @ + 1]
        BY <1>8, <2>2 DEF Removal!OpenSession, Removal!Add
    <3>2. rows' \in [Removal!Kinds -> Nat]
        BY <3>1 DEF RemovalInv, RemovalShape, Removal!Kinds
    <3>3. RemovalShape' /\ RoleRead'
        BY <3>1, <3>2, DoneOwes DEF RemovalInv, RemovalShape, RoleRead
    <3>4. Ghosts'
        BY <2>2, <3>1 DEF Ghosts
    <3> QED BY <3>3, <3>4 DEF RemovalInv
  <2> QED BY <2>1, <2>2
<1>9. ASSUME NEW s \in Slots, Removal!ReadForRemoval(s) PROVE RemovalInv'
  <2>1. /\ chatStep[s] = "idle" /\ exists /\ ~admin
        /\ chatStep' = [chatStep EXCEPT ![s] = "remove"]
        /\ UNCHANGED <<exists, admin, rows, pending, lossy, promoted>>
      BY <1>9 DEF Removal!ReadForRemoval, Removal!Start, Removal!Goto
  <2> QED BY <2>1, BeginStep
<1>10. ASSUME NEW s \in Slots, Removal!Remove(s) PROVE RemovalInv'
    BY <1>10, RemoveStep
<1>11. ASSUME NEW s \in Slots, Removal!Fail(s) PROVE RemovalInv'
    BY <1>11, DoneStep DEF Removal!Fail
<1>12. CASE Removal!ChangeRole
  <2>1. /\ exists /\ UNCHANGED <<exists, rows, chatStep, pending, lossy>>
        /\ admin' = ~admin
        /\ promoted' = (promoted \/ (~admin /\ Removal!InSteps({"remove"}) # {}))
      BY <1>12 DEF Removal!ChangeRole
  <2>2. RemovalShape'
      BY <2>1 DEF RemovalInv, RemovalShape
  <2>3. RoleRead'
    <3>1. (\E s \in Slots : chatStep[s] = "remove") => Removal!InSteps({"remove"}) # {}
        BY DEF Removal!InSteps
    <3> QED BY <2>1, <3>1 DEF RoleRead
  <2>4. Ghosts'
      BY <2>1 DEF Ghosts
  <2> QED BY <2>2, <2>3, <2>4 DEF RemovalInv
<1>13. CASE Removal!CreateKey \/ Removal!DeleteKey \/ UNCHANGED removalVars
  <2>1. UNCHANGED <<exists, admin, rows, chatStep, pending, lossy, promoted>>
      BY <1>13 DEF Removal!CreateKey, Removal!DeleteKey, removalVars
  <2> QED BY <2>1 DEF RemovalInv, RemovalShape, RoleRead, Ghosts, RowOwed, LogOwed, ErrorOwed
<1> QED BY <1>1, <1>2, <1>3, <1>4, <1>5, <1>6, <1>7, <1>8, <1>9, <1>10, <1>11, <1>12, <1>13
        DEF Removal!Next

-----------------------------------------------------------------------------
(* The archive of feedback and the top tickets.  A ticket over the size of *)
(* the archive belongs to a processing that has not trimmed yet or failed  *)
(* to; a top ticket filed without the plan to a request that had read it.  *)

Archive == Desk!Processed
Trimming == Desk!InStep("trim")
Filing == Desk!InStep("top")

DeskShape ==
    /\ pro \in BOOLEAN /\ lost \in Nat /\ lateTops \in Nat
    /\ deskStep \in [Slots -> {"idle", "file", "top", "trim"}]
    /\ feedback \in [TicketIds -> [status : {"none", "pending", "processed", "gone"}, at : Nat]]
    /\ second \in Nat

DeskInv ==
    /\ DeskShape
    /\ Cardinality(Archive) <= ArchiveSize + Cardinality(Trimming) + lost
    /\ lateTops <= Cardinality(Slots)
    /\ ~pro => lateTops + Cardinality(Filing) <= Cardinality(Slots)

\* The instance counts as this module does.
LEMMA DeskCardinality == ASSUME NEW S PROVE Desk!Cardinality(S) = Cardinality(S)
  BY DEF Cardinality, Desk!Cardinality

\* The same for the deletion.
LEMMA RemovalCardinality == ASSUME NEW S PROVE Removal!Cardinality(S) = Cardinality(S)
  BY DEF Cardinality, Removal!Cardinality

\* The archive is finite, and the slots at one step are slots.
LEMMA DeskCounts ==
    /\ IsFiniteSet(Archive) /\ Cardinality(Archive) \in Nat
    /\ IsFiniteSet(Trimming) /\ Cardinality(Trimming) \in Nat
    /\ IsFiniteSet(Filing) /\ Cardinality(Filing) \in Nat
    /\ Cardinality(Slots) \in Nat /\ ArchiveSize \in Nat
    /\ IsFiniteSet(Trimming') /\ Cardinality(Trimming') \in Nat
    /\ IsFiniteSet(Filing') /\ Cardinality(Filing') \in Nat
    /\ Cardinality(Filing') <= Cardinality(Slots)
<1>1. Archive \in SUBSET TicketIds
    BY DEF Archive, Desk!Processed
<1>2. IsFiniteSet(Archive)
    BY <1>1, ContributionsAssumption, FS_Subset
<1>3. /\ Trimming \in SUBSET Slots /\ Filing \in SUBSET Slots
      /\ Trimming' \in SUBSET Slots /\ Filing' \in SUBSET Slots
    BY DEF Trimming, Filing, Desk!InStep
<1>4. ArchiveSize \in Nat
    BY AccountsAssumption DEF Desk!SupportAssumption
<1> QED BY <1>2, <1>3, <1>4, FS_CardinalityType, SlotsCount

\* A slot that moves from one step to another.
LEMMA DeskMove ==
    ASSUME DeskShape, NEW s \in Slots, NEW to \in {"idle", "file", "top", "trim"},
           Desk!Goto(s, to), deskStep[s] # to
    PROVE  /\ deskStep' \in [Slots -> {"idle", "file", "top", "trim"}]
           /\ Cardinality(Trimming') = IF to = "trim" THEN Cardinality(Trimming) + 1
                                       ELSE IF deskStep[s] = "trim"
                                            THEN Cardinality(Trimming) - 1
                                            ELSE Cardinality(Trimming)
           /\ Cardinality(Filing') = IF to = "top" THEN Cardinality(Filing) + 1
                                     ELSE IF deskStep[s] = "top"
                                          THEN Cardinality(Filing) - 1
                                          ELSE Cardinality(Filing)
<1>1. deskStep' = [deskStep EXCEPT ![s] = to]
    BY DEF Desk!Goto
<1>2. /\ deskStep' \in [Slots -> {"idle", "file", "top", "trim"}]
      /\ deskStep'[s] = to /\ \A q \in Slots \ {s} : deskStep'[q] = deskStep[q]
    BY <1>1 DEF DeskShape
<1>3. ASSUME NEW step \in {"trim", "top"}
      PROVE  /\ to = step => Cardinality(Desk!InStep(step)') = Cardinality(Desk!InStep(step)) + 1
             /\ to # step /\ deskStep[s] = step =>
                    Cardinality(Desk!InStep(step)') = Cardinality(Desk!InStep(step)) - 1
             /\ to # step /\ deskStep[s] # step =>
                    Cardinality(Desk!InStep(step)') = Cardinality(Desk!InStep(step))
  <2> DEFINE at == {q \in Slots : deskStep[q] = step}
             next == {q \in Slots : deskStep'[q] = step}
  <2>1. Desk!InStep(step) = at /\ Desk!InStep(step)' = next
      BY DEF Desk!InStep
  <2>2. IsFiniteSet(at)
      BY SlotsCount
  <2>3. /\ to = step => next = at \cup {s} /\ s \notin at
        /\ to # step /\ deskStep[s] = step => next = at \ {s} /\ s \in at
        /\ to # step /\ deskStep[s] # step => next = at
      BY <1>2
  <2> HIDE DEF at, next
  <2> QED BY <2>1, <2>2, <2>3, FS_AddElement, FS_RemoveElement
<1> QED BY <1>2, <1>3 DEF Trimming, Filing

\* Every step keeps the archive and the top tickets within their bounds.
LEMMA DeskStep ==
    ASSUME DeskInv, [Desk!Next]_deskVars PROVE DeskInv'
<1>1. DeskShape
    BY DEF DeskInv
<1>2. /\ Cardinality(Archive) <= ArchiveSize + Cardinality(Trimming) + lost
      /\ lateTops <= Cardinality(Slots)
      /\ ~pro => lateTops + Cardinality(Filing) <= Cardinality(Slots)
      /\ lost \in Nat /\ lateTops \in Nat
      /\ IsFiniteSet(Archive) /\ IsFiniteSet(Trimming) /\ IsFiniteSet(Filing)
    BY DeskCounts DEF DeskInv, DeskShape
<1>20. /\ Cardinality(Archive) \in Nat /\ Cardinality(Trimming) \in Nat
      /\ Cardinality(Filing) \in Nat /\ Cardinality(Slots) \in Nat /\ ArchiveSize \in Nat
    BY DeskCounts
<1>3. ASSUME NEW s \in Slots, Desk!ReadUser(s) PROVE DeskInv'
  <2>1. /\ deskStep[s] = "idle" /\ UNCHANGED <<pro, feedback, second, lost, lateTops>>
        /\ Desk!Goto(s, "file") \/ (pro /\ Desk!Goto(s, "top"))
      BY <1>3 DEF Desk!ReadUser
  <2>2. Archive' = Archive
      BY <2>1 DEF Archive, Desk!Processed
  <2>3. CASE Desk!Goto(s, "file")
    <3>1. /\ deskStep' \in [Slots -> {"idle", "file", "top", "trim"}]
          /\ Cardinality(Trimming') = Cardinality(Trimming)
          /\ Cardinality(Filing') = Cardinality(Filing)
        BY <1>1, <2>1, <2>3, DeskMove
    <3> QED BY <1>1, <1>2, <2>1, <2>2, <3>1 DEF DeskInv, DeskShape
  <2>4. CASE pro /\ Desk!Goto(s, "top")
    <3>1. /\ deskStep' \in [Slots -> {"idle", "file", "top", "trim"}]
          /\ Cardinality(Trimming') = Cardinality(Trimming)
        BY <1>1, <2>1, <2>4, DeskMove
    <3> QED BY <1>1, <1>2, <2>1, <2>2, <2>4, <3>1 DEF DeskInv, DeskShape
  <2> QED BY <2>1, <2>3, <2>4
<1>4. ASSUME NEW s \in Slots, Desk!InsertTicket(s) PROVE DeskInv'
  <2>1. PICK t \in TicketIds :
            /\ feedback[t].status = "none"
            /\ feedback' = [feedback EXCEPT ![t].status = "pending"]
      BY <1>4 DEF Desk!InsertTicket
  <2>2. /\ deskStep[s] \in {"file", "top"} /\ Desk!Goto(s, "idle")
        /\ lateTops' = IF deskStep[s] = "top" /\ ~pro THEN lateTops + 1 ELSE lateTops
        /\ UNCHANGED <<pro, second, lost>>
      BY <1>4 DEF Desk!InsertTicket
  <2>3. /\ feedback' \in [TicketIds -> [status : {"none", "pending", "processed", "gone"},
                                        at : Nat]]
        /\ feedback'[t].status = "pending"
        /\ \A u \in TicketIds \ {t} : feedback'[u] = feedback[u]
      BY <1>1, <2>1 DEF DeskShape
  <2>4. Archive' = Archive
      BY <2>1, <2>3 DEF Archive, Desk!Processed
  <2>5. /\ deskStep' \in [Slots -> {"idle", "file", "top", "trim"}]
        /\ Cardinality(Trimming') = Cardinality(Trimming)
        /\ Cardinality(Filing') = IF deskStep[s] = "top" THEN Cardinality(Filing) - 1
                                  ELSE Cardinality(Filing)
      BY <1>1, <2>2, DeskMove
  <2>6. lateTops' \in Nat /\ lateTops' <= Cardinality(Slots)
        /\ (~pro => lateTops' + Cardinality(Filing') <= Cardinality(Slots))
      BY <1>2, <2>2, <2>5, DeskCounts
  <2> QED BY <1>1, <1>2, <2>2, <2>3, <2>4, <2>5, <2>6 DEF DeskInv, DeskShape
<1>5. ASSUME NEW s \in Slots, Desk!Process(s) PROVE DeskInv'
  <2>1. PICK t \in TicketIds :
            /\ feedback[t].status = "pending"
            /\ feedback' = [feedback EXCEPT ![t] = [status |-> "processed", at |-> second]]
      BY <1>5 DEF Desk!Process
  <2>2. /\ deskStep[s] = "idle" /\ Desk!Goto(s, "trim")
        /\ UNCHANGED <<pro, second, lost, lateTops>>
      BY <1>5 DEF Desk!Process
  <2>3. /\ feedback' \in [TicketIds -> [status : {"none", "pending", "processed", "gone"},
                                        at : Nat]]
        /\ feedback'[t].status = "processed"
        /\ \A u \in TicketIds \ {t} : feedback'[u] = feedback[u]
      BY <1>1, <2>1 DEF DeskShape
  <2>4. Archive' = Archive \cup {t} /\ t \notin Archive
      BY <2>1, <2>3 DEF Archive, Desk!Processed
  <2>5. Cardinality(Archive') = Cardinality(Archive) + 1
      BY <2>4, DeskCounts, FS_AddElement
  <2>6. /\ deskStep' \in [Slots -> {"idle", "file", "top", "trim"}]
        /\ Cardinality(Trimming') = Cardinality(Trimming) + 1
        /\ Cardinality(Filing') = Cardinality(Filing)
      BY <1>1, <2>2, DeskMove
  <2>7. Cardinality(Archive') <= ArchiveSize + Cardinality(Trimming') + lost
      BY <1>2, <2>5, <2>6, DeskCounts
  <2> QED BY <1>1, <1>2, <2>2, <2>3, <2>6, <2>7 DEF DeskInv, DeskShape
<1>6. ASSUME NEW s \in Slots, Desk!Trim(s) PROVE DeskInv'
  <2>1. PICK kept \in SUBSET Archive :
            /\ Desk!Newest(kept)
            /\ feedback' = [t \in TicketIds |-> IF t \in Archive \ kept
                                                THEN [status |-> "gone", at |-> 0]
                                                ELSE feedback[t]]
      BY <1>6 DEF Desk!Trim, Archive
  <2>2. /\ deskStep[s] = "trim" /\ Desk!Goto(s, "idle") /\ lost' = 0
        /\ UNCHANGED <<pro, second, lateTops>>
      BY <1>6 DEF Desk!Trim
  <2>3. feedback' \in [TicketIds -> [status : {"none", "pending", "processed", "gone"},
                                     at : Nat]]
    <3>1. \A t \in TicketIds :
              feedback'[t] \in [status : {"none", "pending", "processed", "gone"}, at : Nat]
        BY <1>1, <2>1 DEF DeskShape
    <3> QED BY <2>1, <3>1
  <2>4. Archive' = kept
      BY <2>1 DEF Archive, Desk!Processed
  <2>5. Cardinality(kept) <= ArchiveSize /\ Cardinality(kept) \in Nat
    <3>1. Cardinality(kept) = IF Cardinality(Archive) < ArchiveSize
                              THEN Cardinality(Archive) ELSE ArchiveSize
        BY <2>1, DeskCardinality DEF Desk!Newest, Archive
    <3> QED BY <3>1, DeskCounts
  <2>6. /\ deskStep' \in [Slots -> {"idle", "file", "top", "trim"}]
        /\ Cardinality(Filing') = Cardinality(Filing)
      BY <1>1, <2>2, DeskMove
  <2>7. Cardinality(Archive') <= ArchiveSize + Cardinality(Trimming') + lost'
      BY <2>2, <2>4, <2>5, DeskCounts
  <2> QED BY <1>1, <1>2, <2>2, <2>3, <2>6, <2>7 DEF DeskInv, DeskShape
<1>7. ASSUME NEW s \in Slots, Desk!Fail(s) PROVE DeskInv'
  <2>1. /\ deskStep[s] # "idle" /\ Desk!Goto(s, "idle")
        /\ lost' = IF deskStep[s] = "trim" THEN lost + 1 ELSE lost
        /\ UNCHANGED <<pro, feedback, second, lateTops>>
      BY <1>7 DEF Desk!Fail
  <2>2. Archive' = Archive
      BY <2>1 DEF Archive, Desk!Processed
  <2>3. /\ deskStep' \in [Slots -> {"idle", "file", "top", "trim"}]
        /\ Cardinality(Trimming') = IF deskStep[s] = "trim" THEN Cardinality(Trimming) - 1
                                    ELSE Cardinality(Trimming)
        /\ Cardinality(Filing') = IF deskStep[s] = "top" THEN Cardinality(Filing) - 1
                                  ELSE Cardinality(Filing)
      BY <1>1, <2>1, DeskMove
  <2>4. /\ lost' \in Nat
        /\ Cardinality(Archive) <= ArchiveSize + Cardinality(Trimming') + lost'
        /\ (~pro => lateTops + Cardinality(Filing') <= Cardinality(Slots))
      BY <1>2, <2>1, <2>3, DeskCounts
  <2> QED BY <1>1, <1>2, <2>1, <2>2, <2>3, <2>4 DEF DeskInv, DeskShape
<1>8. CASE Desk!ChangePlan
  <2>1. /\ pro' = ~pro /\ lateTops' = IF pro THEN 0 ELSE lateTops
        /\ UNCHANGED <<feedback, second, deskStep, lost>>
      BY <1>8 DEF Desk!ChangePlan
  <2>2. Archive' = Archive /\ Trimming' = Trimming /\ Filing' = Filing
      BY <2>1 DEF Archive, Desk!Processed, Trimming, Filing, Desk!InStep
  <2>3. /\ lateTops' \in Nat /\ lateTops' <= Cardinality(Slots)
        /\ ~pro' => lateTops' + Cardinality(Filing') <= Cardinality(Slots)
    <3>1. CASE pro
      <4>1. lateTops' = 0 /\ Cardinality(Filing') <= Cardinality(Slots)
          BY <2>1, <3>1, DeskCounts
      <4> QED BY <4>1, DeskCounts
    <3>2. CASE ~pro
      <4>1. lateTops' = lateTops /\ pro'
          BY <2>1, <3>2
      <4> QED BY <1>2, <4>1
    <3> QED BY <3>1, <3>2
  <2> QED BY <1>1, <1>2, <2>1, <2>2, <2>3 DEF DeskInv, DeskShape
<1>9. CASE Desk!Tick
  <2>1. second' = second + 1 /\ UNCHANGED <<pro, feedback, deskStep, lost, lateTops>>
      BY <1>9 DEF Desk!Tick
  <2>2. Archive' = Archive /\ Trimming' = Trimming /\ Filing' = Filing
      BY <2>1 DEF Archive, Desk!Processed, Trimming, Filing, Desk!InStep
  <2> QED BY <1>1, <1>2, <2>1, <2>2 DEF DeskInv, DeskShape
<1>10. CASE UNCHANGED deskVars
  <2>1. UNCHANGED <<pro, feedback, second, deskStep, lost, lateTops>>
      BY <1>10 DEF deskVars
  <2>2. Archive' = Archive /\ Trimming' = Trimming /\ Filing' = Filing
      BY <2>1 DEF Archive, Desk!Processed, Trimming, Filing, Desk!InStep
  <2> QED BY <1>1, <1>2, <2>1, <2>2 DEF DeskInv, DeskShape
<1> QED BY <1>3, <1>4, <1>5, <1>6, <1>7, <1>8, <1>9, <1>10 DEF Desk!Next

\* The account the deletion starts from has one session and nothing else.
LEMMA RemovalStart == ASSUME AccountsInit PROVE RemovalInv
  BY DEF AccountsInit, Removal!Init, Removal!Kinds, RemovalInv, RemovalShape, RoleRead, Ghosts

\* For any number of requests around a deletion: what still names a deleted
\* account was under way when its batch ran (deleteUserAccount), the archive is
\* exceeded by the processings that did not trim (handleProcessTicket), and a top
\* ticket without the plan comes from a request that had read it
\* (handleCreateTicket).
THEOREM LeftoversAreBounded == AccountsSpec => []LeftoversBounded
<1>1. AccountsInit => RemovalInv /\ DeskInv
  <2> SUFFICES ASSUME AccountsInit PROVE RemovalInv /\ DeskInv
      OBVIOUS
  <2>1. RemovalInv
      BY DEF AccountsInit, Removal!Init, Removal!Kinds, RemovalInv, RemovalShape, RoleRead,
         Ghosts
  <2>2. DeskShape
      BY DEF AccountsInit, Desk!Init, Desk!Unused, DeskShape
  <2>3. Archive = {} /\ Trimming = {} /\ Filing = {} /\ lost = 0 /\ lateTops = 0
      BY DEF AccountsInit, Desk!Init, Desk!Unused, Archive, Desk!Processed, Trimming, Filing,
             Desk!InStep
  <2> QED BY <2>1, <2>2, <2>3, FS_EmptySet, DeskCounts DEF DeskInv
<1>2. RemovalInv /\ DeskInv /\ [AccountsNext]_accountsVars
        => (RemovalInv /\ DeskInv)'
  <2>1. [AccountsNext]_accountsVars
          => [Removal!Next]_removalVars /\ [Desk!Next]_deskVars
      BY DEF AccountsNext, accountsVars
  <2> QED BY <2>1, RemovalStep, DeskStep
<1>3. RemovalInv /\ DeskInv => LeftoversBounded
  <2> SUFFICES ASSUME RemovalInv, DeskInv PROVE LeftoversBounded
      OBVIOUS
  <2>1. /\ Cardinality(RowOwed) \in Nat /\ Cardinality(LogOwed) \in Nat
        /\ Cardinality(ErrorOwed) \in Nat /\ Cardinality(Slots) \in Nat
      BY OwedSlots, SlotsCount
  <2>2. /\ rows["usage"] \in Nat /\ rows["ban"] \in Nat /\ rows["log"] \in Nat
      BY DEF RemovalInv, RemovalShape, Removal!Kinds
  <2>3. Removal!GhostsBounded
    <3>1. ASSUME ~exists
          PROVE  /\ rows["usage"] + rows["ban"] <= Cardinality(Slots)
                 /\ rows["log"] <= 2 * Cardinality(Slots)
                 /\ rows["session"] = 0
        BY <3>1, <2>1, <2>2 DEF RemovalInv, Ghosts
    <3>2. ~exists => (admin => promoted)
        BY DEF RemovalInv, RoleRead
    <3> QED BY <3>1, <3>2, RemovalCardinality DEF Removal!GhostsBounded
  <2>4. Desk!DeskBounded
      BY DeskCardinality DEF DeskInv, Desk!DeskBounded, Archive, Trimming
  <2> QED BY <2>3, <2>4 DEF LeftoversBounded
<1> QED BY <1>1, <1>2, <1>3, PTL DEF AccountsSpec

-----------------------------------------------------------------------------
(* Bans and appeals.                                                       *)

\* The assumption on the constants of bans and appeals.
LEMMA BansAssumption ==
    /\ IsFiniteSet(Slots) /\ IsFiniteSet(BanIds) /\ IsFiniteSet(AppealIds)
    /\ NoBan \notin BanIds /\ NoAppeal \notin AppealIds
  BY AccountsAssumption DEF Bans!ModerationAssumption, IsFiniteSet, Bans!IsFiniteSet

\* Cardinality means the same in the instance (FiniteSets).
LEMMA BansCardinality == ASSUME NEW S PROVE Bans!Cardinality(S) = Cardinality(S)
  BY DEF Cardinality, Bans!Cardinality

\* A step of the whole is a step of bans and appeals or leaves them alone.
LEMMA BansMove == ASSUME [AccountsNext]_accountsVars PROVE [Bans!Next]_banVars
  BY DEF AccountsNext, accountsVars

Writing == {"cancel", "cancel+", "insert", "insert+"}
DecidingAppeal == {"decide", "lift", "close", "delist"}

\* Two requests never write one ban, and a ban being written is not stored yet.
FreshBans ==
    \A s \in Slots : banStep[s] \in Writing =>
        /\ ban[s] \in BanIds /\ bans[ban[s]] = "none"
        /\ \A t \in Slots : t # s => ban[t] # ban[s]

\* Only a ban that is stored is appealed against, and only an appeal that is
\* stored is reviewed.
StoredBans ==
    /\ \A s \in Slots : banStep[s] \in {"pending", "submit"} =>
          ban[s] \in BanIds /\ bans[ban[s]] # "none"
    /\ \A a \in AppealIds : appeals[a].status # "none" =>
          appeals[a].ban \in BanIds /\ bans[appeals[a].ban] # "none"
    /\ \A s \in Slots : banStep[s] \in DecidingAppeal =>
          appeal[s] \in AppealIds /\ appeals[appeal[s]].status # "none"

\* A ban that a review is going to cancel: the account is already reopened.
Doomed(b) == \E s \in Slots : banStep[s] = "close" /\ appeals[appeal[s]].ban = b

\* An account that is kept out has an active ban no review is about to cancel.
BannedKeepsBan ==
    account = "banned" =>
        \/ failures
        \/ \E s \in Slots : banStep[s] \in Writing
        \/ \E b \in BanIds : bans[b] = "active" /\ ~Doomed(b)

ModerationInv == Bans!TypeOK /\ FreshBans /\ StoredBans /\ BannedKeepsBan

\* Every statement keeps the types of the tables and of the requests' locals.
LEMMA BanTypeStep == ASSUME Bans!TypeOK, [Bans!Next]_banVars PROVE Bans!TypeOK'
<1> USE BansAssumption DEF Bans!TypeOK, Bans!Steps
<1>1. ASSUME NEW s \in Slots, NEW plus \in BOOLEAN, Bans!BanAccount(s,
plus) PROVE Bans!TypeOK'
    BY <1>1 DEF Bans!BanAccount, Bans!Goto
<1>2. ASSUME NEW s \in Slots, Bans!CancelOthers(s) PROVE Bans!TypeOK'
    BY <1>2 DEF Bans!CancelOthers, Bans!Goto, Bans!Keep, Bans!WithoutActive
<1>3. ASSUME NEW s \in Slots, Bans!InsertBan(s) PROVE Bans!TypeOK'
    BY <1>3 DEF Bans!InsertBan, Bans!Done, Bans!Goto, Bans!Keep
<1>4. ASSUME NEW s \in Slots, Bans!ListEmail(s) PROVE Bans!TypeOK'
    BY <1>4 DEF Bans!ListEmail, Bans!Done, Bans!Goto
<1>5. ASSUME NEW s \in Slots, Bans!RemoveFromList(s) PROVE Bans!TypeOK'
    BY <1>5 DEF Bans!RemoveFromList, Bans!WithoutActive
<1>6. ASSUME NEW s \in Slots, Bans!ReadBan(s) PROVE Bans!TypeOK'
    BY <1>6 DEF Bans!ReadBan, Bans!Goto, Bans!Active
<1>7. ASSUME NEW s \in Slots, Bans!LookForPending(s) PROVE Bans!TypeOK'
    BY <1>7 DEF Bans!LookForPending, Bans!Done, Bans!Goto, Bans!Keep
<1>8. ASSUME NEW s \in Slots, Bans!InsertAppeal(s) PROVE Bans!TypeOK'
    BY <1>8 DEF Bans!InsertAppeal, Bans!Done, Bans!Goto
<1>9. ASSUME NEW s \in Slots, Bans!ReadAppeal(s) PROVE Bans!TypeOK'
    BY <1>9 DEF Bans!ReadAppeal, Bans!Goto
<1>10. ASSUME NEW s \in Slots, Bans!Decide(s) PROVE Bans!TypeOK'
  <2>1. appeals' \in [AppealIds -> [ban : BanIds \cup {NoBan},
                                     status : {"none", "pending", "approved", "rejected"}]]
    <3>1. CASE appeals[appeal[s]].status = "pending"
      <4>1. PICK v \in {"approved", "rejected"} : v = verdict[s]
          OBVIOUS
      <4>2. appeals' = [appeals EXCEPT ![appeal[s]].status = v]
          BY <1>10, <3>1, <4>1 DEF Bans!Decide
      <4>3. CASE appeal[s] \in AppealIds
        <5>1. [appeals[appeal[s]] EXCEPT !.status = v] \in
                  [ban : BanIds \cup {NoBan},
                   status : {"none", "pending", "approved", "rejected"}]
            BY <4>3
        <5> QED BY <4>2, <4>3, <5>1
      <4>4. CASE appeal[s] \notin AppealIds
          BY <4>2, <4>4
      <4> QED BY <4>3, <4>4
    <3>2. CASE appeals[appeal[s]].status # "pending"
        BY <1>10, <3>2 DEF Bans!Decide
    <3> QED BY <3>1, <3>2
  <2>2. /\ banStep' \in [Slots -> Bans!Steps]
        /\ ban' \in [Slots -> BanIds \cup {NoBan}]
        /\ appeal' \in [Slots -> AppealIds \cup {NoAppeal}]
        /\ verdict' \in [Slots -> {"approved", "rejected"}]
      BY <1>10 DEF Bans!Decide, Bans!Done, Bans!Goto, Bans!Keep
  <2> QED BY <1>10, <2>1, <2>2 DEF Bans!Decide
<1>11. ASSUME NEW s \in Slots, Bans!LiftAccount(s) PROVE Bans!TypeOK'
    BY <1>11 DEF Bans!LiftAccount, Bans!Goto, Bans!Keep
<1>12. ASSUME NEW s \in Slots, Bans!CloseBan(s) PROVE Bans!TypeOK'
    BY <1>12 DEF Bans!CloseBan, Bans!Goto, Bans!Keep
<1>13. ASSUME NEW s \in Slots, Bans!Delist(s) PROVE Bans!TypeOK'
    BY <1>13 DEF Bans!Delist, Bans!Done, Bans!Goto
<1>14. ASSUME NEW s \in Slots, Bans!Fail(s) PROVE Bans!TypeOK'
    BY <1>14 DEF Bans!Fail, Bans!Done, Bans!Goto, Bans!tables
<1>15. CASE UNCHANGED banVars
    BY <1>15 DEF banVars
<1> QED BY <1>1, <1>2, <1>3, <1>4, <1>5, <1>6, <1>7, <1>8, <1>9, <1>10, <1>11, <1>12, <1>13,
           <1>14, <1>15 DEF Bans!Next

\* createBan takes an id nobody uses, and writes it once.
LEMMA FreshBanStep == ASSUME ModerationInv, [Bans!Next]_banVars PROVE FreshBans'
<1> USE BansAssumption DEF ModerationInv, Bans!TypeOK, FreshBans, StoredBans, Writing
<1>1. ASSUME NEW s \in Slots, NEW plus \in BOOLEAN, Bans!BanAccount(s, plus) PROVE FreshBans'
    BY <1>1 DEF Bans!BanAccount, Bans!Goto
<1>2. ASSUME NEW s \in Slots, Bans!CancelOthers(s) PROVE FreshBans'
    BY <1>2 DEF Bans!CancelOthers, Bans!Goto, Bans!Keep, Bans!WithoutActive
<1>3. ASSUME NEW s \in Slots, Bans!InsertBan(s) PROVE FreshBans'
    BY <1>3 DEF Bans!InsertBan, Bans!Done, Bans!Goto, Bans!Keep
<1>4. ASSUME NEW s \in Slots, Bans!ListEmail(s) PROVE FreshBans'
    BY <1>4 DEF Bans!ListEmail, Bans!Done, Bans!Goto
<1>5. ASSUME NEW s \in Slots, Bans!RemoveFromList(s) PROVE FreshBans'
    BY <1>5 DEF Bans!RemoveFromList, Bans!WithoutActive
<1>6. ASSUME NEW s \in Slots, Bans!ReadBan(s) PROVE FreshBans'
    BY <1>6 DEF Bans!ReadBan, Bans!Goto, Bans!Active
<1>7. ASSUME NEW s \in Slots, Bans!LookForPending(s) PROVE FreshBans'
    BY <1>7 DEF Bans!LookForPending, Bans!Done, Bans!Goto, Bans!Keep
<1>8. ASSUME NEW s \in Slots, Bans!InsertAppeal(s) PROVE FreshBans'
    BY <1>8 DEF Bans!InsertAppeal, Bans!Done, Bans!Goto
<1>9. ASSUME NEW s \in Slots, Bans!ReadAppeal(s) PROVE FreshBans'
    BY <1>9 DEF Bans!ReadAppeal, Bans!Goto
<1>10. ASSUME NEW s \in Slots, Bans!Decide(s) PROVE FreshBans'
    BY <1>10 DEF Bans!Decide, Bans!Done, Bans!Goto, Bans!Keep
<1>11. ASSUME NEW s \in Slots, Bans!LiftAccount(s) PROVE FreshBans'
    BY <1>11 DEF Bans!LiftAccount, Bans!Goto, Bans!Keep
<1>12. ASSUME NEW s \in Slots, Bans!CloseBan(s) PROVE FreshBans'
    BY <1>12 DEF Bans!CloseBan, Bans!Keep, Bans!Goto, DecidingAppeal
<1>13. ASSUME NEW s \in Slots, Bans!Delist(s) PROVE FreshBans'
    BY <1>13 DEF Bans!Delist, Bans!Done, Bans!Goto
<1>14. ASSUME NEW s \in Slots, Bans!Fail(s) PROVE FreshBans'
    BY <1>14 DEF Bans!Fail, Bans!Done, Bans!Goto, Bans!tables
<1>15. CASE UNCHANGED banVars
    BY <1>15 DEF banVars
<1> QED BY <1>1, <1>2, <1>3, <1>4, <1>5, <1>6, <1>7, <1>8, <1>9, <1>10, <1>11, <1>12, <1>13,
           <1>14, <1>15 DEF Bans!Next

\* No statement takes a stored ban or a stored appeal back.
LEMMA StoredStep == ASSUME ModerationInv, [Bans!Next]_banVars PROVE StoredBans'
<1> USE BansAssumption DEF ModerationInv, Bans!TypeOK, FreshBans, StoredBans, Writing,
DecidingAppeal
<1>1. ASSUME NEW s \in Slots, NEW plus \in BOOLEAN, Bans!BanAccount(s, plus) PROVE StoredBans'
    BY <1>1 DEF Bans!BanAccount, Bans!Goto
<1>2. ASSUME NEW s \in Slots, Bans!CancelOthers(s) PROVE StoredBans'
    BY <1>2 DEF Bans!CancelOthers, Bans!Goto, Bans!Keep, Bans!WithoutActive
<1>3. ASSUME NEW s \in Slots, Bans!InsertBan(s) PROVE StoredBans'
    BY <1>3 DEF Bans!InsertBan, Bans!Done, Bans!Goto, Bans!Keep
<1>4. ASSUME NEW s \in Slots, Bans!ListEmail(s) PROVE StoredBans'
    BY <1>4 DEF Bans!ListEmail, Bans!Done, Bans!Goto
<1>5. ASSUME NEW s \in Slots, Bans!RemoveFromList(s) PROVE StoredBans'
    BY <1>5 DEF Bans!RemoveFromList, Bans!WithoutActive
<1>6. ASSUME NEW s \in Slots, Bans!ReadBan(s) PROVE StoredBans'
    BY <1>6 DEF Bans!ReadBan, Bans!Goto, Bans!Active
<1>7. ASSUME NEW s \in Slots, Bans!LookForPending(s) PROVE StoredBans'
    BY <1>7 DEF Bans!LookForPending, Bans!Done, Bans!Goto, Bans!Keep
<1>8. ASSUME NEW s \in Slots, Bans!InsertAppeal(s) PROVE StoredBans'
    BY <1>8 DEF Bans!InsertAppeal, Bans!Done, Bans!Goto
<1>9. ASSUME NEW s \in Slots, Bans!ReadAppeal(s) PROVE StoredBans'
    BY <1>9 DEF Bans!ReadAppeal, Bans!Goto
<1>10. ASSUME NEW s \in Slots, Bans!Decide(s) PROVE StoredBans'
    BY <1>10 DEF Bans!Decide, Bans!Done, Bans!Goto, Bans!Keep
<1>11. ASSUME NEW s \in Slots, Bans!LiftAccount(s) PROVE StoredBans'
    BY <1>11 DEF Bans!LiftAccount, Bans!Goto, Bans!Keep
<1>12. ASSUME NEW s \in Slots, Bans!CloseBan(s) PROVE StoredBans'
    BY <1>12 DEF Bans!CloseBan, Bans!Goto, Bans!Keep
<1>13. ASSUME NEW s \in Slots, Bans!Delist(s) PROVE StoredBans'
    BY <1>13 DEF Bans!Delist, Bans!Done, Bans!Goto
<1>14. ASSUME NEW s \in Slots, Bans!Fail(s) PROVE StoredBans'
    BY <1>14 DEF Bans!Fail, Bans!Done, Bans!Goto, Bans!tables
<1>15. CASE UNCHANGED banVars
    BY <1>15 DEF banVars
<1> QED BY <1>1, <1>2, <1>3, <1>4, <1>5, <1>6, <1>7, <1>8, <1>9, <1>10, <1>11, <1>12, <1>13,
           <1>14, <1>15 DEF Bans!Next

\* The account is banned before its ban is written, and reopened before the
\* ban is cancelled; only a failure can leave it banned without one.
LEMMA BannedStep == ASSUME ModerationInv, [Bans!Next]_banVars PROVE BannedKeepsBan'
<1> USE BansAssumption DEF ModerationInv, Bans!TypeOK, FreshBans, StoredBans,
BannedKeepsBan, Doomed, Writing, DecidingAppeal
<1>1. ASSUME NEW s \in Slots, NEW plus \in BOOLEAN, Bans!BanAccount(s,
plus) PROVE BannedKeepsBan'
    BY <1>1 DEF Bans!BanAccount, Bans!Goto
<1>2. ASSUME NEW s \in Slots, Bans!CancelOthers(s) PROVE BannedKeepsBan'
    BY <1>2 DEF Bans!CancelOthers, Bans!Goto, Bans!Keep, Bans!WithoutActive
<1>3. ASSUME NEW s \in Slots, Bans!InsertBan(s) PROVE BannedKeepsBan'
    BY <1>3 DEF Bans!InsertBan, Bans!Done, Bans!Goto, Bans!Keep
<1>4. ASSUME NEW s \in Slots, Bans!ListEmail(s) PROVE BannedKeepsBan'
    BY <1>4 DEF Bans!ListEmail, Bans!Done, Bans!Goto
<1>5. ASSUME NEW s \in Slots, Bans!RemoveFromList(s) PROVE BannedKeepsBan'
    BY <1>5 DEF Bans!RemoveFromList, Bans!WithoutActive
<1>6. ASSUME NEW s \in Slots, Bans!ReadBan(s) PROVE BannedKeepsBan'
    BY <1>6 DEF Bans!ReadBan, Bans!Goto, Bans!Active
<1>7. ASSUME NEW s \in Slots, Bans!LookForPending(s) PROVE BannedKeepsBan'
    BY <1>7 DEF Bans!LookForPending, Bans!Done, Bans!Goto, Bans!Keep
<1>8. ASSUME NEW s \in Slots, Bans!InsertAppeal(s) PROVE BannedKeepsBan'
    BY <1>8 DEF Bans!InsertAppeal, Bans!Done, Bans!Goto
<1>9. ASSUME NEW s \in Slots, Bans!ReadAppeal(s) PROVE BannedKeepsBan'
    BY <1>9 DEF Bans!ReadAppeal, Bans!Goto
<1>10. ASSUME NEW s \in Slots, Bans!Decide(s) PROVE BannedKeepsBan'
    BY <1>10 DEF Bans!Decide, Bans!Done, Bans!Goto, Bans!Keep
<1>11. ASSUME NEW s \in Slots, Bans!LiftAccount(s) PROVE BannedKeepsBan'
    BY <1>11 DEF Bans!LiftAccount, Bans!Goto, Bans!Keep
<1>12. ASSUME NEW s \in Slots, Bans!CloseBan(s) PROVE BannedKeepsBan'
    BY <1>12 DEF Bans!CloseBan, Bans!Goto, Bans!Keep
<1>13. ASSUME NEW s \in Slots, Bans!Delist(s) PROVE BannedKeepsBan'
    BY <1>13 DEF Bans!Delist, Bans!Done, Bans!Goto
<1>14. ASSUME NEW s \in Slots, Bans!Fail(s) PROVE BannedKeepsBan'
    BY <1>14 DEF Bans!Fail, Bans!Done, Bans!Goto, Bans!tables
<1>15. CASE UNCHANGED banVars
    BY <1>15 DEF banVars
<1> QED BY <1>1, <1>2, <1>3, <1>4, <1>5, <1>6, <1>7, <1>8, <1>9, <1>10, <1>11, <1>12, <1>13,
           <1>14, <1>15 DEF Bans!Next

\* Initially nothing is stored and nobody is banned.
LEMMA ModerationInit == Bans!Init => ModerationInv
<1> SUFFICES ASSUME Bans!Init PROVE ModerationInv
    OBVIOUS
<1>1. Bans!TypeOK
  <2>1. Bans!Unused \in [ban : BanIds \cup {NoBan},
                    status : {"none", "pending", "approved", "rejected"}]
      BY DEF Bans!Unused
  <2>2. "idle" \in Bans!Steps
      BY DEF Bans!Steps
  <2> QED BY <2>1, <2>2 DEF Bans!Init, Bans!TypeOK
<1>2. FreshBans
    BY DEF Bans!Init, FreshBans, Writing
<1>3. StoredBans
    BY DEF Bans!Init, StoredBans, Bans!Unused, DecidingAppeal
<1>4. BannedKeepsBan
    BY DEF Bans!Init, BannedKeepsBan
<1> QED BY <1>1, <1>2, <1>3, <1>4 DEF ModerationInv

\* The parts of the invariant together.
LEMMA ModerationStep == ASSUME ModerationInv, [Bans!Next]_banVars PROVE ModerationInv'
  BY BanTypeStep, FreshBanStep, StoredStep, BannedStep DEF ModerationInv

\* A step of any request leaves a decided appeal alone: the statement of a
\* review tests the status, and an appeal is inserted under a new id.
LEMMA DecidedStays ==
    ASSUME ModerationInv, Bans!Next,
           NEW a \in AppealIds, appeals[a].status \in {"approved", "rejected"}
    PROVE  appeals'[a] = appeals[a]
<1> USE DEF ModerationInv, Bans!TypeOK
<1>1. ASSUME NEW s \in Slots, Bans!InsertAppeal(s) PROVE appeals'[a] = appeals[a]
    BY <1>1 DEF Bans!InsertAppeal
<1>2. ASSUME NEW s \in Slots, Bans!Decide(s) PROVE appeals'[a] = appeals[a]
    BY <1>2 DEF Bans!Decide
<1>3. ASSUME UNCHANGED appeals PROVE appeals'[a] = appeals[a]
    BY <1>3
<1> QED BY <1>1, <1>2, <1>3 DEF Bans!Next, Bans!RemoveFromList, Bans!BanAccount,
           Bans!CancelOthers, Bans!InsertBan,
    Bans!ListEmail, Bans!ReadBan, Bans!LookForPending, Bans!ReadAppeal, Bans!LiftAccount,
    Bans!CloseBan, Bans!Delist, Bans!Fail, Bans!tables

\* The invariant in every reachable state.
THEOREM ModerationInvariant == AccountsSpec => []ModerationInv
<1>1. ModerationInv /\ [AccountsNext]_accountsVars => ModerationInv'
    BY ModerationStep, BansMove
<1>2. AccountsInit => ModerationInv
    BY ModerationInit DEF AccountsInit
<1> QED BY <1>1, <1>2, PTL DEF AccountsSpec

\* An account that is kept out has an active ban, and so a token to appeal with,
\* unless a ban is being written or a statement failed (createBan, reviewAppeal,
\* removeBlacklistedEmail).
THEOREM BannedCanAlwaysAppeal == AccountsSpec => []BannedCanAppeal
<1>1. ModerationInv => BannedCanAppeal
    BY DEF ModerationInv, BannedKeepsBan, BannedCanAppeal, Bans!BannedCanAppeal, Bans!Active,
       Bans!Banning, Writing
<1> QED BY ModerationInvariant, <1>1, PTL

\* A verdict on an appeal is never replaced, whichever reviews race
\* (the condition on the status in reviewAppeal).
THEOREM VerdictIsFinal == AccountsSpec => VerdictFinal
<1>1. ModerationInv /\ [AccountsNext]_accountsVars =>
        [\A a \in AppealIds : appeals[a].status \in {"approved", "rejected"} =>
            appeals'[a] = appeals[a]]_(Bans!vars)
    BY BansMove, DecidedStays DEF banVars, Bans!vars
<1> QED BY ModerationInvariant, <1>1, PTL DEF AccountsSpec, VerdictFinal, Bans!VerdictFinal

-----------------------------------------------------------------------------
\* How far concurrent requests can get past one another.

\* Two sets that shrink, and an element that passes from the second to the
\* first, keep a bound on what they count together.
LEMMA BoundKept ==
    ASSUME NEW A, NEW B, NEW A1, NEW B1, NEW x, NEW y,
           IsFiniteSet(A), IsFiniteSet(B),
           \/ A1 \subseteq A /\ B1 \subseteq B
           \/ A1 \subseteq A \cup {x} /\ y \in B /\ B1 \subseteq B \ {y}
    PROVE  Cardinality(A1) + Cardinality(B1) <= Cardinality(A) + Cardinality(B)
<1>1. Cardinality(A) \in Nat /\ Cardinality(B) \in Nat
    BY FS_CardinalityType
<1>2. CASE A1 \subseteq A /\ B1 \subseteq B
  <2>1. IsFiniteSet(A1) /\ IsFiniteSet(B1)
      BY <1>2, FS_Subset
  <2>2. Cardinality(A1) \in Nat /\ Cardinality(B1) \in Nat
      BY <2>1, FS_CardinalityType
  <2>3. Cardinality(A1) <= Cardinality(A) /\ Cardinality(B1) <= Cardinality(B)
      BY <1>2, FS_Subset
  <2> QED BY <1>1, <2>2, <2>3
<1>3. CASE A1 \subseteq A \cup {x} /\ y \in B /\ B1 \subseteq B \ {y}
  <2>1. /\ IsFiniteSet(A \cup {x})
        /\ \/ Cardinality(A \cup {x}) = Cardinality(A) + 1
           \/ Cardinality(A \cup {x}) = Cardinality(A)
      BY FS_AddElement
  <2>2. IsFiniteSet(B \ {y}) /\ Cardinality(B \ {y}) = Cardinality(B) - 1
      BY <1>3, FS_RemoveElement
  <2>3. IsFiniteSet(A1) /\ IsFiniteSet(B1)
      BY <1>3, <2>1, <2>2, FS_Subset
  <2>4. Cardinality(A1) \in Nat /\ Cardinality(B1) \in Nat
      BY <2>3, FS_CardinalityType
  <2>5. Cardinality(A1) <= Cardinality(A \cup {x}) /\ Cardinality(B1) <= Cardinality(B \ {y})
      BY <1>3, <2>1, <2>2, FS_Subset
  <2> QED BY <1>1, <2>1, <2>2, <2>4, <2>5
<1> QED BY <1>2, <1>3

\* Requests about to write a ban, and about to write an appeal against one.
InsertingBan == {s \in Slots : banStep[s] \in {"insert", "insert+"}}
Submitting(b) == {s \in Slots : banStep[s] = "submit" /\ ban[s] = b}

\* What was written by requests that did not see each other, and what those
\* still about to write will add.
RacesInv ==
    /\ Cardinality(Bans!Active) + Cardinality(InsertingBan) <= Cardinality(Slots)
    /\ \A b \in BanIds :
          Cardinality(Bans!Pending(b)) + Cardinality(Submitting(b)) <= Cardinality(Slots)

\* All these sets are finite, before and after a step.
LEMMA RacesFinite ==
    ASSUME NEW b
    PROVE  /\ IsFiniteSet(Bans!Active) /\ IsFiniteSet(InsertingBan)
           /\ IsFiniteSet(Bans!Pending(b)) /\ IsFiniteSet(Submitting(b))
           /\ Cardinality(Bans!Active) \in Nat /\ Cardinality(InsertingBan) \in Nat
           /\ Cardinality(Bans!Pending(b)) \in Nat /\ Cardinality(Submitting(b)) \in Nat
           /\ Cardinality(Bans!Active') \in Nat /\ Cardinality(InsertingBan') \in Nat
           /\ Cardinality(Bans!Pending(b)') \in Nat /\ Cardinality(Submitting(b)') \in Nat
           /\ Cardinality(InsertingBan') <= Cardinality(Slots)
           /\ Cardinality(Submitting(b)') <= Cardinality(Slots)
           /\ Cardinality(Slots) \in Nat
<1>1. /\ Bans!Active \in SUBSET BanIds /\ Bans!Active' \in SUBSET BanIds
      /\ InsertingBan \in SUBSET Slots /\ InsertingBan' \in SUBSET Slots
      /\ Bans!Pending(b) \in SUBSET AppealIds /\ Bans!Pending(b)' \in SUBSET AppealIds
      /\ Submitting(b) \in SUBSET Slots /\ Submitting(b)' \in SUBSET Slots
    BY DEF Bans!Active, InsertingBan, Bans!Pending, Submitting
<1>2. /\ IsFiniteSet(Bans!Active) /\ IsFiniteSet(Bans!Active')
      /\ IsFiniteSet(InsertingBan) /\ IsFiniteSet(InsertingBan')
      /\ IsFiniteSet(Bans!Pending(b)) /\ IsFiniteSet(Bans!Pending(b)')
      /\ IsFiniteSet(Submitting(b)) /\ IsFiniteSet(Submitting(b)')
    BY <1>1, BansAssumption, FS_Subset
<1>3. /\ Cardinality(InsertingBan') <= Cardinality(Slots)
      /\ Cardinality(Submitting(b)') <= Cardinality(Slots)
    BY <1>1, BansAssumption, FS_Subset
<1> QED BY <1>2, <1>3, BansAssumption, FS_CardinalityType

\* A ban is written by a request that cancelled the active ones before: those
\* that are active were written since, by the requests that did the same.
LEMMA ActiveStep ==
    ASSUME Bans!TypeOK, [Bans!Next]_banVars,
           Cardinality(Bans!Active) + Cardinality(InsertingBan) <= Cardinality(Slots)
    PROVE  Cardinality(Bans!Active') + Cardinality(InsertingBan') <= Cardinality(Slots)
<1> DEFINE Goal == \/ Bans!Active' = {}
                   \/ Bans!Active' \subseteq Bans!Active /\ InsertingBan' \subseteq InsertingBan
                   \/ \E x \in BanIds, y \in InsertingBan :
                         /\ Bans!Active' \subseteq Bans!Active \cup {x}
                         /\ InsertingBan' \subseteq InsertingBan \ {y}
<1>1. Goal
  <2> USE DEF Bans!TypeOK, Bans!Active, InsertingBan
  <2>1. ASSUME NEW s \in Slots,
  Bans!CancelOthers(s) \/ Bans!RemoveFromList(s) PROVE Bans!Active' = {}
      BY <2>1 DEF Bans!CancelOthers, Bans!RemoveFromList, Bans!WithoutActive
  <2>2. ASSUME NEW s \in Slots, Bans!InsertBan(s) PROVE Goal
    <3>1. s \in InsertingBan /\ InsertingBan' \subseteq InsertingBan \ {s}
        BY <2>2 DEF Bans!InsertBan, Bans!Done, Bans!Goto
    <3>2. CASE ban[s] \in BanIds
      <4>1. Bans!Active' \subseteq Bans!Active \cup {ban[s]}
          BY <2>2 DEF Bans!InsertBan
      <4> QED BY <3>1, <3>2, <4>1
    <3>3. CASE ban[s] \notin BanIds
      <4>1. Bans!Active' \subseteq Bans!Active
          BY <2>2, <3>3 DEF Bans!InsertBan
      <4> QED BY <3>1, <4>1
    <3> QED BY <3>2, <3>3
  <2>3. ASSUME NEW s \in Slots, Bans!CloseBan(s)
        PROVE  Bans!Active' \subseteq Bans!Active /\ InsertingBan' \subseteq InsertingBan
      BY <2>3 DEF Bans!CloseBan, Bans!Goto
  <2>4. ASSUME NEW s \in Slots, NEW plus \in BOOLEAN, Bans!BanAccount(s, plus)
        PROVE  Bans!Active' \subseteq Bans!Active /\ InsertingBan' \subseteq InsertingBan
      BY <2>4 DEF Bans!BanAccount, Bans!Goto
  <2>5. ASSUME NEW s \in Slots,
               \/ Bans!ListEmail(s) \/ Bans!ReadBan(s) \/ Bans!LookForPending(s) \/ Bans!InsertAppeal(s)
               \/ Bans!ReadAppeal(s) \/ Bans!Decide(s) \/ Bans!LiftAccount(s) \/ Bans!Delist(s) \/ Bans!Fail(s)
        PROVE  Bans!Active' \subseteq Bans!Active /\ InsertingBan' \subseteq InsertingBan
    <3>1. bans' = bans
        BY <2>5 DEF Bans!ListEmail, Bans!ReadBan, Bans!LookForPending, Bans!InsertAppeal,
           Bans!ReadAppeal, Bans!Decide,
                    Bans!LiftAccount, Bans!Delist, Bans!Fail, Bans!tables
    <3>2. \E step \in Bans!Steps : step \notin {"insert", "insert+"} /\ Bans!Goto(s, step)
        BY <2>5 DEF Bans!ListEmail, Bans!ReadBan, Bans!LookForPending, Bans!InsertAppeal,
           Bans!ReadAppeal, Bans!Decide,
                    Bans!LiftAccount, Bans!Delist, Bans!Fail, Bans!Done, Bans!Steps
    <3> QED BY <3>1, <3>2 DEF Bans!Goto
  <2>6. CASE UNCHANGED banVars
      BY <2>6 DEF banVars
  <2> QED BY <2>1, <2>2, <2>3, <2>4, <2>5, <2>6 DEF Bans!Next
<1>2. /\ IsFiniteSet(Bans!Active) /\ IsFiniteSet(InsertingBan)
      /\ Cardinality(Bans!Active) \in Nat /\ Cardinality(InsertingBan) \in Nat
      /\ Cardinality(Bans!Active') \in Nat /\ Cardinality(InsertingBan') \in Nat
      /\ Cardinality(InsertingBan') <= Cardinality(Slots) /\ Cardinality(Slots) \in Nat
    BY RacesFinite
<1>3. CASE Bans!Active' = {}
  <2>1. Cardinality(Bans!Active') = 0
      BY <1>3, FS_EmptySet
  <2> QED BY <1>2, <2>1
<1>4. CASE Bans!Active' # {}
  <2>1. Cardinality(Bans!Active') + Cardinality(InsertingBan')
            <= Cardinality(Bans!Active) + Cardinality(InsertingBan)
      BY <1>1, <1>2, <1>4, BoundKept
  <2> QED BY <1>2, <2>1
<1> QED BY <1>3, <1>4

\* An appeal is written by a request that saw none pending on its ban: those
\* that are pending were written since, by the requests that did the same.
LEMMA PendingStep ==
    ASSUME Bans!TypeOK, [Bans!Next]_banVars, NEW b \in BanIds,
           Cardinality(Bans!Pending(b)) + Cardinality(Submitting(b)) <= Cardinality(Slots)
    PROVE  Cardinality(Bans!Pending(b)') + Cardinality(Submitting(b)') <= Cardinality(Slots)
<1> DEFINE Goal == \/ Bans!Pending(b)' = {}
                   \/ Bans!Pending(b)' \subseteq Bans!Pending(b) /\ Submitting(b)' \subseteq Submitting(b)
                   \/ \E x \in AppealIds, y \in Submitting(b) :
                         /\ Bans!Pending(b)' \subseteq Bans!Pending(b) \cup {x}
                         /\ Submitting(b)' \subseteq Submitting(b) \ {y}
<1>1. Goal
  <2> USE DEF Bans!TypeOK, Bans!Pending, Submitting
  <2>1. ASSUME NEW s \in Slots, Bans!LookForPending(s) PROVE Goal
    <3>1. Bans!Pending(b)' = Bans!Pending(b)
        BY <2>1 DEF Bans!LookForPending
    <3>2. CASE Bans!Pending(b) = {}
        BY <3>1, <3>2
    <3>3. CASE Bans!Pending(b) # {}
      <4>1. CASE Bans!Done(s)
          BY <3>1, <4>1 DEF Bans!Done, Bans!Goto
      <4>2. CASE Bans!Goto(s, "submit") /\ Bans!Keep /\ ban[s] # b
          BY <3>1, <4>2 DEF Bans!Goto, Bans!Keep
      <4> QED BY <2>1, <3>3, <4>1, <4>2 DEF Bans!LookForPending
    <3> QED BY <3>2, <3>3
  <2>2. ASSUME NEW s \in Slots, Bans!InsertAppeal(s) PROVE Goal
    <3>1. PICK a \in AppealIds :
              /\ appeals[a].status = "none"
              /\ appeals' = [appeals EXCEPT ![a] = [ban |-> ban[s], status |-> "pending"]]
        BY <2>2 DEF Bans!InsertAppeal
    <3>2. Submitting(b)' \subseteq Submitting(b) \ {s}
        BY <2>2 DEF Bans!InsertAppeal, Bans!Done, Bans!Goto
    <3>3. CASE ban[s] = b
      <4>1. s \in Submitting(b)
          BY <2>2, <3>3 DEF Bans!InsertAppeal
      <4>2. Bans!Pending(b)' \subseteq Bans!Pending(b) \cup {a}
          BY <3>1
      <4> QED BY <3>2, <4>1, <4>2
    <3>4. CASE ban[s] # b
      <4>1. [ban |-> ban[s], status |-> "pending"] # [ban |-> b, status |-> "pending"]
          BY <3>4
      <4>2. Bans!Pending(b)' \subseteq Bans!Pending(b)
          BY <3>1, <4>1
      <4> QED BY <3>2, <4>2
    <3> QED BY <3>3, <3>4
  <2>3. ASSUME NEW s \in Slots, Bans!Decide(s) PROVE Goal
    <3>1. Submitting(b)' \subseteq Submitting(b)
        BY <2>3 DEF Bans!Decide, Bans!Done, Bans!Goto, Bans!Keep
    <3>2. ASSUME NEW a \in Bans!Pending(b)' PROVE a \in Bans!Pending(b)
      <4>1. CASE appeals'[a] = appeals[a]
          BY <3>2, <4>1
      <4>2. CASE appeals'[a] # appeals[a]
        <5>1. a = appeal[s] /\ appeals' = [appeals EXCEPT ![a].status = verdict[s]]
            BY <2>3, <4>2 DEF Bans!Decide
        <5>2. appeals[a] \in [ban : BanIds \cup {NoBan}, status : {"none", "pending",
        "approved", "rejected"}]
            BY <3>2
        <5>3. appeals'[a].status = verdict[s] /\ appeals'[a].status = "pending"
            BY <3>2, <5>1, <5>2
        <5> QED BY <5>3
      <4> QED BY <4>1, <4>2
    <3> QED BY <3>1, <3>2
  <2>4. ASSUME NEW s \in Slots, NEW plus \in BOOLEAN, Bans!BanAccount(s, plus) PROVE Goal
      BY <2>4 DEF Bans!BanAccount, Bans!Goto
  <2>5. ASSUME NEW s \in Slots, Bans!RemoveFromList(s) PROVE Goal
      BY <2>5 DEF Bans!RemoveFromList
  <2>6. ASSUME NEW s \in Slots,
  Bans!CancelOthers(s) \/ Bans!InsertBan(s) \/ Bans!ListEmail(s) PROVE Goal
      BY <2>6 DEF Bans!CancelOthers, Bans!InsertBan, Bans!ListEmail, Bans!Done, Bans!Goto,
         Bans!Keep
  <2>7. ASSUME NEW s \in Slots, Bans!ReadBan(s) \/ Bans!ReadAppeal(s) PROVE Goal
      BY <2>7 DEF Bans!ReadBan, Bans!ReadAppeal, Bans!Goto
  <2>8. ASSUME NEW s \in Slots,
  Bans!LiftAccount(s) \/ Bans!CloseBan(s) \/ Bans!Delist(s) PROVE Goal
      BY <2>8 DEF Bans!LiftAccount, Bans!CloseBan, Bans!Delist, Bans!Done, Bans!Goto, Bans!Keep
  <2>9. ASSUME NEW s \in Slots, Bans!Fail(s) PROVE Goal
      BY <2>9 DEF Bans!Fail, Bans!Done, Bans!Goto, Bans!tables
  <2>10. CASE UNCHANGED banVars
      BY <2>10 DEF banVars
  <2> QED BY <2>1, <2>2, <2>3, <2>4, <2>5, <2>6, <2>7, <2>8, <2>9, <2>10 DEF Bans!Next
<1>2. /\ IsFiniteSet(Bans!Pending(b)) /\ IsFiniteSet(Submitting(b))
      /\ Cardinality(Bans!Pending(b)) \in Nat /\ Cardinality(Submitting(b)) \in Nat
      /\ Cardinality(Bans!Pending(b)') \in Nat /\ Cardinality(Submitting(b)') \in Nat
      /\ Cardinality(Submitting(b)') <= Cardinality(Slots) /\ Cardinality(Slots) \in Nat
    BY RacesFinite
<1>3. CASE Bans!Pending(b)' = {}
  <2>1. Cardinality(Bans!Pending(b)') = 0
      BY <1>3, FS_EmptySet
  <2> QED BY <1>2, <2>1
<1>4. CASE Bans!Pending(b)' # {}
  <2>1. Cardinality(Bans!Pending(b)') + Cardinality(Submitting(b)')
            <= Cardinality(Bans!Pending(b)) + Cardinality(Submitting(b))
      BY <1>1, <1>2, <1>4, BoundKept
  <2> QED BY <1>2, <2>1
<1> QED BY <1>3, <1>4

\* Bans and appeals written by requests that did not see each other are never
\* more than the requests there can be at once (createBan, submitAppeal).
THEOREM RacesAreBounded == AccountsSpec => []RacesBounded
<1>1. AccountsInit => RacesInv
  <2> SUFFICES ASSUME AccountsInit PROVE RacesInv
      OBVIOUS
  <2>1. Bans!Active = {} /\ InsertingBan = {}
      BY DEF AccountsInit, Bans!Init, Bans!Active, InsertingBan
  <2>2. ASSUME NEW b \in BanIds PROVE Bans!Pending(b) = {} /\ Submitting(b) = {}
      BY DEF AccountsInit, Bans!Init, Bans!Pending, Bans!Unused, Submitting
  <2>3. Cardinality({}) = 0 /\ Cardinality(Slots) \in Nat
      BY BansAssumption, FS_CardinalityType, FS_EmptySet
  <2> QED BY <2>1, <2>2, <2>3 DEF RacesInv
<1>2. ModerationInv /\ RacesInv /\ [AccountsNext]_accountsVars => RacesInv'
    BY BansMove, ActiveStep, PendingStep DEF ModerationInv, RacesInv
<1>3. RacesInv => RacesBounded
  <2> SUFFICES ASSUME RacesInv PROVE RacesBounded
      OBVIOUS
  <2>1. Cardinality(Bans!Active) <= Cardinality(Slots)
    <3>1. /\ Cardinality(Bans!Active) \in Nat /\ Cardinality(InsertingBan) \in Nat
          /\ Cardinality(Slots) \in Nat
        BY RacesFinite
    <3> QED BY <3>1 DEF RacesInv
  <2>2. ASSUME NEW b \in BanIds PROVE Cardinality(Bans!Pending(b)) <= Cardinality(Slots)
    <3>1. /\ Cardinality(Bans!Pending(b)) \in Nat /\ Cardinality(Submitting(b)) \in Nat
          /\ Cardinality(Slots) \in Nat
        BY RacesFinite
    <3> QED BY <3>1 DEF RacesInv
  <2> QED BY <2>1, <2>2, BansCardinality DEF RacesBounded, Bans!RacesBounded
<1> QED BY ModerationInvariant, <1>1, <1>2, <1>3, PTL DEF AccountsSpec

-----------------------------------------------------------------------------
(* Types.                                                                  *)

\* The assumption on the seconds of the desk.
LEMMA DeskSeconds == MaxSecond \in Nat /\ NoTicket \notin TicketIds
  BY AccountsAssumption DEF Desk!SupportAssumption

\* The requests of the feedback desk keep the types (support/routes.js).
LEMMA DeskTypeStep == ASSUME Desk!TypeOK, [Desk!Next]_deskVars PROVE Desk!TypeOK'
<1> USE DeskSeconds DEF Desk!TypeOK
<1>1. ASSUME NEW s \in Slots, Desk!ReadUser(s) PROVE Desk!TypeOK'
    BY <1>1 DEF Desk!ReadUser, Desk!Goto
<1>2. ASSUME NEW s \in Slots, Desk!InsertTicket(s) PROVE Desk!TypeOK'
  <2>1. lateTops' \in Nat
      BY <1>2 DEF Desk!InsertTicket
  <2>2. PICK t \in TicketIds : feedback' = [feedback EXCEPT ![t].status = "pending"]
      BY <1>2 DEF Desk!InsertTicket
  <2>3. [feedback[t] EXCEPT !.status = "pending"] \in
            [status : {"none", "pending", "processed", "gone"}, at : 0..MaxSecond]
      OBVIOUS
  <2>4. feedback' \in [TicketIds -> [status : {"none", "pending", "processed", "gone"},
                                     at : 0..MaxSecond]]
      BY <2>2, <2>3
  <2> QED BY <1>2, <2>1, <2>4 DEF Desk!InsertTicket, Desk!Goto
<1>3. ASSUME NEW s \in Slots, Desk!Process(s) PROVE Desk!TypeOK'
    BY <1>3 DEF Desk!Process, Desk!Goto
<1>4. ASSUME NEW s \in Slots, Desk!Trim(s) PROVE Desk!TypeOK'
    BY <1>4 DEF Desk!Trim, Desk!Goto
<1>5. ASSUME NEW s \in Slots, Desk!Fail(s) PROVE Desk!TypeOK'
    BY <1>5 DEF Desk!Fail, Desk!Goto
<1>6. CASE Desk!ChangePlan
    BY <1>6 DEF Desk!ChangePlan
<1>7. CASE Desk!Tick
    BY <1>7 DEF Desk!Tick
<1>8. CASE UNCHANGED deskVars
    BY <1>8 DEF deskVars
<1> QED BY <1>1, <1>2, <1>3, <1>4, <1>5, <1>6, <1>7, <1>8 DEF Desk!Next

\* What the invariant of the deletion leaves out of its types.
RemovalRest ==
    /\ key \in {"none", "live", "deleted"}
    /\ started \in Nat
    /\ byKey \in [Slots -> BOOLEAN]

\* Requests are counted as they start, a key is deleted with its account, and a
\* slot remembers its credential until its request is over (admin/database.js).
LEMMA RemovalRestStep ==
    ASSUME RemovalRest, [Removal!Next]_removalVars PROVE RemovalRest'
<1> USE DEF RemovalRest
<1>1. ASSUME NEW s \in Slots, UNCHANGED key,
             started' = started \/ started' = started + 1,
             \/ byKey' = byKey
             \/ byKey' = [byKey EXCEPT ![s] = TRUE]
             \/ byKey' = [byKey EXCEPT ![s] = FALSE]
      PROVE  RemovalRest'
  <2>1. byKey' \in [Slots -> BOOLEAN]
    <3>1. TRUE \in BOOLEAN /\ FALSE \in BOOLEAN
        OBVIOUS
    <3> QED BY <1>1, <3>1, Zenon
  <2>2. started' \in Nat
      BY <1>1
  <2> QED BY <1>1, <2>1, <2>2
<1>2. ASSUME NEW s \in Slots,
             \/ Removal!Authenticate(s) \/ Removal!ReadForBan(s)
             \/ Removal!ReadForSession(s) \/ Removal!ReadForRemoval(s)
      PROVE  RemovalRest'
    BY <1>1, <1>2 DEF Removal!Authenticate, Removal!ReadForBan, Removal!ReadForSession,
                      Removal!ReadForRemoval, Removal!Start
<1>3. ASSUME NEW s \in Slots, Removal!CheckUser(s) PROVE RemovalRest'
    BY <1>1, <1>3 DEF Removal!CheckUser, Removal!Serve, Removal!Done
<1>4. ASSUME NEW s \in Slots, NEW w \in pending[s],
             Removal!WriteLedger(s, w) \/ Removal!WriteFails(s, w)
      PROVE  RemovalRest'
    BY <1>1, <1>4 DEF Removal!WriteLedger, Removal!WriteFails, Removal!Settle, Removal!Done
<1>5. ASSUME NEW s \in Slots,
             Removal!InsertBan(s) \/ Removal!OpenSession(s) \/ Removal!Fail(s)
      PROVE  RemovalRest'
    BY <1>1, <1>5 DEF Removal!InsertBan, Removal!OpenSession, Removal!Fail, Removal!Done
<1>6. ASSUME NEW s \in Slots, Removal!Remove(s) PROVE RemovalRest'
  <2>1. byKey' = [byKey EXCEPT ![s] = FALSE] /\ UNCHANGED started
      BY <1>6 DEF Removal!Remove, Removal!Done
  <2>2. byKey' \in [Slots -> BOOLEAN]
    <3>1. FALSE \in BOOLEAN
        OBVIOUS
    <3> QED BY <2>1, <3>1, Zenon
  <2>3. key' \in {"none", "live", "deleted"}
      BY <1>6 DEF Removal!Remove
  <2> QED BY <2>1, <2>2, <2>3
<1>7. CASE Removal!CreateKey \/ Removal!DeleteKey \/ Removal!ChangeRole
  <2>1. key' \in {"none", "live", "deleted"}
      BY <1>7 DEF Removal!CreateKey, Removal!DeleteKey, Removal!ChangeRole
  <2>2. UNCHANGED <<started, byKey>>
      BY <1>7 DEF Removal!CreateKey, Removal!DeleteKey, Removal!ChangeRole, Removal!locals
  <2> QED BY <2>1, <2>2
<1>8. CASE UNCHANGED removalVars
    BY <1>8 DEF removalVars
<1> QED BY <1>2, <1>3, <1>4, <1>5, <1>6, <1>7, <1>8 DEF Removal!Next

\* The four machines of the module, each among its own writers, keep the types
\* of their tables and of the locals of their requests.
THEOREM AccountsTypeCorrect == AccountsSpec => []AccountsTypeOK
<1> DEFINE Typed == WellFormed /\ Desk!TypeOK /\ RemovalInv /\ RemovalRest
<1>1. AccountsInit => Typed
  <2> SUFFICES ASSUME AccountsInit PROVE Typed
      OBVIOUS
  <2>1. WellFormed
      BY FormInit DEF AccountsInit
  <2>2. Desk!TypeOK
    <3>1. Desk!Unused \in [status : {"none", "pending", "processed", "gone"}, at : 0..MaxSecond]
        BY DeskSeconds DEF Desk!Unused
    <3>2. pro \in BOOLEAN
        BY DEF AccountsInit, Desk!Init
    <3> QED BY <3>1, <3>2, DeskSeconds DEF AccountsInit, Desk!Init, Desk!TypeOK
  <2>3. RemovalInv
      BY RemovalStart
  <2>4. RemovalRest
    <3>1. byKey \in [Slots -> BOOLEAN]
      <4>1. FALSE \in BOOLEAN /\ byKey = [s \in Slots |-> FALSE]
          BY DEF AccountsInit, Removal!Init
      <4> QED BY <4>1, Zenon
    <3> QED BY <3>1 DEF AccountsInit, Removal!Init, RemovalRest
  <2> QED BY <2>1, <2>2, <2>3, <2>4
<1>2. Typed /\ [AccountsNext]_accountsVars => Typed'
  <2>1. [AccountsNext]_accountsVars
          => [Next]_vars /\ [Removal!Next]_removalVars /\ [Desk!Next]_deskVars
      BY DEF AccountsNext, accountsVars
  <2> QED BY <2>1, FormStep, RemovalStep, RemovalRestStep, DeskTypeStep
<1>3. Typed /\ ModerationInv => AccountsTypeOK
    BY DEF WellFormed, ModerationInv, RemovalInv, RemovalShape, RemovalRest, Removal!TypeOK,
           AccountsTypeOK
<1> QED BY ModerationInvariant, <1>1, <1>2, <1>3, PTL DEF AccountsSpec

=============================================================================
