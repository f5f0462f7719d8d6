---------------------------- MODULE Contributions ----------------------------
(***************************************************************************)
(* Contribution tickets of one address (contributions/service.js) and the  *)
(* other writers of the membership they award: the edits of the            *)
(* administration, the creation and the deletion of the account.  The user *)
(* submits and administrators review in Slots, one statement per step.  An *)
(* account made again for the address has a new id.                        *)
(***************************************************************************)
EXTENDS Naturals, FiniteSets

CONSTANTS
    Slots,      \* concurrent requests
    TicketIds,  \* bound: tickets ever submitted
    MaxUsers,   \* bound: accounts ever made for the address
    Awards,     \* memberships a review can award: a plan and its end
    Plans,      \* values of users.membership_type
    Never,      \* no end: membership_expires_at is NULL
    NoTicket    \* a slot that reviews no ticket

Ends == {w.until : w \in Awards} \cup {Never}

ASSUME ContributionsAssumption ==
    /\ IsFiniteSet(Slots) /\ IsFiniteSet(TicketIds)
    /\ NoTicket \notin TicketIds
    /\ MaxUsers \in Nat
    /\ \A w \in Awards : w = [plan |-> w.plan, until |-> w.until] /\ w.plan \in Plans

VARIABLES
    user,       \* the row of users: id, whether it exists, plan, until
    tickets,    \* contribution_tickets: status and award
    pc,         \* where the request of a slot stands
    owner,      \* the account a slot acts for
    ticket,     \* the ticket a slot reviews
    decision,   \* the verdict of that review
    award,      \* the membership a review awards
    author,     \* history: the ticket the membership of the row came from
    granted,    \* history: tickets whose award was written
    contested,  \* history: tickets two reviews read while they were pending
    failed      \* history: tickets whose review stopped before its grant

history == <<author, granted, contested, failed>>
locals == <<owner, ticket, decision, award>>
vars == <<user, tickets, pc, locals, history>>

Nothing == [plan |-> "free", until |-> Never]
Unused == [status |-> "none", award |-> Nothing]

Init ==
    /\ user = [id |-> 1, exists |-> TRUE, plan |-> "free", until |-> Never]
    /\ tickets = [t \in TicketIds |-> Unused]
    /\ pc = [s \in Slots |-> "idle"]
    /\ owner = [s \in Slots |-> 0]
    /\ ticket = [s \in Slots |-> NoTicket]
    /\ decision = [s \in Slots |-> "rejected"]
    /\ award = [s \in Slots |-> Nothing]
    /\ author = NoTicket
    /\ granted = {} /\ contested = {} /\ failed = {}

Goto(s, step) == pc' = [pc EXCEPT ![s] = step]

Done(s) ==
    /\ Goto(s, "idle")
    /\ owner' = [owner EXCEPT ![s] = 0]
    /\ ticket' = [ticket EXCEPT ![s] = NoTicket]
    /\ decision' = [decision EXCEPT ![s] = "rejected"]
    /\ award' = [award EXCEPT ![s] = Nothing]

Pending == {t \in TicketIds : tickets[t].status = "pending"}
Reviewing(t) == {s \in Slots : ticket[s] = t}

-----------------------------------------------------------------------------
(* createContribution.  A banned user and a malformed form are refused.    *)

ReadUser(s) ==
    /\ pc[s] = "idle" /\ user.exists
    /\ owner' = [owner EXCEPT ![s] = user.id]
    /\ Goto(s, "look")
    /\ UNCHANGED <<user, tickets, ticket, decision, award, history>>

\* Mutant of LookForPending: an open ticket does not stop the next.
LookForNothing(s) ==
    /\ pc[s] = "look"
    /\ Goto(s, "insert")
    /\ UNCHANGED <<user, tickets, locals, history>>

LookForPending(s) ==
    /\ pc[s] = "look"
    /\ IF Pending # {} /\ owner[s] = user.id
       THEN Done(s)
       ELSE Goto(s, "insert") /\ UNCHANGED locals
    /\ UNCHANGED <<user, tickets, history>>

\* The foreign key refuses the ticket of an account that is gone.
InsertTicket(s) ==
    /\ pc[s] = "insert"
    /\ IF user.exists /\ owner[s] = user.id
       THEN \E t \in TicketIds :
               /\ tickets[t].status = "none"
               /\ tickets' = [tickets EXCEPT ![t].status = "pending"]
       ELSE UNCHANGED tickets
    /\ Done(s)
    /\ UNCHANGED <<user, history>>

-----------------------------------------------------------------------------
(* reviewContribution: read the ticket, decide it, write the membership.   *)

ReadTicket(s) ==
    /\ pc[s] = "idle"
    /\ \E t \in Pending, d \in {"approved", "rejected"}, w \in Awards :
          /\ ticket' = [ticket EXCEPT ![s] = t]
          /\ decision' = [decision EXCEPT ![s] = d]
          /\ award' = [award EXCEPT ![s] = IF d = "approved" THEN w ELSE Nothing]
          /\ contested' = IF Reviewing(t) = {} THEN contested ELSE contested \cup {t}
    /\ owner' = [owner EXCEPT ![s] = user.id]
    /\ Goto(s, "decide")
    /\ UNCHANGED <<user, tickets, author, granted, failed>>

\* A ticket no longer pending keeps its verdict; an approval goes on all the same.
Decide(s) ==
    LET t == ticket[s] IN
    /\ pc[s] = "decide"
    /\ tickets' = IF tickets[t].status = "pending"
                  THEN [tickets EXCEPT ![t] = [status |-> decision[s], award |-> award[s]]]
                  ELSE tickets
    /\ IF decision[s] = "approved" THEN Goto(s, "grant") /\ UNCHANGED locals ELSE Done(s)
    /\ UNCHANGED <<user, history>>

\* Mutant of Grant: a plan is given without its end.
GrantPlanOnly(s) ==
    /\ pc[s] = "grant"
    /\ user' = [user EXCEPT !.plan = award[s].plan]
    /\ author' = ticket[s]
    /\ granted' = granted \cup {ticket[s]}
    /\ Done(s)
    /\ UNCHANGED <<tickets, contested, failed>>

Grant(s) ==
    /\ pc[s] = "grant"
    /\ IF user.exists /\ owner[s] = user.id
       THEN /\ user' = [user EXCEPT !.plan = award[s].plan, !.until = award[s].until]
            /\ author' = ticket[s]
       ELSE UNCHANGED <<user, author>>
    /\ granted' = granted \cup {ticket[s]}
    /\ Done(s)
    /\ UNCHANGED <<tickets, contested, failed>>

\* A statement fails or the worker is lost: the statements before it stay.
Fail(s) ==
    /\ pc[s] # "idle"
    /\ failed' = IF pc[s] = "grant" THEN failed \cup {ticket[s]} ELSE failed
    /\ Done(s)
    /\ UNCHANGED <<user, tickets, author, granted, contested>>

-----------------------------------------------------------------------------
(* The administration.  updateUser writes the fields it was given.         *)

EditPlan ==
    /\ user.exists
    /\ \E p \in Plans : user' = [user EXCEPT !.plan = p]
    /\ author' = NoTicket
    /\ UNCHANGED <<tickets, pc, locals, granted, contested, failed>>

EditExpiry ==
    /\ user.exists
    /\ \E e \in Ends : user' = [user EXCEPT !.until = e]
    /\ author' = NoTicket
    /\ UNCHANGED <<tickets, pc, locals, granted, contested, failed>>

\* createUser; the membership starts without an end.
CreateUser ==
    /\ ~user.exists /\ user.id < MaxUsers
    /\ \E p \in Plans :
          user' = [id |-> user.id + 1, exists |-> TRUE, plan |-> p, until |-> Never]
    /\ author' = NoTicket
    /\ UNCHANGED <<tickets, pc, locals, granted, contested, failed>>

\* deleteUserAccount; the tickets go with the row they refer to.  The last
\* account of the bound stays.
Delete ==
    /\ user.exists /\ user.id < MaxUsers
    /\ user' = [user EXCEPT !.exists = FALSE]
    /\ tickets' = [t \in TicketIds |->
                      IF tickets[t].status = "none" THEN Unused
                      ELSE [status |-> "gone", award |-> Nothing]]
    /\ author' = NoTicket
    /\ UNCHANGED <<pc, locals, granted, contested, failed>>

Next ==
    \/ \E s \in Slots :
          \/ ReadUser(s) \/ LookForPending(s) \/ InsertTicket(s)
          \/ ReadTicket(s) \/ Decide(s) \/ Grant(s) \/ Fail(s)
    \/ EditPlan \/ EditExpiry \/ CreateUser \/ Delete

Spec == Init /\ [][Next]_vars

-----------------------------------------------------------------------------
(* Properties.                                                             *)

Statuses == {"none", "pending", "approved", "rejected", "gone"}
Memberships == [plan : Plans \cup {"free"}, until : Ends]

\* The rows and the locals of the slots keep their type.
TypeOK ==
    /\ user \in [id : Nat, exists : BOOLEAN, plan : Plans \cup {"free"}, until : Ends]
    /\ tickets \in [TicketIds -> [status : Statuses, award : Memberships]]
    /\ pc \in [Slots -> {"idle", "look", "insert", "decide", "grant"}]
    /\ owner \in [Slots -> Nat]
    /\ ticket \in [Slots -> TicketIds \cup {NoTicket}]
    /\ decision \in [Slots -> {"approved", "rejected"}]
    /\ award \in [Slots -> Memberships]
    /\ author \in TicketIds \cup {NoTicket}
    /\ granted \subseteq TicketIds
    /\ contested \subseteq TicketIds
    /\ failed \subseteq TicketIds

\* The verdict of a ticket and the membership of its author agree.  Once its
\* review is over, a ticket is approved exactly when its award was written, and
\* a membership that came from a ticket is the whole award of an approved one.
\* Only a review that raced another of the same ticket, or that stopped before
\* its grant, can leave them apart (reviewContribution in contributions/service.js).
AwardInForce ==
    \A t \in TicketIds :
        /\ tickets[t].status \notin {"none", "gone"}
        /\ Reviewing(t) = {}
        /\ t \notin contested \cup failed
        => /\ tickets[t].status = "approved" <=> t \in granted
           /\ author = t => /\ tickets[t].status = "approved"
                            /\ user.plan = tickets[t].award.plan
                            /\ user.until = tickets[t].award.until

\* A user is to have one pending ticket; requests that look before any of them
\* inserts get past that, but the user never has more than there were requests
\* at once (createContribution in contributions/service.js).
PendingBounded == Cardinality(Pending) <= Cardinality(Slots)

=============================================================================
