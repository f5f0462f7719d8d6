--------------------------- MODULE SupportTickets ---------------------------
(***************************************************************************)
(* Feedback tickets (support/routes.js and the ticket handlers of          *)
(* admin/routes.js).  One user, whose plan changes under him, files        *)
(* tickets; administrators process them.  A processed ticket joins an      *)
(* archive that the same handler trims to its newest ArchiveSize tickets.  *)
(***************************************************************************)
EXTENDS Naturals, FiniteSets

CONSTANTS
    Slots,       \* concurrent requests
    TicketIds,   \* bound: tickets ever filed
    ArchiveSize, \* size of the archive
    MaxNow,      \* bound: the last second of CURRENT_TIMESTAMP
    NoTicket     \* a slot that processes no ticket

SupportAssumption ==
    /\ IsFiniteSet(Slots) /\ IsFiniteSet(TicketIds)
    /\ ArchiveSize \in Nat \ {0} /\ MaxNow \in Nat
    /\ NoTicket \notin TicketIds

VARIABLES
    pro,       \* the effective plan of the user is Pro
    tickets,   \* feedback_tickets: status and second of processing
    now,       \* the second
    pc,        \* where the request of a slot stands
    ticket,    \* the ticket a slot processes
    lost,      \* history: trims that failed since the last one
    lateTops   \* history: top tickets filed since the plan was lost

vars == <<pro, tickets, now, pc, ticket, lost, lateTops>>

Unused == [status |-> "none", at |-> 0]

Init ==
    /\ pro = FALSE
    /\ tickets = [t \in TicketIds |-> Unused]
    /\ now = 0
    /\ pc = [s \in Slots |-> "idle"]
    /\ ticket = [s \in Slots |-> NoTicket]
    /\ lost = 0 /\ lateTops = 0

Goto(s, step) == pc' = [pc EXCEPT ![s] = step]
InStep(step) == {s \in Slots : pc[s] = step}
Processed == {t \in TicketIds : tickets[t].status = "processed"}

-----------------------------------------------------------------------------
(* handleCreateTicket: the plan is read with the user, the row comes later. *)

ReadUser(s) ==
    /\ pc[s] = "idle"
    /\ \/ Goto(s, "file")
       \/ pro /\ Goto(s, "top")
    /\ UNCHANGED <<pro, tickets, now, ticket, lost, lateTops>>

InsertTicket(s) ==
    /\ pc[s] \in {"file", "top"}
    /\ \E t \in TicketIds :
          /\ tickets[t].status = "none"
          /\ tickets' = [tickets EXCEPT ![t].status = "pending"]
    /\ lateTops' = IF pc[s] = "top" /\ ~pro THEN lateTops + 1 ELSE lateTops
    /\ Goto(s, "idle")
    /\ UNCHANGED <<pro, now, ticket, lost>>

\* The membership of the user ends, or he is given one.
ChangePlan ==
    /\ pro' = ~pro
    /\ lateTops' = IF pro THEN 0 ELSE lateTops
    /\ UNCHANGED <<tickets, now, pc, ticket, lost>>

-----------------------------------------------------------------------------
(* handleProcessTicket: a conditional update, then the trim.               *)

\* A ticket that is processed or trimmed away already answers 404.
Process(s) ==
    /\ pc[s] = "idle"
    /\ \E t \in TicketIds :
          /\ tickets[t].status = "pending"
          /\ tickets' = [tickets EXCEPT ![t] = [status |-> "processed", at |-> now]]
          /\ ticket' = [ticket EXCEPT ![s] = t]
    /\ Goto(s, "trim")
    /\ UNCHANGED <<pro, now, lost, lateTops>>

\* Tickets of one second are in any order.
Newest(kept) ==
    /\ kept \subseteq Processed
    /\ Cardinality(kept) = IF Cardinality(Processed) < ArchiveSize
                           THEN Cardinality(Processed) ELSE ArchiveSize
    /\ \A t \in kept, u \in Processed \ kept : tickets[t].at >= tickets[u].at

Trim(s) ==
    /\ pc[s] = "trim"
    /\ \E kept \in SUBSET Processed :
          /\ Newest(kept)
          /\ tickets' = [t \in TicketIds |-> IF t \in Processed \ kept
                                             THEN [status |-> "gone", at |-> 0]
                                             ELSE tickets[t]]
    /\ lost' = 0
    /\ ticket' = [ticket EXCEPT ![s] = NoTicket]
    /\ Goto(s, "idle")
    /\ UNCHANGED <<pro, now, lateTops>>

\* A statement fails or the worker is lost.
Fail(s) ==
    /\ pc[s] # "idle"
    /\ lost' = IF pc[s] = "trim" THEN lost + 1 ELSE lost
    /\ ticket' = [ticket EXCEPT ![s] = NoTicket]
    /\ Goto(s, "idle")
    /\ UNCHANGED <<pro, tickets, now, lateTops>>

Tick ==
    /\ now < MaxNow
    /\ now' = now + 1
    /\ UNCHANGED <<pro, tickets, pc, ticket, lost, lateTops>>

Next ==
    \/ \E s \in Slots : ReadUser(s) \/ InsertTicket(s) \/ Process(s) \/ Trim(s) \/ Fail(s)
    \/ ChangePlan
    \/ Tick

Spec == Init /\ [][Next]_vars

-----------------------------------------------------------------------------
(* Properties.                                                             *)

\* The rows and the locals of the slots keep their type.
TypeOK ==
    /\ pro \in BOOLEAN
    /\ tickets \in [TicketIds -> [status : {"none", "pending", "processed", "gone"},
                                  at : 0..MaxNow]]
    /\ now \in 0..MaxNow
    /\ pc \in [Slots -> {"idle", "file", "top", "trim"}]
    /\ ticket \in [Slots -> TicketIds \cup {NoTicket}]
    /\ lost \in Nat /\ lateTops \in Nat

\* The archive holds no more than its size and one ticket for every processing
\* that has not trimmed yet or failed to: the next trim makes up for all that
\* were lost before it, and a top ticket filed after the Pro plan was lost comes
\* from a request that had read the plan before (handleProcessTicket in
\* admin/routes.js, handleCreateTicket in support/routes.js).
DeskBounded ==
    /\ Cardinality(Processed) <= ArchiveSize + Cardinality(InStep("trim")) + lost
    /\ lateTops <= Cardinality(Slots)

=============================================================================
