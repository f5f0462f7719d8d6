----------------------------- MODULE Moderation -----------------------------
(***************************************************************************)
(* Bans and appeals of one account (appeals/service.js, the blacklist      *)
(* handlers of admin/routes.js and admin/database.js).  Administrators and *)
(* the user run their requests in Slots, one statement per step; only the  *)
(* removal from the blacklist is a batch, hence atomic.  Three tables say  *)
(* that an account is banned: users.status, which the services enforce,    *)
(* bans, which gives the user a token to appeal with and which the         *)
(* administration lists, and the older blacklisted_emails.                 *)
(***************************************************************************)
EXTENDS Naturals, FiniteSets

CONSTANTS
    Slots,      \* concurrent requests
    BanIds,     \* bound: bans ever created
    AppealIds,  \* bound: appeals ever submitted
    NoBan,      \* a slot that works on no ban
    NoAppeal    \* a slot that works on no appeal

ModerationAssumption ==
    /\ IsFiniteSet(Slots) /\ IsFiniteSet(BanIds) /\ IsFiniteSet(AppealIds)
    /\ NoBan \notin BanIds /\ NoAppeal \notin AppealIds

VARIABLES
    account,  \* users.status
    bans,     \* bans.status, "none" for an id not used yet
    appeals,  \* the ban and the status of an appeal, "none" when not used yet
    listed,   \* the address is in blacklisted_emails
    pc,       \* where the request of a slot stands
    ban,      \* the ban a slot creates or appeals against
    appeal,   \* the appeal a slot reviews
    verdict,  \* the decision a slot records
    failures  \* history: a statement of a request failed

tables == <<account, bans, appeals, listed>>
vars == <<account, bans, appeals, listed, pc, ban, appeal, verdict, failures>>

Steps == {"idle", "cancel", "cancel+", "insert", "insert+", "list",
          "pending", "submit", "decide", "lift", "close", "delist"}
Unused == [ban |-> NoBan, status |-> "none"]

Init ==
    /\ account = "active"
    /\ bans = [b \in BanIds |-> "none"]
    /\ appeals = [a \in AppealIds |-> Unused]
    /\ listed = FALSE
    /\ pc = [s \in Slots |-> "idle"]
    /\ ban = [s \in Slots |-> NoBan]
    /\ appeal = [s \in Slots |-> NoAppeal]
    /\ verdict = [s \in Slots |-> "rejected"]
    /\ failures = FALSE

Goto(s, step) == pc' = [pc EXCEPT ![s] = step]

\* The request is over: its locals are gone.
Done(s) ==
    /\ Goto(s, "idle")
    /\ ban' = [ban EXCEPT ![s] = NoBan]
    /\ appeal' = [appeal EXCEPT ![s] = NoAppeal]
    /\ verdict' = [verdict EXCEPT ![s] = "rejected"]

Keep == UNCHANGED <<ban, appeal, verdict>>
Active == {b \in BanIds : bans[b] = "active"}
WithoutActive == [b \in BanIds |-> IF bans[b] = "active" THEN "cancelled" ELSE bans[b]]

-----------------------------------------------------------------------------
(* createBan, called on its own or by the blacklist ("+").                 *)

BanAccount(s, plus) ==
    /\ pc[s] = "idle"
    /\ \E b \in BanIds :
          /\ bans[b] = "none" /\ \A t \in Slots : ban[t] # b
          /\ ban' = [ban EXCEPT ![s] = b]
    /\ account' = "banned"
    /\ Goto(s, IF plus THEN "cancel+" ELSE "cancel")
    /\ UNCHANGED <<bans, appeals, listed, appeal, verdict, failures>>

\* Mutant of CancelOthers: the earlier bans stay.
CancelNone(s) ==
    /\ pc[s] \in {"cancel", "cancel+"}
    /\ Goto(s, IF pc[s] = "cancel" THEN "insert" ELSE "insert+")
    /\ Keep
    /\ UNCHANGED <<account, bans, appeals, listed, failures>>

CancelOthers(s) ==
    /\ pc[s] \in {"cancel", "cancel+"}
    /\ bans' = WithoutActive
    /\ Goto(s, IF pc[s] = "cancel" THEN "insert" ELSE "insert+")
    /\ Keep
    /\ UNCHANGED <<account, appeals, listed, failures>>

\* Mutant of InsertBan: the bans are cancelled after the new one is written.
InsertThenCancel(s) ==
    /\ pc[s] \in {"insert", "insert+"}
    /\ bans' = [WithoutActive EXCEPT ![ban[s]] = "cancelled"]
    /\ IF pc[s] = "insert" THEN Done(s) ELSE Goto(s, "list") /\ Keep
    /\ UNCHANGED <<account, appeals, listed, failures>>

InsertBan(s) ==
    /\ pc[s] \in {"insert", "insert+"}
    /\ bans' = [bans EXCEPT ![ban[s]] = "active"]
    /\ IF pc[s] = "insert" THEN Done(s) ELSE Goto(s, "list") /\ Keep
    /\ UNCHANGED <<account, appeals, listed, failures>>

\* blacklistEmail: an address already listed answers 400, after the ban.
ListEmail(s) ==
    /\ pc[s] = "list"
    /\ listed' = TRUE
    /\ Done(s)
    /\ UNCHANGED <<account, bans, appeals, failures>>

\* removeBlacklistedEmail, one batch.
RemoveFromList(s) ==
    /\ pc[s] = "idle"
    /\ listed' = FALSE
    /\ bans' = WithoutActive
    /\ account' = "active"
    /\ UNCHANGED <<appeals, pc, ban, appeal, verdict, failures>>

-----------------------------------------------------------------------------
(* submitAppeal: the ban is read, then a pending appeal is looked for, then *)
(* the appeal is inserted.                                                  *)

ReadBan(s) ==
    /\ pc[s] = "idle"
    /\ \E b \in Active : ban' = [ban EXCEPT ![s] = b]
    /\ Goto(s, "pending")
    /\ UNCHANGED <<account, bans, appeals, listed, appeal, verdict, failures>>

Pending(b) == {a \in AppealIds : appeals[a] = [ban |-> b, status |-> "pending"]}

LookForPending(s) ==
    /\ pc[s] = "pending"
    /\ IF Pending(ban[s]) # {} THEN Done(s) ELSE Goto(s, "submit") /\ Keep
    /\ UNCHANGED <<account, bans, appeals, listed, failures>>

InsertAppeal(s) ==
    /\ pc[s] = "submit"
    /\ \E a \in AppealIds :
          /\ appeals[a].status = "none"
          /\ appeals' = [appeals EXCEPT ![a] = [ban |-> ban[s], status |-> "pending"]]
    /\ Done(s)
    /\ UNCHANGED <<account, bans, listed, failures>>

-----------------------------------------------------------------------------
(* reviewAppeal.                                                           *)

ReadAppeal(s) ==
    /\ pc[s] = "idle"
    /\ \E a \in AppealIds, v \in {"approved", "rejected"} :
          /\ appeals[a].status # "none"
          /\ appeal' = [appeal EXCEPT ![s] = a]
          /\ verdict' = [verdict EXCEPT ![s] = v]
    /\ Goto(s, "decide")
    /\ UNCHANGED <<account, bans, appeals, listed, ban, failures>>

\* Mutant of Decide: the statement has lost its condition on the status.
DecideAgain(s) ==
    /\ pc[s] = "decide"
    /\ appeals' = [appeals EXCEPT ![appeal[s]].status = verdict[s]]
    /\ IF verdict[s] = "approved" THEN Goto(s, "lift") /\ Keep ELSE Done(s)
    /\ UNCHANGED <<account, bans, listed, failures>>

\* An appeal no longer pending keeps its status; the review goes on all the same.
Decide(s) ==
    LET a == appeal[s] IN
    /\ pc[s] = "decide"
    /\ appeals' = IF appeals[a].status = "pending"
                  THEN [appeals EXCEPT ![a].status = verdict[s]]
                  ELSE appeals
    /\ IF verdict[s] = "approved" THEN Goto(s, "lift") /\ Keep ELSE Done(s)
    /\ UNCHANGED <<account, bans, listed, failures>>

LiftAccount(s) ==
    /\ pc[s] = "lift"
    /\ account' = "active"
    /\ Goto(s, "close")
    /\ Keep
    /\ UNCHANGED <<bans, appeals, listed, failures>>

CloseBan(s) ==
    /\ pc[s] = "close"
    /\ bans' = [bans EXCEPT ![appeals[appeal[s]].ban] = "cancelled"]
    /\ Goto(s, "delist")
    /\ Keep
    /\ UNCHANGED <<account, appeals, listed, failures>>

Delist(s) ==
    /\ pc[s] = "delist"
    /\ listed' = FALSE
    /\ Done(s)
    /\ UNCHANGED <<account, bans, appeals, failures>>

\* A statement fails or the worker is lost: the statements before it stay.
Fail(s) ==
    /\ pc[s] # "idle"
    /\ Done(s)
    /\ failures' = TRUE
    /\ UNCHANGED tables

Next ==
    \E s \in Slots :
          \/ RemoveFromList(s)
          \/ \E plus \in BOOLEAN : BanAccount(s, plus)
          \/ CancelOthers(s) \/ InsertBan(s) \/ ListEmail(s)
          \/ ReadBan(s) \/ LookForPending(s) \/ InsertAppeal(s)
          \/ ReadAppeal(s) \/ Decide(s)
          \/ LiftAccount(s) \/ CloseBan(s) \/ Delist(s)
          \/ Fail(s)

Spec == Init /\ [][Next]_vars

-----------------------------------------------------------------------------
(* Properties.                                                             *)

\* The tables, and the locals of the requests, keep their types.
TypeOK ==
    /\ account \in {"active", "banned"}
    /\ bans \in [BanIds -> {"none", "active", "cancelled"}]
    /\ appeals \in [AppealIds -> [ban : BanIds \cup {NoBan},
                                  status : {"none", "pending", "approved", "rejected"}]]
    /\ listed \in BOOLEAN
    /\ pc \in [Slots -> Steps]
    /\ ban \in [Slots -> BanIds \cup {NoBan}]
    /\ appeal \in [Slots -> AppealIds \cup {NoAppeal}]
    /\ verdict \in [Slots -> {"approved", "rejected"}]
    /\ failures \in BOOLEAN

Banning == {s \in Slots : pc[s] \in {"cancel", "cancel+", "insert", "insert+"}}

\* However bans, reviews and removals interleave, an account that is kept out
\* has an active ban, and so a token its user can appeal with, unless a ban is
\* still being written or a statement failed half-way.
BannedCanAppeal ==
    account = "banned" => Active # {} \/ Banning # {} \/ failures

\* Bans made at the same time cancel only the ones they see, so several can
\* be active at once, and appeals submitted at the same time do not see each
\* other, so several can wait on one ban; but never more than there were
\* requests at once (createBan and submitAppeal in appeals/service.js).
RacesBounded ==
    /\ Cardinality(Active) <= Cardinality(Slots)
    /\ \A b \in BanIds : Cardinality(Pending(b)) <= Cardinality(Slots)

\* A verdict on an appeal is never replaced, whichever reviews race.
VerdictFinal ==
    [][\A a \in AppealIds : appeals[a].status \in {"approved", "rejected"} =>
           appeals'[a] = appeals[a]]_vars

=============================================================================
