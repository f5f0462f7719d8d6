------------------------------ MODULE MCAccounts ------------------------------
(***************************************************************************)
(* What an account has done and leaves behind, for TLC: its bans and       *)
(* appeals, contributions and the membership they award, feedback tickets, *)
(* and deletion.  The four share no variable, and each has the other       *)
(* writers of its tables among its own actions, so interleaving them would *)
(* show nothing more: the initial state picks the one that moves.          *)
(***************************************************************************)
EXTENDS Contributions, TLC

CONSTANTS
    s1, s2, t1, t2, t3, a1, a2, a3,
    ArchiveSize, MaxSecond, MaxStarted, BanIds, AppealIds, NoBan, NoAppeal

VARIABLES
    part,
    pro, feedback, second, deskStep, processing, lost, lateTops,
    exists, admin, key, rows, chatStep, byKey, pending, lossy, started, promoted,
    account, bans, appeals, listed, banStep, ban, appeal, verdict, failures

deskVars == <<pro, feedback, second, deskStep, processing, lost, lateTops>>
removalVars == <<exists, admin, key, rows, chatStep, byKey, pending, lossy,
                 started, promoted>>
banVars == <<account, bans, appeals, listed, banStep, ban, appeal, verdict, failures>>

Desk == INSTANCE SupportTickets WITH
    tickets <- feedback, now <- second, pc <- deskStep, ticket <- processing, MaxNow <- MaxSecond
Removal == INSTANCE AccountRemoval WITH pc <- chatStep
Bans == INSTANCE Moderation WITH pc <- banStep

ASSUME AccountsAssumption ==
    Desk!SupportAssumption /\ Removal!RemovalAssumption /\ Bans!ModerationAssumption

AccountsInit ==
    /\ part \in {"contributions", "feedback", "removal", "bans"}
    /\ Init /\ Desk!Init /\ Removal!Init /\ Bans!Init

AccountsNext ==
    /\ UNCHANGED part
    /\ \/ part = "contributions" /\ Next /\ UNCHANGED <<deskVars, removalVars, banVars>>
       \/ part = "feedback" /\ Desk!Next /\ UNCHANGED <<vars, removalVars, banVars>>
       \/ part = "removal" /\ Removal!Next /\ UNCHANGED <<vars, deskVars, banVars>>
       \/ part = "bans" /\ Bans!Next /\ UNCHANGED <<vars, deskVars, removalVars>>

accountsVars == <<part, vars, deskVars, removalVars, banVars>>

AccountsSpec == AccountsInit /\ [][AccountsNext]_accountsVars

\* Every part of the machines keeps its type.
AccountsTypeOK == TypeOK /\ Desk!TypeOK /\ Removal!TypeOK /\ Bans!TypeOK

\* What ought to be gone is what was under way: rows that name a deleted account
\* (deleteUserAccount in admin/database.js), archived feedback over the size of
\* the archive (handleProcessTicket in admin/routes.js), and top tickets of a user
\* who is no longer Pro (handleCreateTicket in support/routes.js).
LeftoversBounded == Removal!GhostsBounded /\ Desk!DeskBounded

\* An account that is kept out has an active ban to appeal against, unless one
\* is being written or a statement failed half-way (createBan and reviewAppeal
\* in appeals/service.js, removeBlacklistedEmail in admin/database.js).
BannedCanAppeal == Bans!BannedCanAppeal

\* Bans and pending appeals of one account are never more than the requests
\* that were under way at once (createBan and submitAppeal in
\* appeals/service.js).
RacesBounded == Bans!RacesBounded

\* A verdict on an appeal is never replaced, whichever reviews race
\* (reviewAppeal in appeals/service.js).
VerdictFinal == Bans!VerdictFinal

TwoSlots == {s1, s2}
\* Tickets and bans are never in play together: one set of ids names both, and
\* the group of permutations stays small.
MCTicketIds == {t1, t2, t3}
MCAppealIds == {a1, a2, a3}
MCAwards == {[plan |-> "pro", until |-> 1]}
Symmetry ==
    Permutations(TwoSlots) \cup Permutations(MCTicketIds) \cup Permutations(MCAppealIds)
=============================================================================
