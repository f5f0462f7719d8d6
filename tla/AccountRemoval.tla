--------------------------- MODULE AccountRemoval ---------------------------
(***************************************************************************)
(* What the deletion of an account (deleteUserAccount in admin/database.js)*)
(* leaves behind.  One account; its chat requests, the bans and keys an    *)
(* administrator makes for it and its sign-ins run in Slots while another  *)
(* slot deletes it.  Neither the ledger nor bans and keys have a foreign   *)
(* key to users any more, so a row written after the batch of the deletion *)
(* has no owner.                                                           *)
(***************************************************************************)
EXTENDS Naturals, FiniteSets

CONSTANTS
    Slots,       \* concurrent requests
    MaxStarted   \* bound: requests ever started

RemovalAssumption == IsFiniteSet(Slots) /\ MaxStarted \in Nat

VARIABLES
    exists,    \* the row of users
    admin,     \* users.role = 'admin'
    key,       \* its rows of api_keys: "none" yet, one "live", or all "deleted"
    rows,      \* rows that name the account, by kind
    pc,        \* where the request of a slot stands
    byKey,     \* a slot was authenticated by the key
    pending,   \* ledger writes of a slot not finished
    lossy,     \* slots one of whose ledger writes failed
    started,   \* requests started
    promoted   \* history: the role changed after a deletion had read it

locals == <<pc, byKey, pending, lossy, started>>
vars == <<exists, admin, key, rows, locals, promoted>>

Kinds == {"session", "usage", "log", "ban"}

Init ==
    /\ exists = TRUE /\ admin = FALSE
    /\ key = "none"
    /\ rows = [k \in Kinds |-> IF k = "session" THEN 1 ELSE 0]
    /\ pc = [s \in Slots |-> "idle"]
    /\ byKey = [s \in Slots |-> FALSE]
    /\ pending = [s \in Slots |-> {}]
    /\ lossy = {}
    /\ started = 0
    /\ promoted = FALSE

Goto(s, step) == pc' = [pc EXCEPT ![s] = step]
InSteps(steps) == {s \in Slots : pc[s] \in steps}

Done(s) ==
    /\ Goto(s, "idle")
    /\ byKey' = [byKey EXCEPT ![s] = FALSE]
    /\ pending' = [pending EXCEPT ![s] = {}]
    /\ lossy' = lossy \ {s}

Start(s, step) ==
    /\ pc[s] = "idle" /\ started < MaxStarted
    /\ started' = started + 1
    /\ Goto(s, step)

Add(k) == rows' = [rows EXCEPT ![k] = @ + 1]

-----------------------------------------------------------------------------
(* handleChat: the credential, the quota check, then the ledger.            *)

\* A key is looked up without its owner.
Authenticate(s) ==
    /\ Start(s, "quota")
    /\ \/ rows["session"] > 0 /\ UNCHANGED byKey
       \/ key = "live" /\ byKey' = [byKey EXCEPT ![s] = TRUE]
    /\ UNCHANGED <<exists, admin, key, rows, pending, lossy, promoted>>

Serve(s) ==
    /\ Goto(s, "ledger")
    /\ pending' = [pending EXCEPT ![s] = {"log", "usage"}]
    /\ UNCHANGED <<byKey, lossy>>

\* checkUserQuota refuses a user it does not find.
CheckUser(s) ==
    /\ pc[s] = "quota"
    /\ IF exists THEN Serve(s) ELSE Done(s)
    /\ UNCHANGED <<exists, admin, key, rows, started, promoted>>

\* The writes run at once and end in any order.
Settle(s, rest, lost) ==
    IF rest = {} THEN Done(s)
    ELSE /\ pending' = [pending EXCEPT ![s] = rest]
         /\ lossy' = lost
         /\ UNCHANGED <<pc, byKey>>

WriteLedger(s, w) ==
    /\ pc[s] = "ledger" /\ w \in pending[s]
    /\ Add(IF w = "usage" THEN "usage" ELSE "log")
    /\ Settle(s, pending[s] \ {w}, lossy)
    /\ UNCHANGED <<exists, admin, key, started, promoted>>

\* The first write that fails is logged in its turn when it was a stream's.
WriteFails(s, w) ==
    /\ pc[s] = "ledger" /\ w \in pending[s]
    /\ LET again == IF s \in lossy THEN {} ELSE {"errlog"}
       IN  Settle(s, (pending[s] \ {w}) \cup again, lossy \cup {s})
    /\ UNCHANGED <<exists, admin, key, rows, started, promoted>>

-----------------------------------------------------------------------------
(* Other writers: createBan, a sign-in, createApiKey, deleteApiKey, roles. *)

ReadForBan(s) ==
    /\ exists
    /\ Start(s, "ban")
    /\ UNCHANGED <<exists, admin, key, rows, byKey, pending, lossy, promoted>>

InsertBan(s) ==
    /\ pc[s] = "ban"
    /\ Add("ban")
    /\ Done(s)
    /\ UNCHANGED <<exists, admin, key, started, promoted>>

ReadForSession(s) ==
    /\ exists
    /\ Start(s, "session")
    /\ UNCHANGED <<exists, admin, key, rows, byKey, pending, lossy, promoted>>

\* The foreign key of sessions refuses a user that is gone.
OpenSession(s) ==
    /\ pc[s] = "session"
    /\ IF exists THEN Add("session") ELSE UNCHANGED rows
    /\ Done(s)
    /\ UNCHANGED <<exists, admin, key, started, promoted>>

\* createApiKey checks nothing: it also makes keys for nobody.
CreateKey ==
    /\ key # "live"
    /\ key' = "live"
    /\ UNCHANGED <<exists, admin, rows, locals, promoted>>

\* The row only: request_logs lost its foreign key to api_keys.
DeleteKey ==
    /\ key = "live"
    /\ key' = "deleted"
    /\ UNCHANGED <<exists, admin, rows, locals, promoted>>

ChangeRole ==
    /\ exists
    /\ admin' = ~admin
    /\ promoted' = (promoted \/ (~admin /\ InSteps({"remove"}) # {}))
    /\ UNCHANGED <<exists, key, rows, locals>>

-----------------------------------------------------------------------------
(* deleteUserAccount: the role is read, then one batch deletes everything. *)

ReadForRemoval(s) ==
    /\ exists /\ ~admin
    /\ Start(s, "remove")
    /\ UNCHANGED <<exists, admin, key, rows, byKey, pending, lossy, promoted>>

\* Mutant of Remove: the ledger is left to a cascade that no longer exists.
RemoveByCascade(s) ==
    /\ pc[s] = "remove"
    /\ exists' = FALSE
    /\ rows' = [k \in Kinds |-> IF k = "session" THEN 0 ELSE rows[k]]
    /\ key' = IF key = "live" THEN "deleted" ELSE key
    /\ Done(s)
    /\ UNCHANGED <<admin, started, promoted>>

\* The logs of the account and of the keys it has at that moment.
Remove(s) ==
    /\ pc[s] = "remove"
    /\ exists' = FALSE
    /\ rows' = [k \in Kinds |-> 0]
    /\ key' = IF key = "live" THEN "deleted" ELSE key
    /\ Done(s)
    /\ UNCHANGED <<admin, started, promoted>>

\* A statement fails or the worker is lost.
Fail(s) ==
    /\ pc[s] # "idle"
    /\ Done(s)
    /\ UNCHANGED <<exists, admin, key, rows, started, promoted>>

Next ==
    \/ \E s \in Slots :
          \/ Authenticate(s) \/ CheckUser(s)
          \/ \E w \in pending[s] : WriteLedger(s, w) \/ WriteFails(s, w)
          \/ ReadForBan(s) \/ InsertBan(s) \/ ReadForSession(s) \/ OpenSession(s)
          \/ ReadForRemoval(s) \/ Remove(s) \/ Fail(s)
    \/ CreateKey \/ DeleteKey \/ ChangeRole

Spec == Init /\ [][Next]_vars

-----------------------------------------------------------------------------
(* Properties.                                                             *)

\* The tables count rows and the slots stand at known steps.
TypeOK ==
    /\ exists \in BOOLEAN /\ admin \in BOOLEAN /\ promoted \in BOOLEAN
    /\ key \in {"none", "live", "deleted"}
    /\ rows \in [Kinds -> Nat]
    /\ started \in Nat
    /\ pc \in [Slots -> {"idle", "quota", "ledger", "ban", "session", "remove"}]
    /\ byKey \in [Slots -> BOOLEAN]
    /\ pending \in [Slots -> SUBSET {"log", "usage", "errlog"}]
    /\ lossy \subseteq Slots

\* Once an account is deleted, the rows that still name it were written by
\* requests past their check of the user when the batch ran: at most one usage
\* row, two logs or one ban for each of the requests that ran at once, however
\* long its keys, and keys made for it later, are used.  It keeps no session, and it was no
\* administrator unless it became one after the deletion had read its role
\* (deleteUserAccount in admin/database.js, checkUserQuota in membership.js).
GhostsBounded ==
    ~exists =>
        /\ rows["usage"] + rows["ban"] <= Cardinality(Slots)
        /\ rows["log"] <= 2 * Cardinality(Slots)
        /\ rows["session"] = 0
        /\ admin => promoted

=============================================================================
