------------------------------ MODULE ChatGateway ------------------------------
(***************************************************************************)
(* POST /v1/chat: from authentication to the ledger rows.                  *)
(*                                                                         *)
(* One element of Requests is one Worker invocation running handleChat     *)
(* (src/src/index.js) and executeChat (src/src/ai/gateway.js).  Every      *)
(* D1 statement and every upstream fetch is an await, so each is an action *)
(* of its own and invocations interleave between any two of them; a D1     *)
(* statement is atomic.  The three writes of persistSuccess are started    *)
(* together by Promise.all: they run in any order and each may fail.       *)
(***************************************************************************)
EXTENDS Integers, Sequences, FiniteSets, FiniteSetsExt

CONSTANTS
    Requests,       \* invocations of the chat endpoint
    Users,          \* rows of users
    Admins,         \* users with role = 'admin'
    Keys,           \* rows of api_keys
    Owner,          \* api_keys.user_id, NoUser when NULL
    NoUser, NoKey,
    Models,         \* internal model ids
    Host,           \* host of a model's base URL
    Available,      \* models whose API key resolves
    Chains,         \* candidate chains the router can return
    Charges,        \* points a completion can cost; 0 when usage is missing
    Modes,          \* values of normalized.stream that clients send
    MayFail,        \* bound: the writes D1 can fail in this instance
    DailyLimit,     \* membership_plans.daily_request_limit
    PointLimit,     \* membership_plans.monthly_point_limit
    KeyLimit,       \* api_keys.request_limit (limit_type 'count')
    MaxConcurrent,  \* bound: invocations open at once
    MaxDay          \* bound: midnights the run crosses

ASSUME LimitAssumption ==
    /\ DailyLimit \in Nat \ {0}
    /\ PointLimit \in Nat \ {0}
    /\ KeyLimit \in Nat \ {0}
    /\ MaxConcurrent \in Nat \ {0}
    /\ MaxDay \in Nat
    /\ IsFiniteSet(Requests)
    /\ IsFiniteSet(Charges) /\ Charges \subseteq Nat
    /\ Modes \subseteq BOOLEAN

ASSUME AccountAssumption ==
    /\ NoUser \notin Users
    /\ NoKey \notin Keys
    /\ Admins \subseteq Users
    /\ Owner \in [Keys -> Users \cup {NoUser}]

ASSUME ModelAssumption ==
    /\ Available \subseteq Models
    /\ Chains \subseteq Seq(Models)

VARIABLES
    pc,         \* where each invocation stands
    user,       \* auth.userId
    key,        \* auth.apiKeyId
    stream,     \* normalized.stream
    chain,      \* route.chain
    tried,      \* models called upstream, in order
    pending,    \* D1 writes started and not finished
    lossy,      \* invocations one of whose writes failed, or whose stream broke
    cost,       \* points_charged of the ledger entry
    reply,      \* status class of the HTTP response
    usageRows,  \* table usage_records
    logRows,    \* table request_logs
    keyCount,   \* api_keys.request_count
    banned,     \* users with status = 'banned'
    lateBan,    \* history: invocations whose user was banned before handleChat
                \* read his status
    today       \* the Asia/Shanghai day

reqVars == <<user, key, stream>>
routeVars == <<chain, tried>>
writeVars == <<pending, lossy, cost>>
tableVars == <<usageRows, logRows, keyCount>>
worldVars == <<banned, lateBan, today>>
vars == <<pc, reqVars, routeVars, writeVars, reply, tableVars, worldVars>>

Writes == {"key", "usage", "log", "errlog"}

Steps == {"idle", "auth", "status", "validate", "daily", "points", "route",
          "call", "drain", "persist", "faillog", "done"}

Replies == {"none", "ok", "denied", "invalid", "quota", "unconfigured",
            "failed"}

\* Invocations that are open; a stream stays open until its bookkeeping ends.
Active == {r \in Requests : pc[r] \notin {"idle", "done"}}

\* Session credentials carry a user and no key, key credentials the key's owner.
Credentials ==
    {[user |-> u, key |-> NoKey] : u \in Users}
        \cup {[user |-> Owner[k], key |-> k] : k \in Keys}

Goto(r, step) == pc' = [pc EXCEPT ![r] = step]

\* The handler returns a response before it has anything to clean up.
Return(r, status) ==
    /\ Goto(r, "done")
    /\ reply' = [reply EXCEPT ![r] = status]

-----------------------------------------------------------------------------
Init ==
    /\ pc = [r \in Requests |-> "idle"]
    /\ user = [r \in Requests |-> NoUser]
    /\ key = [r \in Requests |-> NoKey]
    /\ stream = [r \in Requests |-> FALSE]
    /\ chain = [r \in Requests |-> <<>>]
    /\ tried = [r \in Requests |-> <<>>]
    /\ pending = [r \in Requests |-> {}]
    /\ lossy = {}
    /\ cost = [r \in Requests |-> 0]
    /\ reply = [r \in Requests |-> "none"]
    /\ usageRows = {}
    /\ logRows = {}
    /\ keyCount = [k \in Keys |-> 0]
    /\ banned = {}
    /\ lateBan = {}
    /\ today = 0

\* A client opens a request with some credential.
Arrive(r) ==
    /\ pc[r] = "idle"
    /\ Cardinality(Active) < MaxConcurrent
    /\ \E c \in Credentials, s \in Modes :
        /\ user' = [user EXCEPT ![r] = c.user]
        /\ key' = [key EXCEPT ![r] = c.key]
        /\ stream' = [stream EXCEPT ![r] = s]
        /\ lateBan' = IF c.user \in banned THEN lateBan \cup {r} ELSE lateBan
    /\ Goto(r, "auth")
    /\ UNCHANGED <<routeVars, writeVars, reply, tableVars, banned, today>>

\* The credential does not exist, is disabled, revoked or expired.
RejectCredential(r) ==
    /\ pc[r] = "auth"
    /\ Return(r, "denied")
    /\ UNCHANGED <<reqVars, routeVars, writeVars, tableVars, worldVars>>

\* authenticateRequest: a key is admitted while its count is below its limit.
Authenticate(r) ==
    /\ pc[r] = "auth"
    /\ IF key[r] # NoKey /\ keyCount[key[r]] >= KeyLimit
       THEN Return(r, "quota")
       ELSE Goto(r, "status") /\ UNCHANGED reply
    /\ UNCHANGED <<reqVars, routeVars, writeVars, tableVars, worldVars>>

\* handleChat reads users.status when the credential names a user.
CheckBanned(r) ==
    /\ pc[r] = "status"
    /\ IF user[r] \in banned
       THEN Return(r, "denied")
       ELSE Goto(r, "validate") /\ UNCHANGED reply
    /\ UNCHANGED <<reqVars, routeVars, writeVars, tableVars, worldVars>>

\* hasAnyModelConfigured, parseChatRequestBody, validateChatPayload; a key
\* without a user skips checkUserQuota.
Validate(r) ==
    /\ pc[r] = "validate"
    /\ IF Available = {}
       THEN Return(r, "unconfigured")
       ELSE \/ Return(r, "invalid")
            \/ /\ Goto(r, IF user[r] = NoUser THEN "route" ELSE "daily")
               /\ UNCHANGED reply
    /\ UNCHANGED <<reqVars, routeVars, writeVars, tableVars, worldVars>>

-----------------------------------------------------------------------------
\* checkUserQuota: two reads of usage_records, one after the other.

RowsToday(u) == {row \in usageRows : row.user = u /\ row.day = today}

PointsUsed(u) ==
    MapThenSumSet(LAMBDA row : row.points, {row \in usageRows : row.user = u})

\* Mutants of the two checks: the limit itself is still admitted.
CheckDailyOffByOne(r) ==
    /\ pc[r] = "daily"
    /\ IF user[r] \notin Admins /\ Cardinality(RowsToday(user[r])) > DailyLimit
       THEN Return(r, "quota")
       ELSE Goto(r, "points") /\ UNCHANGED reply
    /\ UNCHANGED <<reqVars, routeVars, writeVars, tableVars, worldVars>>

CheckPointsOffByOne(r) ==
    /\ pc[r] = "points"
    /\ IF PointsUsed(user[r]) > PointLimit
       THEN Return(r, "quota")
       ELSE Goto(r, "route") /\ UNCHANGED reply
    /\ UNCHANGED <<reqVars, routeVars, writeVars, tableVars, worldVars>>

CheckDaily(r) ==
    /\ pc[r] = "daily"
    /\ IF user[r] \in Admins
       THEN Goto(r, "route") /\ UNCHANGED reply
       ELSE IF Cardinality(RowsToday(user[r])) >= DailyLimit
            THEN Return(r, "quota")
            ELSE Goto(r, "points") /\ UNCHANGED reply
    /\ UNCHANGED <<reqVars, routeVars, writeVars, tableVars, worldVars>>

CheckPoints(r) ==
    /\ pc[r] = "points"
    /\ IF PointsUsed(user[r]) >= PointLimit
       THEN Return(r, "quota")
       ELSE Goto(r, "route") /\ UNCHANGED reply
    /\ UNCHANGED <<reqVars, routeVars, writeVars, tableVars, worldVars>>

-----------------------------------------------------------------------------
\* Routing and the upstream call.

\* The first model of a chain that is in ok, as a sequence of at most one.
FirstIn(c, ok) ==
    LET hits == {i \in DOMAIN c : c[i] \in ok}
    IN  IF hits = {} THEN <<>> ELSE <<c[Min(hits)]>>

\* pickAvailableRoute
Primary(c) == FirstIn(c, Available)

\* Mutant of Fallback: another model of the failed host is taken.
FallbackSameHost(c, failed) == FirstIn(c, Available \ {failed})

\* pickRuntimeFallback: the search restarts at the head of the chain and
\* skips the failed model, every model on its host and unavailable ones.
Fallback(c, failed) ==
    FirstIn(c, {m \in Available \ {failed} : Host[m] # Host[failed]})

\* executeChat: the chain comes from the router, which Router models.
Route(r) ==
    /\ pc[r] = "route"
    /\ \E c \in Chains :
        /\ chain' = [chain EXCEPT ![r] = c]
        /\ tried' = [tried EXCEPT ![r] = Primary(c)]
        /\ IF Primary(c) = <<>>
           THEN Return(r, "unconfigured")
           ELSE Goto(r, "call") /\ UNCHANGED reply
    /\ UNCHANGED <<reqVars, writeVars, tableVars, worldVars>>

\* Mutant of LedgerWrites: a request without a user gets a usage row.
LedgerWritesUnowned(r) ==
    {"log", "usage"} \cup (IF key[r] # NoKey THEN {"key"} ELSE {})

\* The writes persistSuccess starts for the invocation's credential.
LedgerWrites(r) ==
    {"log"} \cup (IF key[r] # NoKey THEN {"key"} ELSE {})
            \cup (IF user[r] # NoUser THEN {"usage"} ELSE {})

BeginPersist(r) ==
    /\ pending' = [pending EXCEPT ![r] = LedgerWrites(r)]
    /\ cost' \in {[cost EXCEPT ![r] = c] : c \in Charges}
    /\ Goto(r, "persist")

\* executeJson: the completion is in hand, the ledger is written before the
\* response.
CallSucceedsJson(r) ==
    /\ pc[r] = "call" /\ ~stream[r]
    /\ BeginPersist(r)
    /\ UNCHANGED <<reqVars, routeVars, lossy, reply, tableVars, worldVars>>

\* executeStream: the client gets its branch of the tee at once, the other
\* branch is drained under waitUntil.
CallSucceedsStream(r) ==
    /\ pc[r] = "call" /\ stream[r]
    /\ Goto(r, "drain")
    /\ reply' = [reply EXCEPT ![r] = "ok"]
    /\ UNCHANGED <<reqVars, routeVars, writeVars, tableVars, worldVars>>

\* body.tee() throws: 502, and nothing is written at all.
TeeFails(r) ==
    /\ pc[r] = "call" /\ stream[r]
    /\ Return(r, "failed")
    /\ UNCHANGED <<reqVars, routeVars, writeVars, tableVars, worldVars>>

\* A retryable error with a fallback left: attemptWithFallback runs it.
CallRetries(r) ==
    /\ pc[r] = "call" /\ Len(tried[r]) = 1
    /\ LET next == Fallback(chain[r], tried[r][1])
       IN  /\ next # <<>>
           /\ tried' = [tried EXCEPT ![r] = @ \o next]
    /\ UNCHANGED <<pc, reqVars, chain, writeVars, reply, tableVars, worldVars>>

\* Mutant of CallFails: the failed call is put on the ledger.
CallFailsCharged(r) ==
    /\ pc[r] = "call"
    /\ BeginPersist(r)
    /\ reply' = [reply EXCEPT ![r] = "failed"]
    /\ UNCHANGED <<reqVars, routeVars, lossy, tableVars, worldVars>>

\* The error is not retryable, or it is the fallback's, or none is left: the
\* response is sent and the error log is left to waitUntil.
CallFails(r) ==
    /\ pc[r] = "call"
    /\ Goto(r, "faillog")
    /\ reply' = [reply EXCEPT ![r] = "failed"]
    /\ UNCHANGED <<reqVars, routeVars, writeVars, tableVars, worldVars>>

-----------------------------------------------------------------------------
\* Bookkeeping.

\* INSERTs get a fresh AUTOINCREMENT id: a second row of an invocation is a
\* row of its own.
AddLog(r, kind) ==
    logRows' = logRows \cup
        {[req |-> r, kind |-> kind,
          copy |-> Cardinality({row \in logRows : row.req = r})]}

AddUsage(r) ==
    usageRows' = usageRows \cup
        {[req |-> r, user |-> user[r], key |-> key[r], day |-> today,
          points |-> cost[r],
          copy |-> Cardinality({row \in usageRows : row.req = r})]}

\* persistFailure, which swallows an error of its own.
WriteFailureLog(r) ==
    /\ pc[r] = "faillog"
    /\ \/ AddLog(r, "failure")
       \/ "errlog" \in MayFail /\ UNCHANGED logRows
    /\ Goto(r, "done")
    /\ UNCHANGED <<reqVars, routeVars, writeVars, reply, usageRows, keyCount,
                   worldVars>>

\* extractUsageFromSse reached the end of the stream, with or without usage.
DrainEnds(r) ==
    /\ pc[r] = "drain"
    /\ BeginPersist(r)
    /\ UNCHANGED <<reqVars, routeVars, lossy, reply, tableVars, worldVars>>

\* The read rejects with AbortError: the client left, nothing is recorded.
DrainAborts(r) ==
    /\ pc[r] = "drain"
    /\ Goto(r, "done")
    /\ lossy' = lossy \cup {r}
    /\ UNCHANGED <<reqVars, routeVars, pending, cost, reply, tableVars,
                   worldVars>>

\* The read rejects with another error: only an error log is written.
DrainBreaks(r) ==
    /\ pc[r] = "drain"
    /\ lossy' = lossy \cup {r}
    /\ pending' = [pending EXCEPT ![r] = {"errlog"}]
    /\ Goto(r, "persist")
    /\ UNCHANGED <<reqVars, routeVars, cost, reply, tableVars, worldVars>>

\* What one statement does when it succeeds.
Effect(r, w) ==
    CASE w = "key" -> /\ keyCount' = [keyCount EXCEPT ![key[r]] = @ + 1]
                      /\ UNCHANGED <<usageRows, logRows>>
      [] w = "usage" -> AddUsage(r) /\ UNCHANGED <<logRows, keyCount>>
      [] w = "log" -> AddLog(r, "success") /\ UNCHANGED <<usageRows, keyCount>>
      [] w = "errlog" -> AddLog(r, "stream") /\ UNCHANGED <<usageRows, keyCount>>

\* The last write to settle ends the invocation; a JSON request is answered
\* then, unless a failed write has answered it already.
Settle(r, rest) ==
    /\ pending' = [pending EXCEPT ![r] = rest]
    /\ IF rest = {}
       THEN Return(r, "ok")
       ELSE UNCHANGED <<pc, reply>>

WriteSucceeds(r, w) ==
    /\ pc[r] = "persist" /\ w \in pending[r]
    /\ Effect(r, w)
    /\ Settle(r, pending[r] \ {w})
    /\ UNCHANGED <<reqVars, routeVars, lossy, cost, worldVars>>

\* Mutants of WriteFails: every failure is logged, not the first; the failure
\* turns into a 502; the write is retried for ever.
WriteFailsLogsEach(r, w) ==
    /\ pc[r] = "persist" /\ w \in pending[r] \cap MayFail
    /\ lossy' = lossy \cup {r}
    /\ LET rest == (pending[r] \ {w}) \cup (IF stream[r] THEN {"errlog"} ELSE {})
       IN  /\ pending' = [pending EXCEPT ![r] = rest]
           /\ Goto(r, IF rest = {} THEN "done" ELSE "persist")
           /\ reply' = [reply EXCEPT ![r] = "ok"]
    /\ UNCHANGED <<reqVars, routeVars, cost, tableVars, worldVars>>

WriteFailsTurns502(r, w) ==
    /\ pc[r] = "persist" /\ w \in pending[r] \cap MayFail
    /\ lossy' = lossy \cup {r}
    /\ pending' = [pending EXCEPT ![r] = {}]
    /\ Goto(r, "faillog")
    /\ reply' = [reply EXCEPT ![r] = "failed"]
    /\ UNCHANGED <<reqVars, routeVars, cost, tableVars, worldVars>>

WriteFailsForever(r, w) ==
    /\ pc[r] = "persist" /\ w \in pending[r] \cap MayFail
    /\ lossy' = lossy \cup {r}
    /\ UNCHANGED <<pc, reqVars, routeVars, pending, cost, reply, tableVars,
                   worldVars>>

\* Promise.all rejects at the first failure.  executeJson swallows it and
\* answers 200; executeStream writes a second request log.  The writes still
\* under way are not cancelled.
WriteFails(r, w) ==
    /\ pc[r] = "persist" /\ w \in pending[r] \cap MayFail
    /\ lossy' = lossy \cup {r}
    /\ LET first == r \notin lossy
           rest == (pending[r] \ {w})
                     \cup (IF first /\ stream[r] THEN {"errlog"} ELSE {})
       IN  /\ pending' = [pending EXCEPT ![r] = rest]
           /\ Goto(r, IF rest = {} THEN "done" ELSE "persist")
           /\ reply' = [reply EXCEPT ![r] = "ok"]
    /\ UNCHANGED <<reqVars, routeVars, cost, tableVars, worldVars>>

\* The runtime may end the invocation once the response is out and the
\* waitUntil promise has settled; writes nobody awaits any more are lost.
Evict(r) ==
    /\ pc[r] = "persist" /\ r \in lossy
    /\ "errlog" \notin pending[r]
    /\ pending' = [pending EXCEPT ![r] = {}]
    /\ Goto(r, "done")
    /\ UNCHANGED <<reqVars, routeVars, lossy, cost, reply, tableVars, worldVars>>

-----------------------------------------------------------------------------
\* Outside the gateway: an administrator bans a user, midnight passes.

Ban(u) ==
    /\ u \notin banned
    /\ banned' = banned \cup {u}
    /\ lateBan' = lateBan \cup {r \in Requests : user[r] = u /\ pc[r] \in {"auth", "status"}}
    /\ UNCHANGED <<pc, reqVars, routeVars, writeVars, reply, tableVars, today>>

Midnight ==
    /\ today < MaxDay
    /\ today' = today + 1
    /\ UNCHANGED <<pc, reqVars, routeVars, writeVars, reply, tableVars,
                   banned, lateBan>>

\* Steps of the Worker itself.
Serve(r) ==
    \/ RejectCredential(r) \/ Authenticate(r) \/ CheckBanned(r) \/ Validate(r)
    \/ CheckDaily(r) \/ CheckPoints(r) \/ Route(r)
    \/ CallSucceedsJson(r) \/ CallSucceedsStream(r) \/ TeeFails(r)
    \/ CallRetries(r) \/ CallFails(r)
    \/ WriteFailureLog(r) \/ DrainEnds(r) \/ DrainAborts(r) \/ DrainBreaks(r)
    \/ \E w \in Writes : WriteSucceeds(r, w) \/ WriteFails(r, w)
    \/ Evict(r)

Finished ==
    /\ \A r \in Requests : pc[r] = "done"
    /\ UNCHANGED vars

Next ==
    \/ \E r \in Requests : Arrive(r) \/ Serve(r)
    \/ \E u \in Users : Ban(u)
    \/ Midnight
    \/ Finished

Spec == Init /\ [][Next]_vars

\* A started invocation runs on: D1 and the provider answer or fail.
FairSpec == Spec /\ \A r \in Requests : WF_vars(Serve(r))

-----------------------------------------------------------------------------
\* Properties.

UsageRow == [req : Requests, user : Users, key : Keys \cup {NoKey},
             day : 0..MaxDay, points : Nat, copy : Nat]

LogRow == [req : Requests, kind : {"success", "failure", "stream"}, copy : Nat]

TypeOK ==
    /\ pc \in [Requests -> Steps]
    /\ user \in [Requests -> Users \cup {NoUser}]
    /\ key \in [Requests -> Keys \cup {NoKey}]
    /\ stream \in [Requests -> BOOLEAN]
    /\ chain \in [Requests -> Seq(Models)]
    /\ tried \in [Requests -> Seq(Models)]
    /\ pending \in [Requests -> SUBSET Writes]
    /\ lossy \subseteq Requests
    /\ cost \in [Requests -> Nat]
    /\ reply \in [Requests -> Replies]
    /\ IsFiniteSet(usageRows)
    /\ usageRows \subseteq UsageRow
    /\ IsFiniteSet(logRows)
    /\ logRows \subseteq LogRow
    /\ keyCount \in [Keys -> Nat]
    /\ banned \subseteq Users
    /\ lateBan \subseteq Requests
    /\ today \in 0..MaxDay

\* Writes are under way only while the ledger is being written, and a usage
\* row only for a request with a user: what type correctness rests on.
PendingOwned ==
    \A r \in Requests :
        /\ pending[r] # {} => pc[r] = "persist"
        /\ "usage" \in pending[r] => user[r] \in Users

\* Past the daily check of checkUserQuota, usage row not written yet.
Admitted(u) ==
    {r \in Requests :
        /\ user[r] = u
        /\ \/ pc[r] \in {"points", "route", "call", "drain"}
           \/ pc[r] = "persist" /\ "usage" \in pending[r]}

\* The count of usage_records is read when a request enters and written when
\* it leaves, so requests in flight together overshoot the daily limit, but
\* never by more than the requests that can be in flight together, whatever
\* order they run in and across any number of midnights.
DailyOvershootBounded ==
    \A u \in Users \ Admins :
        Cardinality(RowsToday(u)) + Cardinality(Admitted(u))
            <= DailyLimit - 1 + MaxConcurrent

\* The same for the allowances that are not counted by the day: the points of
\* a month, to which each request in flight can add one charge, and the count
\* of an API key, checked in authenticate and written by incrementApiKeyUsage.
AllowanceOvershootBounded ==
    /\ \A u \in Users \ Admins :
          PointsUsed(u) <= PointLimit - 1 + MaxConcurrent * Max(Charges \cup {0})
    /\ \A k \in Keys : keyCount[k] <= KeyLimit - 1 + MaxConcurrent

\* A request leaves at most one usage row, whatever fails and however often
\* the provider is called: a fallback is not a second charge.
OneUsageRow ==
    \A a, b \in usageRows : a.req = b.req => a = b

\* What OneUsageRow rests on: a row belongs to an invocation that has nothing
\* left to charge, and no row is dated in the future.
UsageLedger ==
    /\ OneUsageRow
    /\ \A row \in usageRows :
        /\ pc[row.req] \in {"persist", "done"}
        /\ "usage" \notin pending[row.req]
        /\ row.day <= today

ConcurrencyBounded == Cardinality(Active) <= MaxConcurrent

\* Until the provider has answered nobody has been told anything, and once the
\* ledger is being written nobody is told of a failure.
ReplyPhase ==
    \A r \in Requests :
        /\ pc[r] \notin {"drain", "persist", "faillog", "done"} => reply[r] = "none"
        /\ pc[r] = "drain" => reply[r] = "ok"
        /\ pc[r] = "persist" => reply[r] \in {"none", "ok"}

GatewayInv ==
    /\ TypeOK /\ PendingOwned
    /\ UsageLedger
    /\ ConcurrencyBounded /\ DailyOvershootBounded
    /\ ReplyPhase

\* A response other than 200 leaves no usage row, no success log, and no
\* unit on the key: keys count no more than the requests that were served.
ErrorIsFree ==
    /\ \A row \in usageRows : reply[row.req] \in {"none", "ok"}
    /\ \A row \in logRows : row.kind = "success" => reply[row.req] \in {"none", "ok"}
    /\ \A k \in Keys :
        keyCount[k] <= Cardinality({r \in Requests :
                          key[r] = k /\ (reply[r] = "ok" \/ pc[r] = "persist")})

\* When no write failed and the stream was read to its end, a served request
\* left exactly one log, and one usage row when it has a user.
ServedIsBilled ==
    \A r \in Requests :
        pc[r] = "done" /\ reply[r] = "ok" /\ r \notin lossy =>
            /\ Cardinality({row \in logRows : row.req = r}) = 1
            /\ user[r] # NoUser => \E row \in usageRows : row.req = r

\* What a user pays for is what he got: the ledger and the replies agree
\* (handleChat in index.js, persistSuccess and executeChat in ai/gateway.js).
BilledIffServed == ErrorIsFree /\ ServedIsBilled

\* request_logs has at most two rows of one request, and two only for a
\* stream one of whose writes failed.
DoubleLogOnlyAfterLoss ==
    \A r \in Requests :
        LET n == Cardinality({row \in logRows : row.req = r})
        IN  n <= 2 /\ (n = 2 => stream[r] /\ r \in lossy)

\* The provider is called at most twice, the second time on another host and
\* both times on a model that is available.
FallbackDiscipline ==
    \A r \in Requests :
        /\ Len(tried[r]) <= 2
        /\ \A i \in DOMAIN tried[r] : tried[r][i] \in Available
        /\ Len(tried[r]) = 2 => Host[tried[r][1]] # Host[tried[r][2]]

\* A request whose user is banned before his status is read, be it after the
\* request was authenticated, never reaches a provider.
BannedNeverServed ==
    \A r \in lateBan : tried[r] = <<>> /\ reply[r] \in {"none", "denied", "quota"}

\* Providers are called for nobody banned, and for one request at most twice,
\* on two hosts that are available (handleChat in index.js and ai/gateway.js).
ProviderDiscipline == FallbackDiscipline /\ BannedNeverServed

\* The abstract service this endpoint implements.
Outcome(r) ==
    CASE reply[r] = "none" -> "open"
      [] reply[r] = "ok" -> "served"
      [] OTHER -> "refused"

UsageOf(r) == {row \in usageRows : row.req = r}

Metered == INSTANCE MeteredService WITH
    outcome <- [r \in Requests |-> Outcome(r)],
    charges <- [r \in Requests |-> Cardinality(UsageOf(r))]

\* The gateway implements MeteredService: answered once, charged at most once,
\* never charged when refused.
ImplementsMetered == Metered!Spec

\* A request that was opened is answered, and its bookkeeping ends.
EventuallyAnswered ==
    \A r \in Requests :
        pc[r] = "auth" ~> pc[r] = "done" /\ reply[r] # "none"
=============================================================================
