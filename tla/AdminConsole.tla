---------------------------- MODULE AdminConsole ----------------------------
(***************************************************************************)
(* One tab of the administration (assets/pages/admin/app.js): who it       *)
(* thinks it is, and what its trend chart shows.  Requests are answered in *)
(* any order or fail, and the handlers of their answers share the token,   *)
(* the overlays and the chart.  The server (admin/auth.js) takes the one   *)
(* right token, and any request whose Access JWT it can verify.  The page  *)
(* was told of Access by a header that nobody verified.                    *)
(***************************************************************************)
EXTENDS FiniteSets

CONSTANTS
    Calls,     \* bound: requests in flight
    Ranges,    \* ranges of the trend chart
    NoRange    \* a chart that shows none, a request about none

ConsoleAssumption == Ranges # {} /\ NoRange \notin Ranges

VARIABLES
    access,    \* hasCfAccess: the page was asked for with an Access header
    behind,    \* requests carry an Access JWT that the server verifies
    token,     \* authToken
    stored,    \* admin_token in sessionStorage
    overlay,   \* "loading", "login" or "none"
    timer,     \* the five seconds after the page was opened are not over
    call,      \* requests in flight
    range,     \* trendRangeState
    shown,     \* the range the chart shows
    vouched,   \* history: there was a moment with such a JWT
    lapsed,    \* history: it expired, and no request was sent since
    typed,     \* history: the last token typed in, if it is the session's
    crossed,   \* history: other requests were in flight, or it was cut short
    failed,    \* history: a request failed since the page began to load
    overtaken  \* history: the last answer drawn was not the newest

chart == <<range, shown, overtaken>>
jwt == <<behind, vouched>>
history == <<typed, crossed>>
vars == <<access, jwt, lapsed, token, stored, overlay, timer, call, chart, history, failed>>

\* "good" is ADMIN_API_TOKEN, "old" was it once, "bad" is mistyped.
Tokens == {"none", "good", "bad", "old"}

Free == [kind |-> "free", token |-> "none", jwt |-> FALSE, range |-> NoRange, newest |-> FALSE]
Quiet == \A c \in Calls : call[c] = Free

Call(kind, t) == [Free EXCEPT !.kind = kind, !.token = t, !.jwt = behind]

Send(c, kind) ==
    /\ call' = [call EXCEPT ![c] = Call(kind, token)]
    /\ lapsed' = FALSE

-----------------------------------------------------------------------------
(* The JWT of Cloudflare Access, whose header the page and its requests    *)
(* carry.  The server refuses one that has expired, and any when Access is *)
(* not configured for the Worker; the page only knows that there was one.  *)

\* It expires, or is renewed.
AccessChanges ==
    /\ behind' = ~behind
    /\ vouched' = (vouched \/ behind')
    /\ lapsed' = behind
    /\ UNCHANGED <<access, token, stored, overlay, timer, call, chart, history, failed>>

-----------------------------------------------------------------------------
(* Opening the page: init, and its timer.                                  *)

\* initApp at once with a token or an Access header, else the login form.
Begin(c, t, header) ==
    /\ access' = header
    /\ token' = t
    /\ IF header \/ t # "none"
       THEN /\ overlay' = "none"
            /\ call' = [d \in Calls |-> IF d = c THEN Call("dashboard", t) ELSE Free]
       ELSE /\ overlay' = "login"
            /\ call' = [d \in Calls |-> Free]
    /\ timer' = TRUE
    /\ shown' = NoRange

Init ==
    /\ access \in BOOLEAN
    /\ behind \in BOOLEAN /\ vouched = behind /\ lapsed = FALSE
    /\ stored \in {"none", "good", "old"} /\ token = stored
    /\ IF access \/ stored # "none"
       THEN /\ overlay = "none"
            /\ \E c \in Calls :
                  call = [d \in Calls |-> IF d = c THEN Call("dashboard", token) ELSE Free]
       ELSE overlay = "login" /\ call = [d \in Calls |-> Free]
    /\ timer = TRUE
    /\ range = CHOOSE r \in Ranges : TRUE
    /\ shown = NoRange
    /\ typed = "none" /\ crossed = FALSE /\ failed = FALSE /\ overtaken = FALSE

\* The requests of the page before are abandoned with it.
Reload(c) ==
    /\ \E header \in BOOLEAN : Begin(c, stored, header)
    /\ range' = CHOOSE r \in Ranges : TRUE
    /\ typed' = "none" /\ crossed' = FALSE /\ failed' = FALSE /\ overtaken' = FALSE
    /\ lapsed' = FALSE
    /\ UNCHANGED <<jwt, stored>>

\* Mutant of Timeout: the login form comes up whatever is shown.
TimeoutAnyway ==
    /\ timer
    /\ timer' = FALSE
    /\ overlay' = "login"
    /\ UNCHANGED <<access, jwt, lapsed, token, stored, call, chart, history, failed>>

Timeout ==
    /\ timer
    /\ timer' = FALSE
    /\ overlay' = IF overlay = "loading" THEN "login" ELSE overlay
    /\ UNCHANGED <<access, jwt, lapsed, token, stored, call, chart, history, failed>>

-----------------------------------------------------------------------------
(* doLogin and doLogout.                                                   *)

DoLogin(c, t) ==
    /\ overlay = "login" /\ call[c] = Free
    /\ token' = t
    /\ overlay' = "loading"
    /\ call' = [call EXCEPT ![c] = Call("login", t)]
    /\ lapsed' = FALSE
    /\ typed' = t
    /\ crossed' = ~Quiet
    /\ failed' = FALSE
    /\ UNCHANGED <<access, jwt, stored, timer, chart>>

DoLogout ==
    /\ overlay = "none"
    /\ stored' = "none" /\ token' = "none" /\ access' = FALSE
    /\ overlay' = "login"
    /\ typed' = "none" /\ crossed' = FALSE
    /\ UNCHANGED <<jwt, lapsed, timer, call, chart, failed>>

-----------------------------------------------------------------------------
(* loadDashboard and loadTrend.                                            *)

\* A request of the chart for range r; it is the newest one from now on.
Load(c, r) == [[d \in Calls |-> [call[d] EXCEPT !.newest = FALSE]]
                  EXCEPT ![c] = [Call("trend", token) EXCEPT !.range = r, !.newest = TRUE]]

LoadTrend(c, r) ==
    /\ call' = Load(c, r)
    /\ shown' = NoRange /\ overtaken' = FALSE /\ lapsed' = FALSE

\* switchTab to the dashboard.
Show(c) ==
    /\ overlay = "none" /\ call[c] = Free
    /\ Send(c, "dashboard")
    /\ UNCHANGED <<access, jwt, token, stored, overlay, timer, chart, history, failed>>

ChangeRange(c, r) ==
    /\ overlay = "none" /\ call[c] = Free
    /\ range' = r
    /\ LoadTrend(c, r)
    /\ UNCHANGED <<access, jwt, token, stored, overlay, timer, history, failed>>

-----------------------------------------------------------------------------
(* The answers.                                                            *)

\* The server judges a request some time between its sending and its answer, so
\* a JWT that expires or is renewed meanwhile may count or not.
MayAccept(c) == call[c].token = "good" \/ call[c].jwt \/ behind
MayRefuse(c) == call[c].token # "good" /\ ~(call[c].jwt /\ behind)

\* The chart takes whatever answer comes, the newest or not.
Draw(c, r) ==
    /\ shown' = r
    /\ overtaken' = ~call[c].newest
    /\ UNCHANGED range

\* doLogin keeps the token it was called with and goes on with initApp.
AnswerLogin(c) ==
    /\ call[c].kind = "login" /\ MayAccept(c)
    /\ stored' = call[c].token
    /\ overlay' = "none"
    /\ Send(c, "dashboard")
    /\ UNCHANGED <<access, jwt, token, timer, chart, history, failed>>

AnswerDashboard(c) ==
    /\ call[c].kind = "dashboard" /\ MayAccept(c)
    /\ LoadTrend(c, range)
    /\ UNCHANGED <<access, jwt, token, stored, overlay, timer, range, history, failed>>

AnswerTrend(c) ==
    /\ call[c].kind = "trend" /\ MayAccept(c)
    /\ call' = [call EXCEPT ![c] = Free]
    /\ Draw(c, call[c].range)
    /\ UNCHANGED <<access, jwt, lapsed, token, stored, overlay, timer, history, failed>>

\* The part of every answer that is about its kind alone.
Give(c) ==
    /\ call' = [call EXCEPT ![c] = Free]
    /\ IF call[c].kind = "trend" THEN Draw(c, NoRange) ELSE UNCHANGED chart

\* Mutant of Refuse: the login form comes up only when a token was dropped.
RefuseWithToken(c) ==
    /\ call[c] # Free /\ MayRefuse(c)
    /\ token' = "none"
    /\ stored' = IF token = "none" THEN stored ELSE "none"
    /\ overlay' = IF (token # "none" /\ ~access) \/ call[c].kind = "login"
                  THEN "login" ELSE overlay
    /\ Give(c)
    /\ UNCHANGED <<access, jwt, lapsed, timer, history, failed>>

\* apiCall on a 401 drops the token of the moment, whichever the request had.
Refuse(c) ==
    /\ call[c] # Free /\ MayRefuse(c)
    /\ token' = "none"
    /\ stored' = IF token = "none" THEN stored ELSE "none"
    /\ overlay' = IF ~access \/ call[c].kind = "login" THEN "login" ELSE overlay
    /\ Give(c)
    /\ UNCHANGED <<access, jwt, lapsed, timer, history, failed>>

\* A failed login drops the token; a failed load shows an error.
Break(c) ==
    /\ call[c] # Free
    /\ IF call[c].kind = "login"
       THEN token' = "none" /\ overlay' = "login"
       ELSE UNCHANGED <<token, overlay>>
    /\ failed' = TRUE
    /\ Give(c)
    /\ UNCHANGED <<access, jwt, lapsed, stored, timer, history>>

Next ==
    \/ AccessChanges \/ Timeout \/ DoLogout
    \/ \E c \in Calls :
          \/ Reload(c) \/ Show(c)
          \/ \E t \in {"good", "bad"} : DoLogin(c, t)
          \/ \E r \in Ranges : ChangeRange(c, r)
          \/ AnswerLogin(c) \/ AnswerDashboard(c) \/ AnswerTrend(c)
          \/ Refuse(c) \/ Break(c)

Spec == Init /\ [][Next]_vars

-----------------------------------------------------------------------------
(* Properties.                                                             *)

\* The page, the requests and the chart keep their type.
TypeOK ==
    /\ {access, behind, vouched, lapsed, timer, crossed, failed, overtaken} \subseteq BOOLEAN
    /\ {token, stored, typed} \subseteq Tokens
    /\ overlay \in {"loading", "login", "none"}
    /\ call \in [Calls -> [kind : {"free", "login", "dashboard", "trend"}, token : Tokens,
                           jwt : BOOLEAN, range : Ranges \cup {NoRange}, newest : BOOLEAN]]
    /\ range \in Ranges /\ shown \in Ranges \cup {NoRange}

\* Once every request is answered, a console without an overlay is one the
\* server accepts, however logins, logouts, late refusals and the timer cross
\* (initApp and apiCall in assets/pages/admin/app.js).  Three cases are excepted:
\* the network failed; the JWT has expired and nothing was asked since, so that
\* the next click finds out; or the page itself was asked for with an Access
\* header, and then a refusal shows no login form.
AppIsAuthorised ==
    Quiet /\ overlay = "none" /\ ~failed => token = "good" \/ behind \/ lapsed \/ access

\* The token is the fallback "when Access is not configured" (README.md): an
\* administrator the server has refused is asked for it.  A page that was asked
\* for with an Access header the server does not accept never asks, and leaves
\* him in front of an empty console until he logs out (apiCall in
\* assets/pages/admin/app.js, serveAdminPage in ui/static-pages.js).
FallbackOffered ==
    Quiet /\ overlay = "none" /\ ~failed => token = "good" \/ behind \/ lapsed

\* A refusal drops the token of the moment, so a late one can end a login that
\* succeeded.  Only a request that was in flight when the token was typed in, or
\* a failure, can: any other login with the right token stays, and is kept for
\* the next load of the page.  A token the server never accepted is kept only if
\* Access once vouched for the request it came with (doLogin and apiCall).
LoginKept ==
    /\ Quiet /\ typed = "good" /\ ~crossed /\ ~failed =>
          overlay = "none" /\ token = "good" /\ stored = "good"
    /\ stored = "bad" => vouched

\* The chart shows the range that is selected, unless an answer overtook a
\* newer one (changeTrendRange and loadTrend).
RangeShown == Quiet /\ ~overtaken => shown \in {range, NoRange}
=============================================================================
