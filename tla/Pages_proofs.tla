----------------------------- MODULE Pages_proofs -----------------------------
(***************************************************************************)
(* Proofs about the pages: for each of the five machines of MCPages its    *)
(* inductive invariant, and from them the properties of the run.  Every    *)
(* machine moves alone, so an invariant of one is kept by the others.      *)
(***************************************************************************)
EXTENDS MCPages, Integers, TLAPS

-----------------------------------------------------------------------------
(* The resend button.  Its interval has fired no more often than seconds   *)
(* have passed since it was set, and it was set when the code it counts    *)
(* from was there already; so a button that is on again is on late enough, *)
(* unless there is a code it does not count from.                          *)

\* The types of the button; one request is out while it waits for one.
ResendShape ==
    /\ now \in Nat /\ rows \subseteq Nat
    /\ button \in {"on", "sending", "counting"}
    /\ request \in {"none", "sent", "inserted", "ok", "error"}
    /\ request # "none" <=> button = "sending"
    /\ seconds \in Nat /\ ticks \in Nat /\ since \in Nat
    /\ foreign \in BOOLEAN

\* The seconds on the button and the ticks since its code make up the pause: a
\* code of this button is at least as old as the ticks say.
Countdown ==
    /\ \A at \in rows : at <= now
    /\ since + ticks <= now
    /\ button = "counting" => seconds + ticks = Gap /\ seconds # 0
    /\ ~foreign =>
          \A at \in rows : IF button = "counting" THEN at <= since ELSE at + Gap <= now

\* The invariant of the button that sends a code.
ResendInv == ResendShape /\ Countdown /\ ~early

\* The pause is a positive number of seconds.
LEMMA GapFact == Gap \in Nat /\ Gap > 0
BY PagesAssumption DEF Resend!ResendAssumption

\* The button begins without a code.
LEMMA ResendInit == ASSUME Resend!Init PROVE ResendInv
<1> USE DEF Resend!Init
<1>1. ResendShape
  <2>1. foreign \in BOOLEAN
      BY Zenon
  <2>2. request # "none" <=> button = "sending"
      OBVIOUS
  <2> QED BY <2>1, <2>2 DEF ResendShape
<1>2. Countdown
    BY DEF Countdown
<1>3. ~early
    BY Zenon
<1> QED BY <1>1, <1>2, <1>3 DEF ResendInv

\* A request that is refused for being early meets a code of elsewhere; a tick
\* that ends the countdown is the Gap-th.
LEMMA ResendStep == ASSUME ResendInv, [Resend!Next]_resendVars PROVE ResendInv'
<1> USE GapFact DEF ResendInv
<1>1. CASE Resend!Click
    BY <1>1 DEF Resend!Click, Resend!clock, ResendShape, Countdown
<1>2. CASE Resend!Arrive
  <2>1. CASE Resend!TooEarly
    <3>1. foreign
        BY <1>2, <2>1 DEF Resend!Arrive, Resend!TooEarly, ResendShape, Countdown
    <3> QED BY <1>2, <2>1, <3>1 DEF Resend!Arrive, Resend!clock, ResendShape, Countdown
  <2>2. CASE ~Resend!TooEarly
      BY <1>2, <2>2 DEF Resend!Arrive, Resend!clock, ResendShape, Countdown
  <2> QED BY <2>1, <2>2
<1>3. CASE Resend!Deliver
    BY <1>3 DEF Resend!Deliver, Resend!clock, ResendShape, Countdown
<1>4. CASE Resend!Elsewhere
    BY <1>4 DEF Resend!Elsewhere, Resend!clock, ResendShape, Countdown
<1>5. CASE Resend!Answer
  <2> USE <1>5 DEF Resend!Answer
  <2>1. ResendShape'
    <3>1. foreign' \in BOOLEAN
        BY Zenon
    <3>2. (request # "none" <=> button = "sending")'
        OBVIOUS
    <3> QED BY <3>1, <3>2 DEF ResendShape
  <2>2. Countdown'
      BY DEF ResendShape, Countdown
  <2>3. ~early'
      BY Zenon
  <2> QED BY <2>1, <2>2, <2>3
<1>6. CASE Resend!Refuse
    BY <1>6 DEF Resend!Refuse, Resend!clock, ResendShape, Countdown
<1>7. CASE Resend!Tick
    BY <1>7 DEF Resend!Tick, ResendShape, Countdown
<1>8. CASE Resend!Second
    BY <1>8 DEF Resend!Second, Resend!clock, ResendShape, Countdown
<1>9. CASE UNCHANGED resendVars
    BY <1>9 DEF resendVars, ResendShape, Countdown
<1> QED BY <1>1, <1>2, <1>3, <1>4, <1>5, <1>6, <1>7, <1>8, <1>9 DEF Resend!Next

-----------------------------------------------------------------------------
(* The console.  A shown page without the right token has a request in     *)
(* flight that is sure to be refused, wherever a refusal would clear it;   *)
(* and once the right token was typed in and nothing crossed it, every     *)
(* request carries it.                                                     *)

\* A place of a request that is taken.
Active(c) == adminCall[c].kind # "free"

Request == [kind : {"free", "login", "dashboard", "trend"}, token : Console!Tokens,
            jwt : BOOLEAN, range : Ranges \cup {NoRange}, newest : BOOLEAN]

ConsoleShape ==
    /\ access \in BOOLEAN /\ behind \in BOOLEAN /\ timer \in BOOLEAN
    /\ vouched \in BOOLEAN /\ lapsed \in BOOLEAN
    /\ crossed \in BOOLEAN /\ failed \in BOOLEAN /\ late \in BOOLEAN
    /\ adminToken \in Console!Tokens /\ adminStored \in Console!Tokens
    /\ typed \in Console!Tokens /\ overlay \in {"loading", "login", "none"}
    /\ adminCall \in [Calls -> Request]
    /\ range \in Ranges /\ drawn \in Ranges \cup {NoRange}

\* What came with a JWT that counted, and a bad token that was let in and stored,
\* came while Access vouched for the browser or after.
Vouched ==
    /\ behind => vouched
    /\ adminStored = "bad" => vouched
    /\ \A c \in Calls : adminCall[c].jwt => vouched

\* A request the server can only refuse while Access does not vouch for it.
Lost(c) == Active(c) /\ adminCall[c].token # "good" /\ ~adminCall[c].jwt

\* Where nothing failed, nothing vouches for the browser, nor did until its last
\* request, and the page was not told of Access, a console that is shown has the
\* right token, or a request on its way that the server is going to refuse.
Doubted ==
    overlay = "none" /\ ~failed /\ ~behind /\ ~lapsed /\ ~access =>
        adminToken = "good" \/ \E c \in Calls : Lost(c)

\* After a login with the right token that nothing crossed, no other token is
\* held or on its way.
Undisturbed ==
    typed = "good" /\ ~crossed /\ ~failed =>
        /\ adminToken = "good"
        /\ \A c \in Calls : adminCall[c] = Console!Free \/ adminCall[c].token = "good"
        /\ \/ overlay = "none" /\ adminStored = "good"
           \/ \E c \in Calls : adminCall[c].kind = "login"

\* The chart shows the range that was picked, and the newest request asks for it.
Charted ==
    /\ ~late => drawn \in {range, NoRange}
    /\ \A c \in Calls : adminCall[c].newest => adminCall[c].range = range

\* The invariant of the console.
ConsoleInv == ConsoleShape /\ Vouched /\ Doubted /\ Undisturbed /\ Charted

\* The shape is the type of the module.
LEMMA ConsoleTypes == ConsoleShape <=> Console!TypeOK
BY Zenon DEF ConsoleShape, Console!TypeOK, Request

\* A request is what its fields are.
LEMMA CallFields ==
    ASSUME behind \in BOOLEAN, NEW k \in {"login", "dashboard", "trend"}, NEW t \in Console!Tokens
    PROVE  /\ Console!Free \in Request /\ Console!Call(k, t) \in Request
           /\ Console!Free.kind = "free" /\ Console!Free.newest = FALSE
           /\ Console!Call(k, t).kind = k /\ Console!Call(k, t).token = t
           /\ Console!Call(k, t).newest = FALSE /\ Console!Call(k, t).jwt = behind
BY Zenon DEF Console!Free, Console!Call, Request, Console!Tokens

\* No request is in flight when every place for one is free.
LEMMA FreeRequest ==
    Console!Free.kind = "free" /\ Console!Free.jwt = FALSE /\ Console!Free.newest = FALSE
BY DEF Console!Free

\* There is a range to begin with.
LEMMA ConsoleFacts == (CHOOSE r \in Ranges : TRUE) \in Ranges /\ NoRange \notin Ranges
BY PagesAssumption DEF Console!ConsoleAssumption

\* The other requests are as they were, but maybe not the newest any more.
Others(c) ==
    \A d \in Calls \ {c} :
        /\ adminCall'[d].kind = adminCall[d].kind /\ adminCall'[d].token = adminCall[d].token
        /\ adminCall'[d].jwt = adminCall[d].jwt
        /\ adminCall'[d].newest = FALSE \/ adminCall'[d] = adminCall[d]
        /\ adminCall[d] = Console!Free => adminCall'[d] = Console!Free

\* What becomes of the requests when one takes a free place, ...
LEMMA SendEffect ==
    ASSUME ConsoleShape, NEW c \in Calls, NEW k \in {"login", "dashboard", "trend"},
           NEW t \in Console!Tokens, adminCall' = [adminCall EXCEPT ![c] = Console!Call(k, t)]
    PROVE  /\ adminCall' \in [Calls -> Request] /\ Others(c)
           /\ adminCall'[c].kind = k /\ adminCall'[c].token = t /\ adminCall'[c].newest = FALSE
           /\ adminCall'[c].jwt = behind
<1>2. /\ Console!Call(k, t) \in Request /\ Console!Call(k, t).kind = k
      /\ Console!Call(k, t).token = t /\ Console!Call(k, t).newest = FALSE
      /\ Console!Call(k, t).jwt = behind
  <2>1. behind \in BOOLEAN
      BY DEF ConsoleShape
  <2> QED BY <2>1, Zenon DEF Console!Free, Console!Call, Request, Console!Tokens
<1> HIDE DEF Console!Call, Request
<1> QED BY <1>2 DEF ConsoleShape, Others

\* ... when it is one of the chart, ...
LEMMA LoadEffect ==
    ASSUME ConsoleShape, NEW c \in Calls, NEW r \in Ranges, adminCall' = Console!Load(c, r)
    PROVE  /\ adminCall' \in [Calls -> Request] /\ Others(c)
           /\ adminCall'[c].kind = "trend" /\ adminCall'[c].token = adminToken
           /\ adminCall'[c].range = r /\ adminCall'[c].jwt = behind
           /\ \A d \in Calls \ {c} : adminCall'[d].newest = FALSE
<1> DEFINE new == [Console!Call("trend", adminToken) EXCEPT !.range = r, !.newest = TRUE]
<1> DEFINE older == [d \in Calls |-> [adminCall[d] EXCEPT !.newest = FALSE]]
<1>1. new \in Request /\ new.kind = "trend" /\ new.token = adminToken /\ new.range = r
      /\ new.jwt = behind
    BY DEF ConsoleShape, Request, Console!Call, Console!Free
<1>2. ASSUME NEW d \in Calls
      PROVE  /\ older[d] \in Request /\ older[d].kind = adminCall[d].kind
             /\ older[d].token = adminCall[d].token /\ older[d].newest = FALSE
             /\ older[d].jwt = adminCall[d].jwt
  <2>1. adminCall[d] \in Request
      BY DEF ConsoleShape
  <2> QED BY <2>1 DEF Request
<1>6. ASSUME NEW d \in Calls, adminCall[d] = Console!Free PROVE older[d] = Console!Free
  <2>1. adminCall[d] \in Request /\ adminCall[d].newest = FALSE
      BY <1>6, FreeRequest DEF ConsoleShape
  <2>2. [adminCall[d] EXCEPT !.newest = FALSE] = adminCall[d]
      BY <2>1 DEF Request
  <2> QED BY <1>6, <2>2, Zenon
<1>3. adminCall' = [older EXCEPT ![c] = new]
    BY DEF Console!Load
<1>4. DOMAIN older = Calls
    OBVIOUS
<1> HIDE DEF new, older, Request
<1>5. adminCall' = [d \in Calls |-> IF d = c THEN new ELSE older[d]]
    BY <1>3, <1>4 DEF older
<1> QED BY <1>1, <1>2, <1>5, <1>6 DEF Others

\* ... and when one is over.
LEMMA FreeEffect ==
    ASSUME ConsoleShape, NEW c \in Calls, adminCall' = [adminCall EXCEPT ![c] = Console!Free]
    PROVE  /\ adminCall' \in [Calls -> Request] /\ Others(c)
           /\ adminCall'[c] = Console!Free
           /\ adminCall'[c].kind = "free" /\ adminCall'[c].newest = FALSE
           /\ adminCall'[c].jwt = FALSE
<1>1. /\ Console!Free \in Request /\ Console!Free.kind = "free" /\ Console!Free.newest = FALSE
      /\ Console!Free.jwt = FALSE
    BY ConsoleFacts DEF Console!Free, Request, Console!Tokens
<1> HIDE DEF Console!Free, Request
<1> QED BY <1>1 DEF ConsoleShape, Others

\* The page of an old token has a request that will be refused.
LEMMA ConsoleInit == ASSUME Console!Init PROVE ConsoleInv
<1> USE ConsoleFacts
<1>1. /\ adminToken \in {"none", "good", "old"} /\ adminStored = adminToken
      /\ adminToken \in Console!Tokens
    BY DEF Console!Init, Console!Tokens
<1>2. /\ access \in BOOLEAN /\ behind \in BOOLEAN /\ timer \in BOOLEAN
      /\ vouched = behind /\ lapsed = FALSE
    BY Zenon DEF Console!Init
<1>3. /\ adminCall \in [Calls -> Request] /\ overlay \in {"none", "login"}
      /\ \A d \in Calls : adminCall[d].newest = FALSE
      /\ overlay = "none" =>
            access \/ \E c \in Calls : Active(c) /\ adminCall[c].token = adminToken
                                   /\ adminCall[c].jwt = behind
      /\ \A c \in Calls : adminCall[c].jwt => behind
  <2>1. CASE overlay = "none"
    <3>1. PICK c \in Calls :
              adminCall = [d \in Calls |-> IF d = c THEN Console!Call("dashboard", adminToken)
                                                    ELSE Console!Free]
        BY <2>1 DEF Console!Init
    <3>2. /\ Console!Call("dashboard", adminToken) \in Request
          /\ Console!Call("dashboard", adminToken).kind = "dashboard"
          /\ Console!Call("dashboard", adminToken).token = adminToken
          /\ Console!Call("dashboard", adminToken).newest = FALSE
          /\ Console!Call("dashboard", adminToken).jwt = behind
          /\ Console!Free \in Request /\ Console!Free.newest = FALSE /\ Console!Free.jwt = FALSE
        BY <1>1, <1>2, CallFields, FreeRequest
    <3> QED BY <2>1, <3>1, <3>2 DEF Active
  <2>2. CASE overlay # "none"
    <3>1. overlay = "login" /\ adminCall = [d \in Calls |-> Console!Free]
        BY <2>2 DEF Console!Init
    <3>2. Console!Free \in Request /\ Console!Free.newest = FALSE /\ Console!Free.jwt = FALSE
        BY <1>1, <1>2, CallFields, FreeRequest
    <3> QED BY <2>2, <3>1, <3>2
  <2> QED BY <2>1, <2>2
<1>4. /\ typed = "none" /\ crossed \in BOOLEAN /\ failed \in BOOLEAN /\ late \in BOOLEAN
      /\ range \in Ranges /\ drawn = NoRange
    BY Zenon DEF Console!Init
<1>5. ConsoleShape
    BY <1>1, <1>2, <1>3, <1>4 DEF ConsoleShape, Console!Tokens
<1>6. Vouched
    BY <1>1, <1>2, <1>3 DEF Vouched
<1>7. Doubted
    BY <1>2, <1>3 DEF Doubted, Lost
<1>8. Undisturbed
    BY <1>4 DEF Undisturbed
<1>9. Charted
    BY <1>3, <1>4 DEF Charted
<1> QED BY <1>5, <1>6, <1>7, <1>8, <1>9 DEF ConsoleInv

\* A token the server refuses is dropped and the page with it, and nothing but a
\* request that crossed the right token's login carries another.
LEMMA ConsoleStep == ASSUME ConsoleInv, [Console!Next]_consoleVars PROVE ConsoleInv'
<1> USE ConsoleFacts DEF ConsoleInv, Console!chart, Console!history, Console!jwt
<1>0. /\ adminToken \in Console!Tokens /\ adminStored \in Console!Tokens /\ range \in Ranges
      /\ "good" \in Console!Tokens /\ "bad" \in Console!Tokens /\ "none" \in Console!Tokens
      /\ Console!Free \in Request /\ Console!Free.kind = "free" /\ Console!Free.newest = FALSE
      /\ behind \in BOOLEAN
    BY CallFields DEF ConsoleShape, Console!Tokens
<1>1. CASE Console!Timeout
    BY <1>1 DEF Console!Timeout, ConsoleShape, Vouched, Doubted, Lost, Undisturbed, Active, Charted
<1>2. CASE Console!DoLogout
    BY <1>0, <1>2
    DEF Console!DoLogout, ConsoleShape, Vouched, Doubted, Lost, Undisturbed, Active, Charted
<1>3. ASSUME NEW c \in Calls, Console!Reload(c) PROVE ConsoleInv'
  <2>1. /\ adminCall' \in [Calls -> Request] /\ overlay' \in {"none", "login"}
        /\ \A d \in Calls : adminCall'[d].newest = FALSE
        /\ overlay' = "none" =>
              \/ access'
              \/ Active(c)' /\ adminCall'[c].token = adminStored /\ adminCall'[c].jwt = behind
        /\ \A d \in Calls : adminCall'[d].jwt => behind
    <3>1. /\ Console!Call("dashboard", adminStored) \in Request
          /\ Console!Call("dashboard", adminStored).kind = "dashboard"
          /\ Console!Call("dashboard", adminStored).token = adminStored
          /\ Console!Call("dashboard", adminStored).newest = FALSE
          /\ Console!Call("dashboard", adminStored).jwt = behind /\ Console!Free.jwt = FALSE
        BY <1>0, CallFields, FreeRequest
    <3> QED BY <1>0, <1>3, <3>1 DEF Console!Reload, Console!Begin, Active
  <2>2. ConsoleShape'
      BY <1>0, <1>3, <2>1 DEF Console!Reload, Console!Begin, ConsoleShape
  <2>3. Vouched'
      BY <1>3, <2>1 DEF Console!Reload, Console!Begin, ConsoleShape, Vouched, Others
  <2>4. Doubted'
      BY <1>3, <2>1
      DEF Console!Reload, Console!Begin, ConsoleShape, Vouched, Doubted, Lost,
          Active, Others
  <2>5. Undisturbed'
      BY <1>0, <1>3, <2>1 DEF Console!Reload, Console!Begin, ConsoleShape, Undisturbed, Others
  <2>6. Charted'
      BY <1>3, <2>1 DEF Console!Reload, Console!Begin, ConsoleShape, Charted, Others
  <2> QED BY <2>2, <2>3, <2>4, <2>5, <2>6
<1>4. ASSUME NEW c \in Calls, NEW t \in {"good", "bad"}, Console!DoLogin(c, t) PROVE ConsoleInv'
  <2>1. /\ adminCall' \in [Calls -> Request] /\ Others(c)
        /\ adminCall'[c].kind = "login" /\ adminCall'[c].token = t /\ adminCall'[c].newest = FALSE
        /\ adminCall'[c].jwt = behind
      BY <1>0, <1>4, SendEffect DEF Console!DoLogin
  <2>2. ConsoleShape'
      BY <1>0, <1>4, <2>1 DEF Console!DoLogin, ConsoleShape
  <2>3. Vouched'
      BY <1>4, <2>1 DEF Console!DoLogin, ConsoleShape, Vouched, Others
  <2>4. Doubted'
      BY <1>4, <2>1 DEF Console!DoLogin, ConsoleShape, Vouched, Doubted, Lost,
          Active, Others
  <2>5. Undisturbed'
      BY <1>0, <1>4, <2>1 DEF Console!DoLogin, ConsoleShape, Undisturbed, Others, Console!Quiet
  <2>6. Charted'
      BY <1>4, <2>1 DEF Console!DoLogin, ConsoleShape, Charted, Others
  <2> QED BY <2>2, <2>3, <2>4, <2>5, <2>6
<1>5. ASSUME NEW c \in Calls, Console!Show(c) PROVE ConsoleInv'
  <2>1. /\ adminCall' \in [Calls -> Request] /\ Others(c) /\ adminCall[c].kind = "free"
        /\ adminCall'[c].kind = "dashboard" /\ adminCall'[c].token = adminToken
        /\ adminCall'[c].newest = FALSE /\ adminCall'[c].jwt = behind
      BY <1>0, <1>5, SendEffect, CallFields DEF Console!Show, Console!Send
  <2>2. ConsoleShape'
      BY <1>0, <1>5, <2>1 DEF Console!Show, Console!Send, ConsoleShape
  <2>3. Vouched'
      BY <1>5, <2>1 DEF Console!Show, Console!Send, ConsoleShape, Vouched, Others
  <2>4. Doubted'
      BY <1>5, <2>1
      DEF Console!Show, Console!Send, ConsoleShape, Vouched, Doubted, Lost,
          Active, Others
  <2>5. Undisturbed'
      BY <1>0, <1>5, <2>1 DEF Console!Show, Console!Send, ConsoleShape, Undisturbed, Others
  <2>6. Charted'
      BY <1>5, <2>1 DEF Console!Show, Console!Send, ConsoleShape, Charted, Others
  <2> QED BY <2>2, <2>3, <2>4, <2>5, <2>6
<1>6. ASSUME NEW c \in Calls, NEW r \in Ranges, Console!ChangeRange(c, r) PROVE ConsoleInv'
  <2>1. /\ adminCall' \in [Calls -> Request] /\ Others(c) /\ adminCall[c].kind = "free"
        /\ adminCall'[c].kind = "trend" /\ adminCall'[c].token = adminToken
        /\ \A d \in Calls \ {c} : adminCall'[d].newest = FALSE
        /\ adminCall'[c].range = r /\ adminCall'[c].jwt = behind
    <3>1. adminCall[c] = Console!Free /\ adminCall' = Console!Load(c, r)
        BY <1>6 DEF Console!ChangeRange, Console!LoadTrend
    <3> QED BY <1>0, <3>1, LoadEffect
  <2>2. ConsoleShape'
      BY <1>0, <1>6, <2>1 DEF Console!ChangeRange, Console!LoadTrend, ConsoleShape
  <2>3. Vouched'
      BY <1>6, <2>1 DEF Console!ChangeRange, Console!LoadTrend, ConsoleShape, Vouched, Others
  <2>4. Doubted'
      BY <1>6, <2>1
      DEF Console!ChangeRange, Console!LoadTrend, ConsoleShape, Vouched, Doubted, Lost,
          Active, Others
  <2>5. Undisturbed'
      BY <1>0, <1>6, <2>1
      DEF Console!ChangeRange, Console!LoadTrend, ConsoleShape, Undisturbed, Others
  <2>6. Charted'
      BY <1>6, <2>1 DEF Console!ChangeRange, Console!LoadTrend, ConsoleShape, Charted, Others
  <2> QED BY <2>2, <2>3, <2>4, <2>5, <2>6
<1>7. ASSUME NEW c \in Calls, Console!AnswerLogin(c) PROVE ConsoleInv'
  <2>1. /\ adminCall' \in [Calls -> Request] /\ Others(c)
        /\ adminCall'[c].kind = "dashboard" /\ adminCall'[c].token = adminToken
        /\ adminCall'[c].newest = FALSE /\ adminCall'[c].jwt = behind
        /\ adminCall[c].token = "good" \/ adminCall[c].jwt \/ behind
        /\ adminCall[c].token \in Console!Tokens
      BY <1>0, <1>7, SendEffect
      DEF Console!AnswerLogin, Console!Send, Console!MayAccept, ConsoleShape, Request
  <2>2. ConsoleShape'
      BY <1>0, <1>7, <2>1 DEF Console!AnswerLogin, Console!Send, ConsoleShape
  <2>3. Vouched'
      BY <1>7, <2>1 DEF Console!AnswerLogin, Console!Send, ConsoleShape, Vouched, Others
  <2>4. Doubted'
      BY <1>7, <2>1
      DEF Console!AnswerLogin, Console!Send, ConsoleShape, Vouched, Doubted, Lost,
          Active, Others
  <2>5. Undisturbed'
      BY <1>0, <1>7, <2>1 DEF Console!AnswerLogin, Console!Send, ConsoleShape, Undisturbed, Others
  <2>6. Charted'
      BY <1>7, <2>1 DEF Console!AnswerLogin, Console!Send, ConsoleShape, Charted, Others
  <2> QED BY <2>2, <2>3, <2>4, <2>5, <2>6
<1>8. ASSUME NEW c \in Calls, Console!AnswerDashboard(c) PROVE ConsoleInv'
  <2>1. /\ adminCall' \in [Calls -> Request] /\ Others(c)
        /\ adminCall'[c].kind = "trend" /\ adminCall'[c].token = adminToken
        /\ \A d \in Calls \ {c} : adminCall'[d].newest = FALSE
        /\ adminCall'[c].range = range /\ adminCall'[c].jwt = behind
      BY <1>0, <1>8, LoadEffect DEF Console!AnswerDashboard, Console!LoadTrend
  <2>2. ConsoleShape'
      BY <1>0, <1>8, <2>1 DEF Console!AnswerDashboard, Console!LoadTrend, ConsoleShape
  <2>3. Vouched'
      BY <1>8, <2>1 DEF Console!AnswerDashboard, Console!LoadTrend, ConsoleShape, Vouched, Others
  <2>4. Doubted'
      BY <1>8, <2>1
      DEF Console!AnswerDashboard, Console!LoadTrend, ConsoleShape, Vouched, Doubted, Lost,
          Active, Others
  <2>5. Undisturbed'
      BY <1>0, <1>8, <2>1
      DEF Console!AnswerDashboard, Console!LoadTrend, ConsoleShape, Undisturbed, Others
  <2>6. Charted'
      BY <1>8, <2>1 DEF Console!AnswerDashboard, Console!LoadTrend, ConsoleShape, Charted, Others
  <2> QED BY <2>2, <2>3, <2>4, <2>5, <2>6
<1>9. ASSUME NEW c \in Calls, Console!AnswerTrend(c) PROVE ConsoleInv'
  <2>1. /\ adminCall' \in [Calls -> Request] /\ Others(c)
        /\ adminCall'[c].kind = "free" /\ adminCall'[c].newest = FALSE /\ adminCall'[c].jwt = FALSE
        /\ adminCall[c].token = "good" \/ adminCall[c].jwt \/ behind
        /\ adminCall[c].range \in Ranges \cup {NoRange} /\ adminCall[c].newest \in BOOLEAN
      BY <1>0, <1>9, FreeEffect DEF Console!AnswerTrend, Console!MayAccept, ConsoleShape, Request
  <2>2. ConsoleShape'
      BY <1>0, <1>9, <2>1 DEF Console!AnswerTrend, Console!Draw, ConsoleShape
  <2>3. Vouched'
      BY <1>9, <2>1 DEF Console!AnswerTrend, Console!Draw, ConsoleShape, Vouched, Others
  <2>4. Doubted'
      BY <1>9, <2>1
      DEF Console!AnswerTrend, Console!Draw, ConsoleShape, Vouched, Doubted, Lost,
          Active, Others
  <2>5. Undisturbed'
      BY <1>0, <1>9, <2>1 DEF Console!AnswerTrend, Console!Draw, ConsoleShape, Undisturbed, Others
  <2>6. Charted'
      BY <1>9, <2>1 DEF Console!AnswerTrend, Console!Draw, ConsoleShape, Charted, Others
  <2> QED BY <2>2, <2>3, <2>4, <2>5, <2>6
<1>10. ASSUME NEW c \in Calls, Console!Refuse(c) PROVE ConsoleInv'
  <2>1. /\ adminCall' \in [Calls -> Request] /\ Others(c)
        /\ adminCall'[c].kind = "free" /\ adminCall'[c].newest = FALSE /\ adminCall'[c].jwt = FALSE
        /\ adminCall[c].newest \in BOOLEAN
        /\ adminCall[c].token # "good"
      BY <1>0, <1>10, FreeEffect
      DEF Console!Refuse, Console!Give, Console!MayRefuse, ConsoleShape, Request
  <2>2. ConsoleShape'
      BY <1>0, <1>10, <2>1 DEF Console!Refuse, Console!Give, Console!Draw, ConsoleShape
  <2>3. Vouched'
      BY <1>10, <2>1 DEF Console!Refuse, Console!Give, Console!Draw, ConsoleShape, Vouched, Others
  <2>4. Doubted'
      BY <1>10, <2>1
      DEF Console!Refuse, Console!Give, Console!Draw, ConsoleShape, Vouched, Doubted, Lost,
          Active, Others
  <2>5. Undisturbed'
      BY <1>0, <1>10, <2>1
      DEF Console!Refuse, Console!Give, Console!Draw, ConsoleShape, Undisturbed, Others
  <2>6. Charted'
      BY <1>10, <2>1 DEF Console!Refuse, Console!Give, Console!Draw, ConsoleShape, Charted, Others
  <2> QED BY <2>2, <2>3, <2>4, <2>5, <2>6
<1>11. ASSUME NEW c \in Calls, Console!Break(c) PROVE ConsoleInv'
  <2>1. /\ adminCall' \in [Calls -> Request] /\ Others(c)
        /\ adminCall'[c].kind = "free" /\ adminCall'[c].newest = FALSE /\ adminCall'[c].jwt = FALSE
        /\ adminCall[c].newest \in BOOLEAN
      BY <1>0, <1>11, FreeEffect DEF Console!Break, Console!Give, ConsoleShape, Request
  <2>2. ConsoleShape'
      BY <1>0, <1>11, <2>1 DEF Console!Break, Console!Give, Console!Draw, ConsoleShape
  <2>3. Vouched'
      BY <1>11, <2>1 DEF Console!Break, Console!Give, Console!Draw, ConsoleShape, Vouched, Others
  <2>4. Doubted'
      BY <1>11, <2>1
      DEF Console!Break, Console!Give, Console!Draw, ConsoleShape, Vouched, Doubted, Lost,
          Active, Others
  <2>5. Undisturbed'
      BY <1>0, <1>11, <2>1
      DEF Console!Break, Console!Give, Console!Draw, ConsoleShape, Undisturbed, Others
  <2>6. Charted'
      BY <1>11, <2>1 DEF Console!Break, Console!Give, Console!Draw, ConsoleShape, Charted, Others
  <2> QED BY <2>2, <2>3, <2>4, <2>5, <2>6
<1>12. CASE Console!AccessChanges
    BY <1>12 DEF Console!AccessChanges, ConsoleShape, Vouched, Doubted, Lost, Undisturbed, Active,
                 Charted
<1>13. CASE UNCHANGED consoleVars
    BY <1>13 DEF consoleVars, ConsoleShape, Vouched, Doubted, Lost, Undisturbed, Active, Charted
<1> QED BY <1>1, <1>2, <1>3, <1>4, <1>5, <1>6, <1>7, <1>8, <1>9, <1>10, <1>11, <1>12,
       <1>13 DEF Console!Next

-----------------------------------------------------------------------------
(* The forms: a field that was not touched is shown as it was read, and it *)
(* was read as the row has it unless the field is stale.                   *)

\* A field that is not stale is the row's in the list of the tab, and as the form
\* shows it in the form when it was not touched there.
FormKept(t) ==
    /\ sent[t] => editForm[t] # NoRow
    /\ editForm[t] # NoRow => list[t] # NoRow
    /\ list[t] # NoRow =>
          \A f \in Edits!Fields \ stale[t] : list[t][f] = row[f]
    /\ editForm[t] # NoRow =>
          \A f \in Edits!Fields \ (touched[t] \cup stale[t]) :
              editForm[t][f] = Edits!Shown(row)[f]

\* The invariant of the forms.
EditsInv == Edits!TypeOK /\ \A t \in Tabs : FormKept(t)

\* What an hour can be moved to is an hour.
LEMMA EditsFacts ==
    /\ Default \in Limits /\ MaxHour \in Nat /\ Hours \subseteq -MaxHour .. MaxHour
    /\ Edits!Fields = {"enabled", "limit", "expiry"}
    /\ \A h \in -MaxHour .. MaxHour : h \in Int
BY PagesAssumption DEF Edits!EditsAssumption, Edits!Fields

\* Nothing is read and no form is open at first.
LEMMA EditsInit == ASSUME Edits!Init PROVE EditsInv
<1> USE EditsFacts DEF Edits!Init
<1>1. row \in Edits!Row
    BY DEF Edits!Row, Edits!Expiry, Edits!Texts
<1>2. Edits!TypeOK
    BY <1>1 DEF Edits!TypeOK
<1> QED BY <1>1, <1>2 DEF EditsInv, FormKept

\* A row is what its fields are.
LEMMA RowFields ==
    ASSUME NEW r \in Edits!Row
    PROVE  /\ DOMAIN r = Edits!Fields
           /\ r.enabled \in BOOLEAN /\ r.limit \in Limits /\ r.expiry \in Edits!Expiry
           /\ \A v \in BOOLEAN : [r EXCEPT !.enabled = v] \in Edits!Row
           /\ \A v \in Limits : [r EXCEPT !.limit = v] \in Edits!Row
BY DEF Edits!Row, Edits!Fields

\* The form of a row is a row; nothing but the text of an expiry is changed in it,
\* and that only where it is not exact to the minute.
LEMMA ShownFields ==
    ASSUME NEW r \in Edits!Row
    PROVE  /\ Edits!Shown(r) \in Edits!Row
           /\ \A f \in Edits!Fields \ {"expiry"} : Edits!Shown(r)[f] = r[f]
           /\ r.expiry.text \in {"never", "minute"} => Edits!Shown(r).expiry = r.expiry
           /\ Edits!Shown(r).expiry.text = "never" <=> r.expiry.text \in {"never", "day"}
BY DEF Edits!Row, Edits!Fields, Edits!Expiry, Edits!Texts, Edits!Shown

\* What is shown of a field depends on the field alone.
LEMMA ShownAlike ==
    ASSUME NEW r \in Edits!Row, NEW q \in Edits!Row, NEW f \in Edits!Fields, r[f] = q[f]
    PROVE  Edits!Shown(r)[f] = Edits!Shown(q)[f]
BY DEF Edits!Row, Edits!Fields, Edits!Expiry, Edits!Shown

\* A field that a write changes is stale from then on, in the tabs that know the
\* row; in the others nothing has to be kept.
LEMMA RowKept ==
    ASSUME EditsInv, NEW new \in Edits!Row, NEW t \in Tabs, row' = new,
           list'[t] = NoRow \/ list'[t] = list[t], list'[t] = NoRow => editForm'[t] = NoRow,
           editForm'[t] = NoRow \/ editForm'[t] = editForm[t],
           editForm'[t] # NoRow => touched'[t] = touched[t],
           list'[t] # NoRow => stale'[t] = stale[t] \cup Edits!Differing(new, row),
           sent'[t] => editForm'[t] # NoRow
    PROVE  FormKept(t)'
<1>1. row \in Edits!Row /\ FormKept(t)
    BY DEF EditsInv, Edits!TypeOK
<1>2. ASSUME list'[t] # NoRow, NEW f \in Edits!Fields \ stale'[t] PROVE list'[t][f] = new[f]
    BY <1>1, <1>2 DEF FormKept, Edits!Differing
<1>3. ASSUME editForm'[t] # NoRow, NEW f \in Edits!Fields \ (touched'[t] \cup stale'[t])
      PROVE  editForm'[t][f] = Edits!Shown(new)[f]
  <2>1. new[f] = row[f] /\ editForm[t][f] = Edits!Shown(row)[f]
      BY <1>1, <1>3 DEF FormKept, Edits!Differing
  <2> QED BY <1>1, <1>3, <2>1, ShownAlike
<1>4. Edits!Shown(row)' = Edits!Shown(new)
    BY DEF Edits!Shown
<1> QED BY <1>2, <1>3, <1>4 DEF FormKept, Edits!Fields

\* What is read, typed and written are rows, and every field a write changes is
\* stale in the tabs that know the row.
LEMMA EditsStep == ASSUME EditsInv, [Edits!Next]_editVars PROVE EditsInv'
<1> USE EditsFacts, RowFields
<1>1. CASE Edits!Refresh
    BY <1>1 DEF Edits!Refresh, EditsInv, Edits!TypeOK, FormKept, Edits!Fields, Edits!Shown
<1>2. ASSUME NEW a \in Tabs, Edits!Read(a) PROVE EditsInv'
  <2>1. PICK r \in Edits!Lists : /\ list' = [list EXCEPT ![a] = r]
                                 /\ stale' = [stale EXCEPT ![a] = Edits!Differing(r, row)]
      BY <1>2 DEF Edits!Read
  <2>2. r \in Edits!Row
    <3>1. CASE kind = "key"
        BY <3>1 DEF Edits!Lists, EditsInv, Edits!TypeOK
    <3>2. CASE kind # "key"
      <4>1. PICK q \in {row, cached}, l \in {row.limit, Default} : r = [q EXCEPT !.limit = l]
          BY <3>2 DEF Edits!Lists
      <4>2. q \in Edits!Row /\ l \in Limits
          BY DEF EditsInv, Edits!TypeOK
      <4> QED BY <4>1, <4>2
    <3> QED BY <3>1, <3>2
  <2>3. Edits!TypeOK'
    <3>1. Edits!Differing(r, row) \subseteq Edits!Fields
        BY DEF Edits!Differing
    <3> QED BY <1>2, <2>1, <2>2, <3>1 DEF Edits!Read, EditsInv, Edits!TypeOK
  <2>4. ASSUME NEW t \in Tabs PROVE FormKept(t)'
    <3>1. CASE t = a
      <4>1. list'[a] = r /\ stale'[a] = Edits!Differing(r, row)
          BY <2>1, Zenon DEF EditsInv, Edits!TypeOK
      <4>2. editForm[a] = NoRow /\ ~sent[a]
          BY <1>2 DEF Edits!Read, EditsInv, FormKept
      <4> QED BY <1>2, <3>1, <4>1, <4>2 DEF Edits!Read, FormKept, Edits!Differing, Edits!Fields
    <3>2. CASE t # a
      <4>1. list'[t] = list[t] /\ stale'[t] = stale[t]
          BY <2>1, <3>2 DEF EditsInv, Edits!TypeOK
      <4> QED BY <1>2, <4>1 DEF Edits!Read, EditsInv, FormKept, Edits!Fields, Edits!Shown
    <3> QED BY <3>1, <3>2
  <2> QED BY <2>3, <2>4 DEF EditsInv
<1>3. ASSUME NEW a \in Tabs, Edits!Open(a) PROVE EditsInv'
  <2>1. /\ list[a] \in Edits!Row /\ row \in Edits!Row /\ Edits!Shown(list[a]) \in Edits!Row
      BY <1>3, ShownFields DEF Edits!Open, EditsInv, Edits!TypeOK
  <2>2. Edits!TypeOK'
      BY <1>3, <2>1 DEF Edits!Open, EditsInv, Edits!TypeOK
  <2>3. ASSUME NEW t \in Tabs PROVE FormKept(t)'
    <3>1. CASE t = a
      <4>1. editForm'[a] = Edits!Shown(list[a]) /\ touched'[a] = {}
          BY <1>3 DEF Edits!Open, EditsInv, Edits!TypeOK
      <4>2. ASSUME NEW f \in Edits!Fields \ stale[a]
            PROVE  list[a][f] = row[f] /\ Edits!Shown(list[a])[f] = Edits!Shown(row)[f]
          BY <1>3, <2>1, ShownAlike DEF Edits!Open, EditsInv, FormKept
      <4> QED BY <1>3, <3>1, <4>1, <4>2
              DEF Edits!Open, EditsInv, FormKept, Edits!Fields, Edits!Shown
    <3>2. CASE t # a
      <4>1. editForm'[t] = editForm[t] /\ touched'[t] = touched[t]
          BY <1>3, <3>2 DEF Edits!Open, EditsInv, Edits!TypeOK
      <4> QED BY <1>3, <4>1 DEF Edits!Open, EditsInv, FormKept, Edits!Fields, Edits!Shown
    <3> QED BY <3>1, <3>2
  <2> QED BY <2>2, <2>3 DEF EditsInv
<1>4. ASSUME NEW a \in Tabs, Edits!Type(a) PROVE EditsInv'
  <2>1. PICK f \in Edits!Fields \ {"expiry"} :
            /\ \E v \in IF f = "enabled" THEN BOOLEAN ELSE Limits :
                  editForm' = [editForm EXCEPT ![a][f] = v]
            /\ touched' = [touched EXCEPT ![a] = @ \cup {f}]
      BY <1>4 DEF Edits!Type
  <2>2. PICK v \in IF f = "enabled" THEN BOOLEAN ELSE Limits :
            editForm' = [editForm EXCEPT ![a] = [editForm[a] EXCEPT ![f] = v]]
      BY <2>1
  <2>3. editForm[a] \in Edits!Row
      BY <1>4 DEF Edits!Type, EditsInv, Edits!TypeOK
  <2>4. [editForm[a] EXCEPT ![f] = v] \in Edits!Row
      BY <2>3
  <2>5. Edits!TypeOK'
    <3>1. editForm' \in [Tabs -> Edits!Row \cup {NoRow}]
        BY <2>2, <2>4 DEF EditsInv, Edits!TypeOK
    <3>2. touched' \in [Tabs -> SUBSET Edits!Fields]
        BY <2>1 DEF EditsInv, Edits!TypeOK
    <3> QED BY <1>4, <3>1, <3>2 DEF Edits!Type, EditsInv, Edits!TypeOK
  <2>6. ASSUME NEW t \in Tabs PROVE FormKept(t)'
    <3>1. CASE t = a
      <4>1. /\ editForm'[a] = [editForm[a] EXCEPT ![f] = v] /\ touched'[a] = touched[a] \cup {f}
            /\ editForm[a] # NoRow /\ FormKept(a)
          BY <1>4, <2>1, <2>2 DEF Edits!Type, EditsInv, Edits!TypeOK
      <4>2. ASSUME NEW g \in Edits!Fields \ (touched'[a] \cup stale[a])
            PROVE  editForm'[a][g] = Edits!Shown(row)[g]
          BY <2>3, <4>1, <4>2 DEF FormKept
      <4> QED BY <1>4, <3>1, <4>1, <4>2 DEF Edits!Type, FormKept, Edits!Fields, Edits!Shown
    <3>2. CASE t # a
      <4>1. editForm'[t] = editForm[t] /\ touched'[t] = touched[t]
          BY <2>1, <2>2, <3>2 DEF EditsInv, Edits!TypeOK
      <4> QED BY <1>4, <4>1 DEF Edits!Type, EditsInv, FormKept, Edits!Fields, Edits!Shown
    <3> QED BY <3>1, <3>2
  <2> QED BY <2>5, <2>6 DEF EditsInv
<1>5. ASSUME NEW a \in Tabs, Edits!Close(a) PROVE EditsInv'
    BY <1>5 DEF Edits!Close, EditsInv, Edits!TypeOK, FormKept, Edits!Fields, Edits!Shown
<1>6. ASSUME NEW a \in Tabs, Edits!Submit(a) PROVE EditsInv'
    BY <1>6 DEF Edits!Submit, EditsInv, Edits!TypeOK, FormKept, Edits!Fields, Edits!Shown
<1>7. ASSUME NEW a \in Tabs, NEW new \in Edits!Row, Edits!Write(a, new),
             \/ editForm' = [editForm EXCEPT ![a] = NoRow] /\ touched' = [touched EXCEPT ![a] = {}]
             \/ editForm[a] = NoRow /\ UNCHANGED <<editForm, touched>>,
             sent' = [sent EXCEPT ![a] = FALSE],
             UNCHANGED <<kind, cached, offset>>
      PROVE  EditsInv'
  <2>1. Edits!Differing(new, row) \subseteq Edits!Fields
      BY DEF Edits!Differing
  <2>2. Edits!TypeOK'
      BY <1>7, <2>1 DEF Edits!Write, EditsInv, Edits!TypeOK
  <2>3. ASSUME NEW t \in Tabs PROVE FormKept(t)'
    <3>1. /\ row' = new
          /\ list'[t] = IF t = a THEN NoRow ELSE list[t]
          /\ stale'[t] = IF list'[t] = NoRow THEN {} ELSE stale[t] \cup Edits!Differing(new, row)
        BY <1>7 DEF Edits!Write, EditsInv, Edits!TypeOK
    <3>2. /\ editForm'[t] = IF t = a THEN NoRow ELSE editForm[t]
          /\ t # a => touched'[t] = touched[t]
          /\ sent'[t] = IF t = a THEN FALSE ELSE sent[t]
        BY <1>7 DEF EditsInv, Edits!TypeOK
    <3>3. FormKept(t)
        BY DEF EditsInv
    <3> HIDE DEF EditsInv
    <3>4. list'[t] = NoRow => editForm'[t] = NoRow
        BY <3>1, <3>2, <3>3 DEF FormKept
    <3>5. sent'[t] => editForm'[t] # NoRow
        BY <3>2, <3>3 DEF FormKept
    <3> QED BY <3>1, <3>2, <3>4, <3>5, RowKept
  <2> QED BY <2>2, <2>3 DEF EditsInv
<1>8. ASSUME NEW a \in Tabs, Edits!Save(a) PROVE EditsInv'
    BY <1>7, <1>8 DEF Edits!Save
<1>9. ASSUME NEW a \in Tabs, Edits!SaveFails(a) PROVE EditsInv'
    BY <1>9 DEF Edits!SaveFails, EditsInv, Edits!TypeOK, FormKept, Edits!Fields, Edits!Shown
<1>10. ASSUME NEW a \in Tabs, Edits!SaveHalf(a) PROVE EditsInv'
  <2>1. editForm[a] \in Edits!Row
      BY <1>10 DEF Edits!SaveHalf, EditsInv, Edits!TypeOK, FormKept
  <2>2. row' \in Edits!Row
      BY <1>10, <2>1 DEF Edits!SaveHalf, EditsInv, Edits!TypeOK
  <2>3. Edits!Differing(row', row) \subseteq Edits!Fields
      BY DEF Edits!Differing
  <2>4. Edits!TypeOK'
      BY <1>10, <2>2, <2>3 DEF Edits!SaveHalf, EditsInv, Edits!TypeOK
  <2>5. ASSUME NEW t \in Tabs PROVE FormKept(t)'
    <3>1. /\ stale'[t] = stale[t] \cup Edits!Differing(row', row)
          /\ list' = list /\ editForm' = editForm /\ touched' = touched
          /\ sent'[t] => sent[t]
        BY <1>10 DEF Edits!SaveHalf, EditsInv, Edits!TypeOK
    <3>2. FormKept(t)
        BY DEF EditsInv
    <3>3. (sent[t] => editForm[t] # NoRow) /\ (list[t] = NoRow => editForm[t] = NoRow)
        BY <3>2 DEF FormKept
    <3> QED BY <2>2, <3>1, <3>3, RowKept
  <2> QED BY <2>4, <2>5 DEF EditsInv
<1>11. ASSUME NEW a \in Tabs, Edits!Disable(a) PROVE EditsInv'
  <2>1. [row EXCEPT !.enabled = FALSE] \in Edits!Row
      BY DEF EditsInv, Edits!TypeOK
  <2>2. sent' = [sent EXCEPT ![a] = FALSE]
      BY <1>11 DEF Edits!Disable, EditsInv, Edits!TypeOK, FormKept
  <2> QED BY <1>7, <1>11, <2>1, <2>2 DEF Edits!Disable
<1>12. ASSUME NEW a \in Tabs, Edits!Toggle(a) PROVE EditsInv'
  <2>1. [row EXCEPT !.enabled = ~list[a].enabled] \in Edits!Row
      BY DEF EditsInv, Edits!TypeOK
  <2>2. sent' = [sent EXCEPT ![a] = FALSE]
      BY <1>12 DEF Edits!Toggle, EditsInv, Edits!TypeOK, FormKept
  <2> QED BY <1>7, <1>12, <2>1, <2>2 DEF Edits!Toggle
<1>13. CASE UNCHANGED editVars
    BY <1>13 DEF editVars, EditsInv, Edits!TypeOK, FormKept, Edits!Row, Edits!Fields, Edits!Shown
<1> QED BY <1>1, <1>2, <1>3, <1>4, <1>5, <1>6, <1>8, <1>9, <1>10, <1>11, <1>12, <1>13
        DEF Edits!Next

\* A save writes the form over the row; the form has every field that was not
\* touched and is not stale as the row, but for an expiry that it cannot show or
\* reads back by another clock.
LEMMA EditsSaved ==
    ASSUME EditsInv, Edits!Next, NEW t \in Tabs, sent[t], ~sent'[t],
           NEW f \in Edits!Fields \ (touched[t] \cup stale[t]),
           \/ f # "expiry" \/ row.expiry.text = "never"
           \/ offset[t] = 0 /\ row.expiry.text = "minute"
    PROVE  row'[f] = row[f]
<1> USE EditsFacts, RowFields
<1>1. /\ editForm[t] # NoRow /\ editForm[t] \in Edits!Row /\ row \in Edits!Row
      /\ editForm[t][f] = Edits!Shown(row)[f]
    BY DEF EditsInv, Edits!TypeOK, FormKept
<1>2. editForm[t][f] = row[f]
    BY <1>1, ShownFields
<1>3. Edits!Save(t) \/ Edits!SaveFails(t) \/ Edits!SaveHalf(t)
  <2>1. sent' # sent /\ sent \in [Tabs -> BOOLEAN]
      BY DEF EditsInv, Edits!TypeOK
  <2>2. \E a \in Tabs : Edits!Submit(a) \/ Edits!Save(a) \/ Edits!SaveFails(a) \/ Edits!SaveHalf(a)
      BY <2>1 DEF Edits!Next, Edits!Refresh, Edits!Read, Edits!Open, Edits!Type, Edits!Close,
                  Edits!Disable, Edits!Toggle
  <2>3. ASSUME NEW a \in Tabs, NEW b \in BOOLEAN, sent' = [sent EXCEPT ![a] = b] PROVE a = t /\ ~b
      BY <2>1, <2>3
  <2> QED BY <2>2, <2>3 DEF Edits!Submit, Edits!Save, Edits!SaveFails, Edits!SaveHalf
<1>4. CASE Edits!Save(t)
  <2>1. row' = Edits!Encoded(t)
      BY <1>4 DEF Edits!Save, Edits!Write
  <2>2. Edits!Encoded(t)[f] = editForm[t][f]
    <3>1. CASE f # "expiry"
        BY <1>1, <3>1 DEF Edits!Encoded
    <3>2. CASE f = "expiry" /\ row.expiry.text = "never"
        BY <1>2, <3>2 DEF Edits!Encoded
    <3>3. CASE f = "expiry" /\ offset[t] = 0
      <4>1. editForm[t].expiry.hour \in Int
          BY <1>1 DEF Edits!Expiry
      <4>2. [editForm[t].expiry EXCEPT !.hour = @ - 0] = editForm[t].expiry
          BY <1>1, <4>1 DEF Edits!Expiry
      <4> QED BY <1>1, <3>3, <4>2 DEF Edits!Encoded
    <3> QED BY <3>1, <3>2, <3>3
  <2> QED BY <1>2, <2>1, <2>2
<1>5. CASE Edits!SaveFails(t)
    BY <1>5 DEF Edits!SaveFails
<1>6. CASE Edits!SaveHalf(t)
    BY <1>1, <1>2, <1>6 DEF Edits!SaveHalf
<1> QED BY <1>3, <1>4, <1>5, <1>6

-----------------------------------------------------------------------------
(* The sign-in page: a session is held by one sign-in at most, and only in *)
(* the steps between its being given and its being handed over.            *)

\* The steps after a session was given to a sign-in.
Later == {"status", "confirm", "dismiss", "register", "pause", "finish", "released"}

Steps == {"idle", "submit", "options", "verify"} \cup Later

LoginShape ==
    /\ target \in {"app", "dashboard", "code"} /\ form \in Login!Forms
    /\ off \subseteq Login!Buttons
    /\ left \in BOOLEAN /\ bound \in BOOLEAN /\ dismissed \in BOOLEAN
    /\ asked \in BOOLEAN /\ unsettled \in BOOLEAN
    /\ step \in [Flows -> Steps] /\ origin \in [Flows -> Login!Buttons]
    /\ session \in [Flows -> Login!Sessions \cup {0}]
    /\ given \in 0 .. MaxSession
    /\ handed \in [Login!Sessions -> Nat] /\ denied \subseteq Login!Sessions

\* A session is held by the one sign-in it was given to, or was handed over once,
\* or was denied.
HandedOver ==
    /\ \A f \in Flows : session[f] # 0 <=> step[f] \in Later
    /\ \A f \in Flows : session[f] <= given
    /\ \A f, g \in Flows : f # g /\ session[f] # 0 => session[f] # session[g]
    /\ \A s \in Login!Sessions :
          \/ (s > given \/ Login!Held(s)) /\ handed[s] = 0
          \/ s <= given /\ ~Login!Held(s) /\ handed[s] = 1
          \/ s <= given /\ ~Login!Held(s) /\ handed[s] = 0 /\ s \in denied

\* An offer that was made and whose answer did not fail is not made again.
Settled == asked /\ ~unsettled => dismissed

\* The invariant of the sign-in page.
LoginInv == LoginShape /\ HandedOver /\ Settled

\* The shape is the type of the module.
LEMMA LoginTypes == LoginShape <=> Login!TypeOK
BY Zenon DEF LoginShape, Login!TypeOK, Steps, Later

\* Sessions are counted.
LEMMA LoginFacts == MaxSession \in Nat /\ Login!Sessions = 1 .. MaxSession
BY PagesAssumption DEF PageAssumption, Login!Sessions

\* No session is given at first.
LEMMA LoginInit == ASSUME Login!Init PROVE LoginInv
<1> USE LoginFacts DEF Login!Init
<1>1. left \in BOOLEAN /\ bound \in BOOLEAN /\ asked \in BOOLEAN /\ unsettled \in BOOLEAN
    BY Zenon
<1>2. LoginShape
    BY <1>1 DEF LoginShape, Login!Forms, Login!Buttons, Steps
<1>3. HandedOver
    BY DEF HandedOver, Later
<1> QED BY <1>2, <1>3, Zenon DEF LoginInv, Settled

\* A sign-in goes on: what it holds is as it was.
LEMMA GoesOn ==
    ASSUME LoginInv, NEW f \in Flows, NEW to \in Steps, Login!Goto(f, to),
           to \in Later <=> step[f] \in Later, UNCHANGED <<session, given, handed, denied>>
    PROVE  HandedOver'
BY DEF LoginInv, LoginShape, HandedOver, Login!Goto, Login!Held

\* A sign-in is given the next session, which nobody holds.
LEMMA IsGiven ==
    ASSUME LoginInv, NEW f \in Flows, NEW to \in Later, Login!Goto(f, to), Login!Given(f),
           step[f] \notin Later, UNCHANGED <<handed, denied>>
    PROVE  HandedOver' /\ given' \in 0 .. MaxSession
                       /\ session' \in [Flows -> Login!Sessions \cup {0}]
<1> USE LoginFacts DEF Login!Given, LoginInv, LoginShape
<1>1. given' \in 0 .. MaxSession /\ session' \in [Flows -> Login!Sessions \cup {0}]
    OBVIOUS
<1>2. \A g \in Flows : g # f => session'[g] = session[g] /\ step'[g] = step[g]
    BY DEF Login!Goto
<1>3. session'[f] = given + 1 /\ step'[f] = to /\ session[f] = 0
    BY DEF Login!Goto, HandedOver
<1>4. \A g \in Flows : session'[g] # 0 <=> step'[g] \in Later
    BY <1>2, <1>3 DEF HandedOver
<1>5. /\ \A g \in Flows : session'[g] <= given'
      /\ \A g, h \in Flows : g # h /\ session'[g] # 0 => session'[g] # session'[h]
    BY <1>2, <1>3 DEF HandedOver
<1>6. ASSUME NEW s \in Login!Sessions
      PROVE  (\/ (s > given \/ Login!Held(s)) /\ handed[s] = 0
              \/ s <= given /\ ~Login!Held(s) /\ handed[s] = 1
              \/ s <= given /\ ~Login!Held(s) /\ handed[s] = 0 /\ s \in denied)'
    BY <1>2, <1>3 DEF HandedOver, Login!Held
<1> QED BY <1>1, <1>4, <1>5, <1>6 DEF HandedOver

\* A sign-in that holds nothing ends.
LEMMA EndsEmpty ==
    ASSUME LoginInv, NEW f \in Flows, NEW on, Login!End(f, on),
           step[f] \notin Later, UNCHANGED <<given, handed, denied>>
    PROVE  HandedOver'
<1>1. session' = session
    BY DEF LoginInv, LoginShape, HandedOver, Login!End
<1> QED BY <1>1 DEF LoginInv, LoginShape, HandedOver, Login!End, Login!Held, Later

\* A sign-in ends: its session is handed over or denied, and nobody else's.
LEMMA EndsWith ==
    ASSUME LoginInv, NEW f \in Flows, NEW on, Login!End(f, on), step[f] \in Later,
           UNCHANGED given,
           \/ handed' = [handed EXCEPT ![session[f]] = @ + 1] /\ denied' = denied
           \/ handed' = handed /\ denied' = denied \cup {session[f]}
    PROVE  HandedOver' /\ handed' \in [Login!Sessions -> Nat] /\ denied' \subseteq Login!Sessions
<1> USE LoginFacts DEF LoginInv, LoginShape
<1>1. session[f] # 0 /\ session[f] \in Login!Sessions /\ session[f] <= given
    BY DEF HandedOver
<1>2. handed' \in [Login!Sessions -> Nat] /\ denied' \subseteq Login!Sessions
  <2>1. CASE handed' = [handed EXCEPT ![session[f]] = @ + 1] /\ denied' = denied
      BY <1>1, <2>1
  <2>2. CASE handed' = handed /\ denied' = denied \cup {session[f]}
      BY <1>1, <2>2
  <2> QED BY <2>1, <2>2
<1>3. /\ \A g \in Flows : g # f => session'[g] = session[g] /\ step'[g] = step[g]
      /\ session'[f] = 0 /\ step'[f] = "idle"
    BY DEF Login!End
<1>4. /\ \A g \in Flows : session'[g] # 0 <=> step'[g] \in Later
      /\ \A g \in Flows : session'[g] <= given'
      /\ \A g, h \in Flows : g # h /\ session'[g] # 0 => session'[g] # session'[h]
  <2>1. "idle" \notin Later /\ 0 <= given'
      BY DEF Later
  <2> QED BY <1>3, <2>1 DEF HandedOver
<1>5. handed[session[f]] = 0
    BY <1>1 DEF HandedOver, Login!Held
<1>6. ASSUME NEW s \in Login!Sessions
      PROVE  (\/ (s > given \/ Login!Held(s)) /\ handed[s] = 0
              \/ s <= given /\ ~Login!Held(s) /\ handed[s] = 1
              \/ s <= given /\ ~Login!Held(s) /\ handed[s] = 0 /\ s \in denied)'
  <2>1. CASE s = session[f]
    <3>1. ~Login!Held(s)'
        BY <1>1, <1>3, <2>1 DEF Login!Held, HandedOver
    <3>2. CASE handed' = [handed EXCEPT ![session[f]] = @ + 1]
        BY <1>1, <1>5, <2>1, <3>1, <3>2
    <3>3. CASE handed' = handed /\ denied' = denied \cup {session[f]}
        BY <1>1, <1>5, <2>1, <3>1, <3>3
    <3> QED BY <3>2, <3>3
  <2>2. CASE s # session[f]
    <3>1. handed'[s] = handed[s] /\ (s \in denied => s \in denied')
      <4>1. CASE handed' = [handed EXCEPT ![session[f]] = @ + 1] /\ denied' = denied
          BY <2>2, <4>1
      <4>2. CASE handed' = handed /\ denied' = denied \cup {session[f]}
          BY <4>2
      <4> QED BY <4>1, <4>2
    <3>2. Login!Held(s) <=> Login!Held(s)'
        BY <1>1, <1>3, <2>2 DEF Login!Held
    <3> QED BY <3>1, <3>2 DEF HandedOver
  <2> QED BY <2>1, <2>2
<1> QED BY <1>2, <1>4, <1>6 DEF HandedOver

\* The user comes back: nobody goes on, and what was held is denied.
LEMMA ComesBack == ASSUME LoginInv, Login!Return PROVE HandedOver' /\ denied' \subseteq Login!Sessions
<1> USE LoginFacts DEF LoginInv, LoginShape, Login!Return
<1>1. denied' \subseteq Login!Sessions
    OBVIOUS
<1>2. \A s \in Login!Sessions : Login!Held(s) => s <= given /\ s \in denied'
    BY DEF HandedOver, Login!Held
<1>3. \A s \in Login!Sessions : ~Login!Held(s)'
    BY DEF Login!Held
<1>4. \A s \in Login!Sessions :
          \/ s > given /\ handed[s] = 0
          \/ s <= given /\ handed[s] = 1
          \/ s <= given /\ handed[s] = 0 /\ s \in denied'
    BY <1>2 DEF HandedOver
<1>5. \A f \in Flows : session'[f] = 0 /\ step'[f] \notin Later
    BY DEF Later
<1> QED BY <1>1, <1>3, <1>4, <1>5 DEF HandedOver

\* Every step of the page goes on with a sign-in, gives it its session or ends
\* it; and an answer settles the question unless it fails.
LEMMA LoginStep == ASSUME LoginInv, [Login!Next]_signInVars PROVE LoginInv'
<1> USE LoginFacts DEF Login!page, Login!account, Login!history, Login!On
<1> USE DEF Later, Steps
<1>1. ASSUME NEW to \in Login!Forms, Login!Show(to) PROVE LoginInv'
  <2>1. HandedOver'
      BY <1>1 DEF Login!Show, LoginInv, HandedOver, Login!Held
  <2> QED BY <1>1, <2>1 DEF Login!Show, LoginInv, LoginShape, Settled
<1>2. ASSUME NEW f \in Flows, NEW b \in Login!Buttons, Login!Submit(f, b) PROVE LoginInv'
  <2>1. HandedOver'
    <3>1. PICK to \in {"options", "submit"} : Login!Goto(f, to)
        BY <1>2 DEF Login!Submit
    <3> QED BY <1>2, <3>1, GoesOn DEF Login!Submit
  <2>2. LoginShape'
      BY <1>2 DEF Login!Submit, Login!Goto, LoginInv, LoginShape
  <2>3. Settled'
      BY <1>2 DEF Login!Submit, LoginInv, Settled
  <2> QED BY <2>1, <2>2, <2>3 DEF LoginInv
<1>3. ASSUME NEW f \in Flows, Login!AskForPasskey(f) PROVE LoginInv'
  <2>1. PICK to \in Steps : Login!Goto(f, to) /\ (to \in Later <=> step[f] \in Later)
      BY <1>3 DEF Login!AskForPasskey, Login!Finishing
  <2>2. HandedOver'
      BY <1>3, <2>1, GoesOn DEF Login!AskForPasskey
  <2>3. LoginShape'
      BY <1>3, <2>1 DEF Login!AskForPasskey, Login!Goto, LoginInv, LoginShape
  <2>4. Settled'
      BY <1>3 DEF Login!AskForPasskey, LoginInv, Settled
  <2> QED BY <2>2, <2>3, <2>4 DEF LoginInv
<1>4. ASSUME NEW f \in Flows, Login!Unsupported(f) PROVE LoginInv'
  <2>1. PICK to \in Steps : Login!Goto(f, to) /\ (to \in Later <=> step[f] \in Later)
      BY <1>4 DEF Login!Unsupported, Login!Finishing
  <2>2. HandedOver'
      BY <1>4, <2>1, GoesOn DEF Login!Unsupported
  <2>3. LoginShape'
      BY <1>4, <2>1 DEF Login!Unsupported, Login!Goto, LoginInv, LoginShape
  <2>4. Settled'
      BY <1>4 DEF Login!Unsupported, LoginInv, Settled
  <2> QED BY <2>2, <2>3, <2>4 DEF LoginInv
<1>5. ASSUME NEW f \in Flows, Login!ReadStatus(f) PROVE LoginInv'
  <2>1. PICK to \in Steps : Login!Goto(f, to) /\ (to \in Later <=> step[f] \in Later)
      BY <1>5 DEF Login!ReadStatus, Login!Finishing
  <2>2. HandedOver'
      BY <1>5, <2>1, GoesOn DEF Login!ReadStatus
  <2>3. LoginShape'
      BY <1>5, <2>1 DEF Login!ReadStatus, Login!Goto, LoginInv, LoginShape
  <2>4. Settled'
      BY <1>5 DEF Login!ReadStatus, LoginInv, Settled
  <2> QED BY <2>2, <2>3, <2>4 DEF LoginInv
<1>6. ASSUME NEW f \in Flows, Login!Confirm(f) PROVE LoginInv'
  <2>1. PICK to \in Steps : Login!Goto(f, to) /\ (to \in Later <=> step[f] \in Later)
      BY <1>6 DEF Login!Confirm, Login!Finishing
  <2>2. HandedOver'
      BY <1>6, <2>1, GoesOn DEF Login!Confirm
  <2>3. LoginShape'
      BY <1>6, <2>1 DEF Login!Confirm, Login!Goto, LoginInv, LoginShape
  <2>4. Settled'
      BY <1>6 DEF Login!Confirm, LoginInv, Settled
  <2> QED BY <2>2, <2>3, <2>4 DEF LoginInv
<1>7. ASSUME NEW f \in Flows, Login!Dismiss(f) PROVE LoginInv'
  <2>1. PICK to \in Steps : Login!Goto(f, to) /\ (to \in Later <=> step[f] \in Later)
      BY <1>7 DEF Login!Dismiss, Login!Finishing
  <2>2. HandedOver'
      BY <1>7, <2>1, GoesOn DEF Login!Dismiss
  <2>3. LoginShape'
      BY <1>7, <2>1 DEF Login!Dismiss, Login!Goto, LoginInv, LoginShape
  <2>4. Settled'
      BY <1>7 DEF Login!Dismiss, LoginInv, Settled
  <2> QED BY <2>2, <2>3, <2>4 DEF LoginInv
<1>8. ASSUME NEW f \in Flows, Login!Cancel(f) PROVE LoginInv'
  <2>1. PICK to \in Steps : Login!Goto(f, to) /\ (to \in Later <=> step[f] \in Later)
      BY <1>8 DEF Login!Cancel, Login!Finishing
  <2>2. HandedOver'
      BY <1>8, <2>1, GoesOn DEF Login!Cancel
  <2>3. LoginShape'
      BY <1>8, <2>1 DEF Login!Cancel, Login!Goto, LoginInv, LoginShape
  <2>4. Settled'
      BY <1>8 DEF Login!Cancel, LoginInv, Settled
  <2> QED BY <2>2, <2>3, <2>4 DEF LoginInv
<1>9. ASSUME NEW f \in Flows, Login!Register(f) PROVE LoginInv'
  <2>1. PICK to \in Steps : Login!Goto(f, to) /\ (to \in Later <=> step[f] \in Later)
      BY <1>9 DEF Login!Register, Login!Finishing
  <2>2. HandedOver'
      BY <1>9, <2>1, GoesOn DEF Login!Register
  <2>3. LoginShape'
      BY <1>9, <2>1 DEF Login!Register, Login!Goto, LoginInv, LoginShape
  <2>4. Settled'
      BY <1>9 DEF Login!Register, LoginInv, Settled
  <2> QED BY <2>2, <2>3, <2>4 DEF LoginInv
<1>10. ASSUME NEW f \in Flows, Login!SetupFails(f) PROVE LoginInv'
  <2>1. PICK to \in Steps : Login!Goto(f, to) /\ (to \in Later <=> step[f] \in Later)
      BY <1>10 DEF Login!SetupFails, Login!Finishing
  <2>2. HandedOver'
      BY <1>10, <2>1, GoesOn DEF Login!SetupFails
  <2>3. LoginShape'
      BY <1>10, <2>1 DEF Login!SetupFails, Login!Goto, LoginInv, LoginShape
  <2>4. Settled'
    <3>1. CASE step[f] = "status"
      <4>1. UNCHANGED dismissed
          BY <1>10, <3>1, Zenon DEF Login!SetupFails
      <4>2. (asked' => asked) /\ (unsettled => unsettled')
          BY <1>10, <3>1, Zenon DEF Login!SetupFails
      <4> QED BY <4>1, <4>2, Zenon DEF LoginInv, Settled
    <3>2. CASE step[f] # "status"
      <4>1. unsettled'
          BY <1>10, <3>2, Zenon DEF Login!SetupFails
      <4> QED BY <4>1, Zenon DEF Settled
    <3> QED BY <3>1, <3>2
  <2> QED BY <2>2, <2>3, <2>4 DEF LoginInv
<1>11. ASSUME NEW f \in Flows, Login!Release(f) PROVE LoginInv'
  <2>1. PICK to \in Steps : Login!Goto(f, to) /\ (to \in Later <=> step[f] \in Later)
      BY <1>11 DEF Login!Release, Login!Finishing
  <2>2. HandedOver'
      BY <1>11, <2>1, GoesOn DEF Login!Release
  <2>3. LoginShape'
      BY <1>11, <2>1 DEF Login!Release, Login!Goto, LoginInv, LoginShape
  <2>4. Settled'
      BY <1>11 DEF Login!Release, LoginInv, Settled
  <2> QED BY <2>2, <2>3, <2>4 DEF LoginInv
<1>12. ASSUME NEW f \in Flows, Login!SignedIn(f) PROVE LoginInv'
  <2>1. /\ HandedOver' /\ given' \in 0 .. MaxSession
        /\ session' \in [Flows -> Login!Sessions \cup {0}]
      BY <1>12, IsGiven DEF Login!SignedIn
  <2>2. LoginShape'
      BY <1>12, <2>1 DEF Login!SignedIn, Login!Goto, LoginInv, LoginShape
  <2>3. Settled'
      BY <1>12 DEF Login!SignedIn, LoginInv, Settled
  <2> QED BY <2>1, <2>2, <2>3 DEF LoginInv
<1>13. ASSUME NEW f \in Flows, Login!SignedInByPasskey(f) PROVE LoginInv'
  <2>1. /\ HandedOver' /\ given' \in 0 .. MaxSession
        /\ session' \in [Flows -> Login!Sessions \cup {0}]
      BY <1>13, IsGiven DEF Login!SignedInByPasskey
  <2>2. LoginShape'
      BY <1>13, <2>1 DEF Login!SignedInByPasskey, Login!Goto, LoginInv, LoginShape
  <2>3. Settled'
      BY <1>13 DEF Login!SignedInByPasskey, LoginInv, Settled
  <2> QED BY <2>1, <2>2, <2>3 DEF LoginInv
<1>14. ASSUME NEW f \in Flows, Login!Rejected(f) PROVE LoginInv'
  <2>1. HandedOver'
      BY <1>14, EndsEmpty DEF Login!Rejected
  <2>2. LoginShape'
      BY <1>14 DEF Login!Rejected, Login!End, Login!Forms, LoginInv, LoginShape
  <2>3. Settled'
      BY <1>14 DEF Login!Rejected, LoginInv, Settled
  <2> QED BY <2>1, <2>2, <2>3 DEF LoginInv
<1>15. ASSUME NEW f \in Flows, Login!NextForm(f) PROVE LoginInv'
  <2>1. HandedOver'
      BY <1>15, EndsEmpty DEF Login!NextForm
  <2>2. LoginShape'
      BY <1>15 DEF Login!NextForm, Login!End, Login!Forms, LoginInv, LoginShape
  <2>3. Settled'
      BY <1>15 DEF Login!NextForm, LoginInv, Settled
  <2> QED BY <2>1, <2>2, <2>3 DEF LoginInv
<1>16. ASSUME NEW f \in Flows, Login!Finish(f) PROVE LoginInv'
  <2>1. HandedOver' /\ handed' \in [Login!Sessions -> Nat] /\ denied' \subseteq Login!Sessions
      BY <1>16, EndsWith DEF Login!Finish, Login!Finishing
  <2>2. LoginShape'
      BY <1>16, <2>1 DEF Login!Finish, Login!End, LoginInv, LoginShape
  <2>3. Settled'
      BY <1>16 DEF Login!Finish, LoginInv, Settled
  <2> QED BY <2>1, <2>2, <2>3 DEF LoginInv
<1>17. ASSUME NEW f \in Flows, Login!Unauthorized(f) PROVE LoginInv'
  <2>1. HandedOver' /\ handed' \in [Login!Sessions -> Nat] /\ denied' \subseteq Login!Sessions
      BY <1>17, EndsWith DEF Login!Unauthorized, Login!Finishing
  <2>2. LoginShape'
      BY <1>17, <2>1 DEF Login!Unauthorized, Login!End, LoginInv, LoginShape
  <2>3. Settled'
      BY <1>17 DEF Login!Unauthorized, LoginInv, Settled
  <2> QED BY <2>1, <2>2, <2>3 DEF LoginInv
<1>18. CASE Login!Return
  <2>1. HandedOver' /\ denied' \subseteq Login!Sessions
      BY <1>18, ComesBack
  <2>2. LoginShape'
      BY <1>18, <2>1 DEF Login!Return, Login!Forms, LoginInv, LoginShape
  <2>3. Settled'
      BY <1>18 DEF Login!Return, LoginInv, Settled
  <2> QED BY <2>1, <2>2, <2>3 DEF LoginInv
<1>19. CASE Login!Unbind
  <2>1. HandedOver'
      BY <1>19 DEF Login!Unbind, LoginInv, HandedOver, Login!Held
  <2> QED BY <1>19, <2>1 DEF Login!Unbind, LoginInv, LoginShape, Settled
<1>20. CASE UNCHANGED signInVars
  <2>1. HandedOver'
      BY <1>20 DEF signInVars, LoginInv, HandedOver, Login!Held
  <2> QED BY <1>20, <2>1 DEF signInVars, LoginInv, LoginShape, Settled
<1> QED BY <1>1, <1>2, <1>3, <1>4, <1>5, <1>6, <1>7, <1>8, <1>9, <1>10, <1>11, <1>12, <1>13, <1>14, <1>15, <1>16, <1>17, <1>18, <1>19, <1>20 DEF Login!Next

-----------------------------------------------------------------------------
(* The pages of a user.                                                    *)

CallRow ==
    [tab : Tabs \cup {NoTab}, kind : Loads \cup {"free", "post", "options", "delete", "logout"},
     token : Sessions \cup {0}, state : {"free", "sent", "served", "refused"},
     items : SUBSET Items, newest : BOOLEAN]

UserShape ==
    /\ page \in {"overview", "tickets", "security"}
    /\ items \in [Items -> {"new", "there", "gone"}]
    /\ live \subseteq Sessions /\ made \in Sessions /\ stored \in Sessions \cup {0}
    /\ here \subseteq Tabs /\ busy \subseteq here /\ overtaken \subseteq here
    /\ shown \in [Tabs -> (SUBSET Items) \cup {NoList}]
    /\ told \in [Tabs -> [Items -> {"nothing", "added", "removed"}]]
    /\ call \in [Calls -> CallRow]
    /\ owed \subseteq live

\* The logout of session s that a tab waits for.
Awaits(c, s) ==
    /\ call[c].tab \in here /\ call[c].kind = "logout"
    /\ call[c].state = "sent" /\ call[c].token = s

\* Every session that is still to be revoked has a logout on its way.
Awaited == \A s \in owed : \E c \in Calls : Awaits(c, s)

\* What a tab was told about a row was so.
ToldTrue ==
    \A t \in Tabs, i \in Items :
        /\ told[t][i] = "added" => items[i] # "new"
        /\ told[t][i] = "removed" => items[i] = "gone"

\* A list that has what its tab added and not what it removed.
Fresh(t, seen) ==
    \A i \in Items :
        /\ told[t][i] = "added" /\ items[i] = "there" => i \in seen
        /\ told[t][i] = "removed" => i \notin seen

Newest(c) == call[c].newest = TRUE

\* An answer on its way is true; the newest one of a list has all its tab did.
AnswerTrue(c) ==
    /\ Newest(c) => call[c].kind \in Loads /\ call[c].tab \in Tabs
    /\ call[c].state = "served" /\ call[c].kind = "post" =>
          \A i \in call[c].items : items[i] # "new"
    /\ call[c].state = "served" /\ call[c].kind = "delete" =>
          \A i \in call[c].items : items[i] = "gone"
    /\ Newest(c) /\ call[c].state = "served" /\ call[c].kind = "list" =>
          Fresh(call[c].tab, call[c].items)

\* What a tab shows is fresh, or a newer answer is on its way to it.
Seen(t) ==
    \/ shown[t] = NoList
    \/ Fresh(t, shown[t])
    \/ \E c \in Calls : call[c].tab = t /\ Newest(c)

\* The invariant of the tabs of a user.
UserInv ==
    /\ UserShape /\ Awaited /\ ToldTrue
    /\ \A c \in Calls : AnswerTrue(c)
    /\ \A t \in here \ overtaken : Seen(t)

\* The shape is the type of the module.
LEMMA UserTypes == UserShape <=> TypeOK
BY Zenon DEF UserShape, TypeOK, CallRow

\* Sessions are counted, and no tab is the one of a free call.
LEMMA UserFacts == MaxSession \in Nat \ {0} /\ Sessions = 1 .. MaxSession /\ NoTab \notin Tabs
BY PagesAssumption DEF PageAssumption, Sessions

\* A free request and one that is sent are what their fields are.
LEMMA RequestFields ==
    ASSUME NEW t \in Tabs, NEW k \in Loads \cup {"post", "options", "delete", "logout"},
           stored \in Sessions \cup {0}
    PROVE  /\ Free \in CallRow /\ Free.tab = NoTab /\ Free.kind = "free" /\ Free.state = "free"
           /\ Free.newest = FALSE
           /\ Sent(t, k) \in CallRow /\ Sent(t, k).tab = t /\ Sent(t, k).kind = k
           /\ Sent(t, k).token = stored /\ Sent(t, k).state = "sent"
           /\ Sent(t, k).items = {} /\ Sent(t, k).newest = FALSE
BY DEF Free, Sent, CallRow, Loads

\* A free request.
LEMMA FreeRow == /\ Free \in CallRow /\ Free.tab = NoTab /\ Free.kind = "free" /\ Free.state = "free"
                 /\ Free.newest = FALSE /\ Free.items = {}
BY DEF Free, CallRow

\* Nobody was told anything at first.
LEMMA UserInit == ASSUME Init PROVE UserInv
<1> USE UserFacts, FreeRow DEF Init
<1>1. UserShape
    BY DEF UserShape, Untold
<1>2. Awaited /\ ToldTrue
    BY DEF Awaited, ToldTrue, Untold
<1>3. ASSUME NEW c \in Calls PROVE AnswerTrue(c)
    BY DEF AnswerTrue, Newest
<1> QED BY <1>1, <1>2, <1>3 DEF UserInv

\* A logout is awaited as long as its request is not touched and its tab stays.
LEMMA StillAwaited ==
    ASSUME UserInv, owed' \subseteq owed, here \subseteq here',
           \A c \in Calls : call[c].kind = "logout" /\ call[c].state = "sent" /\ call[c].tab \in here =>
                call'[c] = call[c] \/ /\ call'[c].tab = call[c].tab /\ call'[c].kind = call[c].kind
                                      /\ call'[c].state = call[c].state
                                      /\ call'[c].token = call[c].token
    PROVE  Awaited'
BY DEF UserInv, Awaited, Awaits

\* What the newest load of a tab is once it is asked for, and the other requests.
LEMMA LoadRows ==
    ASSUME UserShape, NEW t \in Tabs, NEW c \in Calls, NEW token \in Sessions \cup {0},
           LoadWith(t, c, token)
    PROVE  /\ call' \in [Calls -> CallRow]
           /\ call'[c].tab = t /\ call'[c].kind \in Loads /\ call'[c].state = "sent"
           /\ Newest(c)'
           /\ \A d \in Calls \ {c} :
                 /\ call'[d].tab = call[d].tab /\ call'[d].kind = call[d].kind
                 /\ call'[d].state = call[d].state /\ call'[d].token = call[d].token
                 /\ call'[d].items = call[d].items
                 /\ IF call[d].tab = t THEN ~Newest(d)' ELSE call'[d] = call[d]
<1> DEFINE k == IF page = "tickets" THEN "dashboard" ELSE "list"
<1> DEFINE new == [Sent(t, k) EXCEPT !.token = token, !.newest = TRUE]
<1> DEFINE older == [d \in Calls |-> IF call[d].tab = t THEN [call[d] EXCEPT !.newest = FALSE]
                                     ELSE call[d]]
<1>1. /\ new \in CallRow /\ new.tab = t /\ new.kind \in Loads /\ new.state = "sent"
      /\ new.newest = TRUE
    BY DEF UserShape, CallRow, Sent, Free, Loads
<1>2. ASSUME NEW d \in Calls
      PROVE  /\ older[d] \in CallRow
             /\ older[d].tab = call[d].tab /\ older[d].kind = call[d].kind
             /\ older[d].state = call[d].state /\ older[d].token = call[d].token
             /\ older[d].items = call[d].items
             /\ IF call[d].tab = t THEN older[d].newest = FALSE ELSE older[d] = call[d]
  <2>1. call[d] \in CallRow
      BY DEF UserShape
  <2> QED BY <2>1 DEF CallRow
<1>3. call' = [older EXCEPT ![c] = new]
    BY Zenon DEF LoadWith
<1>4. DOMAIN older = Calls
    OBVIOUS
<1> HIDE DEF k, new, older, CallRow
<1>5. call' = [d \in Calls |-> IF d = c THEN new ELSE older[d]]
    BY <1>3, <1>4 DEF older
<1> QED BY <1>1, <1>2, <1>5 DEF Newest

\* A tab that loads waits for its newest request; what the others wait for and
\* show is as it was.
LEMMA LoadKeeps ==
    ASSUME UserInv, NEW t \in Tabs, NEW c \in Calls, NEW token \in Sessions \cup {0},
           LoadWith(t, c, token), call[c].tab \in {NoTab, t}, call[c].kind # "logout",
           here' = here \cup {t}, owed' = owed, shown' = shown, items' = items,
           \A x \in Tabs \ {t} : told'[x] = told[x]
    PROVE  /\ call' \in [Calls -> CallRow] /\ busy' \subseteq here' /\ overtaken' \subseteq here'
           /\ Awaited'
           /\ \A d \in Calls : AnswerTrue(d)'
           /\ \A x \in here' \ overtaken' : Seen(x)'
<1> USE UserFacts
<1>1. /\ call' \in [Calls -> CallRow]
      /\ call'[c].tab = t /\ call'[c].kind \in Loads /\ call'[c].state = "sent" /\ Newest(c)'
      /\ \A d \in Calls \ {c} :
            /\ call'[d].tab = call[d].tab /\ call'[d].kind = call[d].kind
            /\ call'[d].state = call[d].state /\ call'[d].token = call[d].token
            /\ call'[d].items = call[d].items
            /\ IF call[d].tab = t THEN ~Newest(d)' ELSE call'[d] = call[d]
    BY LoadRows DEF UserInv
<1>2. busy' \subseteq here' /\ overtaken' \subseteq here'
    BY DEF LoadWith, UserInv, UserShape
<1>3. Awaited'
    BY <1>1, StillAwaited DEF UserInv
<1>4. ASSUME NEW d \in Calls PROVE AnswerTrue(d)'
  <2>1. CASE d = c
      BY <1>1, <2>1 DEF AnswerTrue, Loads
  <2>2. CASE d # c /\ call[d].tab = t
      BY <1>1, <2>2 DEF UserInv, AnswerTrue
  <2>3. CASE d # c /\ call[d].tab # t
    <3>1. call[d].tab \in Tabs \cup {NoTab}
        BY DEF UserInv, UserShape, CallRow
    <3>2. CASE call[d].tab \in Tabs
        BY <1>1, <2>3, <3>2 DEF UserInv, AnswerTrue, Newest, Fresh
    <3>3. CASE call[d].tab = NoTab
        BY <1>1, <2>3, <3>3 DEF UserInv, AnswerTrue, Newest, Fresh
    <3> QED BY <3>1, <3>2, <3>3
  <2> QED BY <2>1, <2>2, <2>3
<1>5. ASSUME NEW x \in here' \ overtaken' PROVE Seen(x)'
  <2>1. CASE x = t
      BY <1>1, <2>1 DEF Seen
  <2>2. CASE x # t
    <3>1. x \in here \ overtaken /\ x \in Tabs
        BY <2>2 DEF LoadWith, UserInv, UserShape
    <3>2. Seen(x)
        BY <3>1 DEF UserInv
    <3>3. ASSUME NEW d \in Calls, call[d].tab = x, Newest(d) PROVE call'[d].tab = x /\ Newest(d)'
      <4>1. d # c
          BY <2>2, <3>1, <3>3
      <4> QED BY <1>1, <2>2, <3>3, <4>1 DEF Newest
    <3> QED BY <2>2, <3>1, <3>2, <3>3 DEF Seen, Fresh
  <2> QED BY <2>1, <2>2
<1> QED BY <1>1, <1>2, <1>3, <1>4, <1>5

\* A tab that leaves abandons its own requests and its own logouts only.
LEMMA LeaveKeeps ==
    ASSUME UserInv, NEW t \in Tabs, NEW calls, LeavePage(t, calls),
           calls = call \/ \E c \in Calls : call[c].tab = t /\ calls = [call EXCEPT ![c] = Free],
           owed' = (owed \ LoggingOut(t)) \cap live, UNCHANGED <<page, server, stored>>
    PROVE  UserInv'
<1> USE UserFacts, FreeRow DEF server
<1>1. /\ items' = items /\ live' = live /\ made' = made /\ stored' = stored /\ page' = page
      /\ here' = here \ {t} /\ busy' = busy \ {t} /\ overtaken' = overtaken \ {t}
      /\ shown' = [shown EXCEPT ![t] = NoList] /\ told' = [told EXCEPT ![t] = Untold]
    BY DEF LeavePage
<1>2. ASSUME NEW d \in Calls
      PROVE  \/ call'[d] = Free
             \/ /\ call'[d] = call[d]
                /\ call[d].tab = t => call[d].state = "sent" /\ call[d].kind \in Changes
    BY DEF LeavePage, UserInv, UserShape
<1>3. ASSUME NEW d \in Calls, call[d].tab # t PROVE call'[d] = call[d]
  <2>1. calls[d] = call[d]
      BY <1>3 DEF UserInv, UserShape
  <2> QED BY <1>3, <2>1 DEF LeavePage
<1>4. UserShape'
  <2>1. DOMAIN call' = Calls /\ call' = [d \in Calls |-> call'[d]]
      BY DEF LeavePage
  <2>2. call' \in [Calls -> CallRow]
      BY <1>2, <2>1 DEF UserInv, UserShape
  <2>3. Untold \in [Items -> {"nothing", "added", "removed"}]
      BY DEF Untold
  <2> HIDE DEF CallRow
  <2> QED BY <1>1, <2>2, <2>3 DEF UserInv, UserShape
<1>5. Awaited'
  <2>1. ASSUME NEW s \in owed' PROVE \E c \in Calls : Awaits(c, s)'
    <3>1. PICK c \in Calls : Awaits(c, s)
        BY <2>1 DEF UserInv, Awaited
    <3>2. call[c].tab # t
        BY <2>1, <3>1 DEF Awaits, LoggingOut
    <3> QED BY <1>1, <1>3, <3>1, <3>2 DEF Awaits
  <2> QED BY <2>1 DEF Awaited
<1>6. ToldTrue'
  <2>1. ASSUME NEW x \in Tabs, NEW i \in Items
        PROVE  (told[x][i] = "added" => items[i] # "new")'
               /\ (told[x][i] = "removed" => items[i] = "gone")'
    <3>1. CASE x = t
        BY <1>1, <3>1 DEF UserInv, UserShape, Untold
    <3>2. CASE x # t
        BY <1>1, <3>2 DEF UserInv, UserShape, ToldTrue
    <3> QED BY <3>1, <3>2
  <2> QED BY <2>1 DEF ToldTrue
<1>7. ASSUME NEW d \in Calls PROVE AnswerTrue(d)'
  <2>1. CASE call'[d] = Free
      BY <2>1 DEF AnswerTrue, Newest
  <2>2. CASE call'[d] = call[d] /\ call[d].tab = t
    <3>1. call[d].state = "sent" /\ call[d].kind \in Changes
        BY <1>2, <2>2
    <3>2. ~Newest(d)
        BY <3>1 DEF UserInv, AnswerTrue, Changes, Loads
    <3> QED BY <2>2, <3>1, <3>2 DEF AnswerTrue, Newest
  <2>3. CASE call'[d] = call[d] /\ call[d].tab # t
    <3>1. AnswerTrue(d)
        BY DEF UserInv
    <3>2. call[d].tab \in Tabs => told'[call[d].tab] = told[call[d].tab]
        BY <1>1, <2>3 DEF UserInv, UserShape
    <3> QED BY <1>1, <2>3, <3>1, <3>2 DEF AnswerTrue, Newest, Fresh
  <2> QED BY <1>2, <2>1, <2>2, <2>3
<1>8. ASSUME NEW x \in here' \ overtaken' PROVE Seen(x)'
  <2>1. x # t /\ x \in Tabs /\ Seen(x)
      BY <1>1 DEF UserInv, UserShape
  <2>2. told'[x] = told[x] /\ shown'[x] = shown[x]
      BY <1>1, <2>1 DEF UserInv, UserShape
  <2>3. \A d \in Calls : call[d].tab = x => call'[d] = call[d]
      BY <1>3, <2>1
  <2> QED BY <1>1, <2>1, <2>2, <2>3 DEF Seen, Fresh, Newest
<1> QED BY <1>4, <1>5, <1>6, <1>7, <1>8 DEF UserInv

\* One request moves on at a page that stays: its new state has to be true, and
\* must not have been what its tab waited for, or its logout.
LEMMA PutKeeps ==
    ASSUME UserInv, NEW c \in Calls, NEW new \in CallRow, call' = [call EXCEPT ![c] = new],
           UNCHANGED <<page, server, tabs>>, stored' \in Sessions \cup {0}, owed' \subseteq live,
           new.newest = TRUE => new.state = "sent" /\ new.kind \in Loads /\ new.tab \in Tabs,
           new.state # "served",
           Newest(c) => call[c].tab \notin here \/ (new.newest = TRUE /\ new.tab = call[c].tab),
           \/ Awaited'
           \/ /\ call[c].kind = "logout" /\ call[c].state = "sent" => call[c].tab \notin here
              /\ owed' \subseteq owed
    PROVE  UserInv'
<1> USE DEF server, tabs
<1>1. call'[c] = new /\ \A d \in Calls : d # c => call'[d] = call[d]
    BY DEF UserInv, UserShape
<1>2. UserShape'
    BY DEF UserInv, UserShape
<1>3. Awaited'
    BY <1>1, StillAwaited
<1>4. ToldTrue'
    BY DEF UserInv, ToldTrue
<1>5. ASSUME NEW d \in Calls PROVE AnswerTrue(d)'
  <2>1. CASE d = c
      BY <1>1, <2>1 DEF AnswerTrue, Newest
  <2>2. CASE d # c
      BY <1>1, <2>2 DEF UserInv, AnswerTrue, Newest, Fresh
  <2> QED BY <2>1, <2>2
<1>6. ASSUME NEW x \in here' \ overtaken' PROVE Seen(x)'
  <2>1. Seen(x)
      BY DEF UserInv
  <2>2. ASSUME NEW d \in Calls, call[d].tab = x, Newest(d) PROVE call'[d].tab = x /\ Newest(d)'
    <3>1. CASE d = c
        BY <1>1, <2>2, <3>1 DEF Newest
    <3>2. CASE d # c
        BY <1>1, <2>2, <3>2 DEF Newest
    <3> QED BY <3>1, <3>2
  <2> QED BY <2>1, <2>2 DEF Seen, Fresh
<1> QED BY <1>2, <1>3, <1>4, <1>5, <1>6 DEF UserInv

\* A logout that is sent is awaited.
LEMMA LogoutSends ==
    ASSUME UserInv, NEW t \in Tabs, NEW c \in Calls, call[c] = Free, Logout(t, c)
    PROVE  UserInv'
<1> USE UserFacts, FreeRow
<1>1. /\ Sent(t, "logout") \in CallRow /\ Sent(t, "logout").tab = t
      /\ Sent(t, "logout").kind = "logout" /\ Sent(t, "logout").state = "sent"
      /\ Sent(t, "logout").token = stored /\ Sent(t, "logout").newest = FALSE
  <2>1. stored \in Sessions \cup {0}
      BY DEF UserInv, UserShape
  <2> QED BY <2>1 DEF Sent, Free, CallRow
<1>2. /\ call' = [call EXCEPT ![c] = Sent(t, "logout")] /\ t \in here /\ here' = here
      /\ owed' = (owed \cup {stored}) \cap live /\ stored' = 0
      /\ UNCHANGED <<page, server, tabs>>
    BY DEF Logout, tabs
<1>3. call'[c] = Sent(t, "logout") /\ \A d \in Calls : d # c => call'[d] = call[d]
    BY <1>2 DEF UserInv, UserShape
<1>4. Awaited'
  <2>1. ASSUME NEW s \in owed' PROVE \E d \in Calls : Awaits(d, s)'
    <3>1. CASE s = stored
        BY <1>1, <1>2, <1>3, <3>1 DEF Awaits
    <3>2. CASE s # stored
      <4>1. PICK d \in Calls : Awaits(d, s)
          BY <1>2, <2>1, <3>2 DEF UserInv, Awaited
      <4> QED BY <1>2, <1>3, <4>1 DEF Awaits
    <3> QED BY <3>1, <3>2
  <2> QED BY <2>1 DEF Awaited
<1>5. owed' \subseteq live
    BY <1>2
<1>6. ~Newest(c)
    BY DEF Newest
<1> HIDE DEF CallRow
<1> QED BY <1>1, <1>2, <1>4, <1>5, <1>6, PutKeeps

\* What the server does with a request: it refuses it or serves it; a row comes
\* with a post and goes with a removal, and a load is given what is there.
LEMMA ServeEffect ==
    ASSUME UserShape, NEW c \in Calls, Serve(c)
    PROVE  /\ call' \in [Calls -> CallRow] /\ \A d \in Calls \ {c} : call'[d] = call[d]
           /\ call'[c].tab = call[c].tab /\ call'[c].kind = call[c].kind
           /\ call'[c].token = call[c].token /\ call'[c].newest = call[c].newest
           /\ items' \in [Items -> {"new", "there", "gone"}]
           /\ \A i \in Items : \/ items'[i] = items[i]
                               \/ items[i] = "new" /\ items'[i] = "there"
                               \/ items[i] = "there" /\ items'[i] = "gone"
           /\ call'[c].state = "served" =>
                 /\ call[c].kind \in Loads => call'[c].items = There'
                 /\ call[c].kind = "post" => \A i \in call'[c].items : items'[i] # "new"
                 /\ call[c].kind = "delete" => \A i \in call'[c].items : items'[i] = "gone"
           /\ live' = IF call[c].kind = "logout" THEN live \ {call[c].token} ELSE live
<1> DEFINE Moved(st, is) == [call[c] EXCEPT !.state = st, !.items = is]
<1>1. call[c] \in CallRow
    BY DEF UserShape
<1>2. ASSUME NEW st \in {"served", "refused"}, NEW is \in SUBSET Items,
             call' = [call EXCEPT ![c] = Moved(st, is)]
      PROVE  /\ call' \in [Calls -> CallRow] /\ \A d \in Calls \ {c} : call'[d] = call[d]
             /\ call'[c].tab = call[c].tab /\ call'[c].kind = call[c].kind
             /\ call'[c].token = call[c].token /\ call'[c].newest = call[c].newest
             /\ call'[c].state = st /\ call'[c].items = is
  <2>1. /\ Moved(st, is) \in CallRow
        /\ Moved(st, is).tab = call[c].tab /\ Moved(st, is).kind = call[c].kind
        /\ Moved(st, is).token = call[c].token /\ Moved(st, is).newest = call[c].newest
        /\ Moved(st, is).state = st /\ Moved(st, is).items = is
      BY <1>1 DEF CallRow
  <2> HIDE DEF Moved, CallRow
  <2> QED BY <1>2, <2>1 DEF UserShape
<1>3. ASSUME NEW st \in {"served", "refused"}
      PROVE  [call EXCEPT ![c].state = st] = [call EXCEPT ![c] = Moved(st, call[c].items)]
  <2>1. [call[c] EXCEPT !.state = st] = Moved(st, call[c].items)
      BY <1>1 DEF CallRow
  <2> HIDE DEF Moved
  <2> QED BY <2>1, Zenon
<1>4. call[c].items \in SUBSET Items
    BY <1>1 DEF CallRow
<1> HIDE DEF Moved
<1>5. CASE call[c].kind = "logout"
  <2>1. live' = live \ {call[c].token} /\ items' = items
        /\ call' = [call EXCEPT ![c] = Moved("served", call[c].items)]
      BY <1>3, <1>5 DEF Serve
  <2> QED BY <1>2, <1>4, <1>5, <2>1 DEF Loads, UserShape
<1>6. CASE call[c].kind # "logout" /\ call[c].token \notin live
  <2>1. live' = live /\ items' = items
        /\ call' = [call EXCEPT ![c] = Moved("refused", call[c].items)]
      BY <1>3, <1>6 DEF Serve
  <2> QED BY <1>2, <1>4, <1>6, <2>1 DEF UserShape
<1>7. CASE call[c].kind # "logout" /\ call[c].token \in live
  <2>1. live' = live
      BY <1>7 DEF Serve
  <2>2. CASE call[c].kind \in Loads \cup {"options"}
    <3>1. items' = items /\ call' = [call EXCEPT ![c] = Moved("served", There)]
        BY <1>7, <2>2 DEF Serve, Loads, Moved
    <3>2. There \in SUBSET Items /\ There' = There
        BY <3>1 DEF There
    <3> QED BY <1>2, <2>1, <2>2, <3>1, <3>2 DEF Loads, UserShape
  <2>3. CASE call[c].kind = "post"
    <3>1. PICK i \in Items : /\ items[i] = "new" /\ items' = [items EXCEPT ![i] = "there"]
                             /\ call' = [call EXCEPT ![c] = Moved("served", {i})]
        BY <1>7, <2>3 DEF Serve, Loads, Moved
    <3>2. /\ items' \in [Items -> {"new", "there", "gone"}] /\ items'[i] = "there"
          /\ \A h \in Items : h # i => items'[h] = items[h]
        BY <3>1 DEF UserShape
    <3>3. {i} \in SUBSET Items
        BY <3>1
    <3>4. /\ call' \in [Calls -> CallRow] /\ \A d \in Calls \ {c} : call'[d] = call[d]
          /\ call'[c].tab = call[c].tab /\ call'[c].kind = call[c].kind
          /\ call'[c].token = call[c].token /\ call'[c].newest = call[c].newest
          /\ call'[c].items = {i}
        BY <1>2, <3>1, <3>3
    <3>5. call[c].kind \notin Loads /\ call[c].kind # "delete"
        BY <2>3 DEF Loads
    <3> QED BY <2>1, <2>3, <3>1, <3>2, <3>4, <3>5
  <2>4. CASE call[c].kind = "delete"
    <3>1. /\ call[c].items \subseteq There
          /\ items' = [i \in Items |-> IF i \in call[c].items THEN "gone" ELSE items[i]]
          /\ call' = [call EXCEPT ![c] = Moved("served", call[c].items)]
        BY <1>3, <1>7, <2>4 DEF Serve, Loads
    <3> QED BY <1>2, <1>4, <2>1, <2>4, <3>1 DEF Loads, UserShape, There
  <2> QED BY <1>7, <2>2, <2>3, <2>4 DEF Serve
<1> QED BY <1>5, <1>6, <1>7

\* A list that is read now has what its tab was told it added and not what it
\* removed, and what was true of rows stays true: a row is new, there, gone.
LEMMA ServeKeeps == ASSUME UserInv, NEW c \in Calls, Serve(c) PROVE UserInv'
<1>1. /\ call' \in [Calls -> CallRow] /\ \A d \in Calls \ {c} : call'[d] = call[d]
      /\ call'[c].tab = call[c].tab /\ call'[c].kind = call[c].kind
      /\ call'[c].token = call[c].token /\ call'[c].newest = call[c].newest
      /\ items' \in [Items -> {"new", "there", "gone"}]
      /\ \A i \in Items : \/ items'[i] = items[i]
                          \/ items[i] = "new" /\ items'[i] = "there"
                          \/ items[i] = "there" /\ items'[i] = "gone"
      /\ call'[c].state = "served" =>
            /\ call[c].kind \in Loads => call'[c].items = There'
            /\ call[c].kind = "post" => \A i \in call'[c].items : items'[i] # "new"
            /\ call[c].kind = "delete" => \A i \in call'[c].items : items'[i] = "gone"
      /\ live' = IF call[c].kind = "logout" THEN live \ {call[c].token} ELSE live
    BY ServeEffect DEF UserInv
<1>2. /\ owed' = owed \cap live'
      /\ UNCHANGED <<page, made, stored, here, busy, shown, told, overtaken>>
    BY DEF Serve, tabs
<1>3. UserShape'
    BY <1>1, <1>2 DEF UserInv, UserShape
<1>4. Awaited'
  <2>1. ASSUME NEW s \in owed' PROVE \E d \in Calls : Awaits(d, s)'
    <3>1. PICK d \in Calls : Awaits(d, s)
        BY <1>2, <2>1 DEF UserInv, Awaited
    <3>2. CASE d = c
        BY <1>1, <1>2, <2>1, <3>1, <3>2 DEF Awaits, UserInv, UserShape
    <3>3. CASE d # c
        BY <1>1, <1>2, <3>1, <3>3 DEF Awaits
    <3> QED BY <3>2, <3>3
  <2> QED BY <2>1 DEF Awaited
<1>5. ToldTrue'
    BY <1>1, <1>2 DEF UserInv, ToldTrue
<1>6. ASSUME NEW t \in Tabs, NEW seen, Fresh(t, seen) PROVE Fresh(t, seen)'
    BY <1>1, <1>2, <1>6 DEF UserInv, ToldTrue, Fresh
<1>7. ASSUME NEW d \in Calls PROVE AnswerTrue(d)'
  <2>1. AnswerTrue(d)
      BY DEF UserInv
  <2>2. CASE d # c
    <3>1. call'[d] = call[d]
        BY <1>1, <2>2
    <3>2. \A i \in call[d].items : i \in Items
        BY DEF UserInv, UserShape, CallRow
    <3> QED BY <1>1, <1>6, <2>1, <3>1, <3>2 DEF AnswerTrue, Newest
  <2>3. CASE d = c
    <3>1. ASSUME call[c].tab \in Tabs, call'[c].items = There'
          PROVE  Fresh(call[c].tab, call[c].items)'
        BY <1>1, <1>2, <1>5, <3>1 DEF ToldTrue, Fresh, There
    <3> QED BY <1>1, <2>1, <2>3, <3>1 DEF AnswerTrue, Newest, Loads
  <2> QED BY <2>2, <2>3
<1>8. ASSUME NEW x \in here' \ overtaken' PROVE Seen(x)'
  <2>1. Seen(x) /\ x \in Tabs
      BY <1>2 DEF UserInv, UserShape
  <2>2. \A d \in Calls : call[d].tab = x /\ Newest(d) => call'[d].tab = x /\ Newest(d)'
      BY <1>1 DEF Newest
  <2> QED BY <1>2, <1>6, <2>1, <2>2 DEF Seen
<1> QED BY <1>3, <1>4, <1>5, <1>7, <1>8 DEF UserInv

\* What is drawn for the newest load is true; what is drawn for another is an
\* answer that overtook it.
LEMMA DrawKeeps ==
    ASSUME UserInv, NEW c \in Calls, call[c].tab \in here, call[c].kind \in Loads,
           NEW seen \in (SUBSET Items) \cup {NoList}, Draw(c, seen),
           seen = NoList \/ (Newest(c) => Fresh(call[c].tab, seen)),
           call' = [call EXCEPT ![c] = Free], UNCHANGED <<page, server, stored, here, told, owed>>
    PROVE  UserInv'
<1> USE FreeRow DEF server
<1>1. call'[c] = Free /\ \A d \in Calls : d # c => call'[d] = call[d]
    BY DEF UserInv, UserShape
<1>2. /\ shown' = [shown EXCEPT ![call[c].tab] = seen] /\ busy' = busy \ {call[c].tab}
      /\ Newest(c) => overtaken' = overtaken
      /\ ~Newest(c) => overtaken' = overtaken \cup {call[c].tab}
  <2>1. call[c].newest \in BOOLEAN
      BY DEF UserInv, UserShape, CallRow
  <2> QED BY <2>1 DEF Draw, Newest
<1>3. UserShape'
    BY <1>2 DEF UserInv, UserShape
<1>4. Awaited' /\ ToldTrue'
  <2>1. call[c].kind # "logout"
      BY DEF Loads
  <2> QED BY <1>1, <2>1, StillAwaited DEF UserInv, ToldTrue
<1>5. ASSUME NEW d \in Calls PROVE AnswerTrue(d)'
  <2>1. CASE d = c
      BY <1>1, <2>1 DEF AnswerTrue, Newest
  <2>2. CASE d # c
      BY <1>1, <2>2 DEF UserInv, AnswerTrue, Newest, Fresh
  <2> QED BY <2>1, <2>2
<1>6. ASSUME NEW x \in here' \ overtaken' PROVE Seen(x)'
  <2>1. CASE x = call[c].tab
    <3>1. Newest(c) /\ shown'[x] = seen
        BY <1>2, <2>1 DEF UserInv, UserShape
    <3> QED BY <2>1, <3>1 DEF Seen, Fresh
  <2>2. CASE x # call[c].tab
    <3>1. Seen(x) /\ shown'[x] = shown[x]
        BY <1>2, <2>2 DEF UserInv, UserShape
    <3>2. \A d \in Calls : call[d].tab = x => call'[d] = call[d]
        BY <1>1, <2>2
    <3> QED BY <3>1, <3>2 DEF Seen, Fresh, Newest
  <2> QED BY <2>1, <2>2
<1> QED BY <1>3, <1>4, <1>5, <1>6 DEF UserInv

\* Every step of the pages of a user is one of those.
LEMMA UserStep == ASSUME UserInv, [Next]_vars PROVE UserInv'
<1> USE UserFacts, FreeRow
<1>0. UserShape /\ stored \in Sessions \cup {0}
    BY DEF UserInv, UserShape
<1>1. ASSUME NEW t \in Tabs, NEW c \in Calls, call[c] = Free, Open(t, c) PROVE UserInv'
  <2>1. /\ call' \in [Calls -> CallRow] /\ busy' \subseteq here' /\ overtaken' \subseteq here'
        /\ Awaited' /\ \A d \in Calls : AnswerTrue(d)'
        /\ \A x \in here' \ overtaken' : Seen(x)'
      BY <1>0, <1>1, LoadKeeps DEF Open, server
  <2>2. UserShape' /\ ToldTrue'
      BY <1>1, <2>1 DEF Open, server, UserInv, UserShape, ToldTrue
  <2> QED BY <2>1, <2>2 DEF UserInv
<1>2. ASSUME NEW t \in Tabs, NEW c \in Calls, call[c] = Free, SignIn(t, c) PROVE UserInv'
  <2>0. made + 1 \in Sessions
      BY <1>0, <1>2 DEF SignIn, UserShape
  <2>1. /\ call' \in [Calls -> CallRow] /\ busy' \subseteq here' /\ overtaken' \subseteq here'
        /\ Awaited' /\ \A d \in Calls : AnswerTrue(d)'
        /\ \A x \in here' \ overtaken' : Seen(x)'
      BY <1>2, <2>0, LoadKeeps DEF SignIn
  <2>2. UserShape' /\ ToldTrue'
      BY <1>2, <2>0, <2>1 DEF SignIn, UserInv, UserShape, ToldTrue
  <2> QED BY <2>1, <2>2 DEF UserInv
<1>3. ASSUME NEW t \in Tabs, NEW c \in Calls, call[c] = Free, Refresh(t, c) PROVE UserInv'
  <2>1. here' = here \cup {t}
      BY <1>3 DEF Refresh
  <2>2. /\ call' \in [Calls -> CallRow] /\ busy' \subseteq here' /\ overtaken' \subseteq here'
        /\ Awaited' /\ \A d \in Calls : AnswerTrue(d)'
        /\ \A x \in here' \ overtaken' : Seen(x)'
      BY <1>0, <1>3, <2>1, LoadKeeps DEF Refresh, server
  <2>3. UserShape' /\ ToldTrue'
      BY <1>3, <2>2 DEF Refresh, server, UserInv, UserShape, ToldTrue
  <2> QED BY <2>2, <2>3 DEF UserInv
<1>4. ASSUME NEW t \in Tabs, NEW c \in Calls, call[c] = Free, Logout(t, c) PROVE UserInv'
    BY <1>4, LogoutSends
<1>5. ASSUME NEW c \in Calls, NEW new \in CallRow, call' = [call EXCEPT ![c] = new],
             UNCHANGED <<page, server, stored, tabs, owed>>,
             new.newest = FALSE, new.state # "served",
             call[c] = Free \/ (call[c].kind \notin Loads /\ call[c].state # "sent")
             \/ call[c].kind \in {"post", "options", "delete"} \/ call[c].tab \notin here
      PROVE  UserInv'
  <2>1. Newest(c) => call[c].tab \notin here
      BY <1>5 DEF UserInv, AnswerTrue, Newest, Loads
  <2>2. call[c].kind = "logout" /\ call[c].state = "sent" => call[c].tab \notin here
      BY <1>5
  <2>3. owed' \subseteq live /\ owed' \subseteq owed /\ stored' \in Sessions \cup {0}
      BY <1>0, <1>5 DEF UserShape
  <2> HIDE DEF CallRow
  <2> QED BY <1>5, <2>1, <2>2, <2>3, PutKeeps
<1>6. ASSUME NEW t \in Tabs, NEW c \in Calls, call[c] = Free, Submit(t, c) PROVE UserInv'
  <2>1. PICK k \in {"post", "options"} : call' = [call EXCEPT ![c] = Sent(t, k)]
      BY <1>6 DEF Submit
  <2>2. Sent(t, k) \in CallRow /\ Sent(t, k).newest = FALSE /\ Sent(t, k).state = "sent"
      BY <1>0 DEF Sent, Free, CallRow
  <2> HIDE DEF CallRow
  <2> QED BY <1>5, <1>6, <2>1, <2>2 DEF Submit
<1>7. ASSUME NEW t \in Tabs, NEW c \in Calls, call[c] = Free, RemovePasskey(t, c) PROVE UserInv'
  <2>1. PICK i \in shown[t] :
            call' = [call EXCEPT ![c] = [Sent(t, "delete") EXCEPT !.items = {i}]]
      BY <1>7 DEF RemovePasskey
  <2>2. i \in Items
      BY <1>0, <1>7 DEF RemovePasskey, UserShape
  <2>3. /\ [Sent(t, "delete") EXCEPT !.items = {i}] \in CallRow
        /\ [Sent(t, "delete") EXCEPT !.items = {i}].newest = FALSE
        /\ [Sent(t, "delete") EXCEPT !.items = {i}].state = "sent"
      BY <1>0, <2>2 DEF Sent, Free, CallRow
  <2> HIDE DEF CallRow
  <2> QED BY <1>5, <1>7, <2>1, <2>3 DEF RemovePasskey
<1>8. ASSUME NEW t \in Tabs, LogoutAgain(t) PROVE UserInv'
    BY <1>8, LeaveKeeps DEF LogoutAgain, Leave
<1>9. ASSUME NEW c \in Calls, Serve(c) PROVE UserInv'
    BY <1>9, ServeKeeps
<1>10. ASSUME NEW c \in Calls, call[c].tab \in here PROVE call[c].tab \in Tabs /\ call[c] \in CallRow
    BY <1>0, <1>10 DEF UserShape
<1>11. ASSUME NEW c \in Calls, AnswerDashboard(c) PROVE UserInv'
  <2> DEFINE new == [Sent(call[c].tab, "list") EXCEPT !.newest = call[c].newest]
  <2>1. /\ call[c].tab \in here /\ call[c].kind = "dashboard"
        /\ call' = [call EXCEPT ![c] = new] /\ UNCHANGED <<page, server, stored, tabs, owed>>
      BY <1>11 DEF AnswerDashboard, Answered
  <2>2. call[c].tab \in Tabs /\ call[c].newest \in BOOLEAN
      BY <1>10, <2>1 DEF CallRow
  <2>3. /\ new \in CallRow /\ new.tab = call[c].tab /\ new.kind = "list"
        /\ new.state = "sent" /\ new.newest = call[c].newest
      BY <1>0, <2>2 DEF Sent, Free, CallRow, Loads
  <2>4. owed' \subseteq live /\ owed' \subseteq owed /\ stored' \in Sessions \cup {0}
      BY <1>0, <2>1 DEF UserShape
  <2>5. "list" \in Loads
      BY DEF Loads
  <2> HIDE DEF new, CallRow
  <2> QED BY <2>1, <2>2, <2>3, <2>4, <2>5, PutKeeps DEF Newest
<1>12. ASSUME NEW c \in Calls, AnswerList(c) PROVE UserInv'
  <2>1. call[c].kind \in Loads /\ (Newest(c) => Fresh(call[c].tab, call[c].items))
      BY <1>12 DEF AnswerList, Answered, Loads, UserInv, AnswerTrue
  <2>2. call[c].items \in (SUBSET Items) \cup {NoList}
      BY <1>10, <1>12 DEF AnswerList, Answered, CallRow
  <2> QED BY <1>12, <2>1, <2>2, DrawKeeps DEF AnswerList, Answered
<1>13. ASSUME NEW c \in Calls, AnswerOptions(c) PROVE UserInv'
  <2>1. /\ Sent(call[c].tab, "post") \in CallRow /\ Sent(call[c].tab, "post").newest = FALSE
        /\ Sent(call[c].tab, "post").state = "sent"
      BY <1>0, <1>10, <1>13 DEF AnswerOptions, Answered, Sent, Free, CallRow
  <2>2. PICK new \in {Sent(call[c].tab, "post"), Free} : call' = [call EXCEPT ![c] = new]
      BY <1>13 DEF AnswerOptions
  <2> HIDE DEF CallRow
  <2> QED BY <1>5, <1>13, <2>1, <2>2 DEF AnswerOptions, Answered
<1>14. ASSUME NEW c \in Calls, AnswerChange(c) PROVE UserInv'
  <2> DEFINE t == call[c].tab
  <2>1. /\ t \in here /\ call[c].state = "served" /\ call[c].kind \in {"post", "delete"}
        /\ Tell(c) /\ LoadWith(t, c, stored)
        /\ UNCHANGED <<page, server, stored, here, shown, owed>>
      BY <1>14 DEF AnswerChange, Answered
  <2>2. t \in Tabs /\ call[c].items \in SUBSET Items
      BY <1>10, <2>1 DEF CallRow
  <2>3. /\ told' \in [Tabs -> [Items -> {"nothing", "added", "removed"}]]
        /\ \A x \in Tabs \ {t} : told'[x] = told[x]
        /\ \A i \in Items : \/ told'[t][i] = told[t][i]
                            \/ /\ i \in call[c].items
                               /\ told'[t][i] = IF call[c].kind = "post" THEN "added" ELSE "removed"
      BY <1>0, <2>1, <2>2 DEF Tell, UserShape
  <2>4. here' = here \cup {t} /\ call[c].kind # "logout" /\ owed' = owed /\ items' = items
      BY <2>1 DEF server
  <2> HIDE DEF t
  <2>5. /\ call' \in [Calls -> CallRow] /\ busy' \subseteq here' /\ overtaken' \subseteq here'
        /\ Awaited' /\ \A d \in Calls : AnswerTrue(d)'
        /\ \A x \in here' \ overtaken' : Seen(x)'
      BY <1>0, <2>1, <2>2, <2>3, <2>4, LoadKeeps DEF t
  <2>6. ToldTrue'
    <3>1. AnswerTrue(c)
        BY DEF UserInv
    <3>2. ASSUME NEW x \in Tabs, NEW i \in Items
          PROVE  (told[x][i] = "added" => items[i] # "new")'
                 /\ (told[x][i] = "removed" => items[i] = "gone")'
      <4>1. CASE x = t
          BY <2>1, <2>2, <2>3, <2>4, <3>1, <4>1 DEF UserInv, ToldTrue, AnswerTrue
      <4>2. CASE x # t
          BY <2>3, <2>4, <4>2 DEF UserInv, ToldTrue
      <4> QED BY <4>1, <4>2
    <3> QED BY <3>2 DEF ToldTrue
  <2>7. UserShape'
      BY <1>0, <2>1, <2>3, <2>5 DEF server, UserShape
  <2> QED BY <2>5, <2>6, <2>7 DEF UserInv
<1>15. ASSUME NEW c \in Calls, AnswerLogout(c) PROVE UserInv'
    BY <1>10, <1>15, LeaveKeeps DEF AnswerLogout, Answered, Leave
<1>16. ASSUME NEW c \in Calls, Refuse(c) PROVE UserInv'
  <2>1. CASE call[c].kind \in Loads
      BY <1>10, <1>16, <2>1, LeaveKeeps DEF Refuse, Leave
  <2>2. CASE call[c].kind \notin Loads
    <3>1. /\ call' = [call EXCEPT ![c] = Free] /\ call[c].state # "sent"
          /\ UNCHANGED <<page, server, stored, tabs, owed>>
        BY <1>16, <2>2 DEF Refuse
    <3> HIDE DEF CallRow
    <3> QED BY <1>5, <2>2, <3>1
  <2> QED BY <2>1, <2>2
<1>17. ASSUME NEW c \in Calls, Break(c) PROVE UserInv'
  <2>1. CASE call[c].kind \in Loads /\ Draw(c, NoList) /\ call' = [call EXCEPT ![c] = Free]
             /\ UNCHANGED <<here, told, owed>>
      BY <1>17, <2>1, DrawKeeps DEF Break
  <2>2. CASE call[c].kind = "logout" /\ Leave(call[c].tab, [call EXCEPT ![c] = Free])
    <3>1. call[c].tab \in Tabs
        BY <1>10, <1>17 DEF Break
    <3>2. /\ LeavePage(call[c].tab, [call EXCEPT ![c] = Free])
          /\ owed' = (owed \ LoggingOut(call[c].tab)) \cap live
        BY <2>2 DEF Leave
    <3>3. UNCHANGED <<page, server, stored>>
        BY <1>17 DEF Break
    <3> QED BY <3>1, <3>2, <3>3, LeaveKeeps
  <2>3. CASE call[c].kind \in {"post", "options", "delete"} /\ call' = [call EXCEPT ![c] = Free]
             /\ UNCHANGED <<tabs, owed>>
    <3>1. UNCHANGED <<page, server, stored, tabs, owed>>
        BY <1>17, <2>3 DEF Break
    <3> HIDE DEF CallRow
    <3> QED BY <1>5, <2>3, <3>1
  <2> QED BY <1>17, <2>1, <2>2, <2>3 DEF Break
<1>18. ASSUME NEW c \in Calls, Abandon(c) PROVE UserInv'
    BY <1>5, <1>18 DEF Abandon
<1>19. CASE End
  <2>1. /\ owed' \subseteq owed /\ owed' \subseteq live' /\ live' \subseteq live
        /\ UNCHANGED <<page, items, made, stored, here, busy, shown, told, overtaken, call>>
      BY <1>0, <1>19 DEF End, tabs, UserShape
  <2>2. UserShape' /\ Awaited' /\ ToldTrue'
      BY <2>1 DEF UserInv, UserShape, Awaited, Awaits, ToldTrue
  <2> QED BY <2>1, <2>2 DEF UserInv, AnswerTrue, Newest, Seen, Fresh
<1>20. CASE UNCHANGED vars
  <2>1. UNCHANGED <<page, items, live, made, stored, here, busy, shown, told, overtaken, call, owed>>
      BY <1>20 DEF vars, server, tabs
  <2>2. UserShape' /\ Awaited' /\ ToldTrue'
      BY <2>1 DEF UserInv, UserShape, Awaited, Awaits, ToldTrue
  <2> QED BY <2>1, <2>2 DEF UserInv, AnswerTrue, Newest, Seen, Fresh
<1> QED BY <1>1, <1>2, <1>3, <1>4, <1>6, <1>7, <1>8, <1>9, <1>11, <1>12, <1>13, <1>14, <1>15,
           <1>16, <1>17, <1>18, <1>19, <1>20 DEF Next

-----------------------------------------------------------------------------
(* The pages together.                                                     *)

allVars == <<part, vars, consoleVars, editVars, signInVars, resendVars>>

\* The five machines, each with its invariant.
PagesInv == UserInv /\ ConsoleInv /\ EditsInv /\ LoginInv /\ ResendInv

\* The machines begin as they should, and one of them moves at a time.
LEMMA PagesInvariant == PagesSpec => []PagesInv
<1>1. PagesInit => PagesInv
    BY UserInit, ConsoleInit, EditsInit, LoginInit, ResendInit DEF PagesInit, PagesInv
<1>2. ASSUME PagesInv, [PagesNext]_allVars PROVE PagesInv'
  <2>1. /\ [Next]_vars /\ [Console!Next]_consoleVars /\ [Edits!Next]_editVars
        /\ [Login!Next]_signInVars /\ [Resend!Next]_resendVars
    <3>1. CASE UNCHANGED allVars
        BY <3>1 DEF allVars
    <3>2. CASE PagesNext
        BY <3>2 DEF PagesNext
    <3> QED BY <1>2, <3>1, <3>2
  <2> QED BY <1>2, <2>1, UserStep, ConsoleStep, EditsStep, LoginStep, ResendStep DEF PagesInv
<1> QED BY <1>1, <1>2, PTL DEF PagesSpec, allVars

\* The pages keep their type, the second of the resend button aside, whose bound
\* is the run's (the declarations of the pages in assets/pages).
THEOREM PagesTyped ==
    PagesSpec => [](TypeOK /\ Console!TypeOK /\ Edits!TypeOK /\ Login!TypeOK)
<1>1. PagesInv => TypeOK /\ Console!TypeOK /\ Edits!TypeOK /\ Login!TypeOK
    BY UserTypes, ConsoleTypes, LoginTypes
    DEF PagesInv, UserInv, ConsoleInv, EditsInv, LoginInv
<1> QED BY <1>1, PagesInvariant, PTL

\* Once every request is answered, nobody is left in front of a console the
\* server refuses, however logins, logouts, late refusals, the timer and the JWT
\* of Access cross, but where a request failed, the JWT has expired and nothing
\* was asked since, or the page was asked for with an Access header (initApp and
\* apiCall in assets/pages/admin/app.js).
THEOREM NobodyLeftOutside == PagesSpec => []AppIsAuthorised
<1>1. PagesInv => AppIsAuthorised
    BY FreeRequest DEF PagesInv, ConsoleInv, Doubted, Lost, Active, AppIsAuthorised,
                       Console!AppIsAuthorised, Console!Quiet
<1> QED BY <1>1, PagesInvariant, PTL

\* Only what crossed it ends a login with the right token, and a token the
\* server never accepted is not kept, unless Access vouched for the browser once
\* (doLogin and apiCall in assets/pages/admin/app.js).
THEOREM LoginStays == PagesSpec => []LoginKept
<1>1. PagesInv => LoginKept
    BY FreeRequest DEF PagesInv, ConsoleInv, Vouched, Undisturbed, LoginKept, Console!LoginKept,
       Console!Quiet
<1> QED BY <1>1, PagesInvariant, PTL

\* What a page shows at rest is what it was asked for last and what its user did
\* (loadTrend in assets/pages/admin/app.js, the loads of
\* assets/pages/dashboard/app.js).
THEOREM ScreensAreCurrent == PagesSpec => []ScreensCurrent
<1>1. PagesInv => Console!RangeShown
    BY DEF PagesInv, ConsoleInv, Charted, Console!RangeShown
<1>2. PagesInv => OwnShown
  <2> SUFFICES ASSUME PagesInv, NEW t \in here \ overtaken,
                      shown[t] # NoList, \A c \in Calls : call[c].tab # t,
                      NEW i \in Items
               PROVE  /\ told[t][i] = "added" /\ i \in There => i \in shown[t]
                      /\ told[t][i] = "removed" => i \notin shown[t]
      BY DEF OwnShown
  <2>1. Fresh(t, shown[t])
      BY DEF PagesInv, UserInv, Seen
  <2> QED BY <2>1 DEF Fresh, There
<1>3. PagesInv => ScreensCurrent
    BY <1>1, <1>2 DEF ScreensCurrent
<1> QED BY <1>3, PagesInvariant, PTL

\* A session that was logged out of is revoked, or its logout is on its way in a
\* tab that waits for it (logout and setError in assets/pages/dashboard/app.js).
THEOREM LogoutReaches == PagesSpec => []LogoutRevokes
<1>1. ASSUME PagesInv PROVE LogoutRevokes
  <2>1. ASSUME NEW s \in owed PROVE \E t \in Tabs : s \in LoggingOut(t)
    <3>1. PICK c \in Calls : Awaits(c, s)
        BY <1>1, <2>1 DEF PagesInv, UserInv, Awaited
    <3>2. call[c].tab \in Tabs
        BY <1>1, <3>1 DEF PagesInv, UserInv, UserShape, Awaits
    <3>3. s \in LoggingOut(call[c].tab)
        BY <3>1 DEF Awaits, LoggingOut
    <3> QED BY <3>2, <3>3
  <2> QED BY <2>1 DEF LogoutRevokes
<1> QED BY <1>1, PagesInvariant, PTL

\* However its passkey offer ends, a sign-in hands its session over once
\* (offerPasskeySetup and finishLogin in assets/pages/auth/app.js).
THEOREM OneHandover == PagesSpec => []HandedOverOnce
<1>1. ASSUME PagesInv PROVE HandedOverOnce
  <2>1. ASSUME NEW s \in 1 .. given
        PROVE  handed[s] <= 1 /\ (~Login!Held(s) /\ s \notin denied => handed[s] = 1)
    <3>1. s \in Login!Sessions /\ s <= given
        BY <1>1, LoginFacts DEF PagesInv, LoginInv, LoginShape
    <3> QED BY <1>1, <3>1, LoginFacts DEF PagesInv, LoginInv, LoginShape, HandedOver
  <2> QED BY <1>1, <2>1 DEF PagesInv, LoginInv, Settled, HandedOverOnce, Login!HandedOverOnce
<1> QED BY <1>1, PagesInvariant, PTL

\* A button that has counted down is not too early for its own code, however
\* late its interval fires (send-code in assets/pages/auth/app.js,
\* sendVerificationCode in auth/email.js).
THEOREM CountdownSuffices == PagesSpec => []NeverEarly
<1>1. PagesInv => NeverEarly
    BY Zenon DEF PagesInv, ResendInv, NeverEarly, Resend!NeverEarly
<1> QED BY <1>1, PagesInvariant, PTL

\* A form that is saved changes no field but those that were touched in it, those
\* that had another value in the row when, or since, its tab read it, and an
\* expiry its input cannot hold or its clock moves (showEditModal and handleEdit
\* in assets/pages/admin/app.js).
THEOREM UntouchedIsKept == PagesSpec => UntouchedKept
<1> DEFINE Kept ==
        \A a \in Tabs : sent[a] /\ ~sent'[a] =>
            \A f \in Edits!Fields \ (touched[a] \cup stale[a]) :
                \/ row'[f] = row[f]
                \/ /\ f = "expiry" /\ row.expiry.text # "never"
                   /\ offset[a] # 0 \/ row.expiry.text # "minute"
<1>1. ASSUME PagesInv, [PagesNext]_allVars PROVE [Kept]_(Edits!vars)
  <2>1. [Edits!Next]_editVars
    <3>1. CASE UNCHANGED allVars
        BY <3>1 DEF allVars
    <3>2. CASE PagesNext
        BY <3>2 DEF PagesNext
    <3> QED BY <1>1, <3>1, <3>2
  <2>2. CASE Edits!Next
    <3>1. ASSUME NEW t \in Tabs, sent[t], ~sent'[t],
                 NEW f \in Edits!Fields \ (touched[t] \cup stale[t]), row'[f] # row[f]
          PROVE  /\ f = "expiry" /\ row.expiry.text # "never"
                 /\ offset[t] # 0 \/ row.expiry.text # "minute"
        BY <1>1, <2>2, <3>1, EditsSaved DEF PagesInv
    <3> QED BY <3>1
  <2>3. CASE UNCHANGED editVars
      BY <2>3 DEF editVars, Edits!vars
  <2> QED BY <2>1, <2>2, <2>3
<1> QED BY <1>1, PagesInvariant, PTL DEF PagesSpec, allVars, UntouchedKept, Edits!UntouchedKept

=============================================================================
