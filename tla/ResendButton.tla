---------------------------- MODULE ResendButton ----------------------------
(***************************************************************************)
(* The button that sends a sign-in code (assets/pages/auth/app.js) and the *)
(* pause sendVerificationCode (auth/email.js) makes between two codes of   *)
(* one address: two clocks that never speak to each other.  Other pages    *)
(* ask for codes of the address too.                                       *)
(***************************************************************************)
EXTENDS Naturals

CONSTANTS
    Gap,     \* seconds between two codes (60)
    MaxTime  \* bound: the last second

ResendAssumption == Gap \in Nat \ {0} /\ MaxTime \in Nat

VARIABLES
    now,      \* the second
    rows,     \* the second the newest code was made, as a set: {} before the first
    button,   \* "on", "sending" or "counting"
    request,  \* "none", "sent", "inserted", "ok" or "error": its way to and fro
    seconds,  \* the countdown
    ticks,    \* times the interval has fired, and the second it was set
    since,
    foreign,  \* history: the newest code is not one this button counts from
    early     \* history: a click was refused although the newest code is

clock == <<seconds, ticks, since>>
vars == <<now, rows, button, request, clock, foreign, early>>

Init ==
    /\ now = 0 /\ rows = {}
    /\ button = "on" /\ request = "none"
    /\ seconds = 0 /\ ticks = 0 /\ since = 0
    /\ foreign = FALSE /\ early = FALSE

Click ==
    /\ button = "on"
    /\ button' = "sending" /\ request' = "sent"
    /\ UNCHANGED <<now, rows, clock, foreign, early>>

TooEarly == \E at \in rows : now - at < Gap

\* The row is made before the mail is sent, and stays if it bounces.
Arrive ==
    /\ request = "sent"
    /\ IF TooEarly
       THEN /\ request' = "error"
            /\ early' = (early \/ ~foreign)
            /\ UNCHANGED <<rows, foreign>>
       ELSE /\ request' = "inserted"
            /\ rows' = {now}
            /\ foreign' = TRUE
            /\ UNCHANGED early
    /\ UNCHANGED <<now, button, clock>>

Deliver ==
    /\ request = "inserted"
    /\ request' \in {"ok", "error"}
    /\ UNCHANGED <<now, rows, button, clock, foreign, early>>

\* A page elsewhere asks for a code of the address.
Elsewhere ==
    /\ ~TooEarly
    /\ rows' = {now}
    /\ foreign' = TRUE
    /\ UNCHANGED <<now, button, request, clock, early>>

\* The interval is set.  The code may have been followed by one from elsewhere.
Answer ==
    /\ request = "ok"
    /\ button' = "counting" /\ request' = "none"
    /\ seconds' = Gap /\ ticks' = 0 /\ since' = now
    /\ foreign' = FALSE
    /\ UNCHANGED <<now, rows, early>>

\* An error, or an answer that is lost wherever the request was.
Refuse ==
    /\ request # "none"
    /\ button' = "on" /\ request' = "none"
    /\ UNCHANGED <<now, rows, clock, foreign, early>>

\* Mutant of Tick: the button comes back when the countdown shows its last second.
TickShort ==
    /\ button = "counting" /\ now >= since + ticks + 1
    /\ ticks' = ticks + 1
    /\ seconds' = seconds - 1
    /\ button' = IF seconds <= 2 THEN "on" ELSE button
    /\ UNCHANGED <<now, rows, request, since, foreign, early>>

\* The interval fires late at times, never early.
Tick ==
    /\ button = "counting" /\ now >= since + ticks + 1
    /\ ticks' = ticks + 1
    /\ seconds' = seconds - 1
    /\ button' = IF seconds = 1 THEN "on" ELSE button
    /\ UNCHANGED <<now, rows, request, since, foreign, early>>

Second ==
    /\ now < MaxTime
    /\ now' = now + 1
    /\ UNCHANGED <<rows, button, request, clock, foreign, early>>

Next ==
    \/ Click \/ Arrive \/ Deliver \/ Answer \/ Refuse
    \/ Elsewhere \/ Tick \/ Second

Spec == Init /\ [][Next]_vars

-----------------------------------------------------------------------------
(* Properties.                                                             *)

\* The button and its request keep their type.
TypeOK ==
    /\ now \in 0 .. MaxTime /\ rows \subseteq 0 .. MaxTime
    /\ button \in {"on", "sending", "counting"}
    /\ request \in {"none", "sent", "inserted", "ok", "error"}
    /\ seconds \in 0 .. Gap /\ ticks \in 0 .. Gap /\ since \in 0 .. MaxTime
    /\ foreign \in BOOLEAN /\ early \in BOOLEAN

\* A button that has counted down is not refused for being early, except about
\* a code whose mail bounced, whose answer was lost, or that was asked for
\* elsewhere (send-code in assets/pages/auth/app.js, sendVerificationCode in
\* auth/email.js).
NeverEarly == ~early
=============================================================================
