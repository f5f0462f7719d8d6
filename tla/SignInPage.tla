----------------------------- MODULE SignInPage -----------------------------
(***************************************************************************)
(* The sign-in page (assets/pages/auth/app.js).  A form or a passkey signs *)
(* its user in; the page may then ask whether to bind a passkey, and hands *)
(* the session over: in the address of the app or the dashboard, or for an *)
(* authorization code.  Every request in between can fail, and nothing     *)
(* stops a second sign-in while one is on its way.                         *)
(***************************************************************************)
EXTENDS Naturals

CONSTANTS
    Flows,      \* bound: sign-ins on their way at once
    MaxSession  \* bound: sessions the page is ever given

Forms == {"password", "code", "setup", "reset"}
Buttons == Forms \cup {"passkey"}

VARIABLES
    target,     \* "app", "dashboard" or "code": what the address asks for
    form,       \* the form that is visible
    off,        \* buttons that are disabled
    pc,         \* where a sign-in stands
    button,     \* the button it began with
    session,    \* the session it was given, or 0
    left,       \* the page was replaced by the dashboard
    bound,      \* the account has a passkey
    dismissed,  \* users.passkey_prompt_dismissed_at is set
    made,       \* sessions given so far
    handed,     \* history: how often a session was handed over
    denied,     \* history: sessions without an authorization code, or cut off
    asked,      \* history: the question was put and answered
    unsettled   \* history: what should settle it failed

page == <<form, off, left>>
account == <<bound, dismissed>>
history == <<denied, asked, unsettled>>
vars == <<target, page, pc, button, session, account, made, handed, history>>

Sessions == 1 .. MaxSession

Init ==
    /\ target \in {"app", "dashboard", "code"}
    /\ form = "password" /\ off = {} /\ left = FALSE
    /\ pc = [f \in Flows |-> "idle"]
    /\ button = [f \in Flows |-> "password"]
    /\ session = [f \in Flows |-> 0]
    /\ dismissed \in BOOLEAN /\ bound \in {FALSE, dismissed}
    /\ made = 0 /\ handed = [s \in Sessions |-> 0]
    /\ denied = {} /\ asked = FALSE /\ unsettled = FALSE

Goto(f, step) == pc' = [pc EXCEPT ![f] = step]
On(f, step) == ~left /\ pc[f] = step

\* A flow is over; enabled holds the buttons its end enables.
End(f, enabled) ==
    /\ pc' = [pc EXCEPT ![f] = "idle"]
    /\ session' = [session EXCEPT ![f] = 0]
    /\ off' = off \ enabled

-----------------------------------------------------------------------------
(* The forms and the passkey.                                              *)

Show(to) ==
    /\ ~left /\ to \in {"password", "code", "reset"} \ {form}
    /\ form' = to
    /\ UNCHANGED <<target, off, left, pc, button, session, account, made, handed, history>>

Submit(f, b) ==
    /\ On(f, "idle") /\ b \in {form, "passkey"} \ off
    /\ Goto(f, IF b = "passkey" THEN "options" ELSE "submit")
    /\ button' = [button EXCEPT ![f] = b]
    /\ off' = off \cup {b}
    /\ UNCHANGED <<target, form, left, session, account, made, handed, history>>

AskForPasskey(f) ==
    /\ On(f, "options")
    /\ Goto(f, "verify")
    /\ UNCHANGED <<target, page, button, session, account, made, handed, history>>

\* A refusal, a cancelled dialog, a lost answer: a message.
Rejected(f) ==
    /\ \E step \in {"submit", "options", "verify"} : On(f, step)
    /\ End(f, {button[f]})
    /\ UNCHANGED <<target, form, left, button, account, made, handed, history>>

\* The code of an account without a password, or the new password of a reset.
NextForm(f) ==
    /\ On(f, "submit") /\ button[f] \in {"code", "reset"}
    /\ form' = IF button[f] = "code" THEN "setup" ELSE "password"
    /\ End(f, {button[f]})
    /\ UNCHANGED <<target, left, button, account, made, handed, history>>

Given(f) ==
    /\ made < MaxSession
    /\ made' = made + 1
    /\ session' = [session EXCEPT ![f] = made + 1]

\* offerPasskeySetup begins, or the passkey needs no offer.
SignedIn(f) ==
    /\ On(f, "submit") /\ button[f] # "reset"
    /\ Given(f)
    /\ Goto(f, "status")
    /\ UNCHANGED <<target, page, button, account, handed, history>>

SignedInByPasskey(f) ==
    /\ On(f, "verify") /\ bound
    /\ Given(f)
    /\ Goto(f, "released")
    /\ off' = off \ {"passkey"}
    /\ UNCHANGED <<target, form, left, button, account, handed, history>>

-----------------------------------------------------------------------------
(* offerPasskeySetup.                                                      *)

\* A browser without passkeys asks nothing.
Unsupported(f) ==
    /\ On(f, "status")
    /\ Goto(f, "finish")
    /\ UNCHANGED <<target, page, button, session, account, made, handed, history>>

ReadStatus(f) ==
    /\ On(f, "status")
    /\ Goto(f, IF bound \/ dismissed THEN "finish" ELSE "confirm")
    /\ UNCHANGED <<target, page, button, session, account, made, handed, history>>

Confirm(f) ==
    /\ On(f, "confirm")
    /\ \/ Goto(f, "dismiss") \/ Goto(f, "register")
    /\ UNCHANGED <<target, page, button, session, account, made, handed, history>>

\* Mutant of Dismiss: the sign-in is not taken up again.
DismissOnly(f) ==
    /\ On(f, "dismiss")
    /\ dismissed' = TRUE /\ asked' = TRUE
    /\ End(f, {button[f]})
    /\ UNCHANGED <<target, form, left, button, bound, made, handed, denied, unsettled>>

Dismiss(f) ==
    /\ On(f, "dismiss")
    /\ dismissed' = TRUE /\ asked' = TRUE
    /\ Goto(f, "finish")
    /\ UNCHANGED <<target, page, button, session, bound, made, handed, denied, unsettled>>

\* The user cancels the dialog of the authenticator.
Cancel(f) ==
    /\ On(f, "register")
    /\ \/ dismissed' = TRUE /\ UNCHANGED unsettled
       \/ unsettled' = TRUE /\ UNCHANGED dismissed
    /\ asked' = TRUE
    /\ Goto(f, "pause")
    /\ UNCHANGED <<target, page, button, session, bound, made, handed, denied>>

\* handlePasskeyRegistrationVerify binds the passkey and settles the question.
Register(f) ==
    /\ On(f, "register")
    /\ bound' = TRUE /\ dismissed' = TRUE /\ asked' = TRUE
    /\ Goto(f, "pause")
    /\ UNCHANGED <<target, page, button, session, made, handed, denied, unsettled>>

\* A passkey is removed in the dashboard.
Unbind ==
    /\ bound' = FALSE
    /\ UNCHANGED <<target, page, pc, button, session, dismissed, made, handed, history>>

\* The status, the dismissal or the registration fails, or its answer is lost.
SetupFails(f) ==
    /\ \E step \in {"status", "dismiss", "register"} : On(f, step)
    /\ \/ UNCHANGED account
       \/ pc[f] # "status" /\ dismissed' = TRUE /\ bound' = (bound \/ pc[f] = "register")
    /\ asked' = (asked \/ pc[f] # "status")
    /\ unsettled' = (unsettled \/ pc[f] # "status")
    /\ Goto(f, "pause")
    /\ UNCHANGED <<target, page, button, session, made, handed, denied>>

\* The button is enabled before the timer fires.
Release(f) ==
    /\ On(f, "pause")
    /\ off' = off \ {button[f]}
    /\ Goto(f, "released")
    /\ UNCHANGED <<target, form, left, button, session, account, made, handed, history>>

-----------------------------------------------------------------------------
(* finishLogin.                                                            *)

Finishing(f) == On(f, "finish") \/ On(f, "released")

\* A form waits for finishLogin before it enables its button, unless it let go.
Awaited(f) == IF pc[f] = "finish" THEN {button[f]} ELSE {}

\* The app opens beside the page; the dashboard replaces it.
Finish(f) ==
    /\ Finishing(f)
    /\ handed' = [handed EXCEPT ![session[f]] = @ + 1]
    /\ left' = (target = "dashboard")
    /\ End(f, Awaited(f))
    /\ UNCHANGED <<target, form, button, account, made, history>>

\* authorize fails, or its answer is not the callback that was asked for.
Unauthorized(f) ==
    /\ Finishing(f) /\ target = "code"
    /\ denied' = denied \cup {session[f]}
    /\ End(f, Awaited(f))
    /\ UNCHANGED <<target, form, left, button, account, made, handed, asked, unsettled>>

\* The user comes back to the page.
Return ==
    /\ left
    /\ left' = FALSE /\ form' = "password" /\ off' = {}
    /\ pc' = [f \in Flows |-> "idle"]
    /\ session' = [f \in Flows |-> 0]
    /\ denied' = denied \cup {session[f] : f \in {g \in Flows : session[g] # 0}}
    /\ UNCHANGED <<target, button, account, made, handed, asked, unsettled>>

Next ==
    \/ \E to \in Forms : Show(to)
    \/ \E f \in Flows :
          \/ \E b \in Buttons : Submit(f, b)
          \/ AskForPasskey(f) \/ Rejected(f) \/ NextForm(f)
          \/ SignedIn(f) \/ SignedInByPasskey(f)
          \/ Unsupported(f) \/ ReadStatus(f) \/ Confirm(f) \/ Dismiss(f) \/ Cancel(f)
          \/ Register(f) \/ SetupFails(f) \/ Release(f)
          \/ Finish(f) \/ Unauthorized(f)
    \/ Return \/ Unbind

Spec == Init /\ [][Next]_vars

-----------------------------------------------------------------------------
(* Properties.                                                             *)

\* The page and its sign-ins keep their type.
TypeOK ==
    /\ target \in {"app", "dashboard", "code"}
    /\ form \in Forms /\ off \subseteq Buttons
    /\ {left, bound, dismissed, asked, unsettled} \subseteq BOOLEAN
    /\ pc \in [Flows -> {"idle", "submit", "options", "verify", "status",
                         "confirm", "dismiss", "register", "pause", "finish", "released"}]
    /\ button \in [Flows -> Buttons]
    /\ session \in [Flows -> Sessions \cup {0}]
    /\ made \in 0 .. MaxSession
    /\ handed \in [Sessions -> Nat] /\ denied \subseteq Sessions

Held(s) == \E f \in Flows : session[f] = s

\* However its passkey offer ends, a sign-in hands its session over once, unless
\* it is refused the authorization code or another sign-in took the page away;
\* and a question that was answered is not put again, unless its answer failed
\* (offerPasskeySetup and finishLogin in assets/pages/auth/app.js).
HandedOverOnce ==
    /\ \A s \in 1 .. made :
          /\ handed[s] <= 1
          /\ ~Held(s) /\ s \notin denied => handed[s] = 1
    /\ asked /\ ~unsettled => dismissed
=============================================================================
