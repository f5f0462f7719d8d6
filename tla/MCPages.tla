------------------------------- MODULE MCPages -------------------------------
(***************************************************************************)
(* The five machines of the browser, for TLC: the pages of a user, the     *)
(* sign-in page and its resend button, the administration and its forms.   *)
(* Each has what it needs of the server among its own actions and they     *)
(* share no variable, so the initial state picks the one that moves.       *)
(***************************************************************************)
EXTENDS UserPage, TLC

CONSTANTS
    t1, t2, c1, c2, f1, f2, Ranges, NoRange, Limits, Default, Hours, MaxHour, Offsets, NoRow,
    Flows, Gap, MaxTime

VARIABLES
    part,
    access, behind, vouched, lapsed, adminToken, adminStored, overlay, timer, adminCall, range, drawn,
    typed, crossed, failed, late,
    kind, row, cached, list, editForm, sent, touched, offset, stale,
    target, form, off, step, origin, session, left, bound, dismissed, given, handed,
    denied, asked, unsettled,
    now, rows, button, request, seconds, ticks, since, foreign, early

consoleVars == <<access, behind, vouched, lapsed, adminToken, adminStored, overlay, timer,
                 adminCall, range, drawn, typed, crossed, failed, late>>
editVars == <<kind, row, cached, list, editForm, sent, touched, offset, stale>>
signInVars == <<target, form, off, step, origin, session, left, bound, dismissed, given,
                handed, denied, asked, unsettled>>
resendVars == <<now, rows, button, request, seconds, ticks, since, foreign, early>>

Console == INSTANCE AdminConsole WITH
    token <- adminToken, stored <- adminStored, call <- adminCall, shown <- drawn,
    overtaken <- late
Edits == INSTANCE AdminEdits WITH form <- editForm
Login == INSTANCE SignInPage WITH pc <- step, button <- origin, made <- given
Resend == INSTANCE ResendButton

ASSUME PagesAssumption ==
    /\ PageAssumption /\ Console!ConsoleAssumption /\ Edits!EditsAssumption
    /\ Resend!ResendAssumption

\* A machine that does not move has one initial state; a clock matters only to
\* the expiry of a key.
PagesInit ==
    /\ part \in {"user", "console", "edits", "sign-in", "resend"}
    /\ Init /\ Console!Init /\ Edits!Init /\ Login!Init /\ Resend!Init
    /\ part # "user" => page = "overview"
    /\ part # "console" => ~access /\ ~behind /\ adminStored = "none"
    /\ kind = "model" => offset = [t \in Tabs |-> 0]
    /\ part # "edits" => /\ kind = "key" /\ offset = [t \in Tabs |-> 0]
                         /\ row = CHOOSE r \in Edits!Row :
                                    r.enabled /\ r.expiry.text = "never" /\ r.expiry.hour \in Hours
    /\ part # "sign-in" => target = "app" /\ ~dismissed

PagesNext ==
    /\ UNCHANGED part
    /\ \/ part = "user" /\ Next
          /\ UNCHANGED <<consoleVars, editVars, signInVars, resendVars>>
       \/ part = "console" /\ Console!Next
          /\ UNCHANGED <<vars, editVars, signInVars, resendVars>>
       \/ part = "edits" /\ Edits!Next
          /\ UNCHANGED <<vars, consoleVars, signInVars, resendVars>>
       \/ part = "sign-in" /\ Login!Next
          /\ UNCHANGED <<vars, consoleVars, editVars, resendVars>>
       \/ part = "resend" /\ Resend!Next
          /\ UNCHANGED <<vars, consoleVars, editVars, signInVars>>

PagesSpec ==
    PagesInit /\ [][PagesNext]_<<part, vars, consoleVars, editVars, signInVars, resendVars>>

-----------------------------------------------------------------------------
(* Their properties, by name.                                              *)

\* Nobody is left in front of an administration the server refuses, but where the
\* page was told of Cloudflare Access by a header (initApp and apiCall in
\* assets/pages/admin/app.js, serveAdminPage in ui/static-pages.js).
AppIsAuthorised == Console!AppIsAuthorised

\* Not even there: expected to be violated (apiCall in assets/pages/admin/app.js).
FallbackOffered == Console!FallbackOffered

\* Only what crossed it can end a login with the right token (doLogin and
\* apiCall in assets/pages/admin/app.js).
LoginKept == Console!LoginKept

\* A form that is saved changes no field but those that were touched in it, those
\* that had another value in the row when, or since, its tab read it, and an
\* expiry its input cannot hold or its clock moves (showEditModal and handleEdit
\* in assets/pages/admin/app.js).
UntouchedKept == Edits!UntouchedKept

\* What a page shows at rest is what it was asked for last and what its user
\* did, unless an older answer was drawn over the newest one: the range of the
\* trend chart and the tickets and passkeys of a user (loadTrend in
\* assets/pages/admin/app.js, the loads of assets/pages/dashboard/app.js).
ScreensCurrent == Console!RangeShown /\ OwnShown

\* Whatever becomes of the passkey offer, a sign-in hands its session over once
\* (offerPasskeySetup and finishLogin in assets/pages/auth/app.js).
HandedOverOnce == Login!HandedOverOnce

\* A button that has counted down is not too early for its own code (send-code
\* in assets/pages/auth/app.js, sendVerificationCode in auth/email.js).
NeverEarly == Resend!NeverEarly

\* The pages keep their type.
PagesTypeOK ==
    TypeOK /\ Console!TypeOK /\ Edits!TypeOK /\ Login!TypeOK /\ Resend!TypeOK

TwoTabs == {t1, t2}
TwoCalls == {c1, c2}
TwoFlows == {f1, f2}
Symmetry == Permutations(TwoTabs) \cup Permutations(TwoCalls) \cup Permutations(TwoFlows)
=============================================================================
