------------------------------ MODULE UserPage ------------------------------
(***************************************************************************)
(* The pages of a user (assets/pages/dashboard/app.js) in the tabs of his  *)
(* browser.  The tabs share the session token of localStorage; every       *)
(* request takes the token of its moment; answers come in any order, or    *)
(* not at all, and a refused load sends the tab to the sign-in page, which *)
(* abandons what the tab still waits for.  A page lists tickets or         *)
(* passkeys (Items) and loads the list again after every change it made.   *)
(***************************************************************************)
EXTENDS Naturals

CONSTANTS
    Tabs,
    Calls,       \* bound: requests in flight
    Items,       \* bound: tickets filed or passkeys bound
    MaxSession,  \* bound: sessions ever made
    NoTab,       \* a call that is free
    NoList       \* a page that shows a message instead of its list

PageAssumption == MaxSession \in Nat \ {0} /\ NoTab \notin Tabs /\ (\A s \in SUBSET Items : s # NoList)

VARIABLES
    page,       \* "overview", "tickets" or "security"
    items,      \* the rows of the server
    live,       \* the sessions the server accepts
    made,       \* sessions made so far
    stored,     \* sp_session_token, 0 when there is none
    here,       \* tabs on the page, not on the sign-in page
    busy,       \* tabs whose refresh button is disabled
    shown,      \* the list a tab shows
    call,       \* requests in flight
    told,       \* history: what a tab was told last of its own changes
    overtaken,  \* history: tabs whose last answer drawn was not the newest
    owed        \* history: sessions a logout was pressed for, unless it was
                \* lost or abandoned, that the server still accepts

server == <<items, live, made>>
tabs == <<here, busy, shown, told, overtaken>>
vars == <<page, server, stored, tabs, call, owed>>

Sessions == 1 .. MaxSession
There == {i \in Items : items[i] = "there"}
Loads == {"dashboard", "list"}

Free == [tab |-> NoTab, kind |-> "free", token |-> 0, state |-> "free",
         items |-> {}, newest |-> FALSE]
Sent(t, kind) == [Free EXCEPT !.tab = t, !.kind = kind, !.token = stored, !.state = "sent"]

Untold == [i \in Items |-> "nothing"]

Init ==
    /\ page \in {"overview", "tickets", "security"}
    /\ items = [i \in Items |-> "new"]
    /\ live = {1} /\ made = 1 /\ stored = 1
    /\ here = {} /\ busy = {} /\ overtaken = {}
    /\ shown = [t \in Tabs |-> NoList]
    /\ told = [t \in Tabs |-> Untold]
    /\ call = [c \in Calls |-> Free]
    /\ owed = {}

-----------------------------------------------------------------------------
(* Loading and leaving a page.                                             *)

\* loadContributions and loadFeedback ask for the dashboard and then for their
\* list, loadSecurity and loadDashboard ask once.  token is the one of now.
LoadWith(t, c, token) ==
    /\ call' = [[d \in Calls |-> IF call[d].tab = t THEN [call[d] EXCEPT !.newest = FALSE]
                                 ELSE call[d]]
                  EXCEPT ![c] = [Sent(t, IF page = "tickets" THEN "dashboard" ELSE "list")
                                    EXCEPT !.token = token, !.newest = TRUE]]
    /\ busy' = busy \cup {t}
    /\ overtaken' = overtaken \ {t}

\* Logouts of a tab that have not reached the server.
LoggingOut(t) ==
    {call[c].token : c \in {d \in Calls :
        call[d].tab = t /\ call[d].kind = "logout" /\ call[d].state = "sent"}}

Changes == {"post", "delete", "logout"}

\* login: nobody waits for the answers any more; what was sent may still arrive,
\* and matters when it changes something.
LeavePage(t, calls) ==
    /\ call' = [d \in Calls |-> IF /\ calls[d].tab = t
                                   /\ calls[d].state # "sent" \/ calls[d].kind \notin Changes
                                THEN Free ELSE calls[d]]
    /\ here' = here \ {t}
    /\ busy' = busy \ {t}
    /\ overtaken' = overtaken \ {t}
    /\ shown' = [shown EXCEPT ![t] = NoList]
    /\ told' = [told EXCEPT ![t] = Untold]

\* A logout that has not reached the server may be lost with the tab.
Leave(t, calls) ==
    /\ LeavePage(t, calls)
    /\ owed' = (owed \ LoggingOut(t)) \cap live

\* The tab opens the page again, with what is stored or, after a sign-in, with
\* the access_token of its URL.  What it abandoned has come to its end by then.
Open(t, c) ==
    /\ t \notin here /\ \A d \in Calls : call[d].tab # t
    /\ LoadWith(t, c, stored)
    /\ here' = here \cup {t}
    /\ UNCHANGED <<page, server, stored, shown, told, owed>>

SignIn(t, c) ==
    /\ t \notin here /\ \A d \in Calls : call[d].tab # t
    /\ made < MaxSession
    /\ made' = made + 1 /\ live' = live \cup {made + 1} /\ stored' = made + 1
    /\ LoadWith(t, c, made + 1)
    /\ here' = here \cup {t}
    /\ UNCHANGED <<page, items, shown, told, owed>>

Refresh(t, c) ==
    /\ t \in here \ busy /\ call[c] = Free
    /\ LoadWith(t, c, stored)
    /\ UNCHANGED <<page, server, stored, here, shown, told, owed>>

-----------------------------------------------------------------------------
(* What the user does.                                                     *)

\* Mutant of Logout: the tab leaves without waiting for the answer.
LogoutAtOnce(t, c) ==
    /\ t \in here /\ stored # 0 /\ call[c] = Free
    /\ LeavePage(t, [call EXCEPT ![c] = Sent(t, "logout")])
    /\ stored' = 0
    /\ owed' = (owed \cup {stored}) \cap live
    /\ UNCHANGED <<page, server>>

Logout(t, c) ==
    /\ t \in here /\ stored # 0 /\ call[c] = Free
    /\ call' = [call EXCEPT ![c] = Sent(t, "logout")]
    /\ stored' = 0
    /\ owed' = (owed \cup {stored}) \cap live
    /\ UNCHANGED <<page, server, tabs>>

\* A second click, or the first in a tab another tab has logged out.
LogoutAgain(t) ==
    /\ t \in here /\ stored = 0
    /\ Leave(t, call)
    /\ UNCHANGED <<page, server, stored>>

\* submitContribution and submitFeedback; addPasskey asks for options first.
Submit(t, c) ==
    /\ t \in here /\ shown[t] # NoList /\ page # "overview" /\ call[c] = Free
    /\ call' = [call EXCEPT ![c] = Sent(t, IF page = "tickets" THEN "post" ELSE "options")]
    /\ UNCHANGED <<page, server, stored, tabs, owed>>

RemovePasskey(t, c) ==
    /\ t \in here /\ page = "security" /\ call[c] = Free
    /\ shown[t] # NoList
    /\ \E i \in shown[t] :
          call' = [call EXCEPT ![c] = [Sent(t, "delete") EXCEPT !.items = {i}]]
    /\ UNCHANGED <<page, server, stored, tabs, owed>>

-----------------------------------------------------------------------------
(* The server.                                                             *)

Serve(c) ==
    /\ call[c].state = "sent"
    /\ IF call[c].kind = "logout"
       THEN /\ live' = live \ {call[c].token}
            /\ call' = [call EXCEPT ![c].state = "served"]
            /\ UNCHANGED items
       ELSE /\ UNCHANGED live
            /\ IF call[c].token \notin live
               THEN call' = [call EXCEPT ![c].state = "refused"] /\ UNCHANGED items
               ELSE \/ /\ call[c].kind \in Loads \cup {"options"}
                       /\ call' = [call EXCEPT ![c].state = "served", ![c].items = There]
                       /\ UNCHANGED items
                    \/ /\ call[c].kind = "post"
                       /\ \E i \in Items :
                             /\ items[i] = "new"
                             /\ items' = [items EXCEPT ![i] = "there"]
                             /\ call' = [call EXCEPT ![c].state = "served", ![c].items = {i}]
                    \/ /\ call[c].kind = "delete"
                       /\ call[c].items \subseteq There
                       /\ items' = [i \in Items |-> IF i \in call[c].items THEN "gone" ELSE items[i]]
                       /\ call' = [call EXCEPT ![c].state = "served"]
    /\ owed' = owed \cap live'
    /\ UNCHANGED <<page, made, stored, tabs>>

\* A session expires, or is revoked elsewhere.
End ==
    /\ \E s \in live : live' = live \ {s} /\ owed' = owed \ {s}
    /\ UNCHANGED <<page, items, made, stored, tabs, call>>

-----------------------------------------------------------------------------
(* The answers.                                                            *)

Answered(c, kinds) ==
    /\ call[c].tab \in here
    /\ call[c].state = "served" /\ call[c].kind \in kinds

\* Whatever load is answered, its tab shows it.
Draw(c, list) ==
    /\ shown' = [shown EXCEPT ![call[c].tab] = list]
    /\ busy' = busy \ {call[c].tab}
    /\ overtaken' = IF call[c].newest THEN overtaken ELSE overtaken \cup {call[c].tab}

AnswerDashboard(c) ==
    /\ Answered(c, {"dashboard"})
    /\ call' = [call EXCEPT ![c] = [Sent(@.tab, "list") EXCEPT !.newest = call[c].newest]]
    /\ UNCHANGED <<page, server, stored, tabs, owed>>

\* setApp.
AnswerList(c) ==
    /\ Answered(c, {"list"})
    /\ Draw(c, call[c].items)
    /\ call' = [call EXCEPT ![c] = Free]
    /\ UNCHANGED <<page, server, stored, here, told, owed>>

\* The authenticator is asked; the user may cancel.
AnswerOptions(c) ==
    /\ Answered(c, {"options"})
    /\ \/ call' = [call EXCEPT ![c] = Sent(@.tab, "post")]
       \/ call' = [call EXCEPT ![c] = Free]
    /\ UNCHANGED <<page, server, stored, tabs, owed>>

Tell(c) ==
    told' = [told EXCEPT ![call[c].tab] =
                [i \in Items |-> IF i \notin call[c].items THEN @[i]
                                ELSE IF call[c].kind = "post" THEN "added" ELSE "removed"]]

\* Mutant of AnswerChange: the change is announced and the list stays.
AnswerChangeOnly(c) ==
    /\ Answered(c, {"post", "delete"})
    /\ Tell(c)
    /\ call' = [call EXCEPT ![c] = Free]
    /\ UNCHANGED <<page, server, stored, here, busy, shown, overtaken, owed>>

AnswerChange(c) ==
    /\ Answered(c, {"post", "delete"})
    /\ Tell(c)
    /\ LoadWith(call[c].tab, c, stored)
    /\ UNCHANGED <<page, server, stored, here, shown, owed>>

\* The finally of logout.
AnswerLogout(c) ==
    /\ Answered(c, {"logout"})
    /\ Leave(call[c].tab, call)
    /\ UNCHANGED <<page, server, stored>>

\* setError sees that the session is refused; a refused change is a message.
Refuse(c) ==
    /\ call[c].tab \in here /\ call[c].state = "refused"
    /\ IF call[c].kind \in Loads
       THEN Leave(call[c].tab, call)
       ELSE call' = [call EXCEPT ![c] = Free] /\ UNCHANGED <<tabs, owed>>
    /\ UNCHANGED <<page, server, stored>>

\* The request or its answer is lost, or the server fails.
Break(c) ==
    /\ call[c].tab \in here
    /\ \/ /\ call[c].kind \in Loads
          /\ Draw(c, NoList)
          /\ call' = [call EXCEPT ![c] = Free]
          /\ UNCHANGED <<here, told, owed>>
       \/ /\ call[c].kind = "logout"
          /\ Leave(call[c].tab, [call EXCEPT ![c] = Free])
       \/ /\ call[c].kind \in {"post", "options", "delete"}
          /\ call' = [call EXCEPT ![c] = Free]
          /\ UNCHANGED <<tabs, owed>>
    /\ UNCHANGED <<page, server, stored>>

\* What an abandoned request does not do at the server any more.
Abandon(c) ==
    /\ call[c] # Free /\ call[c].tab \notin here
    /\ call' = [call EXCEPT ![c] = Free]
    /\ UNCHANGED <<page, server, stored, tabs, owed>>

Next ==
    \/ \E t \in Tabs, c \in Calls :
          /\ call[c] = Free
          /\ \/ Open(t, c) \/ SignIn(t, c) \/ Refresh(t, c)
             \/ Logout(t, c) \/ Submit(t, c) \/ RemovePasskey(t, c)
    \/ \E t \in Tabs : LogoutAgain(t)
    \/ \E c \in Calls :
          \/ Serve(c) \/ AnswerDashboard(c) \/ AnswerList(c) \/ AnswerOptions(c)
          \/ AnswerChange(c) \/ AnswerLogout(c) \/ Refuse(c) \/ Break(c) \/ Abandon(c)
    \/ End

Spec == Init /\ [][Next]_vars

-----------------------------------------------------------------------------
(* Properties.                                                             *)

\* The tabs and the requests keep their type.
TypeOK ==
    /\ page \in {"overview", "tickets", "security"}
    /\ items \in [Items -> {"new", "there", "gone"}]
    /\ live \subseteq Sessions /\ made \in Sessions /\ stored \in Sessions \cup {0}
    /\ here \subseteq Tabs /\ busy \subseteq here /\ overtaken \subseteq here
    /\ shown \in [Tabs -> (SUBSET Items) \cup {NoList}]
    /\ told \in [Tabs -> [Items -> {"nothing", "added", "removed"}]]
    /\ call \in [Calls -> [tab : Tabs \cup {NoTab},
                           kind : Loads \cup {"free", "post", "options", "delete", "logout"},
                           token : Sessions \cup {0},
                           state : {"free", "sent", "served", "refused"},
                           items : SUBSET Items, newest : BOOLEAN]]
    /\ owed \subseteq live

\* A session the user logged out of is revoked once its request is over, unless
\* that request failed or the tab was sent away before it arrived: by a second
\* click, or by the refusal of another load (logout and setError in
\* assets/pages/dashboard/app.js).  A tab does not leave on its own before.
LogoutRevokes == owed \subseteq UNION {LoggingOut(t) : t \in Tabs}

\* When a tab waits for nothing, the list it shows has what it added and not
\* what it removed, unless an older answer was drawn over the newest one (the
\* loads of assets/pages/dashboard/app.js).
OwnShown ==
    \A t \in here \ overtaken :
        shown[t] # NoList /\ (\A c \in Calls : call[c].tab # t) =>
            \A i \in Items :
                /\ told[t][i] = "added" /\ i \in There => i \in shown[t]
                /\ told[t][i] = "removed" => i \notin shown[t]
=============================================================================
