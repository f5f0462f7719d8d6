----------------------------- MODULE OAuthLinks -----------------------------
(***************************************************************************)
(* Sign-in through GitHub and Google (src/src/auth/oauth.js): how the      *)
(* account of an e-mail address is found or created and how the identity   *)
(* is linked to it in user_oauth_accounts.  One statement is one step, so  *)
(* callbacks of one identity, bindings by e-mail and the deletion of       *)
(* accounts run between the look-ups and the writes they justify.          *)
(*                                                                         *)
(* A request in a slot starts where the provider (or the code mailed for a *)
(* binding) has vouched for identity and address; it may stop at any step: *)
(* a banned account, a statement that fails, a Worker that is dropped.     *)
(***************************************************************************)
EXTENDS Naturals, FiniteSets

CONSTANTS
    Slots,      \* callbacks open at once
    Subs,       \* identities at a provider
    Emails,
    NoSub, NoEmail,
    MaxUser     \* bound: accounts ever created

ASSUME OAuthAssumption ==
    /\ IsFiniteSet(Slots)
    /\ NoSub \notin Subs /\ NoEmail \notin Emails
    /\ MaxUser \in Nat

VARIABLES
    account,    \* users: the account of an address, NoUser if it has none
    born,       \* accounts created so far; an id is never used again
    link,       \* user_oauth_accounts, by provider and provider_user_id
    pc,
    call,       \* route, identity and vouched address of a request
    user,       \* the account it found
    linked,     \* it found a link when it arrived (existingAccount)
    cut,        \* history: a link of its Google identity was deleted under it
    reached     \* history: accounts linked to an identity since it had no link

tables == <<account, born, link>>
locals == <<pc, call, user, linked, cut>>
vars == <<tables, locals, reached>>

Providers == {"github", "google"}
Users == 1 .. MaxUser
NoUser == 0
NoLink == [user |-> NoUser, email |-> NoEmail]

\* A GitHub identity without a verified address is bound to one by a mailed
\* code ("bind").
Calls == [route : {"github", "bind", "google"}, sub : Subs, email : Emails]
Idle == [route |-> "none", sub |-> NoSub, email |-> NoEmail]

Provider(s) == IF call[s].route = "google" THEN "google" ELSE "github"

Exists(u) == \E e \in Emails : account[e] = u /\ u # NoUser
LinkOf(s) == link[Provider(s)][call[s].sub]

\* The identities of the provider of s that the address of s is linked to.
EmailLinks(s) ==
    {x \in Subs : link[Provider(s)][x].email = call[s].email}

-----------------------------------------------------------------------------
Init ==
    /\ account = [e \in Emails |-> NoUser]
    /\ born = 0
    /\ link = [p \in Providers |-> [x \in Subs |-> NoLink]]
    /\ pc = [s \in Slots |-> "idle"]
    /\ call = [s \in Slots |-> Idle]
    /\ user = [s \in Slots |-> NoUser]
    /\ linked = [s \in Slots |-> FALSE]
    /\ cut = [s \in Slots |-> FALSE]
    /\ reached = [p \in Providers |-> [x \in Subs |-> {}]]

Goto(s, step) == pc' = [pc EXCEPT ![s] = step]

\* The response is sent.
Leave(s) ==
    /\ Goto(s, "idle")
    /\ call' = [call EXCEPT ![s] = Idle]
    /\ user' = [user EXCEPT ![s] = NoUser]
    /\ linked' = [linked EXCEPT ![s] = FALSE]
    /\ cut' = [cut EXCEPT ![s] = FALSE]

\* handleGitHubCallback and handleGitHubBindVerify look for the account of the
\* address first, handleGoogleCallback for the identity.
Arrive(s) ==
    /\ pc[s] = "idle"
    /\ \E c \in Calls :
        /\ call' = [call EXCEPT ![s] = c]
        /\ Goto(s, IF c.route = "google" THEN "known" ELSE "find")
    /\ UNCHANGED <<tables, user, linked, cut, reached>>

\* existingAccount of handleGoogleCallback.
Known(s) ==
    /\ pc[s] = "known"
    /\ linked' = [linked EXCEPT ![s] = LinkOf(s) # NoLink]
    /\ user' = [user EXCEPT ![s] = LinkOf(s).user]
    /\ Goto(s, "find")
    /\ UNCHANGED <<tables, call, cut, reached>>

\* Where a request goes with the account it found.
Found(s) == IF linked[s] THEN "session"
            ELSE IF Provider(s) = "github" THEN "ownLink" ELSE "emailLink"

\* getUserById of the linked account, else getUserByEmail.
Find(s) ==
    /\ pc[s] = "find"
    /\ LET u == IF linked[s] THEN (IF Exists(user[s]) THEN user[s] ELSE NoUser)
                             ELSE account[call[s].email]
       IN /\ user' = [user EXCEPT ![s] = u]
          /\ Goto(s, IF u = NoUser THEN "create" ELSE Found(s))
    /\ UNCHANGED <<tables, call, linked, cut, reached>>

\* INSERT OR IGNORE INTO users: of two first sign-ins one creates the account.
Create(s) ==
    /\ pc[s] = "create"
    /\ IF account[call[s].email] = NoUser
       THEN /\ born < MaxUser
            /\ born' = born + 1
            /\ account' = [account EXCEPT ![call[s].email] = born']
       ELSE UNCHANGED <<account, born>>
    /\ Goto(s, "reread")
    /\ UNCHANGED <<link, call, user, linked, cut, reached>>

\* getUserByEmail again; an account that is gone already ends the request.
Reread(s) ==
    /\ pc[s] = "reread"
    /\ IF account[call[s].email] = NoUser
       THEN Leave(s)
       ELSE /\ user' = [user EXCEPT ![s] = account[call[s].email]]
            /\ Goto(s, Found(s))
            /\ UNCHANGED <<call, linked, cut>>
    /\ UNCHANGED <<tables, reached>>

-----------------------------------------------------------------------------
\* Linking.

\* Past its own link a callback looks at the address, a binding does not.
Onward(s) == IF call[s].route = "bind" THEN "claim" ELSE "emailLink"

\* Mutant of OwnLink: the account an identity is linked to is not compared.
OwnLinkIgnored(s) ==
    /\ pc[s] = "ownLink"
    /\ Goto(s, Onward(s))
    /\ UNCHANGED <<tables, call, user, linked, cut, reached>>

\* GitHub, existingOAuth: an identity linked to another account is refused.
OwnLink(s) ==
    /\ pc[s] = "ownLink"
    /\ IF LinkOf(s).user \notin {NoUser, user[s]}
       THEN Leave(s)
       ELSE /\ Goto(s, Onward(s))
            /\ UNCHANGED <<call, user, linked, cut>>
    /\ UNCHANGED <<tables, reached>>

\* An address linked through another identity to another account is refused.
EmailLink(s) ==
    /\ pc[s] = "emailLink"
    /\ IF \E x \in EmailLinks(s) : link[Provider(s)][x].user # user[s]
       THEN Leave(s)
       ELSE /\ Goto(s, "link")
            /\ UNCHANGED <<call, user, linked, cut>>
    /\ UNCHANGED <<tables, reached>>

\* consumeAuthChallenge: a challenge that is still unused (OneTimeGrants).
Claim(s) ==
    /\ pc[s] = "claim"
    /\ Goto(s, "link")
    /\ UNCHANGED <<tables, call, user, linked, cut, reached>>

Linking(s) ==
    LET p == Provider(s)
        x == call[s].sub
    IN /\ link' = [link EXCEPT ![p][x] = [user |-> user[s], email |-> call[s].email]]
       /\ reached' = [reached EXCEPT ![p][x] = @ \cup {user[s]}]

\* GitHub: the upsert moves a link that exists.  A deleted account (foreign
\* key) or an address that another identity holds (unique index) fails it.
LinkGitHub(s) ==
    /\ pc[s] = "link" /\ Provider(s) = "github"
    /\ IF Exists(user[s]) /\ EmailLinks(s) \subseteq {call[s].sub}
       THEN /\ Linking(s)
            /\ Goto(s, "session")
            /\ UNCHANGED <<call, user, linked, cut>>
       ELSE /\ Leave(s)
            /\ UNCHANGED <<link, reached>>
    /\ UNCHANGED <<account, born>>

\* Google: INSERT OR IGNORE gives way to a link or an address that is there,
\* but not to a missing account.
LinkGoogle(s) ==
    /\ pc[s] = "link" /\ Provider(s) = "google"
    /\ IF Exists(user[s])
       THEN /\ IF LinkOf(s) = NoLink /\ EmailLinks(s) = {}
               THEN Linking(s)
               ELSE UNCHANGED <<link, reached>>
            /\ Goto(s, "compare")
            /\ UNCHANGED <<call, user, linked, cut>>
       ELSE /\ Leave(s)
            /\ UNCHANGED <<link, reached>>
    /\ UNCHANGED <<account, born>>

\* Mutant of Compare: any link will do.
CompareNothing(s) ==
    /\ pc[s] = "compare"
    /\ IF LinkOf(s) = NoLink
       THEN Leave(s)
       ELSE /\ Goto(s, "session")
            /\ UNCHANGED <<call, user, linked, cut>>
    /\ UNCHANGED <<tables, reached>>

\* Google, linkedAccount: the link that is there now must be the account's.
Compare(s) ==
    /\ pc[s] = "compare"
    /\ IF LinkOf(s).user # user[s]
       THEN Leave(s)
       ELSE /\ Goto(s, "session")
            /\ UNCHANGED <<call, user, linked, cut>>
    /\ UNCHANGED <<tables, reached>>

\* createAuthorizationCode or createSessionWithMetadata, or a failure anywhere.
End(s) ==
    /\ pc[s] # "idle"
    /\ Leave(s)
    /\ UNCHANGED <<tables, reached>>

\* deleteUserAccount: the links go with the account (ON DELETE CASCADE).
Delete(e) ==
    /\ account[e] # NoUser
    /\ account' = [account EXCEPT ![e] = NoUser]
    /\ LET Lost == {px \in Providers \X Subs : link[px[1]][px[2]].user = account[e]} IN
       /\ link' = [p \in Providers |-> [x \in Subs |->
                      IF <<p, x>> \in Lost THEN NoLink ELSE link[p][x]]]
       /\ reached' = [p \in Providers |-> [x \in Subs |->
                      IF <<p, x>> \in Lost THEN {} ELSE reached[p][x]]]
       /\ cut' = [s \in Slots |->
                      cut[s] \/ (Provider(s) = "google" /\ <<"google", call[s].sub>> \in Lost)]
    /\ UNCHANGED <<born, pc, call, user, linked>>

Next ==
    \/ \E s \in Slots :
        \/ Arrive(s) \/ Known(s) \/ Find(s) \/ Create(s) \/ Reread(s)
        \/ OwnLink(s) \/ EmailLink(s) \/ Claim(s) \/ LinkGitHub(s) \/ LinkGoogle(s) \/ Compare(s)
        \/ End(s)
    \/ \E e \in Emails : Delete(e)

Spec == Init /\ [][Next]_vars

-----------------------------------------------------------------------------
\* Properties.

\* Every Google sign-in of one identity ends in one account, whatever address
\* the identity shows and however many first sign-ins race, as long as no
\* linked account is deleted under it: the callback that loses the race to
\* link sees so when it reads the link again.
GoogleReachesItsLink ==
    \A s \in Slots :
        pc[s] = "session" /\ Provider(s) = "google" /\ ~cut[s] =>
            LinkOf(s).user = user[s]

\* GitHub requests past the check of the link, about to link an account.
Underway(x) ==
    {s \in Slots : /\ Provider(s) = "github" /\ call[s].sub = x
                   /\ pc[s] \in {"emailLink", "claim", "link"}}

\* The GitHub upsert moves a link that another request made after this one
\* looked, so an identity can sign in to several accounts, but only to those
\* of requests that were open together when it had no link.
GitHubReachBounded ==
    \A x \in Subs :
        Cardinality(reached["github"][x] \cup {user[s] : s \in Underway(x)})
            <= Cardinality(Slots)
=============================================================================
