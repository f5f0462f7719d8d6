-------------------------- MODULE OAuthLinks_proofs --------------------------
(***************************************************************************)
(* For any number of callbacks, identities and addresses: a Google sign-in *)
(* reaches the account its identity is linked to, and a GitHub identity    *)
(* reaches at most as many accounts as there are callbacks at once.        *)
(***************************************************************************)
EXTENDS OAuthLinks, FiniteSetTheorems, TLAPS

Stages == {"idle", "find", "known", "create", "reread", "ownLink", "emailLink",
           "claim", "link", "compare", "session"}

LinksTypeOK ==
    /\ account \in [Emails -> Nat]
    /\ born \in Nat
    /\ link \in [Providers -> [Subs -> [user : Nat, email : Emails \cup {NoEmail}]]]
    /\ pc \in [Slots -> Stages]
    /\ call \in [Slots -> Calls \cup {Idle}]
    /\ user \in [Slots -> Nat]
    /\ linked \in [Slots -> BOOLEAN]
    /\ cut \in [Slots -> BOOLEAN]
    /\ reached \in [Providers -> [Subs -> SUBSET Nat]]
    /\ \A s \in Slots : pc[s] # "idle" => call[s] \in Calls

\* A link leads to an account that exists (the foreign key and its cascade).
LinksLead ==
    \A p \in Providers, x \in Subs :
        link[p][x] # NoLink => link[p][x].user # NoUser /\ Exists(link[p][x].user)

\* What a request knows of the account it found.
FoundKept ==
    \A s \in Slots :
        /\ pc[s] \in {"ownLink", "emailLink", "claim", "link", "compare"} => user[s] # NoUser
        /\ pc[s] \in {"idle", "known", "ownLink", "emailLink", "claim", "link", "compare"} => ~linked[s]
        /\ linked[s] \/ pc[s] \in {"known", "compare"} => Provider(s) = "google"

\* A request that arrived with a link still has it, and signs in to its account.
GoogleKept ==
    \A s \in Slots : Provider(s) = "google" /\ ~cut[s] =>
        /\ pc[s] \in {"create", "reread"} => ~linked[s]
        /\ pc[s] = "session" \/ (pc[s] = "find" /\ linked[s]) =>
               user[s] # NoUser /\ LinkOf(s).user = user[s]

LinksInv == LinksTypeOK /\ LinksLead /\ FoundKept /\ GoogleKept

\* A request that is open names a provider, an identity and an address, and so a
\* row of user_oauth_accounts.
LEMMA Fields ==
    ASSUME LinksTypeOK, NEW s \in Slots, pc[s] # "idle"
    PROVE  /\ Provider(s) \in Providers /\ call[s].sub \in Subs /\ call[s].email \in Emails
           /\ LinkOf(s) \in [user : Nat, email : Emails \cup {NoEmail}]
           /\ LinkOf(s).user \in Nat
           /\ account[call[s].email] \in Nat
<1>1. call[s] \in [route : {"github", "bind", "google"}, sub : Subs, email : Emails]
    BY DEF LinksTypeOK, Calls
<1>2. call[s].sub \in Subs /\ call[s].email \in Emails
    BY <1>1
<1>3. Provider(s) \in Providers
    BY DEF Provider, Providers
<1>4. LinkOf(s) \in [user : Nat, email : Emails \cup {NoEmail}]
    BY <1>2, <1>3 DEF LinksTypeOK, LinkOf
<1>5. LinkOf(s).user \in Nat
    BY <1>4
<1> QED BY <1>2, <1>3, <1>4, <1>5 DEF LinksTypeOK

\* The types of the tables and of the locals apart.
TablesOK ==
    /\ account \in [Emails -> Nat]
    /\ born \in Nat
    /\ link \in [Providers -> [Subs -> [user : Nat, email : Emails \cup {NoEmail}]]]
    /\ reached \in [Providers -> [Subs -> SUBSET Nat]]

LocalsOK ==
    /\ pc \in [Slots -> Stages]
    /\ call \in [Slots -> Calls \cup {Idle}]
    /\ user \in [Slots -> Nat]
    /\ linked \in [Slots -> BOOLEAN]
    /\ cut \in [Slots -> BOOLEAN]
    /\ \A s \in Slots : pc[s] # "idle" => call[s] \in Calls

\* A request that is over holds nothing.
LEMMA LeaveTyped == ASSUME LinksTypeOK, NEW s \in Slots, Leave(s) PROVE LocalsOK'
    BY DEF LinksTypeOK, LocalsOK, Leave, Goto, NoUser, Stages

\* A link that is written has the type of a row.
LEMMA LinkingTyped ==
    ASSUME LinksTypeOK, NEW s \in Slots, pc[s] # "idle", Linking(s)
    PROVE  /\ link' \in [Providers -> [Subs -> [user : Nat, email : Emails \cup {NoEmail}]]]
           /\ reached' \in [Providers -> [Subs -> SUBSET Nat]]
<1> DEFINE row == [user |-> user[s], email |-> call[s].email]
<1>1. PICK p \in Providers, x \in Subs : p = Provider(s) /\ x = call[s].sub
    BY Fields
<1>2. row \in [user : Nat, email : Emails \cup {NoEmail}]
    BY Fields DEF LinksTypeOK
<1>3. link' = [link EXCEPT ![p][x] = row]
    BY <1>1 DEF Linking
<1>4. reached' = [reached EXCEPT ![p][x] = reached[p][x] \cup {user[s]}]
    BY <1>1 DEF Linking, LinksTypeOK
<1>5. user[s] \in Nat
    BY DEF LinksTypeOK
<1> HIDE DEF row
<1> QED BY <1>1, <1>2, <1>3, <1>4, <1>5 DEF LinksTypeOK

\* Every statement keeps the types.
LEMMA LinksTypeStep == ASSUME LinksTypeOK, [Next]_vars PROVE LinksTypeOK'
<1>0. SUFFICES TablesOK' /\ LocalsOK'
    BY DEF LinksTypeOK, TablesOK, LocalsOK
<1> USE DEF TablesOK, LocalsOK, LinksTypeOK
<1>1. ASSUME NEW s \in Slots, Arrive(s) PROVE TablesOK' /\ LocalsOK'
    BY <1>1 DEF Arrive, tables, Goto, Stages
<1>2. ASSUME NEW s \in Slots, Known(s) PROVE TablesOK' /\ LocalsOK'
    BY <1>2, Fields DEF Known, tables, Goto, Stages
<1>3. ASSUME NEW s \in Slots, Find(s) PROVE TablesOK' /\ LocalsOK'
    BY <1>3, Fields DEF Find, tables, Goto, Stages, NoUser, Found
<1>4. ASSUME NEW s \in Slots, Create(s) PROVE TablesOK' /\ LocalsOK'
    BY <1>4, Fields DEF Create, tables, Goto, Stages
<1>5. ASSUME NEW s \in Slots, Reread(s) PROVE TablesOK' /\ LocalsOK'
    BY <1>5, Fields, LeaveTyped DEF Reread, tables, Goto, Stages, Found
<1>6. ASSUME NEW s \in Slots, OwnLink(s) PROVE TablesOK' /\ LocalsOK'
    BY <1>6, LeaveTyped DEF OwnLink, tables, Goto, Stages, Onward
<1>7. ASSUME NEW s \in Slots, EmailLink(s) PROVE TablesOK' /\ LocalsOK'
    BY <1>7, LeaveTyped DEF EmailLink, tables, Goto, Stages
<1>8. ASSUME NEW s \in Slots, Claim(s) PROVE TablesOK' /\ LocalsOK'
    BY <1>8 DEF Claim, tables, Goto, Stages
<1>9. ASSUME NEW s \in Slots, LinkGitHub(s) PROVE TablesOK' /\ LocalsOK'
    BY <1>9, LinkingTyped, LeaveTyped DEF LinkGitHub, tables, Goto, Stages
<1>10. ASSUME NEW s \in Slots, LinkGoogle(s) PROVE TablesOK' /\ LocalsOK'
    BY <1>10, LinkingTyped, LeaveTyped DEF LinkGoogle, tables, Goto, Stages
<1>11. ASSUME NEW s \in Slots, Compare(s) PROVE TablesOK' /\ LocalsOK'
    BY <1>11, LeaveTyped DEF Compare, tables, Goto, Stages
<1>12. ASSUME NEW s \in Slots, End(s) PROVE TablesOK' /\ LocalsOK'
    BY <1>12, LeaveTyped DEF End, tables
<1>13. ASSUME NEW e \in Emails, Delete(e) PROVE TablesOK' /\ LocalsOK'
    BY <1>13 DEF Delete, NoUser, NoLink, Providers
<1>14. CASE UNCHANGED vars
    BY <1>14 DEF vars, tables, locals
<1> QED BY <1>1, <1>2, <1>3, <1>4, <1>5, <1>6, <1>7, <1>8, <1>9, <1>10, <1>11, <1>12, <1>13, <1>14 DEF Next

\* A link is written only to an account that exists, and goes with it.
LEMMA LinksLeadStep == ASSUME LinksInv, [Next]_vars PROVE LinksLead'
<1> USE OAuthAssumption DEF LinksInv, LinksTypeOK, LinksLead, NoUser, NoLink, Providers, Exists
<1>1. ASSUME NEW s \in Slots, Arrive(s) PROVE LinksLead'
    BY <1>1 DEF Arrive, Goto, Calls, tables, locals, LinkOf, Provider, Idle, Calls
<1>2. ASSUME NEW s \in Slots, Known(s) PROVE LinksLead'
    BY <1>2 DEF Known, Goto, tables, locals, LinkOf, Provider, Idle, Calls
<1>3. ASSUME NEW s \in Slots, Find(s) PROVE LinksLead'
    BY <1>3 DEF Find, Goto, Found, tables, locals, LinkOf, Provider, Idle, Calls
<1>4. ASSUME NEW s \in Slots, Create(s) PROVE LinksLead'
    BY <1>4 DEF Create, Goto, tables, locals, LinkOf, Provider, Idle, Calls
<1>5. ASSUME NEW s \in Slots, Reread(s) PROVE LinksLead'
    BY <1>5 DEF Reread, Goto, Found, Leave, tables, locals, LinkOf, Provider, Idle, Calls
<1>6. ASSUME NEW s \in Slots, OwnLink(s) PROVE LinksLead'
    BY <1>6 DEF OwnLink, Goto, Onward, Leave, tables, locals, LinkOf, Provider, Idle, Calls
<1>7. ASSUME NEW s \in Slots, EmailLink(s) PROVE LinksLead'
    BY <1>7 DEF EmailLink, Goto, Leave, tables, locals, LinkOf, Provider, Idle, Calls
<1>8. ASSUME NEW s \in Slots, Claim(s) PROVE LinksLead'
    BY <1>8 DEF Claim, Goto, tables, locals, LinkOf, Provider, Idle, Calls
<1>9. ASSUME NEW s \in Slots, LinkGitHub(s) PROVE LinksLead'
    BY <1>9 DEF LinkGitHub, Goto, Leave, Linking, tables, locals, LinkOf, Provider, Idle, Calls
<1>10. ASSUME NEW s \in Slots, LinkGoogle(s) PROVE LinksLead'
    BY <1>10 DEF LinkGoogle, Goto, Leave, Linking, tables, locals, LinkOf, Provider, Idle, Calls
<1>11. ASSUME NEW s \in Slots, Compare(s) PROVE LinksLead'
    BY <1>11 DEF Compare, Goto, Leave, tables, locals, LinkOf, Provider, Idle, Calls
<1>12. ASSUME NEW s \in Slots, End(s) PROVE LinksLead'
    BY <1>12 DEF End, Goto, Leave, tables, locals, LinkOf, Provider, Idle, Calls
<1>13. ASSUME NEW e \in Emails, Delete(e) PROVE LinksLead'
    BY <1>13 DEF Delete, tables, locals, LinkOf, Provider, Idle, Calls
<1>14. CASE UNCHANGED vars
    BY <1>14 DEF vars, tables, locals, LinkOf, Provider, Idle, Calls
<1> QED BY <1>1, <1>2, <1>3, <1>4, <1>5, <1>6, <1>7, <1>8, <1>9, <1>10, <1>11, <1>12, <1>13, <1>14 DEF Next

\* A request goes on only with an account.
LEMMA FoundStep == ASSUME LinksInv, [Next]_vars PROVE FoundKept'
<1> USE OAuthAssumption DEF LinksInv, LinksTypeOK, FoundKept, NoUser, NoLink, Provider, Idle, Calls
<1>1. ASSUME NEW s \in Slots, Arrive(s) PROVE FoundKept'
    BY <1>1 DEF Arrive, Goto, Calls, tables, locals, LinkOf, Exists, Providers
<1>2. ASSUME NEW s \in Slots, Known(s) PROVE FoundKept'
    BY <1>2 DEF Known, Goto, tables, locals, LinkOf, Exists, Providers
<1>3. ASSUME NEW s \in Slots, Find(s) PROVE FoundKept'
    BY <1>3 DEF Find, Goto, Found, tables, locals, LinkOf, Exists, Providers
<1>4. ASSUME NEW s \in Slots, Create(s) PROVE FoundKept'
    BY <1>4 DEF Create, Goto, tables, locals, LinkOf, Exists, Providers
<1>5. ASSUME NEW s \in Slots, Reread(s) PROVE FoundKept'
    BY <1>5 DEF Reread, Goto, Found, Leave, tables, locals, LinkOf, Exists, Providers
<1>6. ASSUME NEW s \in Slots, OwnLink(s) PROVE FoundKept'
    BY <1>6 DEF OwnLink, Goto, Onward, Leave, tables, locals, LinkOf, Exists, Providers
<1>7. ASSUME NEW s \in Slots, EmailLink(s) PROVE FoundKept'
    BY <1>7 DEF EmailLink, Goto, Leave, tables, locals, LinkOf, Exists, Providers
<1>8. ASSUME NEW s \in Slots, Claim(s) PROVE FoundKept'
    BY <1>8 DEF Claim, Goto, tables, locals, LinkOf, Exists, Providers
<1>9. ASSUME NEW s \in Slots, LinkGitHub(s) PROVE FoundKept'
    BY <1>9 DEF LinkGitHub, Goto, Leave, Linking, tables, locals, LinkOf, Exists, Providers
<1>10. ASSUME NEW s \in Slots, LinkGoogle(s) PROVE FoundKept'
    BY <1>10 DEF LinkGoogle, Goto, Leave, Linking, tables, locals, LinkOf, Exists, Providers
<1>11. ASSUME NEW s \in Slots, Compare(s) PROVE FoundKept'
    BY <1>11 DEF Compare, Goto, Leave, tables, locals, LinkOf, Exists, Providers
<1>12. ASSUME NEW s \in Slots, End(s) PROVE FoundKept'
    BY <1>12 DEF End, Goto, Leave, tables, locals, LinkOf, Exists, Providers
<1>13. ASSUME NEW e \in Emails, Delete(e) PROVE FoundKept'
    BY <1>13 DEF Delete, tables, locals, LinkOf, Exists, Providers
<1>14. CASE UNCHANGED vars
    BY <1>14 DEF vars, tables, locals, LinkOf, Exists, Providers
<1> QED BY <1>1, <1>2, <1>3, <1>4, <1>5, <1>6, <1>7, <1>8, <1>9, <1>10, <1>11, <1>12, <1>13, <1>14 DEF Next

\* A link of Google is never moved, only deleted, which marks the requests.
LEMMA GoogleStep == ASSUME LinksInv, [Next]_vars PROVE GoogleKept'
<1> USE OAuthAssumption DEF LinksInv, LinksTypeOK, LinksLead, FoundKept, GoogleKept, NoUser, NoLink, Provider, Idle, Calls, LinkOf, Providers
<1>1. ASSUME NEW s \in Slots, Arrive(s) PROVE GoogleKept'
    BY <1>1 DEF Arrive, Goto, Calls, tables, locals, Exists, EmailLinks
<1>2. ASSUME NEW s \in Slots, Known(s) PROVE GoogleKept'
    BY <1>2 DEF Known, Goto, tables, locals, Exists, EmailLinks
<1>3. ASSUME NEW s \in Slots, Find(s) PROVE GoogleKept'
    BY <1>3 DEF Find, Goto, Found, tables, locals, Exists, EmailLinks
<1>4. ASSUME NEW s \in Slots, Create(s) PROVE GoogleKept'
    BY <1>4 DEF Create, Goto, tables, locals, Exists, EmailLinks
<1>5. ASSUME NEW s \in Slots, Reread(s) PROVE GoogleKept'
    BY <1>5 DEF Reread, Goto, Found, Leave, tables, locals, Exists, EmailLinks
<1>6. ASSUME NEW s \in Slots, OwnLink(s) PROVE GoogleKept'
    BY <1>6 DEF OwnLink, Goto, Onward, Leave, tables, locals, Exists, EmailLinks
<1>7. ASSUME NEW s \in Slots, EmailLink(s) PROVE GoogleKept'
    BY <1>7 DEF EmailLink, Goto, Leave, tables, locals, Exists, EmailLinks
<1>8. ASSUME NEW s \in Slots, Claim(s) PROVE GoogleKept'
    BY <1>8 DEF Claim, Goto, tables, locals, Exists, EmailLinks
<1>9. ASSUME NEW s \in Slots, LinkGitHub(s) PROVE GoogleKept'
  <2>1. \A x \in Subs : link'["google"][x] = link["google"][x]
      BY <1>9 DEF LinkGitHub, Linking
  <2>2. \A t \in Slots : /\ Provider(t)' = "google" => t # s \/ pc'[t] = "idle"
                         /\ t # s => pc'[t] = pc[t] /\ call'[t] = call[t]
                                     /\ linked'[t] = linked[t] /\ user'[t] = user[t]
                                     /\ cut'[t] = cut[t]
      BY <1>9 DEF LinkGitHub, Goto, Leave
  <2>3. \A t \in Slots : pc[t] # "idle" => call[t].sub \in Subs
      BY Fields
  <2>4. ASSUME NEW t \in Slots, t # s, Provider(t)' = "google", ~cut'[t],
               pc'[t] = "session" \/ (pc'[t] = "find" /\ linked'[t])
        PROVE  user'[t] # NoUser /\ LinkOf(t)'.user = user'[t]
    <3>1. /\ Provider(t) = "google" /\ user[t] # NoUser /\ LinkOf(t).user = user[t]
          /\ call'[t] = call[t] /\ user'[t] = user[t] /\ call[t].sub \in Subs
        BY <2>4, <2>2, <2>3
    <3>2. LinkOf(t) = link["google"][call[t].sub] /\ LinkOf(t) # NoLink
        BY <3>1
    <3>3. LinkOf(t)' = LinkOf(t)
        BY <2>1, <2>4, <3>1, <3>2
    <3> QED BY <3>1, <3>3
  <2>5. ASSUME NEW t \in Slots, t # s, Provider(t)' = "google", ~cut'[t],
               pc'[t] \in {"create", "reread"}
        PROVE  ~linked'[t]
      BY <2>5, <2>2
  <2> QED BY <2>2, <2>4, <2>5
<1>10. ASSUME NEW s \in Slots, LinkGoogle(s) PROVE GoogleKept'
  <2>1. \A x \in Subs : link["google"][x] # NoLink => link'["google"][x] = link["google"][x]
      BY <1>10 DEF LinkGoogle, Linking
  <2>2. pc'[s] \in {"idle", "compare"}
      BY <1>10 DEF LinkGoogle, Goto, Leave
  <2>3. \A t \in Slots : t # s => pc'[t] = pc[t] /\ call'[t] = call[t]
                                  /\ linked'[t] = linked[t] /\ user'[t] = user[t]
                                  /\ cut'[t] = cut[t]
      BY <1>10 DEF LinkGoogle, Goto, Leave
  <2>4. \A t \in Slots : pc[t] # "idle" => call[t].sub \in Subs
      BY Fields
  <2>5. ASSUME NEW t \in Slots, t # s, Provider(t)' = "google", ~cut'[t],
               pc'[t] = "session" \/ (pc'[t] = "find" /\ linked'[t])
        PROVE  user'[t] # NoUser /\ LinkOf(t)'.user = user'[t]
    <3>1. /\ Provider(t) = "google" /\ user[t] # NoUser /\ LinkOf(t).user = user[t]
          /\ call'[t] = call[t] /\ user'[t] = user[t] /\ call[t].sub \in Subs
        BY <2>5, <2>3, <2>4
    <3>2. LinkOf(t) = link["google"][call[t].sub] /\ LinkOf(t) # NoLink
        BY <3>1
    <3>3. LinkOf(t)' = LinkOf(t)
        BY <2>1, <2>5, <3>1, <3>2
    <3> QED BY <3>1, <3>3
  <2>6. ASSUME NEW t \in Slots, t # s, Provider(t)' = "google", ~cut'[t],
               pc'[t] \in {"create", "reread"}
        PROVE  ~linked'[t]
      BY <2>6, <2>3
  <2> QED BY <2>2, <2>5, <2>6
<1>11. ASSUME NEW s \in Slots, Compare(s) PROVE GoogleKept'
  <2>1. link' = link
      BY <1>11 DEF Compare, tables
  <2>2. \A t \in Slots : t # s => pc'[t] = pc[t] /\ call'[t] = call[t]
                                  /\ linked'[t] = linked[t] /\ user'[t] = user[t]
                                  /\ cut'[t] = cut[t]
      BY <1>11 DEF Compare, Goto, Leave
  <2>3. pc[s] = "compare" /\ user[s] # NoUser
      BY <1>11 DEF Compare
  <2>4. \/ pc'[s] = "idle"
        \/ /\ pc'[s] = "session" /\ call'[s] = call[s] /\ user'[s] = user[s]
           /\ LinkOf(s).user = user[s]
      BY <1>11 DEF Compare, Goto, Leave
  <2> QED BY <2>1, <2>2, <2>3, <2>4
<1>12. ASSUME NEW s \in Slots, End(s) PROVE GoogleKept'
    BY <1>12 DEF End, Goto, Leave, tables, locals, Exists, EmailLinks
<1>13. ASSUME NEW e \in Emails, Delete(e) PROVE GoogleKept'
    BY <1>13 DEF Delete, tables, locals, Exists, EmailLinks
<1>14. CASE UNCHANGED vars
    BY <1>14 DEF vars, tables, locals, Exists, EmailLinks
<1> QED BY <1>1, <1>2, <1>3, <1>4, <1>5, <1>6, <1>7, <1>8, <1>9, <1>10, <1>11, <1>12, <1>13, <1>14 DEF Next

\* Initially there are no accounts, no links and no requests.
LEMMA LinksInit == Init => LinksInv
<1> SUFFICES ASSUME Init PROVE LinksInv
    OBVIOUS
<1>1. LinksTypeOK
  <2>1. NoLink \in [user : Nat, email : Emails \cup {NoEmail}]
      BY DEF NoLink, NoUser
  <2> QED BY <2>1 DEF Init, LinksTypeOK, Stages, NoUser
<1>2. LinksLead
    BY DEF Init, LinksLead
<1>3. FoundKept
    BY DEF Init, FoundKept, Provider, Idle
<1>4. GoogleKept
    BY DEF Init, GoogleKept
<1> QED BY <1>1, <1>2, <1>3, <1>4 DEF LinksInv

\* The parts of the invariant together.
LEMMA LinksStep == ASSUME LinksInv, [Next]_vars PROVE LinksInv'
    BY LinksTypeStep, LinksLeadStep, FoundStep, GoogleStep DEF LinksInv

\* The invariant in every reachable state.
THEOREM LinksInvariant == Spec => []LinksInv
<1>1. LinksInv /\ [Next]_vars => LinksInv'
    BY LinksStep
<1> QED BY LinksInit, <1>1, PTL DEF Spec

\* A Google sign-in ends in the account its identity is linked to, unless that
\* account is deleted while it is under way (handleGoogleCallback).
THEOREM GoogleAlwaysReachesItsLink == Spec => []GoogleReachesItsLink
<1>1. LinksInv => GoogleReachesItsLink
    BY DEF LinksInv, GoogleKept, GoogleReachesItsLink
<1> QED BY LinksInvariant, <1>1, PTL

-----------------------------------------------------------------------------
(* The accounts a GitHub identity can reach.                               *)

\* The accounts it has been linked to and those it is about to be linked to.
Reach(x) == reached["github"][x] \cup {user[s] : s \in Underway(x)}

\* The history of a link begins with it.
LinkReached ==
    \A x \in Subs :
        /\ link["github"][x] = NoLink => reached["github"][x] = {}
        /\ link["github"][x] # NoLink => link["github"][x].user \in reached["github"][x]

ReachBounded ==
    \A x \in Subs : IsFiniteSet(Reach(x)) /\ Cardinality(Reach(x)) <= Cardinality(Slots)

ReachInv == LinkReached /\ ReachBounded

\* Slots hold at most one account each.
LEMMA OneEach ==
    ASSUME NEW g, NEW U \in SUBSET Slots
    PROVE  /\ IsFiniteSet({g[s] : s \in U})
           /\ Cardinality({g[s] : s \in U}) <= Cardinality(Slots)
<1> DEFINE T == {g[s] : s \in U}
           f == [s \in U |-> g[s]]
<1>1. IsFiniteSet(U) /\ Cardinality(U) <= Cardinality(Slots)
    BY OAuthAssumption, FS_Subset
<1>2. f \in Surjection(U, T)
    BY DEF Surjection
<1>3. IsFiniteSet(T) /\ Cardinality(T) <= Cardinality(U)
    BY <1>1, <1>2, FS_Surjection
<1>4. Cardinality(T) \in Nat /\ Cardinality(U) \in Nat /\ Cardinality(Slots) \in Nat
    BY <1>1, <1>3, OAuthAssumption, FS_CardinalityType
<1> HIDE DEF T, f
<1>5. IsFiniteSet(T) /\ Cardinality(T) <= Cardinality(Slots)
    BY <1>1, <1>3, <1>4
<1> QED BY <1>5 DEF T

\* A step that adds no account to the reach of an identity keeps the bound.
LEMMA NoneAdded ==
    ASSUME ReachInv, NEW x \in Subs,
           reached'["github"][x] \subseteq Reach(x),
           \A t \in Underway(x)' : user'[t] \in Reach(x)
    PROVE  (IsFiniteSet(Reach(x)) /\ Cardinality(Reach(x)) <= Cardinality(Slots))'
<1>1. Reach(x)' \subseteq Reach(x)
    BY DEF Reach
<1>2. IsFiniteSet(Reach(x)) /\ Cardinality(Reach(x)) <= Cardinality(Slots)
    BY DEF ReachInv, ReachBounded
<1>3. IsFiniteSet(Reach(x)') /\ Cardinality(Reach(x)') <= Cardinality(Reach(x))
    BY <1>1, <1>2, FS_Subset
<1>4. /\ Cardinality(Reach(x)') \in Nat /\ Cardinality(Reach(x)) \in Nat
      /\ Cardinality(Slots) \in Nat
    BY <1>2, <1>3, OAuthAssumption, FS_CardinalityType
<1>5. Cardinality(Reach(x)') <= Cardinality(Slots)
    BY <1>2, <1>3, <1>4
<1> QED BY <1>3, <1>5

\* An identity without a history reaches the accounts of its open requests only.
LEMMA FreshReach ==
    ASSUME NEW x \in Subs, reached'["github"][x] = {}
    PROVE  (IsFiniteSet(Reach(x)) /\ Cardinality(Reach(x)) <= Cardinality(Slots))'
<1>1. PICK g : g = user'
    OBVIOUS
<1>2. PICK U \in SUBSET Slots : U = Underway(x)'
    BY DEF Underway
<1>3. Reach(x)' = {g[s] : s \in U}
    BY <1>1, <1>2 DEF Reach
<1> QED BY <1>3, OneEach

\* A callback enters the race with the account of the link, or with none there.
LEMMA ReachStep ==
    ASSUME LinksInv, ReachInv, [Next]_vars PROVE ReachBounded'
<1> SUFFICES ASSUME NEW x \in Subs
             PROVE  (IsFiniteSet(Reach(x)) /\ Cardinality(Reach(x)) <= Cardinality(Slots))'
    BY DEF ReachBounded
<1> DEFINE Kept == reached'["github"][x] \subseteq Reach(x)
                   /\ \A t \in Underway(x)' : user'[t] \in Reach(x)
<1> USE DEF Kept, LinksInv, LinksTypeOK, Reach, Underway, Provider
<1>1. ASSUME NEW s \in Slots, Arrive(s) PROVE Kept
    BY <1>1 DEF Arrive, Goto, tables
<1>2. ASSUME NEW s \in Slots, Known(s) PROVE Kept
    BY <1>2 DEF Known, Goto, tables
<1>3. ASSUME NEW s \in Slots, Create(s) PROVE Kept
    BY <1>3 DEF Create, Goto
<1>4. ASSUME NEW s \in Slots, Reread(s) PROVE Kept
  <2>1. reached' = reached
      BY <1>4 DEF Reread, tables
  <2>2. \A t \in Slots : t # s => pc'[t] = pc[t] /\ call'[t] = call[t] /\ user'[t] = user[t]
      BY <1>4 DEF Reread, Goto, Leave
  <2>3. ~(s \in Underway(x)')
      BY <1>4 DEF Reread, Goto, Leave, Found
  <2>4. \A t \in Underway(x)' : t \in Underway(x) /\ user'[t] = user[t]
      BY <2>2, <2>3
  <2> QED BY <2>1, <2>4
<1>5. ASSUME NEW s \in Slots, EmailLink(s) PROVE Kept
    BY <1>5 DEF EmailLink, Goto, tables, Leave
<1>6. ASSUME NEW s \in Slots, Claim(s) PROVE Kept
    BY <1>6 DEF Claim, Goto, tables
<1>7. ASSUME NEW s \in Slots, LinkGitHub(s) PROVE Kept
  <2>1. reached'["github"][x] \subseteq
            reached["github"][x] \cup {user[t] : t \in {s} \cap Underway(x)}
      BY <1>7 DEF LinkGitHub, Linking, Providers
  <2>2. \A t \in Underway(x)' : t \in Underway(x) /\ user'[t] = user[t]
      BY <1>7 DEF LinkGitHub, Goto, Leave
  <2> QED BY <2>1, <2>2
<1>8. ASSUME NEW s \in Slots, LinkGoogle(s) PROVE Kept
  <2>1. reached'["github"][x] = reached["github"][x]
      BY <1>8 DEF LinkGoogle, Linking, Providers
  <2>2. \A t \in Underway(x)' : t \in Underway(x) /\ user'[t] = user[t]
      BY <1>8 DEF LinkGoogle, Goto, Leave
  <2> QED BY <2>1, <2>2
<1>9. ASSUME NEW s \in Slots, Compare(s) PROVE Kept
    BY <1>9 DEF Compare, Goto, tables, Leave, FoundKept
<1>10. ASSUME NEW s \in Slots, End(s) PROVE Kept
    BY <1>10 DEF End, tables, Leave, Goto
<1>11. ASSUME NEW s \in Slots, Find(s) PROVE Kept
    BY <1>11 DEF Find, Goto, tables, Found
<1>12. ASSUME NEW s \in Slots, OwnLink(s) PROVE Kept \/ reached'["github"][x] = {}
  <2>1. reached' = reached
      BY <1>12 DEF OwnLink, tables
  <2>2. \A t \in Underway(x)' : t # s => t \in Underway(x) /\ user'[t] = user[t]
      BY <1>12 DEF OwnLink, Onward, Goto, Leave
  <2>3. s \in Underway(x)' => /\ link["github"][x].user \in {NoUser, user[s]}
                              /\ user'[s] = user[s]
      BY <1>12 DEF OwnLink, Onward, Goto, Leave, LinkOf
  <2>4. CASE link["github"][x] = NoLink
      BY <2>1, <2>4 DEF ReachInv, LinkReached
  <2>5. CASE link["github"][x] # NoLink
    <3>1. /\ link["github"][x].user # NoUser
          /\ link["github"][x].user \in reached["github"][x]
        BY <2>5 DEF ReachInv, LinkReached, LinksLead, Providers
    <3>2. \A t \in Underway(x)' : user'[t] \in Reach(x)
        BY <2>2, <2>3, <3>1
    <3> QED BY <2>1, <3>2
  <2> QED BY <2>4, <2>5
<1>13. ASSUME NEW e \in Emails, Delete(e) PROVE Kept \/ reached'["github"][x] = {}
    BY <1>13 DEF Delete, Providers
<1>14. CASE UNCHANGED vars
  <2>1. Kept
      BY <1>14 DEF vars, tables, locals
  <2> QED BY <2>1, NoneAdded
<1>15. Next => Kept \/ reached'["github"][x] = {}
    BY <1>1, <1>2, <1>3, <1>4, <1>5, <1>6, <1>7, <1>8, <1>9, <1>10, <1>11, <1>12, <1>13 DEF Next
<1> QED BY <1>14, <1>15, NoneAdded, FreshReach

\* A link and its history are written and deleted together.
LEMMA ReachedStep == ASSUME LinksInv, ReachInv, [Next]_vars PROVE LinkReached'
<1> USE DEF LinksInv, LinksTypeOK, ReachInv, LinkReached, NoLink, NoUser, Providers, Provider
<1>1. ASSUME NEW s \in Slots, LinkGitHub(s) PROVE LinkReached'
    BY <1>1 DEF LinkGitHub, Linking, Exists
<1>2. ASSUME NEW s \in Slots, LinkGoogle(s) PROVE LinkReached'
    BY <1>2 DEF LinkGoogle, Linking
<1>3. ASSUME NEW e \in Emails, Delete(e) PROVE LinkReached'
    BY <1>3 DEF Delete
<1>4. ASSUME UNCHANGED <<link, reached>> PROVE LinkReached'
    BY <1>4
<1> QED BY <1>1, <1>2, <1>3, <1>4 DEF Next, Arrive, Known, Find, Create, Reread, OwnLink,
    EmailLink, Claim, Compare, End, vars, tables

\* A GitHub identity is linked in turn to no more accounts than there are
\* callbacks at once, however often the upsert moves its link
\* (handleGitHubCallback, handleGitHubBindVerify).
THEOREM GitHubReachIsBounded == Spec => []GitHubReachBounded
<1>1. Init => ReachInv
  <2> SUFFICES ASSUME Init PROVE ReachInv
      OBVIOUS
  <2>1. LinkReached
      BY DEF Init, LinkReached, Providers
  <2>2. \A x \in Subs : Reach(x) = {}
      BY DEF Init, Reach, Underway, Providers
  <2>3. IsFiniteSet({}) /\ Cardinality({}) = 0 /\ Cardinality(Slots) \in Nat
      BY OAuthAssumption, FS_EmptySet, FS_CardinalityType
  <2>4. ReachBounded
      BY <2>2, <2>3 DEF ReachBounded
  <2> QED BY <2>1, <2>4 DEF ReachInv
<1>2. LinksInv /\ ReachInv /\ [Next]_vars => ReachInv'
    BY ReachStep, ReachedStep DEF ReachInv
<1>3. ReachInv => GitHubReachBounded
    BY DEF ReachInv, ReachBounded, Reach, GitHubReachBounded
<1> QED BY LinksInvariant, <1>1, <1>2, <1>3, PTL DEF Spec
=============================================================================
