------------------------------- MODULE Sessions -------------------------------
(***************************************************************************)
(* Sign-in, sessions and password of one account (src/src/auth/routes.js,  *)
(* auth/session.js, database/credentials.js).                              *)
(*                                                                         *)
(* Slots are the invocations open at once; a slot serves one handler after *)
(* another.  A handler reads its authority (the credential, a session row, *)
(* a refresh token) in one statement and acts on it statements later, so a *)
(* password change or a revocation can pass between the two.               *)
(***************************************************************************)
EXTENDS Integers, Sequences, FiniteSets, FiniteSetsExt

CONSTANTS
    Slots,          \* invocations open at once
    Passwords,
    NoPassword,
    Hashing,        \* strengths the stored hash can start with
    MaxSessions     \* bound: rows of sessions

ASSUME SessionAssumption ==
    /\ IsFiniteSet(Slots) /\ Slots # {}
    /\ NoPassword \notin Passwords
    /\ Hashing \subseteq {"current", "legacy"}
    /\ MaxSessions \in Nat

VARIABLES
    stored,     \* user_credentials: password and strength of its hash
    mirror,     \* users.password_hash, the copy savePassword writes second
    sessions,   \* table sessions, in order of insertion
    pc,
    kind,       \* the handler a slot runs
    pw,         \* the password it proved or was given
    target,     \* the session it acts on
    late,       \* history: everything was revoked after it read its authority
    chosen,     \* history: the password the user set last
    lapsed      \* history: a password was replaced, the revocation never came

slotVars == <<pc, kind, pw, target, late>>
historyVars == <<chosen, lapsed>>
vars == <<stored, mirror, sessions, slotVars, historyVars>>

Kinds == {"none", "login", "signin", "register", "reset", "change", "refresh",
          "logout", "logoutAll"}

Stage == {"idle", "prove", "save", "mirror", "revoke", "retire", "open"}

\* validateSession and refreshSession: the row is not revoked and the token has
\* not expired; a refresh token outlives its access token.
Valid(i) == ~sessions[i].revoked /\ sessions[i].age = "valid"

Refreshable(i) == ~sessions[i].revoked /\ sessions[i].age # "dead"

Begin(v, k, p, i, stage) ==
    /\ pc[v] = "idle"
    /\ pc' = [pc EXCEPT ![v] = stage]
    /\ kind' = [kind EXCEPT ![v] = k]
    /\ pw' = [pw EXCEPT ![v] = p]
    /\ target' = [target EXCEPT ![v] = i]
    /\ late' = [late EXCEPT ![v] = FALSE]

Goto(v, stage) ==
    /\ pc' = [pc EXCEPT ![v] = stage]
    /\ UNCHANGED <<kind, pw, target, late>>

\* The handler returns, and its locals are gone.
Forget(v, lateNow) ==
    /\ pc' = [pc EXCEPT ![v] = "idle"]
    /\ kind' = [kind EXCEPT ![v] = "none"]
    /\ pw' = [pw EXCEPT ![v] = NoPassword]
    /\ target' = [target EXCEPT ![v] = 0]
    /\ late' = [lateNow EXCEPT ![v] = FALSE]

Init ==
    /\ stored \in [pw : Passwords, hash : Hashing]
                    \cup {[pw |-> NoPassword, hash |-> "current"]}
    /\ mirror = stored.pw
    /\ sessions = <<>>
    /\ pc = [v \in Slots |-> "idle"]
    /\ kind = [v \in Slots |-> "none"]
    /\ pw = [v \in Slots |-> NoPassword]
    /\ target = [v \in Slots |-> 0]
    /\ late = [v \in Slots |-> FALSE]
    /\ chosen = stored.pw
    /\ lapsed = FALSE

-----------------------------------------------------------------------------
\* The authority each handler reads.  A refusal changes nothing here.

\* handlePasswordLogin: verifyPassword, then a rehash of a weak hash.
Login(v) ==
    /\ \E p \in Passwords :
        /\ stored.pw = p
        /\ Begin(v, "login", p, 0, IF stored.hash = "legacy" THEN "save" ELSE "open")
    /\ UNCHANGED <<stored, mirror, sessions, historyVars>>

\* handleCodeLogin, the OAuth callbacks, passkeys and the code exchange: the
\* user is identified without the password.
SignIn(v) ==
    /\ Begin(v, "signin", NoPassword, 0, "open")
    /\ UNCHANGED <<stored, mirror, sessions, historyVars>>

\* handleRegisterVerify and handlePasswordSetupAfterCode: no credential yet.
Register(v) ==
    /\ stored.pw = NoPassword
    /\ \E p \in Passwords : Begin(v, "register", p, 0, "save")
    /\ UNCHANGED <<stored, mirror, sessions, historyVars>>

\* handlePasswordReset: the code is consumed.
Reset(v) ==
    /\ \E p \in Passwords : Begin(v, "reset", p, 0, "save")
    /\ UNCHANGED <<stored, mirror, sessions, historyVars>>

\* handlePasswordChange: a session, later the current password and another
\* new one.
Change(v) ==
    /\ \E i \in DOMAIN sessions : Valid(i)
    /\ \E p \in Passwords : Begin(v, "change", p, 0, "prove")
    /\ UNCHANGED <<stored, mirror, sessions, historyVars>>

Prove(v) ==
    /\ pc[v] = "prove"
    /\ stored.pw \notin {NoPassword, pw[v]}
    /\ Goto(v, "save")
    /\ UNCHANGED <<stored, mirror, sessions, historyVars>>

\* Mutant of Refresh: revoked_at is not looked at.
RefreshRevoked(v) ==
    /\ \E i \in DOMAIN sessions :
        sessions[i].age # "dead" /\ Begin(v, "refresh", NoPassword, i, "retire")
    /\ UNCHANGED <<stored, mirror, sessions, historyVars>>

\* refreshSession: the row of the token, then its revocation.
Refresh(v) ==
    /\ \E i \in DOMAIN sessions :
        Refreshable(i) /\ Begin(v, "refresh", NoPassword, i, "retire")
    /\ UNCHANGED <<stored, mirror, sessions, historyVars>>

\* handleLogoutCurrent
Logout(v) ==
    /\ \E i \in DOMAIN sessions :
        Valid(i) /\ Begin(v, "logout", NoPassword, i, "retire")
    /\ UNCHANGED <<stored, mirror, sessions, historyVars>>

\* handleLogoutAll
LogoutAll(v) ==
    /\ \E i \in DOMAIN sessions : Valid(i)
    /\ Begin(v, "logoutAll", NoPassword, 0, "revoke")
    /\ UNCHANGED <<stored, mirror, sessions, historyVars>>

-----------------------------------------------------------------------------
\* What the handlers do next, one statement each.

Revoking == {"reset", "change"}

\* The password is replaced and the sessions are not revoked yet.
Replacing(v) == kind[v] \in Revoking /\ pc[v] \in {"mirror", "revoke"}

\* savePassword, first statement: the upsert of user_credentials.
SavePassword(v) ==
    /\ pc[v] = "save"
    /\ stored' = [pw |-> pw[v], hash |-> "current"]
    /\ chosen' = IF kind[v] = "login" THEN chosen ELSE pw[v]
    /\ lapsed' = (lapsed \/ (/\ kind[v] \notin Revoking
                              /\ stored.pw \notin {NoPassword, pw[v]}))
    /\ Goto(v, "mirror")
    /\ UNCHANGED <<mirror, sessions>>

\* Mutant of SaveMirror: a change of password forgets the revocation.
SaveMirrorOnly(v) ==
    /\ pc[v] = "mirror"
    /\ mirror' = pw[v]
    /\ Goto(v, IF kind[v] = "reset" THEN "revoke" ELSE "open")
    /\ UNCHANGED <<stored, sessions, historyVars>>

\* savePassword, second statement.
SaveMirror(v) ==
    /\ pc[v] = "mirror"
    /\ mirror' = pw[v]
    /\ Goto(v, IF kind[v] \in Revoking THEN "revoke" ELSE "open")
    /\ UNCHANGED <<stored, sessions, historyVars>>

\* Everybody else's authority predates this revocation.
Outdated(v) == [w \in Slots |-> w # v /\ pc[w] # "idle"]

\* Mutant of RevokeAll: the newest session is spared, as exceptSessionId would.
RevokeOthers(v) ==
    /\ pc[v] = "revoke"
    /\ sessions' = [i \in DOMAIN sessions |->
                       [sessions[i] EXCEPT !.revoked = @ \/ i # Len(sessions),
                                           !.late = TRUE]]
    /\ lapsed' = FALSE
    /\ IF kind[v] = "change"
       THEN /\ pc' = [pc EXCEPT ![v] = "open"]
            /\ late' = Outdated(v)
            /\ UNCHANGED <<kind, pw, target>>
       ELSE Forget(v, Outdated(v))
    /\ UNCHANGED <<stored, mirror, chosen>>

\* revokeAllSessions; a change goes on to open a session of its own.
RevokeAll(v) ==
    /\ pc[v] = "revoke"
    /\ sessions' = [i \in DOMAIN sessions |->
                       [sessions[i] EXCEPT !.revoked = TRUE, !.late = TRUE]]
    /\ lapsed' = FALSE
    /\ IF kind[v] = "change"
       THEN /\ pc' = [pc EXCEPT ![v] = "open"]
            /\ late' = Outdated(v)
            /\ UNCHANGED <<kind, pw, target>>
       ELSE Forget(v, Outdated(v))
    /\ UNCHANGED <<stored, mirror, chosen>>

\* revokeSessionById
Retire(v) ==
    /\ pc[v] = "retire"
    /\ sessions' = [sessions EXCEPT ![target[v]].revoked = TRUE]
    /\ IF kind[v] = "refresh" THEN Goto(v, "open") ELSE Forget(v, late)
    /\ UNCHANGED <<stored, mirror, historyVars>>

\* createSessionWithMetadata
OpenSession(v) ==
    /\ pc[v] = "open" /\ Len(sessions) < MaxSessions
    /\ sessions' = Append(sessions,
           [revoked |-> FALSE, age |-> "valid", parent |-> target[v],
            via |-> pw[v], late |-> late[v]])
    /\ Forget(v, late)
    /\ UNCHANGED <<stored, mirror, historyVars>>

\* A banned user is refused at the end, a statement fails, or the runtime
\* drops the invocation: whatever it wrote stays.
Abandon(v) ==
    /\ pc[v] # "idle"
    /\ lapsed' = (lapsed \/ Replacing(v))
    /\ Forget(v, late)
    /\ UNCHANGED <<stored, mirror, sessions, chosen>>

\* Thirty days for the access token, ninety for the refresh token.
Expire(i) ==
    /\ \/ sessions[i].age = "valid" /\ sessions' = [sessions EXCEPT ![i].age = "expired"]
       \/ sessions[i].age = "expired" /\ sessions' = [sessions EXCEPT ![i].age = "dead"]
    /\ UNCHANGED <<stored, mirror, slotVars, historyVars>>

Next ==
    \/ \E v \in Slots :
        \/ Login(v) \/ SignIn(v) \/ Register(v) \/ Reset(v) \/ Change(v)
        \/ Refresh(v) \/ Logout(v) \/ LogoutAll(v)
        \/ Prove(v) \/ SavePassword(v) \/ SaveMirror(v) \/ RevokeAll(v) \/ Retire(v)
        \/ OpenSession(v) \/ Abandon(v)
    \/ \E i \in DOMAIN sessions : Expire(i)

Spec == Init /\ [][Next]_vars

-----------------------------------------------------------------------------
\* Properties.

Secret == Passwords \cup {NoPassword}

Session == [revoked : BOOLEAN, age : {"valid", "expired", "dead"},
            parent : 0..MaxSessions, via : Secret, late : BOOLEAN]

TypeOK ==
    /\ stored \in [pw : Secret, hash : {"current", "legacy"}]
    /\ mirror \in Secret
    /\ sessions \in Seq(Session) /\ Len(sessions) <= MaxSessions
    /\ pc \in [Slots -> Stage]
    /\ kind \in [Slots -> Kinds]
    /\ pw \in [Slots -> Secret]
    /\ target \in [Slots -> 0..MaxSessions]
    /\ late \in [Slots -> BOOLEAN]
    /\ chosen \in Secret
    /\ lapsed \in BOOLEAN

\* Sessions minted from session i, and slots on their way to mint one.
Minted(i) == {j \in DOMAIN sessions : sessions[j].parent = i}

Minting(i) ==
    {v \in Slots : kind[v] = "refresh" /\ target[v] = i /\ pc[v] \in {"retire", "open"}}

\* A refresh token is read before its row is revoked, so it can be spent by
\* every invocation that is open at that moment, and by no later one: the
\* sessions it mints in its whole life are bounded by the slots.
RefreshBudget ==
    \A i \in DOMAIN sessions :
        Cardinality(Minted(i)) + Cardinality(Minting(i)) <= Cardinality(Slots)

\* Sessions still usable that rest on an authority older than the last
\* revocation of everything, and slots about to open one: a reset, a change
\* or a logout everywhere is survived by what was in flight, nothing else,
\* and access tokens that had expired are not spared.
Survivors == {i \in DOMAIN sessions : sessions[i].late /\ Refreshable(i)}

Lagging == {v \in Slots : late[v]}

SurvivorsBounded ==
    Cardinality(Survivors) + Cardinality(Lagging) < Cardinality(Slots)

\* Refreshable sessions opened with a password that is no longer in force,
\* and slots about to open one.
Outlived ==
    {i \in DOMAIN sessions : /\ Refreshable(i)
                             /\ sessions[i].via \notin {NoPassword, stored.pw}}

Outliving ==
    {v \in Slots : /\ kind[v] \in {"login", "register", "change"}
                   /\ pc[v] \in {"mirror", "revoke", "open"}
                   /\ pw[v] # stored.pw}

\* When no replacement of the password is half done, the sessions that an
\* older password opened are those that were in flight: the password is saved
\* first and the sessions are revoked second.  (Excepted, until the next
\* revocation, is a replacement that was dropped before its revocation and one
\* by a late registration or rehash, which revoke nothing.)
OutlivedBounded ==
    (~lapsed /\ \A v \in Slots : ~Replacing(v)) =>
        Cardinality(Outlived) + Cardinality(Outliving) <= Cardinality(Slots)

\* test/auth-password.spec.js: after a reset the old password is refused and
\* the new one accepted.
ChosenInForce == stored.pw = chosen
=============================================================================
