---------------------------- MODULE OneTimeGrants ----------------------------
(***************************************************************************)
(* One-time tokens other than e-mail codes: the authorization codes of     *)
(* native clients (src/src/auth/authorization-codes.js) and the challenges *)
(* of table auth_challenges (src/src/auth/challenges.js), which back the   *)
(* choice of a first password, the binding of a GitHub account and the two *)
(* passkey ceremonies (src/src/auth/passkey.js).                           *)
(*                                                                         *)
(* A handler reads its row in one statement, verifies what the client sent *)
(* and claims the row in a later statement.                                *)
(***************************************************************************)
EXTENDS Integers, FiniteSets

CONSTANTS
    Handlers,       \* invocations open at once
    Tokens,         \* bound: tokens ever issued
    NoToken,
    Kinds           \* the ceremonies of this instance

AllKinds == {"code", "setup", "bind", "login", "register"}

ASSUME GrantsAssumption ==
    /\ IsFiniteSet(Handlers)
    /\ NoToken \notin Tokens
    /\ Kinds \subseteq AllKinds

VARIABLES
    kind,       \* what a token is for, "none" before it is issued
    row,        \* "none", "open", "used" or "swept"
    expired,    \* tokens past expires_at
    pc,
    tok,        \* the token a handler is about
    claims      \* history: how often a token was taken for good

handlerVars == <<pc, tok>>
vars == <<kind, row, expired, handlerVars, claims>>

Init ==
    /\ kind = [t \in Tokens |-> "none"]
    /\ row = [t \in Tokens |-> "none"]
    /\ expired = {}
    /\ pc = [h \in Handlers |-> "idle"]
    /\ tok = [h \in Handlers |-> NoToken]
    /\ claims = [t \in Tokens |-> 0]

Goto(h, stage, t) ==
    /\ pc' = [pc EXCEPT ![h] = stage]
    /\ tok' = [tok EXCEPT ![h] = t]

Finish(h) == Goto(h, "idle", NoToken)

-----------------------------------------------------------------------------
\* Issuing.

Put(t, k) ==
    /\ row[t] = "none"
    /\ row' = [row EXCEPT ![t] = "open"]
    /\ kind' = [kind EXCEPT ![t] = k]

\* createAuthChallenge
Challenge(t) ==
    /\ \E k \in Kinds \ {"code"} : Put(t, k)
    /\ UNCHANGED <<expired, handlerVars, claims>>

\* createAuthorizationCode: first the expired codes are deleted, ...
Sweep(h) ==
    /\ "code" \in Kinds
    /\ pc[h] = "idle"
    /\ row' = [t \in Tokens |->
                  IF kind[t] = "code" /\ t \in expired THEN "swept" ELSE row[t]]
    /\ Goto(h, "insert", NoToken)
    /\ UNCHANGED <<kind, expired, claims>>

\* ... then the new one is inserted.
InsertCode(h) ==
    /\ pc[h] = "insert"
    /\ \E t \in Tokens : Put(t, "code")
    /\ Finish(h)
    /\ UNCHANGED <<expired, claims>>

-----------------------------------------------------------------------------
\* Redeeming.

\* getAuthChallenge and the SELECT of consumeAuthorizationCode.
Read(h) ==
    /\ pc[h] = "idle"
    /\ \E t \in Tokens : row[t] = "open" /\ t \notin expired /\ Goto(h, "verify", t)
    /\ UNCHANGED <<kind, row, expired, claims>>

Take(t) ==
    /\ row' = [row EXCEPT ![t] = "used"]
    /\ claims' = [claims EXCEPT ![t] = @ + 1]

\* Mutant of ClaimCode: the UPDATE does not repeat the conditions of the SELECT.
ClaimCodeBlindly(h) ==
    /\ pc[h] = "verify" /\ kind[tok[h]] = "code"
    /\ IF row[tok[h]] # "swept"
       THEN Take(tok[h]) /\ Goto(h, "grant", tok[h])
       ELSE Finish(h) /\ UNCHANGED <<row, claims>>
    /\ UNCHANGED <<kind, expired>>

\* consumeAuthorizationCode: PKCE agrees, and the UPDATE decides once more
\* that the code is neither used nor expired.
ClaimCode(h) ==
    /\ pc[h] = "verify" /\ kind[tok[h]] = "code"
    /\ IF row[tok[h]] = "open" /\ tok[h] \notin expired
       THEN Take(tok[h]) /\ Goto(h, "grant", tok[h])
       ELSE Finish(h) /\ UNCHANGED <<row, claims>>
    /\ UNCHANGED <<kind, expired>>

\* Mutant of ClaimChallenge: any row is marked and counted.
ClaimChallengeBlindly(h) ==
    /\ pc[h] = "verify" /\ kind[tok[h]] \in {"setup", "bind", "login"}
    /\ Take(tok[h]) /\ Goto(h, "grant", tok[h])
    /\ UNCHANGED <<kind, expired>>

\* consumeAuthChallenge, and the batch of a passkey login: the UPDATE decides
\* that the challenge is not used.
ClaimChallenge(h) ==
    /\ pc[h] = "verify" /\ kind[tok[h]] \in {"setup", "bind", "login"}
    /\ IF row[tok[h]] = "open"
       THEN Take(tok[h]) /\ Goto(h, "grant", tok[h])
       ELSE Finish(h) /\ UNCHANGED <<row, claims>>
    /\ UNCHANGED <<kind, expired>>

\* Mutant of Register: the challenge is not marked.
RegisterUnmarked(h) ==
    /\ pc[h] = "verify" /\ kind[tok[h]] = "register"
    /\ claims' = [claims EXCEPT ![tok[h]] = @ + 1]
    /\ Finish(h)
    /\ UNCHANGED <<kind, row, expired>>

\* handlePasskeyRegistrationVerify: one transaction marks the challenge and
\* stores the passkey, whether or not the challenge was still unused.
Register(h) ==
    /\ pc[h] = "verify" /\ kind[tok[h]] = "register"
    /\ Take(tok[h])
    /\ Finish(h)
    /\ UNCHANGED <<kind, expired>>

\* The session or the password that the token was for.
Grant(h) ==
    /\ pc[h] = "grant"
    /\ Finish(h)
    /\ UNCHANGED <<kind, row, expired, claims>>

\* The proof is wrong, the user is gone or banned, a statement fails, or the
\* runtime drops the invocation.
Abandon(h) ==
    /\ pc[h] # "idle"
    /\ Finish(h)
    /\ UNCHANGED <<kind, row, expired, claims>>

\* Five minutes pass.
Expire(t) ==
    /\ row[t] # "none" /\ t \notin expired
    /\ expired' = expired \cup {t}
    /\ UNCHANGED <<kind, row, handlerVars, claims>>

Next ==
    \/ \E t \in Tokens : Challenge(t) \/ Expire(t)
    \/ \E h \in Handlers :
        \/ Sweep(h) \/ InsertCode(h) \/ Read(h)
        \/ ClaimCode(h) \/ ClaimChallenge(h) \/ Register(h)
        \/ Grant(h) \/ Abandon(h)

Spec == Init /\ [][Next]_vars

-----------------------------------------------------------------------------
\* Properties.

Stage == {"idle", "insert", "verify", "grant"}

TypeOK ==
    /\ kind \in [Tokens -> Kinds \cup {"none"}]
    /\ row \in [Tokens -> {"none", "open", "used", "swept"}]
    /\ expired \in SUBSET Tokens
    /\ pc \in [Handlers -> Stage]
    /\ tok \in [Handlers -> Tokens \cup {NoToken}]
    /\ claims \in [Tokens -> Nat]

\* A handler on its way to a session or a password holds a token that is used
\* up, and holds it alone: nobody else can be granted the same token.
GrantsExclusive ==
    \A g, h \in Handlers :
        (pc[g] = "grant" /\ pc[h] = "grant" /\ tok[g] = tok[h]) => g = h

\* The promise: honoured at most once, never after it was used, deleted or,
\* for a code, after it expired.  (A challenge may expire between its read and
\* its claim.)  What a registration challenge is good for is left to
\* ReplayBounded: to the promise it is a token that dies unhonoured.
Dead ==
    {t \in Tokens : row[t] \in {"used", "swept"} \/ (kind[t] = "code" /\ t \in expired)}

Honoured == [t \in Tokens |-> IF kind[t] = "register" THEN 0 ELSE claims[t]]

OneTime == INSTANCE OneTimeToken
    WITH issued <- {t \in Tokens : row[t] # "none"}, void <- Dead, honoured <- Honoured

ImplementsOneTime == OneTime!Spec

\* How many passkeys one registration challenge can still store.
Verifying(t) == {h \in Handlers : pc[h] = "verify" /\ tok[h] = t}

\* A challenge is replayed only by handlers that had read it before it was
\* used, so it never stores more passkeys than there are invocations open.
ReplayBounded ==
    \A t \in Tokens : claims[t] + Cardinality(Verifying(t)) <= Cardinality(Handlers)
=============================================================================
