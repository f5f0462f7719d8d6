-------------------------- MODULE VerificationCodes --------------------------
(***************************************************************************)
(* E-mail verification codes of one address (src/src/auth/email.js).       *)
(*                                                                         *)
(* Senders run sendVerificationCode, Verifiers run verifyCode, which       *)
(* starts with consumeVerificationCode; both are slots that serve one      *)
(* invocation after another.  Each await on D1 or on the mail provider     *)
(* ends a step, so the record a verifier judges is a copy that other       *)
(* invocations outdate before it writes.                                   *)
(***************************************************************************)
EXTENDS Integers, Sequences, FiniteSets, FiniteSetsExt

CONSTANTS
    Senders,        \* invocations of sendVerificationCode open at once
    Verifiers,      \* invocations of verifyCode open at once
    Purposes,       \* VERIFICATION_PURPOSES
    Codes,          \* the digits mailed to the user
    Digests,        \* values of sha256Hex
    Hash,           \* sha256Hex on Codes
    MaxAttempts,    \* 5 wrong guesses lock a code
    ResendGap,      \* a minute between two codes
    Lifetime,       \* ten minutes of validity
    NoAccount,      \* no users row yet
    NoDraft,        \* a sender that is idle
    MaxRows,        \* bound: codes issued
    MaxTime         \* bound: the clock

ASSUME CodeAssumption ==
    /\ Hash \in [Codes -> Digests]
    /\ \A a, b \in Codes : Hash[a] = Hash[b] => a = b
    /\ Codes \cap Digests = {}

ASSUME BoundAssumption ==
    /\ IsFiniteSet(Senders) /\ IsFiniteSet(Verifiers)
    /\ NoAccount \notin Verifiers
    /\ MaxAttempts \in Nat \ {0}
    /\ ResendGap \in Nat \ {0} /\ Lifetime \in Nat \ {0}
    /\ MaxRows \in Nat /\ MaxTime \in Nat

VARIABLES
    rows,       \* email_verification_codes, indexed by AUTOINCREMENT id
    sendPc, draft,
    checkPc, seen,
    account,    \* users row of the address: the slot that created it
    now,
    granted,    \* history: how often each row was accepted
    answered,   \* history: user ids verifyCode has returned
    bounced     \* history: rows whose mail was reported undelivered

sendVars == <<sendPc, draft>>
checkVars == <<checkPc, seen>>
historyVars == <<granted, answered, bounced>>
vars == <<rows, sendVars, checkVars, account, now, historyVars>>

Ids(p) == {i \in DOMAIN rows : rows[i].purpose = p}

\* ORDER BY created_at DESC, id DESC LIMIT 1
Newest(p) ==
    CHOOSE i \in Ids(p) : \A j \in Ids(p) :
        \/ rows[j].created < rows[i].created
        \/ rows[j].created = rows[i].created /\ j <= i

Fresh(p) == {i \in Ids(p) : now - rows[i].created < ResendGap}

\* An invocation returns or is dropped: its locals are gone.
EndSend(s) ==
    /\ sendPc' = [sendPc EXCEPT ![s] = "idle"]
    /\ draft' = [draft EXCEPT ![s] = NoDraft]

EndCheck(v) ==
    /\ checkPc' = [checkPc EXCEPT ![v] = "idle"]
    /\ seen' = [seen EXCEPT ![v] = 0]

Continue(v, step) ==
    /\ checkPc' = [checkPc EXCEPT ![v] = step]
    /\ UNCHANGED seen

Init ==
    /\ rows = <<>>
    /\ sendPc = [s \in Senders |-> "idle"]
    /\ draft = [s \in Senders |-> NoDraft]
    /\ checkPc = [v \in Verifiers |-> "idle"]
    /\ seen = [v \in Verifiers |-> 0]
    /\ account = NoAccount
    /\ now = 0
    /\ granted = [i \in 1..MaxRows |-> 0]
    /\ answered = {}
    /\ bounced = {}

-----------------------------------------------------------------------------
\* sendVerificationCode

Drafted(p, c) == [purpose |-> p, code |-> c, expires |-> now + Lifetime, id |-> 0]

\* Mutant of AskForCode: the gap is one short.
AskForCodeEarly(s) ==
    /\ sendPc[s] = "idle"
    /\ \E p \in Purposes, c \in Codes :
        /\ \A i \in Ids(p) : now - rows[i].created >= ResendGap - 1
        /\ draft' = [draft EXCEPT ![s] = Drafted(p, c)]
    /\ sendPc' = [sendPc EXCEPT ![s] = "insert"]
    /\ UNCHANGED <<rows, checkVars, account, now, historyVars>>

\* The newest row is a minute old, so all are; the refusals (format, purpose,
\* blacklist, a younger row) change nothing.
AskForCode(s) ==
    /\ sendPc[s] = "idle"
    /\ \E p \in Purposes, c \in Codes :
        /\ Fresh(p) = {}
        /\ draft' = [draft EXCEPT ![s] = Drafted(p, c)]
    /\ sendPc' = [sendPc EXCEPT ![s] = "insert"]
    /\ UNCHANGED <<rows, checkVars, account, now, historyVars>>

InsertCode(s) ==
    /\ sendPc[s] = "insert" /\ Len(rows) < MaxRows
    /\ rows' = Append(rows,
           [purpose |-> draft[s].purpose, code |-> Hash[draft[s].code],
            used |-> FALSE, attempts |-> 0, status |-> "pending",
            expires |-> draft[s].expires, created |-> now])
    /\ draft' = [draft EXCEPT ![s].id = Len(rows) + 1]
    /\ sendPc' = [sendPc EXCEPT ![s] = "mail"]
    /\ UNCHANGED <<checkVars, account, now, historyVars>>

\* sendEmail: Resend accepts the mail, or refuses it, or cannot be reached.
SendMail(s) ==
    /\ sendPc[s] = "mail"
    /\ \E outcome \in {"accepted", "refused"} :
           sendPc' = [sendPc EXCEPT ![s] = outcome]
    /\ UNCHANGED <<rows, draft, checkVars, account, now, historyVars>>

\* The rows both status UPDATEs select: code is compared as mailed, the column
\* holds its hash.
Marked(s) ==
    {i \in Ids(draft[s].purpose) :
        rows[i].code = draft[s].code /\ rows[i].status = "pending"}

MarkSent(s) ==
    /\ sendPc[s] = "accepted"
    /\ rows' = [i \in DOMAIN rows |->
                   IF i \in Marked(s) THEN [rows[i] EXCEPT !.status = "sent"]
                                      ELSE rows[i]]
    /\ EndSend(s)
    /\ UNCHANGED <<checkVars, account, now, historyVars>>

MarkFailed(s) ==
    /\ sendPc[s] = "refused"
    /\ rows' = [i \in DOMAIN rows |->
                   IF i \in Marked(s)
                   THEN [rows[i] EXCEPT !.status = "failed", !.used = TRUE]
                   ELSE rows[i]]
    /\ bounced' = bounced \cup {draft[s].id}
    /\ EndSend(s)
    /\ UNCHANGED <<checkVars, account, now, granted, answered>>

-----------------------------------------------------------------------------
\* consumeVerificationCode

\* Mutant of Judgement: the lock is one late.
JudgementLate(i, c) ==
    IF rows[i].attempts > MaxAttempts THEN "lock"
    ELSE IF now >= rows[i].expires THEN "idle"
    ELSE IF rows[i].code \notin {Hash[c], c} THEN "count"
    ELSE "claim"

\* What the copy of row i is good for when code c is supplied at this moment.
Judgement(i, c) ==
    IF rows[i].attempts >= MaxAttempts THEN "lock"
    ELSE IF now >= rows[i].expires THEN "idle"
    ELSE IF rows[i].code \notin {Hash[c], c} THEN "count"
    ELSE "claim"

ReadCode(v) ==
    /\ checkPc[v] = "idle"
    /\ \E p \in Purposes, c \in Codes :
        /\ Ids(p) # {}
        /\ LET i == Newest(p)
           IN  /\ ~rows[i].used /\ rows[i].status # "failed"
               /\ Judgement(i, c) # "idle"
               /\ checkPc' = [checkPc EXCEPT ![v] = Judgement(i, c)]
               /\ seen' = [seen EXCEPT ![v] = i]
    /\ UNCHANGED <<rows, sendVars, account, now, historyVars>>

LockCode(v) ==
    /\ checkPc[v] = "lock"
    /\ rows' = [rows EXCEPT ![seen[v]].used = TRUE]
    /\ EndCheck(v)
    /\ UNCHANGED <<sendVars, account, now, historyVars>>

\* UPDATE ... SET attempts = attempts + 1 WHERE id = ? AND used = 0
CountMiss(v) ==
    /\ checkPc[v] = "count"
    /\ rows' = IF rows[seen[v]].used THEN rows
               ELSE [rows EXCEPT ![seen[v]].attempts = @ + 1]
    /\ EndCheck(v)
    /\ UNCHANGED <<sendVars, account, now, historyVars>>

\* Mutant of Claim: the UPDATE does not ask for used = 0.
ClaimBlindly(v) ==
    /\ checkPc[v] = "claim"
    /\ rows' = [rows EXCEPT ![seen[v]].used = TRUE]
    /\ granted' = [granted EXCEPT ![seen[v]] = @ + 1]
    /\ Continue(v, "lookup")
    /\ UNCHANGED <<sendVars, account, now, answered, bounced>>

\* UPDATE ... SET used = 1 WHERE id = ? AND used = 0: one of the claimants
\* changes a row, the others are told the code is invalid.
Claim(v) ==
    /\ checkPc[v] = "claim"
    /\ IF rows[seen[v]].used
       THEN /\ EndCheck(v)
            /\ UNCHANGED <<rows, granted>>
       ELSE /\ rows' = [rows EXCEPT ![seen[v]].used = TRUE]
            /\ granted' = [granted EXCEPT ![seen[v]] = @ + 1]
            /\ Continue(v, "lookup")
    /\ UNCHANGED <<sendVars, account, now, answered, bounced>>

-----------------------------------------------------------------------------
\* verifyCode: the account behind the address.  The id a slot would insert is
\* the slot itself: randomUUID never repeats and the address has one row.

\* A banned account is refused, after its code is spent.  An address that is not
\* verified yet is marked so before the answer: a column nothing here reads, and
\* an invocation lost at that statement is lost without an answer (Evict).
FindAccount(v) ==
    /\ checkPc[v] = "lookup"
    /\ IF account = NoAccount
       THEN /\ Continue(v, "create")
            /\ UNCHANGED answered
       ELSE /\ EndCheck(v)
            /\ answered' \in {answered, answered \cup {account}}
    /\ UNCHANGED <<rows, sendVars, account, now, granted, bounced>>

\* INSERT OR IGNORE under the unique index on email_normalized
CreateAccount(v) ==
    /\ checkPc[v] = "create"
    /\ account' = IF account = NoAccount THEN v ELSE account
    /\ Continue(v, "reread")
    /\ UNCHANGED <<rows, sendVars, now, historyVars>>

\* Mutant of RereadAccount: the slot trusts its own INSERT.
RereadOwnAccount(v) ==
    /\ checkPc[v] = "reread"
    /\ answered' = answered \cup {v}
    /\ EndCheck(v)
    /\ UNCHANGED <<rows, sendVars, account, now, granted, bounced>>

\* The id the address has now, or the one of the INSERT when it has none.
RereadAccount(v) ==
    /\ checkPc[v] = "reread"
    /\ answered' = answered \cup {IF account = NoAccount THEN v ELSE account}
    /\ EndCheck(v)
    /\ UNCHANGED <<rows, sendVars, account, now, granted, bounced>>

-----------------------------------------------------------------------------
\* The runtime drops an invocation between two statements.
Evict ==
    /\ \/ /\ \E s \in Senders : sendPc[s] # "idle" /\ EndSend(s)
          /\ UNCHANGED checkVars
       \/ /\ \E v \in Verifiers : checkPc[v] # "idle" /\ EndCheck(v)
          /\ UNCHANGED sendVars
    /\ UNCHANGED <<rows, account, now, historyVars>>

Tick ==
    /\ now < MaxTime
    /\ now' = now + 1
    /\ UNCHANGED <<rows, sendVars, checkVars, account, historyVars>>

Next ==
    \/ \E s \in Senders :
        \/ AskForCode(s) \/ InsertCode(s) \/ SendMail(s)
        \/ MarkSent(s) \/ MarkFailed(s)
    \/ \E v \in Verifiers :
        \/ ReadCode(v) \/ LockCode(v) \/ CountMiss(v) \/ Claim(v)
        \/ FindAccount(v) \/ CreateAccount(v) \/ RereadAccount(v)
    \/ Evict
    \/ Tick

Spec == Init /\ [][Next]_vars

-----------------------------------------------------------------------------
\* Properties.

Row == [purpose : Purposes, code : Digests, used : BOOLEAN, attempts : Nat,
        status : {"pending", "sent", "failed"}, expires : Nat,
        created : 0..MaxTime]

Draft == [purpose : Purposes, code : Codes, expires : Nat, id : 0..MaxRows]

TypeOK ==
    /\ rows \in Seq(Row) /\ Len(rows) <= MaxRows
    /\ sendPc \in [Senders -> {"idle", "insert", "mail", "accepted", "refused"}]
    /\ draft \in [Senders -> Draft \cup {NoDraft}]
    /\ \A s \in Senders : sendPc[s] # "idle" => draft[s] \in Draft
    /\ checkPc \in [Verifiers -> {"idle", "lock", "count", "claim", "lookup",
                                  "create", "reread"}]
    /\ seen \in [Verifiers -> 0..MaxRows]
    /\ \A v \in Verifiers : checkPc[v] # "idle" => seen[v] \in DOMAIN rows
    /\ account \in Verifiers \cup {NoAccount}
    /\ now \in 0..MaxTime
    /\ granted \in [1..MaxRows -> Nat]
    /\ answered \subseteq Verifiers \cup {NoAccount}
    /\ bounced \subseteq 0..MaxRows

Judging(i) == {v \in Verifiers : checkPc[v] \in {"count", "claim"} /\ seen[v] = i}

\* attempts is read when a guess arrives and written when it has been judged:
\* guesses in flight together go past the lock, but never by more than the
\* verifiers that can be in flight, over the whole life of the code.
GuessBudget ==
    \A i \in DOMAIN rows :
        rows[i].attempts + granted[i] + Cardinality(Judging(i))
            <= MaxAttempts - 1 + Cardinality(Verifiers)

Inserting(p) == {s \in Senders : sendPc[s] = "insert" /\ draft[s].purpose = p}

\* The minute between two codes is checked before the INSERT: a burst of
\* requests gets past it, but no minute ever sees more codes than senders.
BurstBounded ==
    \A p \in Purposes :
        Cardinality(Fresh(p)) + Cardinality(Inserting(p)) <= Cardinality(Senders)

\* Every caller who proves the address is told the same user, even when two
\* of them find no account and both insert one.
OneAccount == answered \subseteq {account}

Honoured == INSTANCE OneTimeToken WITH
    Tokens <- 1..MaxRows,
    issued <- DOMAIN rows,
    void <- {i \in DOMAIN rows : rows[i].used},
    honoured <- granted

\* The table is a store of one-time tokens: no row is honoured twice, or after
\* it was locked or voided, and none is revived.
ImplementsOneTime == Honoured!Spec

\* email.js:96: a code whose mail was reported undelivered is marked used.
BouncedIsVoid == \A i \in bounced : rows[i].used

=============================================================================
