# StudyPulse Cloud AI in TLA+

StudyPulse Cloud AI is one Cloudflare Worker: an AI gateway (`POST /v1/chat`)
with routing over several providers, a ledger of usage against plans, and a
user system (e-mail codes, passwords, passkeys, OAuth, sessions, bans) with an
administration. All state that outlives a request is in a D1 database. There
are no transactions across statements: an invocation is a chain of `await`s,
D1 runs each statement (or `batch`) atomically, and any other invocation may
run between two of them. Its pages run in browsers, in several tabs, and take
the answers of their requests in the order they come. Almost every question in
this project is what a value is still worth when it was read one statement ago.

Paths below are relative to the repository. In every module, one `await` is
one step, a D1 statement or batch is atomic, and the locals of an invocation
are variables indexed by a slot (an invocation that is open at the moment). A
slot that is done forgets its locals and serves the next invocation, so runs
have unboundedly many requests, but bounded concurrency.

## 1. Inventory

| part (code) | state it keeps | operations | modelled in |
|---|---|---|---|
| Chat gateway (`src/index.js`, `src/ai/gateway.js`, `src/auth.js`, `src/auth/middleware.js`, `src/database/usage.js`, `src/database/api_keys.js`) | `usage_records`, `request_logs`, `api_keys.request_count` | authenticate, check ban and quota, route, call, fall back once, answer (JSON or stream), write the ledger | `ChatGateway` |
| Quota and plans (`src/membership/membership.js`) | `membership_plans`, read only | daily and monthly check; the windows they count in, also shown by `src/dashboard/routes.js` | `ChatGateway` (`CheckDaily`, `CheckPoints`), `QuotaWindows` |
| Router (`src/ai/router.js`, `src/ai/policies.js`, `src/providers/registry.js`) | none; works on a snapshot of the registry | pools of a purpose, three filter passes, thinking mode, chain | `Routing` |
| Model registry (`src/ai/model-config.js`, `src/admin/models.js`) | `ai_models`; a copy in every isolate for 15 s | load, save, create, invalidate | `ModelConfig` |
| Prices (`src/billing/`) | `pricing_rates`; a copy in every isolate | load from two tables, save, restore defaults, charge | `Pricing` |
| E-mail codes (`src/auth/email.js`) | `email_verification_codes`, `users` | send, void on failed mail, guess, claim, create the account | `VerificationCodes` |
| Sessions and passwords (`src/auth/routes.js`, `src/auth/session.js`, `src/database/credentials.js`) | `sessions`, `user_credentials`, `users.password_hash` | login with rehash, sign-in by code, registration, reset, change, refresh, logout | `Sessions` |
| Login limiter (`src/security/rateLimit.js`) and lock (`src/database/credentials.js`) | `auth_rate_limits`; `failed_login_count`, `locked_until` | consume, reset; record a failure, clear | `LoginLimiter`, `LoginLock` |
| Authorization codes, challenges, passkeys (`src/auth/authorization-codes.js`, `challenges.js`, `passkey.js`) | `authorization_codes`, `auth_challenges` | issue, sweep, read, claim, grant | `OneTimeGrants` |
| OAuth (`src/auth/oauth.js`) | `user_oauth_accounts`, `users` | Google and GitHub callbacks, binding by e-mail, cascade of a deletion | `OAuthLinks` |
| Bans and appeals (`src/appeals/`, blacklist handlers of `src/admin/`) | `users.status`, `bans`, `appeals`, `blacklisted_emails` | ban, appeal, review, lift, list | `Moderation` |
| Account deletion (`src/admin/database.js`) | rows of every table | read the role, one batch | `AccountRemoval`; cascade of links in `OAuthLinks`, of tickets in `Contributions` |
| Contributions (`src/contributions/service.js`) | `contribution_tickets`, the membership in `users` | submit, review, award | `Contributions` |
| Support tickets (`src/support/routes.js`, `src/admin/routes.js`) | `feedback_tickets` | file, process, trim the archive | `SupportTickets` |
| User pages (`assets/pages/dashboard/app.js`) | `sp_session_token` in `localStorage`, what a tab shows | open, refresh, log out, file, bind and remove | `UserPage` |
| Sign-in page (`assets/pages/auth/app.js`) | forms and buttons, a session on its way, `passkey_prompt_dismissed_at` | forms, passkey login, passkey offer, hand-over; resend button | `SignInPage`, `ResendButton` |
| Administration pages (`assets/pages/admin/app.js`, `src/admin/auth.js`) | token, overlays, trend chart, lists and forms | log in and out, load, edit a key or a model | `AdminConsole`, `AdminEdits` |
| Administration statistics and listings, connectivity tests, mail text, cryptography, scripts | none of interest | reads, conversions | not modelled, see section 7 |

How they meet: `handleChat` authenticates a session or key (written by the
sign-in parts), reads `users.status` (written by Moderation), asks the router
(which reads the registry copy), and charges at the rate of the price copy.
The sign-in parts all end in `createSessionWithMetadata`. OAuth binding uses a
challenge of `OneTimeGrants` and a code of `VerificationCodes`. A reset uses a
code and ends in `Sessions`. An award of `Contributions` and an edit of the
administration write the membership that the quota reads. The parts of the
Worker meet in the database only; none calls back into another. The pages meet
it through requests, and each other through `localStorage`.

What is hard, and the properties that answer it (the full list with lines is
`hazards` in `PROJECT.json`):

* **Check now, write later.** Quota (`DailyOvershootBounded`,
  `AllowanceOvershootBounded`), guesses at a code (`GuessBudget`), codes per
  minute (`BurstBounded`), refresh tokens (`RefreshBudget`), the limiter and
  the lock (`AdmittedBounded`, `LockHolds`), registration challenges
  (`ReplayBounded`), bans and appeals (`RacesBounded`), contributions
  (`PendingBounded`), deleted accounts (`LeftoversBounded`), GitHub links
  (`GitHubReachBounded`). None of these limits is exact. What the properties
  state is the exact excess the code can reach as a function of concurrency:
  a change that lost the recheck altogether would exceed it.
* **Claim by conditional UPDATE.** Where the code does recheck, exclusiveness
  must hold without exception (`ImplementsOneTime`, `GrantsExclusive`,
  `VerdictFinal`, `GoogleReachesItsLink`, `OneAccount`).
* **Several writes, some of which fail** (`BilledIffServed`,
  `DoubleLogOnlyAfterLoss`, `BannedCanAppeal`, `OutlivedBounded`,
  `BuiltInPriced`, `AwardInForce`).
* **A copy filled after it was invalidated, or saved back** (`CopiesFresh`,
  `UntouchedKept`).
* **Everything was revoked while something was in flight**
  (`SurvivorsBounded`, `OutlivedBounded`, `ProviderDiscipline`,
  `LogoutRevokes`).
* **Answers that overtake each other in a page** (`AppIsAuthorised`,
  `LoginKept`, `ScreensCurrent`, `HandedOverOnce`).
* **One rule written twice** (`DashboardAgrees`, `NeverEarly`,
  `RouteKeepsTerms` for the chain and the fallback).
* **It must end** (`EventuallyAnswered`).

## 2. Modules

Abstract specifications:

* `MeteredService`: a request is open, then served or refused, once; it is
  charged at most once and never when refused. `ChatGateway` implements it
  (outcome from `reply`, charges from the number of its usage rows).
* `OneTimeToken`: issued, honoured at most once, never after it was voided.
  `VerificationCodes` implements it (a row is a token, `used` voids it), and so
  does `OneTimeGrants` (used, swept or, for codes, expired voids it).

Detailed modules, with the correspondence that is not obvious from the names
(`map` in `PROJECT.json` has the lines of each definition):

* `ChatGateway`. One element of `Requests` is one invocation. `Authenticate`,
  `CheckBanned`, `Validate`, `CheckDaily`, `CheckPoints`, `Route` are the
  statements of `handleChat`, `checkUserQuota` and `executeChat` up to the
  provider. A call succeeds (JSON or stream), is retried once (`CallRetries`,
  with `pickRuntimeFallback` as `Fallback`) or fails. `persistSuccess` runs
  its two or three writes under one `Promise.all`: they are the set `pending`, any of
  them may finish or fail in any order, the first failure decides what the
  handler does, and the others run on (`WriteFails`) or are lost with the
  isolate (`Evict`). A key limit counted in tokens is abstracted to the count:
  the check and the write stand at the same two places. `lateBan` are the
  requests whose user was banned before `handleChat` read his status, during
  their authentication included: none of them reaches a provider. A ban that
  lands after that reading lets the request through, as the code does.
* `Routing`. `Pools`, the strict, relaxed and last-resort passes, the order of
  a pool, `resolveThinking` and the request each wire dialect carries. The
  registry changes only between requests, because a request routes over one
  snapshot. The runtime fallback of `gateway.js` keeps the thinking mode that
  was resolved for the head of the chain, and so does the model.
* `ModelConfig`, `Pricing`. `query`/`fill` split a load at its `await`;
  `invalidate` follows the write of a save in the isolate that saved. Other
  isolates only see the age of their copy. A failed load caches an empty table
  (the built-in defaults) for the whole lifetime, as the code does. `Pricing`
  reads two tables that fail separately; `partial` remembers that.
* `VerificationCodes`. One address. A verifier judges a copy of the row and
  then writes to the row: `lock`, `count` or `claim`, then `lookup`, `create`,
  `reread` for the account; a banned account is refused after the look-up, its
  code spent. A sender inserts, mails and marks the row.
* `Sessions`. One account. The handlers share the steps `prove`, `save`,
  `mirror`, `revoke`, `retire`, `open`; which of them a handler takes, and in
  which order, is its kind. `late` marks a slot that read its authority before
  the last revocation of everything.
* `LoginLimiter`: the two counters, each read and written back by two
  statements. `LoginLock`: the counter of the database, and the deadline the
  login computed from the counter it read.
* `OneTimeGrants`. Kinds of token differ in the statement that claims them:
  codes and challenges test `used_at IS NULL`, and the passkey registration
  stores its passkey in the same batch whatever that test said.
* `OAuthLinks`. `known`/`find`/`create`/`reread` find the account,
  `ownLink`/`emailLink`/`claim`/`link`/`compare` link it. A refusal of a banned
  account, a failed statement and a dropped invocation are one action, `End`,
  which is possible at every step. Challenges are left to `OneTimeGrants`.
* `Moderation`. `createBan` and `reviewAppeal` statement by statement;
  `removeBlacklistedEmail` is a batch, hence one step.

* `Contributions`. One address, whose account may be deleted and made again
  (with a new id). The two statements of a review, `Decide` and `Grant`, are
  apart; `contested` remembers that two reviews read one ticket while it was
  pending, `author` which ticket the membership of the row came from.
* `SupportTickets`. `Process` and `Trim` are the two statements of
  `handleProcessTicket`; a tie of `processed_at` (seconds) is broken either way.
* `AccountRemoval`. One account; `rows` counts what names it. A key is looked
  up without its owner, so requests by a key go on after the deletion until
  `checkUserQuota` misses the user. `CreateKey` makes keys for anybody, deleted
  or not, as `createApiKey` does.
* `QuotaWindows`. `checkUserQuota` and the dashboard compute the same windows
  with different code; the module has both, over a clock of eight-hour ticks
  on which Shanghai is one tick ahead of UTC. What is left of a limit is what
  `quotaMarkup` shows.
* `UserPage`. Tabs share `stored`; a call keeps the token of the moment it was
  sent. `LeavePage` is a navigation: the answers are not awaited any more, what
  was sent may still arrive. `busy` is the disabled refresh button.
* `SignInPage`. One `Flow` is one run of a form's `onsubmit` or of
  `loginWithPasskey`, through `offerPasskeySetup` (a `finish` that is awaited,
  or a `released` by timer or without `await`) to `finishLogin`.
* `ResendButton`. The interval of the page and `created_at` of the server, two
  clocks that only share the second.
* `AdminConsole`. `call` holds the token each request was sent with; `Refuse`
  is the 401 branch of `apiCall`, which drops the token of the moment. What the
  page believes of Cloudflare Access (`access`, a header that was present when
  the page was served) and what the server accepts (`behind`, a JWT it can
  verify, which `AccessChanges` lets expire and be renewed under the page) are
  independent of each other. A request that was on its way while the JWT changed
  may be judged either way (`MayAccept`, `MayRefuse`).
* `AdminEdits`. One row and the tabs that edit it. `Lists` is what a load may
  answer: the row, or for a model also the copy of another isolate (up to
  fifteen seconds old) and the default rates when `pricing_rates` cannot be read.
  `Shown` is what the inputs of the form make of a row and `Encoded` what is sent
  of it: the expiry of a key loses its seconds, or all of it when its text is a
  day, and its hour is read back by the clock of the browser. `stale` are the
  fields of the row that a tab does not know.

Every module ends with its properties. Operators marked "Mutant of ..." are
the faults the properties were tried against; no behaviour of the
specifications uses them.

## 3. Runs

MC modules name constants and symmetry sets. `MCPlans`, `MCSignIn`,
`MCCaches`, `MCAccounts` and `MCPages` also put several
machines side by side, of which a variable `part` picks the one that moves:
the machines share no variable, and each has the rest of the system as its
most general environment, so an interleaving of them adds no behaviour to
any. Where symmetry is declared, no liveness is checked in that run.

| run | parts | bounds | distinct states |
|---|---|---|---|
| `chat_service` | the gateway | two requests, streamed or not, a chain whose head lacks a key and whose next models share a host, the count of a key and the usage row may fail to be written, a ban and a midnight at any moment; fair Worker | 418 k |
| `plans_check` | quota; windows; router | three requests (two at once) of a user, his key and a key without a user, limits of 1 and 2, over a midnight, the log of an error may fail; seven ticks, months of two days, three ends of a membership; registries reached by seven edits of the three seeded models, 80 requests of five policies | 536 k |
| `codes_check` | e-mail codes | two senders, two verifiers, two codes, two rows, lock after two attempts | 1.7 M |
| `codes_bounced` | e-mail codes | expected violation, see section 6 | |
| `sessions_check` | sessions and passwords | two handlers, two passwords, two rows of `sessions`, hash current or legacy | 2.6 M |
| `sessions_rehash` | sessions and passwords | expected violation, see section 6 | |
| `caches_check` | registry; prices | two isolates, two models; one isolate, a built-in and a dynamic model; two tasks each, lifetime 2, latency 1 | 2.0 M |
| `sign_in_check` | tokens; limiter; lock | three handlers, three tokens of four kinds; limits 3 and 2 over two windows; the fifth failure and a lock of two ticks | 681 k |
| `oauth_check` | OAuth links | two callbacks, two identities, two addresses, three accounts | 1.2 M |
| `accounts_check` | contributions; support tickets; deletion; bans and appeals | two requests; three tickets over two accounts; an archive of one; four requests around a deletion; three bans and three appeals | 583 k |
| `pages_check` | user pages; console; edits; sign-in page; resend button | two tabs, two calls, one item, two sessions; two ranges, an Access header and an Access JWT in any combination; two limits, four texts of an expiry and a clock eight hours ahead; two sign-ins at once; a pause of two seconds | 1.4 M |
| `console_fallback` | the same | expected violation, see section 6 | |

What they show, beyond the names: `plans_check` that a plan gives what it says
(limits up to the concurrency, a dashboard that agrees with the check, routes
that keep floor and thinking mode); `sign_in_check` that guesses and replays
are bounded by the requests that race; `accounts_check` that a ticket and the
membership it awarded agree unless its reviews raced or failed, that a
deleted account leaves behind only what was being written, and that a banned
account can appeal; `pages_check` that
a page at rest is right unless an answer was lost or overtaken, and exactly
which crossings are able to make it wrong.

Why the bounds are enough:

* Every bound named `Max...`, and the sets of ids, only end the run: they say
  how many rows are ever created or how far the clock goes. They are chosen so
  that each limit is reached and passed (a third request meets a limit of one;
  two rows let the newer code supersede the older; three accounts let an
  account be deleted and its address be used again).
* The properties that give a bound in the number of slots need two actors to
  be violated by a lost recheck, and three (limiter, lock, grants) where two
  cannot tell `n` from a constant. The theorems of section 5 remove the bound for
  those that are proved.
* In `pages_check` one item is enough because a list is right or wrong about
  each item alone; two sessions are a login after a logout; two calls are one
  answer that overtakes another. `MaxHour` only keeps a drifting expiry finite.
* No user of the two gateway runs is an administrator, whom `checkUserQuota`
  lets through without counting; the theorems of `Plans_proofs` cover any
  set of them.
* In `plans_check` a month of two days and ends before, at and after a
  midnight and a month's end cover every order of the four instants the
  windows compare.
* `codes_check` has the state constraint `OneSideAtATime`: two senders overlap
  only while no verifier is at work. All pairs of invocations still meet, the
  triple of two senders and a verifier does not.
* `codes_check` and `sessions_check` (and the runs of section 6) switch
  the deadlock check off: with all rows used up, all slots can stand still at
  an INSERT; so does `pages_check`, whose resend button has a bounded clock.
  Elsewhere the check is on; in `ChatGateway` the end of all requests is
  the stuttering action `Finished`.

## 4. Fairness

Only `chat_service` checks liveness, under weak fairness of `Serve(r)` for
each request: a Worker that has a statement or a fetch to finish finishes it,
because D1 and the provider answer or fail and the runtime resumes the
`await`. For the provider this is an assumption on the platform, which drops a
connection that stays silent: the adapters set no timeout of their own. No fairness is assumed
of clients (`Arrive`), bans or midnight, and none of a particular outcome:
`WriteFails` and `WriteSucceeds` are one disjunction. `EventuallyAnswered`
says that a request that was opened is answered and its bookkeeping ends.

## 5. Theorems

All are proved by TLAPS for every value of the constants that satisfies the
named assumptions (finite sets, positive limits, "none" values outside their
sets, at least one slot of `Sessions`, models that pass the validation of the
administration); no proof is left open. `Accounts_proofs`, `Caches_proofs`,
`Pages_proofs` and `SignIn_proofs` prove about the specification of their run,
of which each machine moves alone, and so does `Plans_proofs` for the windows
and the router; again for any constants: the sizes and the symmetry sets of the
run play no part. Every safety property of every passing run is stated by a
theorem.

Most bounds have one pattern. What the property counts is not inductive, since
a request that has looked and not yet written will add to it; the invariant
counts the rows *plus* the requests past the look, and the code's check is the
only place where a request joins them. What differs is why the sum cannot grow
elsewhere, and that is where the strengthenings come from.

* `Plans_proofs`, gateway. `GatewayInv` gives `DailyOvershootBounded`: rows of the
  day plus requests past the check. It needs `OneUsageRow` and that the row is
  dated today (`UsageLedger`), that the requests past the check are among the
  open ones (`ConcurrencyBounded`), and that a pending write belongs to a request
  with a user (`PendingOwned`). `ReplyPhase` relates answer and step, and gives
  the refinement `GatewayIsMetered`. On top of it:
  * `ProviderInv`: what a request may have called at each step, and that one
    whose user was banned before it came is `Stopped` (before the route, nothing
    called). `CalledDiscipline` is the fact about the sequence of calls.
  * `LedgerInv` accounts for one request at a time (`Accounted`): logs written
    plus logs due, which of them a lost write explains, and what a request owes
    once it is served. A key's count is bounded by the served requests whose
    unit is not under way any more (`Counted`). `OneMoved` says that a step
    changes the account of one request only, so each action is proved for the
    request that takes it.
  * `AllowanceInv`: points spent plus the dearest charge for every request past
    the check. The sum of points is a recursive function over sets; its value
    after a row is added (`PointsAfter`) is proved without induction, from a
    smallest counterexample (`SmallestSet`).
* `Plans_proofs`, windows. `DashboardIsRight` relates two computations of one
  state. Once it is clear that the check and the dashboard start counting at the
  same instant (`SameStart`: the code writes it twice, as a later of two and as a
  comparison), both take the same sum of usage, and what is left of a limit is 0
  exactly when that sum reaches it (`NothingLeft`). It needs the sum to be a
  natural number, which the fold of the library is only by a recursion over sets:
  `WeightsExist` proves that the recursion has a solution.
* `Plans_proofs`, router. `RouterInv`: the registry is sound, a request under way
  has the route that `routeChat` computes from it (the registry stands still
  meanwhile), and nothing is sent but to models of that chain. The rest is about
  the algorithm. `CollectGrows` follows the chain from pool to pool, again by
  smallest counterexample: after `i` pools it holds the candidates of these pools,
  each once, by the first pool that has it, then by priority and id (`GrownTo`).
  `RouteCases` and `FitIsClass` match the strict, relaxed and last pass with the
  classes of `BestClass`, of which the code never speaks; `TermsKept` then only
  asks what a model of the best class may cost and can do.
* `VerificationCodes_proofs`. `GuessBudget` counts attempts, the grant and the
  verifiers judging a row, and needs that a granted row is used (`Spent`): else a
  guess could join after the grant. `BurstBounded` counts fresh rows and senders
  about to insert; the check lets a sender join only when no row is fresh.
  `OneAccount` needs that a verifier reads the row again only when there is one
  (`AccountKnown`). `CodesAreOneTime` is the refinement of `OneTimeToken`. The
  newest row is a CHOOSE over an order; `NewestExists` proves that it is one.
* `Sessions_proofs`. `SlotShape` says what a handler of each kind may be about
  to do and with which password and row; every other proof begins there.
  `RefreshBudget` needs that whatever hangs on a session hangs on a revoked one
  (`Rotation`): while a session can still be read it has no descendants.
  `SurvivorsBounded` holds because the handler that revokes everything is
  itself not late. `OutlivedBounded` needs `NeverSet` (before a first password
  nothing rests on one) and is proved across `Calm`: when a replacement ends,
  its revocation has just left nothing behind.
* `OAuthLinks_proofs`. `LinksInv`: a link leads to an account that exists
  (foreign key and cascade), and a Google request that has found a link still
  has it unless it was deleted, which `cut` remembers. This is needed because
  `GoogleReachesItsLink` says nothing of a request that has not finished.
  `GitHubReachIsBounded` needs that the history of a link is empty exactly when
  there is no link; then the accounts an identity can reach are those of the
  requests that raced when there was none, and FiniteSetTheorems count them.
* `Accounts_proofs`, bans. `BannedCanAppeal` is not inductive: a review that is
  about to cancel a ban would break it. `BannedKeepsBan` demands an active ban
  that no review is about to cancel, and rests on the order of `createBan`
  (account first, ban last) and of `reviewAppeal` (account first, ban next),
  and on `FreshBans` and `StoredBans`, which keep a ban being written and a ban
  under review apart. `VerdictIsFinal` is an action property from the same
  invariant. `RacesInv` counts active bans plus those about to be written, and
  per ban the pending appeals plus those about to be.
* `Accounts_proofs`, contributions. `PendingBounded` becomes inductive as
  `Room`, which counts the pending tickets *plus* the submissions past their
  look. `AwardInForce` speaks only of a ticket nobody reviews any
  more; what holds while it is reviewed is `AwardInv`: a review that met no
  other is `Alone` with its ticket, finds it pending when it decides and grants
  exactly what it recorded (`Faithful`), for an account that is still the one
  it read (`OfAccount`, since the tickets go with the account), and a ticket
  not decided yet has awarded nothing (`Undecided`).
* `Accounts_proofs`, leftovers. `RemovalInv` counts the rows that name a deleted
  account plus those still owed to it: a usage row or a ban (`RowOwed`), a log
  (`LogOwed`) and the log of a failed write (`ErrorOwed`), which a request owes
  until it has lost a write and written that log. Nobody new joins, since the
  quota check misses the user. `RoleRead` is why no administrator is deleted.
  `DeskInv` counts the archive against the processings that have yet to trim or
  have failed, and the top tickets against requests that had read the plan.
* `Caches_proofs`. `CopiesFresh` speaks of copies; what makes it inductive is
  what a load holds before it fills one. `GotFresh`: the rows a load has read
  are right about every model not written since. For prices `ListFresh` and
  `TableFresh` say it of the two reads apart, because either may fail, and
  `CopyFresh` states for the models of the code what it states for full copies,
  which gives `BuiltInPriced`.
* `SignIn_proofs`, tokens. `GrantsInv`: a handler about to grant holds a token
  that is used up (`HeldTokens`), alone (`GrantsExclusive`), and a token that is
  open was never claimed (`ClaimedMarked`). `ReplayBounded` is inductive on top
  of it, since it counts claims plus the handlers that still can claim.
  `GrantsAreOneTime` is the refinement of `OneTimeToken`.
* `SignIn_proofs`, lock. `LockHolds` is a bound on passwords tried while the
  account should be locked. `TriesLeft` is a potential: a login that failed
  before the lock was due carries a deadline that is too early, or none
  (`Early`), and can open the lock once; with `k` of the slots no longer such a
  login, at most `1 + 2 + ... + k` passwords have been tried, and while the lock
  is open those that wait have their try reserved in that sum. An early login
  that reports raises `k` by one, which pays for everyone who can now wait. The
  proof needs `n(n+1)/2` for `n` slots; the two logins of a small instance reach
  it (three passwords), so it is the bound for all `n`, not only for the three
  of the run.
* `SignIn_proofs`, limiter. `AdmittedBounded` bounds the logins one tick admits by
  the binomial coefficient of `n` in `limit + 1 + n`, less one, for `n` slots: a
  login that stalls between the read and the write of `consume()` sets the counter
  back to what it read, and whoever reads it then starts from there. `Paid` is a
  potential again. At a moment every slot has a value, the one it read and is
  about to write or would read next. What is held back above each value is
  weighed (`Weight`): `h` slots with `j` values above them are worth what
  the slots but one get past `j + 1` values (`Budget`), and one more. A write
  raises the writer above the value it writes and may pull the idle ones down to it
  from above; `SumGain` is the inequality that the first is worth at least one
  login more than the second, whatever is held back elsewhere. `SetBacksExist`
  proves that the recurrence of the budget has a solution.
* `Pages_proofs`. Each page has an invariant of its own (`PagesInv`).
  * Console: whoever is shown the application has the right token, or Access
    vouches for him or did until his last request, or the page was asked for with
    an Access header, or a request is on its way that the server can only refuse
    (`Doubted`, `Lost`); a bad token is stored only after Access vouched for the
    browser once (`Vouched`); a login that nothing crossed has
    no other token anywhere (`Undisturbed`). The newest request of the chart asks
    for the range that is picked (`Charted`).
  * Tabs of a user: a session to be revoked has its logout on the way
    (`Awaited`), and what a tab shows has all that tab did, or a newer answer that
    has it is on its way (`Seen`, `AnswerTrue`), which holds because a row that
    is gone does not come back.
  * Forms: a field that is not stale is in the list of a tab as the row has it,
    and in its form as the form shows it unless it was touched (`FormKept`);
    every write makes stale what it changes (`RowKept`), and what the form shows
    of a field depends on that field alone (`ShownAlike`). `UntouchedIsKept` is an
    action property.
  * Sign-in page: a session is held by the one sign-in it was given to, or was
    handed over once, or was denied (`HandedOver`).
  * Resend button: the seconds shown and the ticks since the code make up the
    pause, and no more ticks than seconds have passed (`Countdown`).

`UsageAtMostOnce`, `GrantsTypeCorrect` and the other theorems of types and
invariants are facts the rest builds on; no run checks them on their own where
the properties fail with them.

Model-checked only: `EventuallyAnswered`, since liveness is out of the prover's
reach. Where a proof needs what an induction over data would give (that a
recursive function exists, and what it computes step by step), it takes the
smallest counterexample in the naturals instead.

## 6. Where code and documents disagree

With a run:

* `codes_bounced`: a code whose mail was refused should be voided
  (`src/auth/email.js:96`), but the UPDATE compares the hash column with the plain
  code and changes nothing.
* `sessions_rehash`: a login that upgrades a weak hash writes the password it
  was given over one that was set meanwhile (`src/auth/routes.js:161`).
* `console_fallback`: the token is the way in when Access is not configured
  (`README.md:564`), and the server takes it then. But the page is told of Access
  by a header nobody verified (`src/ui/static-pages.js:50`), and where it was there
  a refusal shows no login form (`assets/pages/admin/app.js:135`): the administrator
  sits before an empty console until he presses logout. `AppIsAuthorised` states
  that this is the only way to sit there, beside a failed request and a JWT
  that expired since the last one.

Without a run of their own; the named property states what remains true:

| statement | code | what holds |
|---|---|---|
| a refresh token is used once (`docs/AUTHENTICATION.md:247`) | read and revoked by two statements | `RefreshBudget` |
| one code a minute (`src/auth/email.js:43`) | check and INSERT apart | `BurstBounded` |
| five attempts per code (`README.md:717`, `docs/API.md:963`) | attempts judged on a copy | `GuessBudget` |
| a locked account stays locked (`test/auth-password.spec.js:216`) | a login that read a low counter reports no deadline and lifts the lock | `LockHolds` |
| `used=1` keeps a challenge from being replayed (`docs/DATABASE_SCHEMA.md:342`) | the passkey is stored in the same batch whether the challenge was still unused or not, and 401 comes afterwards | `ReplayBounded` |
| forced thinking goes to thinking models only (`docs/MODEL_MANAGEMENT.md:14`) | relaxed when no affordable model thinks | `RouteKeepsTerms` |
| the appeal link of a lifted ban is invalid (`docs/API.md:809`) | a review of an older, replaced ban opens the account, the newer ban stays active and its link valid | `BannedCanAppeal` (the other direction) |
| prices fall back to defaults | if only the list of dynamic models fails, a dynamic model is billed at another model's rate (`src/billing/store.js:56`, `:99`) | `BuiltInPriced` |
| one contribution is awarded once (`contributions/service.js:34`) | a second review that read the ticket pending grants its own award although its verdict is not recorded | `AwardInForce` |
| one pending contribution or appeal | look-up and INSERT apart | `PendingBounded`, `RacesBounded` |
| deleting a key deletes its logs (`src/admin/database.js:259`, `assets/pages/admin/app.js:409`) | only the row goes; the foreign key was dropped by `migrations/0013` | `LeftoversBounded` |
| the expiry shown in the form is the one of the key (`assets/pages/admin/app.js:379`) | cut from UTC text, read back as local time (`:395`): every save moves it by the offset of the browser and drops its seconds, and an expiry that names only a day is saved as none | `UntouchedKept` |
| a save writes what was edited | it writes the whole form (`assets/pages/admin/app.js:383`), also over what another tab changed since | `UntouchedKept` (the fields nobody else changed) |
| a page shows what was asked for last | an older answer that comes later is drawn over it (`assets/pages/admin/app.js:223`) and stays until the next load | `ScreensCurrent` (where no answer overtook another) |
| the button of a disabled key says 启用 (`assets/pages/admin/app.js:586`) | it sends `enabled: 0` as well (`:774`) | `UntouchedKept` has `Disable` |
| prices that cannot be read are shown as defaults (`src/admin/models.js:64`) | saving any field of the form then writes the defaults over the stored rates | `UntouchedKept` |
| a model with `extra_body` can be edited | the form sends it as a string (`assets/pages/admin/app.js:1152`), `src/ai/model-config.js:422` refuses it | a refusal is `SaveFails` |
| the statistics of a user show his requests of today (`assets/pages/admin/app.js:620`) | `getUserUsageStats` has no such column; it is always 0 | not modelled |
| the countdown ends with 获取验证码 (`assets/pages/auth/app.js:228`) | the interval is cleared before that text is written; the button is enabled under "1s" | `NeverEarly` |
| a refused passkey request is explained | its error is an object and is shown as `[object Object]` (`assets/pages/dashboard/app.js:35`) | not modelled |
| an identity belongs to one account | the GitHub upsert moves a link made meanwhile (`src/auth/oauth.js:142`) | `GitHubReachBounded` |

Three limits of properties that the code makes necessary are in their
definitions: `CopiesFresh` excepts the empty copy after a failed load,
`OutlivedBounded` excepts a late registration or rehash (`lapsed`), and
`GoogleReachesItsLink` excepts a linked account deleted under the callback
(`cut`), which signs in to a new account that is not linked.

## 7. Not modelled

* Values: token and password formats, hashing and encryption, arithmetic of
  points, prompt shaping, output language, page and mail text. No property
  depends on them beyond equality.
* HTTP itself and the providers: their outcome is a choice of the model. The
  identity and address an OAuth provider vouches for are inputs.
* A D1 *read* that throws ends a chat request with an error before it has
  written anything; `ChatGateway` has it only as the refusal of the step, not
  as an action of its own. Failing *writes* are modelled.
* Administration statistics, logs and listings, connectivity tests, the reset
  of a key counter, the revocation of a user's sessions by an administrator
  (for the session itself it is `RevokeAll` of `Sessions`), scripts: read only,
  or single-statement edits behind the CSRF check.
* Of the pages: markup, navigation, the lists of the administration other than
  keys and models (they load and redraw as `AdminConsole` has it), and the
  decoding of WebAuthn objects.
* Signature counters of passkeys and what WebAuthn verifies.
* Chat normalisation and output language: pure conversions of one request that
  no property of the models tells apart.

## 8. Plan

Done: gateway with quota, codes, sessions, caches, grants, routing, login,
moderation, OAuth; then contributions, account deletion against the ledger,
support tickets, the windows of the quota, and the pages.

Next, by importance:

1. Invocations of the gateway cancelled before their answer, and D1 reads that throw.
2. A composition of `UserPage` with `Sessions`: refresh tokens of the app
   beside the session of the pages.
3. `resetApiKeyUsage` against the key limit of `ChatGateway`.

Theorems next: the action properties of `AdminEdits` beyond `UntouchedKept` (what
a `Disable` may write), and, with a composition of `UserPage` and `Sessions`, that
the pages refine the handlers they call.
