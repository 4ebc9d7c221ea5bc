# Verification of ai-form-backend in TLA+

The models follow the Go sources in `src/`. `PROJECT.json` lists components, runs,
mutants, hazards and theorems, and maps every definition to the lines it stands for.

    tlc -workers 2 -config Credits_funds.cfg MCCredits      # a run
    tlapm Credits_proofs.tla                                # the proofs

## 1. The system

A Go (gin, gorm, PostgreSQL) backend of a form-filling plug-in: users sign in with mail
codes, buy quota buckets, confirm what one task may cost, and send AI requests that are
executed by upstream models and charged per call.

| component | state | operations | talks to |
|---|---|---|---|
| **Credits** (`credits/*.go`, `subscription/subscription.go`) | `user_subscriptions` (buckets), `credit_holds`, `capability_prices`, `credit_ledgers`, the funds columns of `ai_requests` | QuoteCapabilities, Confirm, CreateHold (legacy), ReleaseHold, AcceptCall/ReserveRequest, DebitReserved, ReleaseRequest, RefundPerCall, expiry jobs, AdminGrant, AdminAdjustSub | called by the gateway inside its transactions, by the task and admin handlers |
| **Gateway** (`ai/billing_v2.go`, `cancellation.go`, `failure.go`) | `ai_requests`, `ai_request_cancellations` | accept, take over, execute, store the result, settle, fail, cancel, query, recover, clean the cache | Credits for funds, Execution budget before every upstream call |
| **Execution budget** (`ai/execution_budget.go`) | `ai_execution_budgets`, `usage_details` of a request | start and finish of an attempt, ExtendExecutionBudget | hooks called by the upstream caller through the context |
| **Upstream caller** (`ai/upstream.go`) | `ai_upstreams`, breakers in memory | Call: order, cool-down, fail-over; create, update, delete of upstreams | the models; the execution budget before and after each attempt |
| **Payment orders** (`payment/epay.go`, `subscription.CompleteOrder`) | `payment_orders`, buckets of an order | CreateOrder, Notify, Return, CompleteOrder, ExpirePendingOrders | the payment provider |
| **Sessions** (`auth/auth.go`, `server.go`) | `users.status`, `email_codes`, `sso_codes`, `refresh_tokens` | IssueCode, Login, LoginPassword, Refresh, Logout, IssueSsoCode, ExchangeSsoCode, the ban | AssignTrial on the first sign-in |
| **Rate limiter** (`ratelimit/ratelimit.go`, `server.go`) | windows in memory | AllowAll, Allow, gc | called by the AI routes before the gateway, and by sign-in and write routes |
| **AI capabilities** (`ai/specs.go`, `types.go`, `interaction.go`, `task_agent.go`, ...) | none | Validate of a request, Post (the check of what the model answered), repair of an answer that fails | called by the gateway's `executeV2` between two upstream calls |
| HTTP server, administration, migration, mail, evaluation commands, web console | | routing, views, input and output | |

How they interact: a handler of the gateway runs a transaction that locks the user's row
(`model.LockUser`, `SELECT ... FOR UPDATE`), changes the request and its funds together,
and commits; the upstream call lies between transactions. A goroutine of `main.go` runs
once a minute: it expires holds, buckets and orders, cleans caches, and runs
`RecoverBillingV2`. Orders and sessions do not lock the user; they rely on guarded
UPDATEs (`WHERE status = ?`, `WHERE revoked_at IS NULL`).

Hard behaviours, each in `hazards` at its line:

- funds of several authorizations, legacy holds and requests in the same buckets, which
  end, are extended, revoked or refunded in the meantime;
- a lease that runs out while its holder is inside an upstream call: two executions, late
  results, a crash with an attempt whose outcome nobody knows;
- rows saved whole from an older copy; statements without a transaction; READ COMMITTED;
- callbacks, cancellations and extensions that are repeated, late, or overtaken;
- requests nobody comes back for, and payments whose answer is lost;
- counters that are reserved before and corrected after a call;
- breakers and windows in memory, read and marked by calls that overlap their changes;
- answers of a model that name nodes, values and skills at will, compared with what the request
  opens by checks that are written apart for single steps, row plans and tasks.

What makes each component correct:

- Credits: never promise a credit twice; charge what was confirmed, once; stay within an
  authorization; return at most what was taken; buckets agree with the ledger.
- Gateway: one execution at a time; charge once or release; nothing after the end; a
  cancelled request stays out; an unknown outcome is not run again; every accepted request ends.
- Execution budget: limits hold over concurrent requests; reservations are backed by
  attempts; an extension counts once; what an ended request used is frozen.
- Orders: a bucket exactly for a paid order; every payment is confirmed.
- Sessions: one live token for a session; one session for a code; what ended stays ended.
- Upstream caller: an upstream rests exactly after failures in a row of its own, and is passed
  over for nothing else.
- Rate limiter: limits hold; a refused request has used up nothing.
- AI capabilities: a stored answer stays within what its request opened; a hand-over opens
  nothing more; a plan contains only steps that would pass one by one; a request is left to its
  host only for the reason that was made for.

## 2. Modules

| module | models | lines |
|---|---|---|
| `Sums` | the sum of a table of amounts (`Totals`, the loops over rows) | 15 |
| `Credits` | Credits; one action per locked transaction | 554 |
| `RequestFunds` | abstract: what happens to the funds of one request | 39 |
| `Gateway` | one request and all processes that touch it; implements `RequestFunds` | 457 |
| `ExecutionBudget` | budget and attempts of one work | 305 |
| `Orders` | orders, callbacks, expiry, first-purchase bonus | 223 |
| `Sessions`, `SessionsLogout` | codes, refresh tokens, logout, ban; the second adds a history of logouts | 365 |
| `Limiter`, `Upstreams`, `Clock` | windows of the limiter; breakers and fail-over; the time both read | 237 |
| `Dispatch` | composes the two on the way of a request from its route to an upstream | 139 |
| `AgentStep`, `RowPlan`, `TaskStep` | what may be asked and answered: one step, a plan for a row, a tool call | 333 |
| `Capability` | composes the three with the loop of `executeV2` that has answers checked and repaired | 193 |
| `MC*` | constants and symmetry for TLC | |
| `Sums_proofs`, `Credits_proofs`, `Gateway_proofs`, `ExecutionBudget_proofs`, `Orders_proofs`, `Sessions_proofs`, `Dispatch_proofs`, `Capability_proofs` | theorems | 12473 |

**Credits.** Variables are the tables: `bucket`, `hold`, `price`, `request`, the ledger's
debits and refunds, `now`. One user: no transaction touches rows of two users, and the
lock makes those of one user serial, so each is one action; the header argues why the three
operations that take no lock are atomic too. Amounts by bucket (JSON lists in the code)
are functions on `Buckets`; the order in which `allocate` takes them (ends_at, id) is
`Before`, and `InOrder` is the greedy allocation stated declaratively: a bucket gives what
it can once those before it are used up. A transaction that fails changes nothing and is
no step. AdminGrant also stands for buckets inserted by CompleteOrder and AssignTrial,
which take no lock: an inserted bucket only adds room. `starts_at` (always the time of
insertion) and the version-1 `Charge` are left out; `main.go` switches billing v2 on,
after which no route reaches the latter.

**Gateway.** `row` is the request, `pc`/`mine`/`cause` are the handlers and the recovery
job. LeaseToken is a fresh uuid, so the number of the execution stands for it. Deadlines
are flags (`due`) that time sets. A transaction whose commit may write back a whole row
that is still pending is two steps under the lock, because `executeV2`'s
UPDATE of the result takes no lock and may fall in between; the others are one step, since
only lock holders write what they read. Credits are summarised by `reserved`, `charges`
and `revoked` (settlement impossible because a bucket was revoked); the execution budget
by MaxCalls and the `started` flag.

**RequestFunds** is what billing promises for a request: opened with funds, then charged
in full once or released, then nothing. `ImplementsFunds` maps Gateway's row to it.

**ExecutionBudget.** `Start` and `Finish` are the transactions around a call; what the
upstream reports (`Outcomes`: sent or not, usage known or not, up to `Overrun` above the
reserve, and as much above the allowed wait, which is measured for a call that was stopped
before it was sent too) is chosen freely. The lease may be lost at any time: that it is lost rightly is
Gateway's matter. `applied` keeps the ids of extensions with the revision they were made at.

**Orders.** Callbacks run at READ COMMITTED: `Arrive` reads the order, `Flip` is the
guarded UPDATE with the count of earlier base orders, `Commit`/`Fail` end the transaction,
`Answer` is the reply. A row updated but not committed is `Locked`. The browser's return is
a callback whose answer is lost. `BonusPlan` says whether a plan of kind bonus exists
(SeedDefaults makes one in an empty table; without one CompleteOrder logs a warning and grants none). The kind of
an order stands for that of its plan, which CompleteOrder reads again: an administrator who
changes the kind of a plan (`adminUpdatePlan`) while it has orders is not modelled. The amount
check compares constants of one order; callbacks here have passed it.

**AgentStep, RowPlan, TaskStep, Capability.** The verdict of each `validate...Output` is an
operator on a request and an answer, both records of the fields the check looks at; a field
that says nothing is `None`, whether it is absent or empty; because version 0, version 1 and row
plans judge the keys of an action differently, its sets `blank` and `null` hold the keys that were
sent all the same (`Sent`). Node ids, value references and skills are members of small sets, a hint
is its length, an argument the type it decodes as, and `echoed` stands for the versions and
ids that must be repeated and the explanation that must be there. `<Kind>Requests` and
`<Kind>Answers` are constants: what a host may send (the action `Submit` takes those that
Validate accepts) and what a model may answer. One action of `Capability` is one
upstream call with what is decided about its answer; the hand-over, the protocol version and
the recovery version are fields of the request. What surrounds the loop is Gateway: there
the model's answer is a result or a failure, here nothing else happens to the request.

**Sessions.** One user; one step per SQL statement, because only IssueCode's write and the
sign-up are transactions. A family is named after its first token. `opened` is a history
variable. A handler may present any token that exists, as clients do that lost an answer or
kept an old token. A request for a sign-on code is two steps, because `authRequired` reads the
status before the code is stored; a ban is two as well, `bans` counts the administrators between
them, and others may lift the ban meanwhile. `replaced_by` is never read and left out. Access tokens are stateless;
password change, roles and the trial bucket do not affect these properties and are left out.

**Limiter, Upstreams, Dispatch.** `AllowAll` is one step, as it is under one lock, with a
time that was read up to `Lag` ticks before. `Call` is one step for each hold of the breakers'
lock: the look (`Skip`, `Send`) and the mark (`Answered`, `Failed`), with the upstream in
between; `Abandoned` is every return without a mark. Which rules apply (a paid base, an included
capability) is chosen freely, because subscriptions and prices belong to Credits. Between
the two lies the gateway: an admitted request calls or leaves. The second call
`executeV2` makes for an output that is not valid is one more request here. `passed`,
`failures` and `lastFailed` are history. Options of an upstream are valid: the administration
stores no others.

## 3. Runs

| run | question | bounds |
|---|---|---|
| `Credits_funds` | are credits ever promised twice, an accepted call unpayable, a task above its authorization or with two open holds; do legacy holds stay covered? | 2 tasks, 2 holds (v2 or legacy), 2 requests, 2 buckets (one granted later, ends, may be revoked), clock 0..2 |
| `Credits_refunds` | do partial and repeated refunds agree with debits and buckets, and is the charge the confirmed price while prices and modes change? | 1 request over 2 buckets, 3 refunds, room for a bonus bucket, an extension, 2 versions of a price, clock 0..3 |
| `Gateway_request` | safety of a request, that it implements RequestFunds, and does every accepted request end? | 2 handlers, queries and recovery, 2 executions, 2 calls, 1 crash |
| `Gateway_lost_result` | violation: a stored result disappears | 2 handlers |
| `ExecutionBudget_work` | limits, reservations, extensions, cancellation | 2 requests in 2 groups, 2 executions, 2 extensions, overrun 1 |
| `Orders_callbacks` | safety, and every payment is confirmed | 2 orders, 2 callbacks at a time, 2 failures |
| `Orders_late_callback` | violation: answered "success", not paid | 2 orders, 2 callbacks |
| `Orders_two_bonuses` | violation: two first-purchase bonuses | 2 orders, 2 callbacks |
| `Sessions_safety` | tokens, codes, leaks, bans | 2 handlers, 2 token rows, 2 codes (2 mail codes and a sign-on code to choose from, `FewCodes`), 2 bans under way |
| `Sessions_logout` | violation: a live token after a logout | 2 handlers, 2 token rows |
| `Dispatch_calls` | do limits hold, are refusals right, does an upstream rest exactly when it should, is it passed over for its own failures only? | 2 users at one address, 2 handlers, 2 upstreams, clock 0..4, 3 requests judged, calls or changes of the table together |
| `Capability_answers` | is what is stored within what was opened, with and without a hand-over; do plans agree with single steps; is a step left to the host only for a read-only control? | 2 nodes in every role, a value with two parts, slices below, at and above what was shown of them, 2 goals in a row, 2 tools |

Why the bounds are enough to show something: every hazard needs two actors on one row and,
for funds, two buckets in which one ends or is revoked; in Gateway two
handlers, recovery and a query race, and the theorems cover any number of them. The families
of `MCCapability` vary one role of a node and one parameter of an action at a time, with
values the request opens and values it does not: a request fails or passes each conjunct of the check. Bounds that are not in the code are named in the CONSTANTS of each
module: `MaxNow`, `MaxVersion`, `Revocable` and an extension only while a bucket's end is
within the clock (Credits), `MaxCrashes` (Gateway), `MaxRecord` (calls that were never sent
are not counted, so nothing else bounds the record), `MaxFailures` (Orders), `MaxBans` and
the numbers of rows (Sessions), `MaxWork` (Dispatch; one budget for what loads the limiter and what loads the
caller, which meet in a handler and in the clock only) and `Lag`. Durations are one to three ticks: only their order matters. In Sessions
the grace period is zero ticks, that is, "within the tick". Symmetry is used for identities
nothing compares, and in no run with a liveness property; in ExecutionBudget requests are
permuted together with their groups. Deadlock is not checked where the bounds or
the end of all work stop the system.

Each property has a mutant of the code in the module it is about (the operator beside the
definition it replaces, marked `mutant:`): with it the property fails under the run's own cfg.

### What the runs show

The safety properties hold, with four disagreements between code and its comments or tests:

1. `Gateway_lost_result`: a take-over or a failure that read the row as pending saves it
   whole over a result stored meanwhile by `executeV2` without the lock. The result is lost
   and the model is called again. Charging is unaffected (`ChargedOnce` holds).
2. `Orders_late_callback`: the expiry job commits between the read and the UPDATE of a
   callback; the UPDATE guarded by the old status matches no row, which is taken for
   "another callback did it", and the provider is told "success" for an order that is not paid.
   The live run still shows every payment *confirmed*: the point is that it is not *paid*.
3. `Orders_two_bonuses`: two base orders completed concurrently do not see each other.
4. `Sessions_logout`: a refresh revokes and inserts in two statements; a logout between them
   misses the new token.

Seen in the code while modelling, without a run:

- the header of `ai/upstream.go` (line 4) sends 401 and 403 to the next upstream; under an
  execution budget, as in all of billing v2, they end the call (`upstream.go:327`) and mark nothing;
- a cool-down ends early when a call that began before it goes well (`markOK` deletes the
  breaker), and late failures of such calls count towards the next one: `CoolingIsDeserved`
  says what holds;
- an upstream created with `enabled: false` is enabled: gorm writes the column's default for
  false on Create;
- signing in with a password chains two `Allow` calls, which the comment at `ratelimit.go:40`
  warns of;
- `agent_step.yaml` tells the model to send `contextRequest` with need-context only; the check
  lets it pass, unread, with done, need-user and blocked (`specs.go:127`);
- under protocol version 0 a `click` may carry a `valueRef` that nothing checks, and it is left
  to the host to ignore it: `AnswerIsGrounded` speaks of the values an action uses.

### Fairness

`Gateway` (in `FairSpec`): strong fairness of each process's own steps (a goroutine runs on, and waiters for
the row lock of the user are served in turn), weak fairness of the recovery job (a
ticker of one minute) and of the deadlines (time passes). Nothing makes clients come back, and
crashes are bounded. `Orders`: weak fairness of running handlers; strong fairness of the
arrival of a callback for an unconfirmed payment, because the provider repeats it until it
reads "success". The other modules state no liveness: their operations are started by clients.

## 4. Proofs

### Credits

For all buckets, holds, requests, prices and bounds that satisfy the ASSUMEs of `Credits`
(finite sets of rows, natural amounts and durations, initial buckets well formed):

- `TypeCorrect`: `Spec => []TypeOK`; amounts never go below zero.
- `NeverOvercommitted`: `Spec => []NoOvercommit`. `NoOvercommit` is not inductive by
  itself: a new bucket must not already have reservations, so `FundsInv` adds
  `UncreatedIsEmpty` (nobody reserves in a row that does not exist) and the types. Every step
  is one of: nobody reserves more and the bucket pays no more (`NothingMoreReserved`), funds
  move from one hold to one request or back (`FundsMoved`), or Confirm takes what
  `allocate` found free (`ConfirmFits`).
- `AlwaysChargedExactly`: `Spec => []ChargedExactly`, from `ChargesInv`: what a request
  reserves is the price quoted in its hold, and quotes never change (`QuotesKept`).

The second part of `Credits_proofs` is about the open hold of a task. Every step leaves a hold as it is but
for its funds, leaves it not open, or opens it as the only one of its task and within its
maximum (`HoldRows`); every transaction on a request is one of five moves (`RequestRows`).

- `OneAuthorization`: `Spec => []OneOpenHoldPerTask`, from `HoldRows` alone.
- `AlwaysPayable`: `Spec => []AcceptedIsPayable`, from `NoOvercommit` and `AllBacked`: an
  accepted request holds its unit price, from a hold of its task.
- `NeverBeyondMaximum`: `Spec => []WithinAuthorization`. What a request takes out of the
  authorization of its task it adds to the task's in-flight total, and back (`TaskTotals`);
  `OneAuthorization` is needed so that no other authorization of the task counts it too.
- `SpentStaysSpent`: `Spec => SpendingIsFinal`.

The third part is about the ledger.

- `UsedIsInTheLedger`: `Spec => []UsedMatchesLedger`. Only a debit and a refund write
  amounts (`LedgerKinds`), and each changes both sides alike.
- `NeverRefundedBeyond`: `Spec => []RefundedWithinDebit`. By itself this is not inductive:
  what a refund skips is computed from the total returned so far, not from the rows. The
  invariant `InLedgerOrder` says that the refunds of a request together are the greedy take of
  their total; that such a take is unique (`GreedyUnique`) makes what is skipped what was given
  back, and that it grows with the amount (`GreedyGrows`) makes every share what is new.

The last two parts relate the new policy to the legacy one, and to `RequestFunds`.

- `LegacyFreezeKept`: `Spec => LegacyStaysCovered`, while no bucket ends or comes to life.
  Legacy holds freeze an estimate that no bucket records, so nothing but arithmetic protects
  it. The proof follows, bucket by bucket, what a step does to the headroom (`HeadroomKept`): a
  step of a request moves funds between a hold and a request or frees them, so that only
  `Confirm` takes headroom, and `Confirm` takes it from what `allocate` leaves after the freeze
  (`ConfirmCovered`). On the other side only `CreateHold` freezes more, and it compares the
  whole freeze with what is free (`CreateHoldCovered`). For all other steps, no bucket has less
  free (`NothingLessFree`) and no more is frozen (`NothingMoreFrozen`).
- `FundsOfEachRequest`: for every request `r`, `Spec => Funds(r)!Spec`, where `Funds(r)` is
  `RequestFunds` with the phase, the reservation and the debits of `r`. It is the same abstract
  machine that Gateway implements (`FundsPromiseKept`): there it is implemented over
  interleaved processes with credits reduced to a number, here over buckets with requests
  reduced to transactions. A step that is not about `r` leaves its row and its debits alone
  (`FundsUntouched`); one that is opens it, charges what was reserved (`ChargedExactly` is what
  makes the debit equal the reservation) or releases it.

`Sums_proofs` proves what is used of `Sum`: its type, monotonicity, and its change when one or
two entries change. `Sum` counts pairs (index, unit) instead of folding, so that
these facts follow from the library's theorems on cardinalities; an inductive definition could
not be reasoned about without instantiating an induction theorem.

### Gateway

For any set of handlers and any bounds (`BoundsAssumption`: the recovery job and
the free lock are none of the handlers, at least one execution). None of the properties is
inductive by itself: that a second handler does not enter a call depends on what every other
process still holds in its copy. `IInv` adds to `TypeOK` and `ChargedOnce`

- `Copies`: under the lock, a copy of a new or pending row is the row, or what it was before
  a result was stored without the lock;
- `OnlyPendingFails`: a failure under way is of a row that was pending when it was read;
- `OwnExecutions`: executions under way have numbers of their own, up to the row's;
- `CallIsRecorded`: a handler inside a call is the row's execution and its attempt is open;
- `NewIsEmpty` and `PromisesKept`: before acceptance nothing was done, and a confirmed
  cancellation of a request nobody knew holds from then on.

One lemma per action proves both that `IInv` is kept and how the row moves: not at all, or by
`Accepts`, `Works`, `Ends` or `Forgets` (`StepFacts`). The action properties `EndsAreFinal` and
`UnknownIsNeverRerun` and the refinement `FundsPromiseKept` (a step of the row is a step of
`RequestFunds` or a stutter) follow from these five moves, the invariants from `IInv`. So does
`SettledResultIsKept`: only `Forgets` takes the result of a request that has ended, and only
after its 24 hours; what `Gateway_lost_result` shows to be lost is never a settled result.
`AcceptedEnds` is liveness and stays with TLC.

### Capability

For all requests and answers: `RequestsAssumption` only says that requests are records of
their fields. `IInv` says that the request was valid when it was run and
what verdict the stored answer had. The theorems are then about the verdicts:

- `AnswersGrounded`: `StepIsGrounded`, `PlanIsGrounded` and `TaskIsGrounded`. The hint of a
  slice needs `DisclosedIsShown`: the last part that stands for a value exists, because ids and
  references are unique (`InteractionValid`).
- `HandoffNarrows`: the check reads the hand-over in two places; without it each accepts
  at least as much (`AlikeAcceptTheSame`, `HandoffOpensNothing`).
- `PlansAreSteps`: parameters of a row action are parameters of a step, and the nodes of a goal
  are allowed and projected (`RowParametersGiven`, `PlanStepIsStep`).
- `NotApplicableValid`: the read-only check is the last, so that without read-only nodes the
  same answer passes (`OnlyReadOnlyStands`).

### Sessions

For any handlers, tokens and codes (`SessionsAssumption`: finitely many handlers; codes of the
two kinds differ, and a password is not a code). A handler acts on what it read
several statements ago, so the invariant is about what such a reading is still worth:

- `TokenInv`: tokens and families that handlers hold exist; among the live tokens and the
  refreshes about to insert there is one of a family. Every step does one of six things to
  tokens (`TokenMoves`: rest, revoke, present, rotate, insert, enter), and only `Insert` and
  `Enter` make one live. `TokensUnique` and `EndedStaysEnded` follow.
- `CodeInv`: a handler past the guarded UPDATE is the only one that enters with
  its code, which is used by then and has opened nothing. `CodesOpenOnce` follows.
- `GuessesBounded`: attempts counted plus handlers about to count one stay within
  `CodeMaxAttempts` plus the other handlers. `TypeOK` bounds the attempts only, which is not
  inductive: whoever read the code before the last attempt still counts his.
- `BannedGainNothing`: `Spec => BannedGainsNothing`. A ban does not end what is past the check of
  the status when it commits: a sign-in before its INSERT, a refresh between its statements
  (`PastCheck`). The property says that nothing is added to these and the live tokens while the
  ban lasts: every step takes from the two sets, or trades an element of one for an element of the
  other (`BannedStep`, `Dwindles`), so that their sizes together do not grow (`DwindlingCounts`).
- `LogoutEndsUnlessRefreshing`: a logout or a leak leaves its session open only if a refresh of
  it is between its two statements. With `EndedStaysEnded` this is the exact extent of what
  `Sessions_logout` shows.

### Orders

For any sets of orders and callbacks, and any number of failures.

- `BucketIssuedOnce`: `Spec => []BucketPerPaidOrder`. Between the UPDATE of a callback and its
  commit the order looks unpaid to everyone else, so the invariant says what the row lock is
  worth (`HoldsLock`): the order is unpaid, no other callback is past its UPDATE, and what
  the commit will grant is still to come (`Issued`).
- `FirstIsRewarded`: `Spec => []FirstPurchaseRewarded`: a callback that counted an earlier base
  order saw one that is paid; while none is, whoever commits first gives the bonus.

Most steps write no order as paid and issue nothing (`UnpaidStep`); what is left are `LockStep`
and `CommitStep`.

Two more theorems say how far the two findings about orders reach.

- `ConfirmedInTimeIsPaid`: an order the provider has seen answered "success" is paid, or it was
  older than `pendingOrderTTL` when the job expired it. `Known` follows an order from its
  creation to its payment: while its cashier link is being made it is pending and young, so
  that one with a link can only be expired by age; `Carries` says what a callback's reading is
  worth.
- `OneBonusOneByOne`: `BonusOnce` holds when callbacks come one at a time (its hypothesis is that
  there is one handler): between its count and its commit nobody else pays (`OnlyCommitPays`,
  `FlippedOnce`).

### Execution budget

For any requests, groups, executions and extensions, whatever upstreams report
(`BudgetAssumption`; requests start with execution 1). The budget is one row of totals, the
attempts they count are spread over the records of the requests. `WorkInv` says that every total
is the sum over all attempts of what each stands for; the lemmas say how such a sum moves when an
attempt is added (`TotalAdded`, `CountAdded`) or changed (`TotalChanged`, `CountChanged`), and
every step writes the row alike (`StartWrites`, `FinishWrites`, `ExtendWrites`). It needs
`StartedUnused`: an attempt without outcome keeps all it reserved. Then

- `TypeCorrect`: nothing counted or reserved falls below zero;
- `EveryCallCounted`, `EveryReservationBacked`: `CallsCounted`, `ReservationsBacked`;
- `NeverBeyondBudget`: `SpendingWithinLimits`; what a finish writes beyond its reserve is covered
  by what that call adds to the overruns;
- `ExtensionsOnce`: `ExtendedOnce`, from `ExtendInv`: applied revisions are older than the
  budget's;
- `EndedRecordsFinal`: `EndedUsageIsFinal`: `Finish` writes only for the holder of the lease, so
  that an execution that lost it changes neither a record nor the budget.

### Dispatch

For any users, keys, limits, windows, handlers, upstreams and cool-downs. The assumptions:
limits, windows, the cool-down and the failures it takes are positive; windows are no longer than
`gc` keeps an entry; the four keys of a user differ (they have different prefixes). The bounds of
the runs (`MaxWork`, `MaxNow`) are arbitrary.

- `LimitsHold`: `Spec => []LimitHolds`. The code only has the start and the count of one window;
  `KeyFits` says what that is worth about the whole history: the history is in order
  (`InTime`), its last requests are those the entry counts (`CountedLast`), what is more than a
  limit older than those is a window older than the first of them (`OlderApart`), and so
  requests two limits apart are a window apart (`Spread`), but for the `Lag` by which a clock was
  read early. A new window, one more request and `gc` each keep the four parts.
- `NeverRefusedWrongly`: `Spec => RefusedRightly`: a refusal sees a full count, whose requests are in
  the window by `CountedLast`; that `AllowAll` counts nothing when one of its rules refuses
  needs its keys to be different.
- `CoolingsDeserved`: `Spec => []CoolingIsDeserved`: failures since the last success make a whole
  number of rounds of `CoolAfterFails` and a rest, which is the count of the breaker
  (`Rounds`); it cools from the end of the last round.
- `PassedOverForFailures`: `Spec => []PassedOverRightly`: the rest of a call's list is a suffix of
  what it listed, and all before it failed during the call or within the cool-down before
  (`CallFits`); other calls only make a last failure later. That `List` sees finitely many
  rows (`FewEnabled`) is what makes the sorted list exist.

`Invariance` states that the conjunction of these parts with the types, `IInv`, is invariant.

### Only model-checked

The liveness properties `AcceptedEnds` and `PaymentConfirmed`: they rest on fairness, which the
prover cannot reason about. `LogoutEndsSession`, `ConfirmedIsPaid`, `BonusOnce` and
`StoredResultIsKept`, which the code violates, are refuted by TLC; the theorems next to them say
under what condition they hold. Everything else a passing run checks is stated by a theorem.

## 5. Not modelled

- The other AI capabilities (`compile_adapter`, `compile_input`, `match_columns`, field
  mapping, visual grounding): they parse a document, filter what the model invented, and keep no
  state; what matters in them is the shape of JSON and of regular expressions.
- Of the three that are modelled: lengths and counts, the history and the page itself,
  observations of values, and duplicate or oddly spelled JSON keys.
- The version-1 handler of `gateway.go`: no route reaches it once billing v2 is on.
- `RecoverBillingV2` takes 200 rows without ORDER BY: Gateway follows one request, so
  starvation among rows is not seen.
- Two mail codes sent by simultaneous IssueCode calls are both live: the steps are in `Sessions`,
  no property is about it yet.
- The chained `Allow` calls of a sign-in by password: a property of the chain would fail by the
  shape of the code, as the comment at `ratelimit.go:40` explains.
- Schema and the one-time migration of `db.go`: statements that run once, before anything else;
  the unique indexes they create are guards of the actions that rely on them.
- Plan administration (so a plan keeps its kind and a bonus plan exists throughout or
  never, see Orders), the list of users, views, mail, configuration, evaluation commands, web
  console, prompts: input and output.

## 6. Plan

1. (done) `Credits`, `Gateway` with `RequestFunds`, `ExecutionBudget`, `Orders`, `Sessions`;
   theorems on `Credits`.
2. (done) `Upstreams` and `Limiter`, composed by `Dispatch`.
3. (done) `AgentStep`, `RowPlan` and `TaskStep`, composed by `Capability`; theorems on
   `Capability`, `Gateway`, `Sessions`, `Orders` and `ExecutionBudget`.
4. (done) Theorems: every safety property of the passing runs, the refinement of `RequestFunds` by
   `Gateway` and by `Credits`, and the extent of the four findings.
5. `RecoverBillingV2` over several requests, and visual grounding as a fourth capability.
