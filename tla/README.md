# Payments, delivery, sessions and offline work of the BThwani suite, in TLA+

The suite is a delivery marketplace: Go services, each with its own PostgreSQL database, and
React Native and Next.js applications in front of them. The project models the parts of it that
have to keep a promise across a boundary:

- **DSH** (`services/dsh/backend`) owns carts, checkout intents, orders, dispatch and partners.
  It never owns money.
- **WLT** (`services/wlt/backend`) owns payment sessions, the double-entry ledger, refunds,
  cash-on-delivery (COD) reservations, payouts and settlements.
- **Identity** (`core/identity`) owns sessions and rotating refresh tokens; every application
  carries its client store.
- **The field application** (`services/dsh/frontend`) keeps the work of an agent who is offline
  on the device and delivers it later.

The services call each other over HTTP and share no transaction. What must happen on both sides
is carried by a durable row in one database (an outbox or a saga), a worker that leases it,
calls the other side outside any transaction, and records the answer in a second transaction.
The clients do the same with one storage entry and no lock. The modules are about that
machinery: leases lapse, answers are lost, requests are executed after their caller gave up,
processes stop between two writes, a payment provider has the last word about money, and two
asynchronous functions write what each of them read.

All backend workers run inside the API processes (`dsh-api/main.go:119-149`,
`wlt-api/main.go:74-78`) on tickers of 15 seconds, and several replicas may run. Every call they
make has a timeout of about 10 seconds; every lease lasts 2 minutes.

## Contents

| File | What it is |
|---|---|
| `WltSession` | statuses of a payment session, shared by the modules that meet one |
| `CheckoutFinanceOutbox` | DSH's checkout financial closure outbox, and what WLT does with it; implements `FencedRow` and `ReleaseDuty` |
| `FencedRow` | abstract: what a lease with a fencing token gives one row |
| `ReleaseDuty` | abstract: what the row that releases a COD reservation may do, and when |
| `PaymentOutcome` | abstract: what WLT promises DSH about one session |
| `SessionCourse` | abstract: how the status of a provider-paid session may move |
| `OrderCustody` | abstract: in whose hands an order is |
| `PaymentSession` | one provider-paid session in WLT; implements `PaymentOutcome` and `SessionCourse` |
| `CheckoutPayment` | one checkout intent, its saga, its session and the outcome event; its session implements `PaymentOutcome` |
| `CodDispatch` | one COD order: offers, acceptance, delivery, cancellation, reservation, completion; implements `OrderCustody` and `ReleaseDuty` |
| `FieldOfflineQueue` | the offline queue of the field application and the receipts of the service |
| `IdentitySession` | the session store of the applications and the sessions of the identity service |
| `*Proofs` | theorems about the module they are named for; `CheckoutFinanceOutboxClosureProofs` and `PaymentSessionClaimProofs` are second parts |
| `MC*` | model values and symmetry sets for TLC |
| `*.cfg` | one file per run |
| `PROJECT.json` | components, runs, mutants, source map, findings, hazards, theorems |

Operators whose comment says "mutant" are plausible mistakes in the definition below them. No
specification uses them: each replaces its original once, to see that the property listed with
it in `PROJECT.json` notices.

## The system, part by part

Status and source files of every component are in `PROJECT.json`. This is what each one keeps,
does, and has to get right.

### Modelled

**Checkout finance outbox** (`dsh: checkoutfinanceoutbox`). *State*: rows of
`dsh_checkout_financial_closure_outbox`, unique per payment session and event type
(`expire_session`, `cancel_for_order`, `release_cod_reservation`), with status, delivery and
readback counters, failure disposition, lease token and expiry. *Operations*: enqueue from
checkout, cancellation and dispatch transactions; claim a batch; dispatch; read WLT back; five
marks; an operator's retry and requeue. *Interacts* with WLT's expire, cancel-for-order and COD
release handlers, and writes `dsh_orders.financial_closure_status`. *Hard*: a batch of 20 calls
outlives its lease; unknown outcomes; late execution. *Correct* when a token fences every write,
a sent row tells the truth for good, captured money of a cancelled order is refunded and no
other, budgets end, and every row is settled.

**Payment sessions** (`wlt: payment`). *State*: `wlt_payment_sessions.status`, receipts per
idempotency key, reconciliation cases, provider events, the capture posting, the event to DSH.
*Operations*: governed authorize and capture (receipt, claim, provider call, finalization or
recovery), webhook, status refresh, operator resolution, expiry. *Interacts* with the payment
provider and the DSH outbox. *Hard*: the call is outside any transaction, and events, refreshes,
operators and expiry move the session meanwhile. *Correct* when a session is decided once, the
decision is true, told and booked, money is asked for once, and no ambiguity is silent.

**Checkout payment saga** (`dsh: checkoutpaymentsaga`) and **checkout intent** (`dsh:
checkout`). *State*: the intent (state, version, session), the saga (state, source version,
attempts, session) and its outbox row. *Operations*: create and its replay, refresh, validate,
block, cancel, attach, payment event; start, activate, claim, dispatch, complete, retry, fail.
*Interacts* with WLT's creation and read of a session, and with WLT's outcome event. *Hard*: a
request, its replay, an operator and a worker dispatch the same saga; the marks carry no token;
saga and row are two writes; the client edits and cancels meanwhile. *Correct* when a complete
handoff is an attached session, a confirmed intent is a captured session, no session of a
cancelled intent is forgotten, and a saga cut off anywhere settles.

**WLT's DSH outbox** (`wlt: dshoutbox`). *State*: a row per event. *Operations*: enqueue in the
deciding transaction, claim, deliver, mark sent or failed, requeue. *Hard*: marks without
fencing, counted from the attempt that was claimed. *Correct* when an event counted as delivered
has been applied.

**Dispatch, orders and cancellation** (`dsh: dispatch`, `orders`). *State*: the order's status,
assignment and delivery rows, the accept receipts, the cancellation case. *Operations*: offer,
accept (read, reserve at WLT, accept, release on refusal), decline, deadline, withdrawal,
reassignment, arrival, store handoff, pickup, delivery; case, decision and execution of a
cancellation. *Interacts* with WLT's reservations inside the accept handler, and through the
closure outbox. *Hard*: the wallet is reserved before the offer is taken; the decisions of a
cancellation are three transactions. *Correct* when an order has one captain exactly while it is
on its way, and that captain's wallet covers it.

**COD reservations** (`wlt: cod`) and **WLT outbox** (`dsh: wltoutbox`). *State*: one
reservation row per order, the completion row, the commission. *Operations*: reserve with its
replay, release, finalize; claim, deliver in two calls, read back, mark, retry. *Hard*: one row
serves every captain the order was ever offered to; marks without a token. *Correct* when the
wallet debited is that of the captain who delivered, and a completion called sent was carried
out.

**Field offline queue** (`frontend: field-readiness`). *State*: per actor a queue entry, an
archive of corrupt entries and a quarantine; the module's scope; the runs of the hook; the
receipts of the service. *Operations*: enqueue (a screen whose request got no answer), drain
with reconciliation and marks, purge, evacuation, recovery, login, detachment. *Interacts* with
the mutation endpoints and their receipts. *Hard*: every change reads the entry, awaits, and
writes all of it; the scope may have changed meanwhile. *Correct* when saved work is performed
or is still somewhere, an operation of unknown result is looked up before it is sent, and what
the queue of an agent calls synced was performed for that agent.

**Session store and identity sessions** (`core: identity`). *State*: the pair in memory, the
pair on disk, what is shown, the asynchronous calls under way; session rows. *Operations*:
bootstrap with restore, refresh, sign-in, logout, revocation, deletion; create, resolve, rotate
with its concurrency window and replay detection, revoke. *Hard*: each call commits its own
answer over whatever the store has become. *Correct* when what is shown was accepted by the
service, renewal never looks like theft, outages cost nobody a session, and no state is a dead
end.

### Not modelled, and why

| Component | What it is | Why not |
|---|---|---|
| `wlt: ledger` | balanced postings, idempotent by reference | one transaction each, whose balance the database checks; which postings are asked for is in the modules of the callers |
| `wlt: refund`, `payout`, `settlement` | provider calls outside transactions, batches | each is a system of the size of `PaymentSession`, with its own questions |
| `dsh: specialrequests` | a second payment saga | the shape of the checkout saga, other states |
| other outboxes of DSH, `workforce` outbox and penalty saga | claim, call, mark | protocols close to the two outboxes that are modelled, with other payloads |
| carts, coupons, addresses, areas, policies | what a checkout consults | one-transaction reads; a choice between ready and blocked in `CheckoutPayment` |
| catalogue, stores, partners, marketing, support, notifications, analytics, platform control, provider credentials | versioned records | one handler each, optimistic versions, no protocol |
| partner delivery, fleet, pickup | fulfilment without a captain | not reached |
| frontends, contracts, tooling | screens, generated clients, scripts | they decide no state, apart from the queue and the session store above |

Most of the repository's lines are of the last kinds: TypeScript that renders screens and
generated API contracts. The source map covers a small part of all lines for that reason,
although it covers the control of the parts it names.

## How the modules read the code

Each module's `map` entry names the lines of every definition.

### `CheckoutFinanceOutbox`

A row is a record per (session, event type). `Claim` is `ClaimBatch`: any nonempty subset of the
due rows up to `BatchSize` (retry times and `SKIP LOCKED` may leave any of them), each under a
fresh token, or reclaimed when its lease has lapsed. A job keeps what the worker read when it
claimed; `Dispatch`, `ConfirmExpiry` and `Reconcile` are the calls of `ProcessOnce`; the marks
are `Record` with the row they write, all of them no-ops unless `Holds`, the `WHERE lease_token`
of `markLeaseTransition`. `late` holds mutations whose caller gave up: `LateMutation` executes
one, `LostMutation` drops it. `Journey` is the environment: a checkout is abandoned, ordered,
cancelled, delivered, and WLT moves the session along the provider's transitions. Clocks are not
numbers: a lease lapses by an action, charged to `MaxFaults` when a live worker holds it.

`FencedRow` is the protocol of one row with everything else forgotten: who believes that the row
is his, whose write will count, and a content that may be anything. `Fence(e)` maps row `e` to
it: believers are the workers with a job of the row, the owner is the one whose job carries the
row's token, and the content is what the row records of its delivery. `ReleaseDuty` is the
release row of one order and the reservation it acts on; a row whose worker has been told that
nothing is reserved is `answered`, which is not yet `sent`.

### `PaymentSession`

A request is an operation and an idempotency key. `Begin` is the receipt, `Claim` is
`claimSession`, `Execute` the provider, `Finalize`, `Decline` and `Recover` the three ways a
handler ends, and `Finish` classifies the receipt from the session it reads again. `Lose` is an
ambiguous answer or a failed finalization; `Crash` a restart. `Webhook` and the two halves of a
refresh share `Apply`, which is `ApplyAuthoritativeProviderEvent` with its legality table, its
terminal and its case resolution. `Resolve` is the operator, `Expire` is DSH's expiry or
cancellation. The provider (`rail`) is external: its status only moves forward, it sends an
event for each status and repeats it until accepted, and it may execute a lost request late. An
operator confirms what the provider's records say.

`PaymentOutcome` is the contract in three variables: the outcome, whether it is booked, what DSH
was told. `PaymentSession` refines it by the mapping written there as `Outcome`, and checks
`DecidedOnce`, which is `Outcome!Spec`. `SessionCourse` is the status alone and the moves that
other modules take it to make; its `ProviderStep` is the one `CheckoutFinanceOutbox` moves its
sessions by (`StatusFollowsCourse`).

### `CheckoutPayment`

One intent, one saga, one session; intents share no state. A caller goes through the stages of a
request (`Create` or `Resume`, the quote, `Start`, `Activate`, `Claim`) and then of `Dispatch`;
a worker starts at `Claim`. Every statement that commits by itself is an action of its own, so
another actor can run between the saga write and the outbox write of `markComplete`,
`scheduleRetry` and `fail`. The session is what `PaymentOutcome` promises (`SessionAsPromised`):
it is open until `Decide`, which enqueues the event in the same step. Couriers are runs of WLT's
outbox worker; `Deliver` is `ApplyWltPaymentEventTx`. `Abandon` cuts a handler off anywhere,
`LeaseLapses` and `NoticeLapses` are free when nobody holds the lease and charged to `MaxFaults`
otherwise.

### `CodDispatch`

One order, from the moment the store has it ready. An accept handler is four steps, as in the
code: `AcceptRead` (the order's context, which decides whether cash is due),
`ReserveCodCapacity` at WLT, `Accept` (one transaction) and, after a refusal, the read of the
assignment and the queueing of a release. A failed read of the context lets the offer be taken
as if it were prepaid; such offers are remembered in `blind`. `CancelOrderSync` is
`CreateCancellationCase`, `CreateCancellationAction` and `ExecuteCancellationAction`, with the
order moving in between. The release row of `CheckoutFinanceOutbox` appears as `ReleaseDuty` has
it, because its life is the business of that module: unique per order, delivered any number of
times and at any time from its queueing on (after the row is closed, too) to whatever
reservation the order then has. The completion row has its workers: `Claim`
takes pending, unknown and expired rows, the two WLT calls are separate, a readback needs both
to be there, and marks overwrite each other.

Left out here: `driver_arrived_customer` (merged into picked up), the return of an order to its
store, delivery exceptions and special requests; the release row of a reservation request that
arrives after its handler has ended; the fifteen attempts after which `MarkFailed` gives up for
good. Capacity, eligibility and readiness refusals are choices. The delivery fee is positive, so
a commission is always due. A mixed order queues no finalization, as in the code.

`OrderCustody` is what remains of it when offers, receipts and money are forgotten: the order,
the captain it is with, and whether that captain has accepted.

### How the modules meet

Modules that share a table meet in an abstract one. Each side implements it, so that neither is
checked against an invention:

| Contract | Kept by | Relied upon by |
|---|---|---|
| `PaymentOutcome` | `PaymentSession` (`DecidedOnce`) | `CheckoutPayment`, whose session has no behaviour outside it (`SessionAsPromised`) |
| `SessionCourse` | `PaymentSession` (`StatusFollowsCourse`) | `CheckoutFinanceOutbox`, whose sessions move by its `ProviderStep` at any time |
| `ReleaseDuty` | `CheckoutFinanceOutbox` (`ReleasesAsPromised`) | `CodDispatch`, whose release row does all that `Deliver` allows and nothing else (`ReleaseAsPromised`, `ReleaseIsDeliver`) |

### `FieldOfflineQueue`

Every `await` ends an action. `rmw` is what a process has read and is about to write back, so
that `writeQueue` replaces the entry of whichever actor the scope then names. A drain goes
through the steps of `drainQueue`: operations in doubt are asked about, the due ones are sent,
each answer is marked by a read and a write of its own, synced operations are purged, terminal
ones evacuated to the quarantine in two entries, a corrupt entry archived and recovered. Answers
come as the mark they lead to; a lost answer leaves the request unsent, served or in flight, and
`Arrive` serves a late one. A mutation and its receipt are one transaction of the service, so
`receipts` stands for what was performed, for whom and under which key; that a key is performed
once is the work of that transaction, and nothing here checks it. The service accepts a location
reading only while it is fresh, and checks that before it looks for a receipt. `overlapped`,
`crowded` and `doubt` are history. Left out: the migration of version 3 entries, destructive
recovery, the order of a queue and the length of a backoff.

### `IdentitySession`

A pair is an access and a refresh token of one generation of a session. `call` has the functions
of the store, each at the await it has reached; an answer is committed by the function that
asked, whatever `stored` has become. `Rotate` is the service's rotation, in the order of
`refreshGoverned`: a device fingerprint other than the session's ends it as compromised
(`Estranges`; the fingerprint itself is a choice, because a browser without storage sends a new
one each time), the token before the current one is turned away while it is recent
(`JustRotated`, fifteen seconds), the current one rotates the pair, and anything older ends the
session as compromised (`Replays`). A failure of the database inside `ResolveAccessToken` or
`Refresh` is answered as a token nobody has (`Misreads`): the answer `mistaken` is the same 401
as `invalid` for every function of the store (`Denied`) and differs only in what it says about
the session; failures before those statements are answered 503 and are failed requests. A
request fails (`Fail`) after the service has acted, which loses the answer, or is given up
after eight seconds: such a rotation waits in `late`, and `Arrive` executes it at any time, or
never. `Pass` is the clock and the administrator; an answer is heard or given up within eight
seconds, so none to the rotation that opened a window is on its way when the window closes.
`Persist` writes later than `stored` changes and is not awaited. Left out: the cookie mode of
the control panel, development sessions, backoff delays, one-time codes and password changes.
The late execution of other requests needs no step of its own: a late end of a session is one
of `Pass`, a late sign-in makes a session nobody holds, a late validation changes nothing.

## Runs

| Run | Instance | Distinct states | Question |
|---|---|---|---|
| `OutboxSafety` | COD session, 2 workers, 4 tokens, budgets 2, 1 fault, 1 operator action | 1.0 M | fencing and the truth of sent rows: rows are `FencedRow`s, releases keep to `ReleaseDuty` |
| `OutboxLive` | provider-paid session, 1 worker, 3 tokens, 1 fault, 1 operator action | 346 k | refunds exactly for cancelled captures, what the order shows, readback before retry, every closure settles |
| `PaymentSafety` | 2 authorize and 2 capture requests; 1 restart, 1 late execution, 1 stale status | 1.3 M | one true decision, one call, one capture, ambiguity with a case; `PaymentOutcome` and `SessionCourse` |
| `CheckoutSafety` | 1 caller, 1 worker, 1 courier; 1 edit, 1 fault of any kind | 429 k | handoff, confirmation, delivery, budget, orphans; sagas settle and outcomes arrive; `PaymentOutcome` |
| `CheckoutBlocked` | 2 callers, no fault | violated | see *Disagreements* |
| `CodDispatch` | 2 captains, 2 offers, 2 accept handlers, 1 key, 2 workers, 2 readbacks, 1 fault | 4.0 M | whose wallet is reserved and debited, what a sent or failed completion means; `OrderCustody` and `ReleaseDuty` |
| `CodDispatchUnfunded` | the same with 1 worker, no fault | violated | |
| `FieldQueue` | 2 agents, 2 presses of 1 intent with a location, 1 hook instance, 1 attempt, 2 logins, 1 fault | 3.5 M | saved work kept or performed, synced work performed for its agent, one operation per intent, lookup before resend |
| `FieldQueueLost` | 1 agent, 2 presses, 2 intents | violated | |
| `IdentitySafety` | 1 session of 2 generations, all four calls, 1 fault of any kind, 1 restart | 9.3 M | what is shown was accepted, what makes a session compromised, what drops credentials |
| `IdentityLive` | the same without ends of the session | 254 k | no state of the store is a dead end |
| `IdentityLogout` | the same with one end, no fault, no restart | violated | |

**Why these bounds.** Two holders of one lease need two workers (or a worker and a request) and
one lapse; a stale mark needs no more. A row has at most three live tokens (its own and two
stale jobs), four let a batch of two be claimed beside them. Budgets of 2 (outbox) reach "one
left" and "none left"; the saga's budget of 1 reaches both ends of its only comparison. Two keys
per operation give the second request that races with the first. Two captains and two offers
give a reassignment whose first captain still has a handler at work, and two handlers let both
answer at once; with one key the two handlers of an offer are a request and its repetition, and
the race of two keys for one offer is left to the proofs; two generations of a
session give a token that is current, recent and replayed. A press and its repetition with an
ageing location give two keys of one intent; two agents and two logins give a run that outlives
its session. A bound on faults does not bound how often rows are claimed and retried. Symmetry
is used on tokens, workers, keys, captains, offers, agents and presses, which are compared for
equality only, and never in a run with a liveness property. `CHECK_DEADLOCK FALSE` stands in all
runs: a settled system has nothing left to do, and counters are bounded.

**What they do not reach.** Several crashes together with several lapses; a COD session and a
provider-paid one in one instance; a queue at its capacity (two presses of one intent never fill
two places, so the refusal branch of the enqueue stays unused); two hook instances at once; two
sessions of one installation. The proofs cover all of these for the properties they prove. What
`CheckoutSafety` says of liveness is of one worker and one courier.

**Proved and not run.** The runs check the properties that say most, and what these rest on is
proved: `TypeOK` of all six modules, `BudgetLeft`, `LeaseExclusive` and `SentIsFinal` of the
closure outbox (`RowsFenced` is what they are for), `ActiveFitsOrder` of the order
(`CustodyKept`), `OneDispatch` of the saga (`BudgetRespected` and `SettledIsFinal`).

**Guards in the properties.** Some promises hold until a named fault, and say so:

- `OneDispatch`, `BudgetRespected` and `SettledIsFinal` until a lease has lapsed under a live
  holder (`slows = 0`): the marks of the saga carry no token. `BudgetRespected` also allows one
  attempt for each unanswered creation and each cut-off handler, because `scheduleRetry` never
  escalates and a cut-off dispatch reports nothing.
- `UnknownReadBeforeRetry` until a lease has been lost: a lapsed `unknown` row is claimed as
  `processing`, and its mutation is sent without the readback that `projection.go:213` calls
  for.
- `ClosureLostOnlyToRelease` names its exception: `MarkSentWithResult` compares the action with
  the name of an event type (`projection.go:144`), so a COD release whose readback answers
  `none` overwrites the refund the order shows. All other marks test the event type.
- `CaptureOnce` and `NoLostCapture` while the provider is `Punctual` (no late execution, no
  status applied after it changed): a delayed `payment.authorized` event moves a session under
  reconciliation for a lost capture back to `authorized`, and the capture can be requested
  again, against `capture.go:19-22`. Nothing is booked twice (`DecidedOnce`), but the provider
  is asked twice.
- `PendingBacked` counts a restart as an explanation, because the code has nothing that would
  recover one.
- `OrphanNoticed` speaks of a settled saga: an intent cancelled before its session is attached
  enqueues no closure (`checkout.go:203`), and an operator finds the saga in
  `reconciliation_required`.
- `FundedUntilRelease` and `ReservationExplained` hold up to the release row that a withdrawn
  offer queues; `FundedUntilRelease` and `DebitedIsDeliverer` exclude the offers taken after a
  failed read (`blind`).
- `SavedWorkKept` holds unless two writes of one entry overlapped, and `NotDeliveredBlindly`
  unless two runs or two writes shared a queue; `FieldQueueLost` is what happens otherwise.
- `SyncedForItsAgent` has the same exceptions. A run that goes on after its agent has signed out
  sends with the token of whoever signs in on another instance of the hook; when its own agent
  is back before it stores its mark, his queue calls synced what was performed for the other.
  That takes two runs at once (`crowded`) and three sign-ins.
- `SessionKept` excepts the answer `mistaken` to a rotation: see *Disagreements*.
- `ReplayExplained` lists what can make the service take a session for compromised: a foreign
  device fingerprint, a rotation whose answer the client did not hear (lost, or executed late),
  a bootstrap beside a refresh, a rejected storage call, a restart. What it denies is that
  anything else can, refused, failed and mistaken answers and every order of the calls included.
- `ShownIsVouched` holds until the storage rejects a read or a write: an entry that a rejected
  write has left behind can be loaded by a bootstrap that ends after a refresh, and shown.

**Fairness.** Only weak fairness is used. Of the outbox: `Claim` and `Process` of each worker
and the lapse of an orphaned lease. Of the checkout: the worker's `Claim`, each step of a
dispatch that has begun, the steps of couriers, and both lapses. This is what the code gives:
the tickers never stop, each call ends by its timeout, and lease expiry is a comparison with the
clock. Of the session store: the first bootstrap, which the application starts itself, the steps
of its asynchronous functions, an answer or a failure for each request (they have a timeout),
and the storage. Nothing is assumed of clients (not even that a request goes on to `Activate`),
users, operators, the provider deciding a payment, the retry of an unavailable service, or of
late requests arriving. `SagaSettles` therefore starts from a row that is `pending`; one left
`blocked` by a stop before `Activate` waits for its client. `LoadingEnds` excepts a storage that
could not be read, which leaves the store in `restoring`. The finite fault bounds say that
faults end eventually; without that no retry protocol terminates.

## Proofs

TLAPS checks every theorem for all values of the constants, under the assumptions named in the
modules (`SessionsAssumption`, `TokenAssumption`, `BudgetAssumption`, `BoundsAssumption`,
`DispatchAssumption`, `QueueAssumption`, `SessionAssumption`, `NoneAssumption`): any sets of
sessions, workers, tokens, keys, callers, couriers, captains, offers, agents, presses and runs,
and any bounds. The bounded fault counters of the runs are therefore unbounded parameters of the
theorems.

**`CheckoutFinanceOutboxProofs`.** `TypeCorrect` first. `FencingCorrect` (`LeaseExclusive`) and
`BudgetCorrect` (`BudgetLeft`) come from `FencingInv`. Neither is inductive alone. A mark writes
counters from the worker's snapshot, and that is right only because a job that carries the token
of a row still has the row's current counters, which is the second half of `LeaseExclusive`; a
fresh token keeps it, being one that no row and no job carries. `BlankRow` gives the enqueued
row its full budget. `SafeChange` names the changes of a row that the invariant survives,
whoever makes them, so that each mark is proved once. `AgreementCorrect` (`SentAgreesWithWlt`)
rests on `AnswersAgree`, that an answer a worker still holds agrees with WLT, and on
monotonicity of WLT's records: what one answer says of them stays true under every step
(`NextMonotone`, `AgreesStable`). `RefundCorrect` follows with `OrderIsPaid`: a cancelled
order's session was paid or is COD. `SentRowsFinal` needs the fencing invariant: no job can hold
the token of a row that is sent. `OutboxInv` is the conjunction, and is the inductive invariant.

**`CheckoutFinanceOutboxClosureProofs`** adds `ClosureInv` to it. A refund is made by a mutation
that is delivered now or late, so `LateEnqueued` says that a mutation on its way has a row; a
row of `cancel_for_order` exists for cancelled orders only, and they stay cancelled
(`RefundJustified`). What an order shows is the answer of its own row unless a release wrote
over it; `ReleaseAnswers` bounds what a release can be answered, and with it what it can write
(`ClosureShown`). The readback before a retry rests on `Undisturbed`, which holds until the
first fault: every job holds the lease of its row, every row in `processing` has such a job, so
a claim takes only rows nobody works on, and the job that records an unknown outcome was the
only one of its row; the next job of the row was claimed from `unknown` (`UnknownIsRead`).
`RowsAreFenced` is the refinement of `FencedRow`, row by row: an action on one row is a step of
its own mapping and leaves the mappings of all others alone. Besides `OutboxInv` it needs
`OneJobPerRow`, that no worker holds two jobs of a row, without which a worker could lose one
job and go on believing through the other. `ReleasesKept` is the refinement of `ReleaseDuty`,
session by session. It rests on the fence, because an answer given to an earlier lease counts
neither for the stage of a row nor for its end, and on `LateEnqueued`, because a late release
needs an obligation.

**`PaymentSessionProofs`.** `SessionTyped`; `OutcomeRefined`, the refinement of
`PaymentOutcome`, from `Books` (what is told and booked is a function of the status) and from
lemmas that a decided session is never moved by any handler's guard: the database trigger that
would stop it is not needed. `CaptureTruth` from `CaptureHeard`: every word WLT may have of a
capture was given after it. `OneCase` from `CasesInv`: where a session with an open case can be.
`CourseFollowed` is the refinement of `SessionCourse`: a call that ends late moves the session
only from the status it claimed, and everyone else moves it along the table of legal answers.

**`PaymentSessionClaimProofs`.** `ClaimInv`: an operation has one call in flight, an
authorization leaves the fresh statuses for good, and a claimed capture keeps the session until
it is decided. With `Unused` (a key never used has no handler) and `Explained` it gives
`PendingIsOneCall`. `OneAuthorization` follows from `FreshInv`: a fresh session has not been
heard of at the provider. `CaptureKept` and `CapturedOnce` come from `MoneyInv`, which says
under `Punctual` where the session and its calls can be once the provider has captured.

**`CheckoutPaymentProofs`.** `Typed`. `Handoff` from `HandoffInv`: a dispatch past its create
has a session, and one past its attach an intent that carries it, with no use of the lease.
`Paid` and `Applied` from `OutcomeInv`: an event exists only for a decided session, a courier
that has DSH's acceptance speaks for the intent, and closed intent states are final.
`OrphanSeen` from `ClosureInv`: an attached, open session of a cancelled intent has its closure.
`Lease` and `Budget` from `LeaseInv`, where each stage of the only dispatch tells the saga's
state, and `BudgetInv`, by which a saga that is not settled and not being dispatched has an
attempt left; `SettledFinal` from the same. `PromiseKept` is the refinement of `PaymentOutcome`,
from `DecidedTold`: the event's row exists exactly when the session is decided.

**`CodDispatchProofs`.** `DispatchTyped` with `Typed`, which also ties open handlers to offers
that exist. `OneCaptain`: `ActiveFitsOrder` is inductive given the types. Three facts about
every step carry the rest: `CaptainsKept` (an offer keeps its captain), `BooksKept` (WLT's
records only move forward) and `HeldKept` (an offer is taken by an accept and let go only by a
cancelled order or with a release queued). `FundingInv` says that a handler that has reserved
did so for its captain, and that every offer taken with open eyes is covered; `RightWallet` and
`Funded` follow. `CompletionInv` says what each stage of each worker knows (`WorkDone`) and why
a completion may be in doubt, and gives `SentDone` and `FailureHasCause`. `WalletInv` relates
receipts, handlers and the reservation, and gives `ReservationHasCause`. `InCustodyOf` is the
refinement of `OrderCustody`, from `ActiveFitsOrder` and `CaseFits`: only a cancellable status
is written to a case, so the third transaction of a cancellation, which compares the order with
the case, cannot find it beyond the store. `ReleasePromised` is the refinement of `ReleaseDuty`,
and `ReleaseIsDeliver` the other direction: what the contract allows the outbox is, step for
step, what `ReleaseStep` does, with the rest of the order unchanged. With `ReleasesKept` of the
outbox this composes the two modules without a common state space.

**`FieldOfflineQueueProofs`.** The awaited read and write of an entry make every invariant one
about three places: the entry, what each process has read, what it will write. `Entries` is
that: types, `Landed` (a press is nobody's operation before its own write), `Holds` (how a held
write differs from what was read), `Distinct` (one operation of an intent in each place). Every
action is one of four `Step`s: it settles no entry, stores a held write, fetches one for a run,
or drafts one for a press; each invariant is then proved for the four. `WorkKept` adds
`SyncedDone` (synced means performed) and, while no writes overlapped, `Owned` and `Saved`.
`ReconciledFirst` adds, while also no runs were crowded, `Alone` and `Doubted`: an operation in
doubt is unknown, synced or gone in every place, and in no list of due ones. `AgentsOwnWork`
adds, under the same two conditions, `Steady` and `Sworn`: a run that is alone meets no session
and no scope but those of the agent it was begun for, which needs `Shown`, that the token of a
session is that of the agent whose hook is on screen; what it is about to call synced the
service has performed or knew for that agent; and what a process writes into an entry was read
from that same entry (`OwnEntries`).

**`IdentitySessionProofs`.** `TypeCorrect` needs what each kind of answer carries (`CallsFit`).
`CredentialsKept` (an action property) from `BornInv`: pairs belong to sessions that exist, and
a renewal answered as invalid, other than by mistake, tells of a revoked one. `ShownCorrect`
from `Accepted` (answers carry accepted pairs) and `Stage`: either nothing but the first
bootstrap has run in this life, or the store, its entry and what a bootstrap has loaded are
accepted, or the storage has failed. `ReplayCorrect` from `Renewal`: while nothing was lost,
overlapping, spoiled or restarted, every usable pair anywhere is the last of its session, at
most one renewal is under way, and only sessions ended for their fingerprint are compromised. A
rotation given up by the client ends these conditions when it is executed, since `Arrive`
records its answer as lost.

**Model-checked only.** The liveness properties (`EveryClosureSettles`, `SagaSettles`,
`OutcomeReachesIntent`, `LoadingEnds`): the prover has no rule for fairness here.

**Assumptions outside the code.** The provider's status moves forward only and it tells the
truth about it; an operator resolving a case copies the provider's record; PostgreSQL
transactions are atomic; uuids are fresh; the storage of a device performs one read or write at
a time.

## Disagreements between the repository and the code

Each is the violation of one property; the trace is what TLC prints.

1. **`CheckoutBlocked`.** A replayed create whose quote lookup fails blocks an intent that was
   read before the session was attached (`checkout.go:138`, which accepts `confirming`). The
   saga is complete, so nothing attaches again, and the capture of the session is refused,
   against `wlt-009:2-4`.
2. **`CodDispatchUnfunded`.** `PRD.md:83` says that COD exposure is reserved before assignment
   is allowed and released exactly once. The release that a withdrawn offer queues names the
   order only; delivered after the next captain has reserved and accepted, it frees that
   captain's reservation, and the completion is refused after the delivery.
3. **`FieldQueueLost`.** `use-field-offline-sync.ts:4-6` promises that no work is discarded.
   Each change of a queue writes the whole entry it read before an await: an operation enqueued
   while a run marks, purges or evacuates is overwritten, after the agent was told that it is
   saved.
4. **`IdentityLogout`.** A test title says that a logout revokes upstream before the credentials
   go (`identity-session-outage.test.mjs:199`). A logout that sends a token which a refresh has
   just replaced is answered 204 and ends nothing.

Met on the way, modelled, and not given a run: the exceptions listed under *Guards in the
properties*; `Refresh` answers a failed read of the session or of its actor with
`ErrInvalidRefresh` (`repository.go:505-507`, `519-522`), so that the boundary answers 401
`INVALID_REFRESH_TOKEN` and the store drops the credentials of a live session, against
`TestGovernedRefreshBoundaryKeepsInfrastructureFailureRetryable`
(`refresh_concurrency_boundary_test.go:122`, which fakes the repository) and the marker
`SERVICE_UNAVAILABLE_PRESERVES_SESSION` (`identity-session-store.ts:586`);
`ResolveAccessToken` does the same to an access token (`repository.go:473-475`), which a
bootstrap survives by refreshing and a revocation does not, since it ends on the device what is
live at the service; an unanswered creation is retried with no budget, while the comment at
`saga.go:203-205` speaks of escalation; intent and saga are not committed together as
`dsh-1048:2-4` says, so a stop in between leaves an intent without one; DSH answers 409 to the
expiry of a session whose intent it has cancelled, and the event is retried until it is parked;
when the insert of a reconciliation case fails, the status update is rolled back with it and the
session stays pending (`payment.go:294`, the last disjunct of `PendingBacked`); a receipt
records the session as it is after the handler, so a refused capture may be stored as completed
(`operation_idempotency.go:175`); a captain who is offered an order again is answered with the
released reservation as a replay (`reservation.go:157-173`).

## What is abstracted or left out of the modelled parts

- Time: backoff and schedules are "some later step"; leases, offers and tokens expire by
  actions.
- Data: amounts, quotes, names and payload hashes. A refused command or an invalid quote is a
  choice (`StartRefused`, `QuoteFails`, `CreateRefused`); a payload hash is represented by the
  intent version it contains, and the correlation id by `StartRefused`.
- `CheckoutPayment` has wallet payment only: cash and mixed payment, coupons and promotion
  funding of an intent, and the creation of the order from a confirmed intent are not in it. The
  state `validating` is never written by the code.
- `PaymentSession` has no top-ups, tenders or partial capture, and its COD statuses are in
  `CheckoutFinanceOutbox`, where a reservation is made once per session.
- WLT's outbox carries refund events too; only session outcomes are modelled.
- What `CodDispatch`, `FieldOfflineQueue` and `IdentitySession` leave out is listed with them
  above.
- The read-only queries operators use.

## Plan

The modules planned around payments, cash on delivery and the clients are written. Worth a
module next, in this order: refunds and payouts, which call a provider outside transactions as
`PaymentSession` does; an abstract row leased without a fencing token, which WLT's outbox, the
completion row and the saga would refine as `FencedRow` is refined here; special requests; the
ledger's postings as operators.
