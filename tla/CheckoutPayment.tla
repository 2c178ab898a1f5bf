-------------------------- MODULE CheckoutPayment --------------------------
(***************************************************************************)
(* The payment of one online checkout intent across the two services.  DSH *)
(* creates the intent, records a durable saga that creates the WLT payment *)
(* session and attaches it, and blocks, refreshes or cancels the intent    *)
(* meanwhile; WLT decides the session and tells DSH through its outbox.    *)
(* Intents share no state, so one intent, one saga and one session are     *)
(* modelled; the session is what PaymentOutcome promises of it.            *)
(***************************************************************************)
EXTENDS Naturals

CONSTANTS
  Callers,       \* HTTP requests of the client and of operators
  Workers,       \* runs of the saga worker
  Couriers,      \* runs of the WLT outbox worker
  MaxAttempts,   \* the saga's maxAttempts
  MaxTries,      \* deliveries before a WLT event is parked
  MaxEdits,      \* bound on refreshes and validations of the intent
  MaxFaults      \* bound on handlers and workers cut off, session creations and
                 \* deliveries left unanswered, leases that lapse under a live holder

ASSUME BoundsAssumption ==
  /\ MaxAttempts \in Nat \ {0} /\ MaxTries \in Nat /\ MaxEdits \in Nat
  /\ MaxFaults \in Nat

VARIABLES
  intent,        \* dsh_checkout_intents.state, or "none"
  version,       \* its version
  attached,      \* its wlt_payment_session_id is set
  closure,       \* expire_session is in the checkout finance outbox
  saga,          \* dsh_checkout_payment_sagas.state, or "absent"
  source,        \* its source_version
  attempts,      \* its attempt_count
  known,         \* its payment_session_id is set
  queue,         \* its outbox row; "lapsed" is in_flight with the lease over
  at,            \* how far each caller and worker is
  seen,          \* the intent version each caller has read
  session,       \* the WLT session: "absent", "open" or its outcome
  late,          \* an unanswered creation may still reach WLT
  notice,        \* its wlt_dsh_outbox_events row; "leased" is pending and claimed
  tries,         \* the row's attempt_count
  courier,       \* how far each courier is
  held,          \* the attempt_count each courier has claimed
  edits,         \* refreshes and validations so far
  crashes, losses, outages, slows   \* faults so far, by kind

intents == <<intent, version, attached, closure>>
sagas == <<saga, source, attempts, known, queue>>
payment == <<session, late>>
notices == <<notice, tries, courier, held>>
bounds == <<edits, crashes, losses, outages, slows>>
Faults == crashes + losses + outages + slows
vars == <<intents, sagas, at, seen, payment, notices, bounds>>

Actors == Callers \cup Workers
Open == {"draft", "ready", "blocked"}
Closed == {"confirmed", "cancelled", "expired"}
IntentState == {"none", "confirming"} \cup Open \cup Closed
Outcomes == {"captured", "failed", "expired"}
Settled == {"completed", "reconciliation_required"}
SagaState == Settled \cup
  {"absent", "ready", "dispatched", "remote_outcome_unknown", "remote_confirmed",
   "local_projection_pending", "retry_scheduled"}
QueueState == {"none", "blocked", "pending", "in_flight", "lapsed", "sent", "failed"}
NoticeState == {"none", "pending", "leased", "sent", "failed"}

\* Stages of a request before it dispatches, and of Dispatch once it has claimed.
Requesting == {"quoting", "reconciling", "started", "dispatching"}
Dispatching == {"claimed", "created", "lost", "unknown", "matched", "marked", "attached",
                "unattached", "completing", "failing", "parking", "rescheduling"}
Stages == {"idle"} \cup Requesting \cup Dispatching

Init ==
  /\ intent = "none" /\ version = 0 /\ attached = FALSE /\ closure = FALSE
  /\ saga = "absent" /\ source = 0 /\ attempts = 0 /\ known = FALSE /\ queue = "none"
  /\ at = [a \in Actors |-> "idle"] /\ seen = [a \in Callers |-> 0]
  /\ session = "absent" /\ late = FALSE /\ notice = "none" /\ tries = 0
  /\ courier = [c \in Couriers |-> "idle"] /\ held = [c \in Couriers |-> 0]
  /\ edits = 0 /\ crashes = 0 /\ losses = 0 /\ outages = 0 /\ slows = 0

Goto(a, s) == at' = [at EXCEPT ![a] = s]

-----------------------------------------------------------------------------
(* The checkout intent.                                                    *)

\* Create: the intent is committed before its payment is arranged.
Create(a) ==
  /\ at[a] = "idle" /\ intent = "none"
  /\ intent' = "draft" /\ version' = 1
  /\ seen' = [seen EXCEPT ![a] = 1] /\ Goto(a, "quoting")
  /\ UNCHANGED <<attached, closure, sagas, payment, notices, bounds>>

\* A replayed create, or an operator's reconciliation, reads the intent first.
Resume(a) ==
  /\ at[a] = "idle" /\ seen' = [seen EXCEPT ![a] = version]
  /\ \/ intent \in Open /\ Goto(a, "quoting")
     \/ intent \in {"ready", "blocked", "confirming"} /\ Goto(a, "reconciling")
  /\ UNCHANGED <<intents, sagas, payment, notices, bounds>>

\* The states MarkWltHandoffFailed blocks.
Blockable == {"ready", "confirming"}

\* WLT has no matching quote: a create blocks the intent, whatever happened to it
\* since it was read.
QuoteFails(a) ==
  /\ at[a] = "quoting" /\ Goto(a, "idle")
  /\ \/ intent \in Blockable /\ intent' = "blocked" /\ version' = version + 1
     \/ intent \notin Blockable /\ UNCHANGED <<intent, version>>
  /\ UNCHANGED <<attached, closure, sagas, seen, payment, notices, bounds>>

\* RefreshIntent and ValidateIntent.
Edit ==
  /\ intent \in Open /\ edits < MaxEdits
  /\ intent' \in {"ready", "blocked"} /\ version' = version + 1 /\ edits' = edits + 1
  /\ UNCHANGED <<attached, closure, sagas, at, seen, payment, notices, crashes, losses,
                 outages, slows>>

\* CancelIntent: the closure is enqueued for the session the intent knows.
Cancel ==
  /\ intent \in Open \cup {"confirming"}
  /\ intent' = "cancelled" /\ version' = version + 1
  /\ closure' = attached
  /\ UNCHANGED <<attached, sagas, at, seen, payment, notices, bounds>>

-----------------------------------------------------------------------------
(* A request records, activates and dispatches the saga.                   *)

\* The command is one per intent; a replay must carry the version it was made from.
Start(a) ==
  /\ at[a] \in {"quoting", "reconciling"} /\ Goto(a, "started")
  /\ \/ saga = "absent" /\ saga' = "ready" /\ source' = seen[a] /\ queue' = "blocked"
     \/ saga # "absent" /\ source = seen[a] /\ UNCHANGED <<saga, source, queue>>
  /\ UNCHANGED <<intents, attempts, known, seen, payment, notices, bounds>>

\* The payload differs in its version or in the request's correlation id, or the
\* quote of a reconciliation is not to be had.
StartRefused(a) ==
  /\ \/ at[a] = "quoting" /\ saga # "absent"
     \/ at[a] = "reconciling"
  /\ Goto(a, "idle")
  /\ UNCHANGED <<intents, sagas, seen, payment, notices, bounds>>

Activate(a) ==
  /\ at[a] = "started" /\ Goto(a, "dispatching")
  /\ queue' = IF queue = "blocked" THEN "pending" ELSE queue
  /\ UNCHANGED <<intents, saga, source, attempts, known, seen, payment, notices, bounds>>

ClaimableUnleased == {"pending"}             \* mutant: a lapsed lease is never reclaimed

Claimable == {"pending", "lapsed"}

UnsettledAny == TRUE           \* mutant: a settled saga is dispatched again
Unsettled == saga \notin Settled

\* claim, by a request or by the worker's poll.
Claim(a) ==
  /\ at[a] = IF a \in Workers THEN "idle" ELSE "dispatching"
  /\ Unsettled /\ queue \in Claimable
  /\ queue' = "in_flight" /\ attempts' = attempts + 1
  /\ saga' = IF saga \in {"ready", "retry_scheduled", "remote_outcome_unknown"}
             THEN "dispatched" ELSE saga
  /\ Goto(a, "claimed")
  /\ UNCHANGED <<intents, source, known, seen, payment, notices, bounds>>

\* The saga is settled, busy or still backing off.
ClaimRefused(a) ==
  /\ at[a] = "dispatching" /\ Goto(a, "idle")
  /\ UNCHANGED <<intents, sagas, seen, payment, notices, bounds>>

-----------------------------------------------------------------------------
(* Dispatch: the session is created or read back, then attached.           *)

Live == session \notin {"absent", "failed", "expired"}

\* Mutant: a session that has died makes room for another.
SessionRemade ==
  session' = IF session \in {"absent", "failed", "expired"} THEN "open" ELSE session

\* WLT finds or creates the session of the intent.
SessionMade == session' = IF session = "absent" THEN "open" ELSE session

ReadKnown(a) ==
  /\ at[a] = "claimed" /\ known /\ Live /\ Goto(a, "matched")
  /\ UNCHANGED <<intents, sagas, seen, payment, notices, bounds>>

CreateSession(a) ==
  /\ at[a] = "claimed" /\ SessionMade /\ Goto(a, "created")
  /\ UNCHANGED <<intents, sagas, seen, late, notices, bounds>>

\* No answer, or a server error: the session is made, or not, or still may be.
CreateUnanswered(a) ==
  /\ at[a] = "claimed" /\ Faults < MaxFaults /\ losses' = losses + 1
  /\ \/ SessionMade /\ UNCHANGED late
     \/ late' \in {late, TRUE} /\ UNCHANGED session
  /\ Goto(a, "lost")
  /\ UNCHANGED <<intents, sagas, seen, notices, edits, crashes, outages, slows>>

LateCreation ==
  /\ late /\ SessionMade /\ late' = FALSE
  /\ UNCHANGED <<intents, sagas, at, seen, notices, bounds>>

\* A client error, such as a quote that has expired since.
CreateRefused(a) ==
  /\ at[a] = "claimed" /\ Goto(a, "failing")
  /\ UNCHANGED <<intents, sagas, seen, payment, notices, bounds>>

\* The created session is read; the read may fail or show a dead session.
ReadBack(a) ==
  /\ at[a] = "created"
  /\ \/ Live /\ Goto(a, "matched")
     \/ Goto(a, "failing")
  /\ UNCHANGED <<intents, sagas, seen, payment, notices, bounds>>

MarkRemote(a) ==
  /\ at[a] = "matched" /\ Goto(a, "marked")
  /\ \/ /\ saga \in {"dispatched", "remote_outcome_unknown", "remote_confirmed",
                     "local_projection_pending"}
        /\ saga' = "remote_confirmed" /\ known' = TRUE
     \/ saga \in {"ready", "retry_scheduled"} \cup Settled /\ UNCHANGED <<saga, known>>
  /\ UNCHANGED <<intents, source, attempts, queue, seen, payment, notices, bounds>>

\* AttachWltPaymentSessionIdempotent.
Attach(a) ==
  /\ at[a] = "marked"
  /\ intent \in Open \/ (intent = "confirming" /\ attached)
  /\ intent' = "confirming" /\ attached' = TRUE
  /\ version' = IF intent = "confirming" THEN version ELSE version + 1
  /\ Goto(a, "attached")
  /\ UNCHANGED <<closure, sagas, seen, payment, notices, bounds>>

RefusalIgnored == "attached"   \* mutant: the error of the attach is dropped
Refusal == "unattached"

AttachRefused(a) ==
  /\ at[a] = "marked" /\ intent \in Closed /\ Goto(a, Refusal)
  /\ UNCHANGED <<intents, sagas, seen, payment, notices, bounds>>

MarkPending(a) ==
  /\ at[a] = "unattached" /\ saga' = "local_projection_pending" /\ Goto(a, "failing")
  /\ UNCHANGED <<intents, source, attempts, known, queue, seen, payment, notices, bounds>>

-----------------------------------------------------------------------------
(* Each way a dispatch ends writes the saga, then its outbox row.          *)

\* markComplete: the states the saga is completed from.
Completable == {"remote_confirmed", "local_projection_pending"}

MarkComplete(a) ==
  /\ at[a] = "attached" /\ Goto(a, "completing")
  /\ saga' = IF saga \in Completable THEN "completed" ELSE saga
  /\ UNCHANGED <<intents, source, attempts, known, queue, seen, payment, notices, bounds>>

ScheduleRetry(a) ==
  /\ at[a] = "lost" /\ saga' = "remote_outcome_unknown" /\ Goto(a, "unknown")
  /\ UNCHANGED <<intents, source, attempts, known, queue, seen, payment, notices, bounds>>

ExhaustedLate == attempts > MaxAttempts  \* mutant: one attempt too many
Exhausted == attempts >= MaxAttempts

Fail(a) ==
  /\ at[a] = "failing"
  /\ \/ Exhausted /\ saga' = "reconciliation_required" /\ Goto(a, "parking")
     \/ ~Exhausted /\ saga' = "retry_scheduled" /\ Goto(a, "rescheduling")
  /\ UNCHANGED <<intents, source, attempts, known, queue, seen, payment, notices, bounds>>

QueueAfter(s) ==
  CASE s = "completing" -> "sent"
    [] s = "parking" -> "failed"
    [] OTHER -> "pending"

FinishDispatch(a) ==
  /\ at[a] \in {"completing", "parking", "unknown", "rescheduling"}
  /\ queue' = QueueAfter(at[a]) /\ Goto(a, "idle")
  /\ UNCHANGED <<intents, saga, source, attempts, known, seen, payment, notices, bounds>>

\* The process stops, or the client hangs up and the request's context ends.
Abandon(a) ==
  /\ at[a] # "idle" /\ Faults < MaxFaults /\ crashes' = crashes + 1
  /\ Goto(a, "idle")
  /\ UNCHANGED <<intents, sagas, seen, payment, notices, edits, losses, outages, slows>>

Dispatchers == {a \in Actors : at[a] \in Dispatching}

\* Two minutes pass; the calls of a live dispatch end well before.
LeaseLapses ==
  /\ queue = "in_flight" /\ queue' = "lapsed"
  /\ \/ Dispatchers = {} /\ UNCHANGED slows
     \/ Dispatchers # {} /\ Faults < MaxFaults /\ slows' = slows + 1
  /\ UNCHANGED <<intents, saga, source, attempts, known, at, seen, payment, notices, edits,
                 crashes, losses, outages>>

-----------------------------------------------------------------------------
(* WLT decides the session and delivers the outcome to DSH.                *)

\* The transaction of the decision enqueues its event (PaymentOutcome!Decide).
Decide(o) ==
  /\ session = "open" /\ session' = o /\ notice' = "pending"
  /\ UNCHANGED <<intents, sagas, at, seen, late, tries, courier, held, bounds>>

Move(c, s) == courier' = [courier EXCEPT ![c] = s]

ClaimNotice(c) ==
  /\ courier[c] = "idle" /\ notice = "pending" /\ notice' = "leased"
  /\ held' = [held EXCEPT ![c] = tries] /\ Move(c, "holding")
  /\ UNCHANGED <<intents, sagas, at, seen, payment, tries, bounds>>

TargetSwapped(o) ==            \* mutant: expiry and capture are confused
  CASE o = "captured" -> "expired"
    [] o = "failed" -> "cancelled"
    [] o = "expired" -> "confirmed"
    [] OTHER -> "none"

TargetLater(o) ==              \* mutant: a capture is an intermediate status
  CASE o = "captured" -> "confirming"
    [] o = "failed" -> "cancelled"
    [] o = "expired" -> "expired"
    [] OTHER -> "none"

\* paymentEventTargetState.
Target(o) ==
  CASE o = "captured" -> "confirmed"
    [] o = "failed" -> "cancelled"
    [] o = "expired" -> "expired"
    [] OTHER -> "none"

\* ApplyWltPaymentEventTx: only a confirming intent moves, and an intent already
\* there is an accepted replay.
Applies == attached /\ intent = "confirming"
ReplaysAny == attached         \* mutant: a conflict is acknowledged
Replays == attached /\ intent = Target(session)

Apply ==
  \/ Applies /\ intent' = Target(session) /\ version' = version + 1
  \/ Replays /\ UNCHANGED <<intent, version>>

Deliver(c) ==
  /\ courier[c] = "holding"
  /\ \/ Apply /\ Move(c, "accepted")
     \/ ~Applies /\ ~Replays /\ Move(c, "refused") /\ UNCHANGED <<intent, version>>
  /\ UNCHANGED <<attached, closure, sagas, at, seen, payment, notice, tries, held, bounds>>

\* DSH is down, or its answer is lost.
DeliverUnanswered(c) ==
  /\ courier[c] = "holding" /\ Faults < MaxFaults /\ outages' = outages + 1
  /\ Apply \/ UNCHANGED <<intent, version>>
  /\ Move(c, "refused")
  /\ UNCHANGED <<attached, closure, sagas, at, seen, payment, notice, tries, held, edits,
                 crashes, losses, slows>>

MarkSent(c) ==
  /\ courier[c] = "accepted" /\ notice' = "sent" /\ Move(c, "idle")
  /\ UNCHANGED <<intents, sagas, at, seen, payment, tries, held, bounds>>

Released == IF notice = "leased" THEN "pending" ELSE notice

\* MarkFailed writes from the attempt count it claimed, whatever the row is now.
MarkFailed(c) ==
  /\ courier[c] = "refused" /\ Move(c, "idle") /\ tries' = held[c] + 1
  /\ notice' = IF held[c] + 1 > MaxTries THEN "failed" ELSE Released
  /\ UNCHANGED <<intents, sagas, at, seen, payment, held, bounds>>

CourierStops(c) ==
  /\ courier[c] # "idle" /\ Faults < MaxFaults /\ crashes' = crashes + 1
  /\ Move(c, "idle")
  /\ UNCHANGED <<intents, sagas, at, seen, payment, notice, tries, held, edits, losses,
                 outages, slows>>

NoticeLapses ==
  /\ notice = "leased" /\ notice' = "pending"
  /\ \/ (\A c \in Couriers : courier[c] = "idle") /\ UNCHANGED slows
     \/ (\E c \in Couriers : courier[c] # "idle") /\ Faults < MaxFaults /\ slows' = slows + 1
  /\ UNCHANGED <<intents, sagas, at, seen, payment, tries, courier, held, edits, crashes,
                 losses, outages>>

\* RequeueFailedForOperatorContext.
RequeueNotice ==
  /\ notice = "failed" /\ notice' = "pending" /\ tries' = 0
  /\ UNCHANGED <<intents, sagas, at, seen, payment, courier, held, bounds>>

-----------------------------------------------------------------------------
Request(a) ==
  \/ Create(a) \/ Resume(a) \/ QuoteFails(a) \/ Start(a) \/ StartRefused(a)
  \/ Activate(a) \/ ClaimRefused(a)

DispatchStep(a) ==
  \/ ReadKnown(a) \/ CreateSession(a) \/ CreateUnanswered(a) \/ CreateRefused(a)
  \/ ReadBack(a) \/ MarkRemote(a) \/ Attach(a) \/ AttachRefused(a) \/ MarkPending(a)
  \/ MarkComplete(a) \/ ScheduleRetry(a) \/ Fail(a) \/ FinishDispatch(a)

CourierStep(c) ==
  \/ ClaimNotice(c) \/ Deliver(c) \/ DeliverUnanswered(c) \/ MarkSent(c) \/ MarkFailed(c)

Next ==
  \/ \E a \in Callers : Request(a)
  \/ \E a \in Actors : Claim(a) \/ DispatchStep(a) \/ Abandon(a)
  \/ Edit \/ Cancel \/ LeaseLapses \/ LateCreation
  \/ \E o \in Outcomes : Decide(o)
  \/ \E c \in Couriers : CourierStep(c) \/ CourierStops(c)
  \/ NoticeLapses \/ RequeueNotice

Spec == Init /\ [][Next]_vars

\* The 15 second tickers of both services, calls that all have a timeout, and leases
\* that expire.  Nothing is assumed of clients, of operators or of the payment.
Fairness ==
  /\ \A a \in Workers : WF_vars(Claim(a))
  /\ \A a \in Actors : WF_vars(DispatchStep(a))
  /\ WF_vars(LeaseLapses)
  /\ \A c \in Couriers : WF_vars(CourierStep(c))
  /\ WF_vars(NoticeLapses)

FairSpec == Spec /\ Fairness

-----------------------------------------------------------------------------
(* Properties.                                                             *)

\* Every variable stays in its range; the saga, its outbox row and the WLT event keep
\* to the states their tables allow (dsh-1048, wlt-009).
TypeOK ==
  /\ intent \in IntentState /\ version \in Nat /\ attached \in BOOLEAN /\ closure \in BOOLEAN
  /\ saga \in SagaState /\ source \in Nat /\ attempts \in Nat /\ known \in BOOLEAN
  /\ queue \in QueueState
  /\ at \in [Actors -> Stages] /\ seen \in [Callers -> Nat]
  /\ session \in {"absent", "open"} \cup Outcomes /\ late \in BOOLEAN
  /\ notice \in NoticeState /\ tries \in Nat
  /\ courier \in [Couriers -> {"idle", "holding", "accepted", "refused"}]
  /\ held \in [Couriers -> Nat]
  /\ edits \in Nat /\ crashes \in Nat /\ losses \in Nat /\ outages \in Nat /\ slows \in Nat

\* DSH shows an online checkout as confirmed only once WLT has captured its money,
\* through any crash, replay, lost answer or stale worker (ApplyWltPaymentEventTx).
ConfirmedIsPaid == intent = "confirmed" => attached /\ session = "captured"

\* A saga reports the handoff complete only when the intent carries the session, even
\* when leases lapse under a live dispatch and two of them interleave their writes
\* (Dispatch, markComplete).
CompletedIsAttached == saga = "completed" => attached /\ session # "absent"

\* An event WLT counts as delivered has moved the intent to the state it stands for,
\* and nothing the client or an operator does afterwards takes the intent out of it.
SentWasApplied == notice = "sent" => intent = Target(session)

\* An open session of a cancelled intent does not go unnoticed: its closure is enqueued
\* or the saga, once settled, asks for reconciliation, wherever in the dispatch the
\* client cancelled (CancelIntent, AttachWltPaymentSessionIdempotent, fail).
OrphanNoticed ==
  (intent = "cancelled" /\ session = "open" /\ saga \in Settled)
    => (closure \/ saga = "reconciliation_required")

\* While no lease lapses under a live holder, one dispatch at a time holds the saga,
\* so its unguarded writes never race (claim's lease, which nothing else checks).
OneDispatch == slows = 0 => \A a, b \in Dispatchers : a = b

\* A reported attempt that was the last one the budget allows escalates: no claim is
\* made past the budget unless an attempt went unanswered or unreported (fail).
BudgetRespected == slows = 0 => attempts <= MaxAttempts + losses + crashes

\* While no lease lapses under a live holder, a settled saga stays as it is: neither a
\* crash between its two writes nor a replay dispatches it again (claim).
SettledIsFinal == [][(slows = 0 /\ saga \in Settled) => saga' = saga]_vars

\* A saga queued for the worker settles: the session is attached, or the saga asks
\* for reconciliation (RunWorker; the lease brings back what a crash interrupted).
SagaSettles == (queue = "pending") ~> (saga \in Settled)

\* An outcome queued for DSH does not leave its intent waiting unnoticed: the intent
\* moves, or the event is parked where operators see it (dshoutbox.ProcessOnce).
OutcomeReachesIntent ==
  (notice \in {"pending", "leased"} /\ intent = "confirming")
    ~> (intent # "confirming" \/ notice = "failed")

\* PaymentOutcome as it is seen here: a capture is booked by the transaction that decides
\* it, and the event is told, in whatever state its row is, once the row exists.
Promise == INSTANCE PaymentOutcome WITH
  outcome <- IF session \in Outcomes THEN session ELSE "open",
  booked <- session = "captured",
  told <- IF notice = "none" THEN {} ELSE {session}

\* The session the checkout meets is one that PaymentSession delivers: created for good by
\* the first of any number of creations, decided once and told to DSH in that step
\* (CreatePaymentSession's lookup by intent, dshoutbox.Enqueue).
SessionAsPromised == Promise!Spec

-----------------------------------------------------------------------------
(* What the repository says of the handoff, and the code does not keep.    *)

Delivering == notice \in {"pending", "leased"}

\* wlt-009:2-4: the outcome "must never leave a checkout intent stuck", so DSH accepts
\* the capture of a session whose handoff is complete, unless the client cancelled.
CaptureAccepted ==
  (Delivering /\ session = "captured" /\ saga = "completed" /\ intent # "cancelled")
    => (Applies \/ Replays)
=============================================================================
