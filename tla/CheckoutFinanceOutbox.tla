----------------------- MODULE CheckoutFinanceOutbox -----------------------
(***************************************************************************)
(* The checkout financial closure outbox of DSH: the rows that oblige WLT  *)
(* to expire a payment session, to close the money of a cancelled order or *)
(* to release a COD reservation, the workers that lease and deliver them,  *)
(* and the part of WLT they act on.                                        *)
(*                                                                         *)
(* A worker leases a batch of rows under fresh fencing tokens, calls WLT   *)
(* outside any transaction, and records each answer in a transaction that  *)
(* takes effect only while the row still carries the worker's token.       *)
(***************************************************************************)
EXTENDS Naturals, FiniteSets, WltSession

CONSTANTS
  Sessions,              \* payment sessions, one checkout intent each
  CodSessions,           \* those paid in cash (methods cod and mixed)
  Workers,               \* processes that run ProcessOnce
  Tokens, NoToken,       \* lease tokens (uuid) and SQL NULL
  BatchSize,             \* rows one ClaimBatch may take
  MaxDeliveryAttempts, MaxReadbackAttempts,
  MaxFaults,             \* bound on crashes, lost marks and lapsed live leases
  MaxOperatorActions     \* bound on manual retries and requeues

ASSUME SessionsAssumption ==
  CodSessions \subseteq Sessions
ASSUME TokenAssumption == NoToken \notin Tokens
ASSUME BudgetAssumption ==
  /\ MaxDeliveryAttempts \in Nat \ {0} /\ MaxReadbackAttempts \in Nat \ {0}
  /\ BatchSize \in Nat /\ MaxFaults \in Nat /\ MaxOperatorActions \in Nat

VARIABLES
  row,              \* dsh_checkout_financial_closure_outbox, by event
  work,             \* the jobs each worker has leased and not yet recorded
  late,             \* mutations WLT may still receive after the caller gave up
  session,          \* wlt_payment_sessions.status
  refund,           \* the sessions with a cancellation refund in WLT
  reservation,      \* wlt_cod_reservations.status of the session's order
  journey,          \* what the client did with the checkout
  closure,          \* dsh_orders.financial_closure_status
  noContext,        \* the sessions whose intent has no operator context
  faults, operatorActions

wlt == <<session, refund, reservation>>
bounds == <<noContext, faults, operatorActions>>
vars == <<row, work, late, wlt, journey, closure, bounds>>

EventTypes == {"expire_session", "cancel_for_order", "release_cod_reservation"}
Events == Sessions \X EventTypes     \* UNIQUE (payment_session_id, event_type)
SessionOf(e) == e[1]
TypeOf(e) == e[2]

RowStatus == {"absent", "pending", "processing", "unknown", "sent", "failed"}
Actions == {"expired", "refund_requested", "none", "cod_reservation_released"}
Outcomes == Actions \cup {"rejected", "unknown", "absent"}
Dispositions == {"none", "retry_scheduled", "reconciliation_required",
                 "manual_retry_required", "invalid_operator_context"}
Row == [status : RowStatus, attempt : Nat, readback : Nat,
        disposition : Dispositions, token : Tokens \cup {NoToken},
        lapsed : BOOLEAN, action : Actions \cup {"no_action_yet"}]

\* What a worker keeps of a claimed row: the status and counters it read when it
\* claimed, its token, and how far the delivery went.
Job == [ev : Events, from : {"pending", "processing", "unknown"},
        attempt : Nat, readback : Nat, token : Tokens,
        stage : {"claimed", "confirm"} \cup Outcomes]

Journeys == {"checkout", "abandoned", "ordered", "cancelled", "delivered"}
ClosureStatus == {"not_required", "pending", "session_expired",
                  "refund_requested", "no_action", "failed"}

NoRow == [status |-> "absent", attempt |-> 0, readback |-> 0,
          disposition |-> "none", token |-> NoToken, lapsed |-> FALSE,
          action |-> "no_action_yet"]

Init ==
  /\ row = [e \in Events |-> NoRow]
  /\ work = [w \in Workers |-> {}]
  /\ late = {}
  /\ session = [s \in Sessions |->
                  IF s \in CodSessions THEN "cod_pending" ELSE "reference_created"]
  /\ refund = {}
  /\ reservation = [s \in Sessions |-> "absent"]
  /\ journey = [s \in Sessions |-> "checkout"]
  /\ closure = [s \in Sessions |-> "not_required"]
  /\ noContext \in SUBSET Sessions
  /\ faults = 0 /\ operatorActions = 0

-----------------------------------------------------------------------------
(* The checkout and order journeys that enqueue closures.                  *)

\* Enqueue: INSERT ... ON CONFLICT (payment_session_id, event_type) DO NOTHING.
Enqueue(e) ==
  row' = IF row[e].status = "absent"
           THEN [row EXCEPT ![e].status = "pending"] ELSE row

AbandonCheckout(s) ==
  /\ journey[s] = "checkout"
  /\ journey' = [journey EXCEPT ![s] = "abandoned"]
  /\ Enqueue(<<s, "expire_session">>)
  /\ UNCHANGED <<work, late, wlt, closure, bounds>>

\* An order needs a confirmed intent (its session was captured) or a COD one.
CreateOrder(s) ==
  /\ journey[s] = "checkout"
  /\ session[s] \in {"captured", "cod_pending"}
  /\ journey' = [journey EXCEPT ![s] = "ordered"]
  /\ UNCHANGED <<row, work, late, wlt, closure, bounds>>

\* An assignment is declined, expires, is cancelled or is reassigned.
EnqueueRelease(s) ==
  /\ journey[s] = "ordered"
  /\ Enqueue(<<s, "release_cod_reservation">>)
  /\ UNCHANGED <<work, late, wlt, journey, closure, bounds>>

CancelOrder(s) ==
  /\ journey[s] = "ordered"
  /\ journey' = [journey EXCEPT ![s] = "cancelled"]
  /\ Enqueue(<<s, "cancel_for_order">>)
  /\ UNCHANGED <<work, late, wlt, closure, bounds>>

DeliverOrder(s) ==
  /\ journey[s] = "ordered"
  /\ journey' = [journey EXCEPT ![s] = "delivered"]
  /\ UNCHANGED <<row, work, late, wlt, closure, bounds>>

-----------------------------------------------------------------------------
(* WLT, apart from what the outbox asks of it.                             *)

ReserveCod(s) ==
  /\ s \in CodSessions /\ journey[s] = "ordered" /\ reservation[s] = "absent"
  /\ reservation' = [reservation EXCEPT ![s] = "reserved"]
  /\ UNCHANGED <<row, work, late, session, refund, journey, closure, bounds>>

FinalizeCod(s) ==
  /\ journey[s] = "delivered"
  /\ reservation[s] = "reserved" /\ session[s] = "cod_pending"
  /\ reservation' = [reservation EXCEPT ![s] = "finalized"]
  /\ session' = [session EXCEPT ![s] = "cod_finalized"]
  /\ UNCHANGED <<row, work, late, refund, journey, closure, bounds>>

\* Authorization, capture and provider events, step by step.
SessionProgress(s) ==
  /\ \E new \in OnlineStatus :
       ProviderStep(session[s], new) /\ session' = [session EXCEPT ![s] = new]
  /\ UNCHANGED <<row, work, late, refund, reservation, journey, closure, bounds>>

RefundsAnyClosure(e) == session[SessionOf(e)] \in Refundable   \* mutant: any event type

\* CancelOrderFinanciallyWithContext asks for one refund per session and order.
Refunds(e) == TypeOf(e) = "cancel_for_order" /\ session[SessionOf(e)] \in Refundable

\* What WLT does when it executes the mutation of event e.
Mutate(e) ==
  LET s == SessionOf(e) IN
  /\ session' = [session EXCEPT ![s] =
       IF TypeOf(e) = "release_cod_reservation" THEN @ ELSE Expired(@)]
  /\ refund' = IF Refunds(e) THEN refund \cup {s} ELSE refund
  /\ reservation' = [reservation EXCEPT ![s] =
       IF TypeOf(e) = "release_cod_reservation" /\ @ = "reserved" THEN "released" ELSE @]

CancelAnswer(e) ==
  IF session[SessionOf(e)] \in Expirable THEN "expired"
  ELSE IF Refunds(e) THEN "refund_requested" ELSE "none"

ReleaseAnswer(e) ==
  IF reservation[SessionOf(e)] \in {"reserved", "released"}
    THEN "cod_reservation_released" ELSE "rejected"

MutationAnswerUnread(e) ==     \* mutant: the status code of expire is trusted
  CASE TypeOf(e) = "expire_session" -> "expired"
    [] TypeOf(e) = "cancel_for_order" -> CancelAnswer(e)
    [] OTHER -> ReleaseAnswer(e)

\* What the caller makes of WLT's answer to that mutation. A 409 from expire is
\* no error; only the readback that follows tells what became of the session.
MutationAnswer(e) ==
  CASE TypeOf(e) = "expire_session" -> "confirm"
    [] TypeOf(e) = "cancel_for_order" -> CancelAnswer(e)
    [] OTHER -> ReleaseAnswer(e)

SettledAnswerUnrefunded(e) == "none"   \* mutant: money captured closes any event

\* A captured session ends an expiry; an order cancellation wants its refund.
SettledAnswer(e) ==
  IF TypeOf(e) = "expire_session" THEN "none"
  ELSE IF SessionOf(e) \in refund THEN "refund_requested" ELSE "absent"

ReservationReadLoosely(s) ==   \* mutant: what is not released yet needs nothing
  IF reservation[s] = "released" THEN "cod_reservation_released" ELSE "none"

ReservationRead(s) ==
  CASE reservation[s] = "reserved" -> "absent"
    [] reservation[s] = "released" -> "cod_reservation_released"
    [] OTHER -> "none"

\* reconcileUnknown and resultForPaymentSession: the canonical state read as the
\* outcome of e. A capture is terminal, so reading the session and then its
\* refund gives what one read at the later instant gives.
ReadAnswer(e) ==
  LET s == SessionOf(e) IN
  IF TypeOf(e) = "release_cod_reservation" THEN ReservationRead(s)
  ELSE CASE session[s] = "provider_result_unknown" -> "unknown"
         [] session[s] = "expired" -> "expired"
         [] session[s] = "failed" -> "none"
         [] session[s] \in Refundable -> SettledAnswer(e)
         [] OTHER -> "absent"

\* A request whose caller timed out or crashed reaches WLT after all, or never.
LateMutation(e) ==
  /\ e \in late /\ late' = late \ {e}
  /\ Mutate(e)
  /\ UNCHANGED <<row, work, journey, closure, bounds>>

LostMutation(e) ==
  /\ e \in late /\ late' = late \ {e}
  /\ UNCHANGED <<row, work, wlt, journey, closure, bounds>>

-----------------------------------------------------------------------------
(* ClaimBatch and the worker.                                              *)

ClaimableNotLapsed(e) ==       \* mutant: expired leases are not recovered
  row[e].status \in {"pending", "unknown"}

Claimable(e) ==
  \/ row[e].status \in {"pending", "unknown"}
  \/ row[e].status = "processing" /\ row[e].lapsed

InUse == {row[e].token : e \in Events}
           \cup {j.token : j \in UNION {work[w] : w \in Workers}}

\* uuid.NewString: a token nothing carries, a different one for each row.
FreshLeases(due) ==
  {f \in [due -> Tokens \ InUse] : \A d, e \in due : f[d] = f[e] => d = e}

JobFor(e, token) ==
  [ev |-> e, from |-> row[e].status, attempt |-> row[e].attempt,
   readback |-> row[e].readback, token |-> token, stage |-> "claimed"]

LeasedCoalesced(e, token) ==   \* mutant: a lapsed lease is renewed under its old token
  [row[e] EXCEPT !.status = "processing", !.lapsed = FALSE,
                 !.token = IF @ = NoToken THEN token ELSE @]

Leased(e, token) ==
  [row[e] EXCEPT !.status = "processing", !.token = token, !.lapsed = FALSE]

\* Retry times and SKIP LOCKED leave any of the claimable rows for later.
Claim(w) ==
  /\ work[w] = {}
  /\ \E due \in SUBSET {e \in Events : Claimable(e)} :
       /\ due # {} /\ Cardinality(due) <= BatchSize
       /\ \E lease \in FreshLeases(due) :
            /\ work' = [work EXCEPT ![w] = {JobFor(e, lease[e]) : e \in due}]
            /\ row' = [e \in Events |->
                         IF e \in due THEN Leased(e, lease[e]) ELSE row[e]]
  /\ UNCHANGED <<late, wlt, journey, closure, bounds>>

\* The worker handles its jobs one at a time.
NextJob(w, j) == j \in work[w] /\ \A k \in work[w] : k.stage = "claimed"

Advance(w, j, stage) ==
  work' = [work EXCEPT ![w] = (@ \ {j}) \cup {[j EXCEPT !.stage = stage]}]

\* dispatch: the mutation is answered, refused, or its outcome stays unknown
\* (timeout, 408, 429, 5xx), in which case WLT may execute it later or never.
Dispatch(w, j) ==
  /\ NextJob(w, j)
  /\ j.from # "unknown" /\ SessionOf(j.ev) \notin noContext
  /\ \/ Mutate(j.ev) /\ Advance(w, j, MutationAnswer(j.ev)) /\ UNCHANGED late
     \/ Advance(w, j, "rejected") /\ UNCHANGED <<late, wlt>>
     \/ Advance(w, j, "unknown") /\ late' = late \cup {j.ev} /\ UNCHANGED wlt
  /\ UNCHANGED <<row, journey, closure, bounds>>

\* The read after a successful expire: an effect not there counts as unknown.
ConfirmExpiry(w, j) ==
  /\ j \in work[w] /\ j.stage = "confirm"
  /\ LET read == ReadAnswer(j.ev)
     IN \E stage \in {IF read = "absent" THEN "unknown" ELSE read, "unknown", "rejected"} :
          Advance(w, j, stage)
  /\ UNCHANGED <<row, late, wlt, journey, closure, bounds>>

\* reconcileUnknown: a row claimed as unknown is read, not delivered; any error
\* of the read leaves it unknown.
Reconcile(w, j) ==
  /\ NextJob(w, j)
  /\ j.from = "unknown" /\ SessionOf(j.ev) \notin noContext
  /\ \E stage \in {ReadAnswer(j.ev), "unknown"} : Advance(w, j, stage)
  /\ UNCHANGED <<row, late, wlt, journey, closure, bounds>>

-----------------------------------------------------------------------------
(* The transactions that record an answer, all fenced by the lease token.  *)

HoldsUnchecked(j) == TRUE      \* mutant: UPDATE ... WHERE id only

Holds(j) == row[j.ev].status = "processing" /\ row[j.ev].token = j.token

Unleased(e) == [row[e] EXCEPT !.token = NoToken, !.lapsed = FALSE]

\* markLeaseTransition: without the lease the whole transaction is a no-op.
Record(w, j, new, projected) ==
  /\ work' = [work EXCEPT ![w] = @ \ {j}]
  /\ row' = IF Holds(j) THEN [row EXCEPT ![j.ev] = new] ELSE row
  /\ closure' = IF Holds(j) THEN [closure EXCEPT ![SessionOf(j.ev)] = projected]
                ELSE closure
  /\ UNCHANGED <<late, wlt, journey, bounds>>

\* financialProjection
Projection(action) ==
  CASE action = "expired" -> "session_expired"
    [] action = "refund_requested" -> "refund_requested"
    [] OTHER -> "no_action"

\* MarkSentWithResult shows the result on the order if the row names one (an
\* expiry has a NULL order_id) and the action is not a released reservation.
ShownOnOrder(e, action) ==
  TypeOf(e) # "expire_session" /\ action # "cod_reservation_released"

Sent(e, action) ==
  [Unleased(e) EXCEPT !.status = "sent", !.action = action, !.disposition = "none"]

MarkSent(w, j) ==
  /\ j \in work[w] /\ j.stage \in Actions
  /\ Record(w, j, Sent(j.ev, j.stage),
       IF ShownOnOrder(j.ev, j.stage)
         THEN Projection(j.stage) ELSE closure[SessionOf(j.ev)])

FailedProjectionAll(e) == "failed"   \* mutant: the event type is not tested

\* updateFailedOrderProjection, which a reservation release skips.
FailedProjection(e) ==
  IF TypeOf(e) = "cancel_for_order" THEN "failed" ELSE closure[SessionOf(e)]

DeliveriesSpent(j) == j.attempt + 1 >= MaxDeliveryAttempts
ReadbacksSpent(j) == j.readback + 1 >= MaxReadbackAttempts

GivenUp(e, attempt, disposition) ==
  [Unleased(e) EXCEPT !.status = "failed", !.attempt = attempt,
                      !.disposition = disposition]
Rescheduled(e, attempt) ==
  [Unleased(e) EXCEPT !.status = "pending", !.attempt = attempt,
                      !.disposition = "retry_scheduled"]

DeliveryFailure(w, j) ==
  \/ /\ DeliveriesSpent(j)
     /\ Record(w, j, GivenUp(j.ev, j.attempt + 1, "manual_retry_required"), FailedProjection(j.ev))
  \/ /\ ~DeliveriesSpent(j)
     /\ Record(w, j, Rescheduled(j.ev, j.attempt + 1), closure[SessionOf(j.ev)])

MarkDeliveryFailure(w, j) ==
  /\ j \in work[w] /\ j.stage = "rejected"
  /\ DeliveryFailure(w, j)

AfterUnknownRetried(j) ==      \* mutant: an unknown outcome is an ordinary retry
  IF ReadbacksSpent(j) THEN "failed" ELSE "pending"
AfterUnknown(j) == IF ReadbacksSpent(j) THEN "failed" ELSE "unknown"

\* A readback is no delivery attempt.
AttemptsAfter(j) == IF j.from = "unknown" THEN j.attempt ELSE j.attempt + 1

OutcomeUnknown(e, j) ==
  [Unleased(e) EXCEPT !.status = AfterUnknown(j), !.attempt = AttemptsAfter(j),
                      !.readback = j.readback + 1,
                      !.disposition = "reconciliation_required"]

MarkOutcomeUnknown(w, j) ==
  /\ j \in work[w] /\ j.stage = "unknown"
  /\ Record(w, j, OutcomeUnknown(j.ev, j), closure[SessionOf(j.ev)])

MarkReadbackAbsent(w, j) ==
  /\ j \in work[w] /\ j.stage = "absent"
  /\ \/ j.attempt >= MaxDeliveryAttempts /\ DeliveryFailure(w, j)
     \/ /\ j.attempt < MaxDeliveryAttempts
        /\ Record(w, j, Rescheduled(j.ev, row[j.ev].attempt), closure[SessionOf(j.ev)])

MarkInvalidOperatorContext(w, j) ==
  /\ NextJob(w, j) /\ SessionOf(j.ev) \in noContext
  /\ Record(w, j, GivenUp(j.ev, row[j.ev].attempt, "invalid_operator_context"),
            FailedProjection(j.ev))

-----------------------------------------------------------------------------
(* Faults. A batch of 20 rows at 10 seconds each outlives the lease of two *)
(* minutes, so a lease may lapse under a worker that is alive.             *)

Held(e) == \E w \in Workers : \E j \in work[w] : j.token = row[e].token

Crash(w) ==
  /\ faults < MaxFaults /\ faults' = faults + 1
  /\ work[w] # {}
  /\ work' = [work EXCEPT ![w] = {}]
  /\ UNCHANGED <<row, late, wlt, journey, closure, noContext, operatorActions>>

\* The recording transaction fails; the worker logs it and goes on.
LoseMark(w, j) ==
  /\ faults < MaxFaults /\ faults' = faults + 1
  /\ j \in work[w] /\ j.stage \in Outcomes
  /\ work' = [work EXCEPT ![w] = @ \ {j}]
  /\ UNCHANGED <<row, late, wlt, journey, closure, noContext, operatorActions>>

LeaseLapse(e) ==
  /\ row[e].status = "processing" /\ ~row[e].lapsed
  /\ row' = [row EXCEPT ![e].lapsed = TRUE]
  /\ UNCHANGED <<work, late, wlt, journey, closure, noContext, operatorActions>>

LapseHeld(e) ==
  /\ Held(e) /\ faults < MaxFaults /\ faults' = faults + 1
  /\ LeaseLapse(e)

LapseOrphaned(e) == ~Held(e) /\ LeaseLapse(e) /\ UNCHANGED faults

-----------------------------------------------------------------------------
(* The operator's two recovery commands.                                   *)

RetryFailed(e) ==
  /\ operatorActions < MaxOperatorActions /\ operatorActions' = operatorActions + 1
  /\ row[e].status = "failed"
  /\ row[e].disposition \notin {"reconciliation_required", "invalid_operator_context"}
  /\ row' = [row EXCEPT ![e] = [NoRow EXCEPT !.status = "pending",
                                              !.disposition = "retry_scheduled"]]
  /\ closure' = IF TypeOf(e) = "cancel_for_order"
                  THEN [closure EXCEPT ![SessionOf(e)] = "pending"] ELSE closure
  /\ UNCHANGED <<work, late, wlt, journey, noContext, faults>>

RequeueForReconciliation(e) ==
  /\ operatorActions < MaxOperatorActions /\ operatorActions' = operatorActions + 1
  /\ row[e].status = "failed" /\ row[e].disposition = "reconciliation_required"
  /\ row' = [row EXCEPT ![e] = [Unleased(e) EXCEPT !.status = "unknown", !.readback = 0]]
  /\ UNCHANGED <<work, late, wlt, journey, closure, noContext, faults>>

-----------------------------------------------------------------------------
Journey(s) ==
  \/ AbandonCheckout(s) \/ CreateOrder(s) \/ EnqueueRelease(s)
  \/ CancelOrder(s) \/ DeliverOrder(s)
  \/ ReserveCod(s) \/ FinalizeCod(s) \/ SessionProgress(s)

\* One step of ProcessOnce on a job it holds.
Process(w) ==
  \E j \in work[w] :
    \/ Dispatch(w, j) \/ ConfirmExpiry(w, j) \/ Reconcile(w, j)
    \/ MarkSent(w, j) \/ MarkDeliveryFailure(w, j) \/ MarkOutcomeUnknown(w, j)
    \/ MarkReadbackAbsent(w, j) \/ MarkInvalidOperatorContext(w, j)

Next ==
  \/ \E s \in Sessions : Journey(s)
  \/ \E w \in Workers : Claim(w) \/ Process(w) \/ Crash(w)
  \/ \E w \in Workers : \E j \in work[w] : LoseMark(w, j)
  \/ \E e \in Events : LateMutation(e) \/ LostMutation(e)
  \/ \E e \in Events : LapseHeld(e) \/ LapseOrphaned(e)
  \/ \E e \in Events : RetryFailed(e) \/ RequeueForReconciliation(e)

Spec == Init /\ [][Next]_vars

\* The ticker runs ProcessOnce again and again, every call inside it is bounded
\* by a timeout, and the lease of a row nobody works on runs out.
FairSpec ==
  /\ Spec
  /\ \A w \in Workers : WF_vars(Claim(w)) /\ WF_vars(Process(w))
  /\ \A e \in Events : WF_vars(LapseOrphaned(e))

-----------------------------------------------------------------------------
(* Properties. BlankRow, OrderIsPaid and AnswersAgree complete the inductive  *)
(* invariant that CheckoutFinanceOutboxProofs proves.                      *)

TypeOK ==
  /\ row \in [Events -> Row]
  /\ work \in [Workers -> SUBSET Job]
  /\ late \subseteq Events
  /\ session \in [Sessions -> SessionStatus]
  /\ refund \subseteq Sessions
  /\ reservation \in [Sessions -> ReservationStatus]
  /\ journey \in [Sessions -> Journeys]
  /\ closure \in [Sessions -> ClosureStatus]
  /\ noContext \subseteq Sessions
  /\ faults \in Nat /\ operatorActions \in Nat

\* The fencing token is exclusive: no two jobs in the whole system carry the same
\* token, and a job that carries the token of a row is a job of that very row whose
\* snapshot of the counters is still current, however often leases lapsed, workers
\* crashed and rows were claimed again (ClaimBatch, markLeaseTransition).
LeaseExclusive ==
  /\ \A v, w \in Workers : \A i \in work[v], j \in work[w] :
       i.token = j.token => v = w /\ i = j
  /\ \A e \in Events, w \in Workers : \A j \in work[w] :
       row[e].token = j.token =>
         j.ev = e /\ j.attempt = row[e].attempt /\ j.readback = row[e].readback

\* What an answer recorded for event e says of WLT's own records.
Agrees(e, action) ==
  LET s == SessionOf(e) IN
  CASE action = "expired" -> session[s] = "expired"
    [] action = "refund_requested" -> s \in refund
    [] action = "cod_reservation_released" ->
         TypeOf(e) = "release_cod_reservation" /\ reservation[s] = "released"
    [] OTHER ->
         /\ TypeOf(e) = "expire_session" =>
              session[s] \in {"captured", "cod_finalized", "failed"}
         /\ TypeOf(e) = "cancel_for_order" => session[s] \in CodStatus

\* A row recorded as sent tells what WLT's records say now, whatever was delivered
\* late or twice: an expiry as expired left the session expired, an expiry as none
\* found it settled for good, a refund exists, a reservation is released, and a
\* cancelled order that needed nothing has no captured money (dispatch,
\* reconcileUnknown, MarkSentWithResult).
SentAgreesWithWlt ==
  \A e \in Events : row[e].status = "sent" => Agrees(e, row[e].action)

\* No captured order is closed without its refund: once the closure of a
\* cancelled order whose session was captured is sent, WLT holds the refund
\* (CancelOrderFinanciallyWithContext, FindCancellationRefund).
CancelledCaptureRefunded ==
  \A s \in Sessions :
    row[<<s, "cancel_for_order">>].status = "sent" /\ session[s] = "captured"
      => s \in refund

\* The refund an order shows exists, and a refund is never made for an order that
\* was not cancelled, or for a checkout that was only abandoned.
RefundOnlyForCancelled ==
  \A s \in Sessions :
    /\ closure[s] = "refund_requested" => s \in refund
    /\ s \in refund => journey[s] = "cancelled"

\* Budgets hold at their boundary: a row waiting for delivery has a delivery
\* attempt left and a row waiting for a readback has a readback left
\* (MarkDeliveryFailure, MarkOutcomeUnknown, MarkReadbackAbsent).
BudgetLeft ==
  \A e \in Events :
    /\ row[e].status = "pending" => row[e].attempt < MaxDeliveryAttempts
    /\ row[e].status = "unknown" => row[e].readback < MaxReadbackAttempts

\* MarkSentWithResult is the only successful terminal transition: a sent row
\* never changes again, in spite of workers that still hold an old job of it,
\* late requests, operator commands and duplicate enqueues.
SentIsFinal ==
  [][\A e \in Events : row[e].status = "sent" => row'[e] = row[e]]_vars

\* "The worker must read WLT before any retry": while no lease has been lost, no
\* mutation is sent to WLT for a row whose failure disposition is
\* reconciliation_required. A lapsed lease undoes it: the row is claimed as
\* processing and delivered again.
UnknownReadBeforeRetry ==
  [][faults = 0 =>
       \A w \in Workers : \A j \in work[w] :
         row[j.ev].disposition = "reconciliation_required" => ~Dispatch(w, j)]_vars

\* The order shows the outcome of its own closure: the result of a sent
\* cancel_for_order is replaced only by a reservation release that a readback recorded
\* as none (reconcileUnknown returns none, MarkSentWithResult tests the action).
ClosureLostOnlyToRelease ==
  \A s \in Sessions :
    LET cancel == row[<<s, "cancel_for_order">>]
        release == row[<<s, "release_cod_reservation">>]
    IN cancel.status = "sent" /\ closure[s] # Projection(cancel.action)
         => release.status = "sent" /\ release.action = "none" /\ closure[s] = "no_action"

\* A row as FencedRow sees it: what it records of its delivery, the worker whose token
\* it carries, and the workers that have a job of it.
Recorded(e) ==
  <<IF row[e].status \in {"pending", "processing", "unknown"} THEN "open" ELSE row[e].status,
    row[e].attempt, row[e].readback, row[e].disposition, row[e].action>>
Owners(e) ==
  {w \in Workers : \E j \in work[w] :
     j.ev = e /\ row[e].status = "processing" /\ row[e].token = j.token}
Believers(e) == {w \in Workers : \E j \in work[w] : j.ev = e}

Fence(e) == INSTANCE FencedRow WITH
  content <- Recorded(e), owners <- Owners(e), believers <- Believers(e)

\* Every row is a FencedRow: whoever was slow, replaced or cut off, only the worker that
\* leased the row last writes to it, once (ClaimBatch, markLeaseTransition), and
\* checkouts and operators write only to rows that nobody has leased (Enqueue,
\* retryFailed, requeueForReconciliation).
RowsFenced ==
  /\ \A e \in Events : Fence(e)!Init
  /\ [][\A e \in Events : Fence(e)!Step]_vars

\* The release row of a session as ReleaseDuty sees it: "answered" while the worker that
\* owns it holds WLT's answer.
Answered(e) ==
  \E w \in Workers : \E j \in work[w] : j.ev = e /\ Holds(j) /\ j.stage \in Actions
ReleaseStage(s) ==
  LET e == <<s, "release_cod_reservation">>
  IN IF row[e].status \in {"absent", "sent", "failed"} THEN row[e].status
     ELSE IF Answered(e) THEN "answered" ELSE "pending"

Duty(s) == INSTANCE ReleaseDuty WITH duty <- ReleaseStage(s), reservation <- reservation[s]

\* What the outbox does to reservations is what dispatch is told to expect: it releases
\* nothing without an obligation, and closes an obligation only when whoever owned the
\* row has seen that nothing was held, by a release or by a readback that no answer to an
\* earlier lease is mistaken for (dispatch, reconcileUnknown, MarkSentWithResult).
ReleasesAsPromised ==
  /\ \A s \in Sessions : Duty(s)!Init
  /\ [][\A s \in Sessions : Duty(s)!Step]_vars

\* Every obligation is discharged or handed to an operator: an enqueued row is
\* eventually sent or failed, once crashes and lapses are over.
EveryClosureSettles ==
  \A e \in Events :
    row[e].status = "pending" ~> row[e].status \in {"sent", "failed"}

\* A row that was never enqueued is blank.
BlankRow == \A e \in Events : row[e].status = "absent" => row[e] = NoRow

\* A row that is leased or was once has been enqueued; only a cancelled order has a
\* cancel_for_order row; and an order is paid, or will be paid in cash.
OrderIsPaid ==
  /\ \A w \in Workers : \A j \in work[w] : row[j.ev].status # "absent"
  /\ \A s \in Sessions :
       /\ row[<<s, "cancel_for_order">>].status # "absent" => journey[s] = "cancelled"
       /\ journey[s] \in {"ordered", "cancelled", "delivered"} =>
            session[s] \in {"captured", "cod_pending", "cod_finalized"}

\* An answer a worker holds agrees with WLT until it is recorded.
AnswersAgree ==
  \A w \in Workers : \A j \in work[w] : j.stage \in Actions => Agrees(j.ev, j.stage)

OutboxInv ==
  /\ TypeOK /\ LeaseExclusive /\ BudgetLeft /\ BlankRow /\ OrderIsPaid
  /\ SentAgreesWithWlt /\ AnswersAgree
=============================================================================
