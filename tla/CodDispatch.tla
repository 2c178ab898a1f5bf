---------------------------- MODULE CodDispatch ----------------------------
(***************************************************************************)
(* One order paid in cash on delivery, from the moment the store has it    *)
(* ready: the captain offers of dispatch, the accept handler that reserves *)
(* the captain's wallet at WLT before it takes the offer, the store        *)
(* handoff and the delivery, the cancellation of the order in its three    *)
(* transactions, the release row of the finance outbox (its own life is in *)
(* CheckoutFinanceOutbox) and the completion row of the WLT outbox with    *)
(* its workers.  Each action is one database transaction or one call.      *)
(***************************************************************************)
EXTENDS Naturals, FiniteSets

CONSTANTS
  Captains,
  Offers,        \* rows of dsh_assignments, each with its delivery row
  Requests,      \* running instances of the accept handler
  Keys,          \* idempotency keys the captain applications have stored
  Workers,       \* instances of the WLT outbox worker
  None,
  MaxReadbacks,  \* MaxReadbackAttempts
  MaxFaults      \* bound on stops, failed calls and failed reads

ASSUME DispatchAssumption ==
  /\ MaxReadbacks \in Nat \ {0} /\ MaxFaults \in Nat
  /\ None \notin Captains \cup Offers

VARIABLES
  method,        \* payment method of the order: cod or mixed
  order,         \* status of the order
  offer,         \* assignment and delivery rows
  receipts,      \* dsh_captain_assignment_command_receipts: <<offer, key>>
  request,       \* how far each accept handler is, and what it has read
  reservation,   \* wlt_cod_reservations: the one row of this order
  release,       \* release_cod_reservation row of the finance outbox: ReleaseDuty's duty
  case,          \* dsh_order_cancellations: the one case of this order
  canceller,     \* CancelOrderSync: which of its transactions comes next
  completion,    \* delivery_completed row of dsh_wlt_outbox_events
  commission,    \* WLT has posted the commission of the delivery
  worker,        \* what each worker holds of the completion row
  blind,         \* history: offers an accept handler took for prepaid
  faults

dispatch == <<order, offer>>
handler == <<receipts, request, blind>>
wlt == <<reservation, commission>>
cancellation == <<case, canceller>>
outbox == <<completion, worker>>
vars == <<method, dispatch, handler, wlt, release, cancellation, outbox, faults>>

OrderStatus == {"ready_for_pickup", "driver_assigned", "driver_arrived_store",
                "store_handoff_confirmed", "picked_up", "delivered", "cancelled"}
AssignmentStatus == {"absent", "offered", "accepted", "declined", "cancelled", "completed"}
DeliveryStatus == {"assigned", "driver_assigned", "driver_arrived_store", "picked_up",
                   "delivered", "cancelled"}

Absent == [status |-> "absent", captain |-> None, delivery |-> "assigned", due |-> FALSE]
Idle == [stage |-> "idle", offer |-> None, cod |-> FALSE]

Init ==
  /\ method \in {"cod", "mixed"}
  /\ order = "ready_for_pickup"
  /\ offer = [x \in Offers |-> Absent]
  /\ receipts = {}
  /\ request = [r \in Requests |-> Idle]
  /\ reservation = [status |-> "none", holder |-> None]
  /\ release = "absent"
  /\ case = [status |-> "none", from |-> "ready_for_pickup"]
  /\ canceller = "idle"
  /\ completion = [status |-> "absent", readbacks |-> 0]
  /\ commission = FALSE
  /\ worker = [k \in Workers |-> "idle"]
  /\ blind = {}
  /\ faults = 0

(***************************************************************************)
(* Offers of dispatch.                                                     *)
(***************************************************************************)
Active(x) == offer[x].status \in {"offered", "accepted"}

\* Captains who have not reached the store yet: the offer can still be withdrawn.
Withdrawable(x) == Active(x) /\ offer[x].delivery \in {"assigned", "driver_assigned"}

Fresh(c) == [status |-> "offered", captain |-> c, delivery |-> "assigned", due |-> FALSE]
Closed(x, status, delivery) ==
  [offer[x] EXCEPT !.status = status, !.delivery = delivery, !.due = FALSE]

\* Mutant of Enqueued: the row of an earlier release is taken again.
EnqueuedAgain == "pending"

\* One release row for an order's session: a second insert is dropped.
Enqueued == IF release = "absent" THEN "pending" ELSE release

CreateGovernedAssignment(x, c) ==
  /\ order = "ready_for_pickup" /\ offer[x].status = "absent"
  /\ \A y \in Offers : ~Active(y)
  /\ order' = "driver_assigned"
  /\ offer' = [offer EXCEPT ![x] = Fresh(c)]
  /\ UNCHANGED <<method, handler, wlt, release, cancellation, outbox, faults>>

\* response_deadline_at passes.
DeadlinePasses(x) ==
  /\ offer[x].status = "offered" /\ ~offer[x].due
  /\ offer' = [offer EXCEPT ![x].due = TRUE]
  /\ UNCHANGED <<method, order, handler, wlt, release, cancellation, outbox, faults>>

\* The offer leaves the order, and the order waits for a captain again.
ReturnToPool(x, status, delivery) ==
  /\ order = "driver_assigned"
  /\ order' = "ready_for_pickup"
  /\ offer' = [offer EXCEPT ![x] = Closed(x, status, delivery)]
  /\ release' = Enqueued

Decline(x) ==
  /\ offer[x].status = "offered" /\ ~offer[x].due
  /\ ReturnToPool(x, "declined", "assigned")
  /\ UNCHANGED <<method, handler, wlt, cancellation, outbox, faults>>

\* The operator's sweep, or a late decline.
ExpireAssignment(x) ==
  /\ offer[x].status = "offered" /\ offer[x].due
  /\ ReturnToPool(x, "cancelled", "cancelled")
  /\ UNCHANGED <<method, handler, wlt, cancellation, outbox, faults>>

CancelGovernedAssignment(x) ==
  /\ Withdrawable(x)
  /\ ReturnToPool(x, "cancelled", "cancelled")
  /\ UNCHANGED <<method, handler, wlt, cancellation, outbox, faults>>

ReassignGovernedAssignment(x, y, c) ==
  /\ Withdrawable(x) /\ offer[y].status = "absent" /\ order = "driver_assigned"
  /\ offer' = [offer EXCEPT ![x] = Closed(x, "cancelled", "cancelled"), ![y] = Fresh(c)]
  /\ release' = Enqueued
  /\ UNCHANGED <<method, order, handler, wlt, cancellation, outbox, faults>>

(***************************************************************************)
(* The accept handler: read, reserve at WLT, take the offer, and put a     *)
(* release in the outbox when the offer was not taken after all.           *)
(***************************************************************************)
Become(r, stage) == request' = [request EXCEPT ![r].stage = stage]
Answer(r) == request' = [request EXCEPT ![r] = Idle]

\* The assignment is read whatever its status; when the read of the order's
\* payment context fails, the handler goes on as for a prepaid order.
AcceptRead(r, x) ==
  /\ request[r].stage = "idle" /\ offer[x].status # "absent"
  /\ \/ /\ request' = [request EXCEPT ![r] =
               [stage |-> "reserving", offer |-> x, cod |-> TRUE]]
        /\ UNCHANGED <<blind, faults>>
     \/ /\ faults < MaxFaults /\ faults' = faults + 1
        /\ request' = [request EXCEPT ![r] =
               [stage |-> "accepting", offer |-> x, cod |-> FALSE]]
        /\ blind' = blind \cup {x}
  /\ UNCHANGED <<method, dispatch, receipts, wlt, release, cancellation, outbox>>

\* WLT: the order's row is created once; the same captain is answered with it
\* whatever its status, another captain is refused.
Reserve(c) ==
  /\ reservation.status = "none"
  /\ reservation' = [status |-> "reserved", holder |-> c]
\* Mutant of Replayed: answered whoever holds the row.
ReplayedToAnyone(c) == reservation.status # "none" /\ UNCHANGED reservation

Replayed(c) == reservation.status # "none" /\ reservation.holder = c /\ UNCHANGED reservation

ReserveCodCapacity(r) ==
  LET c == offer[request[r].offer].captain IN
  /\ request[r].stage = "reserving"
  /\ Reserve(c) \/ Replayed(c)
  /\ Become(r, "accepting")
  /\ UNCHANGED <<method, dispatch, receipts, blind, commission, release, cancellation,
                 outbox, faults>>

\* Mutant of ReservationRefused: the handler goes on.
ReservationRefusedIgnored(r) ==
  /\ request[r].stage = "reserving"
  /\ Become(r, "accepting")
  /\ UNCHANGED <<method, dispatch, receipts, blind, wlt, release, cancellation, outbox, faults>>

\* Too little in the wallet, a row of another captain, or WLT did not answer.
ReservationRefused(r) ==
  /\ request[r].stage = "reserving"
  /\ Answer(r)
  /\ UNCHANGED <<method, dispatch, receipts, blind, wlt, release, cancellation, outbox, faults>>

\* The key k that came with the request is first looked at here.
AcceptReplayed(r, k) ==
  /\ request[r].stage = "accepting" /\ <<request[r].offer, k>> \in receipts
  /\ Answer(r)
  /\ UNCHANGED <<method, dispatch, receipts, blind, wlt, release, cancellation, outbox, faults>>

Accept(r, k) ==
  LET x == request[r].offer IN
  /\ request[r].stage = "accepting" /\ <<x, k>> \notin receipts
  /\ offer[x].status = "offered" /\ ~offer[x].due
  /\ offer' = [offer EXCEPT ![x] = Closed(x, "accepted", "driver_assigned")]
  /\ receipts' = receipts \cup {<<x, k>>}
  /\ Answer(r)
  /\ UNCHANGED <<method, order, blind, wlt, release, cancellation, outbox, faults>>

\* Mutant of Refused: nothing is released after a refused accept.
RefusedQuietly(r) == Answer(r)

Refused(r) == IF request[r].cod THEN Become(r, "refused") ELSE Answer(r)

\* The offer was actioned meanwhile, or the captain is no longer eligible.
AcceptRefused(r, k) ==
  /\ request[r].stage = "accepting" /\ <<request[r].offer, k>> \notin receipts
  /\ offer[request[r].offer].due => offer[request[r].offer].status # "offered"
  /\ Refused(r)
  /\ UNCHANGED <<method, dispatch, receipts, blind, wlt, release, cancellation, outbox, faults>>

AcceptTooLate(r, k) ==
  LET x == request[r].offer IN
  /\ request[r].stage = "accepting" /\ <<x, k>> \notin receipts
  /\ offer[x].status = "offered" /\ offer[x].due
  /\ ReturnToPool(x, "cancelled", "cancelled")
  /\ Refused(r)
  /\ UNCHANGED <<method, receipts, blind, wlt, cancellation, outbox, faults>>

ReadBackAssignment(r) ==
  /\ request[r].stage = "refused"
  /\ IF offer[request[r].offer].status = "accepted" THEN Answer(r) ELSE Become(r, "releasing")
  /\ UNCHANGED <<method, dispatch, receipts, blind, wlt, release, cancellation, outbox, faults>>

EnqueueRelease(r) ==
  /\ request[r].stage = "releasing"
  /\ release' = Enqueued
  /\ Answer(r)
  /\ UNCHANGED <<method, dispatch, receipts, blind, wlt, cancellation, outbox, faults>>

\* The service stops, or a read or the insert of the release fails; after
\* ReserveCodCapacity also: WLT's answer was lost.
AcceptAbandoned(r) ==
  /\ request[r].stage # "idle"
  /\ faults < MaxFaults /\ faults' = faults + 1
  /\ Answer(r)
  /\ UNCHANGED <<method, dispatch, receipts, blind, wlt, release, cancellation, outbox>>

(***************************************************************************)
(* The release row, as ReleaseDuty has it: "answered" is a row in          *)
(* processing whose worker knows that nothing is held any more.            *)
(***************************************************************************)
\* WLT executes the release: asked by whoever has the row, who may learn of it, by a
\* worker that lost the row, or late.
ReleaseCodReservation ==
  /\ release # "absent" /\ reservation.status = "reserved"
  /\ reservation' = [reservation EXCEPT !.status = "released"]
  /\ release' = release \/ (release = "pending" /\ release' = "answered")
  /\ UNCHANGED <<method, dispatch, handler, commission, cancellation, outbox, faults>>

\* There is no reservation to release, no longer or not yet: the worker reads that back.
ReleaseNotNeeded ==
  /\ release = "pending" /\ release' = "answered" /\ reservation.status # "reserved"
  /\ UNCHANGED <<method, dispatch, handler, wlt, cancellation, outbox, faults>>

ReleaseMoves(from, to) ==
  /\ release = from /\ release' = to
  /\ UNCHANGED <<method, dispatch, handler, wlt, cancellation, outbox, faults>>

ReleaseForgotten == ReleaseMoves("answered", "pending")
ReleaseSent == ReleaseMoves("answered", "sent")
ReleaseGivenUp == ReleaseMoves("pending", "failed")
RetryRelease == ReleaseMoves("failed", "pending")

(***************************************************************************)
(* The store handoff and the delivery; arrived_customer is left out.       *)
(***************************************************************************)
Advance(x, from, to) ==
  /\ offer[x].status = "accepted" /\ offer[x].delivery = from
  /\ offer' = [offer EXCEPT ![x].delivery = to]

ArriveAtStore(x) ==
  /\ Advance(x, "driver_assigned", "driver_arrived_store")
  /\ order = "driver_assigned" /\ order' = "driver_arrived_store"
  /\ UNCHANGED <<method, handler, wlt, release, cancellation, outbox, faults>>

ConfirmStoreCaptainHandoff(x) ==
  /\ offer[x].status = "accepted" /\ offer[x].delivery = "driver_arrived_store"
  /\ order = "driver_arrived_store" /\ order' = "store_handoff_confirmed"
  /\ UNCHANGED <<method, offer, handler, wlt, release, cancellation, outbox, faults>>

PickUp(x) ==
  /\ Advance(x, "driver_arrived_store", "picked_up")
  /\ order = "store_handoff_confirmed" /\ order' = "picked_up"
  /\ UNCHANGED <<method, handler, wlt, release, cancellation, outbox, faults>>

\* Proof of delivery accepted.  Only the method cod puts a completion in the
\* WLT outbox.
Deliver(x) ==
  /\ offer[x].status = "accepted" /\ offer[x].delivery = "picked_up"
  /\ order = "picked_up" /\ order' = "delivered"
  /\ offer' = [offer EXCEPT ![x] = Closed(x, "completed", "delivered")]
  /\ completion' = [completion EXCEPT
       !.status = IF method = "cod" THEN "pending" ELSE completion.status]
  /\ UNCHANGED <<method, handler, wlt, release, cancellation, worker, faults>>

(***************************************************************************)
(* Cancellation of the order: case, action and execution each in their     *)
(* own transaction.  Repeating the command resumes its case.               *)
(***************************************************************************)
Cancellable == {"ready_for_pickup", "driver_assigned", "driver_arrived_store"}

CreateCancellationCase ==
  /\ canceller = "idle"
  /\ \/ /\ case.status = "none" /\ order \in Cancellable
        /\ case' = [case EXCEPT !.status = "approved", !.from = order]
     \/ case.status = "approved" /\ UNCHANGED case
  /\ canceller' = "action"
  /\ UNCHANGED <<method, dispatch, handler, wlt, release, outbox, faults>>

\* The action row is inserted once and stays pending until it is executed.
CreateCancellationAction ==
  /\ canceller = "action" /\ canceller' = "execute"
  /\ UNCHANGED <<method, dispatch, handler, wlt, release, case, outbox, faults>>

InCustody == \E x \in Offers : Active(x) /\ offer[x].delivery = "picked_up"

CancelledWith(x) == [offer[x] EXCEPT
  !.status = IF Active(x) THEN "cancelled" ELSE offer[x].status,
  !.delivery = IF offer[x].status # "absent" /\ offer[x].delivery \notin {"delivered", "picked_up"}
               THEN "cancelled" ELSE offer[x].delivery]

\* Mutant of Unmoved: the action is executed on whatever status the order has now.
UnmovedUnread == ~InCustody

\* The order is where the case was decided.
Unmoved == order = case.from /\ ~InCustody

\* The assignments are cancelled with the order, without a release of the
\* captain's reservation.
ExecuteCancellationAction ==
  /\ canceller = "execute" /\ Unmoved
  /\ order' = "cancelled"
  /\ offer' = [x \in Offers |-> CancelledWith(x)]
  /\ case' = [case EXCEPT !.status = "cancelled"]
  /\ canceller' = "idle"
  /\ UNCHANGED <<method, handler, wlt, release, outbox, faults>>

\* The order has moved on: the transaction is rolled back, the case stays
\* approved.
ExecutionRefused ==
  /\ canceller = "execute" /\ ~Unmoved
  /\ canceller' = "idle"
  /\ UNCHANGED <<method, dispatch, handler, wlt, release, case, outbox, faults>>

CancellerStops ==
  /\ canceller # "idle" /\ canceller' = "idle"
  /\ faults < MaxFaults /\ faults' = faults + 1
  /\ UNCHANGED <<method, dispatch, handler, wlt, release, case, outbox>>

(***************************************************************************)
(* The completion row and its workers.  A row in processing is claimed     *)
(* again once its lease has lapsed, which here may be at any time: a batch *)
(* of twenty calls of ten seconds outlasts the lease of two minutes.       *)
(***************************************************************************)
Claim(k) ==
  /\ worker[k] = "idle" /\ completion.status \in {"pending", "processing", "unknown"}
  /\ worker' = [worker EXCEPT ![k] =
       IF completion.status = "unknown" THEN "reading" ELSE "delivering"]
  /\ completion' = [completion EXCEPT !.status = "processing"]
  /\ UNCHANGED <<method, dispatch, handler, wlt, release, cancellation, faults>>

Reach(k, stage) == worker' = [worker EXCEPT ![k] = stage]

\* Mutant of FinalizeCodReservation: a finalized reservation is refused.
FinalizeOnce(k) ==
  /\ worker[k] = "delivering"
  /\ IF reservation.status = "reserved"
     THEN /\ reservation' = [reservation EXCEPT !.status = "finalized"]
          /\ Reach(k, "finalized")
     ELSE /\ UNCHANGED reservation
          /\ Reach(k, "doubt")
  /\ UNCHANGED <<method, dispatch, handler, commission, release, cancellation, completion, faults>>

\* WLT: reservation and wallet debit in one transaction, replayed when done.
FinalizeCodReservation(k) ==
  /\ worker[k] = "delivering"
  /\ IF reservation.status \in {"reserved", "finalized"}
     THEN /\ reservation' = [reservation EXCEPT !.status = "finalized"]
          /\ Reach(k, "finalized")
     ELSE /\ UNCHANGED reservation
          /\ Reach(k, "doubt")
  /\ UNCHANGED <<method, dispatch, handler, commission, release, cancellation, completion, faults>>

DeliverCaptainCommission(k) ==
  /\ worker[k] = "finalized"
  /\ commission' = TRUE
  /\ Reach(k, "done")
  /\ UNCHANGED <<method, dispatch, handler, reservation, release, cancellation, completion, faults>>

\* Mutant of ReadDeliveryCompletion: the commission is not read back.
ReadReservationOnly(k) ==
  /\ worker[k] = "reading"
  /\ Reach(k, IF reservation.status = "finalized" THEN "present" ELSE "absent")
  /\ UNCHANGED <<method, dispatch, handler, wlt, release, cancellation, completion, faults>>

ReadDeliveryCompletion(k) ==
  /\ worker[k] = "reading"
  /\ Reach(k, IF reservation.status = "finalized" /\ commission THEN "present" ELSE "absent")
  /\ UNCHANGED <<method, dispatch, handler, wlt, release, cancellation, completion, faults>>

\* A call fails, at "finalized" and "done" after WLT has performed it.
CallFails(k) ==
  /\ worker[k] \in {"delivering", "finalized", "reading", "done"}
  /\ faults < MaxFaults /\ faults' = faults + 1
  /\ Reach(k, "doubt")
  /\ UNCHANGED <<method, dispatch, handler, wlt, release, cancellation, completion>>

\* A row that is no longer in processing is left as it is.
Marked(row) == completion' = IF completion.status = "processing" THEN row ELSE completion

MarkSentWithReference(k) ==
  /\ worker[k] \in {"done", "present"} /\ Reach(k, "idle")
  /\ Marked([completion EXCEPT !.status = "sent"])
  /\ UNCHANGED <<method, dispatch, handler, wlt, release, cancellation, faults>>

MarkUnknown(k) ==
  /\ worker[k] = "doubt" /\ Reach(k, "idle")
  /\ Marked([status |-> IF completion.readbacks + 1 >= MaxReadbacks THEN "failed" ELSE "unknown",
             readbacks |-> completion.readbacks + 1])
  /\ UNCHANGED <<method, dispatch, handler, wlt, release, cancellation, faults>>

\* Absent by readback.  Its limit of fifteen attempts is left out.
MarkFailed(k) ==
  /\ worker[k] = "absent" /\ Reach(k, "idle")
  /\ Marked([completion EXCEPT !.status = "pending"])
  /\ UNCHANGED <<method, dispatch, handler, wlt, release, cancellation, faults>>

WorkerStops(k) ==
  /\ worker[k] # "idle" /\ Reach(k, "idle")
  /\ faults < MaxFaults /\ faults' = faults + 1
  /\ UNCHANGED <<method, dispatch, handler, wlt, release, cancellation, completion>>

RetryFailed ==
  /\ completion.status = "failed"
  /\ completion' = [status |-> "pending", readbacks |-> 0]
  /\ UNCHANGED <<method, dispatch, handler, wlt, release, cancellation, worker, faults>>

(***************************************************************************)
(* The specification.                                                      *)
(***************************************************************************)
OfferStep ==
  \E x \in Offers :
    \/ \E c \in Captains : CreateGovernedAssignment(x, c)
    \/ \E y \in Offers, c \in Captains : ReassignGovernedAssignment(x, y, c)
    \/ DeadlinePasses(x) \/ Decline(x) \/ ExpireAssignment(x)
    \/ CancelGovernedAssignment(x)

AcceptStep ==
  \E r \in Requests :
    \/ \E x \in Offers : AcceptRead(r, x)
    \/ ReserveCodCapacity(r) \/ ReservationRefused(r)
    \/ \E k \in Keys :
         AcceptReplayed(r, k) \/ Accept(r, k) \/ AcceptRefused(r, k) \/ AcceptTooLate(r, k)
    \/ ReadBackAssignment(r) \/ EnqueueRelease(r) \/ AcceptAbandoned(r)

DeliveryStep ==
  \E x \in Offers :
    ArriveAtStore(x) \/ ConfirmStoreCaptainHandoff(x) \/ PickUp(x) \/ Deliver(x)

ReleaseStep ==
  \/ ReleaseCodReservation \/ ReleaseNotNeeded \/ ReleaseForgotten
  \/ ReleaseSent \/ ReleaseGivenUp \/ RetryRelease

CancelStep ==
  \/ CreateCancellationCase \/ CreateCancellationAction
  \/ ExecuteCancellationAction \/ ExecutionRefused \/ CancellerStops

CompletionStep ==
  \/ \E k \in Workers :
       \/ Claim(k) \/ FinalizeCodReservation(k) \/ DeliverCaptainCommission(k)
       \/ ReadDeliveryCompletion(k) \/ CallFails(k)
       \/ MarkSentWithReference(k) \/ MarkUnknown(k) \/ MarkFailed(k) \/ WorkerStops(k)
  \/ RetryFailed

Next ==
  OfferStep \/ AcceptStep \/ DeliveryStep \/ ReleaseStep \/ CancelStep \/ CompletionStep

Spec == Init /\ [][Next]_vars

(***************************************************************************)
(* Properties.                                                             *)
(***************************************************************************)
\* Every variable keeps its type; readbacks stay below the limit of the outbox.
TypeOK ==
  /\ method \in {"cod", "mixed"}
  /\ order \in OrderStatus
  /\ offer \in [Offers -> [status : AssignmentStatus, captain : Captains \cup {None},
                           delivery : DeliveryStatus, due : BOOLEAN]]
  /\ receipts \subseteq Offers \X Keys
  /\ request \in [Requests ->
       [stage : {"idle", "reserving", "accepting", "refused", "releasing"},
        offer : Offers \cup {None}, cod : BOOLEAN]]
  /\ reservation \in [status : {"none", "reserved", "released", "finalized"},
                      holder : Captains \cup {None}]
  /\ release \in {"absent", "pending", "answered", "sent", "failed"}
  /\ case \in [status : {"none", "approved", "cancelled"}, from : OrderStatus]
  /\ canceller \in {"idle", "action", "execute"}
  /\ completion \in [status : {"absent", "pending", "processing", "unknown", "sent", "failed"},
                     readbacks : 0..MaxReadbacks]
  /\ commission \in BOOLEAN
  /\ worker \in [Workers -> {"idle", "delivering", "reading", "finalized", "done",
                             "present", "doubt", "absent"}]
  /\ blind \subseteq Offers
  /\ faults \in 0..MaxFaults

\* Where an order, its one live assignment and its delivery may be together.
Together == {
  <<"driver_assigned", "offered", "assigned">>,
  <<"driver_assigned", "accepted", "driver_assigned">>,
  <<"driver_arrived_store", "accepted", "driver_arrived_store">>,
  <<"store_handoff_confirmed", "accepted", "driver_arrived_store">>,
  <<"picked_up", "accepted", "picked_up">>,
  <<"delivered", "completed", "delivered">>}

Engaged(x) == Active(x) \/ offer[x].status = "completed"

\* An order has a captain exactly while it is on its way or delivered, one
\* only, whose delivery is where the order is; accepts, declines, expiries,
\* reassignments and the order's cancellation race for it (dsh-007 has a
\* unique index, but nothing ties the order's status to the assignment).
ActiveFitsOrder ==
  /\ order \notin {"ready_for_pickup", "cancelled"} => \E x \in Offers : Engaged(x)
  /\ \A x \in Offers : Engaged(x) =>
       /\ <<order, offer[x].status, offer[x].delivery>> \in Together
       /\ \A y \in Offers : Engaged(y) => y = x

\* The order as OrderCustody sees it: one captain at a time, who accepts before going to
\* the store, is not replaced from there on, and keeps an order that was handed over; no
\* cancellation decided on an earlier status takes it away
\* (executePreCustodyCancellationAction, ReassignGovernedAssignment).
Custody == INSTANCE OrderCustody WITH
  captains <- {offer[x].captain : x \in {y \in Offers : Engaged(y)}},
  accepted <- \E x \in Offers : offer[x].status \in {"accepted", "completed"}
CustodyKept == Custody!Spec

\* WLT debits the wallet of the captain who delivered, although the worker
\* names only the order and the reservation may stem from an earlier offer;
\* the exception is an offer accepted after a failed read of its context.
DebitedIsDeliverer ==
  reservation.status = "finalized" =>
    \E x \in Offers : /\ offer[x].status = "completed"
                      /\ x \in blind \/ offer[x].captain = reservation.holder

\* Until an offer of the order has been given up, a captain who accepted has
\* the order's amount reserved, or debited once it is delivered.
FundedUntilRelease ==
  release = "absent" =>
    \A x \in Offers \ blind : offer[x].status \in {"accepted", "completed"} =>
      /\ reservation.holder = offer[x].captain
      /\ reservation.status \in {"reserved", "finalized"}

Reserving(c) ==
  \E r \in Requests : /\ request[r].stage \in {"accepting", "refused", "releasing"}
                      /\ request[r].cod /\ offer[request[r].offer].captain = c

\* A captain's wallet stays reserved for an order the captain has nothing to
\* do with only after a stop or a failed call, when the order was cancelled
\* after the captain had accepted it, or when the order's one release row had
\* been used or waits to be delivered.
ReservationExplained ==
  reservation.status = "reserved" /\ faults = 0 /\ release = "absent" =>
    \/ Reserving(reservation.holder)
    \/ \E x \in Offers :
         /\ offer[x].captain = reservation.holder
         /\ \/ Engaged(x)
            \/ order = "cancelled" /\ \E k \in Keys : <<x, k>> \in receipts

\* A completion reported as sent has been debited and its commission posted,
\* whichever of several workers marked the row.
SentIsFinalized ==
  completion.status = "sent" => reservation.status = "finalized" /\ commission

\* When no call failed and nothing stopped, a completion ends in failed, where
\* only an operator looks, only because the reservation had been released.
FailureExplained ==
  completion.status = "failed" /\ faults = 0 => reservation.status = "released"

\* The release row and the reservation do what ReleaseDuty allows, which the rows of
\* CheckoutFinanceOutbox do too: the row is queued once and no other way, and WLT releases
\* nothing that no offer was given up for (EnqueueCodReservationReleaseForOrder).
Duty == INSTANCE ReleaseDuty WITH
  duty <- release,
  reservation <- IF reservation.status = "none" THEN "absent" ELSE reservation.status
ReleaseAsPromised == Duty!Spec

\* PRD.md:83: required COD exposure is reserved before assignment is allowed.
AcceptedIsFunded ==
  \A x \in Offers : offer[x].status = "accepted" =>
    reservation = [status |-> "reserved", holder |-> offer[x].captain]
=============================================================================
