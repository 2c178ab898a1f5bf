-------------------------- MODULE CodDispatchProofs --------------------------
(***************************************************************************)
(* Proofs about CodDispatch, for any captains, offers, handlers, keys and  *)
(* workers and any bounds: who holds the order, whose wallet is reserved   *)
(* and debited, what a completion's status says, and how the order and its *)
(* release row implement OrderCustody and ReleaseDuty.                     *)
(***************************************************************************)
EXTENDS CodDispatch, TLAPS

\* A completion row that has not ended has a readback left in its budget.
ReadsLeft ==
  completion.status \in {"absent", "pending", "processing", "unknown"} =>
    completion.readbacks < MaxReadbacks

\* A completion row exists, and is worked on, only for an order that was delivered.
RowOfDelivery ==
  /\ completion.status # "absent" => order = "delivered"
  /\ \A k \in Workers : worker[k] # "idle" => completion.status # "absent"

\* Only a cancellable status is written to the case.
CaseFits == case.from \in Cancellable

\* A handler that has begun names an offer, whose captain is one.
HandlerOpen ==
  /\ \A r \in Requests : request[r].stage # "idle" =>
       request[r].offer \in Offers /\ offer[request[r].offer].status # "absent"
  /\ \A x \in Offers : offer[x].status # "absent" => offer[x].captain \in Captains

Row == [status : AssignmentStatus, captain : Captains \cup {None},
        delivery : DeliveryStatus, due : BOOLEAN]

Typed == TypeOK /\ ReadsLeft /\ RowOfDelivery /\ CaseFits /\ HandlerOpen

LEMMA InitTyped == Init => Typed
<1> SUFFICES ASSUME Init PROVE Typed OBVIOUS
<1> USE DEF Init
<1>1. method \in {"cod", "mixed"} /\ order \in OrderStatus BY DEF OrderStatus
<1>2. offer \in [Offers -> [status : AssignmentStatus, captain : Captains \cup {None},
                           delivery : DeliveryStatus, due : BOOLEAN]]
  BY DEF Absent, AssignmentStatus, DeliveryStatus
<1>3. receipts \subseteq Offers \X Keys /\ blind \subseteq Offers OBVIOUS
<1>4. request \in [Requests ->
       [stage : {"idle", "reserving", "accepting", "refused", "releasing"},
        offer : Offers \cup {None}, cod : BOOLEAN]]
  BY DEF Idle
<1>5. reservation \in [status : {"none", "reserved", "released", "finalized"},
                      holder : Captains \cup {None}]
  OBVIOUS
<1>6. /\ release \in {"absent", "pending", "answered", "sent", "failed"}
      /\ case \in [status : {"none", "approved", "cancelled"}, from : OrderStatus]
      /\ canceller \in {"idle", "action", "execute"}
  BY DEF OrderStatus
<1>7. completion \in [status : {"absent", "pending", "processing", "unknown", "sent", "failed"},
                     readbacks : 0..MaxReadbacks]
  BY DispatchAssumption
<1>8. commission \in BOOLEAN OBVIOUS
<1>9. /\ worker \in [Workers -> {"idle", "delivering", "reading", "finalized", "done",
                             "present", "doubt", "absent"}]
      /\ faults \in 0..MaxFaults
  BY DispatchAssumption
<1>10. ReadsLeft BY DispatchAssumption DEF ReadsLeft
<1>11. CaseFits BY DEF CaseFits, Cancellable
<1>12. HandlerOpen BY DEF HandlerOpen, Idle, Absent
<1>13. RowOfDelivery BY DEF RowOfDelivery
<1> QED
  BY <1>1, <1>2, <1>3, <1>4, <1>5, <1>6, <1>7, <1>8, <1>9, <1>10, <1>11, <1>12, <1>13
  DEF Typed, TypeOK

\* What a step on the offers keeps of their types.
OffersTyped ==
  /\ offer \in [Offers -> Row]
  /\ \A x \in Offers : offer[x].status # "absent" => offer[x].captain \in Captains

\* An offer that was made stays with its captain.
CaptainsKept ==
  \A x \in Offers : offer[x].status # "absent" =>
    offer'[x].status # "absent" /\ offer'[x].captain = offer[x].captain

LEMMA FreshRow == ASSUME NEW c \in Captains PROVE Fresh(c) \in Row
BY DEF Fresh, Row, AssignmentStatus, DeliveryStatus

LEMMA ClosedRow ==
  ASSUME offer \in [Offers -> Row], NEW x \in Offers, NEW s \in AssignmentStatus, NEW d \in DeliveryStatus
  PROVE  /\ Closed(x, s, d) \in Row
         /\ Closed(x, s, d).status = s /\ Closed(x, s, d).captain = offer[x].captain
BY DEF Closed, Row

LEMMA OneRow ==
  ASSUME OffersTyped, NEW x \in Offers, NEW row \in Row, row.status # "absent",
         row.captain \in Captains, offer' = [offer EXCEPT ![x] = row],
         offer[x].status = "absent" \/ row.captain = offer[x].captain
  PROVE  OffersTyped' /\ CaptainsKept
BY DEF OffersTyped, CaptainsKept

LEMMA CloseOne ==
  ASSUME OffersTyped, NEW x \in Offers, NEW s \in AssignmentStatus, NEW d \in DeliveryStatus,
         s # "absent", offer[x].status # "absent", offer' = [offer EXCEPT ![x] = Closed(x, s, d)]
  PROVE  OffersTyped' /\ CaptainsKept
<1>1. /\ Closed(x, s, d) \in Row
      /\ Closed(x, s, d).status = s /\ Closed(x, s, d).captain = offer[x].captain
  BY ClosedRow DEF OffersTyped
<1>2. offer[x].captain \in Captains BY DEF OffersTyped
<1> QED BY <1>1, <1>2, OneRow

LEMMA OfferTyped == OffersTyped /\ OfferStep => OffersTyped' /\ CaptainsKept
<1> SUFFICES ASSUME OffersTyped, OfferStep PROVE OffersTyped' /\ CaptainsKept OBVIOUS
<1> USE DEF AssignmentStatus, DeliveryStatus
<1>1. ASSUME NEW x \in Offers, NEW c \in Captains, CreateGovernedAssignment(x, c)
      PROVE  OffersTyped' /\ CaptainsKept
  <2>1. Fresh(c) \in Row /\ Fresh(c).status # "absent" /\ Fresh(c).captain \in Captains
    BY FreshRow DEF Fresh
  <2> QED BY <1>1, <2>1, OneRow DEF CreateGovernedAssignment
<1>2. ASSUME NEW x \in Offers, NEW y \in Offers, NEW c \in Captains,
             ReassignGovernedAssignment(x, y, c)
      PROVE  OffersTyped' /\ CaptainsKept
  <2>1. Fresh(c) \in Row /\ Fresh(c).status # "absent" /\ Fresh(c).captain \in Captains
    BY FreshRow DEF Fresh
  <2> DEFINE old == Closed(x, "cancelled", "cancelled")
  <2>2. old \in Row /\ old.status # "absent" /\ old.captain = offer[x].captain
    BY ClosedRow DEF OffersTyped
  <2>3. /\ offer[x].status # "absent" /\ offer[y].status = "absent"
        /\ offer' = [offer EXCEPT ![x] = old, ![y] = Fresh(c)]
    BY <1>2 DEF ReassignGovernedAssignment, Withdrawable, Active
  <2> HIDE DEF old
  <2> QED BY <2>1, <2>2, <2>3 DEF OffersTyped, CaptainsKept
<1>3. ASSUME NEW x \in Offers, DeadlinePasses(x) PROVE OffersTyped' /\ CaptainsKept
  BY <1>3 DEF DeadlinePasses, OffersTyped, CaptainsKept, Row
<1>4. ASSUME NEW x \in Offers, Decline(x) PROVE OffersTyped' /\ CaptainsKept
  BY <1>4, CloseOne DEF Decline, ReturnToPool
<1>5. ASSUME NEW x \in Offers, ExpireAssignment(x) PROVE OffersTyped' /\ CaptainsKept
  BY <1>5, CloseOne DEF ExpireAssignment, ReturnToPool
<1>6. ASSUME NEW x \in Offers, CancelGovernedAssignment(x) PROVE OffersTyped' /\ CaptainsKept
  BY <1>6, CloseOne DEF CancelGovernedAssignment, ReturnToPool, Withdrawable, Active
<1> QED BY <1>1, <1>2, <1>3, <1>4, <1>5, <1>6 DEF OfferStep

LEMMA AcceptOffers ==
  ASSUME OffersTyped, HandlerOpen, NEW r \in Requests,
         \/ \E k \in Keys : Accept(r, k) \/ AcceptTooLate(r, k)
         \/ UNCHANGED offer
  PROVE  OffersTyped' /\ CaptainsKept
<1>1. CASE UNCHANGED offer BY <1>1 DEF OffersTyped, CaptainsKept
<1>2. ASSUME NEW k \in Keys, Accept(r, k) PROVE OffersTyped' /\ CaptainsKept
  <2>1. request[r].offer \in Offers BY <1>2 DEF Accept, HandlerOpen
  <2> QED BY <1>2, <2>1, CloseOne DEF Accept, AssignmentStatus, DeliveryStatus
<1>3. ASSUME NEW k \in Keys, AcceptTooLate(r, k) PROVE OffersTyped' /\ CaptainsKept
  <2>1. request[r].offer \in Offers BY <1>3 DEF AcceptTooLate, HandlerOpen
  <2> QED BY <1>3, <2>1, CloseOne DEF AcceptTooLate, ReturnToPool, AssignmentStatus, DeliveryStatus
<1> QED BY <1>1, <1>2, <1>3

LEMMA AcceptFrame ==
  ASSUME NEW r \in Requests
  PROVE  /\ \A x \in Offers : AcceptRead(r, x) => UNCHANGED offer
         /\ ReserveCodCapacity(r) \/ ReservationRefused(r) \/ ReadBackAssignment(r)
            \/ EnqueueRelease(r) \/ AcceptAbandoned(r) => UNCHANGED offer
         /\ \A k \in Keys : AcceptReplayed(r, k) \/ AcceptRefused(r, k) => UNCHANGED offer
BY DEF AcceptRead, ReserveCodCapacity, ReservationRefused, ReadBackAssignment, EnqueueRelease,
       AcceptAbandoned, AcceptReplayed, AcceptRefused, dispatch

LEMMA DeliveryTyped == OffersTyped /\ DeliveryStep => OffersTyped' /\ CaptainsKept
<1> SUFFICES ASSUME OffersTyped, NEW x \in Offers,
                    ArriveAtStore(x) \/ ConfirmStoreCaptainHandoff(x) \/ PickUp(x) \/ Deliver(x)
             PROVE  OffersTyped' /\ CaptainsKept
  BY DEF DeliveryStep
<1>1. CASE ArriveAtStore(x)
  BY <1>1 DEF ArriveAtStore, Advance, OffersTyped, CaptainsKept, Row, DeliveryStatus
<1>2. CASE ConfirmStoreCaptainHandoff(x)
  BY <1>2 DEF ConfirmStoreCaptainHandoff, OffersTyped, CaptainsKept
<1>3. CASE PickUp(x)
  BY <1>3 DEF PickUp, Advance, OffersTyped, CaptainsKept, Row, DeliveryStatus
<1>4. CASE Deliver(x)
  BY <1>4, CloseOne DEF Deliver, AssignmentStatus, DeliveryStatus
<1> QED BY <1>1, <1>2, <1>3, <1>4

LEMMA CancelledRow ==
  ASSUME OffersTyped, NEW x \in Offers
  PROVE  /\ CancelledWith(x) \in Row
         /\ CancelledWith(x).captain = offer[x].captain
         /\ CancelledWith(x).status = IF Active(x) THEN "cancelled" ELSE offer[x].status
BY DEF CancelledWith, OffersTyped, Row, Active, AssignmentStatus, DeliveryStatus

LEMMA CancelTyped == OffersTyped /\ CancelStep => OffersTyped' /\ CaptainsKept
<1> SUFFICES ASSUME OffersTyped, CancelStep PROVE OffersTyped' /\ CaptainsKept OBVIOUS
<1>1. CASE ExecuteCancellationAction
  <2>1. offer' = [x \in Offers |-> CancelledWith(x)]
    BY <1>1 DEF ExecuteCancellationAction
  <2>2. \A x \in Offers : /\ CancelledWith(x) \in Row
                          /\ CancelledWith(x).captain = offer[x].captain
                          /\ offer[x].status = "absent" <=> CancelledWith(x).status = "absent"
    BY CancelledRow DEF Active
  <2> QED BY <2>1, <2>2 DEF OffersTyped, CaptainsKept
<1>2. CASE CreateCancellationCase \/ CreateCancellationAction \/ ExecutionRefused \/ CancellerStops
  BY <1>2 DEF CreateCancellationCase, CreateCancellationAction, ExecutionRefused, CancellerStops,
              dispatch, OffersTyped, CaptainsKept
<1> QED BY <1>1, <1>2 DEF CancelStep

LEMMA OutsideFrame == ReleaseStep \/ CompletionStep => UNCHANGED offer
  BY DEF ReleaseStep, ReleaseCodReservation, ReleaseNotNeeded, ReleaseForgotten,
         ReleaseSent, ReleaseGivenUp, RetryRelease, ReleaseMoves, CompletionStep, Claim,
         FinalizeCodReservation, DeliverCaptainCommission, ReadDeliveryCompletion,
         CallFails, MarkSentWithReference, MarkUnknown, MarkFailed, WorkerStops,
         RetryFailed, dispatch

\* Every step keeps the offers typed and their captains.
LEMMA NextOffers == OffersTyped /\ HandlerOpen /\ [Next]_vars => OffersTyped' /\ CaptainsKept
<1> SUFFICES ASSUME OffersTyped, HandlerOpen, [Next]_vars PROVE OffersTyped' /\ CaptainsKept OBVIOUS
<1>1. CASE OfferStep BY <1>1, OfferTyped
<1>2. CASE AcceptStep
  <2>1. PICK r \in Requests :
          \/ \E k \in Keys : Accept(r, k) \/ AcceptTooLate(r, k)
          \/ UNCHANGED offer
    BY <1>2, AcceptFrame DEF AcceptStep
  <2> QED BY <2>1, AcceptOffers
<1>3. CASE DeliveryStep BY <1>3, DeliveryTyped
<1>4. CASE CancelStep BY <1>4, CancelTyped
<1>5. CASE UNCHANGED offer BY <1>5 DEF OffersTyped, CaptainsKept
<1>6. UNCHANGED vars => UNCHANGED offer BY DEF vars, dispatch
<1> QED BY <1>1, <1>2, <1>3, <1>4, <1>5, <1>6, OutsideFrame DEF Next

Ask == [stage : {"idle", "reserving", "accepting", "refused", "releasing"},
        offer : Offers \cup {None}, cod : BOOLEAN]

\* Every handler's request is typed, and names an offer once it has begun.
HandlersTyped ==
  /\ request \in [Requests -> Ask]
  /\ \A r \in Requests : request[r].stage # "idle" =>
       request[r].offer \in Offers /\ offer[request[r].offer].status # "absent"

LEMMA NextHandlers ==
  HandlersTyped /\ CaptainsKept /\ [Next]_vars => HandlersTyped'
<1> SUFFICES ASSUME HandlersTyped, CaptainsKept, [Next]_vars PROVE HandlersTyped' OBVIOUS
<1>1. ASSUME NEW r \in Requests,
             Answer(r) \/ (\E t \in {"accepting", "refused", "releasing"} :
                             request[r].stage # "idle" /\ Become(r, t))
      PROVE  HandlersTyped'
  <2>1. ASSUME NEW t \in {"accepting", "refused", "releasing"},
               request[r].stage # "idle", Become(r, t)
        PROVE  HandlersTyped'
    <3>1. request' \in [Requests -> Ask] BY <2>1 DEF Become, HandlersTyped, Ask
    <3>2. \A q \in Requests : /\ request'[q].offer = request[q].offer
                              /\ request'[q].stage # "idle" => request[q].stage # "idle"
      BY <2>1 DEF Become, HandlersTyped, Ask
    <3> QED BY <3>1, <3>2 DEF HandlersTyped, CaptainsKept
  <2>2. ASSUME Answer(r) PROVE HandlersTyped'
    <3>1. Idle \in Ask /\ Idle.stage = "idle" BY DEF Idle, Ask
    <3> QED BY <2>2, <3>1 DEF Answer, HandlersTyped, CaptainsKept
  <2> QED BY <1>1, <2>1, <2>2
<1>2. ASSUME NEW r \in Requests, NEW x \in Offers, AcceptRead(r, x) PROVE HandlersTyped'
  <2>1. PICK a \in Ask : /\ a.offer = x
                         /\ request' = [request EXCEPT ![r] = a]
    BY <1>2 DEF AcceptRead, Ask
  <2> QED BY <1>2, <2>1 DEF AcceptRead, HandlersTyped, CaptainsKept
<1>3. CASE AcceptStep
  <2>1. PICK r \in Requests :
          \/ \E x \in Offers : AcceptRead(r, x)
          \/ Answer(r)
          \/ \E t \in {"accepting", "refused", "releasing"} :
               request[r].stage # "idle" /\ Become(r, t)
    BY <1>3 DEF AcceptStep, ReserveCodCapacity, ReservationRefused, AcceptReplayed, Accept,
                AcceptRefused, AcceptTooLate, ReadBackAssignment, EnqueueRelease, AcceptAbandoned,
                Refused
  <2> QED BY <2>1, <1>1, <1>2
<1>4. CASE UNCHANGED request BY <1>4 DEF HandlersTyped, CaptainsKept
<1>5. OfferStep => UNCHANGED request
  BY DEF OfferStep, CreateGovernedAssignment, ReassignGovernedAssignment, DeadlinePasses, Decline,
         ExpireAssignment, CancelGovernedAssignment, handler
<1>6. DeliveryStep \/ ReleaseStep \/ CancelStep => UNCHANGED request
  BY DEF DeliveryStep, ArriveAtStore, ConfirmStoreCaptainHandoff, PickUp, Deliver,
         ReleaseStep, ReleaseCodReservation, ReleaseNotNeeded, ReleaseForgotten,
         ReleaseSent, ReleaseGivenUp, RetryRelease, ReleaseMoves, CancelStep,
         CreateCancellationCase, CreateCancellationAction, ExecuteCancellationAction,
         ExecutionRefused, CancellerStops, handler
<1>7. CompletionStep => UNCHANGED request
  BY DEF CompletionStep, Claim, FinalizeCodReservation, DeliverCaptainCommission,
         ReadDeliveryCompletion, CallFails, MarkSentWithReference, MarkUnknown, MarkFailed,
         WorkerStops, RetryFailed, handler
<1>8. UNCHANGED vars => UNCHANGED request BY DEF vars, handler
<1> QED BY <1>3, <1>4, <1>5, <1>6, <1>7, <1>8 DEF Next

\* The rows at WLT and in the outboxes, their workers and the order.
WltTyped ==
  /\ reservation \in [status : {"none", "reserved", "released", "finalized"},
                      holder : Captains \cup {None}]
  /\ commission \in BOOLEAN
  /\ release \in {"absent", "pending", "answered", "sent", "failed"}

RowTyped ==
  /\ completion \in [status : {"absent", "pending", "processing", "unknown", "sent", "failed"},
                     readbacks : 0..MaxReadbacks]
  /\ worker \in [Workers -> {"idle", "delivering", "reading", "finalized", "done",
                             "present", "doubt", "absent"}]
  /\ ReadsLeft /\ RowOfDelivery

OrderTyped ==
  /\ order \in OrderStatus /\ method \in {"cod", "mixed"}
  /\ case \in [status : {"none", "approved", "cancelled"}, from : OrderStatus]
  /\ canceller \in {"idle", "action", "execute"}
  /\ CaseFits

HistoryTyped == receipts \subseteq Offers \X Keys /\ blind \subseteq Offers /\ faults \in 0..MaxFaults

LEMMA TypedParts ==
  Typed <=> /\ OffersTyped /\ HandlersTyped /\ WltTyped /\ RowTyped /\ OrderTyped /\ HistoryTyped
BY DEF Typed, TypeOK, HandlerOpen, OffersTyped, HandlersTyped, WltTyped, RowTyped, OrderTyped,
       HistoryTyped, Row, Ask

LEMMA NextWlt == WltTyped /\ OffersTyped /\ HandlersTyped /\ [Next]_vars => WltTyped'
<1> SUFFICES ASSUME WltTyped, OffersTyped, HandlersTyped, [Next]_vars PROVE WltTyped' OBVIOUS
<1>1. CASE OfferStep
  BY <1>1 DEF WltTyped, OfferStep, CreateGovernedAssignment, ReassignGovernedAssignment,
       DeadlinePasses, Decline, ExpireAssignment, CancelGovernedAssignment, ReturnToPool, Enqueued, wlt
<1>2. CASE AcceptStep
  <2>1. ASSUME NEW r \in Requests, ReserveCodCapacity(r) PROVE WltTyped'
    <3>1. offer[request[r].offer].captain \in Captains
      BY <2>1 DEF ReserveCodCapacity, HandlersTyped, OffersTyped
    <3> QED BY <2>1, <3>1 DEF WltTyped, ReserveCodCapacity, Reserve, Replayed
  <2>2. ASSUME NEW r \in Requests,
               \/ \E x \in Offers : AcceptRead(r, x)
               \/ ReservationRefused(r)
               \/ \E k \in Keys :
                    AcceptReplayed(r, k) \/ Accept(r, k) \/ AcceptRefused(r, k) \/ AcceptTooLate(r, k)
               \/ ReadBackAssignment(r) \/ EnqueueRelease(r) \/ AcceptAbandoned(r)
        PROVE  WltTyped'
    BY <2>2 DEF WltTyped, AcceptRead, ReservationRefused, AcceptReplayed, Accept, AcceptRefused,
         AcceptTooLate, ReadBackAssignment, EnqueueRelease, AcceptAbandoned, ReturnToPool, Enqueued, wlt
  <2> QED BY <1>2, <2>1, <2>2 DEF AcceptStep
<1>3. CASE DeliveryStep \/ CancelStep
  BY <1>3 DEF WltTyped, DeliveryStep, ArriveAtStore, ConfirmStoreCaptainHandoff, PickUp, Deliver,
       CancelStep, CreateCancellationCase, CreateCancellationAction, ExecuteCancellationAction,
       ExecutionRefused, CancellerStops, wlt
<1>4. CASE ReleaseStep
  BY <1>4 DEF WltTyped, ReleaseStep, ReleaseCodReservation, ReleaseNotNeeded,
              ReleaseForgotten, ReleaseSent, ReleaseGivenUp, RetryRelease, ReleaseMoves,
              wlt
<1>5. CASE CompletionStep
  BY <1>5 DEF WltTyped, CompletionStep, Claim, FinalizeCodReservation, DeliverCaptainCommission,
       ReadDeliveryCompletion, CallFails, MarkSentWithReference, MarkUnknown, MarkFailed, WorkerStops,
       RetryFailed, wlt
<1>6. CASE UNCHANGED vars BY <1>6 DEF WltTyped, vars, wlt
<1> QED BY <1>1, <1>2, <1>3, <1>4, <1>5, <1>6 DEF Next

LEMMA DeliveredFinal ==
  OrderTyped /\ [Next]_vars => (order = "delivered" => order' = "delivered")
<1> SUFFICES ASSUME OrderTyped, [Next]_vars, order = "delivered" PROVE order' = "delivered"
  OBVIOUS
<1>1. CASE OfferStep
  BY <1>1 DEF OfferStep, CreateGovernedAssignment, ReassignGovernedAssignment, DeadlinePasses, Decline,
         ExpireAssignment, CancelGovernedAssignment, ReturnToPool
<1>2. CASE AcceptStep
  BY <1>2 DEF AcceptStep, AcceptRead, ReserveCodCapacity, ReservationRefused, AcceptReplayed, Accept,
       AcceptRefused, AcceptTooLate, ReadBackAssignment, EnqueueRelease, AcceptAbandoned, ReturnToPool,
       dispatch
<1>3. CASE DeliveryStep
  BY <1>3 DEF DeliveryStep, ArriveAtStore, ConfirmStoreCaptainHandoff, PickUp, Deliver
<1>4. CASE CancelStep
  BY <1>4 DEF OrderTyped, CaseFits, Cancellable, CancelStep, CreateCancellationCase, Unmoved,
       CreateCancellationAction, ExecuteCancellationAction, ExecutionRefused, CancellerStops, dispatch
<1>5. CASE ReleaseStep \/ CompletionStep
  BY <1>5 DEF ReleaseStep, ReleaseCodReservation, ReleaseNotNeeded, ReleaseForgotten,
              ReleaseSent, ReleaseGivenUp, RetryRelease, ReleaseMoves, CompletionStep,
              Claim, FinalizeCodReservation, DeliverCaptainCommission,
              ReadDeliveryCompletion, CallFails, MarkSentWithReference, MarkUnknown,
              MarkFailed, WorkerStops, RetryFailed, dispatch
<1>6. CASE UNCHANGED vars BY <1>6 DEF vars, dispatch
<1> QED BY <1>1, <1>2, <1>3, <1>4, <1>5, <1>6 DEF Next

LEMMA NextOrder == OrderTyped /\ [Next]_vars => OrderTyped'
<1> SUFFICES ASSUME OrderTyped, [Next]_vars PROVE OrderTyped' OBVIOUS
<1> USE DEF OrderTyped, OrderStatus, CaseFits, Cancellable
<1>1. CASE OfferStep
  BY <1>1 DEF OfferStep, CreateGovernedAssignment, ReassignGovernedAssignment, DeadlinePasses, Decline,
         ExpireAssignment, CancelGovernedAssignment, ReturnToPool, cancellation
<1>2. CASE AcceptStep
  BY <1>2 DEF AcceptStep, AcceptRead, ReserveCodCapacity, ReservationRefused, AcceptReplayed, Accept,
       AcceptRefused, AcceptTooLate, ReadBackAssignment, EnqueueRelease, AcceptAbandoned, ReturnToPool,
       dispatch, cancellation
<1>3. CASE DeliveryStep
  BY <1>3 DEF DeliveryStep, ArriveAtStore, ConfirmStoreCaptainHandoff, PickUp, Deliver, cancellation
<1>4. CASE CancelStep
  <2>1. CASE CreateCancellationCase BY <2>1 DEF CreateCancellationCase, dispatch
  <2>2. CASE CreateCancellationAction BY <2>2 DEF CreateCancellationAction, dispatch
  <2>3. CASE ExecuteCancellationAction BY <2>3 DEF ExecuteCancellationAction
  <2>4. CASE ExecutionRefused BY <2>4 DEF ExecutionRefused, dispatch
  <2>5. CASE CancellerStops BY <2>5 DEF CancellerStops, dispatch
  <2> QED BY <1>4, <2>1, <2>2, <2>3, <2>4, <2>5 DEF CancelStep
<1>5. CASE ReleaseStep \/ CompletionStep
  BY <1>5 DEF ReleaseStep, ReleaseCodReservation, ReleaseNotNeeded, ReleaseForgotten,
              ReleaseSent, ReleaseGivenUp, RetryRelease, ReleaseMoves, CompletionStep,
              Claim, FinalizeCodReservation, DeliverCaptainCommission,
              ReadDeliveryCompletion, CallFails, MarkSentWithReference, MarkUnknown,
              MarkFailed, WorkerStops, RetryFailed, dispatch, cancellation
<1>6. CASE UNCHANGED vars BY <1>6 DEF vars, dispatch, cancellation
<1> QED BY <1>1, <1>2, <1>3, <1>4, <1>5, <1>6 DEF Next

LEMMA NextRow == RowTyped /\ OrderTyped /\ [Next]_vars => RowTyped'
<1> SUFFICES ASSUME RowTyped, OrderTyped, [Next]_vars PROVE RowTyped' OBVIOUS
<1> USE DispatchAssumption DEF RowTyped, ReadsLeft, RowOfDelivery
<1>0. order = "delivered" => order' = "delivered" BY DeliveredFinal
<1>1. CASE CompletionStep
  <2>0. UNCHANGED order
    BY <1>1 DEF CompletionStep, Claim, FinalizeCodReservation, DeliverCaptainCommission,
       ReadDeliveryCompletion, CallFails, MarkSentWithReference, MarkUnknown, MarkFailed, WorkerStops,
       RetryFailed, dispatch
  <2>1. ASSUME NEW k \in Workers, Claim(k) PROVE RowTyped' BY <2>0, <2>1 DEF Claim
  <2>2. ASSUME NEW k \in Workers, FinalizeCodReservation(k) PROVE RowTyped'
    BY <2>0, <2>2 DEF FinalizeCodReservation, Reach
  <2>3. ASSUME NEW k \in Workers, DeliverCaptainCommission(k) PROVE RowTyped'
    BY <2>0, <2>3 DEF DeliverCaptainCommission, Reach
  <2>4. ASSUME NEW k \in Workers, ReadDeliveryCompletion(k) PROVE RowTyped'
    BY <2>0, <2>4 DEF ReadDeliveryCompletion, Reach
  <2>5. ASSUME NEW k \in Workers, CallFails(k) PROVE RowTyped' BY <2>0, <2>5 DEF CallFails, Reach
  <2>6. ASSUME NEW k \in Workers, MarkSentWithReference(k) PROVE RowTyped'
    BY <2>0, <2>6 DEF MarkSentWithReference, Reach, Marked
  <2>7. ASSUME NEW k \in Workers, MarkUnknown(k) PROVE RowTyped'
    BY <2>0, <2>7 DEF MarkUnknown, Reach, Marked
  <2>8. ASSUME NEW k \in Workers, MarkFailed(k) PROVE RowTyped'
    BY <2>0, <2>8 DEF MarkFailed, Reach, Marked
  <2>9. ASSUME NEW k \in Workers, WorkerStops(k) PROVE RowTyped' BY <2>0, <2>9 DEF WorkerStops, Reach
  <2>10. CASE RetryFailed BY <2>0, <2>10 DEF RetryFailed
  <2> QED BY <1>1, <2>1, <2>2, <2>3, <2>4, <2>5, <2>6, <2>7, <2>8, <2>9, <2>10 DEF CompletionStep
<1>2. CASE DeliveryStep
  BY <1>0, <1>2 DEF DeliveryStep, ArriveAtStore, ConfirmStoreCaptainHandoff, PickUp, Deliver, outbox
<1>3. OfferStep \/ ReleaseStep \/ CancelStep => UNCHANGED <<completion, worker>>
  BY DEF OfferStep, CreateGovernedAssignment, ReassignGovernedAssignment, DeadlinePasses,
         Decline, ExpireAssignment, CancelGovernedAssignment, ReleaseStep,
         ReleaseCodReservation, ReleaseNotNeeded, ReleaseForgotten, ReleaseSent,
         ReleaseGivenUp, RetryRelease, ReleaseMoves, CancelStep, CreateCancellationCase,
         CreateCancellationAction, ExecuteCancellationAction, ExecutionRefused,
         CancellerStops, outbox
<1>4. AcceptStep => UNCHANGED <<completion, worker>>
  BY DEF AcceptStep, AcceptRead, ReserveCodCapacity, ReservationRefused, AcceptReplayed, Accept,
         AcceptRefused, AcceptTooLate, ReadBackAssignment, EnqueueRelease, AcceptAbandoned, outbox
<1>5. UNCHANGED vars => UNCHANGED <<completion, worker>> BY DEF vars, outbox
<1>6. CASE UNCHANGED <<completion, worker>> BY <1>0, <1>6
<1> QED BY <1>1, <1>2, <1>3, <1>4, <1>5, <1>6 DEF Next

LEMMA NextHistory == HistoryTyped /\ HandlersTyped /\ [Next]_vars => HistoryTyped'
<1> SUFFICES ASSUME HistoryTyped, HandlersTyped, [Next]_vars PROVE HistoryTyped' OBVIOUS
<1> USE DispatchAssumption DEF HistoryTyped
<1>1. CASE OfferStep
  BY <1>1 DEF OfferStep, CreateGovernedAssignment, ReassignGovernedAssignment, DeadlinePasses, Decline,
         ExpireAssignment, CancelGovernedAssignment, handler
<1>2. CASE AcceptStep
  <2>1. ASSUME NEW r \in Requests, NEW k \in Keys, Accept(r, k) PROVE HistoryTyped'
    BY <2>1 DEF Accept, HandlersTyped
  <2>2. ASSUME NEW r \in Requests, NEW x \in Offers, AcceptRead(r, x) PROVE HistoryTyped'
    BY <2>2 DEF AcceptRead
  <2>3. ASSUME NEW r \in Requests, AcceptAbandoned(r) PROVE HistoryTyped'
    BY <2>3 DEF AcceptAbandoned
  <2>4. ASSUME NEW r \in Requests,
               \/ ReserveCodCapacity(r) \/ ReservationRefused(r)
               \/ \E k \in Keys : AcceptReplayed(r, k) \/ AcceptRefused(r, k) \/ AcceptTooLate(r, k)
               \/ ReadBackAssignment(r) \/ EnqueueRelease(r)
        PROVE  HistoryTyped'
    BY <2>4 DEF ReserveCodCapacity, ReservationRefused, AcceptReplayed, AcceptRefused, AcceptTooLate,
         ReadBackAssignment, EnqueueRelease
  <2> QED BY <1>2, <2>1, <2>2, <2>3, <2>4 DEF AcceptStep
<1>3. CASE DeliveryStep
  BY <1>3 DEF DeliveryStep, ArriveAtStore, ConfirmStoreCaptainHandoff, PickUp, Deliver, handler
<1>4. CASE CancelStep
  BY <1>4 DEF CancelStep, CreateCancellationCase, CreateCancellationAction,
       ExecuteCancellationAction, ExecutionRefused, CancellerStops, handler
<1>5. CASE ReleaseStep
  BY <1>5 DEF ReleaseStep, ReleaseCodReservation, ReleaseNotNeeded, ReleaseForgotten,
              ReleaseSent, ReleaseGivenUp, RetryRelease, ReleaseMoves, handler
<1>6. CASE CompletionStep
  BY <1>6 DEF CompletionStep, Claim, FinalizeCodReservation, DeliverCaptainCommission,
       ReadDeliveryCompletion, CallFails, MarkSentWithReference, MarkUnknown, MarkFailed, WorkerStops,
       RetryFailed, handler
<1>7. CASE UNCHANGED vars BY <1>7 DEF vars, handler
<1> QED BY <1>1, <1>2, <1>3, <1>4, <1>5, <1>6, <1>7 DEF Next

LEMMA NextTyped == Typed /\ [Next]_vars => Typed' /\ CaptainsKept
<1> SUFFICES ASSUME Typed, [Next]_vars PROVE Typed' /\ CaptainsKept OBVIOUS
<1>1. /\ OffersTyped /\ HandlersTyped /\ WltTyped /\ RowTyped /\ OrderTyped /\ HistoryTyped
      /\ HandlerOpen
  BY TypedParts DEF Typed
<1>2. OffersTyped' /\ CaptainsKept BY <1>1, NextOffers
<1>3. HandlersTyped' BY <1>1, <1>2, NextHandlers
<1>4. WltTyped' /\ RowTyped' /\ OrderTyped' /\ HistoryTyped'
  BY <1>1, NextWlt, NextRow, NextOrder, NextHistory
<1>5. Typed' BY <1>2, <1>3, <1>4, TypedParts, PTL
<1> QED BY <1>2, <1>5

\* Every variable keeps its type, and the readbacks of a completion their bound.
THEOREM DispatchTyped == Spec => []TypeOK
<1>1. Typed => TypeOK BY DEF Typed
<1> QED BY <1>1, InitTyped, NextTyped, PTL DEF Spec

-----------------------------------------------------------------------------
(* Who holds the order: dispatch, the captain and the cancellation race    *)
(* for it, and the order's status says what its one live offer says.       *)

LEMMA ReturnFits ==
  ASSUME OffersTyped, ActiveFitsOrder, NEW x \in Offers, Active(x),
         NEW s \in {"declined", "cancelled"}, NEW d \in DeliveryStatus,
         ReturnToPool(x, s, d)
  PROVE  ActiveFitsOrder'
<1>1. /\ Closed(x, s, d) \in Row /\ Closed(x, s, d).status = s
  BY ClosedRow DEF OffersTyped, AssignmentStatus
<1>2. \A y \in Offers : ~Engaged(y)'
  BY <1>1 DEF ReturnToPool, OffersTyped, ActiveFitsOrder, Engaged, Active
<1>3. order' = "ready_for_pickup" BY DEF ReturnToPool
<1> QED BY <1>2, <1>3 DEF ActiveFitsOrder

LEMMA OfferFits == Typed /\ ActiveFitsOrder /\ OfferStep => ActiveFitsOrder'
<1> SUFFICES ASSUME OffersTyped, ActiveFitsOrder, OfferStep PROVE ActiveFitsOrder' BY TypedParts
<1>1. ASSUME NEW x \in Offers, NEW c \in Captains, CreateGovernedAssignment(x, c)
      PROVE  ActiveFitsOrder'
  <2>1. \A y \in Offers : ~Engaged(y)
    BY <1>1 DEF CreateGovernedAssignment, ActiveFitsOrder, Together
  <2>2. /\ order' = "driver_assigned"
        /\ \A y \in Offers : y # x => offer'[y] = offer[y]
        /\ offer'[x].status = "offered" /\ offer'[x].delivery = "assigned"
    BY <1>1 DEF CreateGovernedAssignment, OffersTyped, Fresh
  <2> QED BY <2>1, <2>2 DEF ActiveFitsOrder, Engaged, Active, Together
<1>2. ASSUME NEW x \in Offers, NEW y \in Offers, NEW c \in Captains,
             ReassignGovernedAssignment(x, y, c)
      PROVE  ActiveFitsOrder'
  <2>1. /\ order = "driver_assigned" /\ order' = "driver_assigned" /\ x # y /\ Active(x)
        /\ offer' = [offer EXCEPT ![x] = Closed(x, "cancelled", "cancelled"), ![y] = Fresh(c)]
    BY <1>2 DEF ReassignGovernedAssignment, Withdrawable, Active
  <2>2. Closed(x, "cancelled", "cancelled").status = "cancelled"
    BY ClosedRow DEF OffersTyped, AssignmentStatus, DeliveryStatus
  <2>3. /\ \A z \in Offers : z # x /\ z # y => offer'[z] = offer[z]
        /\ offer'[x].status = "cancelled"
        /\ offer'[y].status = "offered" /\ offer'[y].delivery = "assigned"
    BY <2>1, <2>2 DEF OffersTyped, Fresh
  <2>4. \A z \in Offers : Engaged(z) => z = x
    BY <2>1 DEF ActiveFitsOrder, Engaged
  <2>5. \A z \in Offers : Engaged(z)' => z = y
    BY <2>3, <2>4 DEF Engaged, Active
  <2>6. Engaged(y)' BY <2>3 DEF Engaged, Active
  <2>7. <<order, offer[y].status, offer[y].delivery>>' \in Together
    BY <2>1, <2>3 DEF Together
  <2> QED BY <2>5, <2>6, <2>7 DEF ActiveFitsOrder
<1>3. ASSUME NEW x \in Offers, DeadlinePasses(x) PROVE ActiveFitsOrder'
  <2>1. order' = order /\ \A y \in Offers : /\ offer'[y].status = offer[y].status
                                            /\ offer'[y].delivery = offer[y].delivery
    BY <1>3 DEF DeadlinePasses, OffersTyped, Row
  <2> QED BY <2>1 DEF ActiveFitsOrder, Engaged, Active
<1>4. ASSUME NEW x \in Offers, Decline(x) PROVE ActiveFitsOrder'
  BY <1>4, ReturnFits DEF Decline, Active, DeliveryStatus
<1>5. ASSUME NEW x \in Offers, ExpireAssignment(x) PROVE ActiveFitsOrder'
  BY <1>5, ReturnFits DEF ExpireAssignment, Active, DeliveryStatus
<1>6. ASSUME NEW x \in Offers, CancelGovernedAssignment(x) PROVE ActiveFitsOrder'
  BY <1>6, ReturnFits DEF CancelGovernedAssignment, Withdrawable, DeliveryStatus
<1> QED BY <1>1, <1>2, <1>3, <1>4, <1>5, <1>6 DEF OfferStep

\* One row moves with the order, or alone between statuses that fit it.
LEMMA MoveFits ==
  ASSUME OffersTyped, ActiveFitsOrder, NEW x \in Offers, Engaged(x), Engaged(x)',
         <<order, offer[x].status, offer[x].delivery>>' \in Together,
         \A y \in Offers : y # x => offer'[y] = offer[y]
  PROVE  ActiveFitsOrder'
BY DEF ActiveFitsOrder, Engaged, Active

LEMMA AcceptFits == Typed /\ ActiveFitsOrder /\ AcceptStep => ActiveFitsOrder'
<1> SUFFICES ASSUME OffersTyped, HandlersTyped, ActiveFitsOrder, NEW r \in Requests,
               \/ \E x \in Offers : AcceptRead(r, x)
               \/ ReserveCodCapacity(r) \/ ReservationRefused(r)
               \/ \E k \in Keys :
                    AcceptReplayed(r, k) \/ Accept(r, k) \/ AcceptRefused(r, k) \/ AcceptTooLate(r, k)
               \/ ReadBackAssignment(r) \/ EnqueueRelease(r) \/ AcceptAbandoned(r)
             PROVE  ActiveFitsOrder'
  BY TypedParts DEF AcceptStep
<1>1. ASSUME NEW k \in Keys, Accept(r, k) PROVE ActiveFitsOrder'
  <2>0. PICK x \in Offers : x = request[r].offer BY <1>1 DEF Accept, HandlersTyped
  <2>1. x \in Offers /\ offer[x].status = "offered" /\ order' = order
        /\ offer' = [offer EXCEPT ![x] = Closed(x, "accepted", "driver_assigned")]
    BY <1>1, <2>0 DEF Accept
  <2>2. /\ Closed(x, "accepted", "driver_assigned").status = "accepted"
        /\ Closed(x, "accepted", "driver_assigned").delivery = "driver_assigned"
    BY <2>1 DEF OffersTyped, Row, Closed
  <2>3. /\ offer'[x].status = "accepted" /\ offer'[x].delivery = "driver_assigned"
        /\ \A y \in Offers : y # x => offer'[y] = offer[y]
    BY <2>1, <2>2 DEF OffersTyped
  <2>4. Engaged(x) /\ Engaged(x)' BY <2>1, <2>3 DEF Engaged, Active
  <2>5. order = "driver_assigned"
    BY <2>1, <2>4 DEF ActiveFitsOrder, Together
  <2> QED BY <2>1, <2>3, <2>4, <2>5, MoveFits DEF Together
<1>2. ASSUME NEW k \in Keys, AcceptTooLate(r, k) PROVE ActiveFitsOrder'
  <2>1. request[r].offer \in Offers BY <1>2 DEF AcceptTooLate, HandlersTyped
  <2> QED BY <1>2, <2>1, ReturnFits DEF AcceptTooLate, Active, DeliveryStatus
<1>3. CASE UNCHANGED <<order, offer>> BY <1>3 DEF ActiveFitsOrder, Engaged, Active
<1> QED
  BY <1>1, <1>2, <1>3 DEF AcceptRead, ReserveCodCapacity, ReservationRefused, AcceptReplayed,
     AcceptRefused, ReadBackAssignment, EnqueueRelease, AcceptAbandoned, dispatch

LEMMA DeliveryFits == Typed /\ ActiveFitsOrder /\ DeliveryStep => ActiveFitsOrder'
<1> SUFFICES ASSUME OffersTyped, ActiveFitsOrder, NEW x \in Offers,
                    ArriveAtStore(x) \/ ConfirmStoreCaptainHandoff(x) \/ PickUp(x) \/ Deliver(x)
             PROVE  ActiveFitsOrder'
  BY TypedParts DEF DeliveryStep
<1>1. CASE ArriveAtStore(x)
  <2>1. /\ offer[x].status = "accepted" /\ offer'[x].status = "accepted"
        /\ offer'[x].delivery = "driver_arrived_store" /\ order' = "driver_arrived_store"
        /\ \A y \in Offers : y # x => offer'[y] = offer[y]
    BY <1>1 DEF ArriveAtStore, Advance, OffersTyped, Row
  <2> QED BY <2>1, MoveFits DEF Engaged, Active, Together
<1>2. CASE ConfirmStoreCaptainHandoff(x)
  <2>1. /\ offer[x].status = "accepted" /\ offer' = offer
        /\ offer[x].delivery = "driver_arrived_store" /\ order' = "store_handoff_confirmed"
    BY <1>2 DEF ConfirmStoreCaptainHandoff
  <2> QED BY <2>1, MoveFits DEF Engaged, Active, Together
<1>3. CASE PickUp(x)
  <2>1. /\ offer[x].status = "accepted" /\ offer'[x].status = "accepted"
        /\ offer'[x].delivery = "picked_up" /\ order' = "picked_up"
        /\ \A y \in Offers : y # x => offer'[y] = offer[y]
    BY <1>3 DEF PickUp, Advance, OffersTyped, Row
  <2> QED BY <2>1, MoveFits DEF Engaged, Active, Together
<1>4. CASE Deliver(x)
  <2>1. /\ offer[x].status = "accepted" /\ offer'[x].status = "completed"
        /\ offer'[x].delivery = "delivered" /\ order' = "delivered"
        /\ \A y \in Offers : y # x => offer'[y] = offer[y]
    BY <1>4 DEF Deliver, Closed, OffersTyped, Row
  <2> QED BY <2>1, MoveFits DEF Engaged, Active, Together
<1> QED BY <1>1, <1>2, <1>3, <1>4

\* An order is cancelled from a status in which nobody has completed it.
LEMMA CancelFits == Typed /\ ActiveFitsOrder /\ CancelStep => ActiveFitsOrder'
<1> SUFFICES ASSUME OffersTyped, OrderTyped, ActiveFitsOrder, CancelStep PROVE ActiveFitsOrder'
  BY TypedParts
<1>1. CASE ExecuteCancellationAction
  <2>1. order \in Cancellable /\ order' = "cancelled" /\ offer' = [x \in Offers |-> CancelledWith(x)]
    BY <1>1 DEF ExecuteCancellationAction, Unmoved, OrderTyped, CaseFits
  <2>2. \A x \in Offers : offer[x].status # "completed"
    BY <2>1 DEF ActiveFitsOrder, Engaged, Together, Cancellable
  <2>3. \A x \in Offers : ~Engaged(x)'
    BY <2>1, <2>2, CancelledRow DEF Engaged, Active
  <2> QED BY <2>1, <2>3 DEF ActiveFitsOrder
<1>2. CASE UNCHANGED <<order, offer>> BY <1>2 DEF ActiveFitsOrder, Engaged, Active
<1> QED
  BY <1>1, <1>2 DEF CancelStep, CreateCancellationCase, CreateCancellationAction, ExecutionRefused,
     CancellerStops, dispatch

LEMMA NextFits == Typed /\ ActiveFitsOrder /\ [Next]_vars => ActiveFitsOrder'
<1> SUFFICES ASSUME Typed, ActiveFitsOrder, [Next]_vars PROVE ActiveFitsOrder' OBVIOUS
<1>1. CASE UNCHANGED <<order, offer>> BY <1>1 DEF ActiveFitsOrder, Engaged, Active
<1>2. ReleaseStep \/ CompletionStep => UNCHANGED <<order, offer>>
  BY DEF ReleaseStep, ReleaseCodReservation, ReleaseNotNeeded, ReleaseForgotten,
         ReleaseSent, ReleaseGivenUp, RetryRelease, ReleaseMoves, CompletionStep, Claim,
         FinalizeCodReservation, DeliverCaptainCommission, ReadDeliveryCompletion,
         CallFails, MarkSentWithReference, MarkUnknown, MarkFailed, WorkerStops,
         RetryFailed, dispatch
<1>3. UNCHANGED vars => UNCHANGED <<order, offer>> BY DEF vars, dispatch
<1> QED BY <1>1, <1>2, <1>3, OfferFits, AcceptFits, DeliveryFits, CancelFits DEF Next

LEMMA InitFits == Init => ActiveFitsOrder
BY DEF Init, ActiveFitsOrder, Engaged, Active, Absent

\* One captain holds an order exactly while it is on its way or delivered, and the
\* delivery is where the order is, whatever races for it.
THEOREM OneCaptain == Spec => []ActiveFitsOrder
<1> QED BY InitTyped, NextTyped, InitFits, NextFits, PTL DEF Spec

-----------------------------------------------------------------------------
(* Whose wallet is reserved and debited.  What WLT and the outboxes have    *)
(* recorded stays: a reservation keeps its holder, a finalized or released *)
(* one its status, a queued release its row.                               *)

BooksKept ==
  /\ reservation.status # "none" =>
       reservation'.status # "none" /\ reservation'.holder = reservation.holder
  /\ reservation.status = "finalized" => reservation'.status = "finalized"
  /\ reservation.status = "released" => reservation'.status = "released"
  /\ commission => commission'
  /\ release # "absent" => release' # "absent"
  /\ faults' = 0 => faults = 0
  /\ blind \subseteq blind' /\ receipts \subseteq receipts'

LEMMA BooksStep == Typed /\ [Next]_vars => BooksKept
<1> SUFFICES ASSUME WltTyped, HistoryTyped, [Next]_vars PROVE BooksKept BY TypedParts
<1>0. faults \in Nat BY DispatchAssumption DEF HistoryTyped
<1> USE <1>0 DEF BooksKept
<1>1. CASE OfferStep
  BY <1>1 DEF OfferStep, CreateGovernedAssignment, ReassignGovernedAssignment, DeadlinePasses, Decline,
         ExpireAssignment, CancelGovernedAssignment, ReturnToPool, Enqueued, handler, wlt
<1>2. CASE AcceptStep
  <2>1. ASSUME NEW r \in Requests, ReserveCodCapacity(r) PROVE BooksKept
    BY <2>1 DEF ReserveCodCapacity, Reserve, Replayed
  <2>2. ASSUME NEW r \in Requests, NEW x \in Offers, AcceptRead(r, x) PROVE BooksKept
    BY <2>2 DEF AcceptRead, wlt
  <2>3. ASSUME NEW r \in Requests,
               ReservationRefused(r) \/ ReadBackAssignment(r) \/ EnqueueRelease(r)
        PROVE  BooksKept
    BY <2>3 DEF ReservationRefused, ReadBackAssignment, EnqueueRelease, Enqueued, wlt
  <2>4. ASSUME NEW r \in Requests, AcceptAbandoned(r) PROVE BooksKept
    BY <2>4 DEF AcceptAbandoned, wlt
  <2>5. ASSUME NEW r \in Requests, NEW k \in Keys, AcceptReplayed(r, k) \/ AcceptRefused(r, k)
        PROVE  BooksKept
    BY <2>5 DEF AcceptReplayed, AcceptRefused, wlt
  <2>6. ASSUME NEW r \in Requests, NEW k \in Keys, Accept(r, k) PROVE BooksKept
    BY <2>6 DEF Accept, wlt
  <2>7. ASSUME NEW r \in Requests, NEW k \in Keys, AcceptTooLate(r, k) PROVE BooksKept
    BY <2>7 DEF AcceptTooLate, ReturnToPool, Enqueued, wlt
  <2> QED BY <1>2, <2>1, <2>2, <2>3, <2>4, <2>5, <2>6, <2>7 DEF AcceptStep
<1>3. CASE DeliveryStep
  BY <1>3 DEF DeliveryStep, ArriveAtStore, ConfirmStoreCaptainHandoff, PickUp, Deliver, handler, wlt
<1>4. CASE CancelStep
  BY <1>4 DEF CancelStep, CreateCancellationCase, CreateCancellationAction,
       ExecuteCancellationAction, ExecutionRefused, CancellerStops, handler, wlt
<1>5. CASE ReleaseStep
  <2>1. CASE ReleaseCodReservation
    BY <2>1 DEF ReleaseCodReservation, WltTyped, handler
  <2>2. CASE ReleaseStep /\ ~ReleaseCodReservation
    BY <2>2 DEF ReleaseStep, ReleaseNotNeeded, ReleaseForgotten, ReleaseSent,
                ReleaseGivenUp, RetryRelease, ReleaseMoves, handler, wlt
  <2> QED BY <1>5, <2>1, <2>2
<1>6. CASE CompletionStep
  <2>1. ASSUME NEW k \in Workers, FinalizeCodReservation(k) PROVE BooksKept
    BY <2>1 DEF FinalizeCodReservation, WltTyped, handler
  <2>2. ASSUME NEW k \in Workers, DeliverCaptainCommission(k) PROVE BooksKept
    BY <2>2 DEF DeliverCaptainCommission, handler
  <2>3. ASSUME \/ \E k \in Workers :
                    \/ Claim(k) \/ ReadDeliveryCompletion(k) \/ CallFails(k) \/ MarkSentWithReference(k)
                    \/ MarkUnknown(k) \/ MarkFailed(k) \/ WorkerStops(k)
               \/ RetryFailed
        PROVE  BooksKept
    BY <2>3 DEF Claim, ReadDeliveryCompletion, CallFails, MarkSentWithReference, MarkUnknown,
         MarkFailed, WorkerStops, RetryFailed, handler, wlt
  <2> QED BY <1>6, <2>1, <2>2, <2>3 DEF CompletionStep
<1>7. CASE UNCHANGED vars BY <1>7 DEF vars, handler, wlt
<1> QED BY <1>1, <1>2, <1>3, <1>4, <1>5, <1>6, <1>7 DEF Next

Held(x) == offer[x].status \in {"accepted", "completed"}

\* An offer is taken by an accept only, and given up only with its order or with a
\* release.
HeldKept ==
  /\ \A x \in Offers : Held(x) => Held(x)' \/ order' = "cancelled" \/ release' # "absent"
  /\ \A x \in Offers : Held(x)' =>
       Held(x) \/ \E r \in Requests, k \in Keys : Accept(r, k) /\ request[r].offer = x

LEMMA EnqueuedThere == WltTyped => Enqueued # "absent"
BY DEF WltTyped, Enqueued

LEMMA ReturnHeld ==
  ASSUME OffersTyped, WltTyped, NEW x \in Offers, NEW s \in {"declined", "cancelled"},
         NEW d \in DeliveryStatus, ReturnToPool(x, s, d)
  PROVE  HeldKept
<1>1. Closed(x, s, d).status = s BY ClosedRow DEF OffersTyped, AssignmentStatus
<1> QED BY <1>1, EnqueuedThere DEF ReturnToPool, HeldKept, Held, OffersTyped

LEMMA HeldStep == Typed /\ [Next]_vars => HeldKept
<1> SUFFICES ASSUME Typed, [Next]_vars PROVE HeldKept OBVIOUS
<1>0. OffersTyped /\ WltTyped /\ HandlersTyped BY TypedParts
<1>1. CASE OfferStep
  <2>1. ASSUME NEW x \in Offers, NEW c \in Captains, CreateGovernedAssignment(x, c) PROVE HeldKept
    BY <1>0, <2>1 DEF CreateGovernedAssignment, Fresh, HeldKept, Held, OffersTyped
  <2>2. ASSUME NEW x \in Offers, NEW y \in Offers, NEW c \in Captains,
               ReassignGovernedAssignment(x, y, c)
        PROVE  HeldKept
    <3>1. Closed(x, "cancelled", "cancelled").status = "cancelled"
      BY <1>0, ClosedRow DEF OffersTyped, AssignmentStatus, DeliveryStatus
    <3> QED
      BY <1>0, <2>2, <3>1, EnqueuedThere
      DEF ReassignGovernedAssignment, Fresh, HeldKept, Held, OffersTyped
  <2>3. ASSUME NEW x \in Offers, DeadlinePasses(x) PROVE HeldKept
    BY <1>0, <2>3 DEF DeadlinePasses, HeldKept, Held, OffersTyped, Row
  <2>4. ASSUME NEW x \in Offers,
               Decline(x) \/ ExpireAssignment(x) \/ CancelGovernedAssignment(x)
        PROVE  HeldKept
    BY <1>0, <2>4, ReturnHeld
    DEF Decline, ExpireAssignment, CancelGovernedAssignment, DeliveryStatus
  <2> QED BY <1>1, <2>1, <2>2, <2>3, <2>4 DEF OfferStep
<1>2. CASE AcceptStep
  <2>1. ASSUME NEW r \in Requests, NEW k \in Keys, Accept(r, k) PROVE HeldKept
    <3>1. PICK x \in Offers : x = request[r].offer BY <1>0, <2>1 DEF Accept, HandlersTyped
    <3>2. offer' = [offer EXCEPT ![x] = Closed(x, "accepted", "driver_assigned")]
      BY <2>1, <3>1 DEF Accept
    <3>3. Closed(x, "accepted", "driver_assigned").status = "accepted"
      BY <1>0, ClosedRow DEF OffersTyped, AssignmentStatus, DeliveryStatus
    <3>4. \A y \in Offers : Held(y)' <=> y = x \/ Held(y)
      BY <1>0, <3>2, <3>3 DEF Held, OffersTyped
    <3> QED BY <2>1, <3>1, <3>4 DEF HeldKept
  <2>2. ASSUME NEW r \in Requests, NEW k \in Keys, AcceptTooLate(r, k) PROVE HeldKept
    <3>1. request[r].offer \in Offers BY <1>0, <2>2 DEF AcceptTooLate, HandlersTyped
    <3> QED BY <1>0, <2>2, <3>1, ReturnHeld DEF AcceptTooLate, DeliveryStatus
  <2>3. CASE UNCHANGED offer BY <2>3 DEF HeldKept, Held
  <2> QED BY <1>2, <2>1, <2>2, <2>3, AcceptFrame DEF AcceptStep
<1>3. CASE DeliveryStep
  <2>1. ASSUME NEW x \in Offers, ArriveAtStore(x) \/ PickUp(x) PROVE HeldKept
    BY <1>0, <2>1 DEF ArriveAtStore, PickUp, Advance, HeldKept, Held, OffersTyped, Row
  <2>2. ASSUME NEW x \in Offers, ConfirmStoreCaptainHandoff(x) PROVE HeldKept
    BY <2>2 DEF ConfirmStoreCaptainHandoff, HeldKept, Held
  <2>3. ASSUME NEW x \in Offers, Deliver(x) PROVE HeldKept
    <3>1. Closed(x, "completed", "delivered").status = "completed"
      BY <1>0, ClosedRow DEF OffersTyped, AssignmentStatus, DeliveryStatus
    <3> QED BY <1>0, <2>3, <3>1 DEF Deliver, HeldKept, Held, OffersTyped
  <2> QED BY <1>3, <2>1, <2>2, <2>3 DEF DeliveryStep
<1>4. CASE CancelStep
  <2>1. CASE ExecuteCancellationAction
    <3>1. order' = "cancelled" /\ offer' = [x \in Offers |-> CancelledWith(x)]
      BY <2>1 DEF ExecuteCancellationAction
    <3>2. \A x \in Offers : Held(x)' => Held(x) BY <1>0, <3>1, CancelledRow DEF Held
    <3> QED BY <3>1, <3>2 DEF HeldKept
  <2>2. CASE UNCHANGED offer BY <2>2 DEF HeldKept, Held
  <2> QED
    BY <1>4, <2>1, <2>2 DEF CancelStep, CreateCancellationCase, CreateCancellationAction,
       ExecutionRefused, CancellerStops, dispatch
<1>5. CASE UNCHANGED offer BY <1>5 DEF HeldKept, Held
<1>6. UNCHANGED vars => UNCHANGED offer BY DEF vars, dispatch
<1> QED BY <1>1, <1>2, <1>3, <1>4, <1>5, <1>6, OutsideFrame DEF Next

Reserved(r) == request[r].stage \in {"accepting", "refused", "releasing"} /\ request[r].cod

\* A handler past its reservation has it for the captain of its offer; one that goes
\* on without it took the order for prepaid.
HandlerFunded ==
  \A r \in Requests :
    /\ Reserved(r) => reservation.status # "none" /\ reservation.holder = offer[request[r].offer].captain
    /\ request[r].stage # "idle" /\ ~request[r].cod => request[r].offer \in blind

\* So has the captain of every offer that was taken, the blind ones excepted.
TakenFunded ==
  \A x \in Offers \ blind : Held(x) =>
    reservation.status # "none" /\ reservation.holder = offer[x].captain

\* A reservation is released by the release row and finalized for a delivery only.
EndsExplained ==
  /\ reservation.status = "released" => release # "absent"
  /\ reservation.status = "finalized" => order = "delivered"

FundingInv == HandlerFunded /\ TakenFunded /\ EndsExplained

\* What one step does to a handler: it starts, reserves, goes on or ends.
HandlerMove(r) ==
  \/ UNCHANGED request
  \/ Answer(r)
  \/ \E x \in Offers : AcceptRead(r, x)
  \/ ReserveCodCapacity(r)
  \/ \E t \in {"refused", "releasing"} :
       request[r].stage \in {"accepting", "refused"} /\ Become(r, t)

LEMMA HandlerStep == [Next]_vars => UNCHANGED request \/ \E r \in Requests : HandlerMove(r)
<1> SUFFICES ASSUME [Next]_vars PROVE UNCHANGED request \/ \E r \in Requests : HandlerMove(r)
  OBVIOUS
<1>1. CASE AcceptStep
  BY <1>1 DEF AcceptStep, HandlerMove, ReservationRefused, AcceptReplayed, Accept,
       AcceptRefused, AcceptTooLate, ReadBackAssignment, EnqueueRelease, AcceptAbandoned, Refused
<1>2. OfferStep => UNCHANGED request
  BY DEF OfferStep, CreateGovernedAssignment, ReassignGovernedAssignment, DeadlinePasses, Decline,
         ExpireAssignment, CancelGovernedAssignment, handler
<1>3. DeliveryStep \/ ReleaseStep \/ CancelStep => UNCHANGED request
  BY DEF DeliveryStep, ArriveAtStore, ConfirmStoreCaptainHandoff, PickUp, Deliver,
         ReleaseStep, ReleaseCodReservation, ReleaseNotNeeded, ReleaseForgotten,
         ReleaseSent, ReleaseGivenUp, RetryRelease, ReleaseMoves, CancelStep,
         CreateCancellationCase, CreateCancellationAction, ExecuteCancellationAction,
         ExecutionRefused, CancellerStops, handler
<1>4. CompletionStep => UNCHANGED request
  BY DEF CompletionStep, Claim, FinalizeCodReservation, DeliverCaptainCommission,
         ReadDeliveryCompletion, CallFails, MarkSentWithReference, MarkUnknown, MarkFailed,
         WorkerStops, RetryFailed, handler
<1>5. UNCHANGED vars => UNCHANGED request BY DEF vars, handler
<1> QED BY <1>1, <1>2, <1>3, <1>4, <1>5 DEF Next

LEMMA NextHandlerFunded ==
  ASSUME Typed, HandlerFunded, BooksKept, CaptainsKept, [Next]_vars
  PROVE  HandlerFunded'
<1> USE DEF Reserved
<1>0. HandlersTyped /\ OffersTyped BY TypedParts
<1>1. CASE UNCHANGED request
  BY <1>0, <1>1 DEF HandlerFunded, BooksKept, CaptainsKept, HandlersTyped
<1>2. ASSUME NEW r \in Requests, HandlerMove(r), request' # request PROVE HandlerFunded'
  <2>1. \A q \in Requests \ {r} : request'[q] = request[q]
    BY <1>0, <1>2 DEF HandlerMove, Answer, AcceptRead, ReserveCodCapacity, Become, HandlersTyped
  <2> DEFINE Fine(q) ==
        /\ Reserved(q) => reservation.status # "none" /\ reservation.holder = offer[request[q].offer].captain
        /\ request[q].stage # "idle" /\ ~request[q].cod => request[q].offer \in blind
  <2>2. \A q \in Requests \ {r} : Fine(q)'
    BY <1>0, <2>1 DEF HandlerFunded, BooksKept, CaptainsKept, HandlersTyped
  <2>3. Fine(r)'
    <3>1. CASE Answer(r)
      <4>1. request'[r] = Idle BY <1>0, <3>1 DEF Answer, HandlersTyped
      <4> QED BY <4>1 DEF Idle
    <3>2. ASSUME NEW x \in Offers, AcceptRead(r, x) PROVE Fine(r)'
      <4>1. \/ request'[r].stage = "reserving" /\ request'[r].cod
            \/ request'[r].offer \in blind' /\ ~request'[r].cod
        BY <1>0, <3>2 DEF AcceptRead, HandlersTyped
      <4>2. request'[r].stage = "reserving" \/ ~request'[r].cod BY <4>1
      <4>3. request'[r].cod \/ request'[r].offer \in blind' BY <4>1
      <4> QED BY <4>2, <4>3
    <3>3. CASE ReserveCodCapacity(r)
      <4>1. /\ request'[r].offer = request[r].offer /\ request'[r].cod = request[r].cod
            /\ request[r].stage # "idle" /\ UNCHANGED <<offer, blind>>
        BY <1>0, <3>3 DEF ReserveCodCapacity, Become, HandlersTyped, Ask, dispatch
      <4>2. /\ reservation'.status # "none"
            /\ reservation'.holder = offer[request[r].offer].captain
        BY <3>3 DEF ReserveCodCapacity, Reserve, Replayed
      <4> QED BY <4>1, <4>2 DEF HandlerFunded
    <3>4. ASSUME NEW t \in {"refused", "releasing"},
                 request[r].stage \in {"accepting", "refused"}, Become(r, t)
          PROVE  Fine(r)'
      <4>1. /\ request'[r].offer = request[r].offer /\ request'[r].cod = request[r].cod
            /\ request[r].stage # "idle"
            /\ request[r].cod => Reserved(r)
            /\ request[r].offer \in Offers /\ offer[request[r].offer].status # "absent"
        BY <1>0, <3>4 DEF Become, HandlersTyped, Ask
      <4> QED BY <4>1 DEF HandlerFunded, BooksKept, CaptainsKept
    <3> QED BY <1>2, <3>1, <3>2, <3>3, <3>4 DEF HandlerMove
  <2> QED BY <2>2, <2>3 DEF HandlerFunded
<1> QED BY <1>1, <1>2, HandlerStep

LEMMA NextTakenFunded ==
  ASSUME Typed, HandlerFunded, TakenFunded, BooksKept, CaptainsKept, HeldKept
  PROVE  TakenFunded'
<1> SUFFICES ASSUME NEW x \in Offers, x \notin blind', Held(x)'
             PROVE  reservation'.status # "none" /\ reservation'.holder = offer'[x].captain
  BY DEF TakenFunded
<1>0. x \notin blind BY DEF BooksKept
<1>1. CASE Held(x)
  <2>1. offer'[x].captain = offer[x].captain BY <1>1 DEF Held, CaptainsKept
  <2> QED BY <1>0, <1>1, <2>1 DEF TakenFunded, BooksKept
<1>2. ASSUME NEW r \in Requests, NEW k \in Keys, Accept(r, k), request[r].offer = x
      PROVE  reservation'.status # "none" /\ reservation'.holder = offer'[x].captain
  <2>1. request[r].stage = "accepting" /\ offer[x].status # "absent"
    BY <1>2 DEF Accept
  <2>2. request[r].cod BY <1>0, <1>2, <2>1 DEF HandlerFunded
  <2>3. reservation.status # "none" /\ reservation.holder = offer[x].captain
    BY <1>2, <2>1, <2>2 DEF HandlerFunded, Reserved
  <2> QED BY <2>1, <2>3 DEF BooksKept, CaptainsKept
<1> QED BY <1>1, <1>2 DEF HeldKept

LEMMA NextEnds ==
  ASSUME Typed, EndsExplained, BooksKept, [Next]_vars
  PROVE  EndsExplained'
<1>0. WltTyped /\ RowTyped /\ OrderTyped BY TypedParts
<1>1. order = "delivered" => order' = "delivered" BY <1>0, DeliveredFinal
<1>2. CASE \E k \in Workers : FinalizeCodReservation(k)
  <2>1. order = "delivered"
    BY <1>0, <1>2 DEF FinalizeCodReservation, RowTyped, RowOfDelivery
  <2>2. reservation'.status = "released" => reservation.status = "released"
    BY <1>0, <1>2 DEF FinalizeCodReservation, WltTyped
  <2> QED BY <1>1, <2>1, <2>2 DEF EndsExplained, BooksKept
<1>3. CASE ReleaseCodReservation
  BY <1>0, <1>1, <1>3 DEF ReleaseCodReservation, EndsExplained, WltTyped
<1>4. ASSUME NEW r \in Requests, ReserveCodCapacity(r) PROVE EndsExplained'
  <2>1. reservation' = reservation \/ reservation'.status = "reserved"
    BY <1>4 DEF ReserveCodCapacity, Reserve, Replayed
  <2> QED BY <1>1, <2>1 DEF EndsExplained, BooksKept
<1>5. CASE UNCHANGED reservation BY <1>1, <1>5 DEF EndsExplained, BooksKept
<1>6. OfferStep \/ DeliveryStep \/ CancelStep => UNCHANGED reservation
  BY DEF OfferStep, CreateGovernedAssignment, ReassignGovernedAssignment, DeadlinePasses, Decline,
         ExpireAssignment, CancelGovernedAssignment, DeliveryStep, ArriveAtStore,
         ConfirmStoreCaptainHandoff, PickUp, Deliver, CancelStep, CreateCancellationCase,
         CreateCancellationAction, ExecuteCancellationAction, ExecutionRefused, CancellerStops, wlt
<1>7. AcceptStep => UNCHANGED reservation \/ \E r \in Requests : ReserveCodCapacity(r)
  BY DEF AcceptStep, AcceptRead, ReservationRefused, AcceptReplayed, Accept, AcceptRefused,
         AcceptTooLate, ReadBackAssignment, EnqueueRelease, AcceptAbandoned, wlt
<1>8. ReleaseStep => UNCHANGED reservation \/ ReleaseCodReservation
  BY DEF ReleaseStep, ReleaseNotNeeded, ReleaseForgotten, ReleaseSent, ReleaseGivenUp,
         RetryRelease, ReleaseMoves, wlt
<1>9. CompletionStep => UNCHANGED reservation \/ \E k \in Workers : FinalizeCodReservation(k)
  BY DEF CompletionStep, Claim, DeliverCaptainCommission, ReadDeliveryCompletion, CallFails,
         MarkSentWithReference, MarkUnknown, MarkFailed, WorkerStops, RetryFailed, wlt
<1>10. UNCHANGED vars => UNCHANGED reservation BY DEF vars, wlt
<1> QED BY <1>2, <1>3, <1>4, <1>5, <1>6, <1>7, <1>8, <1>9, <1>10 DEF Next

LEMMA NextFunding == Typed /\ FundingInv /\ [Next]_vars => FundingInv'
<1> SUFFICES ASSUME Typed, FundingInv, [Next]_vars PROVE FundingInv' OBVIOUS
<1>1. BooksKept /\ CaptainsKept /\ HeldKept BY BooksStep, NextTyped, HeldStep
<1> QED BY <1>1, NextHandlerFunded, NextTakenFunded, NextEnds DEF FundingInv

LEMMA InitFunding == Init => FundingInv
BY DEF Init, FundingInv, HandlerFunded, TakenFunded, EndsExplained, Reserved, Held, Idle, Absent

\* WLT debits the captain who delivered.
THEOREM RightWallet == Spec => []DebitedIsDeliverer
<1>1. Typed /\ ActiveFitsOrder /\ FundingInv => DebitedIsDeliverer
  <2> SUFFICES ASSUME ActiveFitsOrder, FundingInv, reservation.status = "finalized"
               PROVE  \E x \in Offers : /\ offer[x].status = "completed"
                                        /\ x \in blind \/ offer[x].captain = reservation.holder
    BY DEF DebitedIsDeliverer
  <2>1. order = "delivered" BY DEF FundingInv, EndsExplained
  <2>2. PICK x \in Offers : Engaged(x) BY <2>1 DEF ActiveFitsOrder
  <2>3. offer[x].status = "completed" BY <2>1, <2>2 DEF ActiveFitsOrder, Together
  <2> QED BY <2>3 DEF FundingInv, TakenFunded, Held
<1> QED BY <1>1, InitTyped, NextTyped, InitFits, NextFits, InitFunding, NextFunding, PTL DEF Spec

\* A captain who took the order is funded until an offer of it was given up.
THEOREM Funded == Spec => []FundedUntilRelease
<1>1. Typed /\ FundingInv => FundedUntilRelease
  BY TypedParts DEF FundingInv, TakenFunded, EndsExplained, FundedUntilRelease, Held, WltTyped
<1> QED BY <1>1, InitTyped, NextTyped, InitFunding, NextFunding, PTL DEF Spec

-----------------------------------------------------------------------------
(* What a completion's status says, with any number of workers, each of    *)
(* which may outlive its lease: what a worker has seen done stays done.    *)

WorkDone ==
  /\ \A k \in Workers :
       /\ worker[k] \in {"finalized", "done", "present"} => reservation.status = "finalized"
       /\ worker[k] \in {"done", "present"} => commission
  /\ SentIsFinalized

\* While nothing failed, only a released reservation puts a result in doubt.
DoubtExplained ==
  /\ faults = 0 => blind = {}
  /\ \A k \in Workers : faults = 0 /\ worker[k] = "doubt" => reservation.status = "released"
  /\ FailureExplained

LEMMA RowFrame ==
  [Next]_vars =>
    \/ UNCHANGED <<completion, worker>>
    \/ CompletionStep
    \/ \E x \in Offers : Deliver(x)
<1>1. OfferStep \/ ReleaseStep \/ CancelStep => UNCHANGED <<completion, worker>>
  BY DEF OfferStep, CreateGovernedAssignment, ReassignGovernedAssignment, DeadlinePasses,
         Decline, ExpireAssignment, CancelGovernedAssignment, ReleaseStep,
         ReleaseCodReservation, ReleaseNotNeeded, ReleaseForgotten, ReleaseSent,
         ReleaseGivenUp, RetryRelease, ReleaseMoves, CancelStep, CreateCancellationCase,
         CreateCancellationAction, ExecuteCancellationAction, ExecutionRefused,
         CancellerStops, outbox
<1>2. AcceptStep => UNCHANGED <<completion, worker>>
  BY DEF AcceptStep, AcceptRead, ReserveCodCapacity, ReservationRefused, AcceptReplayed, Accept,
         AcceptRefused, AcceptTooLate, ReadBackAssignment, EnqueueRelease, AcceptAbandoned, outbox
<1>3. DeliveryStep => UNCHANGED <<completion, worker>> \/ \E x \in Offers : Deliver(x)
  BY DEF DeliveryStep, ArriveAtStore, ConfirmStoreCaptainHandoff, PickUp, outbox
<1>4. UNCHANGED vars => UNCHANGED <<completion, worker>> BY DEF vars, outbox
<1> QED BY <1>1, <1>2, <1>3, <1>4 DEF Next

LEMMA BlindFrame ==
  [Next]_vars => blind' = blind \/ \E r \in Requests, x \in Offers : AcceptRead(r, x)
<1>1. OfferStep \/ DeliveryStep => blind' = blind
  BY DEF OfferStep, CreateGovernedAssignment, ReassignGovernedAssignment, DeadlinePasses, Decline,
         ExpireAssignment, CancelGovernedAssignment, DeliveryStep, ArriveAtStore,
         ConfirmStoreCaptainHandoff, PickUp, Deliver, handler
<1>2. AcceptStep => blind' = blind \/ \E r \in Requests, x \in Offers : AcceptRead(r, x)
  BY DEF AcceptStep, ReserveCodCapacity, ReservationRefused, AcceptReplayed, Accept,
         AcceptRefused, AcceptTooLate, ReadBackAssignment, EnqueueRelease, AcceptAbandoned
<1>3. ReleaseStep \/ CancelStep => blind' = blind
  BY DEF ReleaseStep, ReleaseCodReservation, ReleaseNotNeeded, ReleaseForgotten,
         ReleaseSent, ReleaseGivenUp, RetryRelease, ReleaseMoves, CancelStep,
         CreateCancellationCase, CreateCancellationAction, ExecuteCancellationAction,
         ExecutionRefused, CancellerStops, handler
<1>4. CompletionStep => blind' = blind
  BY DEF CompletionStep, Claim, FinalizeCodReservation, DeliverCaptainCommission,
         ReadDeliveryCompletion, CallFails, MarkSentWithReference, MarkUnknown, MarkFailed,
         WorkerStops, RetryFailed, handler
<1>5. UNCHANGED vars => blind' = blind BY DEF vars, handler
<1> QED BY <1>1, <1>2, <1>3, <1>4, <1>5 DEF Next

LEMMA NextWorkDone ==
  ASSUME Typed, WorkDone, BooksKept, [Next]_vars
  PROVE  WorkDone'
<1>0. RowTyped /\ WltTyped BY TypedParts
<1> USE DEF WorkDone, SentIsFinalized
<1>1. ASSUME NEW k \in Workers, Claim(k) PROVE WorkDone'
  BY <1>0, <1>1 DEF Claim, RowTyped, wlt
<1>2. ASSUME NEW k \in Workers, FinalizeCodReservation(k) PROVE WorkDone'
  <2>1. /\ reservation.status = "finalized" => reservation'.status = "finalized"
        /\ UNCHANGED <<commission, completion>>
    BY <1>2 DEF FinalizeCodReservation, BooksKept
  <2>2. \/ /\ worker' = [worker EXCEPT ![k] = "finalized"]
           /\ reservation'.status = "finalized"
        \/ worker' = [worker EXCEPT ![k] = "doubt"]
    BY <1>0, <1>2 DEF FinalizeCodReservation, Reach, WltTyped
  <2>3. \A j \in Workers : /\ worker'[j] = "finalized" => reservation'.status = "finalized"
                           /\ worker'[j] \in {"done", "present"} => worker[j] = worker'[j]
    BY <1>0, <2>1, <2>2 DEF RowTyped
  <2> QED BY <2>1, <2>3
<1>3. ASSUME NEW k \in Workers, DeliverCaptainCommission(k) PROVE WorkDone'
  BY <1>0, <1>3 DEF DeliverCaptainCommission, Reach, RowTyped
<1>4. ASSUME NEW k \in Workers, ReadDeliveryCompletion(k) PROVE WorkDone'
  BY <1>0, <1>4 DEF ReadDeliveryCompletion, Reach, RowTyped, wlt
<1>5. ASSUME NEW k \in Workers, CallFails(k) \/ WorkerStops(k) PROVE WorkDone'
  BY <1>0, <1>5 DEF CallFails, WorkerStops, Reach, RowTyped, wlt
<1>6. ASSUME NEW k \in Workers, MarkSentWithReference(k) PROVE WorkDone'
  BY <1>0, <1>6 DEF MarkSentWithReference, Marked, Reach, RowTyped, wlt
<1>7. ASSUME NEW k \in Workers, MarkUnknown(k) PROVE WorkDone'
  BY <1>0, <1>7 DEF MarkUnknown, Marked, Reach, RowTyped, wlt
<1>8. ASSUME NEW k \in Workers, MarkFailed(k) PROVE WorkDone'
  BY <1>0, <1>8 DEF MarkFailed, Marked, Reach, RowTyped, wlt
<1>9. CASE RetryFailed BY <1>9 DEF RetryFailed, wlt
<1>10. ASSUME NEW x \in Offers, Deliver(x) PROVE WorkDone'
  BY <1>0, <1>10 DEF Deliver, RowTyped, BooksKept
<1>11. CASE UNCHANGED <<completion, worker>> BY <1>11 DEF BooksKept
<1> QED
  BY <1>1, <1>2, <1>3, <1>4, <1>5, <1>6, <1>7, <1>8, <1>9, <1>10, <1>11, RowFrame
  DEF Next, CompletionStep, DeliveryStep

LEMMA NextDoubt ==
  ASSUME Typed, ActiveFitsOrder, FundingInv, DoubtExplained, BooksKept, [Next]_vars
  PROVE  DoubtExplained'
<1>0. RowTyped /\ WltTyped /\ HistoryTyped BY TypedParts
<1>1. faults' = 0 => blind' = {}
  <2>1. CASE blind' = blind BY <2>1 DEF DoubtExplained, BooksKept
  <2>2. ASSUME NEW r \in Requests, NEW x \in Offers, AcceptRead(r, x), blind' # blind
        PROVE  faults' # 0
    BY <1>0, <2>2, DispatchAssumption DEF AcceptRead, HistoryTyped
  <2> QED BY <2>1, <2>2, BlindFrame
<1> DEFINE Doubt == /\ \A k \in Workers : faults = 0 /\ worker[k] = "doubt" => reservation.status = "released"
                    /\ completion.status = "failed" /\ faults = 0 => reservation.status = "released"
<1>2. Doubt BY DEF DoubtExplained, FailureExplained
<1>3. Doubt'
  <2>1. ASSUME NEW k \in Workers, Claim(k) PROVE Doubt'
    BY <1>0, <1>2, <2>1 DEF Claim, RowTyped, wlt
  <2>2. ASSUME NEW k \in Workers, FinalizeCodReservation(k) PROVE Doubt'
    <3>1. faults = 0 => reservation.status # "none"
      <4> SUFFICES ASSUME faults = 0 PROVE reservation.status # "none" OBVIOUS
      <4>1. order = "delivered"
        BY <1>0, <2>2 DEF FinalizeCodReservation, RowTyped, RowOfDelivery
      <4>2. PICK x \in Offers : Engaged(x) BY <4>1 DEF ActiveFitsOrder
      <4>3. Held(x) BY <4>1, <4>2 DEF ActiveFitsOrder, Together, Held
      <4> QED BY <4>3 DEF DoubtExplained, FundingInv, TakenFunded
    <3>2. \/ /\ reservation.status \in {"reserved", "finalized"}
             /\ worker' = [worker EXCEPT ![k] = "finalized"]
          \/ /\ reservation.status \notin {"reserved", "finalized"} /\ UNCHANGED reservation
             /\ worker' = [worker EXCEPT ![k] = "doubt"]
      BY <2>2 DEF FinalizeCodReservation, Reach
    <3>3. UNCHANGED <<completion, faults>> BY <2>2 DEF FinalizeCodReservation
    <3>4. faults = 0 /\ reservation.status \notin {"reserved", "finalized"}
            => reservation.status = "released"
      BY <1>0, <3>1 DEF WltTyped
    <3> QED BY <1>0, <1>2, <3>2, <3>3, <3>4 DEF RowTyped, BooksKept
  <2>3. ASSUME NEW k \in Workers, DeliverCaptainCommission(k) \/ ReadDeliveryCompletion(k) PROVE Doubt'
    BY <1>0, <1>2, <2>3 DEF DeliverCaptainCommission, ReadDeliveryCompletion, Reach, RowTyped, wlt
  <2>4. ASSUME NEW k \in Workers, CallFails(k) \/ WorkerStops(k) PROVE Doubt'
    BY <1>0, <1>2, <2>4, DispatchAssumption DEF CallFails, WorkerStops, Reach, HistoryTyped
  <2>5. ASSUME NEW k \in Workers, MarkSentWithReference(k) PROVE Doubt'
    BY <1>0, <1>2, <2>5 DEF MarkSentWithReference, Marked, Reach, RowTyped, wlt
  <2>6. ASSUME NEW k \in Workers, MarkUnknown(k) PROVE Doubt'
    BY <1>0, <1>2, <2>6 DEF MarkUnknown, Marked, Reach, RowTyped, wlt
  <2>7. ASSUME NEW k \in Workers, MarkFailed(k) PROVE Doubt'
    BY <1>0, <1>2, <2>7 DEF MarkFailed, Marked, Reach, RowTyped, wlt
  <2>8. CASE RetryFailed BY <1>2, <2>8 DEF RetryFailed, wlt
  <2>9. ASSUME NEW x \in Offers, Deliver(x) PROVE Doubt'
    BY <1>0, <1>2, <2>9 DEF Deliver, RowTyped, BooksKept
  <2>10. CASE UNCHANGED <<completion, worker>> BY <1>2, <2>10 DEF BooksKept
  <2> QED
    BY <2>1, <2>2, <2>3, <2>4, <2>5, <2>6, <2>7, <2>8, <2>9, <2>10, RowFrame
    DEF Next, CompletionStep, DeliveryStep
<1> QED BY <1>1, <1>3 DEF DoubtExplained, FailureExplained

CompletionInv == WorkDone /\ DoubtExplained

LEMMA NextCompletion ==
  Typed /\ ActiveFitsOrder /\ FundingInv /\ CompletionInv /\ [Next]_vars => CompletionInv'
BY BooksStep, NextWorkDone, NextDoubt DEF CompletionInv

LEMMA InitCompletion == Init => CompletionInv
BY DEF Init, CompletionInv, WorkDone, SentIsFinalized, DoubtExplained, FailureExplained

\* A completion marked sent has been debited and its commission posted.
THEOREM SentDone == Spec => []SentIsFinalized
<1>1. CompletionInv => SentIsFinalized BY DEF CompletionInv, WorkDone
<1> QED
  BY <1>1, InitTyped, NextTyped, InitFits, NextFits, InitFunding, NextFunding, InitCompletion,
     NextCompletion, PTL DEF Spec

\* Without a failed call or a stop, only a release leaves a completion to an operator.
THEOREM FailureHasCause == Spec => []FailureExplained
<1>1. CompletionInv => FailureExplained BY DEF CompletionInv, DoubtExplained
<1> QED
  BY <1>1, InitTyped, NextTyped, InitFits, NextFits, InitFunding, NextFunding, InitCompletion,
     NextCompletion, PTL DEF Spec

-----------------------------------------------------------------------------
(* Why a wallet is still reserved: a handler is at it, or its captain has  *)
(* taken the order and left the key of the accept behind.                  *)

TakenBy(c) ==
  \E x \in Offers, k \in Keys : <<x, k>> \in receipts /\ offer[x].captain = c

\* An offer that was taken has a receipt, and one with a receipt is taken until its
\* order is cancelled or a release is queued.
ReceiptsFit ==
  \A x \in Offers :
    /\ Held(x) => \E k \in Keys : <<x, k>> \in receipts
    /\ \A k \in Keys : <<x, k>> \in receipts =>
         offer[x].status # "absent" /\ (Held(x) \/ order = "cancelled" \/ release # "absent")

WalletExplained ==
  reservation.status = "reserved" /\ faults = 0 /\ release = "absent" =>
    Reserving(reservation.holder) \/ TakenBy(reservation.holder)

\* Only a handler that knows of the cash asks for a reservation.
ReservesCod == \A r \in Requests : request[r].stage = "reserving" => request[r].cod

LEMMA CancelledFinal ==
  OrderTyped /\ [Next]_vars => (order = "cancelled" => order' = "cancelled")
<1> SUFFICES ASSUME OrderTyped, [Next]_vars, order = "cancelled" PROVE order' = "cancelled"
  OBVIOUS
<1>1. CASE OfferStep
  BY <1>1 DEF OfferStep, CreateGovernedAssignment, ReassignGovernedAssignment, DeadlinePasses, Decline,
         ExpireAssignment, CancelGovernedAssignment, ReturnToPool
<1>2. CASE AcceptStep
  BY <1>2 DEF AcceptStep, AcceptRead, ReserveCodCapacity, ReservationRefused, AcceptReplayed, Accept,
       AcceptRefused, AcceptTooLate, ReadBackAssignment, EnqueueRelease, AcceptAbandoned, ReturnToPool,
       dispatch
<1>3. CASE DeliveryStep
  BY <1>3 DEF DeliveryStep, ArriveAtStore, ConfirmStoreCaptainHandoff, PickUp, Deliver
<1>4. CASE CancelStep
  BY <1>4 DEF CancelStep, CreateCancellationCase,
       CreateCancellationAction, ExecuteCancellationAction, ExecutionRefused, CancellerStops, dispatch
<1>5. CASE ReleaseStep \/ CompletionStep
  BY <1>5 DEF ReleaseStep, ReleaseCodReservation, ReleaseNotNeeded, ReleaseForgotten,
              ReleaseSent, ReleaseGivenUp, RetryRelease, ReleaseMoves, CompletionStep,
              Claim, FinalizeCodReservation, DeliverCaptainCommission,
              ReadDeliveryCompletion, CallFails, MarkSentWithReference, MarkUnknown,
              MarkFailed, WorkerStops, RetryFailed, dispatch
<1>6. CASE UNCHANGED vars BY <1>6 DEF vars, dispatch
<1> QED BY <1>1, <1>2, <1>3, <1>4, <1>5, <1>6 DEF Next

LEMMA ReceiptFrame ==
  [Next]_vars => receipts' = receipts \/ \E r \in Requests, k \in Keys : Accept(r, k)
<1>1. OfferStep \/ DeliveryStep => receipts' = receipts
  BY DEF OfferStep, CreateGovernedAssignment, ReassignGovernedAssignment, DeadlinePasses, Decline,
         ExpireAssignment, CancelGovernedAssignment, DeliveryStep, ArriveAtStore,
         ConfirmStoreCaptainHandoff, PickUp, Deliver, handler
<1>2. AcceptStep => receipts' = receipts \/ \E r \in Requests, k \in Keys : Accept(r, k)
  BY DEF AcceptStep, AcceptRead, ReserveCodCapacity, ReservationRefused, AcceptReplayed,
         AcceptRefused, AcceptTooLate, ReadBackAssignment, EnqueueRelease, AcceptAbandoned
<1>3. ReleaseStep \/ CancelStep => receipts' = receipts
  BY DEF ReleaseStep, ReleaseCodReservation, ReleaseNotNeeded, ReleaseForgotten,
         ReleaseSent, ReleaseGivenUp, RetryRelease, ReleaseMoves, CancelStep,
         CreateCancellationCase, CreateCancellationAction, ExecuteCancellationAction,
         ExecutionRefused, CancellerStops, handler
<1>4. CompletionStep => receipts' = receipts
  BY DEF CompletionStep, Claim, FinalizeCodReservation, DeliverCaptainCommission,
         ReadDeliveryCompletion, CallFails, MarkSentWithReference, MarkUnknown, MarkFailed,
         WorkerStops, RetryFailed, handler
<1>5. UNCHANGED vars => receipts' = receipts BY DEF vars, handler
<1> QED BY <1>1, <1>2, <1>3, <1>4, <1>5 DEF Next

LEMMA AcceptHeld ==
  ASSUME Typed, NEW r \in Requests, NEW k \in Keys, Accept(r, k)
  PROVE  /\ request[r].offer \in Offers
         /\ offer'[request[r].offer].status = "accepted"
         /\ receipts' = receipts \cup {<<request[r].offer, k>>}
<1>0. OffersTyped /\ HandlersTyped BY TypedParts
<1>1. PICK x \in Offers : x = request[r].offer BY <1>0 DEF Accept, HandlersTyped
<1>2. Closed(x, "accepted", "driver_assigned").status = "accepted"
  BY <1>0, ClosedRow DEF OffersTyped, AssignmentStatus, DeliveryStatus
<1> QED BY <1>0, <1>1, <1>2 DEF Accept, OffersTyped

LEMMA NextReceipts ==
  ASSUME Typed, ReceiptsFit, BooksKept, HeldKept, CaptainsKept, [Next]_vars
  PROVE  ReceiptsFit'
<1>0. order = "cancelled" => order' = "cancelled" BY CancelledFinal, TypedParts
<1>1. \A x \in Offers : Held(x)' => \E k \in Keys : <<x, k>> \in receipts'
  <2> SUFFICES ASSUME NEW x \in Offers, Held(x)' PROVE \E k \in Keys : <<x, k>> \in receipts'
    OBVIOUS
  <2>1. CASE Held(x) BY <2>1 DEF ReceiptsFit, BooksKept
  <2>2. ASSUME NEW r \in Requests, NEW k \in Keys, Accept(r, k), request[r].offer = x
        PROVE  \E j \in Keys : <<x, j>> \in receipts'
    BY <2>2, AcceptHeld
  <2> QED BY <2>1, <2>2 DEF HeldKept
<1>2. ASSUME NEW x \in Offers, NEW k \in Keys, <<x, k>> \in receipts'
      PROVE  offer'[x].status # "absent" /\ (Held(x)' \/ order' = "cancelled" \/ release' # "absent")
  <2>1. CASE <<x, k>> \in receipts
    BY <1>0, <2>1 DEF ReceiptsFit, BooksKept, HeldKept, CaptainsKept
  <2>2. ASSUME NEW r \in Requests, NEW j \in Keys, Accept(r, j), <<x, k>> \notin receipts
        PROVE  offer'[x].status = "accepted"
    BY <1>2, <2>2, AcceptHeld
  <2> QED BY <1>2, <2>1, <2>2, ReceiptFrame DEF Held
<1> QED BY <1>1, <1>2 DEF ReceiptsFit

\* A handler that holds the reservation lets go of it only into a receipt, a queued
\* release or a fault.
LetGo(r) ==
  \/ UNCHANGED request
  \/ request'[r].stage \in {"accepting", "refused", "releasing"}
     /\ request'[r].cod /\ request'[r].offer = request[r].offer
  \/ \E k \in Keys : <<request[r].offer, k>> \in receipts'
  \/ release' # "absent" \/ faults' # 0

LEMMA LettingGo ==
  ASSUME Typed, ReceiptsFit, [Next]_vars, NEW r \in Requests, Reserved(r)
  PROVE  LetGo(r)
<1>0. HandlersTyped /\ WltTyped /\ HistoryTyped BY TypedParts
<1>1. /\ request[r].stage \in {"accepting", "refused", "releasing"} /\ request[r].cod
      /\ request[r].offer \in Offers
  BY <1>0 DEF Reserved, HandlersTyped
<1>2. ASSUME NEW q \in Requests, NEW t \in {"accepting", "refused", "releasing"}, Become(q, t)
      PROVE  LetGo(r)
  BY <1>0, <1>1, <1>2 DEF LetGo, Become, HandlersTyped, Ask
<1>3. ASSUME NEW q \in Requests, NEW x \in Offers, AcceptRead(q, x) PROVE LetGo(r)
  BY <1>0, <1>1, <1>3 DEF LetGo, AcceptRead, HandlersTyped
<1>4. ASSUME NEW q \in Requests, q # r, Answer(q) PROVE LetGo(r)
  BY <1>0, <1>1, <1>4 DEF LetGo, Answer, HandlersTyped
<1>5. ASSUME NEW k \in Keys, AcceptReplayed(r, k) PROVE LetGo(r)
  BY <1>5 DEF LetGo, AcceptReplayed
<1>6. ASSUME NEW k \in Keys, Accept(r, k) PROVE LetGo(r)
  BY <1>6 DEF LetGo, Accept
<1>7. ASSUME ReadBackAssignment(r) PROVE LetGo(r)
  <2>1. CASE offer[request[r].offer].status = "accepted"
    <3>1. \E k \in Keys : <<request[r].offer, k>> \in receipts
      BY <1>1, <2>1 DEF ReceiptsFit, Held
    <3> QED BY <1>7, <3>1 DEF ReadBackAssignment, LetGo
  <2>2. CASE offer[request[r].offer].status # "accepted"
    BY <1>2, <1>7, <2>2 DEF ReadBackAssignment
  <2> QED BY <2>1, <2>2
<1>8. ASSUME EnqueueRelease(r) PROVE LetGo(r)
  BY <1>0, <1>8, EnqueuedThere DEF EnqueueRelease, LetGo
<1>9. ASSUME AcceptAbandoned(r) PROVE LetGo(r)
  BY <1>0, <1>9, DispatchAssumption DEF AcceptAbandoned, LetGo, HistoryTyped
<1>10. CASE AcceptStep
  <2>0. ASSUME NEW q \in Requests, NEW k \in Keys, AcceptRefused(q, k) \/ AcceptTooLate(q, k)
        PROVE  Become(q, "refused") \/ (~request[q].cod /\ Answer(q))
    BY <2>0 DEF AcceptRefused, AcceptTooLate, Refused
  <2>1. PICK q \in Requests :
          \/ \E t \in {"accepting", "refused", "releasing"} : Become(q, t)
          \/ \E x \in Offers : AcceptRead(q, x)
          \/ ReservationRefused(q)
          \/ \E k \in Keys :
               AcceptReplayed(q, k) \/ Accept(q, k)
          \/ (~request[q].cod /\ Answer(q))
          \/ ReadBackAssignment(q) \/ EnqueueRelease(q) \/ AcceptAbandoned(q)
    BY <1>10, <2>0 DEF AcceptStep, ReserveCodCapacity
  <2>2. CASE q = r
    BY <1>1, <1>2, <1>3, <1>5, <1>6, <1>7, <1>8, <1>9, <2>1, <2>2 DEF ReservationRefused
  <2>3. CASE q # r
    <3>1. \/ Answer(q)
          \/ \E t \in {"accepting", "refused", "releasing"} : Become(q, t)
          \/ \E x \in Offers : AcceptRead(q, x)
      BY <2>1 DEF ReservationRefused, AcceptReplayed, Accept, ReadBackAssignment, EnqueueRelease,
                  AcceptAbandoned
    <3> QED BY <1>2, <1>3, <1>4, <2>3, <3>1
  <2> QED BY <2>2, <2>3
<1>11. CASE UNCHANGED request BY <1>11 DEF LetGo
<1>12. OfferStep => UNCHANGED request
  BY DEF OfferStep, CreateGovernedAssignment, ReassignGovernedAssignment, DeadlinePasses, Decline,
         ExpireAssignment, CancelGovernedAssignment, handler
<1>13. DeliveryStep \/ ReleaseStep \/ CancelStep => UNCHANGED request
  BY DEF DeliveryStep, ArriveAtStore, ConfirmStoreCaptainHandoff, PickUp, Deliver,
         ReleaseStep, ReleaseCodReservation, ReleaseNotNeeded, ReleaseForgotten,
         ReleaseSent, ReleaseGivenUp, RetryRelease, ReleaseMoves, CancelStep,
         CreateCancellationCase, CreateCancellationAction, ExecuteCancellationAction,
         ExecutionRefused, CancellerStops, handler
<1>14. CompletionStep => UNCHANGED request
  BY DEF CompletionStep, Claim, FinalizeCodReservation, DeliverCaptainCommission,
         ReadDeliveryCompletion, CallFails, MarkSentWithReference, MarkUnknown, MarkFailed,
         WorkerStops, RetryFailed, handler
<1>15. UNCHANGED vars => UNCHANGED request BY DEF vars, handler
<1> QED BY <1>10, <1>11, <1>12, <1>13, <1>14, <1>15 DEF Next

\* A reservation is made by a handler that holds it from then on.
LEMMA ReservedByHandler ==
  ASSUME Typed, ReservesCod, [Next]_vars, reservation'.status = "reserved"
  PROVE  \/ reservation' = reservation
         \/ \E r \in Requests : Reserved(r)' /\ reservation'.holder = offer'[request'[r].offer].captain
<1>0. WltTyped /\ HandlersTyped BY TypedParts
<1>1. ASSUME NEW r \in Requests, ReserveCodCapacity(r), request[r].cod
      PROVE  Reserved(r)' /\ reservation'.holder = offer'[request'[r].offer].captain
  <2>1. /\ request'[r].stage = "accepting" /\ request'[r].cod
        /\ request'[r].offer = request[r].offer
    BY <1>0, <1>1 DEF ReserveCodCapacity, Become, HandlersTyped, Ask
  <2> QED BY <1>1, <2>1 DEF ReserveCodCapacity, Reserve, Replayed, Reserved, dispatch
<1>2. reservation' = reservation \/ \E r \in Requests : ReserveCodCapacity(r)
  <2>1. OfferStep \/ DeliveryStep \/ CancelStep => UNCHANGED reservation
    BY DEF OfferStep, CreateGovernedAssignment, ReassignGovernedAssignment, DeadlinePasses, Decline,
         ExpireAssignment, CancelGovernedAssignment, DeliveryStep, ArriveAtStore,
         ConfirmStoreCaptainHandoff, PickUp, Deliver, CancelStep, CreateCancellationCase,
         CreateCancellationAction, ExecuteCancellationAction, ExecutionRefused, CancellerStops, wlt
  <2>2. AcceptStep => UNCHANGED reservation \/ \E r \in Requests : ReserveCodCapacity(r)
    BY DEF AcceptStep, AcceptRead, ReservationRefused, AcceptReplayed, Accept, AcceptRefused,
         AcceptTooLate, ReadBackAssignment, EnqueueRelease, AcceptAbandoned, wlt
  <2>3. ReleaseStep => UNCHANGED reservation
    <3>1. ReleaseCodReservation => UNCHANGED reservation
      BY <1>0 DEF ReleaseCodReservation, WltTyped
    <3> QED BY <3>1 DEF ReleaseStep, ReleaseNotNeeded, ReleaseForgotten, ReleaseSent,
                        ReleaseGivenUp, RetryRelease, ReleaseMoves, wlt
  <2>4. CompletionStep => UNCHANGED reservation
    <3>1. \A k \in Workers : FinalizeCodReservation(k) => UNCHANGED reservation
      BY <1>0 DEF FinalizeCodReservation, WltTyped
    <3> QED
      BY <3>1 DEF CompletionStep, Claim, DeliverCaptainCommission, ReadDeliveryCompletion, CallFails,
         MarkSentWithReference, MarkUnknown, MarkFailed, WorkerStops, RetryFailed, wlt
  <2>5. UNCHANGED vars => UNCHANGED reservation BY DEF vars, wlt
  <2> QED BY <2>1, <2>2, <2>3, <2>4, <2>5 DEF Next
<1> QED BY <1>1, <1>2 DEF ReservesCod, ReserveCodCapacity

LEMMA NextReserves == Typed /\ ReservesCod /\ [Next]_vars => ReservesCod'
<1> SUFFICES ASSUME HandlersTyped, ReservesCod, [Next]_vars PROVE ReservesCod' BY TypedParts
<1>1. ASSUME NEW r \in Requests, HandlerMove(r) PROVE ReservesCod'
  <2>1. ASSUME NEW t \in {"accepting", "refused", "releasing"}, Become(r, t) PROVE ReservesCod'
    BY <2>1 DEF Become, HandlersTyped, Ask, ReservesCod
  <2>2. CASE Answer(r) BY <2>2 DEF Answer, Idle, HandlersTyped, ReservesCod
  <2>3. ASSUME NEW x \in Offers, AcceptRead(r, x) PROVE ReservesCod'
    BY <2>3 DEF AcceptRead, HandlersTyped, ReservesCod
  <2>4. CASE UNCHANGED request BY <2>4 DEF ReservesCod
  <2> QED BY <1>1, <2>1, <2>2, <2>3, <2>4 DEF HandlerMove, ReserveCodCapacity
<1>2. CASE UNCHANGED request BY <1>2 DEF ReservesCod
<1> QED BY <1>1, <1>2, HandlerStep

LEMMA NextWalletExplained ==
  ASSUME Typed, ReservesCod, ReceiptsFit, WalletExplained, BooksKept, CaptainsKept, [Next]_vars
  PROVE  WalletExplained'
<1> SUFFICES ASSUME reservation'.status = "reserved", faults' = 0, release' = "absent"
             PROVE  Reserving(reservation.holder)' \/ TakenBy(reservation.holder)'
  BY DEF WalletExplained
<1>0. HandlersTyped /\ HandlersTyped' BY TypedParts, NextTyped, NextHandlers
<1>1. ASSUME NEW r \in Requests, Reserved(r)', reservation'.holder = offer'[request'[r].offer].captain
      PROVE  Reserving(reservation.holder)'
  BY <1>1 DEF Reserved, Reserving
<1>2. CASE reservation' = reservation
  <2>1. Reserving(reservation.holder) \/ TakenBy(reservation.holder)
    BY <1>2 DEF WalletExplained, BooksKept
  <2>2. CASE TakenBy(reservation.holder)
    <3>1. PICK x \in Offers : \E k \in Keys : <<x, k>> \in receipts /\ offer[x].captain = reservation.holder
      BY <2>2 DEF TakenBy
    <3>2. PICK k \in Keys : <<x, k>> \in receipts /\ offer[x].captain = reservation.holder
      BY <3>1
    <3>3. <<x, k>> \in receipts' /\ offer'[x].captain = reservation'.holder
      BY <1>2, <3>2 DEF ReceiptsFit, BooksKept, CaptainsKept
    <3> QED BY <3>3 DEF TakenBy
  <2>3. CASE Reserving(reservation.holder)
    <3>1. PICK r \in Requests : /\ Reserved(r)
                                /\ offer[request[r].offer].captain = reservation.holder
      BY <2>3 DEF Reserving, Reserved
    <3>2. LetGo(r) BY <3>1, LettingGo
    <3>3. PICK x \in Offers : x = request[r].offer BY <1>0, <3>1 DEF Reserved, HandlersTyped
    <3>4. offer'[x].captain = reservation'.holder
      BY <1>0, <1>2, <3>1, <3>3 DEF Reserved, HandlersTyped, CaptainsKept
    <3>5. CASE UNCHANGED request
      BY <3>1, <3>3, <3>4, <3>5 DEF Reserving, Reserved
    <3>6. CASE /\ request'[r].stage \in {"accepting", "refused", "releasing"}
               /\ request'[r].cod /\ request'[r].offer = request[r].offer
      BY <3>3, <3>4, <3>6 DEF Reserving
    <3>7. ASSUME NEW k \in Keys, <<request[r].offer, k>> \in receipts'
          PROVE  TakenBy(reservation.holder)'
      BY <3>3, <3>4, <3>7 DEF TakenBy
    <3> QED BY <3>2, <3>5, <3>6, <3>7 DEF LetGo
  <2> QED BY <2>1, <2>2, <2>3
<1> QED BY <1>1, <1>2, ReservedByHandler

WalletInv == ReservesCod /\ ReceiptsFit /\ WalletExplained

LEMMA NextWallet == Typed /\ WalletInv /\ [Next]_vars => WalletInv'
<1> SUFFICES ASSUME Typed, WalletInv, [Next]_vars PROVE WalletInv' OBVIOUS
<1>1. BooksKept /\ CaptainsKept /\ HeldKept BY BooksStep, NextTyped, HeldStep
<1> QED BY <1>1, NextReserves, NextReceipts, NextWalletExplained DEF WalletInv

LEMMA InitWallet == Init => WalletInv
BY DEF Init, WalletInv, ReservesCod, ReceiptsFit, WalletExplained, Held, Idle, Absent

\* A wallet that stays reserved has a handler, a captain on the way, a cancelled order
\* or a fault behind it.
THEOREM ReservationHasCause == Spec => []ReservationExplained
<1>1. WalletInv => ReservationExplained
  <2> SUFFICES ASSUME WalletInv, reservation.status = "reserved", faults = 0, release = "absent",
                      ~Reserving(reservation.holder)
               PROVE  \E x \in Offers :
                        /\ offer[x].captain = reservation.holder
                        /\ \/ Engaged(x)
                           \/ order = "cancelled" /\ \E k \in Keys : <<x, k>> \in receipts
    BY DEF ReservationExplained
  <2>1. TakenBy(reservation.holder) BY DEF WalletInv, WalletExplained
  <2>2. PICK x \in Offers : \E k \in Keys : <<x, k>> \in receipts /\ offer[x].captain = reservation.holder
    BY <2>1 DEF TakenBy
  <2>3. PICK k \in Keys : <<x, k>> \in receipts /\ offer[x].captain = reservation.holder BY <2>2
  <2>4. Held(x) \/ order = "cancelled" BY <2>3 DEF WalletInv, ReceiptsFit
  <2> QED BY <2>3, <2>4 DEF Held, Engaged, Active
<1> QED BY <1>1, InitTyped, NextTyped, InitWallet, NextWallet, PTL DEF Spec


-----------------------------------------------------------------------------
(* The release row and the reservation keep to ReleaseDuty.                *)

\* The reservation as ReleaseDuty has it.
Kept == IF reservation.status = "none" THEN "absent" ELSE reservation.status

LEMMA OfferDuty == OfferStep => Duty!Step
BY DEF OfferStep, CreateGovernedAssignment, ReassignGovernedAssignment, DeadlinePasses, Decline,
       ExpireAssignment, CancelGovernedAssignment, ReturnToPool, Enqueued, wlt,
       Duty!Step, Duty!Next, Duty!Oblige

LEMMA AcceptDuty == WltTyped /\ AcceptStep => Duty!Step
<1> SUFFICES ASSUME WltTyped, NEW r \in Requests,
                    \/ \E x \in Offers : AcceptRead(r, x)
                    \/ ReserveCodCapacity(r) \/ ReservationRefused(r)
                    \/ \E k \in Keys : AcceptReplayed(r, k) \/ Accept(r, k) \/ AcceptRefused(r, k)
                    \/ \E k \in Keys : AcceptTooLate(r, k)
                    \/ ReadBackAssignment(r) \/ EnqueueRelease(r) \/ AcceptAbandoned(r)
             PROVE  Duty!Step
  BY DEF AcceptStep
<1>1. CASE ReserveCodCapacity(r)
  BY <1>1 DEF ReserveCodCapacity, Reserve, Replayed, Duty!Step, Duty!Next, Duty!Reserve
<1>2. CASE EnqueueRelease(r) \/ \E k \in Keys : AcceptTooLate(r, k)
  BY <1>2 DEF EnqueueRelease, AcceptTooLate, ReturnToPool, Enqueued, wlt,
              Duty!Step, Duty!Next, Duty!Oblige
<1>3. ASSUME NEW k \in Keys, AcceptReplayed(r, k) \/ Accept(r, k) \/ AcceptRefused(r, k)
      PROVE  Duty!Step
  BY <1>3 DEF AcceptReplayed, Accept, AcceptRefused, wlt, Duty!Step
<1>4. CASE \/ \E x \in Offers : AcceptRead(r, x)
           \/ ReservationRefused(r) \/ ReadBackAssignment(r) \/ AcceptAbandoned(r)
  BY <1>4 DEF AcceptRead, ReservationRefused, ReadBackAssignment, AcceptAbandoned, wlt, Duty!Step
<1> QED BY <1>1, <1>2, <1>3, <1>4

LEMMA CompletionDuty == WltTyped /\ CompletionStep => Duty!Step
<1> SUFFICES ASSUME WltTyped, CompletionStep PROVE Duty!Step OBVIOUS
<1>1. ASSUME NEW k \in Workers, FinalizeCodReservation(k) PROVE Duty!Step
  BY <1>1 DEF FinalizeCodReservation, WltTyped, Duty!Step, Duty!Next, Duty!Finalize
<1>2. ASSUME \/ \E k \in Workers :
                  \/ Claim(k) \/ DeliverCaptainCommission(k) \/ ReadDeliveryCompletion(k)
                  \/ CallFails(k) \/ MarkSentWithReference(k) \/ MarkUnknown(k) \/ MarkFailed(k)
                  \/ WorkerStops(k)
             \/ RetryFailed
      PROVE  Duty!Step
  BY <1>2 DEF Claim, DeliverCaptainCommission, ReadDeliveryCompletion, CallFails,
              MarkSentWithReference, MarkUnknown, MarkFailed, WorkerStops, RetryFailed, wlt, Duty!Step
<1> QED BY <1>1, <1>2 DEF CompletionStep

\* What the outbox may do under the contract is exactly what the release row does here,
\* which leaves the rest of the order alone: dispatch is checked and proved against every
\* outbox that keeps to ReleaseDuty (ReleaseCodReservation, MarkDeliveryFailure).
THEOREM ReleaseIsDeliver ==
  ASSUME TypeOK, TypeOK'
  PROVE  ReleaseStep <=>
           /\ Duty!Deliver /\ reservation'.holder = reservation.holder
           /\ UNCHANGED <<method, dispatch, handler, commission, cancellation, outbox, faults>>
<1> DEFINE Rest == UNCHANGED <<method, dispatch, handler, commission, cancellation, outbox, faults>>
<1>0. /\ reservation \in [status : {"none", "reserved", "released", "finalized"},
                          holder : Captains \cup {None}]
      /\ reservation' \in [status : {"none", "reserved", "released", "finalized"},
                           holder : Captains \cup {None}]
      /\ release \in {"absent", "pending", "answered", "sent", "failed"}
      /\ release' \in {"absent", "pending", "answered", "sent", "failed"}
  BY DEF TypeOK
<1>1. ReleaseStep => Duty!Deliver /\ reservation'.holder = reservation.holder
  BY <1>0 DEF ReleaseStep, ReleaseCodReservation, ReleaseNotNeeded, ReleaseForgotten,
              ReleaseSent, ReleaseGivenUp, RetryRelease, ReleaseMoves, wlt, Duty!Deliver,
              Duty!Execute, Duty!Answer, Duty!Forget, Duty!Discharge, Duty!Park,
              Duty!Reopen
<1>2. ReleaseStep => Rest
  BY DEF ReleaseStep, ReleaseCodReservation, ReleaseNotNeeded, ReleaseForgotten,
         ReleaseSent, ReleaseGivenUp, RetryRelease, ReleaseMoves, wlt
<1>3. ASSUME reservation'.holder = reservation.holder
      PROVE  /\ Kept' = Kept => UNCHANGED reservation
             /\ Kept = "reserved" /\ Kept' = "released" =>
                  /\ reservation.status = "reserved"
                  /\ reservation' = [reservation EXCEPT !.status = "released"]
             /\ Kept # "reserved" => reservation.status # "reserved"
  BY <1>0, <1>3 DEF Kept
<1>4. ASSUME Duty!Deliver, reservation'.holder = reservation.holder, Rest PROVE ReleaseStep
  <2>1. CASE Duty!Execute
    BY <1>3, <1>4, <2>1 DEF Duty!Execute, Kept, ReleaseStep, ReleaseCodReservation
  <2>2. CASE Duty!Answer
    BY <1>3, <1>4, <2>2 DEF Duty!Answer, Kept, ReleaseStep, ReleaseCodReservation, ReleaseNotNeeded, wlt
  <2>3. CASE Duty!Forget \/ Duty!Discharge \/ Duty!Park \/ Duty!Reopen
    BY <1>3, <1>4, <2>3 DEF Duty!Forget, Duty!Discharge, Duty!Park, Duty!Reopen, Kept,
                            ReleaseStep, ReleaseForgotten, ReleaseSent, ReleaseGivenUp,
                            RetryRelease, ReleaseMoves, wlt
  <2> QED BY <1>4, <2>1, <2>2, <2>3 DEF Duty!Deliver
<1> QED BY <1>1, <1>2, <1>4

LEMMA DutyStep == Typed /\ Typed' /\ [Next]_vars => Duty!Step
<1> SUFFICES ASSUME Typed, Typed', [Next]_vars PROVE Duty!Step OBVIOUS
<1>0. WltTyped BY TypedParts
<1>1. CASE ReleaseStep BY <1>1, ReleaseIsDeliver DEF Typed, Duty!Step, Duty!Next
<1>2. CASE DeliveryStep \/ CancelStep
  BY <1>2 DEF DeliveryStep, ArriveAtStore, ConfirmStoreCaptainHandoff, PickUp, Deliver, CancelStep,
     CreateCancellationCase, CreateCancellationAction, ExecuteCancellationAction, ExecutionRefused,
     CancellerStops, wlt, Duty!Step
<1>3. CASE UNCHANGED vars BY <1>3 DEF vars, wlt, Duty!Step
<1> QED BY <1>0, <1>1, <1>2, <1>3, OfferDuty, AcceptDuty, CompletionDuty DEF Next

\* Whatever dispatch, the accept handlers and the completion do, the one release of the
\* order is queued once and no other way than by giving up an offer, and what WLT holds
\* for the order is released by it alone.
THEOREM ReleasePromised == Spec => ReleaseAsPromised
<1>1. Init => Duty!Init BY DEF Init, Duty!Init
<1> QED BY <1>1, InitTyped, NextTyped, DutyStep, PTL DEF Spec, ReleaseAsPromised, Duty!Spec


-----------------------------------------------------------------------------
(* The order is in the custody OrderCustody describes.                     *)

Carriers == {offer[x].captain : x \in {y \in Offers : Engaged(y)}}
Taken == \E x \in Offers : offer[x].status \in {"accepted", "completed"}

\* The order is with the captain of x, who has accepted or not.
With(x) == Carriers = {offer[x].captain} /\ (Taken <=> Held(x))

LEMMA EngagedCarries ==
  ASSUME NEW x \in Offers
  PROVE  /\ ActiveFitsOrder /\ Engaged(x) => With(x)
         /\ ActiveFitsOrder' /\ Engaged(x)' => With(x)'
BY DEF ActiveFitsOrder, With, Carriers, Taken, Held, Engaged, Active

LEMMA NobodyCarries ==
  /\ ActiveFitsOrder /\ order \in {"ready_for_pickup", "cancelled"} => Carriers = {} /\ ~Taken
  /\ ActiveFitsOrder' /\ order' \in {"ready_for_pickup", "cancelled"} => Carriers' = {} /\ ~Taken'
<1>1. \A x \in Offers : /\ ActiveFitsOrder /\ Engaged(x) => order \notin {"ready_for_pickup", "cancelled"}
                        /\ ActiveFitsOrder' /\ Engaged(x)' => order' \notin {"ready_for_pickup", "cancelled"}
  BY DEF ActiveFitsOrder, Together
<1> QED BY <1>1 DEF Carriers, Taken, Engaged, Active

LEMMA SameCarries ==
  ASSUME \A x \in Offers : offer'[x].status = offer[x].status /\ offer'[x].captain = offer[x].captain
  PROVE  Carriers' = Carriers /\ Taken' = Taken
BY DEF Carriers, Taken, Engaged, Active

LEMMA ReturnCustody ==
  ASSUME ActiveFitsOrder', order = "driver_assigned", order' = "ready_for_pickup"
  PROVE  Custody!Step
BY NobodyCarries DEF Carriers, Taken, Custody!Step, Custody!Next, Custody!Withdraw

LEMMA OfferCustody ==
  Typed /\ ActiveFitsOrder /\ ActiveFitsOrder' /\ OfferStep => Custody!Step
<1> SUFFICES ASSUME OffersTyped, ActiveFitsOrder, ActiveFitsOrder', OfferStep PROVE Custody!Step
  BY TypedParts
<1>1. ASSUME NEW x \in Offers, NEW c \in Captains, CreateGovernedAssignment(x, c)
      PROVE  Custody!Step
  <2>1. offer'[x] = Fresh(c) BY <1>1 DEF CreateGovernedAssignment, OffersTyped
  <2>2. Carriers' = {c} /\ ~Taken'
    BY <2>1, EngagedCarries DEF With, Held, Engaged, Active, Fresh
  <2> QED BY <1>1, <2>2 DEF CreateGovernedAssignment, Carriers, Taken, Custody!Step, Custody!Next, Custody!Offer
<1>2. ASSUME NEW x \in Offers, NEW y \in Offers, NEW c \in Captains,
             ReassignGovernedAssignment(x, y, c)
      PROVE  Custody!Step
  <2>1. offer'[y] = Fresh(c)
    BY <1>2 DEF ReassignGovernedAssignment, OffersTyped, Withdrawable, Active
  <2>2. Carriers' = {c} /\ ~Taken'
    BY <2>1, EngagedCarries DEF With, Held, Engaged, Active, Fresh
  <2> QED
    BY <1>2, <2>2 DEF ReassignGovernedAssignment, Carriers, Taken, Custody!Step, Custody!Next, Custody!Reassign
<1>3. ASSUME NEW x \in Offers, DeadlinePasses(x) PROVE Custody!Step
  <2>1. Carriers' = Carriers /\ Taken' = Taken
    BY <1>3, SameCarries DEF DeadlinePasses, OffersTyped, Row
  <2> QED BY <1>3, <2>1 DEF DeadlinePasses, Carriers, Taken, Custody!Step
<1>4. ASSUME NEW x \in Offers, Decline(x) \/ ExpireAssignment(x) \/ CancelGovernedAssignment(x)
      PROVE  Custody!Step
  BY <1>4, ReturnCustody DEF Decline, ExpireAssignment, CancelGovernedAssignment, ReturnToPool
<1> QED BY <1>1, <1>2, <1>3, <1>4 DEF OfferStep

LEMMA AcceptCustody ==
  Typed /\ ActiveFitsOrder /\ ActiveFitsOrder' /\ AcceptStep => Custody!Step
<1> SUFFICES ASSUME OffersTyped, HandlerOpen, ActiveFitsOrder, ActiveFitsOrder', AcceptStep
             PROVE  Custody!Step
  BY TypedParts DEF Typed
<1>1. ASSUME NEW r \in Requests, NEW k \in Keys, Accept(r, k) PROVE Custody!Step
  <2>1. PICK x \in Offers :
          /\ offer[x].status = "offered" /\ order' = order
          /\ offer' = [offer EXCEPT ![x] = Closed(x, "accepted", "driver_assigned")]
    BY <1>1 DEF Accept, HandlerOpen
  <2>2. offer'[x].status = "accepted" /\ offer'[x].captain = offer[x].captain
    BY <2>1, ClosedRow DEF OffersTyped, AssignmentStatus, DeliveryStatus
  <2>3. With(x) /\ With(x)' BY <2>1, <2>2, EngagedCarries DEF Engaged, Active
  <2>4. order = "driver_assigned" BY <2>1 DEF ActiveFitsOrder, Engaged, Active, Together
  <2>5. Carriers' = Carriers /\ ~Taken /\ Taken' BY <2>1, <2>2, <2>3 DEF With, Held
  <2> QED BY <2>1, <2>4, <2>5 DEF Carriers, Taken, Custody!Step, Custody!Next, Custody!Accept
<1>2. ASSUME NEW r \in Requests, NEW k \in Keys, AcceptTooLate(r, k) PROVE Custody!Step
  BY <1>2, ReturnCustody DEF AcceptTooLate, ReturnToPool
<1>3. CASE UNCHANGED <<order, offer>>
  <2>1. Carriers' = Carriers /\ Taken' = Taken BY <1>3, SameCarries
  <2> QED BY <1>3, <2>1 DEF Carriers, Taken, Custody!Step
<1>4. \/ \E r \in Requests, k \in Keys : Accept(r, k) \/ AcceptTooLate(r, k)
      \/ UNCHANGED <<order, offer>>
  BY DEF AcceptStep, AcceptRead, ReserveCodCapacity, ReservationRefused, AcceptReplayed,
     AcceptRefused, ReadBackAssignment, EnqueueRelease, AcceptAbandoned, dispatch
<1> QED BY <1>1, <1>2, <1>3, <1>4

LEMMA DeliveryCustody ==
  Typed /\ ActiveFitsOrder /\ ActiveFitsOrder' /\ DeliveryStep => Custody!Step
<1> SUFFICES ASSUME OffersTyped, ActiveFitsOrder, ActiveFitsOrder', NEW x \in Offers,
                    ArriveAtStore(x) \/ ConfirmStoreCaptainHandoff(x) \/ PickUp(x) \/ Deliver(x)
             PROVE  Custody!Step
  BY TypedParts DEF DeliveryStep
<1>1. /\ Held(x) /\ offer'[x].status \in {"accepted", "completed"}
      /\ offer'[x].captain = offer[x].captain
  <2>1. Held(x) BY DEF Held, ArriveAtStore, ConfirmStoreCaptainHandoff, PickUp, Deliver, Advance
  <2>2. offer \in [Offers -> Row] BY DEF OffersTyped
  <2>3. \/ \E d \in DeliveryStatus : offer' = [offer EXCEPT ![x].delivery = d]
        \/ offer' = offer
        \/ offer' = [offer EXCEPT ![x] = Closed(x, "completed", "delivered")]
    BY DEF ArriveAtStore, ConfirmStoreCaptainHandoff, PickUp, Deliver, Advance, DeliveryStatus
  <2> QED BY <2>1, <2>2, <2>3 DEF Held, Closed, Row
<1>2. With(x) /\ With(x)' BY <1>1, EngagedCarries DEF Held, Engaged, Active
<1>3. Carriers' = Carriers /\ Taken /\ Taken' BY <1>1, <1>2 DEF With, Held
<1>4. \/ order = "driver_assigned" /\ order' = "driver_arrived_store"
      \/ order = "driver_arrived_store" /\ order' = "store_handoff_confirmed"
      \/ order = "store_handoff_confirmed" /\ order' = "picked_up"
      \/ order = "picked_up" /\ order' = "delivered"
  BY DEF ArriveAtStore, ConfirmStoreCaptainHandoff, PickUp, Deliver
<1> QED
  BY <1>3, <1>4 DEF Carriers, Taken, Custody!Step, Custody!Next, Custody!Travel, Custody!Onward

LEMMA CancelCustody ==
  Typed /\ ActiveFitsOrder /\ ActiveFitsOrder' /\ CancelStep => Custody!Step
<1> SUFFICES ASSUME OrderTyped, ActiveFitsOrder', CancelStep PROVE Custody!Step BY TypedParts
<1>1. CASE ExecuteCancellationAction
  <2>1. order \in Cancellable /\ order' = "cancelled"
    BY <1>1 DEF ExecuteCancellationAction, Unmoved, OrderTyped, CaseFits
  <2>2. Carriers' = {} /\ ~Taken' BY <2>1, NobodyCarries
  <2> QED BY <2>1, <2>2 DEF Cancellable, Carriers, Taken, Custody!Step, Custody!Next, Custody!Cancel
<1>2. CASE UNCHANGED <<order, offer>>
  <2>1. Carriers' = Carriers /\ Taken' = Taken BY <1>2, SameCarries
  <2> QED BY <1>2, <2>1 DEF Carriers, Taken, Custody!Step
<1> QED
  BY <1>1, <1>2 DEF CancelStep, CreateCancellationCase, CreateCancellationAction, ExecutionRefused,
     CancellerStops, dispatch

LEMMA CustodyStep ==
  Typed /\ ActiveFitsOrder /\ ActiveFitsOrder' /\ [Next]_vars => Custody!Step
<1> SUFFICES ASSUME Typed, ActiveFitsOrder, ActiveFitsOrder', [Next]_vars PROVE Custody!Step OBVIOUS
<1>1. CASE UNCHANGED <<order, offer>>
  <2>1. Carriers' = Carriers /\ Taken' = Taken BY <1>1, SameCarries
  <2> QED BY <1>1, <2>1 DEF Carriers, Taken, Custody!Step
<1>2. ReleaseStep \/ CompletionStep => UNCHANGED <<order, offer>>
  BY DEF ReleaseStep, ReleaseCodReservation, ReleaseNotNeeded, ReleaseForgotten,
         ReleaseSent, ReleaseGivenUp, RetryRelease, ReleaseMoves, CompletionStep, Claim,
         FinalizeCodReservation, DeliverCaptainCommission, ReadDeliveryCompletion,
         CallFails, MarkSentWithReference, MarkUnknown, MarkFailed, WorkerStops,
         RetryFailed, dispatch
<1>3. UNCHANGED vars => UNCHANGED <<order, offer>> BY DEF vars, dispatch
<1> QED BY <1>1, <1>2, <1>3, OfferCustody, AcceptCustody, DeliveryCustody, CancelCustody DEF Next

\* However accepts, deadlines, withdrawals and the three transactions of a cancellation
\* race, the order is in one captain's hands at a time and an order handed over at the
\* store is not taken from its captain again.
THEOREM InCustodyOf == Spec => CustodyKept
<1>1. Init => Custody!Init BY DEF Init, Absent, Engaged, Active, Custody!Init
<1> QED
  BY <1>1, InitTyped, NextTyped, InitFits, NextFits, CustodyStep, PTL
  DEF Spec, CustodyKept, Custody!Spec

==============================================================================
