----------------- MODULE CheckoutFinanceOutboxClosureProofs -----------------
(***************************************************************************)
(* More proofs about CheckoutFinanceOutbox, for any sessions, workers and  *)
(* bounds: refunds are made for cancelled orders only, what an order shows *)
(* of its closure is lost in one way, while no lease is lost WLT is read   *)
(* before an unknown outcome is delivered again, and the rows implement    *)
(* FencedRow and ReleaseDuty.                                              *)
(***************************************************************************)
EXTENDS CheckoutFinanceOutboxProofs

Marks(w, j) ==
  \/ MarkSent(w, j) \/ MarkDeliveryFailure(w, j) \/ MarkOutcomeUnknown(w, j)
  \/ MarkReadbackAbsent(w, j) \/ MarkInvalidOperatorContext(w, j)

Answers(w, j) == Dispatch(w, j) \/ ConfirmExpiry(w, j) \/ Reconcile(w, j)

Operates(e) ==
  LapseHeld(e) \/ LapseOrphaned(e) \/ RetryFailed(e) \/ RequeueForReconciliation(e)

LEMMA ProcessCases ==
  ASSUME NEW w \in Workers, Process(w)
  PROVE  \E j \in work[w] : Answers(w, j) \/ Marks(w, j)
  BY DEF Process, Answers, Marks

-----------------------------------------------------------------------------
(* Rows stay, cancelled orders stay cancelled, and a request that may      *)
(* still arrive belongs to a row.                                          *)

LateEnqueued == \A e \in late : row[e].status # "absent"

Orderly ==
  /\ \A e \in Events : row[e].status # "absent" => row'[e].status # "absent"
  /\ \A s \in Sessions : journey[s] = "cancelled" => journey'[s] = "cancelled"

LEMMA TrueIsOrderly ==
  ASSUME \A e \in Events : row'[e] = row[e] \/ TrueChange(e), LawfulJourney
  PROVE  Orderly
  BY DEF TrueChange, LawfulJourney, Orderly

LEMMA NextOrderly ==
  ASSUME OutboxInv, [Next]_vars
  PROVE  Orderly
<1>1. FencingInv /\ TypeOK /\ OrderIsPaid BY DEF OutboxInv, FencingInv
<1>2. ASSUME journey' = journey PROVE LawfulJourney BY <1>2 DEF LawfulJourney
<1>3. ASSUME NEW s \in Sessions, Journey(s) PROVE Orderly
  BY <1>1, <1>3, JourneyTrue, TrueIsOrderly
<1>4. ASSUME NEW w \in Workers, Claim(w) PROVE Orderly
  <2>1. journey' = journey BY <1>4 DEF Claim
  <2> QED BY <1>2, <1>4, <2>1, ClaimTrue, TrueIsOrderly
<1>5. ASSUME NEW w \in Workers, Process(w) PROVE Orderly
  <2>1. PICK j \in work[w] : Answers(w, j) \/ Marks(w, j) BY <1>5, ProcessCases
  <2>2. CASE Answers(w, j)
    <3>1. row' = row /\ journey' = journey BY <2>2, AnswerTrue DEF Answers
    <3> QED BY <1>2, <3>1, TrueIsOrderly
  <2>3. CASE Marks(w, j)
    <3>1. journey' = journey /\ \A e \in Events : row'[e] = row[e] \/ TrueChange(e)
      BY <2>3, RecordTrue DEF Marks
    <3> QED BY <1>2, <3>1, TrueIsOrderly
  <2> QED BY <2>1, <2>2, <2>3
<1>6. ASSUME NEW e \in Events, Operates(e) PROVE Orderly
  <2>1. RetryFailed(e) \/ RequeueForReconciliation(e) \/ LeaseLapse(e)
    BY <1>6 DEF Operates, LapseHeld, LapseOrphaned
  <2>2. journey' = journey /\ \A d \in Events : row'[d] = row[d] \/ TrueChange(d)
    BY <1>1, <2>1, OperatorTrue
  <2> QED BY <1>2, <2>2, TrueIsOrderly
<1>7. ASSUME row' = row, journey' = journey PROVE Orderly
  BY <1>2, <1>7, TrueIsOrderly
<1> QED
  BY <1>3, <1>4, <1>5, <1>6, <1>7 DEF Next, Operates, Crash, LoseMark, LateMutation, LostMutation,
     vars

\* Where requests that may still arrive, and refunds, come from.
LEMMA RequestsOfRows ==
  ASSUME OutboxInv, LateEnqueued, [Next]_vars
  PROVE  /\ \A e \in late' : row[e].status # "absent"
         /\ \A s \in refund' : s \in refund \/ journey[s] = "cancelled"
         /\ refund \subseteq refund'
<1> DEFINE Goal == /\ \A e \in late' : row[e].status # "absent"
                   /\ \A s \in refund' : s \in refund \/ journey[s] = "cancelled"
                   /\ refund \subseteq refund'
<1>1. TypeOK /\ OrderIsPaid BY DEF OutboxInv
<1>2. ASSUME NEW e \in Events, row[e].status # "absent", Mutate(e)
      PROVE  /\ \A s \in refund' : s \in refund \/ journey[s] = "cancelled"
             /\ refund \subseteq refund'
  <2>1. CASE Refunds(e)
    <3>1. refund' = refund \cup {SessionOf(e)} BY <1>2, <2>1 DEF Mutate
    <3>2. TypeOf(e) = "cancel_for_order" BY <2>1 DEF Refunds
    <3>3. SessionOf(e) \in Sessions /\ e = <<SessionOf(e), TypeOf(e)>>
      BY DEF Events, SessionOf, TypeOf
    <3>4. journey[SessionOf(e)] = "cancelled" BY <1>1, <1>2, <3>2, <3>3 DEF OrderIsPaid
    <3> QED BY <3>1, <3>4
  <2>2. CASE ~Refunds(e) BY <1>2, <2>2 DEF Mutate
  <2> QED BY <2>1, <2>2
<1>3. ASSUME late' \subseteq late, refund' = refund PROVE Goal
  BY <1>3 DEF LateEnqueued
<1>4. ASSUME NEW w \in Workers, Process(w) PROVE Goal
  <2>1. PICK j \in work[w] : Answers(w, j) \/ Marks(w, j) BY <1>4, ProcessCases
  <2>2. j.ev \in Events /\ row[j.ev].status # "absent"
    BY <1>1, JobToken DEF OrderIsPaid
  <2>3. CASE Marks(w, j)
    <3>1. UNCHANGED <<late, wlt>> BY <2>3, RecordShape DEF Marks, OutboxInv, FencingInv
    <3> QED BY <1>3, <3>1 DEF wlt
  <2>4. CASE Dispatch(w, j)
    <3>1. CASE Mutate(j.ev) /\ UNCHANGED late BY <1>2, <2>2, <3>1 DEF LateEnqueued
    <3>2. CASE UNCHANGED wlt /\ late' \subseteq late \cup {j.ev}
      BY <2>2, <3>2 DEF LateEnqueued, wlt
    <3> QED BY <2>4, <3>1, <3>2 DEF Dispatch
  <2>5. CASE ConfirmExpiry(w, j) \/ Reconcile(w, j)
    BY <1>3, <2>5 DEF ConfirmExpiry, Reconcile, wlt
  <2> QED BY <2>1, <2>3, <2>4, <2>5 DEF Answers
<1>5. ASSUME NEW e \in Events, LateMutation(e) PROVE Goal
  <2>1. row[e].status # "absent" BY <1>5 DEF LateMutation, LateEnqueued
  <2> QED BY <1>2, <1>5, <2>1 DEF LateMutation, LateEnqueued
<1>6. ASSUME NEW s \in Sessions, Journey(s) PROVE Goal
  BY <1>3, <1>6 DEF Journey, AbandonCheckout, CreateOrder, EnqueueRelease, CancelOrder,
     DeliverOrder, ReserveCod, FinalizeCod, SessionProgress, wlt
<1>7. ASSUME NEW e \in Events, Operates(e) PROVE Goal
  BY <1>3, <1>7 DEF Operates, LapseHeld, LapseOrphaned, LeaseLapse, RetryFailed,
     RequeueForReconciliation, wlt
<1> QED
  BY <1>3, <1>4, <1>5, <1>6, <1>7 DEF Next, Operates, Claim, Crash, LoseMark, LostMutation, vars, wlt

-----------------------------------------------------------------------------
(* What a release of a reservation can be answered.                        *)

ReleaseAnswers ==
  \A w \in Workers : \A j \in work[w] :
    TypeOf(j.ev) = "release_cod_reservation" /\ j.stage \in Actions =>
      j.stage \in {"none", "cod_reservation_released"}

Fits(k) ==
  TypeOf(k.ev) = "release_cod_reservation" /\ k.stage \in Actions =>
    k.stage \in {"none", "cod_reservation_released"}

LEMMA AdvanceFits ==
  ASSUME TypeOK, ReleaseAnswers, NEW w \in Workers, NEW j \in work[w], NEW stage,
         Advance(w, j, stage),
         stage \in {"rejected", "unknown", "absent", "confirm"}
           \/ stage = ReadAnswer(j.ev) \/ stage = MutationAnswer(j.ev)
  PROVE  ReleaseAnswers'
<1> DEFINE moved == [j EXCEPT !.stage = stage]
<1>1. j \in Job BY JobToken
<1>2. moved.ev = j.ev /\ moved.stage = stage BY <1>1 DEF Job
<1>3. TypeOf(j.ev) = "release_cod_reservation" =>
        /\ MutationAnswer(j.ev) \in {"cod_reservation_released", "rejected"}
        /\ ReadAnswer(j.ev) \in {"absent", "cod_reservation_released", "none"}
  BY DEF MutationAnswer, ReleaseAnswer, ReadAnswer, ReservationRead
<1>4. Fits(moved) BY <1>2, <1>3 DEF Fits, Actions
<1> HIDE DEF moved
<1>5. \A v \in Workers : work'[v] = IF v = w THEN (work[w] \ {j}) \cup {moved} ELSE work[v]
  BY DEF TypeOK, Advance, moved
<1>6. \A v \in Workers : \A k \in work[v] : Fits(k) BY DEF ReleaseAnswers, Fits
<1>7. \A v \in Workers : \A k \in work'[v] : Fits(k) BY <1>4, <1>5, <1>6
<1> QED BY <1>7 DEF ReleaseAnswers, Fits

LEMMA NextAnswers ==
  ASSUME OutboxInv, ReleaseAnswers, [Next]_vars
  PROVE  ReleaseAnswers'
<1>1. TypeOK BY DEF OutboxInv
<1>2. ASSUME \A v \in Workers : work'[v] \subseteq work[v] PROVE ReleaseAnswers'
  BY <1>2 DEF ReleaseAnswers
<1>3. ASSUME NEW w \in Workers, Claim(w) PROVE ReleaseAnswers'
  <2>1. PICK due \in SUBSET Events :
          \E lease \in FreshLeases(due) :
             work' = [work EXCEPT ![w] = {JobFor(e, lease[e]) : e \in due}]
    BY <1>1, <1>3, ClaimShape
  <2>2. PICK lease : work' = [work EXCEPT ![w] = {JobFor(e, lease[e]) : e \in due}]
    BY <2>1
  <2>3. \A k \in work'[w] : k.stage = "claimed" BY <1>1, <2>2 DEF TypeOK, JobFor
  <2>4. \A v \in Workers : v # w => work'[v] = work[v] BY <1>1, <2>2 DEF TypeOK
  <2> QED BY <2>3, <2>4 DEF ReleaseAnswers, Actions
<1>4. ASSUME NEW w \in Workers, Process(w) PROVE ReleaseAnswers'
  <2>1. PICK j \in work[w] : Answers(w, j) \/ Marks(w, j) BY <1>4, ProcessCases
  <2>2. CASE Dispatch(w, j) BY <1>1, <2>2, AdvanceFits DEF Dispatch
  <2>3. CASE ConfirmExpiry(w, j) BY <1>1, <2>3, AdvanceFits DEF ConfirmExpiry
  <2>4. CASE Reconcile(w, j) BY <1>1, <2>4, AdvanceFits DEF Reconcile
  <2>5. CASE Marks(w, j) BY <1>2, <2>5, RecordTrue DEF Marks
  <2> QED BY <2>1, <2>2, <2>3, <2>4, <2>5 DEF Answers
<1>5. ASSUME NEW w \in Workers, Crash(w) PROVE ReleaseAnswers'
  BY <1>1, <1>2, <1>5 DEF Crash, TypeOK
<1>6. ASSUME NEW w \in Workers, NEW j \in work[w], LoseMark(w, j) PROVE ReleaseAnswers'
  BY <1>1, <1>2, <1>6 DEF LoseMark, TypeOK
<1>7. ASSUME NEW s \in Sessions, Journey(s) PROVE ReleaseAnswers'
  BY <1>2, <1>7, <1>1, JourneyTrue DEF OutboxInv
<1>8. ASSUME work' = work PROVE ReleaseAnswers' BY <1>2, <1>8
<1>9. ASSUME NEW e \in Events, Operates(e) PROVE ReleaseAnswers'
  BY <1>8, <1>9 DEF Operates, LapseHeld, LapseOrphaned, LeaseLapse, RetryFailed,
     RequeueForReconciliation
<1> QED
  BY <1>3, <1>4, <1>5, <1>6, <1>7, <1>8, <1>9 DEF Next, Operates, LateMutation, LostMutation, vars

-----------------------------------------------------------------------------
(* How the closure an order shows changes.                                 *)

Cancel(s) == <<s, "cancel_for_order">>
Release(s) == <<s, "release_cod_reservation">>

\* The order keeps what it shows and its closure is not newly sent; the closure is
\* sent and shown; it is not sent; or a release recorded as none replaces it.
Shows(s) ==
  /\ \/ closure'[s] = closure[s] /\ (row'[Cancel(s)].status = "sent" => row[Cancel(s)].status = "sent")
     \/ row'[Cancel(s)].status = "sent" /\ closure'[s] = Projection(row'[Cancel(s)].action)
     \/ row'[Cancel(s)].status # "sent"
     \/ /\ row'[Release(s)].status = "sent" /\ row'[Release(s)].action = "none"
        /\ closure'[s] = "no_action"
  /\ closure'[s] = "refund_requested" => closure[s] = "refund_requested" \/ s \in refund

LEMMA EventsOf ==
  ASSUME NEW s \in Sessions
  PROVE  /\ Cancel(s) \in Events /\ SessionOf(Cancel(s)) = s
         /\ TypeOf(Cancel(s)) = "cancel_for_order"
         /\ Release(s) \in Events /\ SessionOf(Release(s)) = s
         /\ TypeOf(Release(s)) = "release_cod_reservation"
  BY DEF Cancel, Release, Events, EventTypes, SessionOf, TypeOf

LEMMA StillShows ==
  ASSUME closure' = closure, \A e \in Events : row'[e].status = "sent" => row[e].status = "sent"
  PROVE  \A s \in Sessions : Shows(s)
  BY EventsOf DEF Shows

LEMMA EnqueueNotSent ==
  ASSUME TypeOK, NEW d \in Events, Enqueue(d)
  PROVE  \A e \in Events : row'[e].status = "sent" => row[e].status = "sent"
<1>1. CASE row[d].status = "absent"
  <2>1. row[d] \in Row BY DEF TypeOK
  <2>2. row'[d].status = "pending" BY <1>1, <2>1 DEF Enqueue, TypeOK, Row
  <2>3. \A e \in Events : e # d => row'[e] = row[e] BY <1>1 DEF Enqueue, TypeOK
  <2> QED BY <2>2, <2>3
<1>2. CASE row[d].status # "absent" BY <1>2 DEF Enqueue
<1> QED BY <1>1, <1>2

\* What the recording of a failure writes, and shows.
LEMMA FailureShape ==
  ASSUME TypeOK, NEW w \in Workers, NEW j \in work[w],
         \/ MarkDeliveryFailure(w, j) \/ MarkOutcomeUnknown(w, j)
         \/ MarkReadbackAbsent(w, j) \/ MarkInvalidOperatorContext(w, j)
  PROVE  \E new, projected :
           /\ Record(w, j, new, projected)
           /\ new.status # "sent"
           /\ \/ projected = closure[SessionOf(j.ev)]
              \/ projected = "failed" /\ TypeOf(j.ev) = "cancel_for_order"
<1>1. j.ev \in Events BY JobToken
<1>2. row[j.ev] \in Row BY <1>1 DEF TypeOK
<1>3. \A n, d : GivenUp(j.ev, n, d).status # "sent" BY <1>2 DEF GivenUp, Unleased, Row
<1>4. \A n : Rescheduled(j.ev, n).status # "sent" BY <1>2 DEF Rescheduled, Unleased, Row
<1>5. FailedProjection(j.ev) = closure[SessionOf(j.ev)]
        \/ (FailedProjection(j.ev) = "failed" /\ TypeOf(j.ev) = "cancel_for_order")
  BY DEF FailedProjection
<1>6. CASE DeliveryFailure(w, j) BY <1>3, <1>4, <1>5, <1>6 DEF DeliveryFailure
<1>7. CASE MarkDeliveryFailure(w, j) BY <1>6, <1>7 DEF MarkDeliveryFailure
<1>8. CASE MarkOutcomeUnknown(w, j)
  <2>1. OutcomeUnknown(j.ev, j).status # "sent"
    BY <1>2 DEF OutcomeUnknown, Unleased, AfterUnknown, Row
  <2> QED BY <1>8, <2>1 DEF MarkOutcomeUnknown
<1>9. CASE MarkReadbackAbsent(w, j) BY <1>4, <1>6, <1>9 DEF MarkReadbackAbsent
<1>10. CASE MarkInvalidOperatorContext(w, j)
  BY <1>3, <1>5, <1>10 DEF MarkInvalidOperatorContext
<1> QED BY <1>7, <1>8, <1>9, <1>10

LEMMA FailureShows ==
  ASSUME TypeOK, NEW w \in Workers, NEW j \in work[w],
         \/ MarkDeliveryFailure(w, j) \/ MarkOutcomeUnknown(w, j)
         \/ MarkReadbackAbsent(w, j) \/ MarkInvalidOperatorContext(w, j)
  PROVE  \A s \in Sessions : Shows(s)
<1>1. PICK new, projected :
        /\ Record(w, j, new, projected)
        /\ new.status # "sent"
        /\ \/ projected = closure[SessionOf(j.ev)]
           \/ projected = "failed" /\ TypeOf(j.ev) = "cancel_for_order"
  BY FailureShape
<1>2. j.ev \in Events /\ SessionOf(j.ev) \in Sessions BY JobToken, EventParts
<1>3. CASE ~Holds(j) BY <1>1, <1>3, StillShows DEF Record
<1>4. CASE Holds(j)
  <2>1. /\ row' = [row EXCEPT ![j.ev] = new]
        /\ closure' = [closure EXCEPT ![SessionOf(j.ev)] = projected]
    BY <1>1, <1>4 DEF Record
  <2>2. \A e \in Events : row'[e].status = "sent" => row[e].status = "sent"
    BY <1>1, <1>2, <2>1 DEF TypeOK
  <2>3. CASE projected = closure[SessionOf(j.ev)]
    <3>1. closure' = closure BY <2>1, <2>3 DEF TypeOK
    <3> QED BY <2>2, <3>1, StillShows
  <2>4. CASE projected = "failed" /\ TypeOf(j.ev) = "cancel_for_order"
    <3>1. \A s \in Sessions : s # SessionOf(j.ev) => closure'[s] = closure[s]
      BY <2>1 DEF TypeOK
    <3>2. closure'[SessionOf(j.ev)] = "failed" BY <1>2, <2>1, <2>4 DEF TypeOK
    <3>3. Cancel(SessionOf(j.ev)) = j.ev
      BY <1>2, <2>4 DEF Cancel, Events, SessionOf, TypeOf
    <3>4. row'[j.ev].status # "sent" BY <1>1, <1>2, <2>1 DEF TypeOK
    <3> QED BY <2>2, <3>1, <3>2, <3>3, <3>4, EventsOf DEF Shows
  <2> QED BY <1>1, <2>3, <2>4
<1> QED BY <1>3, <1>4

LEMMA SentShows ==
  ASSUME OutboxInv, ReleaseAnswers, NEW w \in Workers, NEW j \in work[w], MarkSent(w, j)
  PROVE  \A s \in Sessions : Shows(s)
<1> DEFINE t == SessionOf(j.ev)
           shown == IF ShownOnOrder(j.ev, j.stage) THEN Projection(j.stage) ELSE closure[t]
<1>1. TypeOK /\ j.ev \in Events /\ t \in Sessions /\ TypeOf(j.ev) \in EventTypes
  BY JobToken, EventParts DEF OutboxInv
<1>2. Record(w, j, Sent(j.ev, j.stage), shown) /\ j.stage \in Actions BY DEF MarkSent
<1>3. CASE ~Holds(j) BY <1>2, <1>3, StillShows DEF Record
<1>4. CASE Holds(j)
  <2>1. /\ row' = [row EXCEPT ![j.ev] = Sent(j.ev, j.stage)]
        /\ closure' = [closure EXCEPT ![t] = shown]
    BY <1>2, <1>4 DEF Record
  <2>2. /\ \A e \in Events : e # j.ev => row'[e] = row[e]
        /\ \A s \in Sessions : s # t => closure'[s] = closure[s]
        /\ closure'[t] = shown
    BY <1>1, <2>1 DEF TypeOK
  <2>3. row'[j.ev].status = "sent" /\ row'[j.ev].action = j.stage
    <3>1. row[j.ev] \in Row /\ row'[j.ev] = Sent(j.ev, j.stage) BY <1>1, <2>1 DEF TypeOK
    <3> QED BY <3>1 DEF Sent, Unleased, Row
  <2>4. ASSUME NEW s \in Sessions, s # t PROVE Shows(s)
    <3>1. j.ev # Cancel(s) BY <2>4, EventsOf
    <3> QED BY <2>2, <2>4, <3>1, EventsOf DEF Shows
  <2>5. shown = "refund_requested" => closure[t] = "refund_requested" \/ t \in refund
    <3>1. j.stage = "refund_requested" => t \in refund
      BY DEF OutboxInv, AnswersAgree, Agrees, Actions
    <3>2. Projection(j.stage) = "refund_requested" => j.stage = "refund_requested"
      BY DEF Projection
    <3> QED BY <3>1, <3>2
  <2>6. CASE TypeOf(j.ev) = "cancel_for_order"
    <3>1. j.ev = Cancel(t) BY <1>1, <2>6 DEF Cancel, Events, SessionOf, TypeOf
    <3>2. j.stage # "cod_reservation_released"
      BY <2>6 DEF OutboxInv, AnswersAgree, Agrees, Actions
    <3>3. shown = Projection(j.stage) BY <2>6, <3>2 DEF ShownOnOrder
    <3>4. Shows(t) BY <2>2, <2>3, <2>5, <3>1, <3>3 DEF Shows
    <3> QED BY <2>4, <3>4
  <2>7. CASE TypeOf(j.ev) = "expire_session"
    <3>1. shown = closure[t] BY <2>7 DEF ShownOnOrder
    <3>2. j.ev # Cancel(t) BY <1>1, <2>7, EventsOf
    <3>3. Shows(t) BY <1>1, <2>2, <2>5, <3>1, <3>2, EventsOf DEF Shows
    <3> QED BY <2>4, <3>3
  <2>8. CASE TypeOf(j.ev) = "release_cod_reservation"
    <3>1. j.stage \in {"none", "cod_reservation_released"}
      BY <1>2, <2>8 DEF ReleaseAnswers
    <3>2. j.ev = Release(t) BY <1>1, <2>8 DEF Release, Events, SessionOf, TypeOf
    <3>3. j.ev # Cancel(t) BY <1>1, <2>8, EventsOf
    <3>4. CASE j.stage = "none"
      <4>1. shown = "no_action" BY <2>8, <3>4 DEF ShownOnOrder, Projection
      <4>2. Shows(t) BY <2>2, <2>3, <2>5, <3>2, <3>4, <4>1 DEF Shows
      <4> QED BY <2>4, <4>2
    <3>5. CASE j.stage = "cod_reservation_released"
      <4>1. shown = closure[t] BY <3>5 DEF ShownOnOrder
      <4>2. Shows(t) BY <1>1, <2>2, <2>5, <3>3, <4>1, EventsOf DEF Shows
      <4> QED BY <2>4, <4>2
    <3> QED BY <3>1, <3>4, <3>5
  <2> QED BY <1>1, <2>6, <2>7, <2>8 DEF EventTypes
<1> QED BY <1>3, <1>4

LEMMA OperatorShows ==
  ASSUME TypeOK, NEW d \in Events, Operates(d)
  PROVE  \A s \in Sessions : Shows(s)
<1>1. row[d] \in Row /\ SessionOf(d) \in Sessions BY EventParts DEF TypeOK
<1>2. \A e \in Events : e # d => row'[e] = row[e]
  BY DEF Operates, LapseHeld, LapseOrphaned, RetryFailed, RequeueForReconciliation, LeaseLapse, TypeOK
<1>3. row'[d].status # "sent"
  <2>1. CASE RetryFailed(d) BY <2>1 DEF RetryFailed, NoRow, TypeOK
  <2>2. CASE RequeueForReconciliation(d)
    BY <1>1, <2>2 DEF RequeueForReconciliation, Unleased, Row, TypeOK
  <2>3. CASE LeaseLapse(d) BY <1>1, <2>3 DEF LeaseLapse, Row, TypeOK
  <2> QED BY <2>1, <2>2, <2>3 DEF Operates, LapseHeld, LapseOrphaned
<1>4. CASE closure' = closure BY <1>2, <1>3, <1>4, StillShows
<1>5. CASE TypeOf(d) = "cancel_for_order" /\ closure' = [closure EXCEPT ![SessionOf(d)] = "pending"]
  <2>1. \A s \in Sessions : s # SessionOf(d) => closure'[s] = closure[s] BY <1>5 DEF TypeOK
  <2>2. closure'[SessionOf(d)] = "pending" BY <1>1, <1>5 DEF TypeOK
  <2>3. Cancel(SessionOf(d)) = d BY <1>5 DEF Cancel, Events, SessionOf, TypeOf
  <2> QED BY <1>2, <1>3, <2>1, <2>2, <2>3, EventsOf DEF Shows
<1> QED
  BY <1>4, <1>5 DEF Operates, LapseHeld, LapseOrphaned, RetryFailed, RequeueForReconciliation, LeaseLapse

LEMMA NextShows ==
  ASSUME OutboxInv, ReleaseAnswers, [Next]_vars
  PROVE  \A s \in Sessions : Shows(s)
<1>1. TypeOK BY DEF OutboxInv
<1>2. ASSUME NEW s \in Sessions, Journey(s) PROVE \A t \in Sessions : Shows(t)
  <2>1. \A type \in EventTypes : <<s, type>> \in Events BY DEF Events
  <2>2. closure' = closure /\ (row' = row \/ \E d \in Events : Enqueue(d))
    BY <1>2, <2>1 DEF EventTypes, Journey, AbandonCheckout, CreateOrder, EnqueueRelease,
       CancelOrder, DeliverOrder, ReserveCod, FinalizeCod, SessionProgress
  <2> QED BY <1>1, <2>2, EnqueueNotSent, StillShows
<1>3. ASSUME NEW w \in Workers, Claim(w) PROVE \A t \in Sessions : Shows(t)
  <2>1. PICK due \in SUBSET Events :
          \E lease \in FreshLeases(due) :
             row' = [e \in Events |-> IF e \in due THEN Leased(e, lease[e]) ELSE row[e]]
    BY <1>1, <1>3, ClaimShape
  <2>2. PICK lease : row' = [e \in Events |-> IF e \in due THEN Leased(e, lease[e]) ELSE row[e]]
    BY <2>1
  <2>3. \A e \in Events : row[e] \in Row BY <1>1 DEF TypeOK
  <2>4. \A e \in due : row'[e].status = "processing" BY <2>2, <2>3 DEF Leased, Row
  <2>5. \A e \in Events \ due : row'[e] = row[e] BY <2>2
  <2>6. closure' = closure BY <1>3 DEF Claim
  <2> QED BY <2>4, <2>5, <2>6, StillShows
<1>4. ASSUME NEW w \in Workers, Process(w) PROVE \A t \in Sessions : Shows(t)
  <2>1. PICK j \in work[w] : Answers(w, j) \/ Marks(w, j) BY <1>4, ProcessCases
  <2>2. CASE Answers(w, j)
    BY <2>2, StillShows DEF Answers, Dispatch, ConfirmExpiry, Reconcile
  <2>3. CASE Marks(w, j) BY <1>1, <2>3, SentShows, FailureShows DEF Marks
  <2> QED BY <2>1, <2>2, <2>3
<1>5. ASSUME NEW e \in Events, Operates(e) PROVE \A t \in Sessions : Shows(t)
  BY <1>1, <1>5, OperatorShows
<1> QED
  BY <1>2, <1>3, <1>4, <1>5, StillShows DEF Next, Operates, Crash, LoseMark, LateMutation,
     LostMutation, vars

-----------------------------------------------------------------------------
ClosureInv == LateEnqueued /\ RefundOnlyForCancelled /\ ReleaseAnswers /\ ClosureLostOnlyToRelease

LEMMA InitClosure == Init => ClosureInv
<1> SUFFICES ASSUME Init PROVE ClosureInv OBVIOUS
<1>1. LateEnqueued /\ ReleaseAnswers BY DEF Init, LateEnqueued, ReleaseAnswers
<1>2. RefundOnlyForCancelled BY DEF Init, RefundOnlyForCancelled
<1>3. \A s \in Sessions : row[<<s, "cancel_for_order">>].status = "absent"
  BY DEF Init, NoRow, Events, EventTypes
<1>4. ClosureLostOnlyToRelease BY <1>3 DEF ClosureLostOnlyToRelease
<1> QED BY <1>1, <1>2, <1>4 DEF ClosureInv

LEMMA SentStays ==
  ASSUME OutboxInv, [Next]_vars, NEW e \in Events, row[e].status = "sent"
  PROVE  row'[e] = row[e]
<1>1. TypeOK /\ FencingInv BY DEF OutboxInv, FencingInv
<1> QED BY <1>1, SentRowsStay DEF vars

LEMMA NextClosure == OutboxInv /\ ClosureInv /\ [Next]_vars => ClosureInv'
<1> SUFFICES ASSUME OutboxInv, ClosureInv, [Next]_vars PROVE ClosureInv' OBVIOUS
<1>1. LateEnqueued /\ RefundOnlyForCancelled /\ ReleaseAnswers /\ ClosureLostOnlyToRelease /\ TypeOK
  BY DEF ClosureInv, OutboxInv
<1>2. Orderly /\ \A s \in Sessions : Shows(s) BY <1>1, NextOrderly, NextShows
<1>3. /\ \A e \in late' : row[e].status # "absent"
      /\ \A s \in refund' : s \in refund \/ journey[s] = "cancelled"
      /\ refund \subseteq refund'
  BY <1>1, RequestsOfRows
<1>4. LateEnqueued'
  <2>1. late' \subseteq Events BY <1>1, NextType DEF TypeOK
  <2> QED BY <1>2, <1>3, <2>1 DEF LateEnqueued, Orderly
<1>5. RefundOnlyForCancelled'
  <2>1. ASSUME NEW s \in Sessions, closure'[s] = "refund_requested" PROVE s \in refund'
    BY <1>1, <1>2, <1>3, <2>1 DEF Shows, RefundOnlyForCancelled
  <2>2. ASSUME NEW s \in Sessions, s \in refund' PROVE journey'[s] = "cancelled"
    BY <1>1, <1>2, <1>3, <2>2 DEF Orderly, RefundOnlyForCancelled
  <2> QED BY <2>1, <2>2 DEF RefundOnlyForCancelled
<1>6. ReleaseAnswers' BY <1>1, NextAnswers
<1>7. ClosureLostOnlyToRelease'
  <2> SUFFICES ASSUME NEW s \in Sessions, row'[Cancel(s)].status = "sent",
                      closure'[s] # Projection(row'[Cancel(s)].action)
               PROVE  /\ row'[Release(s)].status = "sent" /\ row'[Release(s)].action = "none"
                      /\ closure'[s] = "no_action"
    BY DEF ClosureLostOnlyToRelease, Cancel, Release, Projection
  <2>1. Shows(s) /\ Cancel(s) \in Events /\ Release(s) \in Events BY <1>2, EventsOf
  <2>2. CASE closure'[s] = closure[s] /\ row[Cancel(s)].status = "sent"
    <3>1. row'[Cancel(s)] = row[Cancel(s)] BY <2>1, <2>2, SentStays
    <3>2. closure[s] # Projection(row[Cancel(s)].action) BY <2>2, <3>1
    <3>3. /\ row[Release(s)].status = "sent" /\ row[Release(s)].action = "none"
          /\ closure[s] = "no_action"
      BY <1>1, <2>2, <3>2 DEF ClosureLostOnlyToRelease, Cancel, Release
    <3>4. row'[Release(s)] = row[Release(s)] BY <2>1, <3>3, SentStays
    <3> QED BY <2>2, <3>3, <3>4
  <2> QED BY <2>1, <2>2 DEF Shows
<1> QED BY <1>4, <1>5, <1>6, <1>7 DEF ClosureInv

LEMMA ClosureAlways == Spec => []ClosureInv
<1>1. OutboxInv /\ ClosureInv /\ [Next]_vars => (OutboxInv /\ ClosureInv)' BY NextInv, NextClosure
<1> QED BY <1>1, InitInv, InitClosure, PTL DEF Spec

\* A refund exists for cancelled orders only, and the refund an order shows exists
\* (CancelOrderFinanciallyWithContext, MarkSentWithResult), for any number of sessions.
THEOREM RefundJustified == Spec => []RefundOnlyForCancelled
<1>1. ClosureInv => RefundOnlyForCancelled BY DEF ClosureInv
<1> QED BY <1>1, ClosureAlways, PTL

\* The order shows the result of its sent closure, unless a reservation release that
\* was recorded as none has replaced it (MarkSentWithResult).
THEOREM ClosureShown == Spec => []ClosureLostOnlyToRelease
<1>1. ClosureInv => ClosureLostOnlyToRelease BY DEF ClosureInv
<1> QED BY <1>1, ClosureAlways, PTL

-----------------------------------------------------------------------------
(* Without faults every job keeps the lease of its row, so an unknown       *)
(* outcome is recorded by the only job of the row and read by the next one. *)

Unread(e) == row[e].disposition = "reconciliation_required"

\* Every job holds its row, and every row in processing is held by a live lease;
\* no row that is to be delivered, now or by a job, has an unknown outcome.
Undisturbed ==
  /\ \A w \in Workers : \A j \in work[w] :
       Holds(j) /\ (j.from # "unknown" => ~Unread(j.ev))
  /\ \A e \in Events :
       /\ row[e].status = "processing" => ~row[e].lapsed /\ Held(e)
       /\ row[e].status = "pending" => ~Unread(e)

UndisturbedUntilFault == faults = 0 => Undisturbed

\* A change of a row that no job is working on.
IdleChange(e) ==
  /\ row[e].status # "processing" /\ row'[e].status # "processing"
  /\ row'[e].status = "pending" => row'[e].disposition # "reconciliation_required"

LEMMA IdleUndisturbed ==
  ASSUME TypeOK, Undisturbed, work' = work,
         \A e \in Events : row'[e] = row[e] \/ IdleChange(e)
  PROVE  Undisturbed'
<1>1. ASSUME NEW w \in Workers, NEW j \in work[w]
      PROVE  Holds(j)' /\ (j.from # "unknown" => ~Unread(j.ev)')
  <2>1. j.ev \in Events BY JobToken
  <2>2. Holds(j) /\ (j.from # "unknown" => ~Unread(j.ev)) BY DEF Undisturbed
  <2>3. row'[j.ev] = row[j.ev] BY <2>1, <2>2 DEF Holds, IdleChange
  <2> QED BY <2>2, <2>3 DEF Holds, Unread
<1>2. ASSUME NEW e \in Events
      PROVE  /\ row'[e].status = "processing" => ~row'[e].lapsed /\ Held(e)'
             /\ row'[e].status = "pending" => ~Unread(e)'
  <2>1. CASE row'[e] = row[e] BY <2>1 DEF Undisturbed, Held, Unread
  <2>2. CASE IdleChange(e) BY <2>2 DEF IdleChange, Unread
  <2> QED BY <2>1, <2>2
<1> QED BY <1>1, <1>2 DEF Undisturbed

LEMMA EnqueueIdle ==
  ASSUME TypeOK, BlankRow, NEW d \in Events, Enqueue(d)
  PROVE  \A e \in Events : row'[e] = row[e] \/ IdleChange(e)
<1>1. CASE row[d].status = "absent"
  <2>1. row[d] = NoRow BY <1>1 DEF BlankRow
  <2>2. row'[d].status = "pending" /\ row'[d].disposition = "none"
    BY <1>1, <2>1 DEF Enqueue, TypeOK, NoRow
  <2>3. \A e \in Events : e # d => row'[e] = row[e] BY <1>1 DEF Enqueue, TypeOK
  <2> QED BY <1>1, <2>2, <2>3 DEF IdleChange
<1> QED BY <1>1 DEF Enqueue

LEMMA JourneyIdle ==
  ASSUME TypeOK, BlankRow, NEW s \in Sessions, Journey(s)
  PROVE  work' = work /\ \A e \in Events : row'[e] = row[e] \/ IdleChange(e)
<1>1. \A type \in EventTypes : <<s, type>> \in Events BY DEF Events
<1>2. CASE AbandonCheckout(s) BY <1>1, <1>2, EnqueueIdle DEF AbandonCheckout, EventTypes
<1>3. CASE EnqueueRelease(s) BY <1>1, <1>3, EnqueueIdle DEF EnqueueRelease, EventTypes
<1>4. CASE CancelOrder(s) BY <1>1, <1>4, EnqueueIdle DEF CancelOrder, EventTypes
<1>5. CASE CreateOrder(s) \/ DeliverOrder(s) \/ ReserveCod(s) \/ FinalizeCod(s) \/ SessionProgress(s)
  BY <1>5 DEF CreateOrder, DeliverOrder, ReserveCod, FinalizeCod, SessionProgress
<1> QED BY <1>2, <1>3, <1>4, <1>5 DEF Journey

\* The operator's commands touch failed rows only, and a retry forgets the outcome.
LEMMA OperatorIdle ==
  ASSUME TypeOK, NEW d \in Events, RetryFailed(d) \/ RequeueForReconciliation(d)
  PROVE  work' = work /\ \A e \in Events : row'[e] = row[e] \/ IdleChange(e)
<1>1. row[d] \in Row BY DEF TypeOK
<1>2. row[d].status = "failed" /\ work' = work BY DEF RetryFailed, RequeueForReconciliation
<1>3. \A e \in Events : e # d => row'[e] = row[e]
  BY DEF RetryFailed, RequeueForReconciliation, TypeOK
<1>4. CASE RetryFailed(d)
  <2>1. row'[d].status = "pending" /\ row'[d].disposition = "retry_scheduled"
    BY <1>4 DEF RetryFailed, TypeOK, NoRow
  <2> QED BY <1>2, <1>3, <2>1 DEF IdleChange
<1>5. CASE RequeueForReconciliation(d)
  <2>1. row'[d].status = "unknown"
    BY <1>1, <1>5 DEF RequeueForReconciliation, TypeOK, Unleased, Row
  <2> QED BY <1>2, <1>3, <2>1 DEF IdleChange
<1> QED BY <1>4, <1>5

\* An answer leaves a job its row, its token and the status it claimed the row with.
LEMMA AnswerUndisturbed ==
  ASSUME TypeOK, Undisturbed, NEW w \in Workers, NEW j \in work[w], Answers(w, j)
  PROVE  Undisturbed'
<1>1. PICK stage : Advance(w, j, stage)
  BY DEF Answers, Dispatch, ConfirmExpiry, Reconcile
<1> DEFINE moved == [j EXCEPT !.stage = stage]
<1>2. j \in Job BY JobToken
<1>3. moved.ev = j.ev /\ moved.token = j.token /\ moved.from = j.from BY <1>2 DEF Job
<1>4. \A v \in Workers : work'[v] = IF v = w THEN (work[w] \ {j}) \cup {moved} ELSE work[v]
  BY <1>1 DEF TypeOK, Advance
<1> HIDE DEF moved
<1>5. row' = row BY DEF Answers, Dispatch, ConfirmExpiry, Reconcile
<1>6. ASSUME NEW v \in Workers, NEW k \in work'[v]
      PROVE  Holds(k)' /\ (k.from # "unknown" => ~Unread(k.ev)')
  <2>1. PICK i \in UNION {work[u] : u \in Workers} :
          i.ev = k.ev /\ i.token = k.token /\ i.from = k.from
    BY <1>3, <1>4
  <2> QED BY <1>5, <2>1 DEF Undisturbed, Holds, Unread
<1>7. ASSUME NEW e \in Events, Held(e) PROVE Held(e)'
  <2>1. PICK v \in Workers : \E k \in work[v] : k.token = row[e].token BY <1>7 DEF Held
  <2>2. \E k \in work'[v] : k.token = row[e].token BY <1>3, <1>4, <2>1
  <2> QED BY <1>5, <2>2 DEF Held
<1> QED BY <1>5, <1>6, <1>7 DEF Undisturbed, Unread

\* A recorded answer leaves a row that waits for delivery with a known outcome.
LEMMA RecordKnown ==
  ASSUME TypeOK, NEW w \in Workers, NEW j \in work[w], Marks(w, j), Holds(j)
  PROVE  \E new : /\ work' = [work EXCEPT ![w] = @ \ {j}]
                  /\ row' = [row EXCEPT ![j.ev] = new]
                  /\ new.status # "processing"
                  /\ new.status = "pending" => new.disposition # "reconciliation_required"
<1> DEFINE Goal(new) == /\ new.status # "processing"
                        /\ new.status = "pending" => new.disposition # "reconciliation_required"
<1>1. j.ev \in Events BY JobToken
<1>2. row[j.ev] \in Row BY <1>1 DEF TypeOK
<1>3. \A n, d : Goal(GivenUp(j.ev, n, d)) BY <1>2 DEF GivenUp, Unleased, Row
<1>4. \A n : Goal(Rescheduled(j.ev, n)) BY <1>2 DEF Rescheduled, Unleased, Row
<1>5. Goal(OutcomeUnknown(j.ev, j)) BY <1>2 DEF OutcomeUnknown, Unleased, AfterUnknown, Row
<1>6. \A a : Goal(Sent(j.ev, a)) BY <1>2 DEF Sent, Unleased, Row
<1>7. ASSUME DeliveryFailure(w, j) PROVE \E new, projected : Record(w, j, new, projected) /\ Goal(new)
  BY <1>3, <1>4, <1>7 DEF DeliveryFailure
<1> HIDE DEF Goal
<1>8. \E new, projected : Record(w, j, new, projected) /\ Goal(new)
  BY <1>3, <1>4, <1>5, <1>6, <1>7 DEF Marks, MarkSent, MarkDeliveryFailure, MarkOutcomeUnknown,
     MarkReadbackAbsent, MarkInvalidOperatorContext
<1> QED BY <1>8 DEF Record, Goal

LEMMA RecordUndisturbed ==
  ASSUME TypeOK, LeaseExclusive, Undisturbed, NEW w \in Workers, NEW j \in work[w], Marks(w, j)
  PROVE  Undisturbed'
<1>1. Holds(j) /\ j.ev \in Events BY JobToken DEF Undisturbed
<1>2. PICK new : /\ work' = [work EXCEPT ![w] = @ \ {j}]
                 /\ row' = [row EXCEPT ![j.ev] = new]
                 /\ new.status # "processing"
                 /\ new.status = "pending" => new.disposition # "reconciliation_required"
  BY <1>1, RecordKnown
<1>3. row'[j.ev] = new /\ \A e \in Events : e # j.ev => row'[e] = row[e]
  BY <1>1, <1>2 DEF TypeOK
<1>4. \A v \in Workers : work'[v] = IF v = w THEN work[w] \ {j} ELSE work[v]
  BY <1>2 DEF TypeOK
<1>5. ASSUME NEW v \in Workers, NEW k \in work'[v]
      PROVE  Holds(k)' /\ (k.from # "unknown" => ~Unread(k.ev)')
  <2>1. k \in work[v] /\ ~(v = w /\ k = j) BY <1>4
  <2>2. k.ev \in Events /\ Holds(k) /\ (k.from # "unknown" => ~Unread(k.ev))
    BY <2>1, JobToken DEF Undisturbed
  <2>3. k.ev # j.ev BY <1>1, <2>1, <2>2 DEF Holds, LeaseExclusive
  <2> QED BY <1>3, <2>2, <2>3 DEF Holds, Unread
<1>6. ASSUME NEW e \in Events, e # j.ev, row'[e].status = "processing"
      PROVE  ~row'[e].lapsed /\ Held(e)'
  <2>1. row'[e] = row[e] /\ ~row[e].lapsed /\ Held(e) BY <1>3, <1>6 DEF Undisturbed
  <2>2. PICK v \in Workers : \E k \in work[v] : k.token = row[e].token BY <2>1 DEF Held
  <2>3. \E k \in work'[v] : k.token = row[e].token
    BY <1>4, <1>6, <2>2 DEF LeaseExclusive
  <2> QED BY <2>1, <2>3 DEF Held
<1>7. ASSUME NEW e \in Events, row'[e].status = "pending" PROVE ~Unread(e)'
  BY <1>2, <1>3, <1>7 DEF Undisturbed, Unread
<1>8. row'[j.ev].status # "processing" BY <1>2, <1>3
<1> QED BY <1>5, <1>6, <1>7, <1>8 DEF Undisturbed

\* No lease has lapsed, so a claim takes rows that nobody works on.
LEMMA ClaimUndisturbed ==
  ASSUME TypeOK, Undisturbed, NEW w \in Workers, Claim(w)
  PROVE  Undisturbed'
<1>0. PICK due \in SUBSET Events : \E lease \in FreshLeases(due) :
        /\ work[w] = {}
        /\ \A e \in due : Claimable(e)
        /\ work' = [work EXCEPT ![w] = {JobFor(e, lease[e]) : e \in due}]
        /\ row' = [e \in Events |-> IF e \in due THEN Leased(e, lease[e]) ELSE row[e]]
  BY ClaimShape
<1>1. PICK lease \in FreshLeases(due) :
        /\ work[w] = {}
        /\ \A e \in due : Claimable(e)
        /\ work' = [work EXCEPT ![w] = {JobFor(e, lease[e]) : e \in due}]
        /\ row' = [e \in Events |-> IF e \in due THEN Leased(e, lease[e]) ELSE row[e]]
  BY <1>0
<1>2. \A e \in due : row[e].status \in {"pending", "unknown"}
  BY <1>1 DEF Claimable, Undisturbed
<1>3. \A v \in Workers : work'[v] = IF v = w THEN {JobFor(e, lease[e]) : e \in due} ELSE work[v]
  BY <1>1 DEF TypeOK
<1>4. ASSUME NEW e \in due
      PROVE  /\ row'[e].status = "processing" /\ row'[e].token = lease[e] /\ ~row'[e].lapsed
             /\ row'[e].disposition = row[e].disposition
  <2>1. row[e] \in Row BY DEF TypeOK
  <2>2. row'[e] = Leased(e, lease[e]) BY <1>1
  <2> QED BY <2>1, <2>2 DEF Leased, Row
<1>5. \A e \in Events : e \notin due => row'[e] = row[e] BY <1>1
<1>6. ASSUME NEW v \in Workers, NEW k \in work'[v]
      PROVE  Holds(k)' /\ (k.from # "unknown" => ~Unread(k.ev)')
  <2>1. CASE v = w
    <3>1. PICK e \in due : k = JobFor(e, lease[e]) BY <1>3, <2>1
    <3>2. k.ev = e /\ k.token = lease[e] /\ k.from = row[e].status BY <3>1 DEF JobFor
    <3>3. k.from # "unknown" => ~Unread(e) BY <1>2, <3>2 DEF Undisturbed
    <3> QED BY <1>4, <3>2, <3>3 DEF Holds, Unread
  <2>2. CASE v # w
    <3>1. k \in work[v] BY <1>3, <2>2
    <3>2. k.ev \in Events /\ Holds(k) /\ (k.from # "unknown" => ~Unread(k.ev))
      BY <3>1, JobToken DEF Undisturbed
    <3>3. row'[k.ev] = row[k.ev] BY <1>2, <1>5, <3>2 DEF Holds
    <3> QED BY <3>2, <3>3 DEF Holds, Unread
  <2> QED BY <2>1, <2>2
<1>7. ASSUME NEW e \in Events
      PROVE  /\ row'[e].status = "processing" => ~row'[e].lapsed /\ Held(e)'
             /\ row'[e].status = "pending" => ~Unread(e)'
  <2>1. CASE e \in due
    <3>1. JobFor(e, lease[e]) \in work'[w] BY <1>3, <2>1
    <3>2. JobFor(e, lease[e]).token = row'[e].token BY <1>4, <2>1 DEF JobFor
    <3> QED BY <1>4, <2>1, <3>1, <3>2 DEF Held
  <2>2. CASE e \notin due
    <3>1. row'[e] = row[e] BY <1>5, <2>2
    <3>2. Held(e) => Held(e)' BY <1>1, <1>3, <3>1 DEF Held
    <3> QED BY <3>1, <3>2 DEF Undisturbed, Unread
  <2> QED BY <2>1, <2>2
<1> QED BY <1>6, <1>7 DEF Undisturbed

LEMMA NextUndisturbed ==
  OutboxInv /\ UndisturbedUntilFault /\ [Next]_vars => UndisturbedUntilFault'
<1> SUFFICES ASSUME OutboxInv, UndisturbedUntilFault, [Next]_vars, faults' = 0
             PROVE  Undisturbed'
  BY DEF UndisturbedUntilFault
<1>1. TypeOK /\ LeaseExclusive /\ BlankRow /\ faults \in Nat BY DEF OutboxInv, TypeOK
<1>2. ASSUME faults' = faults PROVE Undisturbed BY <1>2 DEF UndisturbedUntilFault
<1>3. faults' # faults + 1 BY <1>1
<1>4. ASSUME NEW s \in Sessions, Journey(s) PROVE Undisturbed'
  <2>1. faults' = faults
    BY <1>4 DEF Journey, AbandonCheckout, CreateOrder, EnqueueRelease, CancelOrder,
       DeliverOrder, ReserveCod, FinalizeCod, SessionProgress, bounds
  <2> QED BY <1>1, <1>2, <1>4, <2>1, JourneyIdle, IdleUndisturbed
<1>5. ASSUME NEW w \in Workers, Claim(w) PROVE Undisturbed'
  BY <1>1, <1>2, <1>5, ClaimUndisturbed DEF Claim, bounds
<1>6. ASSUME NEW w \in Workers, Process(w) PROVE Undisturbed'
  <2>1. PICK j \in work[w] : Answers(w, j) \/ Marks(w, j) BY <1>6, ProcessCases
  <2>2. CASE Answers(w, j)
    <3>1. faults' = faults BY <2>2 DEF Answers, Dispatch, ConfirmExpiry, Reconcile, bounds
    <3> QED BY <1>1, <1>2, <2>2, <3>1, AnswerUndisturbed
  <2>3. CASE Marks(w, j)
    <3>1. faults' = faults BY <2>3, RecordShape DEF Marks, OutboxInv, FencingInv, bounds
    <3> QED BY <1>1, <1>2, <2>3, <3>1, RecordUndisturbed
  <2> QED BY <2>1, <2>2, <2>3
<1>7. ASSUME NEW e \in Events, Operates(e) PROVE Undisturbed'
  <2>1. ~LapseHeld(e) BY <1>3 DEF LapseHeld
  <2>2. ~LapseOrphaned(e)
    BY <1>2 DEF LapseOrphaned, LeaseLapse, Undisturbed
  <2>3. RetryFailed(e) \/ RequeueForReconciliation(e) BY <1>7, <2>1, <2>2 DEF Operates
  <2>4. faults' = faults BY <2>3 DEF RetryFailed, RequeueForReconciliation
  <2> QED BY <1>1, <1>2, <2>3, <2>4, OperatorIdle, IdleUndisturbed
<1>8. ASSUME row' = row, work' = work, faults' = faults PROVE Undisturbed'
  BY <1>1, <1>2, <1>8, IdleUndisturbed
<1> QED
  BY <1>3, <1>4, <1>5, <1>6, <1>7, <1>8 DEF Next, Operates, Crash, LoseMark, LateMutation,
     LostMutation, vars, bounds

LEMMA InitUndisturbed == Init => UndisturbedUntilFault
  BY DEF Init, UndisturbedUntilFault, Undisturbed, NoRow

\* While no lease, worker or recording transaction is lost, WLT is read before a row
\* with an unknown outcome is delivered again (MarkOutcomeUnknown, ClaimBatch,
\* reconcileUnknown), for any number of workers, rows and operator commands.
THEOREM UnknownIsRead == Spec => UnknownReadBeforeRetry
<1>1. OutboxInv /\ UndisturbedUntilFault /\ [Next]_vars
        => (OutboxInv /\ UndisturbedUntilFault)'
  BY NextInv, NextUndisturbed
<1>2. UndisturbedUntilFault =>
        [faults = 0 =>
           \A w \in Workers : \A j \in work[w] :
             row[j.ev].disposition = "reconciliation_required" => ~Dispatch(w, j)]_vars
  BY DEF UndisturbedUntilFault, Undisturbed, Unread, Dispatch
<1> QED
  BY <1>1, <1>2, InitInv, InitUndisturbed, PTL DEF Spec, UnknownReadBeforeRetry
-----------------------------------------------------------------------------
(* Every row is a FencedRow.  A worker has one job of a row at most, so     *)
(* that a worker is a believer through one job, and an owner through it.   *)

OneJobPerRow ==
  \A w \in Workers : \A i, j \in work[w] : i.ev = j.ev => i = j

LEMMA FewerJobs ==
  ASSUME OneJobPerRow, \A w \in Workers : work'[w] \subseteq work[w]
  PROVE  OneJobPerRow'
  BY DEF OneJobPerRow

\* What an answer does to the jobs: one of them moves on, and stays what it was.
LEMMA AnswerMoves ==
  ASSUME TypeOK, NEW w \in Workers, NEW j \in work[w], Answers(w, j)
  PROVE  \E moved :
           /\ moved.ev = j.ev /\ moved.token = j.token
           /\ \A v \in Workers :
                work'[v] = IF v = w THEN (work[w] \ {j}) \cup {moved} ELSE work[v]
           /\ row' = row
<1>1. PICK stage : Advance(w, j, stage)
  BY DEF Answers, Dispatch, ConfirmExpiry, Reconcile
<1> DEFINE moved == [j EXCEPT !.stage = stage]
<1>2. j \in Job BY JobToken
<1>3. moved.ev = j.ev /\ moved.token = j.token BY <1>2 DEF Job
<1>4. \A v \in Workers : work'[v] = IF v = w THEN (work[w] \ {j}) \cup {moved} ELSE work[v]
  BY <1>1 DEF TypeOK, Advance
<1>5. row' = row BY DEF Answers, Dispatch, ConfirmExpiry, Reconcile
<1> QED BY <1>3, <1>4, <1>5

\* What a claim does to the rows and the jobs.
LEMMA ClaimTakes ==
  ASSUME TypeOK, NEW w \in Workers, Claim(w)
  PROVE  \E due \in SUBSET Events : \E lease \in FreshLeases(due) :
           /\ work[w] = {}
           /\ \A e \in due : Claimable(e)
           /\ \A v \in Workers :
                work'[v] = IF v = w THEN {JobFor(e, lease[e]) : e \in due} ELSE work[v]
           /\ \A e \in Events : row'[e] = IF e \in due THEN Leased(e, lease[e]) ELSE row[e]
<1>1. PICK due \in SUBSET Events : \E lease \in FreshLeases(due) :
        /\ work[w] = {}
        /\ \A e \in due : Claimable(e)
        /\ work' = [work EXCEPT ![w] = {JobFor(e, lease[e]) : e \in due}]
        /\ row' = [e \in Events |-> IF e \in due THEN Leased(e, lease[e]) ELSE row[e]]
  BY ClaimShape
<1>2. PICK lease \in FreshLeases(due) :
        /\ work[w] = {}
        /\ \A e \in due : Claimable(e)
        /\ work' = [work EXCEPT ![w] = {JobFor(e, lease[e]) : e \in due}]
        /\ row' = [e \in Events |-> IF e \in due THEN Leased(e, lease[e]) ELSE row[e]]
  BY <1>1
<1>3. \A v \in Workers : work'[v] = IF v = w THEN {JobFor(e, lease[e]) : e \in due} ELSE work[v]
  BY <1>2 DEF TypeOK
<1>4. \A e \in Events : row'[e] = IF e \in due THEN Leased(e, lease[e]) ELSE row[e]
  BY <1>2
<1> QED BY <1>2, <1>3, <1>4

\* The jobs that a step other than a claim or an answer leaves.
LEMMA OtherJobs ==
  ASSUME OutboxInv, [Next]_vars,
         ~(\E w \in Workers : Claim(w)),
         ~(\E w \in Workers : \E j \in work[w] : Answers(w, j))
  PROVE  \A w \in Workers : work'[w] \subseteq work[w]
<1>1. TypeOK /\ BlankRow /\ FencingInv BY DEF OutboxInv, FencingInv
<1>2. ASSUME NEW s \in Sessions, Journey(s) PROVE work' = work BY <1>1, <1>2, JourneyIdle
<1>3. ASSUME NEW w \in Workers, Process(w) PROVE \A v \in Workers : work'[v] \subseteq work[v]
  <2>1. PICK j \in work[w] : Marks(w, j) BY <1>3, ProcessCases
  <2>2. work' = [work EXCEPT ![w] = @ \ {j}] BY <1>1, <2>1, RecordShape DEF Marks
  <2> QED BY <1>1, <2>2 DEF TypeOK
<1>4. ASSUME NEW w \in Workers, Crash(w) PROVE \A v \in Workers : work'[v] \subseteq work[v]
  BY <1>1, <1>4 DEF Crash, TypeOK
<1>5. ASSUME NEW w \in Workers, NEW j \in work[w], LoseMark(w, j)
      PROVE  \A v \in Workers : work'[v] \subseteq work[v]
  BY <1>1, <1>5 DEF LoseMark, TypeOK
<1>6. CASE work' = work BY <1>6
<1> QED
  BY <1>2, <1>3, <1>4, <1>5, <1>6 DEF Next, LateMutation, LostMutation, LapseHeld, LapseOrphaned,
     LeaseLapse, RetryFailed, RequeueForReconciliation, vars

LEMMA NextOneJob == OutboxInv /\ OneJobPerRow /\ [Next]_vars => OneJobPerRow'
<1> SUFFICES ASSUME OutboxInv, OneJobPerRow, [Next]_vars PROVE OneJobPerRow' OBVIOUS
<1>1. TypeOK BY DEF OutboxInv
<1>2. ASSUME NEW w \in Workers, Claim(w) PROVE OneJobPerRow'
  <2>1. PICK due \in SUBSET Events : \E lease \in FreshLeases(due) :
          \A v \in Workers :
            work'[v] = IF v = w THEN {JobFor(e, lease[e]) : e \in due} ELSE work[v]
    BY <1>1, <1>2, ClaimTakes
  <2>2. PICK lease \in FreshLeases(due) :
          \A v \in Workers :
            work'[v] = IF v = w THEN {JobFor(e, lease[e]) : e \in due} ELSE work[v]
    BY <2>1
  <2>3. \A e \in due : JobFor(e, lease[e]).ev = e BY DEF JobFor
  <2>4. ASSUME NEW v \in Workers, NEW i \in work'[v], NEW k \in work'[v], i.ev = k.ev
        PROVE  i = k
    <3>1. CASE v # w BY <2>2, <2>4, <3>1 DEF OneJobPerRow
    <3>2. CASE v = w
      <4>1. work'[v] = {JobFor(e, lease[e]) : e \in due} BY <2>2, <3>2
      <4> QED BY <2>3, <2>4, <4>1
    <3> QED BY <3>1, <3>2
  <2> QED BY <2>4 DEF OneJobPerRow
<1>3. ASSUME NEW w \in Workers, NEW j \in work[w], Answers(w, j) PROVE OneJobPerRow'
  <2>1. PICK moved :
          /\ moved.ev = j.ev
          /\ \A v \in Workers :
               work'[v] = IF v = w THEN (work[w] \ {j}) \cup {moved} ELSE work[v]
    BY <1>1, <1>3, AnswerMoves
  <2> QED BY <2>1 DEF OneJobPerRow
<1> QED BY <1>2, <1>3, OtherJobs, FewerJobs

\* Every worker has the same rows under the same tokens as before.
SameJobs ==
  \A w \in Workers :
    /\ \A j \in work[w] : \E k \in work'[w] : k.ev = j.ev /\ k.token = j.token
    /\ \A k \in work'[w] : \E j \in work[w] : k.ev = j.ev /\ k.token = j.token

\* Steps that take no part in the lease of e: nobody starts or stops working on it, and
\* it is not written, or is not leased.
LEMMA Unfenced ==
  ASSUME NEW e \in Events, SameJobs,
         \/ Recorded(e)' = Recorded(e) /\ row'[e].status = row[e].status /\ row'[e].token = row[e].token
         \/ row[e].status # "processing" /\ row'[e].status # "processing"
  PROVE  Fence(e)!Step
<1>1. Believers(e)' = Believers(e)
  <2>1. \A w \in Workers : (\E j \in work'[w] : j.ev = e) <=> (\E j \in work[w] : j.ev = e)
    BY DEF SameJobs
  <2> QED BY <2>1 DEF Believers
<1>2. CASE Recorded(e)' = Recorded(e) /\ row'[e].status = row[e].status /\ row'[e].token = row[e].token
  <2>1. ASSUME NEW w \in Workers
        PROVE (\E j \in work'[w] : j.ev = e /\ row'[e].status = "processing" /\ row'[e].token = j.token)
              <=> (\E j \in work[w] : j.ev = e /\ row[e].status = "processing" /\ row[e].token = j.token)
    BY <1>2 DEF SameJobs
  <2>2. Owners(e)' = Owners(e) BY <2>1 DEF Owners
  <2> QED BY <1>1, <1>2, <2>2 DEF Fence!Step
<1>3. CASE row[e].status # "processing" /\ row'[e].status # "processing"
  <2>1. Owners(e) = {} BY <1>3 DEF Owners
  <2>2. Owners(e)' = {} BY <1>3 DEF Owners
  <2>3. Fence(e)!Manage BY <1>1, <2>1, <2>2 DEF Fence!Manage
  <2> QED BY <2>3 DEF Fence!Step, Fence!Next
<1> QED BY <1>2, <1>3

\* A claimed row is taken from whoever owned it: its token is one no job has.
LEMMA ClaimFenced ==
  ASSUME OutboxInv, NEW w \in Workers, Claim(w), NEW e \in Events
  PROVE  Fence(e)!Step
<1>1. TypeOK BY DEF OutboxInv
<1>2. PICK due \in SUBSET Events : \E lease \in FreshLeases(due) :
        /\ work[w] = {}
        /\ \A d \in due : Claimable(d)
        /\ \A v \in Workers :
             work'[v] = IF v = w THEN {JobFor(d, lease[d]) : d \in due} ELSE work[v]
        /\ \A d \in Events : row'[d] = IF d \in due THEN Leased(d, lease[d]) ELSE row[d]
  BY <1>1, ClaimTakes
<1>3. PICK lease \in FreshLeases(due) :
        /\ work[w] = {}
        /\ \A d \in due : Claimable(d)
        /\ \A v \in Workers :
             work'[v] = IF v = w THEN {JobFor(d, lease[d]) : d \in due} ELSE work[v]
        /\ \A d \in Events : row'[d] = IF d \in due THEN Leased(d, lease[d]) ELSE row[d]
  BY <1>2
<1>4. w \notin Believers(e) /\ w \notin Owners(e) BY <1>3 DEF Believers, Owners
<1>5. \A d \in due : JobFor(d, lease[d]).ev = d /\ JobFor(d, lease[d]).token = lease[d]
  BY DEF JobFor
<1>6. CASE e \in due
  <2>1. row[e] \in Row /\ row'[e] = Leased(e, lease[e]) BY <1>1, <1>3, <1>6 DEF TypeOK
  <2>2. /\ row'[e].status = "processing" /\ row'[e].token = lease[e]
        /\ row'[e].attempt = row[e].attempt /\ row'[e].readback = row[e].readback
        /\ row'[e].disposition = row[e].disposition /\ row'[e].action = row[e].action
    BY <2>1 DEF Leased, Row
  <2>3. row[e].status \in {"pending", "processing", "unknown"} BY <1>3, <1>6 DEF Claimable
  <2>4. Recorded(e)' = Recorded(e) BY <2>2, <2>3 DEF Recorded
  <2>5. JobFor(e, lease[e]) \in work'[w] BY <1>3, <1>6
  <2>6. Believers(e)' = Believers(e) \cup {w}
    <3>1. \A v \in Workers : v # w => work'[v] = work[v] BY <1>3
    <3>2. w \in Believers(e)' BY <1>5, <1>6, <2>5 DEF Believers
    <3> QED BY <3>1, <3>2 DEF Believers
  <2>7. Owners(e)' = {w}
    <3>1. w \in Owners(e)' BY <1>5, <1>6, <2>2, <2>5 DEF Owners
    <3>2. ASSUME NEW v \in Workers, v # w, NEW k \in work'[v] PROVE k.token # lease[e]
      <4>1. k \in work[v] BY <1>3, <3>2
      <4>2. k.token \in InUse BY <4>1 DEF InUse
      <4>3. lease[e] \notin InUse BY <1>6 DEF FreshLeases
      <4> QED BY <4>2, <4>3
    <3> QED BY <2>2, <3>1, <3>2 DEF Owners
  <2>8. Fence(e)!Take(w) BY <1>4, <2>4, <2>6, <2>7 DEF Fence!Take
  <2> QED BY <2>8 DEF Fence!Step, Fence!Next
<1>7. CASE e \notin due
  <2>1. row'[e] = row[e] BY <1>3, <1>7
  <2>2. \A v \in Workers : v # w => work'[v] = work[v] BY <1>3
  <2>3. ~(\E k \in work'[w] : k.ev = e)
    <3>1. work'[w] = {JobFor(d, lease[d]) : d \in due} BY <1>3
    <3> QED BY <1>5, <1>7, <3>1
  <2>4. Believers(e)' = Believers(e) BY <1>4, <2>2, <2>3 DEF Believers
  <2>5. Owners(e)' = Owners(e) BY <1>4, <2>1, <2>2, <2>3 DEF Owners
  <2>6. Recorded(e)' = Recorded(e) BY <2>1 DEF Recorded
  <2> QED BY <2>4, <2>5, <2>6 DEF Fence!Step
<1> QED BY <1>6, <1>7

\* Jobs that end without a record: their workers leave the rows as they are.
LEMMA JobsLost ==
  ASSUME TypeOK, NEW w \in Workers, NEW gone, OneJobPerRow, row' = row,
         work' = [work EXCEPT ![w] = @ \ gone], NEW e \in Events
  PROVE  Fence(e)!Step
<1>1. \A v \in Workers : work'[v] = IF v = w THEN work[w] \ gone ELSE work[v] BY DEF TypeOK
<1>2. Recorded(e)' = Recorded(e) BY DEF Recorded
<1>3. CASE \E j \in work[w] \cap gone : j.ev = e
  <2>1. w \in Believers(e) BY <1>3 DEF Believers
  <2>2. ~(\E k \in work'[w] : k.ev = e) BY <1>1, <1>3 DEF OneJobPerRow
  <2>3. Believers(e)' = Believers(e) \ {w} BY <1>1, <2>2 DEF Believers
  <2>4. Owners(e)' = Owners(e) \ {w} BY <1>1, <2>2 DEF Owners
  <2>5. Fence(e)!Vanish(w) BY <1>2, <2>1, <2>3, <2>4 DEF Fence!Vanish
  <2> QED BY <2>5 DEF Fence!Step, Fence!Next
<1>4. CASE ~(\E j \in work[w] \cap gone : j.ev = e)
  <2>1. \A k : k.ev = e => \A v \in Workers : k \in work'[v] <=> k \in work[v] BY <1>1, <1>4
  <2>2. Believers(e)' = Believers(e) BY <2>1 DEF Believers
  <2>3. Owners(e)' = Owners(e) BY <2>1 DEF Owners
  <2> QED BY <1>2, <2>2, <2>3 DEF Fence!Step
<1> QED BY <1>3, <1>4

\* A recorded answer is the owner's, who gives the row up, or changes nothing.
LEMMA MarkFenced ==
  ASSUME OutboxInv, OneJobPerRow, NEW w \in Workers, NEW j \in work[w], Marks(w, j),
         NEW e \in Events
  PROVE  Fence(e)!Step
<1>1. TypeOK /\ FencingInv /\ LeaseExclusive BY DEF OutboxInv, FencingInv
<1>2. work' = [work EXCEPT ![w] = @ \ {j}] /\ (~Holds(j) => row' = row)
  BY <1>1, RecordShape DEF Marks
<1>3. CASE ~Holds(j) BY <1>1, <1>2, <1>3, JobsLost
<1>4. CASE Holds(j)
  <2>1. PICK new : /\ row' = [row EXCEPT ![j.ev] = new]
                   /\ new.status # "processing"
    BY <1>1, <1>4, RecordKnown
  <2>2. j.ev \in Events BY <1>1, JobToken
  <2>3. row'[j.ev] = new /\ \A d \in Events : d # j.ev => row'[d] = row[d]
    BY <1>1, <2>1, <2>2 DEF TypeOK
  <2>4. \A v \in Workers : work'[v] = IF v = w THEN work[w] \ {j} ELSE work[v]
    BY <1>1, <1>2 DEF TypeOK
  <2>5. CASE e = j.ev
    <3>1. w \in Believers(e) /\ w \in Owners(e)
      BY <1>4, <2>5 DEF Holds, Believers, Owners
    <3>2. ~(\E k \in work'[w] : k.ev = e) BY <2>4, <2>5 DEF OneJobPerRow
    <3>3. Believers(e)' = Believers(e) \ {w} BY <2>4, <3>2 DEF Believers
    <3>4. Owners(e)' = {} BY <2>1, <2>3, <2>5 DEF Owners
    <3>5. Fence(e)!Finish(w) BY <3>1, <3>3, <3>4 DEF Fence!Finish
    <3> QED BY <3>5 DEF Fence!Step, Fence!Next
  <2>6. CASE e # j.ev
    <3>1. \A k : k.ev = e => \A v \in Workers : k \in work'[v] <=> k \in work[v]
      BY <2>4, <2>6
    <3>2. row'[e] = row[e] BY <2>3, <2>6
    <3>3. Believers(e)' = Believers(e) BY <3>1 DEF Believers
    <3>4. Owners(e)' = Owners(e) BY <3>1, <3>2 DEF Owners
    <3>5. Recorded(e)' = Recorded(e) BY <3>2 DEF Recorded
    <3> QED BY <3>3, <3>4, <3>5 DEF Fence!Step
  <2> QED BY <2>5, <2>6
<1> QED BY <1>3, <1>4

LEMMA NextFenced ==
  ASSUME OutboxInv, OneJobPerRow, [Next]_vars, NEW e \in Events
  PROVE  Fence(e)!Step
<1>1. TypeOK /\ BlankRow BY DEF OutboxInv
<1>2. ASSUME work' = work, row'[e] = row[e] \/ IdleChange(e) PROVE Fence(e)!Step
  <2>1. SameJobs BY <1>2 DEF SameJobs
  <2>2. CASE row'[e] = row[e] BY <2>1, <2>2, Unfenced DEF Recorded
  <2>3. CASE IdleChange(e) BY <2>1, <2>3, Unfenced DEF IdleChange
  <2> QED BY <1>2, <2>2, <2>3
<1>3. ASSUME NEW s \in Sessions, Journey(s) PROVE Fence(e)!Step BY <1>1, <1>2, <1>3, JourneyIdle
<1>4. ASSUME NEW w \in Workers, Claim(w) PROVE Fence(e)!Step BY <1>4, ClaimFenced
<1>5. ASSUME NEW w \in Workers, Process(w) PROVE Fence(e)!Step
  <2>1. PICK j \in work[w] : Answers(w, j) \/ Marks(w, j) BY <1>5, ProcessCases
  <2>2. CASE Answers(w, j)
    <3>1. PICK moved :
            /\ moved.ev = j.ev /\ moved.token = j.token
            /\ \A v \in Workers :
                 work'[v] = IF v = w THEN (work[w] \ {j}) \cup {moved} ELSE work[v]
            /\ row' = row
      BY <1>1, <2>2, AnswerMoves
    <3>2. SameJobs
      <4>1. \A v \in Workers : v # w => work'[v] = work[v] BY <3>1
      <4>2. work'[w] = (work[w] \ {j}) \cup {moved} BY <3>1
      <4> QED BY <3>1, <4>1, <4>2 DEF SameJobs
    <3> QED BY <3>1, <3>2, Unfenced DEF Recorded
  <2>3. CASE Marks(w, j) BY <2>3, MarkFenced
  <2> QED BY <2>1, <2>2, <2>3
<1>6. ASSUME NEW w \in Workers, Crash(w) PROVE Fence(e)!Step
  <2>1. work' = [work EXCEPT ![w] = @ \ work[w]] /\ row' = row BY <1>6 DEF Crash
  <2> QED BY <1>1, <2>1, JobsLost
<1>7. ASSUME NEW w \in Workers, NEW j \in work[w], LoseMark(w, j) PROVE Fence(e)!Step
  <2>1. work' = [work EXCEPT ![w] = @ \ {j}] /\ row' = row BY <1>7 DEF LoseMark
  <2> QED BY <1>1, <2>1, JobsLost
<1>8. ASSUME NEW d \in Events, LapseHeld(d) \/ LapseOrphaned(d) PROVE Fence(e)!Step
  <2>1. work' = work /\ row' = [row EXCEPT ![d].lapsed = TRUE]
    BY <1>8 DEF LapseHeld, LapseOrphaned, LeaseLapse
  <2>2. row[e] \in Row BY <1>1 DEF TypeOK
  <2>3. /\ row'[e].status = row[e].status /\ row'[e].token = row[e].token
        /\ row'[e].attempt = row[e].attempt /\ row'[e].readback = row[e].readback
        /\ row'[e].disposition = row[e].disposition /\ row'[e].action = row[e].action
    BY <1>1, <2>1, <2>2 DEF TypeOK, Row
  <2>4. SameJobs BY <2>1 DEF SameJobs
  <2>5. Recorded(e)' = Recorded(e) BY <2>3 DEF Recorded
  <2> QED BY <2>3, <2>4, <2>5, Unfenced
<1>9. ASSUME NEW d \in Events, RetryFailed(d) \/ RequeueForReconciliation(d) PROVE Fence(e)!Step
  BY <1>1, <1>2, <1>9, OperatorIdle
<1>10. CASE row' = row /\ work' = work BY <1>2, <1>10
<1> QED
  BY <1>3, <1>4, <1>5, <1>6, <1>7, <1>8, <1>9, <1>10 DEF Next, LateMutation, LostMutation, vars

\* Every row of the outbox is a FencedRow, for any workers and tokens and however many
\* stale workers there are: a write counts only by the last to lease the row, once.
THEOREM RowsAreFenced == Spec => RowsFenced
<1>1. OutboxInv /\ OneJobPerRow /\ [Next]_vars => (OutboxInv /\ OneJobPerRow)'
  BY NextInv, NextOneJob
<1>2. Init => OneJobPerRow BY DEF Init, OneJobPerRow
<1>3. Init => \A e \in Events : Fence(e)!Init
  BY DEF Init, Fence!Init, Owners, Believers
<1>4. OutboxInv /\ OneJobPerRow /\ [Next]_vars => [\A e \in Events : Fence(e)!Step]_vars
  BY NextFenced
<1> QED BY <1>1, <1>2, <1>3, <1>4, InitInv, PTL DEF Spec, RowsFenced
-----------------------------------------------------------------------------
(* What the outbox does to a reservation is what ReleaseDuty allows.       *)

\* A row that is not leased has no answer pending, and a leased one has if the job that
\* holds it has.
LEMMA UnleasedStage ==
  ASSUME NEW s \in Sessions
  PROVE  /\ row[Release(s)].status # "processing" =>
              ReleaseStage(s) = IF row[Release(s)].status \in {"absent", "sent", "failed"}
                                THEN row[Release(s)].status ELSE "pending"
         /\ row'[Release(s)].status # "processing" =>
              ReleaseStage(s)' = IF row'[Release(s)].status \in {"absent", "sent", "failed"}
                                 THEN row'[Release(s)].status ELSE "pending"
BY DEF ReleaseStage, Answered, Holds, Release

LEMMA HolderStage ==
  ASSUME NEW s \in Sessions, NEW w \in Workers, NEW j, j.ev = Release(s)
  PROVE  /\ LeaseExclusive /\ j \in work[w] /\ Holds(j) =>
              ReleaseStage(s) = IF j.stage \in Actions THEN "answered" ELSE "pending"
         /\ LeaseExclusive' /\ j \in work'[w] /\ Holds(j)' =>
              ReleaseStage(s)' = IF j.stage \in Actions THEN "answered" ELSE "pending"
<1>1. ASSUME LeaseExclusive, j \in work[w], Holds(j)
      PROVE  ReleaseStage(s) = IF j.stage \in Actions THEN "answered" ELSE "pending"
  <2>1. ASSUME NEW v \in Workers, NEW i \in work[v], Holds(i), i.ev = j.ev PROVE i = j
    BY <1>1, <2>1 DEF LeaseExclusive, Holds
  <2>2. Answered(Release(s)) <=> j.stage \in Actions BY <1>1, <2>1 DEF Answered
  <2> QED BY <1>1, <2>2 DEF ReleaseStage, Holds, Release
<1>2. ASSUME LeaseExclusive', j \in work'[w], Holds(j)'
      PROVE  ReleaseStage(s)' = IF j.stage \in Actions THEN "answered" ELSE "pending"
  <2>1. ASSUME NEW v \in Workers, NEW i \in work'[v], Holds(i)', i.ev = j.ev PROVE i = j
    BY <1>2, <2>1 DEF LeaseExclusive, Holds
  <2>2. Answered(Release(s))' <=> j.stage \in Actions BY <1>2, <2>1 DEF Answered
  <2> QED BY <1>2, <2>2 DEF ReleaseStage, Holds, Release
<1> QED BY <1>1, <1>2

\* The stage depends on the row's lease and on the jobs that hold it.
LEMMA StageKept ==
  ASSUME NEW s \in Sessions,
         row'[Release(s)].status = row[Release(s)].status,
         row'[Release(s)].token = row[Release(s)].token,
         \A v \in Workers : \A k : k.ev = Release(s) /\ Holds(k) => (k \in work'[v] <=> k \in work[v])
  PROVE  ReleaseStage(s)' = ReleaseStage(s)
<1>1. ASSUME NEW k, k.ev = Release(s) PROVE Holds(k)' <=> Holds(k) BY <1>1 DEF Holds
<1>2. Answered(Release(s))' <=> Answered(Release(s)) BY <1>1 DEF Answered
<1> QED BY <1>2 DEF ReleaseStage, Release

\* Jobs that end take an unrecorded answer with them.
LEMMA StageForgotten ==
  ASSUME NEW s \in Sessions, row' = row, \A v \in Workers : work'[v] \subseteq work[v]
  PROVE  ReleaseStage(s)' = ReleaseStage(s) \/ <<ReleaseStage(s), ReleaseStage(s)'>> = <<"answered", "pending">>
<1>1. Answered(Release(s))' => Answered(Release(s)) BY DEF Answered, Holds
<1> QED BY <1>1 DEF ReleaseStage, Release

LEMMA StageMoves ==
  ASSUME NEW s \in Sessions, reservation'[s] = reservation[s],
         \/ ReleaseStage(s)' = ReleaseStage(s)
         \/ <<ReleaseStage(s), ReleaseStage(s)'>> \in
              {<<"absent", "pending">>, <<"answered", "pending">>, <<"answered", "sent">>,
               <<"pending", "failed">>, <<"failed", "pending">>}
  PROVE  Duty(s)!Step
BY DEF Duty!Step, Duty!Next, Duty!Deliver, Duty!Oblige, Duty!Forget, Duty!Discharge,
       Duty!Park, Duty!Reopen

\* What a request that WLT executes does to the reservation of a session.
LEMMA MutateReleases ==
  ASSUME TypeOK, NEW e \in Events, Mutate(e), NEW s \in Sessions
  PROVE  /\ e # Release(s) => reservation'[s] = reservation[s]
         /\ e = Release(s) =>
              reservation'[s] = IF reservation[s] = "reserved" THEN "released" ELSE reservation[s]
<1>1. SessionOf(e) \in Sessions /\ e = <<SessionOf(e), TypeOf(e)>> BY EventParts DEF Events, SessionOf, TypeOf
<1>2. reservation'[s] =
        IF s = SessionOf(e) /\ TypeOf(e) = "release_cod_reservation" /\ reservation[s] = "reserved"
        THEN "released" ELSE reservation[s]
  BY <1>1 DEF Mutate, TypeOK
<1>3. e = Release(s) <=> s = SessionOf(e) /\ TypeOf(e) = "release_cod_reservation"
  BY <1>1 DEF Release, SessionOf, TypeOf
<1> QED BY <1>2, <1>3

\* An executed request for an obligation that exists, whoever asked for it.
LEMMA Executes ==
  ASSUME NEW s \in Sessions, ReleaseStage(s)' = ReleaseStage(s), row[Release(s)].status # "absent",
         \/ reservation'[s] = reservation[s]
         \/ reservation[s] = "reserved" /\ reservation'[s] = "released"
  PROVE  Duty(s)!Step
<1>1. ReleaseStage(s) # "absent" BY DEF ReleaseStage, Release
<1> QED BY <1>1 DEF Duty!Step, Duty!Next, Duty!Deliver, Duty!Execute

\* What an answer on the release row of a session tells its worker.
LEMMA ReleaseTold ==
  ASSUME TypeOK, NEW w \in Workers, NEW j \in work[w], Answers(w, j), NEW s \in Sessions
  PROVE  \E stage :
           /\ Advance(w, j, stage)
           /\ j.ev # Release(s) => reservation'[s] = reservation[s]
           /\ j.ev = Release(s) =>
                /\ j.stage \notin Actions
                /\ \/ reservation[s] = "reserved" /\ reservation'[s] = "released" /\ stage \in Actions
                   \/ reservation'[s] = reservation[s] /\ (stage \in Actions => reservation[s] # "reserved")
<1> USE EventsOf
<1>1. reservation[s] \in ReservationStatus BY DEF TypeOK
<1>2. j.stage \notin Actions BY DEF Answers, Dispatch, ConfirmExpiry, Reconcile, NextJob, Actions
<1>3. j.ev \in Events BY JobToken
<1>4. j.ev = Release(s) /\ ReadAnswer(j.ev) \in Actions => reservation[s] # "reserved"
  BY DEF ReadAnswer, ReservationRead, Actions
<1>5. CASE Dispatch(w, j)
  <2>1. PICK stage :
          /\ Advance(w, j, stage)
          /\ \/ Mutate(j.ev) /\ stage = MutationAnswer(j.ev)
             \/ reservation' = reservation /\ stage \in {"rejected", "unknown"}
    BY <1>5 DEF Dispatch, wlt
  <2>2. CASE Mutate(j.ev) /\ stage = MutationAnswer(j.ev)
    <3>1. j.ev = Release(s) =>
            stage = IF reservation[s] \in {"reserved", "released"}
                    THEN "cod_reservation_released" ELSE "rejected"
      BY <2>2 DEF MutationAnswer, ReleaseAnswer
    <3> QED BY <1>1, <1>2, <1>3, <2>1, <2>2, <3>1, MutateReleases DEF Actions
  <2>3. CASE reservation' = reservation /\ stage \in {"rejected", "unknown"}
    BY <1>2, <2>1, <2>3 DEF Actions
  <2> QED BY <2>1, <2>2, <2>3
<1>6. CASE ConfirmExpiry(w, j) \/ Reconcile(w, j)
  <2>1. PICK stage : Advance(w, j, stage) /\ stage \in {ReadAnswer(j.ev), "unknown", "rejected"}
    BY <1>6 DEF ConfirmExpiry, Reconcile
  <2>2. reservation' = reservation BY <1>6 DEF ConfirmExpiry, Reconcile, wlt
  <2> QED BY <1>2, <1>4, <2>1, <2>2 DEF Actions
<1> QED BY <1>5, <1>6 DEF Answers

LEMMA AnswerPromised ==
  ASSUME OutboxInv, OutboxInv', NEW w \in Workers, NEW j \in work[w], Answers(w, j), NEW s \in Sessions
  PROVE  Duty(s)!Step
<1>1. TypeOK /\ LeaseExclusive /\ LeaseExclusive' /\ OrderIsPaid BY DEF OutboxInv
<1>2. PICK stage :
        /\ Advance(w, j, stage)
        /\ j.ev # Release(s) => reservation'[s] = reservation[s]
        /\ j.ev = Release(s) =>
             /\ j.stage \notin Actions
             /\ \/ reservation[s] = "reserved" /\ reservation'[s] = "released" /\ stage \in Actions
                \/ reservation'[s] = reservation[s] /\ (stage \in Actions => reservation[s] # "reserved")
  BY <1>1, ReleaseTold
<1> DEFINE moved == [j EXCEPT !.stage = stage]
<1>3. j \in Job BY <1>1, JobToken
<1>4. moved.ev = j.ev /\ moved.token = j.token /\ moved.stage = stage BY <1>3 DEF Job
<1>5. \A v \in Workers : work'[v] = IF v = w THEN (work[w] \ {j}) \cup {moved} ELSE work[v]
  BY <1>1, <1>2 DEF TypeOK, Advance
<1>6. row' = row BY DEF Answers, Dispatch, ConfirmExpiry, Reconcile
<1> HIDE DEF moved
<1>7. CASE j.ev # Release(s) \/ ~Holds(j)
  <2>1. \A k : k.ev = Release(s) /\ Holds(k) => k # j /\ k # moved BY <1>4, <1>7 DEF Holds
  <2>2. ReleaseStage(s)' = ReleaseStage(s) BY <1>5, <1>6, <2>1, StageKept
  <2>3. CASE j.ev # Release(s) BY <1>2, <2>2, <2>3, StageMoves
  <2>4. CASE j.ev = Release(s)
    <3>1. row[Release(s)].status # "absent" BY <1>1, <2>4 DEF OrderIsPaid
    <3> QED BY <1>2, <2>2, <2>4, <3>1, Executes
  <2> QED BY <2>3, <2>4
<1>8. CASE j.ev = Release(s) /\ Holds(j)
  <2>1. ReleaseStage(s) = "pending" BY <1>1, <1>2, <1>8, HolderStage
  <2>2. moved \in work'[w] /\ Holds(moved)' BY <1>4, <1>5, <1>6, <1>8 DEF Holds
  <2>3. ReleaseStage(s)' = IF stage \in Actions THEN "answered" ELSE "pending"
    BY <1>1, <1>4, <1>8, <2>2, HolderStage
  <2>4. CASE stage \in Actions
    BY <1>2, <1>8, <2>1, <2>3, <2>4 DEF Duty!Step, Duty!Next, Duty!Deliver, Duty!Answer
  <2>5. CASE stage \notin Actions BY <1>2, <1>8, <2>1, <2>3, <2>5, StageMoves
  <2> QED BY <2>4, <2>5
<1> QED BY <1>7, <1>8

\* An answer is recorded for good by the job that holds the row, and a row that is given
\* up is held by a job without one.
LEMMA MarkPromised ==
  ASSUME OutboxInv, NEW w \in Workers, NEW j \in work[w], Marks(w, j), NEW s \in Sessions
  PROVE  Duty(s)!Step
<1>1. TypeOK /\ FencingInv /\ LeaseExclusive BY DEF OutboxInv, FencingInv
<1>2. /\ work' = [work EXCEPT ![w] = @ \ {j}] /\ reservation' = reservation
      /\ ~Holds(j) => row' = row
      /\ Holds(j) => \E new : /\ row' = [row EXCEPT ![j.ev] = new]
                              /\ new.status \in {"pending", "unknown", "sent", "failed"}
                              /\ new.status = "sent" => j.stage \in Actions
  BY <1>1, RecordShape DEF Marks, wlt
<1>3. j.ev \in Events BY <1>1, JobToken
<1>4. \A v \in Workers : work'[v] = IF v = w THEN work[w] \ {j} ELSE work[v]
  BY <1>1, <1>2 DEF TypeOK
<1>5. CASE j.ev # Release(s) \/ ~Holds(j)
  <2>1. \A k : k.ev = Release(s) /\ Holds(k) => k # j BY <1>5
  <2>2. row'[Release(s)] = row[Release(s)]
    BY <1>1, <1>2, <1>5, EventsOf DEF TypeOK
  <2>3. ReleaseStage(s)' = ReleaseStage(s) BY <1>4, <2>1, <2>2, StageKept
  <2> QED BY <1>2, <2>3, StageMoves
<1>6. CASE j.ev = Release(s) /\ Holds(j)
  <2>1. PICK new : /\ row' = [row EXCEPT ![j.ev] = new]
                   /\ new.status \in {"pending", "unknown", "sent", "failed"}
                   /\ new.status = "sent" => j.stage \in Actions
    BY <1>2, <1>6
  <2>2. row'[Release(s)] = new BY <1>1, <1>3, <1>6, <2>1 DEF TypeOK
  <2>3. ReleaseStage(s) = IF j.stage \in Actions THEN "answered" ELSE "pending"
    BY <1>1, <1>6, HolderStage
  <2>4. ReleaseStage(s)' = IF new.status \in {"sent", "failed"} THEN new.status ELSE "pending"
    BY <2>1, <2>2, UnleasedStage
  <2>5. MarkSent(w, j) => new.status = "sent"
    <3>1. row[j.ev] \in Row BY <1>1, <1>3 DEF TypeOK
    <3>2. \A a : Sent(j.ev, a).status = "sent" BY <3>1 DEF Sent, Unleased, Row
    <3> QED BY <1>6, <2>2, <1>1, <1>3, <3>2 DEF MarkSent, Record, TypeOK
  <2>6. ~MarkSent(w, j) => j.stage \notin Actions
    BY DEF Marks, MarkDeliveryFailure, MarkOutcomeUnknown, MarkReadbackAbsent,
       MarkInvalidOperatorContext, NextJob, Actions
  <2>7. CASE j.stage \in Actions
    <3>1. ReleaseStage(s) = "answered" /\ ReleaseStage(s)' = "sent" BY <2>3, <2>4, <2>5, <2>6, <2>7
    <3> QED BY <1>2, <3>1, StageMoves
  <2>8. CASE j.stage \notin Actions
    <3>1. ReleaseStage(s) = "pending" /\ ReleaseStage(s)' \in {"pending", "failed"}
      BY <2>1, <2>3, <2>4, <2>8
    <3> QED BY <1>2, <3>1, StageMoves
  <2> QED BY <2>7, <2>8
<1> QED BY <1>5, <1>6

\* A claim leaves no answer behind: a new token has no job with one.
LEMMA ClaimPromised ==
  ASSUME OutboxInv, NEW w \in Workers, Claim(w), NEW s \in Sessions
  PROVE  Duty(s)!Step
<1>1. TypeOK /\ LeaseExclusive BY DEF OutboxInv
<1>2. reservation' = reservation BY DEF Claim, wlt
<1>3. PICK due \in SUBSET Events : \E lease \in FreshLeases(due) :
        /\ work[w] = {}
        /\ \A d \in due : Claimable(d)
        /\ \A v \in Workers :
             work'[v] = IF v = w THEN {JobFor(d, lease[d]) : d \in due} ELSE work[v]
        /\ \A d \in Events : row'[d] = IF d \in due THEN Leased(d, lease[d]) ELSE row[d]
  BY <1>1, ClaimTakes
<1>4. PICK lease \in FreshLeases(due) :
        /\ work[w] = {}
        /\ \A d \in due : Claimable(d)
        /\ \A v \in Workers :
             work'[v] = IF v = w THEN {JobFor(d, lease[d]) : d \in due} ELSE work[v]
        /\ \A d \in Events : row'[d] = IF d \in due THEN Leased(d, lease[d]) ELSE row[d]
  BY <1>3
<1>5. Release(s) \in Events BY EventsOf
<1>6. \A d \in due : JobFor(d, lease[d]).ev = d /\ JobFor(d, lease[d]).stage = "claimed"
  BY DEF JobFor
<1>0. work'[w] = {JobFor(d, lease[d]) : d \in due} BY <1>4
<1>7. CASE Release(s) \in due
  <2>1. row[Release(s)] \in Row BY <1>1, <1>5 DEF TypeOK
  <2>2. row'[Release(s)].status = "processing" /\ row'[Release(s)].token = lease[Release(s)]
    BY <1>4, <1>5, <1>7, <2>1 DEF Leased, Row
  <2>3. lease[Release(s)] \notin InUse BY <1>7 DEF FreshLeases
  <2>4. ~Answered(Release(s))'
    <3>1. ASSUME NEW v \in Workers, v # w, NEW k \in work'[v] PROVE ~Holds(k)' \/ k.ev # Release(s)
      <4>1. k \in work[v] BY <1>4, <3>1
      <4>2. k.token \in InUse BY <4>1 DEF InUse
      <4> QED BY <2>2, <2>3, <4>2 DEF Holds
    <3>2. \A k \in work'[w] : k.stage = "claimed" BY <1>0, <1>6
    <3> QED BY <3>1, <3>2 DEF Answered, Actions
  <2>5. ReleaseStage(s)' = "pending" BY <2>2, <2>4 DEF ReleaseStage, Release
  <2>6. ReleaseStage(s) \in {"pending", "answered"}
    BY <1>4, <1>7 DEF Claimable, ReleaseStage, Release
  <2> QED BY <1>2, <2>5, <2>6, StageMoves
<1>8. CASE Release(s) \notin due
  <2>1. row'[Release(s)] = row[Release(s)] BY <1>4, <1>5, <1>8
  <2>2. \A k \in work'[w] : k.ev # Release(s) BY <1>0, <1>6, <1>8
  <2>3. \A v \in Workers : \A k : k.ev = Release(s) /\ Holds(k) => (k \in work'[v] <=> k \in work[v])
    BY <1>4, <2>2
  <2>4. ReleaseStage(s)' = ReleaseStage(s) BY <2>1, <2>3, StageKept
  <2> QED BY <1>2, <2>4, StageMoves
<1> QED BY <1>7, <1>8

LEMMA JourneyPromised ==
  ASSUME OutboxInv, NEW r \in Sessions, Journey(r), NEW s \in Sessions
  PROVE  Duty(s)!Step
<1>1. TypeOK /\ BlankRow BY DEF OutboxInv
<1>2. Release(s) \in Events BY EventsOf
<1>3. ASSUME NEW d \in Events, Enqueue(d), work' = work, reservation' = reservation
      PROVE  Duty(s)!Step
  <2>1. CASE d = Release(s) /\ row[d].status = "absent"
    <3>1. row'[Release(s)].status = "pending" BY <1>1, <1>2, <1>3, <2>1 DEF Enqueue, TypeOK, Row
    <3>2. ReleaseStage(s) = "absent" /\ ReleaseStage(s)' = "pending" BY <2>1, <3>1, UnleasedStage
    <3> QED BY <1>3, <3>2, StageMoves
  <2>2. CASE d # Release(s) \/ row[d].status # "absent"
    <3>1. row'[Release(s)] = row[Release(s)] BY <1>1, <1>2, <1>3, <2>2 DEF Enqueue, TypeOK
    <3> QED BY <1>3, <3>1, StageKept, StageMoves
  <2> QED BY <2>1, <2>2
<1>4. CASE AbandonCheckout(r) \/ CancelOrder(r) \/ EnqueueRelease(r)
  <2>1. \A type \in EventTypes : <<r, type>> \in Events BY DEF Events
  <2> QED BY <1>3, <1>4, <2>1 DEF AbandonCheckout, CancelOrder, EnqueueRelease, EventTypes, wlt
<1>5. CASE work' = work /\ row' = row
  <2>1. ReleaseStage(s)' = ReleaseStage(s) BY <1>5, StageKept
  <2>2. CASE reservation'[s] = reservation[s] BY <2>1, <2>2, StageMoves
  <2>3. CASE ReserveCod(r) /\ reservation'[s] # reservation[s]
    <3>1. reservation[s] = "absent" /\ reservation'[s] = "reserved" BY <1>1, <2>3 DEF ReserveCod, TypeOK
    <3> QED BY <2>1, <3>1 DEF Duty!Step, Duty!Next, Duty!Reserve
  <2>4. CASE FinalizeCod(r) /\ reservation'[s] # reservation[s]
    <3>1. reservation[s] = "reserved" /\ reservation'[s] = "finalized"
      BY <1>1, <2>4 DEF FinalizeCod, TypeOK
    <3> QED BY <2>1, <3>1 DEF Duty!Step, Duty!Next, Duty!Finalize
  <2>5. CASE CreateOrder(r) \/ DeliverOrder(r) \/ SessionProgress(r)
    BY <2>2, <2>5 DEF CreateOrder, DeliverOrder, SessionProgress, wlt
  <2> QED BY <1>4, <2>2, <2>3, <2>4, <2>5 DEF Journey
<1> QED
  BY <1>4, <1>5 DEF Journey, CreateOrder, DeliverOrder, ReserveCod, FinalizeCod, SessionProgress

LEMMA NextPromised ==
  ASSUME OutboxInv, OutboxInv', ClosureInv, [Next]_vars, NEW s \in Sessions
  PROVE  Duty(s)!Step
<1>1. TypeOK BY DEF OutboxInv
<1>2. Release(s) \in Events BY EventsOf
<1>3. ASSUME NEW r \in Sessions, Journey(r) PROVE Duty(s)!Step BY <1>3, JourneyPromised
<1>4. ASSUME NEW w \in Workers, Claim(w) \/ Process(w) PROVE Duty(s)!Step
  BY <1>4, ClaimPromised, ProcessCases, AnswerPromised, MarkPromised
<1>5. ASSUME row' = row, reservation' = reservation, \A v \in Workers : work'[v] \subseteq work[v]
      PROVE  Duty(s)!Step
  BY <1>5, StageForgotten, StageMoves
<1>6. ASSUME NEW w \in Workers, Crash(w) PROVE Duty(s)!Step
  <2>1. \A v \in Workers : work'[v] \subseteq work[v] BY <1>1, <1>6 DEF Crash, TypeOK
  <2> QED BY <1>5, <1>6, <2>1 DEF Crash, wlt
<1>7. ASSUME NEW w \in Workers, NEW j \in work[w], LoseMark(w, j) PROVE Duty(s)!Step
  <2>1. \A v \in Workers : work'[v] \subseteq work[v] BY <1>1, <1>7 DEF LoseMark, TypeOK
  <2> QED BY <1>5, <1>7, <2>1 DEF LoseMark, wlt
<1>8. ASSUME NEW e \in Events, LateMutation(e) PROVE Duty(s)!Step
  <2>1. row' = row /\ work' = work /\ e \in late /\ Mutate(e) BY <1>8 DEF LateMutation
  <2>2. ReleaseStage(s)' = ReleaseStage(s) BY <2>1, StageKept
  <2>3. CASE e = Release(s)
    <3>1. row[Release(s)].status # "absent" BY <2>1, <2>3 DEF ClosureInv, LateEnqueued
    <3> QED BY <1>1, <2>1, <2>2, <2>3, <3>1, MutateReleases, Executes
  <2>4. CASE e # Release(s) BY <1>1, <2>1, <2>2, <2>4, MutateReleases, StageMoves
  <2> QED BY <2>3, <2>4
<1>9. ASSUME NEW e \in Events, LapseHeld(e) \/ LapseOrphaned(e) PROVE Duty(s)!Step
  <2>1. work' = work /\ reservation' = reservation /\ row' = [row EXCEPT ![e].lapsed = TRUE]
    BY <1>9 DEF LapseHeld, LapseOrphaned, LeaseLapse, wlt
  <2>2. row[Release(s)] \in Row BY <1>1, <1>2 DEF TypeOK
  <2>3. row'[Release(s)].status = row[Release(s)].status /\ row'[Release(s)].token = row[Release(s)].token
    BY <1>1, <1>2, <2>1, <2>2 DEF TypeOK, Row
  <2> QED BY <2>1, <2>3, StageKept, StageMoves
<1>10. ASSUME NEW e \in Events, RetryFailed(e) \/ RequeueForReconciliation(e) PROVE Duty(s)!Step
  <2>1. /\ work' = work /\ reservation' = reservation /\ row[e].status = "failed"
        /\ \A d \in Events : d # e => row'[d] = row[d]
    BY <1>1, <1>10 DEF RetryFailed, RequeueForReconciliation, TypeOK, wlt
  <2>2. row[e] \in Row BY <1>1 DEF TypeOK
  <2>3. row'[e].status \in {"pending", "unknown"}
    BY <1>1, <1>10, <2>2 DEF RetryFailed, RequeueForReconciliation, TypeOK, Unleased, NoRow, Row
  <2>4. CASE e = Release(s)
    <3>1. ReleaseStage(s) = "failed" /\ ReleaseStage(s)' = "pending"
      BY <2>1, <2>3, <2>4, UnleasedStage
    <3> QED BY <2>1, <3>1, StageMoves
  <2>5. CASE e # Release(s) BY <1>2, <2>1, <2>5, StageKept, StageMoves
  <2> QED BY <2>4, <2>5
<1>11. CASE row' = row /\ work' = work /\ reservation' = reservation BY <1>5, <1>11
<1> QED
  BY <1>3, <1>4, <1>6, <1>7, <1>8, <1>9, <1>10, <1>11 DEF Next, LostMutation, vars, wlt

\* The release rows keep to ReleaseDuty for any sessions, workers and bounds, whatever
\* crashes, lapses, repeated deliveries and late requests there are.  With
\* ReleasePromised and ReleaseIsDeliver of CodDispatchProofs: what the dispatch of an order
\* is proved against is all the outbox can do to it.
THEOREM ReleasesKept == Spec => ReleasesAsPromised
<1>1. OutboxInv /\ ClosureInv /\ [Next]_vars => (OutboxInv /\ ClosureInv)' BY NextInv, NextClosure
<1>2. Init => \A s \in Sessions : Duty(s)!Init
  BY DEF Init, Duty!Init, ReleaseStage, NoRow, Events, EventTypes
<1>3. OutboxInv /\ OutboxInv' /\ ClosureInv /\ [Next]_vars => [\A s \in Sessions : Duty(s)!Step]_vars
  BY NextPromised
<1> QED BY <1>1, <1>2, <1>3, InitInv, InitClosure, PTL DEF Spec, ReleasesAsPromised

=============================================================================
