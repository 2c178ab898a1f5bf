----------------------- MODULE CheckoutPaymentProofs -----------------------
(***************************************************************************)
(* Proofs about CheckoutPayment, for any callers, workers and couriers and *)
(* any bounds: types, the agreement of the handoff and of the delivered    *)
(* outcomes, and what the lease gives while it outlives its holder.        *)
(***************************************************************************)
EXTENDS CheckoutPayment, TLAPS

LEMMA InitType == Init => TypeOK
<1> SUFFICES ASSUME Init PROVE TypeOK OBVIOUS
<1> USE DEF Init
<1>1. intent \in IntentState /\ version \in Nat BY DEF IntentState
<1>2. attached \in BOOLEAN /\ closure \in BOOLEAN /\ known \in BOOLEAN /\ late \in BOOLEAN
  OBVIOUS
<1>3. saga \in SagaState /\ source \in Nat /\ attempts \in Nat /\ queue \in QueueState
  BY DEF SagaState, QueueState
<1>4. at \in [Actors -> Stages] /\ seen \in [Callers -> Nat] BY DEF Stages
<1>5. session \in {"absent", "open"} \cup Outcomes /\ notice \in NoticeState /\ tries \in Nat
  BY DEF NoticeState
<1>6. /\ courier \in [Couriers -> {"idle", "holding", "accepted", "refused"}]
      /\ held \in [Couriers -> Nat]
  OBVIOUS
<1>7. edits \in Nat /\ crashes \in Nat /\ losses \in Nat /\ outages \in Nat /\ slows \in Nat
  OBVIOUS
<1> QED BY <1>1, <1>2, <1>3, <1>4, <1>5, <1>6, <1>7 DEF TypeOK

LEMMA RequestType ==
  ASSUME TypeOK, NEW a \in Callers, Request(a)
  PROVE  TypeOK'
<1> USE DEF TypeOK, Actors, Stages, Requesting, Dispatching, Open, Closed, IntentState, SagaState, Settled, QueueState, NoticeState, Outcomes
<1>1. CASE Create(a)
  BY <1>1 DEF Create, intents, sagas, payment, notices, bounds, Goto
<1>2. CASE Resume(a)
  BY <1>2 DEF Resume, intents, sagas, payment, notices, bounds, Goto
<1>3. CASE QuoteFails(a)
  BY <1>3 DEF QuoteFails, intents, sagas, payment, notices, bounds, Blockable, Goto
<1>4. CASE Start(a)
  BY <1>4 DEF Start, intents, sagas, payment, notices, bounds, Goto
<1>5. CASE StartRefused(a)
  BY <1>5 DEF StartRefused, intents, sagas, payment, notices, bounds, Goto
<1>6. CASE Activate(a)
  BY <1>6 DEF Activate, intents, sagas, payment, notices, bounds, Goto
<1>7. CASE ClaimRefused(a)
  BY <1>7 DEF ClaimRefused, intents, sagas, payment, notices, bounds, Goto
<1> QED
  BY <1>1, <1>2, <1>3, <1>4, <1>5, <1>6, <1>7 DEF Request

LEMMA DispatchType ==
  ASSUME TypeOK, NEW a \in Actors, DispatchStep(a)
  PROVE  TypeOK'
<1> USE DEF TypeOK, Actors, Stages, Requesting, Dispatching, Open, Closed, IntentState, SagaState, Settled, QueueState, NoticeState, Outcomes
<1>1. CASE ReadKnown(a)
  BY <1>1 DEF ReadKnown, intents, sagas, payment, notices, bounds, Goto
<1>2. CASE CreateSession(a)
  BY <1>2 DEF CreateSession, intents, sagas, payment, notices, bounds, SessionMade, Goto
<1>3. CASE CreateUnanswered(a)
  <2>1. late' \in BOOLEAN
    <3>1. late' = late \/ late' = TRUE BY <1>3 DEF CreateUnanswered
    <3> QED BY <3>1
  <2>2. session' \in {"absent", "open"} \cup Outcomes BY <1>3 DEF CreateUnanswered, SessionMade
  <2> QED BY <1>3, <2>1, <2>2 DEF CreateUnanswered, intents, sagas, notices, Goto
<1>4. CASE CreateRefused(a)
  BY <1>4 DEF CreateRefused, intents, sagas, payment, notices, bounds, Goto
<1>5. CASE ReadBack(a)
  BY <1>5 DEF ReadBack, intents, sagas, payment, notices, bounds, Goto
<1>6. CASE MarkRemote(a)
  <2>1. known' \in BOOLEAN
    <3>1. known' = TRUE \/ known' = known BY <1>6 DEF MarkRemote
    <3> QED BY <3>1
  <2> QED BY <1>6, <2>1 DEF MarkRemote, intents, payment, notices, bounds, Goto
<1>7. CASE Attach(a)
  BY <1>7 DEF Attach, intents, sagas, payment, notices, bounds, Goto
<1>8. CASE AttachRefused(a)
  BY <1>8 DEF AttachRefused, intents, sagas, payment, notices, bounds, Refusal, Goto
<1>9. CASE MarkPending(a)
  BY <1>9 DEF MarkPending, intents, sagas, payment, notices, bounds, Goto
<1>10. CASE MarkComplete(a)
  BY <1>10 DEF MarkComplete, intents, sagas, payment, notices, bounds, Completable, Goto
<1>11. CASE ScheduleRetry(a)
  BY <1>11 DEF ScheduleRetry, intents, sagas, payment, notices, bounds, Goto
<1>12. CASE Fail(a)
  BY <1>12 DEF Fail, intents, sagas, payment, notices, bounds, Exhausted, Goto
<1>13. CASE FinishDispatch(a)
  BY <1>13 DEF FinishDispatch, intents, sagas, payment, notices, bounds, QueueAfter, Goto
<1> QED
  BY <1>1, <1>2, <1>3, <1>4, <1>5, <1>6, <1>7, <1>8, <1>9, <1>10, <1>11, <1>12, <1>13 DEF DispatchStep

LEMMA CourierType ==
  ASSUME TypeOK, NEW c \in Couriers, CourierStep(c)
  PROVE  TypeOK'
<1> USE DEF TypeOK, Actors, Stages, Requesting, Dispatching, Open, Closed, IntentState, SagaState, Settled, QueueState, NoticeState, Outcomes
<1>1. CASE ClaimNotice(c)
  BY <1>1 DEF ClaimNotice, intents, sagas, payment, notices, bounds, Move
<1>2. CASE Deliver(c)
  BY <1>2 DEF Deliver, intents, sagas, payment, notices, bounds, Apply, Applies, Replays, Target, Move
<1>3. CASE DeliverUnanswered(c)
  BY <1>3 DEF DeliverUnanswered, intents, sagas, payment, notices, bounds, Apply, Applies, Replays, Target, Move
<1>4. CASE MarkSent(c)
  BY <1>4 DEF MarkSent, intents, sagas, payment, notices, bounds, Move
<1>5. CASE MarkFailed(c)
  BY <1>5 DEF MarkFailed, intents, sagas, payment, notices, bounds, Released, Move
<1> QED
  BY <1>1, <1>2, <1>3, <1>4, <1>5 DEF CourierStep

LEMMA NextType == TypeOK /\ [Next]_vars => TypeOK'
<1> SUFFICES ASSUME TypeOK, [Next]_vars PROVE TypeOK' OBVIOUS
<1> USE DEF TypeOK, Actors, Stages, Requesting, Dispatching, Open, Closed, IntentState, SagaState, Settled, QueueState, NoticeState, Outcomes
<1>1. CASE UNCHANGED vars BY <1>1 DEF vars, intents, sagas, payment, notices, bounds
<1>2. CASE \E a \in Callers : Request(a) BY <1>2, RequestType
<1>3. CASE \E a \in Actors : Claim(a) BY <1>3 DEF Claim, Unsettled, Claimable, Goto, intents, sagas, payment, notices, bounds
<1>4. CASE \E a \in Actors : DispatchStep(a) BY <1>4, DispatchType
<1>5. CASE \E a \in Actors : Abandon(a) BY <1>5 DEF Abandon, Goto, intents, sagas, payment, notices, bounds
<1>6. CASE Edit BY <1>6 DEF Edit, intents, sagas, payment, notices, bounds
<1>7. CASE Cancel BY <1>7 DEF Cancel, intents, sagas, payment, notices, bounds
<1>8. CASE LeaseLapses BY <1>8 DEF LeaseLapses, intents, sagas, payment, notices, bounds
<1>9. CASE LateCreation
  <2>1. late' \in BOOLEAN
    <3>1. late' = FALSE BY <1>9 DEF LateCreation
    <3> QED BY <3>1
  <2> QED BY <1>9, <2>1 DEF LateCreation, SessionMade, intents, sagas, notices, bounds
<1>10. CASE \E o \in Outcomes : Decide(o) BY <1>10 DEF Decide, intents, sagas, payment, notices, bounds
<1>11. CASE \E c \in Couriers : CourierStep(c) BY <1>11, CourierType
<1>12. CASE \E c \in Couriers : CourierStops(c) BY <1>12 DEF CourierStops, Move, intents, sagas, payment, notices, bounds
<1>13. CASE NoticeLapses BY <1>13 DEF NoticeLapses, intents, sagas, payment, notices, bounds
<1>14. CASE RequeueNotice BY <1>14 DEF RequeueNotice, intents, sagas, payment, notices, bounds
<1> QED
  BY <1>1, <1>2, <1>3, <1>4, <1>5, <1>6, <1>7, <1>8, <1>9, <1>10, <1>11, <1>12, <1>13, <1>14
  DEF Next

THEOREM Typed == Spec => []TypeOK
<1> QED BY InitType, NextType, PTL DEF Spec

-----------------------------------------------------------------------------
(* The handoff: a dispatch past its create has a session, and one past its *)
(* attach an intent that carries it, however many dispatches interleave.   *)

Served == {"created", "matched", "marked", "attached"}

HandoffInv ==
  /\ CompletedIsAttached
  /\ attached => session # "absent"
  /\ \A a \in Actors : at[a] \in Served => session # "absent"
  /\ \A a \in Actors : at[a] = "attached" => attached

LEMMA InitHandoff == Init => HandoffInv
  BY DEF Init, HandoffInv, CompletedIsAttached, Served

\* What a step may do without touching the invariant: bring no dispatch further, keep
\* or complete the session and the attachment, and not complete the saga.
LEMMA HandoffKept ==
  ASSUME HandoffInv,
         attached => attached', attached' => attached,
         session # "absent" => session' # "absent",
         saga' = "completed" => saga = "completed",
         \A a \in Actors : at'[a] \in Served => at'[a] = at[a]
  PROVE  HandoffInv'
  BY DEF HandoffInv, CompletedIsAttached, Served

LEMMA DispatchHandoff ==
  ASSUME TypeOK, HandoffInv, NEW a \in Actors, DispatchStep(a)
  PROVE  HandoffInv'
<1> USE DEF TypeOK
<1>1. CASE ReadKnown(a)
  BY <1>1 DEF ReadKnown, Goto, HandoffInv, CompletedIsAttached, Served, Live, intents, sagas, payment
<1>2. CASE CreateSession(a)
  BY <1>2 DEF CreateSession, Goto, HandoffInv, CompletedIsAttached, Served, SessionMade, intents, sagas, payment
<1>3. CASE CreateUnanswered(a)
  BY <1>3, HandoffKept DEF CreateUnanswered, Goto, Served, SessionMade, intents, sagas, payment
<1>4. CASE CreateRefused(a)
  BY <1>4, HandoffKept DEF CreateRefused, Goto, Served, intents, sagas, payment
<1>5. CASE ReadBack(a)
  BY <1>5 DEF ReadBack, Goto, HandoffInv, CompletedIsAttached, Served, Live, intents, sagas, payment
<1>6. CASE MarkRemote(a)
  BY <1>6 DEF MarkRemote, Goto, HandoffInv, CompletedIsAttached, Served, Settled, intents, sagas, payment
<1>7. CASE Attach(a)
  BY <1>7 DEF Attach, Goto, HandoffInv, CompletedIsAttached, Served, intents, sagas, payment
<1>8. CASE AttachRefused(a)
  BY <1>8, HandoffKept DEF AttachRefused, Goto, Served, Refusal, intents, sagas, payment
<1>9. CASE MarkPending(a)
  BY <1>9, HandoffKept DEF MarkPending, Goto, Served, intents, sagas, payment
<1>10. CASE MarkComplete(a)
  BY <1>10 DEF MarkComplete, Goto, HandoffInv, CompletedIsAttached, Served, Completable, intents, sagas, payment
<1>11. CASE ScheduleRetry(a)
  BY <1>11, HandoffKept DEF ScheduleRetry, Goto, Served, intents, sagas, payment
<1>12. CASE Fail(a)
  BY <1>12, HandoffKept DEF Fail, Goto, Served, intents, sagas, payment
<1>13. CASE FinishDispatch(a)
  BY <1>13, HandoffKept DEF FinishDispatch, Goto, Served, intents, sagas, payment
<1> QED
  BY <1>1, <1>2, <1>3, <1>4, <1>5, <1>6, <1>7, <1>8, <1>9, <1>10, <1>11, <1>12, <1>13 DEF DispatchStep

LEMMA NextHandoff == TypeOK /\ HandoffInv /\ [Next]_vars => HandoffInv'
<1> SUFFICES ASSUME TypeOK, HandoffInv, [Next]_vars PROVE HandoffInv' OBVIOUS
<1> USE DEF TypeOK, Served
<1>1. CASE UNCHANGED vars
  BY <1>1, HandoffKept DEF vars, intents, sagas, payment
<1>2. CASE \E a \in Callers : Request(a)
  BY <1>2, HandoffKept DEF Request, Create, Resume, QuoteFails, Start, StartRefused, Activate,
     ClaimRefused, Goto, Actors, intents, sagas, payment
<1>3. CASE \E a \in Actors : Claim(a)
  BY <1>3, HandoffKept DEF Claim, Goto, intents, payment
<1>4. CASE \E a \in Actors : DispatchStep(a) BY <1>4, DispatchHandoff
<1>5. CASE \E a \in Actors : Abandon(a)
  BY <1>5, HandoffKept DEF Abandon, Goto, intents, sagas, payment
<1>6. CASE Edit BY <1>6, HandoffKept DEF Edit, sagas, payment
<1>7. CASE Cancel BY <1>7, HandoffKept DEF Cancel, sagas, payment
<1>8. CASE LeaseLapses BY <1>8, HandoffKept DEF LeaseLapses, intents, payment
<1>9. CASE LateCreation BY <1>9, HandoffKept DEF LateCreation, SessionMade, intents, sagas
<1>10. CASE \E o \in Outcomes : Decide(o)
  BY <1>10, HandoffKept DEF Decide, Outcomes, intents, sagas
<1>11. CASE \E c \in Couriers : CourierStep(c)
  BY <1>11, HandoffKept DEF CourierStep, ClaimNotice, Deliver, DeliverUnanswered, MarkSent,
     MarkFailed, intents, sagas, payment
<1>12. CASE \E c \in Couriers : CourierStops(c)
  BY <1>12, HandoffKept DEF CourierStops, intents, sagas, payment
<1>13. CASE NoticeLapses BY <1>13, HandoffKept DEF NoticeLapses, intents, sagas, payment
<1>14. CASE RequeueNotice BY <1>14, HandoffKept DEF RequeueNotice, intents, sagas, payment
<1> QED
  BY <1>1, <1>2, <1>3, <1>4, <1>5, <1>6, <1>7, <1>8, <1>9, <1>10, <1>11, <1>12, <1>13, <1>14
  DEF Next

\* A completed saga has attached its session, even if leases lapse under live
\* dispatches and their unguarded writes interleave.
THEOREM Handoff == Spec => []CompletedIsAttached
<1>1. TypeOK /\ HandoffInv /\ [Next]_vars => (TypeOK /\ HandoffInv)' BY NextType, NextHandoff
<1>2. HandoffInv => CompletedIsAttached BY DEF HandoffInv
<1> QED BY <1>1, <1>2, InitType, InitHandoff, PTL DEF Spec

-----------------------------------------------------------------------------
(* The outcome: an event exists only for a decided session, a courier's    *)
(* acceptance speaks for the intent, and neither is ever taken back.       *)

Delivered == notice = "sent" \/ \E c \in Couriers : courier[c] = "accepted"

OutcomeInv ==
  /\ ConfirmedIsPaid
  /\ notice # "none" => session \in Outcomes
  /\ \A c \in Couriers : courier[c] # "idle" => notice # "none"
  /\ Delivered => intent = Target(session)

LEMMA InitOutcome == Init => OutcomeInv
  BY DEF Init, OutcomeInv, ConfirmedIsPaid, Delivered

LEMMA TargetClosed ==
  ASSUME NEW o \in Outcomes
  PROVE  Target(o) \in Closed /\ (Target(o) = "confirmed" <=> o = "captured")
  BY DEF Outcomes, Target, Closed

\* Steps of DSH: a closed intent stays, and none becomes confirmed.
LEMMA OutcomeKeptDsh ==
  ASSUME OutcomeInv, notices' = notices, session \in Outcomes => session' = session,
         attached => attached', intent \in Closed => intent' = intent,
         intent' = "confirmed" => intent = "confirmed"
  PROVE  OutcomeInv'
<1>1. (notice # "none" => session' \in Outcomes) /\ notice' = notice /\ courier' = courier
  BY DEF OutcomeInv, notices
<1>2. ConfirmedIsPaid' BY DEF OutcomeInv, ConfirmedIsPaid, Outcomes
<1>3. Delivered' => intent' = Target(session)'
  <2> SUFFICES ASSUME Delivered' PROVE intent' = Target(session)' OBVIOUS
  <2>1. Delivered BY <1>1 DEF Delivered
  <2>2. notice # "none" BY <2>1 DEF Delivered, OutcomeInv
  <2>3. session \in Outcomes /\ session' = session BY <2>2 DEF OutcomeInv
  <2>4. intent = Target(session) BY <2>1 DEF OutcomeInv
  <2>5. intent' = intent BY <2>3, <2>4, TargetClosed
  <2> QED BY <2>3, <2>4, <2>5 DEF Target
<1> QED BY <1>1, <1>2, <1>3 DEF OutcomeInv

\* Steps of WLT's outbox that leave the intent and the session alone.
LEMMA OutcomeKeptWlt ==
  ASSUME OutcomeInv, UNCHANGED <<intents, session>>, (notice' = "none") <=> (notice = "none"),
         Delivered' => Delivered,
         \A c \in Couriers : courier'[c] # "idle" => (courier[c] # "idle" \/ notice # "none")
  PROVE  OutcomeInv'
  BY DEF OutcomeInv, ConfirmedIsPaid, Delivered, Target, intents

LEMMA RequestOutcome ==
  ASSUME TypeOK, OutcomeInv, NEW a \in Callers, Request(a)
  PROVE  OutcomeInv'
<1> USE DEF Closed, Blockable
<1>1. CASE Create(a) BY <1>1, OutcomeKeptDsh DEF Create, payment
<1>2. CASE QuoteFails(a) BY <1>2, OutcomeKeptDsh DEF QuoteFails, payment
<1>3. CASE UNCHANGED <<intents, payment, notices>>
  BY <1>3, OutcomeKeptDsh DEF intents, payment
<1> QED
  BY <1>1, <1>2, <1>3 DEF Request, Resume, Start, StartRefused, Activate, ClaimRefused

LEMMA DispatchOutcome ==
  ASSUME TypeOK, OutcomeInv, NEW a \in Actors, DispatchStep(a)
  PROVE  OutcomeInv'
<1>1. CASE CreateSession(a)
  BY <1>1, OutcomeKeptDsh DEF CreateSession, SessionMade, intents, Outcomes
<1>2. CASE CreateUnanswered(a)
  BY <1>2, OutcomeKeptDsh DEF CreateUnanswered, SessionMade, intents, Outcomes
<1>3. CASE Attach(a)
  BY <1>3, OutcomeKeptDsh DEF Attach, Open, Closed, payment
<1>4. CASE UNCHANGED <<intents, payment, notices>>
  BY <1>4, OutcomeKeptDsh DEF intents, payment
<1> QED
  BY <1>1, <1>2, <1>3, <1>4 DEF DispatchStep, ReadKnown, CreateRefused, ReadBack, MarkRemote,
     AttachRefused, MarkPending, MarkComplete, ScheduleRetry, Fail, FinishDispatch

LEMMA ApplyOutcome ==
  ASSUME OutcomeInv, session \in Outcomes, Apply,
         session' = session, attached' = attached
  PROVE  ConfirmedIsPaid' /\ intent' = Target(session)
<1>1. intent' = Target(session) BY DEF Apply, Applies, Replays
<1>2. attached BY DEF Apply, Applies, Replays
<1> QED BY <1>1, <1>2, TargetClosed DEF ConfirmedIsPaid

LEMMA CourierOutcome ==
  ASSUME TypeOK, OutcomeInv, NEW c \in Couriers, CourierStep(c)
  PROVE  OutcomeInv'
<1>1. CASE ClaimNotice(c)
  BY <1>1, OutcomeKeptWlt DEF ClaimNotice, Move, Delivered, payment, TypeOK
<1>2. CASE Deliver(c)
  <2>1. notice # "none" /\ session \in Outcomes BY <1>2 DEF Deliver, OutcomeInv
  <2>2. notice' = notice /\ session' = session /\ attached' = attached
    BY <1>2 DEF Deliver, payment
  <2>3. CASE Apply /\ Move(c, "accepted")
    BY <2>1, <2>2, <2>3, ApplyOutcome DEF OutcomeInv, Delivered, Move, Target
  <2>4. CASE Move(c, "refused") /\ UNCHANGED <<intent, version>>
    <3>1. Delivered' => Delivered BY <2>2, <2>4 DEF Delivered, Move, TypeOK
    <3>2. UNCHANGED <<intents, session>> BY <1>2, <2>2, <2>4 DEF Deliver, intents
    <3> QED BY <2>1, <2>2, <3>1, <3>2, OutcomeKeptWlt
  <2> QED BY <1>2, <2>3, <2>4 DEF Deliver
<1>3. CASE DeliverUnanswered(c)
  <2>1. notice # "none" /\ session \in Outcomes BY <1>3 DEF DeliverUnanswered, OutcomeInv
  <2>2. notice' = notice /\ session' = session /\ attached' = attached /\ Move(c, "refused")
    BY <1>3 DEF DeliverUnanswered, payment
  <2>3. Delivered' => Delivered BY <2>2 DEF Delivered, Move, TypeOK
  <2>4. CASE Apply
    BY <2>1, <2>2, <2>3, <2>4, ApplyOutcome DEF OutcomeInv, Target
  <2>5. CASE UNCHANGED <<intent, version>>
    <3>1. UNCHANGED <<intents, session>> BY <1>3, <2>2, <2>5 DEF DeliverUnanswered, intents
    <3> QED BY <2>1, <2>2, <2>3, <3>1, OutcomeKeptWlt
  <2> QED BY <1>3, <2>4, <2>5 DEF DeliverUnanswered
<1>4. CASE MarkSent(c)
  <2>1. Delivered /\ notice # "none" BY <1>4 DEF MarkSent, Delivered, OutcomeInv
  <2>2. UNCHANGED <<intents, session>> /\ notice' = "sent" BY <1>4 DEF MarkSent, payment
  <2> QED BY <2>1, <2>2, OutcomeKeptWlt
<1>5. CASE MarkFailed(c)
  <2>1. notice # "none" BY <1>5 DEF MarkFailed, OutcomeInv
  <2>2. notice' # "none" /\ (notice' = "sent" => notice = "sent")
    BY <1>5, <2>1 DEF MarkFailed, Released
  <2>3. Delivered' => Delivered BY <1>5, <2>2 DEF MarkFailed, Move, Delivered, TypeOK
  <2>4. UNCHANGED <<intents, session>> BY <1>5 DEF MarkFailed, payment
  <2> QED BY <2>1, <2>2, <2>3, <2>4, OutcomeKeptWlt
<1> QED BY <1>1, <1>2, <1>3, <1>4, <1>5 DEF CourierStep

LEMMA NextOutcome == TypeOK /\ OutcomeInv /\ [Next]_vars => OutcomeInv'
<1> SUFFICES ASSUME TypeOK, OutcomeInv, [Next]_vars PROVE OutcomeInv' OBVIOUS
<1>1. CASE UNCHANGED <<intents, payment, notices>>
  BY <1>1, OutcomeKeptDsh DEF intents, payment
<1>2. CASE \E a \in Callers : Request(a) BY <1>2, RequestOutcome
<1>3. CASE \E a \in Actors : DispatchStep(a) BY <1>3, DispatchOutcome
<1>4. CASE Edit BY <1>4, OutcomeKeptDsh DEF Edit, Open, Closed, payment
<1>5. CASE Cancel BY <1>5, OutcomeKeptDsh DEF Cancel, Open, Closed, payment
<1>6. CASE LateCreation
  BY <1>6, OutcomeKeptDsh DEF LateCreation, SessionMade, Outcomes, intents
<1>7. CASE \E o \in Outcomes : Decide(o)
  BY <1>7 DEF Decide, OutcomeInv, ConfirmedIsPaid, Delivered, Outcomes, intents
<1>8. CASE \E c \in Couriers : CourierStep(c) BY <1>8, CourierOutcome
<1>9. CASE \E c \in Couriers : CourierStops(c)
  BY <1>9, OutcomeKeptWlt DEF CourierStops, Move, Delivered, payment, TypeOK
<1>10. CASE NoticeLapses BY <1>10, OutcomeKeptWlt DEF NoticeLapses, Delivered, payment
<1>11. CASE RequeueNotice BY <1>11, OutcomeKeptWlt DEF RequeueNotice, Delivered, payment
<1> QED
  BY <1>1, <1>2, <1>3, <1>4, <1>5, <1>6, <1>7, <1>8, <1>9, <1>10, <1>11
  DEF Next, Claim, Abandon, LeaseLapses, vars

\* DSH shows a checkout as confirmed only when its attached session is captured.
THEOREM Paid == Spec => []ConfirmedIsPaid
<1>1. TypeOK /\ OutcomeInv /\ [Next]_vars => (TypeOK /\ OutcomeInv)' BY NextType, NextOutcome
<1>2. OutcomeInv => ConfirmedIsPaid BY DEF OutcomeInv
<1> QED BY <1>1, <1>2, InitType, InitOutcome, PTL DEF Spec

\* An event marked sent is applied, and stays so.
THEOREM Applied == Spec => []SentWasApplied
<1>1. TypeOK /\ OutcomeInv /\ [Next]_vars => (TypeOK /\ OutcomeInv)' BY NextType, NextOutcome
<1>2. OutcomeInv => SentWasApplied BY DEF OutcomeInv, SentWasApplied, Delivered
<1> QED BY <1>1, <1>2, InitType, InitOutcome, PTL DEF Spec

-----------------------------------------------------------------------------
(* The session of the checkout keeps the promise of PaymentOutcome.         *)

\* A decision is taken and told in one step, and stays told.
DecidedTold == session \in Outcomes <=> notice # "none"

\* A step other than a decision leaves a decided session and what is told of it alone.
LEMMA ToldKept ==
  ASSUME TypeOK, [Next]_vars, ~(\E o \in Outcomes : Decide(o)), notice # "none" => session \in Outcomes,
         \A c \in Couriers : courier[c] # "idle" => notice # "none"
  PROVE  /\ session \in Outcomes => session' = session
         /\ session \notin Outcomes => session' \notin Outcomes
         /\ (notice' = "none") <=> (notice = "none")
<1> USE DEF intents, sagas, payment, notices, bounds, SessionMade, Outcomes
<1>1. CASE UNCHANGED <<payment, notices>> BY <1>1
<1>2. CASE \E a \in Callers : Request(a)
  BY <1>2 DEF Request, Create, Resume, QuoteFails, Start, StartRefused, Activate, ClaimRefused
<1>3. CASE \E a \in Actors : DispatchStep(a)
  <2>1. PICK a \in Actors : DispatchStep(a) BY <1>3
  <2>2. CASE CreateSession(a) BY <2>2 DEF CreateSession
  <2>3. CASE CreateUnanswered(a) BY <2>3 DEF CreateUnanswered
  <2>4. CASE UNCHANGED <<payment, notices>> BY <2>4
  <2> QED
    BY <2>1, <2>2, <2>3, <2>4 DEF DispatchStep, ReadKnown, CreateRefused, ReadBack, MarkRemote,
       Attach, AttachRefused, MarkPending, MarkComplete, ScheduleRetry, Fail, FinishDispatch
<1>4. CASE LateCreation BY <1>4 DEF LateCreation
<1>5. CASE \E c \in Couriers : CourierStep(c)
  <2>1. PICK c \in Couriers : CourierStep(c) BY <1>5
  <2> QED
    BY <2>1 DEF CourierStep, ClaimNotice, Deliver, DeliverUnanswered, MarkSent, MarkFailed, Released
<1>6. CASE \E c \in Couriers : CourierStops(c) BY <1>6 DEF CourierStops
<1>7. CASE NoticeLapses \/ RequeueNotice BY <1>7 DEF NoticeLapses, RequeueNotice
<1> QED
  BY <1>1, <1>2, <1>3, <1>4, <1>5, <1>6, <1>7
  DEF Next, Claim, Abandon, Edit, Cancel, LeaseLapses, vars

LEMMA NextTold == TypeOK /\ OutcomeInv /\ DecidedTold /\ [Next]_vars => DecidedTold'
<1> SUFFICES ASSUME TypeOK, OutcomeInv, DecidedTold, [Next]_vars PROVE DecidedTold' OBVIOUS
<1>1. CASE \E o \in Outcomes : Decide(o) BY <1>1 DEF Decide, DecidedTold
<1>2. CASE ~(\E o \in Outcomes : Decide(o))
  BY <1>2, ToldKept DEF DecidedTold, OutcomeInv
<1> QED BY <1>1, <1>2

LEMMA PromiseStep ==
  ASSUME TypeOK, OutcomeInv, DecidedTold, [Next]_vars
  PROVE  [Promise!Next]_<<IF session \in Outcomes THEN session ELSE "open", session = "captured",
                         IF notice = "none" THEN {} ELSE {session}>>
<1>1. CASE \E o \in Outcomes : Decide(o)
  <2>1. PICK o \in Outcomes : Decide(o) BY <1>1
  <2>2. session = "open" /\ session' = o /\ notice' = "pending" BY <2>1 DEF Decide
  <2>3. o \in Promise!Outcomes BY DEF Promise!Outcomes, Outcomes
  <2>4. Promise!Decide(o) BY <2>2 DEF Promise!Decide, Outcomes
  <2> QED BY <2>3, <2>4 DEF Promise!Next
<1>2. CASE ~(\E o \in Outcomes : Decide(o))
  <2>1. /\ session \in Outcomes => session' = session
        /\ session \notin Outcomes => session' \notin Outcomes
        /\ (notice' = "none") <=> (notice = "none")
    BY <1>2, ToldKept DEF OutcomeInv
  <2>2. CASE session \in Outcomes BY <2>1, <2>2
  <2>3. CASE session \notin Outcomes
    <3>1. notice = "none" /\ session' # "captured" /\ session # "captured"
      BY <2>1, <2>3 DEF DecidedTold, Outcomes
    <3> QED BY <2>1, <2>3, <3>1
  <2> QED BY <2>2, <2>3
<1> QED BY <1>1, <1>2

\* The checkout meets a session as PaymentOutcome promises it: any number of creations,
\* late ones included, make one session, which is decided once and told in that step.
THEOREM PromiseKept == Spec => SessionAsPromised
<1>1. Init => TypeOK /\ OutcomeInv /\ DecidedTold
  BY InitType, InitOutcome DEF Init, DecidedTold, Outcomes
<1>2. Init => Promise!Init BY DEF Init, Promise!Init, Outcomes
<1>3. TypeOK /\ OutcomeInv /\ DecidedTold /\ [Next]_vars
        => (TypeOK /\ OutcomeInv /\ DecidedTold)'
  BY NextType, NextOutcome, NextTold
<1>4. TypeOK /\ OutcomeInv /\ DecidedTold /\ [Next]_vars
        => [Promise!Next]_<<IF session \in Outcomes THEN session ELSE "open",
                            session = "captured", IF notice = "none" THEN {} ELSE {session}>>
  BY PromiseStep
<1> QED BY <1>1, <1>2, <1>3, <1>4, PTL DEF Spec, SessionAsPromised, Promise!Spec

\* Only a decided session moves an intent by an event, and only Cancel takes an intent
\* with an open session to cancelled: a cancelled intent with an attached, open session
\* has its closure enqueued.
ClosureInv == (intent = "cancelled" /\ attached /\ session = "open") => closure

LEMMA ClosureKept ==
  ASSUME TypeOK, HandoffInv, ClosureInv, UNCHANGED <<attached, closure>>,
         intent' = "cancelled" => (intent = "cancelled" \/ session' # "open"),
         session' = "open" => session \in {"absent", "open"}
  PROVE  ClosureInv'
<1> SUFFICES ASSUME intent' = "cancelled", attached', session' = "open" PROVE closure'
  BY DEF ClosureInv
<1>1. attached /\ session \in {"absent", "open"} /\ intent = "cancelled" OBVIOUS
<1>2. session # "absent" BY <1>1 DEF HandoffInv
<1>3. closure BY <1>1, <1>2 DEF ClosureInv
<1> QED BY <1>3

LEMMA CourierClosure ==
  ASSUME TypeOK, HandoffInv, OutcomeInv, ClosureInv, NEW c \in Couriers, CourierStep(c)
  PROVE  ClosureInv'
<1>1. UNCHANGED <<attached, closure, session>>
  BY DEF CourierStep, ClaimNotice, Deliver, DeliverUnanswered, MarkSent, MarkFailed, intents, payment
<1>2. intent' = intent \/ (session \in Outcomes)
  <2>1. courier[c] = "holding" => session \in Outcomes BY DEF OutcomeInv
  <2> QED BY <2>1 DEF CourierStep, ClaimNotice, Deliver, DeliverUnanswered, MarkSent, MarkFailed,
        intents
<1> QED BY <1>1, <1>2, ClosureKept DEF Outcomes, TypeOK

LEMMA NextClosure ==
  TypeOK /\ HandoffInv /\ OutcomeInv /\ ClosureInv /\ [Next]_vars => ClosureInv'
<1> SUFFICES ASSUME TypeOK, HandoffInv, OutcomeInv, ClosureInv, [Next]_vars PROVE ClosureInv'
  OBVIOUS
<1>1. CASE UNCHANGED vars BY <1>1, ClosureKept DEF vars, intents, payment
<1>2. CASE \E a \in Callers : Request(a)
  BY <1>2, ClosureKept DEF Request, Create, Resume, QuoteFails, Start, StartRefused, Activate,
     ClaimRefused, intents, payment, Open, Blockable
<1>3. CASE \E a \in Actors : Claim(a) BY <1>3, ClosureKept DEF Claim, intents, payment
<1>4. CASE \E a \in Actors : DispatchStep(a)
  <2> PICK a \in Actors : DispatchStep(a) BY <1>4
  <2>1. CASE Attach(a) BY <2>1 DEF Attach, ClosureInv
  <2>2. CASE ~Attach(a)
    <3>1. UNCHANGED intents
      BY <2>2 DEF DispatchStep, ReadKnown, CreateSession, CreateUnanswered, CreateRefused, ReadBack,
         MarkRemote, AttachRefused, MarkPending, MarkComplete, ScheduleRetry, Fail, FinishDispatch
    <3>2. session' = session \/ session = "absent"
      BY <2>2 DEF DispatchStep, ReadKnown, CreateSession, CreateUnanswered, CreateRefused, ReadBack,
         MarkRemote, AttachRefused, MarkPending, MarkComplete, ScheduleRetry, Fail, FinishDispatch,
         SessionMade, payment
    <3> QED BY <3>1, <3>2, ClosureKept DEF intents
  <2> QED BY <2>1, <2>2
<1>5. CASE \E a \in Actors : Abandon(a) BY <1>5, ClosureKept DEF Abandon, intents, payment
<1>6. CASE Edit BY <1>6, ClosureKept DEF Edit, payment
<1>7. CASE Cancel BY <1>7 DEF Cancel, ClosureInv
<1>8. CASE LeaseLapses BY <1>8, ClosureKept DEF LeaseLapses, intents, payment
<1>9. CASE LateCreation BY <1>9, ClosureKept DEF LateCreation, SessionMade, intents
<1>10. CASE \E o \in Outcomes : Decide(o) BY <1>10, ClosureKept DEF Decide, Outcomes, intents
<1>11. CASE \E c \in Couriers : CourierStep(c) BY <1>11, CourierClosure
<1>12. CASE \E c \in Couriers : CourierStops(c)
  BY <1>12, ClosureKept DEF CourierStops, intents, payment
<1>13. CASE NoticeLapses BY <1>13, ClosureKept DEF NoticeLapses, intents, payment
<1>14. CASE RequeueNotice BY <1>14, ClosureKept DEF RequeueNotice, intents, payment
<1> QED
  BY <1>1, <1>2, <1>3, <1>4, <1>5, <1>6, <1>7, <1>8, <1>9, <1>10, <1>11, <1>12, <1>13, <1>14
  DEF Next

\* The open session of a cancelled intent is closed by an enqueued expiry or the saga,
\* once settled, asks for reconciliation.
THEOREM OrphanSeen == Spec => []OrphanNoticed
<1>1. Init => TypeOK /\ HandoffInv /\ OutcomeInv /\ ClosureInv
  BY InitType, InitHandoff, InitOutcome DEF Init, ClosureInv
<1>2. TypeOK /\ HandoffInv /\ OutcomeInv /\ ClosureInv /\ [Next]_vars
        => (TypeOK /\ HandoffInv /\ OutcomeInv /\ ClosureInv)'
  BY NextType, NextHandoff, NextOutcome, NextClosure
<1>3. HandoffInv /\ ClosureInv => OrphanNoticed
  BY DEF HandoffInv, CompletedIsAttached, ClosureInv, OrphanNoticed, Settled
<1> QED BY <1>1, <1>2, <1>3, PTL DEF Spec

-----------------------------------------------------------------------------
(* The lease, while none lapses under a live holder: one dispatch at a     *)
(* time, at a stage that tells the saga's state, spends one attempt.       *)

Remote == {"dispatched", "remote_confirmed", "local_projection_pending"}
Spending == {"claimed", "created", "matched", "marked", "attached", "unattached", "failing"}

\* What a dispatch at a stage says of the saga.
Stage(s) ==
  /\ s \in {"claimed", "created", "matched", "lost", "failing"} => saga \in Remote
  /\ s \in {"marked", "attached", "unattached"} => saga = "remote_confirmed"
  /\ s = "unknown" => saga = "remote_outcome_unknown"
  /\ s = "rescheduling" => saga = "retry_scheduled"
  /\ s = "completing" => saga = "completed"
  /\ s = "parking" => saga = "reconciliation_required"

LeaseInv ==
  /\ saga = "absent" => queue = "none"
  /\ \A a, b \in Actors : at[a] \in Dispatching /\ at[b] \in Dispatching => a = b
  /\ \A a \in Actors : at[a] \in Dispatching => queue = "in_flight" /\ Stage(at[a])

Limit == MaxAttempts + losses + crashes

BudgetInv ==
  /\ attempts <= Limit
  /\ (saga \notin Settled /\ \A a \in Actors : at[a] \notin Spending) => attempts < Limit

LEMMA InitLease == Init => LeaseInv /\ BudgetInv
  BY BoundsAssumption DEF Init, LeaseInv, BudgetInv, Limit, Dispatching

LEMMA RequestLease ==
  ASSUME TypeOK, LeaseInv, NEW a \in Callers, Request(a)
  PROVE  LeaseInv'
<1> USE DEF TypeOK, LeaseInv, Dispatching, Goto, Actors
<1>1. CASE Start(a) BY <1>1 DEF Start, Stage, Remote
<1>2. CASE Activate(a) BY <1>2 DEF Activate, Stage
<1>3. CASE ~Start(a) /\ ~Activate(a)
  <2>1. saga' = saga /\ queue' = queue
    BY <1>3 DEF Request, Create, Resume, QuoteFails, StartRefused, ClaimRefused, sagas
  <2>2. \A b \in Actors : at'[b] \in Dispatching => at'[b] = at[b]
    BY <1>3 DEF Request, Create, Resume, QuoteFails, StartRefused, ClaimRefused
  <2> QED BY <2>1, <2>2 DEF Stage
<1> QED BY <1>1, <1>2, <1>3

LEMMA ClaimLease ==
  ASSUME TypeOK, LeaseInv, NEW a \in Actors, Claim(a)
  PROVE  LeaseInv'
<1>1. queue \in {"pending", "lapsed"} /\ queue' = "in_flight" BY DEF Claim, Claimable
<1>2. \A b \in Actors : at[b] \notin Dispatching BY <1>1 DEF LeaseInv
<1>3. at' = [at EXCEPT ![a] = "claimed"] BY DEF Claim, Goto
<1>4. saga' \in Remote
  BY <1>1 DEF Claim, Unsettled, LeaseInv, TypeOK, SagaState, Settled, Remote
<1>5. \A b \in Actors : at'[b] \in Dispatching => b = a BY <1>2, <1>3 DEF TypeOK
<1>6. at'[a] = "claimed" BY <1>3 DEF TypeOK
<1>7. Stage("claimed")' BY <1>4 DEF Stage
<1> QED BY <1>1, <1>4, <1>5, <1>6, <1>7 DEF LeaseInv, Stage, Remote

\* The only live dispatch, at a stage it is allowed to be at, stays the only one.
LEMMA OwnLease ==
  ASSUME TypeOK, LeaseInv, NEW a \in Actors, at[a] \in Dispatching, NEW s, Goto(a, s),
         saga' # "absent",
         s \in Dispatching => queue' = "in_flight" /\ Stage(s)'
  PROVE  LeaseInv'
<1>1. at' = [at EXCEPT ![a] = s] BY DEF Goto
<1>2. at'[a] = s /\ \A b \in Actors : at'[b] \in Dispatching => b = a
  BY <1>1 DEF TypeOK, LeaseInv
<1>3. s \in Dispatching => Stage(at[a])' BY <1>2 DEF Stage
<1> QED BY <1>2, <1>3 DEF LeaseInv

LEMMA DispatchLease ==
  ASSUME TypeOK, LeaseInv, NEW a \in Actors, DispatchStep(a)
  PROVE  LeaseInv'
<1> USE DEF Dispatching
<1>1. at[a] \in Dispatching /\ queue = "in_flight" /\ Stage(at[a])
  BY DEF LeaseInv, DispatchStep, ReadKnown, CreateSession, CreateUnanswered, CreateRefused,
     ReadBack, MarkRemote, Attach, AttachRefused, MarkPending, MarkComplete, ScheduleRetry,
     Fail, FinishDispatch
<1>2. CASE ReadKnown(a) BY <1>1, <1>2, OwnLease DEF ReadKnown, Stage, Remote, sagas
<1>3. CASE CreateSession(a) BY <1>1, <1>3, OwnLease DEF CreateSession, Stage, Remote, sagas
<1>4. CASE CreateUnanswered(a) BY <1>1, <1>4, OwnLease DEF CreateUnanswered, Stage, Remote, sagas
<1>5. CASE CreateRefused(a) BY <1>1, <1>5, OwnLease DEF CreateRefused, Stage, Remote, sagas
<1>6. CASE ReadBack(a) BY <1>1, <1>6, OwnLease DEF ReadBack, Stage, Remote, sagas
<1>7. CASE MarkRemote(a) BY <1>1, <1>7, OwnLease DEF MarkRemote, Stage, Remote, Settled
<1>8. CASE Attach(a) BY <1>1, <1>8, OwnLease DEF Attach, Stage, Remote, sagas
<1>9. CASE AttachRefused(a) BY <1>1, <1>9, OwnLease DEF AttachRefused, Stage, Remote, Refusal, sagas
<1>10. CASE MarkPending(a) BY <1>1, <1>10, OwnLease DEF MarkPending, Stage, Remote
<1>11. CASE MarkComplete(a) BY <1>1, <1>11, OwnLease DEF MarkComplete, Stage, Remote, Completable
<1>12. CASE ScheduleRetry(a) BY <1>1, <1>12, OwnLease DEF ScheduleRetry, Stage, Remote
<1>13. CASE Fail(a) BY <1>1, <1>13, OwnLease DEF Fail, Stage, Remote
<1>14. CASE FinishDispatch(a) BY <1>1, <1>14, OwnLease DEF FinishDispatch, Stage, Remote
<1> QED
  BY <1>2, <1>3, <1>4, <1>5, <1>6, <1>7, <1>8, <1>9, <1>10, <1>11, <1>12, <1>13, <1>14 DEF DispatchStep

LEMMA NextLease ==
  TypeOK /\ LeaseInv /\ [Next]_vars /\ slows' = 0 => LeaseInv'
<1> SUFFICES ASSUME TypeOK, LeaseInv, [Next]_vars, slows' = 0 PROVE LeaseInv' OBVIOUS
<1>1. CASE UNCHANGED <<at, sagas>> BY <1>1 DEF sagas, LeaseInv, Stage
<1>2. CASE \E a \in Callers : Request(a) BY <1>2, RequestLease
<1>3. CASE \E a \in Actors : Claim(a) BY <1>3, ClaimLease
<1>4. CASE \E a \in Actors : DispatchStep(a) BY <1>4, DispatchLease
<1>5. CASE \E a \in Actors : Abandon(a)
  <2>1. PICK a \in Actors : Abandon(a) BY <1>5
  <2>2. saga' = saga /\ queue' = queue /\ at' = [at EXCEPT ![a] = "idle"]
    BY <2>1 DEF Abandon, Goto, sagas
  <2>3. \A b \in Actors : at'[b] \in Dispatching => at'[b] = at[b]
    BY <2>2 DEF TypeOK, Dispatching
  <2> QED BY <2>2, <2>3 DEF LeaseInv, Stage
<1>6. CASE LeaseLapses
  <2>1. \A a \in Actors : at[a] \notin Dispatching
    BY <1>6 DEF LeaseLapses, Dispatchers, TypeOK
  <2> QED BY <1>6, <2>1 DEF LeaseLapses, LeaseInv
<1> QED
  BY <1>1, <1>2, <1>3, <1>4, <1>5, <1>6 DEF Next, Edit, Cancel, LateCreation, Decide, CourierStep,
     ClaimNotice, Deliver, DeliverUnanswered, MarkSent, MarkFailed, CourierStops, NoticeLapses,
     RequeueNotice, vars

LEMMA BudgetKept ==
  ASSUME TypeOK, BudgetInv, attempts' = attempts, saga' = saga,
         losses' \in Nat, crashes' \in Nat, losses' >= losses, crashes' >= crashes,
         \A a \in Actors : at[a] \in Spending => at'[a] \in Spending
  PROVE  BudgetInv'
<1>1. attempts \in Nat /\ losses \in Nat /\ crashes \in Nat /\ MaxAttempts \in Nat
  BY BoundsAssumption DEF TypeOK
<1>2. Limit \in Nat /\ Limit' \in Nat /\ Limit' >= Limit BY <1>1 DEF Limit
<1> QED BY <1>1, <1>2 DEF BudgetInv

\* An attempt lost to a crash or an unanswered call is added to the limit.
LEMMA BudgetRaised ==
  ASSUME TypeOK, BudgetInv, attempts' = attempts,
         \/ losses' = losses + 1 /\ crashes' = crashes
         \/ losses' = losses /\ crashes' = crashes + 1
  PROVE  BudgetInv'
<1>1. attempts \in Nat /\ losses \in Nat /\ crashes \in Nat /\ MaxAttempts \in Nat
  BY BoundsAssumption DEF TypeOK
<1>2. Limit \in Nat /\ Limit' = Limit + 1 BY <1>1 DEF Limit
<1> QED BY <1>1, <1>2 DEF BudgetInv

LEMMA RequestBudget ==
  ASSUME TypeOK, LeaseInv, BudgetInv, NEW a \in Callers, Request(a)
  PROVE  BudgetInv'
<1>1. UNCHANGED <<attempts, bounds>> /\ (saga' = saga \/ saga = "absent")
  BY DEF Request, Create, Resume, QuoteFails, Start, StartRefused, Activate, ClaimRefused, sagas
<1>2. at[a] \notin Spending
  BY DEF Request, Create, Resume, QuoteFails, Start, StartRefused, Activate, ClaimRefused, Spending
<1>3. \A b \in Actors : b # a => at'[b] = at[b]
  BY DEF Request, Create, Resume, QuoteFails, Start, StartRefused, Activate, ClaimRefused, Goto,
     TypeOK
<1>4. \A b \in Actors : at[b] \in Spending => at'[b] \in Spending BY <1>2, <1>3
<1>5. losses' = losses /\ crashes' = crashes BY <1>1 DEF bounds
<1>6. Limit' = Limit BY <1>5 DEF Limit
<1> QED BY <1>1, <1>4, <1>6 DEF BudgetInv, Settled

LEMMA ClaimBudget ==
  ASSUME TypeOK, LeaseInv, BudgetInv, NEW a \in Actors, Claim(a)
  PROVE  BudgetInv'
<1>1. \A b \in Actors : at[b] \notin Dispatching BY DEF Claim, Claimable, LeaseInv
<1>2. attempts < Limit BY <1>1 DEF Claim, Unsettled, BudgetInv, Spending, Dispatching
<1>3. attempts' = attempts + 1 /\ Limit' = Limit BY DEF Claim, bounds, Limit
<1>4. at'[a] \in Spending BY DEF Claim, Goto, TypeOK, Spending
<1>5. Limit \in Nat BY BoundsAssumption DEF TypeOK, Limit
<1> QED BY <1>2, <1>3, <1>4, <1>5 DEF BudgetInv, TypeOK

LEMMA DispatchBudget ==
  ASSUME TypeOK, LeaseInv, BudgetInv, NEW a \in Actors, DispatchStep(a)
  PROVE  BudgetInv'
<1>1. CASE CreateUnanswered(a)
  BY <1>1, BudgetRaised DEF CreateUnanswered, sagas, TypeOK
<1>2. CASE Fail(a)
  <2>1. Limit' = Limit /\ attempts' = attempts /\ attempts <= Limit
    BY <1>2 DEF Fail, bounds, Limit, BudgetInv
  <2>2. CASE Exhausted BY <1>2, <2>1, <2>2 DEF Fail, BudgetInv, Settled
  <2>3. CASE ~Exhausted
    <3>1. attempts < Limit BY <2>3, BoundsAssumption DEF Exhausted, TypeOK, Limit
    <3> QED BY <2>1, <3>1 DEF BudgetInv
  <2> QED BY <2>2, <2>3
<1>3. CASE MarkComplete(a)
  <2>1. saga = "remote_confirmed" BY <1>3 DEF MarkComplete, LeaseInv, Stage, Dispatching
  <2>2. saga' = "completed" BY <1>3, <2>1 DEF MarkComplete, Completable
  <2> QED BY <1>3, <2>2 DEF MarkComplete, BudgetInv, Settled, Limit, bounds
<1>4. CASE FinishDispatch(a)
  <2>1. \A b \in Actors : at[b] \in Spending => at'[b] \in Spending
    BY <1>4 DEF FinishDispatch, Goto, TypeOK, Spending
  <2> QED BY <1>4, <2>1, BudgetKept DEF FinishDispatch, bounds, TypeOK
<1>5. CASE ScheduleRetry(a)
  <2>1. \A b \in Actors : at[b] \notin Spending
    BY <1>5 DEF ScheduleRetry, LeaseInv, Dispatching, Spending
  <2>2. saga \notin Settled
    BY <1>5 DEF ScheduleRetry, LeaseInv, Stage, Dispatching, Remote, Settled
  <2> QED BY <1>5, <2>1, <2>2 DEF ScheduleRetry, BudgetInv, Limit, bounds
<1>6. CASE MarkRemote(a) \/ MarkPending(a)
  <2>1. saga \notin Settled
    BY <1>6 DEF MarkRemote, MarkPending, LeaseInv, Stage, Dispatching, Remote, Settled
  <2>2. at'[a] \in Spending BY <1>6 DEF MarkRemote, MarkPending, Goto, TypeOK, Spending
  <2>3. attempts' = attempts /\ Limit' = Limit
    BY <1>6 DEF MarkRemote, MarkPending, bounds, Limit
  <2> QED BY <2>2, <2>3 DEF BudgetInv
<1>7. CASE ReadKnown(a) \/ CreateSession(a) \/ CreateRefused(a) \/ ReadBack(a) \/ Attach(a)
           \/ AttachRefused(a)
  <2>1. at'[a] \in Spending
    BY <1>7 DEF ReadKnown, CreateSession, CreateRefused, ReadBack, Attach, AttachRefused, Refusal,
       Goto, TypeOK, Spending
  <2>2. attempts' = attempts /\ Limit' = Limit
    BY <1>7 DEF ReadKnown, CreateSession, CreateRefused, ReadBack, Attach, AttachRefused, sagas,
       bounds, Limit
  <2> QED BY <2>1, <2>2 DEF BudgetInv
<1> QED BY <1>1, <1>2, <1>3, <1>4, <1>5, <1>6, <1>7 DEF DispatchStep

LEMMA NextBudget ==
  TypeOK /\ LeaseInv /\ BudgetInv /\ [Next]_vars /\ slows' = 0 => BudgetInv'
<1> SUFFICES ASSUME TypeOK, LeaseInv, BudgetInv, [Next]_vars, slows' = 0 PROVE BudgetInv'
  OBVIOUS
<1>1. CASE UNCHANGED <<at, saga, attempts, losses, crashes>>
  BY <1>1 DEF BudgetInv, Limit
<1>2. CASE \E a \in Callers : Request(a) BY <1>2, RequestBudget
<1>3. CASE \E a \in Actors : Claim(a) BY <1>3, ClaimBudget
<1>4. CASE \E a \in Actors : DispatchStep(a) BY <1>4, DispatchBudget
<1>5. CASE \E a \in Actors : Abandon(a)
  BY <1>5, BudgetRaised DEF Abandon, sagas, TypeOK
<1>6. CASE \E c \in Couriers : CourierStops(c)
  BY <1>6, BudgetRaised DEF CourierStops, sagas, TypeOK
<1> QED
  BY <1>1, <1>2, <1>3, <1>4, <1>5, <1>6 DEF Next, Edit, Cancel, LeaseLapses, LateCreation, Decide,
     CourierStep, ClaimNotice, Deliver, DeliverUnanswered, MarkSent, MarkFailed, NoticeLapses,
     RequeueNotice, vars, sagas, bounds

LeaseKept == slows = 0 => LeaseInv /\ BudgetInv

LEMMA NextLeaseKept == TypeOK /\ LeaseKept /\ [Next]_vars => LeaseKept'
<1> SUFFICES ASSUME TypeOK, LeaseKept, [Next]_vars, slows' = 0 PROVE (LeaseInv /\ BudgetInv)'
  BY DEF LeaseKept
<1>1. slows \in Nat BY DEF TypeOK
<1>2. slows' = slows \/ slows' = slows + 1
  <2>1. CASE \E a \in Callers : Request(a)
    BY <2>1 DEF Request, Create, Resume, QuoteFails, Start, StartRefused, Activate, ClaimRefused,
       bounds
  <2>2. CASE \E a \in Actors : Claim(a) \/ DispatchStep(a) \/ Abandon(a)
    BY <2>2 DEF Claim, DispatchStep, ReadKnown, CreateSession, CreateUnanswered, CreateRefused,
       ReadBack, MarkRemote, Attach, AttachRefused, MarkPending, MarkComplete, ScheduleRetry,
       Fail, FinishDispatch, Abandon, bounds
  <2>3. CASE \E c \in Couriers : CourierStep(c) \/ CourierStops(c)
    BY <2>3 DEF CourierStep, ClaimNotice, Deliver, DeliverUnanswered, MarkSent, MarkFailed,
       CourierStops, bounds
  <2> QED
    BY <2>1, <2>2, <2>3 DEF Next, Edit, Cancel, LeaseLapses, LateCreation, Decide, NoticeLapses,
       RequeueNotice, vars, bounds
<1>3. slows = 0 BY <1>1, <1>2
<1> QED BY <1>3, NextLease, NextBudget DEF LeaseKept

\* While no lease lapses under its holder, one dispatch at a time holds the saga, and
\* only attempts that went unanswered or unreported exceed its budget.
THEOREM Lease == Spec => [](OneDispatch /\ BudgetRespected)
<1>1. TypeOK /\ LeaseKept /\ [Next]_vars => (TypeOK /\ LeaseKept)' BY NextType, NextLeaseKept
<1>2. TypeOK /\ LeaseKept => OneDispatch /\ BudgetRespected
  BY DEF LeaseKept, LeaseInv, BudgetInv, Limit, OneDispatch, BudgetRespected, Dispatchers
<1>3. Init => LeaseKept BY InitLease DEF LeaseKept
<1> QED BY <1>1, <1>2, <1>3, InitType, PTL DEF Spec

\* A saga is never attempted past its budget while no lease lapses under its holder,
\* but for attempts that went unanswered or unreported (fail and its retry_count).
THEOREM Budget == Spec => []BudgetRespected
<1> QED BY Lease, PTL

LEMMA SettledStep ==
  TypeOK /\ LeaseKept /\ [Next]_vars => [slows = 0 /\ saga \in Settled => saga' = saga]_vars
<1> SUFFICES ASSUME LeaseKept, [Next]_vars, slows = 0, saga \in Settled PROVE saga' = saga
  OBVIOUS
<1>1. LeaseInv BY DEF LeaseKept
<1>2. CASE \E a \in Callers : Request(a)
  BY <1>2 DEF Request, Create, Resume, QuoteFails, Start, StartRefused, Activate, ClaimRefused,
     sagas, Settled
<1>3. CASE \E a \in Actors : Claim(a) BY <1>3 DEF Claim, Unsettled
<1>4. CASE \E a \in Actors : DispatchStep(a)
  <2>1. PICK a \in Actors : DispatchStep(a) BY <1>4
  <2>2. CASE MarkRemote(a) \/ MarkPending(a) \/ MarkComplete(a) \/ ScheduleRetry(a) \/ Fail(a)
    BY <1>1, <2>2 DEF MarkRemote, MarkPending, MarkComplete, ScheduleRetry, Fail, LeaseInv,
       Stage, Remote, Settled, Dispatching
  <2> QED
    BY <2>1, <2>2 DEF DispatchStep, ReadKnown, CreateSession, CreateUnanswered, CreateRefused,
       ReadBack, Attach, AttachRefused, FinishDispatch, sagas
<1> QED
  BY <1>2, <1>3, <1>4 DEF Next, Abandon, Edit, Cancel, LeaseLapses, LateCreation, Decide,
     CourierStep, ClaimNotice, Deliver, DeliverUnanswered, MarkSent, MarkFailed, CourierStops,
     NoticeLapses, RequeueNotice, vars, sagas

\* A settled saga is never dispatched again: neither the crash between the two writes
\* that settle it nor a replayed request reopens it.
THEOREM SettledFinal == Spec => SettledIsFinal
<1>1. TypeOK /\ LeaseKept /\ [Next]_vars => (TypeOK /\ LeaseKept)' BY NextType, NextLeaseKept
<1>2. Init => LeaseKept BY InitLease DEF LeaseKept
<1> QED BY <1>1, <1>2, InitType, SettledStep, PTL DEF Spec, SettledIsFinal

=============================================================================
