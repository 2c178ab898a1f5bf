-------------------- MODULE CheckoutFinanceOutboxProofs --------------------
(***************************************************************************)
(* Proofs about CheckoutFinanceOutbox for every number of sessions, rows,  *)
(* workers, tokens, attempts and faults.                                   *)
(*                                                                         *)
(* Type correctness comes first. The fencing invariant FencingInv then     *)
(* says what a lease token identifies; the attempt budgets and the         *)
(* finality of a sent row rest on it.  Last comes the agreement of a sent  *)
(* row with WLT: a closure is sent after the session was closed.           *)
(***************************************************************************)
EXTENDS CheckoutFinanceOutbox, TLAPS

-----------------------------------------------------------------------------
(* Type correctness.                                                       *)

\* A row that gives up its lease, and the row of a leased event, are rows.
LEMMA UnleasedType ==
  ASSUME TypeOK, NEW e \in Events
  PROVE  Unleased(e) \in Row
BY DEF TypeOK, Unleased, Row

LEMMA LeasedType ==
  ASSUME TypeOK, NEW e \in Events, NEW t \in Tokens
  PROVE  Leased(e, t) \in Row
BY DEF TypeOK, Leased, Row, RowStatus

LEMMA JobForType ==
  ASSUME TypeOK, NEW e \in Events, NEW t \in Tokens, Claimable(e)
  PROVE  JobFor(e, t) \in Job
<1>1. row[e] \in Row
  BY DEF TypeOK
<1>2. row[e].status \in {"pending", "processing", "unknown"}
  BY DEF Claimable
<1> QED
  BY <1>1, <1>2 DEF JobFor, Job, Row

\* Moving a job to another stage leaves a job.
LEMMA StageType ==
  ASSUME NEW j \in Job, NEW stage \in {"claimed", "confirm"} \cup Outcomes
  PROVE  [j EXCEPT !.stage = stage] \in Job
BY DEF Job

LEMMA EventParts ==
  ASSUME NEW e \in Events
  PROVE  SessionOf(e) \in Sessions /\ TypeOf(e) \in EventTypes
BY DEF Events, SessionOf, TypeOf

\* Every answer and every readback is an outcome a job may carry.
LEMMA AnswerType ==
  ASSUME NEW e \in Events
  PROVE  /\ MutationAnswer(e) \in {"confirm"} \cup Outcomes
         /\ ReadAnswer(e) \in Outcomes
BY DEF MutationAnswer, CancelAnswer, ReleaseAnswer, ReadAnswer, ReservationRead, SettledAnswer,
       Outcomes, Actions

\* Executing a mutation keeps WLT's records well typed.
LEMMA MutateType ==
  ASSUME TypeOK, NEW e \in Events, Mutate(e)
  PROVE  /\ session' \in [Sessions -> SessionStatus]
         /\ refund' \subseteq Sessions
         /\ reservation' \in [Sessions -> ReservationStatus]
<1>1. SessionOf(e) \in Sessions
  BY EventParts
<1>2. session' \in [Sessions -> SessionStatus]
  BY <1>1 DEF TypeOK, Mutate, Expired, SessionStatus, OnlineStatus
<1>3. refund' \subseteq Sessions
  BY <1>1 DEF TypeOK, Mutate
<1>4. reservation' \in [Sessions -> ReservationStatus]
  BY <1>1 DEF TypeOK, Mutate, ReservationStatus
<1> QED
  BY <1>2, <1>3, <1>4

\* Moving one job of one worker keeps the jobs well typed.
LEMMA AdvanceType ==
  ASSUME TypeOK, NEW w \in Workers, NEW j \in work[w],
         NEW stage \in {"claimed", "confirm"} \cup Outcomes,
         Advance(w, j, stage)
  PROVE  work' \in [Workers -> SUBSET Job]
<1>1. j \in Job
  BY DEF TypeOK
<1>2. [j EXCEPT !.stage = stage] \in Job
  BY <1>1, StageType
<1> QED
  BY <1>2 DEF TypeOK, Advance

\* A fenced transaction writes a row and a closure status or nothing at all.
LEMMA RecordType ==
  ASSUME TypeOK, NEW w \in Workers, NEW j \in work[w],
         NEW new \in Row, NEW projected \in ClosureStatus,
         Record(w, j, new, projected)
  PROVE  TypeOK'
<1>1. j \in Job /\ j.ev \in Events
  BY DEF TypeOK, Job
<1>2. SessionOf(j.ev) \in Sessions
  BY <1>1, EventParts
<1>3. work' \in [Workers -> SUBSET Job]
  BY DEF TypeOK, Record
<1>4. row' \in [Events -> Row]
  BY <1>1 DEF TypeOK, Record
<1>5. closure' \in [Sessions -> ClosureStatus]
  BY <1>2 DEF TypeOK, Record
<1> QED
  BY <1>3, <1>4, <1>5 DEF TypeOK, Record, wlt, bounds

\* The five fenced transactions write well-typed rows and closure statuses.
LEMMA RecordActionsType ==
  ASSUME TypeOK, NEW w \in Workers, NEW j \in work[w],
         \/ MarkSent(w, j) \/ MarkDeliveryFailure(w, j) \/ MarkOutcomeUnknown(w, j)
         \/ MarkReadbackAbsent(w, j) \/ MarkInvalidOperatorContext(w, j)
  PROVE  TypeOK'
<1> DEFINE e == j.ev
<1>1. j \in Job /\ e \in Events /\ j.attempt \in Nat /\ j.readback \in Nat
  BY DEF TypeOK, Job
<1>2. Unleased(e) \in Row
  BY <1>1, UnleasedType
<1>3. closure[SessionOf(e)] \in ClosureStatus
  BY <1>1, EventParts DEF TypeOK
<1>4. FailedProjection(e) \in ClosureStatus
  BY <1>3 DEF FailedProjection, ClosureStatus
<1>5. \A n \in Nat, d \in Dispositions : GivenUp(e, n, d) \in Row
  BY <1>2 DEF GivenUp, Row, RowStatus
<1>6. \A n \in Nat : Rescheduled(e, n) \in Row
  BY <1>2 DEF Rescheduled, Row, RowStatus, Dispositions
<1>7. row[e].attempt \in Nat
  BY <1>1 DEF TypeOK, Row
<1>8. ASSUME DeliveryFailure(w, j) PROVE TypeOK'
  <2>1. GivenUp(e, j.attempt + 1, "manual_retry_required") \in Row
    BY <1>1, <1>5 DEF Dispositions
  <2>2. Rescheduled(e, j.attempt + 1) \in Row
    BY <1>1, <1>6
  <2> QED
    BY <1>3, <1>4, <1>8, <2>1, <2>2, RecordType DEF DeliveryFailure
<1>9. CASE MarkSent(w, j)
  <2>1. Sent(e, j.stage) \in Row
    BY <1>2, <1>9 DEF MarkSent, Sent, Row, RowStatus, Dispositions
  <2>2. (IF ShownOnOrder(e, j.stage) THEN Projection(j.stage) ELSE closure[SessionOf(e)])
          \in ClosureStatus
    BY <1>3 DEF Projection, ClosureStatus
  <2> QED
    BY <1>9, <2>1, <2>2, RecordType DEF MarkSent
<1>10. CASE MarkDeliveryFailure(w, j)
  BY <1>8, <1>10 DEF MarkDeliveryFailure
<1>11. CASE MarkOutcomeUnknown(w, j)
  <2>1. AfterUnknown(j) \in RowStatus
    BY DEF AfterUnknown, RowStatus
  <2>2. AttemptsAfter(j) \in Nat
    BY <1>1 DEF AttemptsAfter
  <2>3. j.readback + 1 \in Nat
    BY <1>1
  <2>4. \A st \in RowStatus, m, n \in Nat :
          [Unleased(e) EXCEPT !.status = st, !.attempt = m, !.readback = n,
             !.disposition = "reconciliation_required"] \in Row
    BY <1>2 DEF Row, Dispositions
  <2>5. OutcomeUnknown(e, j) \in Row
    BY <2>1, <2>2, <2>3, <2>4 DEF OutcomeUnknown
  <2> QED
    BY <1>3, <1>11, <2>5, RecordType DEF MarkOutcomeUnknown
<1>12. CASE MarkReadbackAbsent(w, j)
  BY <1>3, <1>6, <1>7, <1>8, <1>12, RecordType DEF MarkReadbackAbsent
<1>13. CASE MarkInvalidOperatorContext(w, j)
  <2>1. GivenUp(e, row[e].attempt, "invalid_operator_context") \in Row
    BY <1>5, <1>7 DEF Dispositions
  <2> QED
    BY <1>4, <1>13, <2>1, RecordType DEF MarkInvalidOperatorContext
<1> QED
  BY <1>9, <1>10, <1>11, <1>12, <1>13

LEMMA EnqueueType ==
  ASSUME TypeOK, NEW e \in Events, Enqueue(e)
  PROVE  row' \in [Events -> Row]
BY DEF TypeOK, Enqueue, Row, RowStatus

LEMMA ClaimType ==
  ASSUME TypeOK, NEW w \in Workers, Claim(w)
  PROVE  TypeOK'
<1>1. PICK due \in SUBSET {e \in Events : Claimable(e)} :
        \E lease \in FreshLeases(due) :
          /\ work' = [work EXCEPT ![w] = {JobFor(e, lease[e]) : e \in due}]
          /\ row' = [e \in Events |->
                       IF e \in due THEN Leased(e, lease[e]) ELSE row[e]]
  BY DEF Claim
<1>0. PICK lease \in FreshLeases(due) :
        /\ work' = [work EXCEPT ![w] = {JobFor(e, lease[e]) : e \in due}]
        /\ row' = [e \in Events |->
                     IF e \in due THEN Leased(e, lease[e]) ELSE row[e]]
  BY <1>1
<1>2. \A e \in due : e \in Events /\ Claimable(e) /\ lease[e] \in Tokens
  BY DEF FreshLeases
<1>3. {JobFor(e, lease[e]) : e \in due} \subseteq Job
  BY <1>2, JobForType
<1>4. work' \in [Workers -> SUBSET Job]
  BY <1>0, <1>3 DEF TypeOK
<1>5. row' \in [Events -> Row]
  BY <1>0, <1>2, LeasedType DEF TypeOK
<1> QED
  BY <1>4, <1>5 DEF Claim, TypeOK, wlt, bounds

LEMMA InitType == Init => TypeOK
BY SessionsAssumption, BudgetAssumption, TokenAssumption
   DEF Init, TypeOK, NoRow, Row, RowStatus, Dispositions, Job, SessionStatus,
       OnlineStatus, CodStatus, ReservationStatus, Journeys, ClosureStatus

\* Every action keeps the type invariant.
LEMMA NextType == TypeOK /\ [Next]_vars => TypeOK'
<1> SUFFICES ASSUME TypeOK, [Next]_vars PROVE TypeOK'
  OBVIOUS
<1>1. ASSUME NEW s \in Sessions, Journey(s) PROVE TypeOK'
  <2>1. \A type \in EventTypes : <<s, type>> \in Events
    BY DEF Events
  <2>2. CASE AbandonCheckout(s)
    <3>1. row' \in [Events -> Row]
      BY <2>1, <2>2, EnqueueType DEF AbandonCheckout, EventTypes
    <3> QED
      BY <2>2, <3>1 DEF AbandonCheckout, TypeOK, wlt, bounds, Journeys
  <2>3. CASE CreateOrder(s)
    BY <2>3 DEF CreateOrder, TypeOK, wlt, bounds, Journeys
  <2>4. CASE EnqueueRelease(s)
    <3>1. row' \in [Events -> Row]
      BY <2>1, <2>4, EnqueueType DEF EnqueueRelease, EventTypes
    <3> QED
      BY <2>4, <3>1 DEF EnqueueRelease, TypeOK, wlt, bounds
  <2>5. CASE CancelOrder(s)
    <3>1. row' \in [Events -> Row]
      BY <2>1, <2>5, EnqueueType DEF CancelOrder, EventTypes
    <3> QED
      BY <2>5, <3>1 DEF CancelOrder, TypeOK, wlt, bounds, Journeys
  <2>6. CASE DeliverOrder(s)
    BY <2>6 DEF DeliverOrder, TypeOK, wlt, bounds, Journeys
  <2>7. CASE ReserveCod(s)
    BY <2>7 DEF ReserveCod, TypeOK, bounds, ReservationStatus
  <2>8. CASE FinalizeCod(s)
    BY <2>8 DEF FinalizeCod, TypeOK, bounds, ReservationStatus, SessionStatus, CodStatus
  <2>9. CASE SessionProgress(s)
    BY <2>9 DEF SessionProgress, TypeOK, bounds, SessionStatus
  <2> QED
    BY <1>1, <2>2, <2>3, <2>4, <2>5, <2>6, <2>7, <2>8, <2>9 DEF Journey
<1>2. ASSUME NEW w \in Workers, Claim(w) PROVE TypeOK'
  BY <1>2, ClaimType
<1>3. ASSUME NEW w \in Workers, Process(w) PROVE TypeOK'
  <2>1. PICK j \in work[w] :
          \/ Dispatch(w, j) \/ ConfirmExpiry(w, j) \/ Reconcile(w, j)
          \/ MarkSent(w, j) \/ MarkDeliveryFailure(w, j) \/ MarkOutcomeUnknown(w, j)
          \/ MarkReadbackAbsent(w, j) \/ MarkInvalidOperatorContext(w, j)
    BY <1>3 DEF Process
  <2>2. j.ev \in Events
    BY DEF TypeOK, Job
  <2>3. {"confirm", "rejected", "unknown"} \cup Outcomes
          \subseteq {"claimed", "confirm"} \cup Outcomes
    BY DEF Outcomes
  <2>4. CASE Dispatch(w, j)
    <3>1. work' \in [Workers -> SUBSET Job]
      BY <2>2, <2>3, <2>4, AnswerType, AdvanceType DEF Dispatch
    <3>2. CASE Mutate(j.ev) /\ UNCHANGED late
      BY <2>2, <2>4, <3>1, <3>2, MutateType DEF Dispatch, TypeOK, bounds
    <3>3. CASE UNCHANGED wlt /\ late' \subseteq late \cup {j.ev}
      BY <2>2, <2>4, <3>1, <3>3 DEF Dispatch, TypeOK, wlt, bounds
    <3> QED
      BY <2>4, <3>2, <3>3 DEF Dispatch
  <2>5. CASE ConfirmExpiry(w, j)
    <3>1. work' \in [Workers -> SUBSET Job]
      BY <2>2, <2>3, <2>5, AnswerType, AdvanceType DEF ConfirmExpiry
    <3> QED
      BY <2>5, <3>1 DEF ConfirmExpiry, TypeOK, wlt, bounds
  <2>6. CASE Reconcile(w, j)
    <3>1. work' \in [Workers -> SUBSET Job]
      BY <2>2, <2>3, <2>6, AnswerType, AdvanceType DEF Reconcile
    <3> QED
      BY <2>6, <3>1 DEF Reconcile, TypeOK, wlt, bounds
  <2> QED
    BY <2>1, <2>4, <2>5, <2>6, RecordActionsType
<1>4. ASSUME NEW w \in Workers, Crash(w) PROVE TypeOK'
  BY <1>4 DEF Crash, TypeOK, wlt
<1>5. ASSUME NEW w \in Workers, NEW j \in work[w], LoseMark(w, j) PROVE TypeOK'
  BY <1>5 DEF LoseMark, TypeOK, wlt
<1>6. ASSUME NEW e \in Events, LateMutation(e) PROVE TypeOK'
  BY <1>6, MutateType DEF LateMutation, TypeOK, bounds
<1>7. ASSUME NEW e \in Events, LostMutation(e) PROVE TypeOK'
  BY <1>7 DEF LostMutation, TypeOK, wlt, bounds
<1>8. ASSUME NEW e \in Events, LeaseLapse(e), faults' \in Nat PROVE TypeOK'
  <2>1. row' \in [Events -> Row]
    BY <1>8 DEF LeaseLapse, TypeOK, Row
  <2> QED
    BY <1>8, <2>1 DEF LeaseLapse, TypeOK, wlt
<1>9. ASSUME NEW e \in Events, LapseHeld(e) \/ LapseOrphaned(e) PROVE TypeOK'
  BY <1>8, <1>9 DEF LapseHeld, LapseOrphaned, TypeOK
<1>10. ASSUME NEW e \in Events, RetryFailed(e) PROVE TypeOK'
  <2>1. row' \in [Events -> Row]
    BY <1>10 DEF RetryFailed, TypeOK, NoRow, Row, RowStatus, Dispositions
  <2>2. closure' \in [Sessions -> ClosureStatus]
    BY <1>10, EventParts DEF RetryFailed, TypeOK, ClosureStatus
  <2> QED
    BY <1>10, <2>1, <2>2 DEF RetryFailed, TypeOK, wlt
<1>11. ASSUME NEW e \in Events, RequeueForReconciliation(e) PROVE TypeOK'
  <2>1. [Unleased(e) EXCEPT !.status = "unknown", !.readback = 0] \in Row
    BY UnleasedType DEF Row, RowStatus
  <2>2. row' \in [Events -> Row]
    BY <1>11, <2>1 DEF RequeueForReconciliation, TypeOK
  <2> QED
    BY <1>11, <2>2 DEF RequeueForReconciliation, TypeOK, wlt
<1>12. CASE UNCHANGED vars
  BY <1>12 DEF vars, TypeOK, wlt, bounds
<1> QED
  BY <1>1, <1>2, <1>3, <1>4, <1>5, <1>6, <1>7, <1>9, <1>10, <1>11, <1>12 DEF Next

\* The outbox, its workers and WLT stay well typed: rows keep a known status and
\* natural counters, jobs a known stage, sessions a known WLT status.
THEOREM TypeCorrect == Spec => []TypeOK
<1>1. Init => TypeOK
  BY InitType
<1>2. TypeOK /\ [Next]_vars => TypeOK'
  BY NextType
<1> QED
  BY <1>1, <1>2, PTL DEF Spec

-----------------------------------------------------------------------------
(* The fencing invariant: what a lease token identifies, the retry budgets *)
(* that the snapshot in a leased job decides, and blank rows.              *)

FencingInv == TypeOK /\ LeaseExclusive /\ BudgetLeft /\ BlankRow

\* A change of row e that the fencing invariant survives, whoever makes it: the
\* lease is given up or kept with its counters, and the budgets hold.
SafeChange(e) ==
  /\ \/ row'[e].token = NoToken
     \/ /\ row'[e].token = row[e].token
        /\ row'[e].attempt = row[e].attempt /\ row'[e].readback = row[e].readback
  /\ row'[e].status = "pending" => row'[e].attempt < MaxDeliveryAttempts
  /\ row'[e].status = "unknown" => row'[e].readback < MaxReadbackAttempts
  /\ row'[e].status # "absent"

\* A job's token is a real one.
LEMMA JobToken ==
  ASSUME TypeOK, NEW w \in Workers, NEW j \in work[w]
  PROVE  j \in Job /\ j.ev \in Events /\ j.token \in Tokens /\ j.token # NoToken
BY TokenAssumption DEF TypeOK, Job

\* A step that leases nothing keeps the invariant if its row changes are safe.
LEMMA QuietStep ==
  ASSUME FencingInv, TypeOK',
         \A w \in Workers : work'[w] \subseteq work[w],
         \A e \in Events : row'[e] = row[e] \/ SafeChange(e)
  PROVE  FencingInv'
<1>1. LeaseExclusive'
  <2>1. ASSUME NEW v \in Workers, NEW w \in Workers,
               NEW i \in work'[v], NEW j \in work'[w], i.token = j.token
        PROVE  v = w /\ i = j
    BY <2>1 DEF FencingInv, LeaseExclusive
  <2>2. ASSUME NEW e \in Events, NEW w \in Workers, NEW j \in work'[w],
               row'[e].token = j.token
        PROVE  j.ev = e /\ j.attempt = row'[e].attempt /\ j.readback = row'[e].readback
    <3>1. j \in work[w]
      OBVIOUS
    <3>2. j.token # NoToken
      BY <3>1, JobToken DEF FencingInv
    <3> QED
      BY <2>2, <3>1, <3>2 DEF FencingInv, LeaseExclusive, SafeChange
  <2> QED
    BY <2>1, <2>2 DEF LeaseExclusive
<1>2. BudgetLeft'
  BY DEF FencingInv, BudgetLeft, SafeChange
<1>3. BlankRow'
  BY DEF FencingInv, BlankRow, SafeChange
<1> QED
  BY <1>1, <1>2, <1>3 DEF FencingInv

\* A step that only answers a job keeps it: the job keeps its token.
LEMMA AdvanceFencing ==
  ASSUME FencingInv, TypeOK', row' = row,
         NEW w \in Workers, NEW j \in work[w], NEW stage, Advance(w, j, stage)
  PROVE  FencingInv'
<1> DEFINE moved == [j EXCEPT !.stage = stage]
<1>1. /\ moved.token = j.token /\ moved.ev = j.ev
      /\ moved.attempt = j.attempt /\ moved.readback = j.readback
  BY JobToken DEF FencingInv, Job
<1> HIDE DEF moved
<1>2. \A v \in Workers : work'[v] = IF v = w THEN (work[w] \ {j}) \cup {moved} ELSE work[v]
  BY DEF FencingInv, TypeOK, Advance, moved
<1>3. \A v \in Workers : \A k \in work'[v] :
        (k = moved /\ v = w) \/ (k \in work[v] /\ ~(v = w /\ k = j))
  BY <1>2
<1>4. ASSUME NEW u \in Workers, NEW v \in Workers, NEW i \in work'[u], NEW k \in work'[v],
             i.token = k.token
      PROVE  u = v /\ i = k
  <2>1. CASE i = moved /\ u = w
    BY <1>1, <1>3, <1>4, <2>1 DEF FencingInv, LeaseExclusive
  <2>2. CASE k = moved /\ v = w
    BY <1>1, <1>3, <1>4, <2>2 DEF FencingInv, LeaseExclusive
  <2>3. CASE i \in work[u] /\ k \in work[v]
    BY <1>4, <2>3 DEF FencingInv, LeaseExclusive
  <2> QED
    BY <1>3, <2>1, <2>2, <2>3
<1>5. ASSUME NEW e \in Events, NEW v \in Workers, NEW k \in work'[v],
             row'[e].token = k.token
      PROVE  k.ev = e /\ k.attempt = row'[e].attempt /\ k.readback = row'[e].readback
  <2>1. CASE k = moved /\ v = w
    BY <1>1, <1>5, <2>1 DEF FencingInv, LeaseExclusive
  <2>2. CASE k \in work[v]
    BY <1>5, <2>2 DEF FencingInv, LeaseExclusive
  <2> QED
    BY <1>3, <2>1, <2>2
<1>6. LeaseExclusive'
  BY <1>4, <1>5 DEF LeaseExclusive
<1> QED
  BY <1>6 DEF FencingInv, BudgetLeft, BlankRow

\* The leases of a claim: distinct fresh tokens for the rows it takes.
LEMMA ClaimShape ==
  ASSUME TypeOK, NEW w \in Workers, Claim(w)
  PROVE  \E due \in SUBSET Events : \E lease \in FreshLeases(due) :
           /\ work[w] = {}
           /\ \A e \in due : Claimable(e)
           /\ work' = [work EXCEPT ![w] = {JobFor(e, lease[e]) : e \in due}]
           /\ row' = [e \in Events |->
                        IF e \in due THEN Leased(e, lease[e]) ELSE row[e]]
BY DEF Claim

\* Claiming keeps the invariant: a fresh token is carried by no row and no job.
LEMMA ClaimFencing ==
  ASSUME FencingInv, TypeOK', NEW w \in Workers, Claim(w)
  PROVE  FencingInv'
<1>1. PICK due \in SUBSET Events :
        \E lease \in FreshLeases(due) :
           /\ work[w] = {}
           /\ \A e \in due : Claimable(e)
           /\ work' = [work EXCEPT ![w] = {JobFor(e, lease[e]) : e \in due}]
           /\ row' = [e \in Events |->
                        IF e \in due THEN Leased(e, lease[e]) ELSE row[e]]
  BY ClaimShape DEF FencingInv
<1>2. PICK lease \in FreshLeases(due) :
           /\ work[w] = {}
           /\ \A e \in due : Claimable(e)
           /\ work' = [work EXCEPT ![w] = {JobFor(e, lease[e]) : e \in due}]
           /\ row' = [e \in Events |->
                        IF e \in due THEN Leased(e, lease[e]) ELSE row[e]]
  BY <1>1
<1>3. \A e \in due : lease[e] \in Tokens /\ lease[e] \notin InUse
  BY DEF FreshLeases
<1>4. \A d, e \in due : lease[d] = lease[e] => d = e
  BY DEF FreshLeases
<1>5. \A e \in Events : row[e].token \in InUse
  BY DEF InUse
<1>6. \A v \in Workers : \A k \in work[v] : k.token \in InUse
  BY DEF InUse
<1>7. \A v \in Workers : \A k \in work'[v] :
        \/ v = w /\ \E e \in due : k = JobFor(e, lease[e])
        \/ v # w /\ k \in work[v]
  BY <1>2 DEF FencingInv, TypeOK
<1>8. \A e \in Events : row'[e] = IF e \in due THEN Leased(e, lease[e]) ELSE row[e]
  BY <1>2
<1>9. \A e \in due : /\ JobFor(e, lease[e]).token = lease[e] /\ JobFor(e, lease[e]).ev = e
                     /\ JobFor(e, lease[e]).attempt = row[e].attempt
                     /\ JobFor(e, lease[e]).readback = row[e].readback
  BY DEF JobFor
<1>10. \A e \in due : /\ Leased(e, lease[e]).token = lease[e]
                      /\ Leased(e, lease[e]).status = "processing"
                      /\ Leased(e, lease[e]).attempt = row[e].attempt
                      /\ Leased(e, lease[e]).readback = row[e].readback
  <2>1. \A e \in Events : row[e] \in Row
    BY DEF FencingInv, TypeOK
  <2> QED
    BY <2>1 DEF Leased, Row
<1>11. ASSUME NEW u \in Workers, NEW v \in Workers, NEW i \in work'[u], NEW k \in work'[v],
              i.token = k.token
       PROVE  u = v /\ i = k
  <2>1. CASE i \in work[u] /\ k \in work[v] /\ u # w /\ v # w
    BY <1>11, <2>1 DEF FencingInv, LeaseExclusive
  <2>2. CASE u = w /\ v # w
    BY <1>3, <1>6, <1>7, <1>9, <1>11, <2>2
  <2>3. CASE u # w /\ v = w
    BY <1>3, <1>6, <1>7, <1>9, <1>11, <2>3
  <2>4. CASE u = w /\ v = w
    BY <1>4, <1>7, <1>9, <1>11, <2>4
  <2> QED
    BY <1>7, <2>1, <2>2, <2>3, <2>4
<1>12. ASSUME NEW e \in Events, NEW v \in Workers, NEW k \in work'[v],
              row'[e].token = k.token
       PROVE  k.ev = e /\ k.attempt = row'[e].attempt /\ k.readback = row'[e].readback
  <2>1. CASE e \in due /\ v = w
    BY <1>4, <1>7, <1>8, <1>9, <1>10, <1>12, <2>1
  <2>2. CASE e \in due /\ v # w
    BY <1>3, <1>6, <1>7, <1>8, <1>10, <1>12, <2>2
  <2>3. CASE e \notin due /\ v = w
    BY <1>3, <1>5, <1>7, <1>8, <1>9, <1>12, <2>3
  <2>4. CASE e \notin due /\ v # w
    BY <1>7, <1>8, <1>12, <2>4 DEF FencingInv, LeaseExclusive
  <2> QED
    BY <2>1, <2>2, <2>3, <2>4
<1>13. LeaseExclusive'
  BY <1>11, <1>12 DEF LeaseExclusive
<1>14. BudgetLeft'
  BY <1>8, <1>10 DEF FencingInv, BudgetLeft
<1>15. BlankRow'
  BY <1>8, <1>10 DEF FencingInv, BlankRow
<1> QED
  BY <1>13, <1>14, <1>15 DEF FencingInv

\* What every recording transaction writes: an unleased row that is sent only with
\* the worker's answer and waits only while its budget lasts. The budget of an
\* absent readback is the row's own, which the snapshot of the holder equals.
LEMMA RecordShape ==
  ASSUME FencingInv, NEW w \in Workers, NEW j \in work[w],
         \/ MarkSent(w, j) \/ MarkDeliveryFailure(w, j) \/ MarkOutcomeUnknown(w, j)
         \/ MarkReadbackAbsent(w, j) \/ MarkInvalidOperatorContext(w, j)
  PROVE  /\ work' = [work EXCEPT ![w] = @ \ {j}]
         /\ UNCHANGED <<late, wlt, journey, bounds>>
         /\ ~Holds(j) => row' = row
         /\ Holds(j) =>
              \E new : /\ row' = [row EXCEPT ![j.ev] = new]
                       /\ new.token = NoToken
                       /\ new.status \in {"pending", "unknown", "sent", "failed"}
                       /\ new.status = "sent" => j.stage \in Actions /\ new.action = j.stage
                       /\ new.status = "pending" => new.attempt < MaxDeliveryAttempts
                       /\ new.status = "unknown" => new.readback < MaxReadbackAttempts
<1> DEFINE Goal(new) ==
      /\ new.token = NoToken
      /\ new.status \in {"pending", "unknown", "sent", "failed"}
      /\ new.status = "sent" => j.stage \in Actions /\ new.action = j.stage
      /\ new.status = "pending" => new.attempt < MaxDeliveryAttempts
      /\ new.status = "unknown" => new.readback < MaxReadbackAttempts
<1>1. ASSUME NEW new, NEW projected, Record(w, j, new, projected), Holds(j) => Goal(new)
      PROVE  /\ work' = [work EXCEPT ![w] = @ \ {j}]
             /\ UNCHANGED <<late, wlt, journey, bounds>>
             /\ ~Holds(j) => row' = row
             /\ Holds(j) => \E n : row' = [row EXCEPT ![j.ev] = n] /\ Goal(n)
  BY <1>1 DEF Record
<1>2. /\ j \in Job /\ j.ev \in Events
      /\ j.attempt \in Nat /\ j.readback \in Nat
  BY JobToken DEF FencingInv, Job
<1>3. row[j.ev] \in Row
  BY <1>2 DEF FencingInv, TypeOK
<1>4. MaxDeliveryAttempts \in Nat /\ MaxReadbackAttempts \in Nat
  BY BudgetAssumption
<1>5. \A n, d : /\ GivenUp(j.ev, n, d).token = NoToken
                /\ GivenUp(j.ev, n, d).status = "failed"
  BY <1>3 DEF GivenUp, Unleased, Row
<1>6. \A n : /\ Rescheduled(j.ev, n).token = NoToken
             /\ Rescheduled(j.ev, n).status = "pending"
             /\ Rescheduled(j.ev, n).attempt = n
  BY <1>3 DEF Rescheduled, Unleased, Row
<1>7. \A n, d : Goal(GivenUp(j.ev, n, d))
  BY <1>5
<1>8. \A n \in Nat : n < MaxDeliveryAttempts => Goal(Rescheduled(j.ev, n))
  BY <1>6
<1>9. ASSUME DeliveryFailure(w, j)
      PROVE  \E new, projected : Record(w, j, new, projected) /\ Goal(new)
  <2>1. CASE DeliveriesSpent(j)
    BY <1>7, <1>9, <2>1 DEF DeliveryFailure
  <2>2. CASE ~DeliveriesSpent(j)
    <3>1. j.attempt + 1 \in Nat /\ j.attempt + 1 < MaxDeliveryAttempts
      BY <1>2, <1>4, <2>2 DEF DeliveriesSpent
    <3>2. Goal(Rescheduled(j.ev, j.attempt + 1))
      BY <1>8, <3>1
    <3> QED
      BY <1>9, <2>2, <3>2 DEF DeliveryFailure
  <2> QED
    BY <2>1, <2>2
<1>10. CASE MarkSent(w, j)
  <2>1. /\ Sent(j.ev, j.stage).token = NoToken /\ Sent(j.ev, j.stage).status = "sent"
        /\ Sent(j.ev, j.stage).action = j.stage
    BY <1>3 DEF Sent, Unleased, Row
  <2>2. Goal(Sent(j.ev, j.stage))
    BY <1>10, <2>1 DEF MarkSent
  <2>3. \E projected : Record(w, j, Sent(j.ev, j.stage), projected)
    BY <1>10 DEF MarkSent
  <2> QED
    BY <1>1, <2>2, <2>3
<1>11. CASE MarkDeliveryFailure(w, j)
  BY <1>1, <1>9, <1>11 DEF MarkDeliveryFailure
<1>12. CASE MarkOutcomeUnknown(w, j)
  <2>1. /\ OutcomeUnknown(j.ev, j).token = NoToken
        /\ OutcomeUnknown(j.ev, j).status = AfterUnknown(j)
        /\ OutcomeUnknown(j.ev, j).readback = j.readback + 1
    BY <1>3 DEF OutcomeUnknown, Unleased, Row
  <2>2. /\ AfterUnknown(j) \in {"failed", "unknown"}
        /\ AfterUnknown(j) = "unknown" => j.readback + 1 < MaxReadbackAttempts
    BY <1>2, <1>4 DEF AfterUnknown, ReadbacksSpent
  <2>3. Goal(OutcomeUnknown(j.ev, j))
    BY <2>1, <2>2
  <2>4. \E projected : Record(w, j, OutcomeUnknown(j.ev, j), projected)
    BY <1>12 DEF MarkOutcomeUnknown
  <2> QED
    BY <1>1, <2>3, <2>4
<1>13. CASE MarkReadbackAbsent(w, j)
  <2>1. CASE DeliveryFailure(w, j)
    BY <1>1, <1>9, <2>1
  <2>2. CASE /\ j.attempt < MaxDeliveryAttempts
             /\ Record(w, j, Rescheduled(j.ev, row[j.ev].attempt), closure[SessionOf(j.ev)])
    <3>1. ASSUME Holds(j) PROVE Goal(Rescheduled(j.ev, row[j.ev].attempt))
      <4>1. row[j.ev].attempt = j.attempt
        BY <1>2, <3>1 DEF FencingInv, LeaseExclusive, Holds
      <4> QED
        BY <1>2, <1>8, <2>2, <4>1
    <3> QED
      BY <1>1, <2>2, <3>1
  <2> QED
    BY <1>13, <2>1, <2>2 DEF MarkReadbackAbsent
<1>14. CASE MarkInvalidOperatorContext(w, j)
  BY <1>1, <1>7, <1>14 DEF MarkInvalidOperatorContext
<1> QED
  BY <1>10, <1>11, <1>12, <1>13, <1>14

\* Enqueueing keeps the invariant: the row was blank, so its attempts are zero.
LEMMA EnqueueSafe ==
  ASSUME FencingInv, NEW d \in Events, Enqueue(d)
  PROVE  \A e \in Events : row'[e] = row[e] \/ SafeChange(e)
<1>1. row[d] \in Row /\ MaxDeliveryAttempts \in Nat \ {0}
  BY BudgetAssumption DEF FencingInv, TypeOK
<1>2. CASE row[d].status = "absent"
  <2>1. row' = [row EXCEPT ![d] = [row[d] EXCEPT !.status = "pending"]]
    BY <1>2 DEF Enqueue
  <2>2. row[d] = NoRow
    BY <1>2 DEF FencingInv, BlankRow
  <2>3. row'[d].status = "pending" /\ row'[d].attempt = 0 /\ row'[d].token = NoToken
    BY <2>1, <2>2 DEF NoRow, FencingInv, TypeOK
  <2>4. SafeChange(d)
    BY <1>1, <2>3 DEF SafeChange
  <2> QED
    BY <2>1, <2>4 DEF FencingInv, TypeOK
<1>3. CASE row[d].status # "absent"
  BY <1>3 DEF Enqueue
<1> QED
  BY <1>2, <1>3

LEMMA JourneySafe ==
  ASSUME FencingInv, NEW s \in Sessions, Journey(s)
  PROVE  work' = work /\ \A e \in Events : row'[e] = row[e] \/ SafeChange(e)
<1>1. \A type \in EventTypes : <<s, type>> \in Events
  BY DEF Events
<1>2. CASE AbandonCheckout(s)
  BY <1>1, <1>2, EnqueueSafe DEF AbandonCheckout, EventTypes
<1>3. CASE EnqueueRelease(s)
  BY <1>1, <1>3, EnqueueSafe DEF EnqueueRelease, EventTypes
<1>4. CASE CancelOrder(s)
  BY <1>1, <1>4, EnqueueSafe DEF CancelOrder, EventTypes
<1>5. CASE CreateOrder(s) \/ DeliverOrder(s) \/ ReserveCod(s) \/ FinalizeCod(s) \/ SessionProgress(s)
  BY <1>5 DEF CreateOrder, DeliverOrder, ReserveCod, FinalizeCod, SessionProgress
<1> QED
  BY <1>2, <1>3, <1>4, <1>5 DEF Journey

LEMMA RecordSafe ==
  ASSUME FencingInv, NEW w \in Workers, NEW j \in work[w],
         \/ MarkSent(w, j) \/ MarkDeliveryFailure(w, j) \/ MarkOutcomeUnknown(w, j)
         \/ MarkReadbackAbsent(w, j) \/ MarkInvalidOperatorContext(w, j)
  PROVE  /\ \A v \in Workers : work'[v] \subseteq work[v]
         /\ \A e \in Events : row'[e] = row[e] \/ SafeChange(e)
<1>1. \A v \in Workers : work'[v] \subseteq work[v]
  BY RecordShape DEF FencingInv, TypeOK
<1>2. j.ev \in Events
  BY JobToken DEF FencingInv
<1>3. CASE ~Holds(j)
  BY <1>1, <1>3, RecordShape
<1>4. CASE Holds(j)
  <2>1. PICK new :
          /\ row' = [row EXCEPT ![j.ev] = new]
          /\ new.token = NoToken
          /\ new.status \in {"pending", "unknown", "sent", "failed"}
          /\ new.status = "sent" => j.stage \in Actions /\ new.action = j.stage
          /\ new.status = "pending" => new.attempt < MaxDeliveryAttempts
          /\ new.status = "unknown" => new.readback < MaxReadbackAttempts
    BY <1>4, RecordShape
  <2>2. row'[j.ev] = new
    BY <1>2, <2>1 DEF FencingInv, TypeOK
  <2>3. SafeChange(j.ev)
    BY <2>1, <2>2 DEF SafeChange
  <2> QED
    BY <1>1, <2>1, <2>3 DEF FencingInv, TypeOK
<1> QED
  BY <1>3, <1>4

LEMMA OperatorSafe ==
  ASSUME FencingInv, NEW d \in Events,
         RetryFailed(d) \/ RequeueForReconciliation(d) \/ LeaseLapse(d)
  PROVE  work' = work /\ \A e \in Events : row'[e] = row[e] \/ SafeChange(e)
<1>1. /\ row[d] \in Row
      /\ MaxDeliveryAttempts \in Nat \ {0} /\ MaxReadbackAttempts \in Nat \ {0}
  BY BudgetAssumption DEF FencingInv, TypeOK
<1>2. CASE RetryFailed(d)
  <2>1. /\ row' = [row EXCEPT ![d] = [NoRow EXCEPT !.status = "pending",
                                                  !.disposition = "retry_scheduled"]]
        /\ work' = work
    BY <1>2 DEF RetryFailed
  <2>2. row'[d].status = "pending" /\ row'[d].attempt = 0 /\ row'[d].token = NoToken
    BY <2>1 DEF NoRow, FencingInv, TypeOK
  <2>3. SafeChange(d)
    BY <1>1, <2>2 DEF SafeChange
  <2> QED
    BY <2>1, <2>3 DEF FencingInv, TypeOK
<1>3. CASE RequeueForReconciliation(d)
  <2>1. /\ row' = [row EXCEPT ![d] = [Unleased(d) EXCEPT !.status = "unknown", !.readback = 0]]
        /\ work' = work
    BY <1>3 DEF RequeueForReconciliation
  <2>2. row'[d].status = "unknown" /\ row'[d].readback = 0 /\ row'[d].token = NoToken
    BY <1>1, <2>1 DEF Unleased, Row, FencingInv, TypeOK
  <2>3. SafeChange(d)
    BY <1>1, <2>2 DEF SafeChange
  <2> QED
    BY <2>1, <2>3 DEF FencingInv, TypeOK
<1>4. CASE LeaseLapse(d)
  <2>1. /\ row' = [row EXCEPT ![d] = [row[d] EXCEPT !.lapsed = TRUE]]
        /\ work' = work /\ row[d].status = "processing"
    BY <1>4 DEF LeaseLapse
  <2>2. /\ row'[d].status = "processing" /\ row'[d].token = row[d].token
        /\ row'[d].attempt = row[d].attempt /\ row'[d].readback = row[d].readback
    BY <1>1, <2>1 DEF Row, FencingInv, TypeOK
  <2>3. SafeChange(d)
    BY <2>2 DEF SafeChange
  <2> QED
    BY <2>1, <2>3 DEF FencingInv, TypeOK
<1> QED
  BY <1>2, <1>3, <1>4

\* Every action keeps the fencing invariant.
LEMMA NextFencing == FencingInv /\ [Next]_vars => FencingInv'
<1> SUFFICES ASSUME FencingInv, [Next]_vars PROVE FencingInv'
  OBVIOUS
<1>0. TypeOK'
  BY NextType DEF FencingInv
<1>1. ASSUME \A w \in Workers : work'[w] \subseteq work[w],
             \A e \in Events : row'[e] = row[e] \/ SafeChange(e)
      PROVE  FencingInv'
  BY <1>0, <1>1, QuietStep
<1>2. ASSUME NEW s \in Sessions, Journey(s) PROVE FencingInv'
  BY <1>1, <1>2, JourneySafe
<1>3. ASSUME NEW w \in Workers, Claim(w) PROVE FencingInv'
  BY <1>0, <1>3, ClaimFencing
<1>4. ASSUME NEW w \in Workers, Process(w) PROVE FencingInv'
  <2>1. PICK j \in work[w] :
          \/ Dispatch(w, j) \/ ConfirmExpiry(w, j) \/ Reconcile(w, j)
          \/ MarkSent(w, j) \/ MarkDeliveryFailure(w, j) \/ MarkOutcomeUnknown(w, j)
          \/ MarkReadbackAbsent(w, j) \/ MarkInvalidOperatorContext(w, j)
    BY <1>4 DEF Process
  <2>2. CASE Dispatch(w, j) \/ ConfirmExpiry(w, j) \/ Reconcile(w, j)
    <3>1. row' = row /\ \E stage : Advance(w, j, stage)
      BY <2>2 DEF Dispatch, ConfirmExpiry, Reconcile
    <3> QED
      BY <1>0, <3>1, AdvanceFencing
  <2> QED
    BY <1>1, <2>1, <2>2, RecordSafe
<1>5. ASSUME NEW w \in Workers, Crash(w) PROVE FencingInv'
  <2>1. \A v \in Workers : work'[v] \subseteq work[v]
    BY <1>5 DEF Crash, FencingInv, TypeOK
  <2> QED
    BY <1>1, <1>5, <2>1 DEF Crash
<1>6. ASSUME NEW w \in Workers, NEW j \in work[w], LoseMark(w, j) PROVE FencingInv'
  <2>1. \A v \in Workers : work'[v] \subseteq work[v]
    BY <1>6 DEF LoseMark, FencingInv, TypeOK
  <2> QED
    BY <1>1, <1>6, <2>1 DEF LoseMark
<1>7. ASSUME NEW e \in Events, LateMutation(e) \/ LostMutation(e) PROVE FencingInv'
  BY <1>1, <1>7 DEF LateMutation, LostMutation
<1>8. ASSUME NEW e \in Events, LapseHeld(e) \/ LapseOrphaned(e) PROVE FencingInv'
  BY <1>1, <1>8, OperatorSafe DEF LapseHeld, LapseOrphaned
<1>9. ASSUME NEW e \in Events, RetryFailed(e) \/ RequeueForReconciliation(e) PROVE FencingInv'
  BY <1>1, <1>9, OperatorSafe
<1>10. CASE UNCHANGED vars
  BY <1>1, <1>10 DEF vars
<1> QED
  BY <1>2, <1>3, <1>4, <1>5, <1>6, <1>7, <1>8, <1>9, <1>10 DEF Next

LEMMA InitFencing == Init => FencingInv
<1> SUFFICES ASSUME Init PROVE FencingInv
  OBVIOUS
<1>1. TypeOK
  BY InitType
<1>2. \A e \in Events : row[e] = NoRow
  BY DEF Init
<1>3. \A w \in Workers : work[w] = {}
  BY DEF Init
<1>4. LeaseExclusive
  BY <1>3 DEF LeaseExclusive
<1>5. BudgetLeft
  BY <1>2 DEF BudgetLeft, NoRow
<1>6. BlankRow
  BY <1>2 DEF BlankRow
<1> QED
  BY <1>1, <1>4, <1>5, <1>6 DEF FencingInv

LEMMA FencingInvariant == Spec => []FencingInv
BY InitFencing, NextFencing, PTL DEF Spec

\* A lease token names one job of one worker and one row, and the counters in the
\* snapshot of the job that holds a row are the row's own.
THEOREM FencingCorrect == Spec => []LeaseExclusive
<1>1. FencingInv => LeaseExclusive
  BY DEF FencingInv
<1> QED
  BY <1>1, FencingInvariant, PTL

\* A row that waits for a delivery or a readback has one left in its budget.
THEOREM BudgetCorrect == Spec => []BudgetLeft
<1>1. FencingInv => BudgetLeft
  BY DEF FencingInv
<1> QED
  BY <1>1, FencingInvariant, PTL

-----------------------------------------------------------------------------
(* Agreement with WLT. What an answer says stays true because WLT never    *)
(* undoes it; what a worker answers is true when it is given; and an order *)
(* that is cancelled was paid, which is why "none" is the truth about it.  *)

\* What no step takes back in WLT.
WltMonotone ==
  \A s \in Sessions :
    /\ session[s] \in Terminal => session'[s] = session[s]
    /\ session[s] \in CodStatus => session'[s] \in CodStatus
    /\ s \in refund => s \in refund'
    /\ reservation[s] = "released" => reservation'[s] = "released"

LEMMA MutateMonotone ==
  ASSUME TypeOK, NEW e \in Events, Mutate(e)
  PROVE  WltMonotone
<1> DEFINE s == SessionOf(e)
<1>1. s \in Sessions
  BY EventParts
<1> HIDE DEF s
<1>2. session'[s] = session[s] \/ session[s] \in Expirable
  BY <1>1 DEF Mutate, TypeOK, Expired, s
<1>3. \A r \in Sessions : r # s => session'[r] = session[r]
  BY <1>1 DEF Mutate, TypeOK, s
<1>4. Expirable \cap (Terminal \cup CodStatus) = {}
  BY DEF Expirable, Terminal, CodStatus
<1>5. \A r \in Sessions : r \in refund => r \in refund'
  BY DEF Mutate
<1>6. \A r \in Sessions : reservation[r] = "released" => reservation'[r] = "released"
  BY <1>1 DEF Mutate, TypeOK, s
<1> QED
  BY <1>2, <1>3, <1>4, <1>5, <1>6 DEF WltMonotone

LEMMA NextMonotone ==
  ASSUME TypeOK, [Next]_vars
  PROVE  WltMonotone
<1>1. CASE UNCHANGED wlt
  BY <1>1 DEF wlt, WltMonotone
<1>2. ASSUME NEW s \in Sessions, Journey(s) PROVE WltMonotone
  <2>1. CASE SessionProgress(s)
    <3>1. PICK new \in OnlineStatus :
            ProviderStep(session[s], new) /\ session' = [session EXCEPT ![s] = new]
      BY <2>1 DEF SessionProgress
    <3>2. session[s] \notin Terminal \cup CodStatus
      BY <3>1 DEF ProviderStep, LegalAuthoritative, Terminal, CodStatus
    <3> QED
      BY <2>1, <3>1, <3>2 DEF SessionProgress, TypeOK, WltMonotone
  <2>2. CASE FinalizeCod(s)
    <3>1. session[s] = "cod_pending" /\ session' = [session EXCEPT ![s] = "cod_finalized"]
      BY <2>2 DEF FinalizeCod
    <3>2. "cod_pending" \notin Terminal /\ "cod_finalized" \in CodStatus
      BY DEF Terminal, CodStatus
    <3>3. refund' = refund /\ reservation' = [reservation EXCEPT ![s] = "finalized"]
          /\ reservation[s] = "reserved"
      BY <2>2 DEF FinalizeCod
    <3> QED
      BY <3>1, <3>2, <3>3 DEF TypeOK, WltMonotone
  <2>3. CASE ReserveCod(s)
    BY <2>3 DEF ReserveCod, TypeOK, WltMonotone
  <2>4. CASE AbandonCheckout(s) \/ CreateOrder(s) \/ EnqueueRelease(s) \/ CancelOrder(s)
             \/ DeliverOrder(s)
    BY <1>1, <2>4 DEF AbandonCheckout, CreateOrder, EnqueueRelease, CancelOrder, DeliverOrder
  <2> QED
    BY <1>2, <2>1, <2>2, <2>3, <2>4 DEF Journey
<1>3. ASSUME NEW w \in Workers, Claim(w) \/ Crash(w) PROVE WltMonotone
  BY <1>1, <1>3 DEF Claim, Crash
<1>4. ASSUME NEW w \in Workers, Process(w) PROVE WltMonotone
  <2>1. PICK j \in work[w] :
          \/ Dispatch(w, j) \/ ConfirmExpiry(w, j) \/ Reconcile(w, j)
          \/ MarkSent(w, j) \/ MarkDeliveryFailure(w, j) \/ MarkOutcomeUnknown(w, j)
          \/ MarkReadbackAbsent(w, j) \/ MarkInvalidOperatorContext(w, j)
    BY <1>4 DEF Process
  <2>2. CASE Dispatch(w, j)
    <3>1. j.ev \in Events
      BY JobToken
    <3>2. Mutate(j.ev) \/ UNCHANGED wlt
      BY <2>2 DEF Dispatch, wlt
    <3> QED
      BY <1>1, <3>1, <3>2, MutateMonotone
  <2>3. CASE ~Dispatch(w, j)
    <3>1. UNCHANGED wlt
      BY <2>1, <2>3 DEF ConfirmExpiry, Reconcile, MarkSent, MarkDeliveryFailure,
         MarkOutcomeUnknown, MarkReadbackAbsent, MarkInvalidOperatorContext,
         DeliveryFailure, Record
    <3> QED
      BY <1>1, <3>1
  <2> QED
    BY <2>2, <2>3
<1>5. ASSUME NEW w \in Workers, NEW j \in work[w], LoseMark(w, j) PROVE WltMonotone
  BY <1>1, <1>5 DEF LoseMark
<1>6. ASSUME NEW e \in Events, LateMutation(e) PROVE WltMonotone
  BY <1>6, MutateMonotone DEF LateMutation
<1>7. ASSUME NEW e \in Events,
             \/ LostMutation(e) \/ LapseHeld(e) \/ LapseOrphaned(e)
             \/ RetryFailed(e) \/ RequeueForReconciliation(e)
      PROVE  WltMonotone
  BY <1>1, <1>7 DEF LostMutation, LapseHeld, LapseOrphaned, LeaseLapse, RetryFailed,
     RequeueForReconciliation
<1>8. CASE UNCHANGED vars
  BY <1>1, <1>8 DEF vars
<1> QED
  BY <1>2, <1>3, <1>4, <1>5, <1>6, <1>7, <1>8 DEF Next

\* What an answer says of WLT stays true.
LEMMA AgreesStable ==
  ASSUME TypeOK, WltMonotone, NEW e \in Events, NEW action, Agrees(e, action)
  PROVE  Agrees(e, action)'
<1>1. SessionOf(e) \in Sessions
  BY EventParts
<1> QED
  BY <1>1 DEF Agrees, WltMonotone, Terminal, CodStatus

\* The answer to a mutation tells what the mutation left in WLT.
LEMMA MutationAgrees ==
  ASSUME TypeOK, OrderIsPaid, NEW e \in Events, row[e].status # "absent",
         Mutate(e), NEW answer \in Actions, answer = MutationAnswer(e)
  PROVE  Agrees(e, answer)'
<1> DEFINE s == SessionOf(e)
<1>1. /\ s \in Sessions /\ TypeOf(e) \in EventTypes
      /\ e = <<s, TypeOf(e)>>
  BY EventParts DEF Events, SessionOf, TypeOf
<1>2. CASE TypeOf(e) = "expire_session"
  BY <1>2 DEF MutationAnswer, Actions
<1>3. CASE TypeOf(e) = "cancel_for_order"
  <2>1. session[s] \in {"captured", "cod_pending", "cod_finalized"}
    BY <1>1, <1>3 DEF OrderIsPaid
  <2>2. session'[s] = session[s]
    BY <1>1, <2>1 DEF Mutate, TypeOK, Expired, Expirable
  <2>3. answer = CancelAnswer(e)
    BY <1>3 DEF MutationAnswer
  <2>4. session[s] \notin Expirable
    BY <2>1 DEF Expirable
  <2>5. CASE Refunds(e)
    BY <2>3, <2>4, <2>5 DEF CancelAnswer, Mutate, Agrees
  <2>6. CASE ~Refunds(e)
    <3>1. session[s] = "cod_pending"
      BY <1>3, <2>1, <2>6 DEF Refunds, Refundable
    <3>2. answer = "none"
      BY <2>3, <2>4, <2>6 DEF CancelAnswer
    <3> QED
      BY <1>3, <2>2, <3>1, <3>2 DEF Agrees, CodStatus
  <2> QED
    BY <2>5, <2>6
<1>4. CASE TypeOf(e) = "release_cod_reservation"
  <2>1. /\ answer = "cod_reservation_released"
        /\ reservation[s] \in {"reserved", "released"}
    BY <1>4 DEF MutationAnswer, ReleaseAnswer, Actions
  <2>2. reservation'[s] = "released"
    BY <1>1, <1>4, <2>1 DEF Mutate, TypeOK
  <2> QED
    BY <1>4, <2>1, <2>2 DEF Agrees
<1> QED
  BY <1>1, <1>2, <1>3, <1>4 DEF EventTypes

\* What a readback makes of WLT's records is true of them.
LEMMA ReadAgrees ==
  ASSUME TypeOK, OrderIsPaid, NEW e \in Events, row[e].status # "absent",
         ReadAnswer(e) \in Actions
  PROVE  Agrees(e, ReadAnswer(e))
<1> DEFINE s == SessionOf(e)
<1>1. /\ s \in Sessions /\ TypeOf(e) \in EventTypes
      /\ e = <<s, TypeOf(e)>>
  BY EventParts DEF Events, SessionOf, TypeOf
<1>2. CASE TypeOf(e) = "release_cod_reservation"
  BY <1>2 DEF ReadAnswer, ReservationRead, Agrees, Actions
<1>3. CASE TypeOf(e) = "expire_session"
  BY <1>3 DEF ReadAnswer, SettledAnswer, Agrees, Actions, Refundable
<1>4. CASE TypeOf(e) = "cancel_for_order"
  <2>1. session[s] \in {"captured", "cod_pending", "cod_finalized"}
    BY <1>1, <1>4 DEF OrderIsPaid
  <2> QED
    BY <1>4, <2>1 DEF ReadAnswer, SettledAnswer, Agrees, Actions, Refundable
<1> QED
  BY <1>1, <1>2, <1>3, <1>4 DEF EventTypes

\* A change of row e that keeps the promises of sent rows: the row does not vanish,
\* becomes sent only with a true answer, and a closure of an order's money is
\* enqueued only for an order that is cancelled.
TrueChange(e) ==
  /\ row'[e].status # "absent"
  /\ row'[e].status = "sent" => Agrees(e, row[e].action)'
  /\ row[e].status = "absent" /\ TypeOf(e) = "cancel_for_order"
       => journey'[SessionOf(e)] = "cancelled"

\* A job that appears or is moved belongs to a row, and its answer is true.
TrueJob(j) ==
  /\ row'[j.ev].status # "absent"
  /\ j.stage \in Actions => Agrees(j.ev, j.stage)'

Placed == {"ordered", "cancelled", "delivered"}
Paid == {"captured", "cod_pending", "cod_finalized"}

LawfulJourney ==
  \A s \in Sessions :
    /\ journey[s] = "cancelled" => journey'[s] = "cancelled"
    /\ journey'[s] \in Placed => journey[s] \in Placed \/ session[s] \in Paid

LEMMA AgreementStep ==
  ASSUME OutboxInv, TypeOK', WltMonotone, LawfulJourney,
         \A e \in Events : row'[e] = row[e] \/ TrueChange(e),
         \A w \in Workers : \A j \in work'[w] : j \in work[w] \/ TrueJob(j)
  PROVE  OrderIsPaid' /\ SentAgreesWithWlt' /\ AnswersAgree'
<1>1. TypeOK /\ OrderIsPaid /\ SentAgreesWithWlt /\ AnswersAgree
  BY DEF OutboxInv
<1>2. ASSUME NEW w \in Workers, NEW j \in work'[w]
      PROVE  /\ row'[j.ev].status # "absent"
             /\ j.stage \in Actions => Agrees(j.ev, j.stage)'
  <2>1. CASE TrueJob(j)
    BY <2>1 DEF TrueJob
  <2>2. CASE j \in work[w]
    <3>1. j.ev \in Events /\ row[j.ev].status # "absent"
      BY <1>1, <2>2, JobToken DEF OrderIsPaid
    <3>2. row'[j.ev].status # "absent"
      BY <3>1 DEF TrueChange
    <3>3. ASSUME j.stage \in Actions PROVE Agrees(j.ev, j.stage)'
      <4>1. Agrees(j.ev, j.stage)
        BY <1>1, <2>2, <3>3 DEF AnswersAgree
      <4> QED
        BY <1>1, <3>1, <4>1, AgreesStable
    <3> QED
      BY <3>2, <3>3
  <2> QED
    BY <2>1, <2>2
<1>3. ASSUME NEW e \in Events, row'[e].status = "sent"
      PROVE  Agrees(e, row[e].action)'
  <2>1. CASE TrueChange(e)
    BY <1>3, <2>1 DEF TrueChange
  <2>2. CASE row'[e] = row[e]
    <3>1. row[e].action = row'[e].action
      BY <2>2
    <3>2. Agrees(e, row[e].action)
      BY <1>1, <1>3, <2>2 DEF SentAgreesWithWlt
    <3>3. \A a : Agrees(e, a) => Agrees(e, a)'
      BY <1>1, AgreesStable
    <3> QED
      BY <3>1, <3>2, <3>3
  <2> QED
    BY <2>1, <2>2
<1>4. ASSUME NEW s \in Sessions
      PROVE  /\ row'[<<s, "cancel_for_order">>].status # "absent" => journey'[s] = "cancelled"
             /\ journey'[s] \in Placed => session'[s] \in Paid
  <2> DEFINE e == <<s, "cancel_for_order">>
  <2>1. e \in Events /\ SessionOf(e) = s /\ TypeOf(e) = "cancel_for_order"
    BY DEF Events, EventTypes, SessionOf, TypeOf
  <2>2. row'[e].status # "absent" => journey'[s] = "cancelled"
    BY <1>1, <2>1 DEF OrderIsPaid, TrueChange, LawfulJourney
  <2>3. journey'[s] \in Placed => session[s] \in Paid
    BY <1>1 DEF OrderIsPaid, LawfulJourney, Placed, Paid
  <2>4. session[s] \in Paid => session'[s] \in Paid
    BY DEF WltMonotone, Terminal, CodStatus, Paid
  <2> QED
    BY <2>2, <2>3, <2>4
<1>5. OrderIsPaid'
  BY <1>2, <1>4 DEF OrderIsPaid, Placed, Paid
<1>6. SentAgreesWithWlt'
  BY <1>3 DEF SentAgreesWithWlt
<1>7. AnswersAgree'
  BY <1>2 DEF AnswersAgree
<1> QED
  BY <1>5, <1>6, <1>7

LEMMA EnqueueTrue ==
  ASSUME TypeOK, NEW d \in Events, Enqueue(d),
         TypeOf(d) = "cancel_for_order" => journey'[SessionOf(d)] = "cancelled"
  PROVE  \A e \in Events : row'[e] = row[e] \/ TrueChange(e)
<1>1. CASE row[d].status = "absent"
  <2>1. row' = [row EXCEPT ![d] = [row[d] EXCEPT !.status = "pending"]] /\ row[d] \in Row
    BY <1>1 DEF Enqueue, TypeOK
  <2>2. row'[d].status = "pending"
    BY <2>1 DEF TypeOK, Row
  <2>3. TrueChange(d)
    BY <2>2 DEF TrueChange
  <2> QED
    BY <2>1, <2>3 DEF TypeOK
<1>2. CASE row[d].status # "absent"
  BY <1>2 DEF Enqueue
<1> QED
  BY <1>1, <1>2

LEMMA JourneyTrue ==
  ASSUME TypeOK, OrderIsPaid, NEW s \in Sessions, Journey(s)
  PROVE  /\ work' = work /\ LawfulJourney
         /\ \A e \in Events : row'[e] = row[e] \/ TrueChange(e)
<1>1. \A type \in EventTypes :
        <<s, type>> \in Events /\ TypeOf(<<s, type>>) = type /\ SessionOf(<<s, type>>) = s
  BY DEF Events, TypeOf, SessionOf
<1>2. CASE AbandonCheckout(s)
  <2>1. LawfulJourney
    BY <1>2 DEF AbandonCheckout, LawfulJourney, Placed, TypeOK
  <2> QED
    BY <1>1, <1>2, <2>1, EnqueueTrue DEF AbandonCheckout, EventTypes
<1>3. CASE EnqueueRelease(s)
  <2>1. LawfulJourney
    BY <1>3 DEF EnqueueRelease, LawfulJourney
  <2> QED
    BY <1>1, <1>3, <2>1, EnqueueTrue DEF EnqueueRelease, EventTypes
<1>4. CASE CancelOrder(s)
  <2>1. LawfulJourney /\ journey'[s] = "cancelled"
    BY <1>4 DEF CancelOrder, LawfulJourney, Placed, TypeOK
  <2> QED
    BY <1>1, <1>4, <2>1, EnqueueTrue DEF CancelOrder, EventTypes
<1>5. CASE CreateOrder(s)
  BY <1>5 DEF CreateOrder, LawfulJourney, Placed, Paid, TypeOK
<1>6. CASE DeliverOrder(s)
  BY <1>6 DEF DeliverOrder, LawfulJourney, Placed, TypeOK
<1>7. CASE ReserveCod(s) \/ FinalizeCod(s) \/ SessionProgress(s)
  BY <1>7 DEF ReserveCod, FinalizeCod, SessionProgress, LawfulJourney
<1> QED
  BY <1>2, <1>3, <1>4, <1>5, <1>6, <1>7 DEF Journey

LEMMA ClaimTrue ==
  ASSUME OutboxInv, NEW w \in Workers, Claim(w)
  PROVE  /\ \A e \in Events : row'[e] = row[e] \/ TrueChange(e)
         /\ \A v \in Workers : \A j \in work'[v] : j \in work[v] \/ TrueJob(j)
<1>0. TypeOK
  BY DEF OutboxInv
<1>1. PICK due \in SUBSET Events :
        \E lease \in FreshLeases(due) :
           /\ work[w] = {}
           /\ \A e \in due : Claimable(e)
           /\ work' = [work EXCEPT ![w] = {JobFor(e, lease[e]) : e \in due}]
           /\ row' = [e \in Events |->
                        IF e \in due THEN Leased(e, lease[e]) ELSE row[e]]
  BY <1>0, ClaimShape
<1>2. PICK lease \in FreshLeases(due) :
           /\ work[w] = {}
           /\ \A e \in due : Claimable(e)
           /\ work' = [work EXCEPT ![w] = {JobFor(e, lease[e]) : e \in due}]
           /\ row' = [e \in Events |->
                        IF e \in due THEN Leased(e, lease[e]) ELSE row[e]]
  BY <1>1
<1>3. \A e \in Events : row[e] \in Row
  BY <1>0 DEF TypeOK
<1>4. \A e \in due : row'[e].status = "processing" /\ row[e].status # "absent"
  BY <1>2, <1>3 DEF Leased, Row, Claimable
<1>5. \A e \in due : TrueChange(e)
  BY <1>4 DEF TrueChange
<1>6. \A e \in due : JobFor(e, lease[e]).ev = e /\ JobFor(e, lease[e]).stage = "claimed"
  BY DEF JobFor
<1>7. \A e \in due : TrueJob(JobFor(e, lease[e]))
  BY <1>4, <1>6 DEF TrueJob, Actions
<1> QED
  BY <1>0, <1>2, <1>5, <1>7 DEF TypeOK

\* The three steps that answer a job answer it truthfully.
LEMMA AnswerTrue ==
  ASSUME OutboxInv, NEW w \in Workers, NEW j \in work[w],
         Dispatch(w, j) \/ ConfirmExpiry(w, j) \/ Reconcile(w, j)
  PROVE  /\ row' = row /\ journey' = journey
         /\ \A v \in Workers : \A k \in work'[v] : k \in work[v] \/ TrueJob(k)
<1>1. /\ TypeOK /\ OrderIsPaid /\ j \in Job /\ j.ev \in Events
      /\ row[j.ev].status # "absent"
  BY JobToken DEF OutboxInv, OrderIsPaid
<1>2. row' = row /\ journey' = journey
  BY DEF Dispatch, ConfirmExpiry, Reconcile
<1>3. ASSUME NEW stage, Advance(w, j, stage), stage \in Actions => Agrees(j.ev, stage)'
      PROVE  \A v \in Workers : \A k \in work'[v] : k \in work[v] \/ TrueJob(k)
  <2> DEFINE moved == [j EXCEPT !.stage = stage]
  <2>1. moved.ev = j.ev /\ moved.stage = stage
    BY <1>1 DEF Job
  <2>2. TrueJob(moved)
    BY <1>1, <1>2, <1>3, <2>1 DEF TrueJob
  <2> HIDE DEF moved
  <2>3. \A v \in Workers : work'[v] = IF v = w THEN (work[w] \ {j}) \cup {moved} ELSE work[v]
    BY <1>1, <1>3 DEF TypeOK, Advance, moved
  <2> QED
    BY <2>2, <2>3
<1>4. \A stage \in {"rejected", "unknown", "absent", "confirm"} : stage \notin Actions
  BY DEF Actions
<1>5. ASSUME UNCHANGED wlt, NEW stage, Advance(w, j, stage),
             stage = ReadAnswer(j.ev) \/ stage \in {"rejected", "unknown", "absent", "confirm"}
      PROVE  \A v \in Workers : \A k \in work'[v] : k \in work[v] \/ TrueJob(k)
  <2>1. ASSUME stage \in Actions PROVE Agrees(j.ev, stage)'
    <3>1. Agrees(j.ev, stage)
      BY <1>1, <1>4, <1>5, <2>1, ReadAgrees
    <3>2. WltMonotone
      BY <1>5 DEF wlt, WltMonotone
    <3> QED
      BY <1>1, <3>1, <3>2, AgreesStable
  <2> QED
    BY <1>3, <1>5, <2>1
<1>6. CASE Dispatch(w, j)
  <2>1. CASE Mutate(j.ev) /\ Advance(w, j, MutationAnswer(j.ev))
    <3>1. PICK answer : answer = MutationAnswer(j.ev)
      OBVIOUS
    <3>2. answer \in Actions => Agrees(j.ev, answer)'
      BY <1>1, <2>1, <3>1, MutationAgrees
    <3> QED
      BY <1>2, <1>3, <2>1, <3>1, <3>2
  <2>2. CASE UNCHANGED wlt /\ (Advance(w, j, "rejected") \/ Advance(w, j, "unknown"))
    BY <1>2, <1>5, <2>2
  <2> QED
    BY <1>6, <2>1, <2>2 DEF Dispatch
<1>7. CASE ConfirmExpiry(w, j)
  <2>1. UNCHANGED wlt
    BY <1>7 DEF ConfirmExpiry
  <2>2. PICK stage : /\ Advance(w, j, stage)
                     /\ stage = ReadAnswer(j.ev) \/ stage \in {"rejected", "unknown"}
    BY <1>7 DEF ConfirmExpiry
  <2> QED
    BY <1>2, <1>5, <2>1, <2>2
<1>8. CASE Reconcile(w, j)
  <2>1. UNCHANGED wlt
    BY <1>8 DEF Reconcile
  <2>2. PICK stage : /\ Advance(w, j, stage)
                     /\ stage = ReadAnswer(j.ev) \/ stage = "unknown"
    BY <1>8 DEF Reconcile
  <2> QED
    BY <1>2, <1>5, <2>1, <2>2
<1> QED
  BY <1>6, <1>7, <1>8

LEMMA RecordTrue ==
  ASSUME OutboxInv, NEW w \in Workers, NEW j \in work[w],
         \/ MarkSent(w, j) \/ MarkDeliveryFailure(w, j) \/ MarkOutcomeUnknown(w, j)
         \/ MarkReadbackAbsent(w, j) \/ MarkInvalidOperatorContext(w, j)
  PROVE  /\ journey' = journey /\ \A v \in Workers : work'[v] \subseteq work[v]
         /\ \A e \in Events : row'[e] = row[e] \/ TrueChange(e)
<1>1. FencingInv /\ TypeOK /\ j.ev \in Events
  BY JobToken DEF OutboxInv, FencingInv
<1>2. journey' = journey /\ UNCHANGED wlt
  BY <1>1, RecordShape
<1>3. \A v \in Workers : work'[v] \subseteq work[v]
  BY <1>1, RecordSafe
<1>4. CASE ~Holds(j)
  BY <1>1, <1>2, <1>3, <1>4, RecordShape
<1>5. CASE Holds(j)
  <2>1. PICK new :
          /\ row' = [row EXCEPT ![j.ev] = new]
          /\ new.token = NoToken
          /\ new.status \in {"pending", "unknown", "sent", "failed"}
          /\ new.status = "sent" => j.stage \in Actions /\ new.action = j.stage
          /\ new.status = "pending" => new.attempt < MaxDeliveryAttempts
          /\ new.status = "unknown" => new.readback < MaxReadbackAttempts
    BY <1>1, <1>5, RecordShape
  <2>2. row'[j.ev] = new /\ \A e \in Events : e # j.ev => row'[e] = row[e]
    BY <1>1, <2>1 DEF TypeOK
  <2>3. row[j.ev].status = "processing"
    BY <1>5 DEF Holds
  <2>4. ASSUME row'[j.ev].status = "sent" PROVE Agrees(j.ev, row[j.ev].action)'
    <3>1. Agrees(j.ev, j.stage)
      BY <2>1, <2>2, <2>4 DEF OutboxInv, AnswersAgree
    <3>2. WltMonotone
      BY <1>2 DEF wlt, WltMonotone
    <3>3. Agrees(j.ev, j.stage)'
      BY <1>1, <3>1, <3>2, AgreesStable
    <3>4. row'[j.ev].action = j.stage
      BY <2>1, <2>2, <2>4
    <3> QED
      BY <3>3, <3>4
  <2>5. TrueChange(j.ev)
    BY <2>1, <2>2, <2>3, <2>4 DEF TrueChange
  <2> QED
    BY <1>2, <1>3, <2>2, <2>5
<1> QED
  BY <1>4, <1>5

LEMMA OperatorTrue ==
  ASSUME TypeOK, NEW d \in Events,
         RetryFailed(d) \/ RequeueForReconciliation(d) \/ LeaseLapse(d)
  PROVE  /\ work' = work /\ journey' = journey
         /\ \A e \in Events : row'[e] = row[e] \/ TrueChange(e)
<1>1. row[d] \in Row
  BY DEF TypeOK
<1>2. work' = work /\ journey' = journey
  BY DEF RetryFailed, RequeueForReconciliation, LeaseLapse
<1>3. row[d].status # "absent"
  BY DEF RetryFailed, RequeueForReconciliation, LeaseLapse
<1>4. row'[d].status \in {"pending", "unknown", "processing"}
  <2>1. CASE RetryFailed(d)
    BY <2>1 DEF RetryFailed, NoRow, TypeOK
  <2>2. CASE RequeueForReconciliation(d)
    BY <1>1, <2>2 DEF RequeueForReconciliation, Unleased, Row, TypeOK
  <2>3. CASE LeaseLapse(d)
    BY <1>1, <2>3 DEF LeaseLapse, Row, TypeOK
  <2> QED
    BY <2>1, <2>2, <2>3
<1>5. \A e \in Events : e # d => row'[e] = row[e]
  BY DEF RetryFailed, RequeueForReconciliation, LeaseLapse, TypeOK
<1>6. TrueChange(d)
  BY <1>3, <1>4 DEF TrueChange
<1> QED
  BY <1>2, <1>5, <1>6

\* Every action keeps the whole invariant.
LEMMA NextInv == OutboxInv /\ [Next]_vars => OutboxInv'
<1> SUFFICES ASSUME OutboxInv, [Next]_vars PROVE OutboxInv'
  OBVIOUS
<1>1. FencingInv /\ TypeOK /\ OrderIsPaid
  BY DEF OutboxInv, FencingInv
<1>2. FencingInv' /\ TypeOK'
  BY <1>1, NextFencing, NextType
<1>3. WltMonotone
  BY <1>1, NextMonotone
<1>4. ASSUME LawfulJourney,
             \A e \in Events : row'[e] = row[e] \/ TrueChange(e),
             \A w \in Workers : \A j \in work'[w] : j \in work[w] \/ TrueJob(j)
      PROVE  OutboxInv'
  BY <1>2, <1>3, <1>4, AgreementStep DEF OutboxInv, FencingInv
<1>5. ASSUME journey' = journey PROVE LawfulJourney
  BY <1>5 DEF LawfulJourney
<1>6. ASSUME NEW s \in Sessions, Journey(s) PROVE OutboxInv'
  BY <1>1, <1>4, <1>6, JourneyTrue
<1>7. ASSUME NEW w \in Workers, Claim(w) PROVE OutboxInv'
  <2>1. journey' = journey
    BY <1>7 DEF Claim
  <2> QED
    BY <1>4, <1>5, <1>7, <2>1, ClaimTrue
<1>8. ASSUME NEW w \in Workers, Process(w) PROVE OutboxInv'
  <2>1. PICK j \in work[w] :
          \/ Dispatch(w, j) \/ ConfirmExpiry(w, j) \/ Reconcile(w, j)
          \/ MarkSent(w, j) \/ MarkDeliveryFailure(w, j) \/ MarkOutcomeUnknown(w, j)
          \/ MarkReadbackAbsent(w, j) \/ MarkInvalidOperatorContext(w, j)
    BY <1>8 DEF Process
  <2>2. CASE Dispatch(w, j) \/ ConfirmExpiry(w, j) \/ Reconcile(w, j)
    BY <1>4, <1>5, <2>2, AnswerTrue
  <2>3. CASE \/ MarkSent(w, j) \/ MarkDeliveryFailure(w, j) \/ MarkOutcomeUnknown(w, j)
             \/ MarkReadbackAbsent(w, j) \/ MarkInvalidOperatorContext(w, j)
    BY <1>4, <1>5, <2>3, RecordTrue
  <2> QED
    BY <2>1, <2>2, <2>3
<1>9. ASSUME NEW w \in Workers, Crash(w) PROVE OutboxInv'
  <2>1. /\ row' = row /\ journey' = journey
        /\ \A v \in Workers : work'[v] \subseteq work[v]
    BY <1>1, <1>9 DEF Crash, TypeOK
  <2> QED
    BY <1>4, <1>5, <2>1
<1>10. ASSUME NEW w \in Workers, NEW j \in work[w], LoseMark(w, j) PROVE OutboxInv'
  <2>1. /\ row' = row /\ journey' = journey
        /\ \A v \in Workers : work'[v] \subseteq work[v]
    BY <1>1, <1>10 DEF LoseMark, TypeOK
  <2> QED
    BY <1>4, <1>5, <2>1
<1>11. ASSUME NEW e \in Events, LateMutation(e) \/ LostMutation(e) PROVE OutboxInv'
  BY <1>4, <1>5, <1>11 DEF LateMutation, LostMutation
<1>12. ASSUME NEW e \in Events,
              \/ LapseHeld(e) \/ LapseOrphaned(e)
              \/ RetryFailed(e) \/ RequeueForReconciliation(e)
       PROVE  OutboxInv'
  BY <1>1, <1>4, <1>5, <1>12, OperatorTrue DEF LapseHeld, LapseOrphaned
<1>13. CASE UNCHANGED vars
  BY <1>4, <1>5, <1>13 DEF vars
<1> QED
  BY <1>6, <1>7, <1>8, <1>9, <1>10, <1>11, <1>12, <1>13 DEF Next

LEMMA InitInv == Init => OutboxInv
<1> SUFFICES ASSUME Init PROVE OutboxInv
  OBVIOUS
<1>1. FencingInv
  BY InitFencing
<1>2. \A e \in Events : row[e].status = "absent"
  BY DEF Init, NoRow
<1>3. \A w \in Workers : work[w] = {}
  BY DEF Init
<1>4. \A s \in Sessions : journey[s] = "checkout" /\ <<s, "cancel_for_order">> \in Events
  BY DEF Init, Events, EventTypes
<1>5. OrderIsPaid
  BY <1>2, <1>3, <1>4 DEF OrderIsPaid
<1>6. SentAgreesWithWlt
  BY <1>2 DEF SentAgreesWithWlt
<1>7. AnswersAgree
  BY <1>3 DEF AnswersAgree
<1> QED
  BY <1>1, <1>5, <1>6, <1>7 DEF FencingInv, OutboxInv

LEMMA OutboxInvariant == Spec => []OutboxInv
BY InitInv, NextInv, PTL DEF Spec

\* What a sent closure says is what WLT's records say, at every later time.
THEOREM AgreementCorrect == Spec => []SentAgreesWithWlt
<1>1. OutboxInv => SentAgreesWithWlt
  BY DEF OutboxInv
<1> QED
  BY <1>1, OutboxInvariant, PTL

\* A cancelled order whose session was captured is closed only with its refund.
THEOREM RefundCorrect == Spec => []CancelledCaptureRefunded
<1>1. OutboxInv => CancelledCaptureRefunded
  <2> SUFFICES ASSUME OutboxInv, NEW s \in Sessions,
                      row[<<s, "cancel_for_order">>].status = "sent", session[s] = "captured"
               PROVE  s \in refund
    BY DEF CancelledCaptureRefunded
  <2> DEFINE e == <<s, "cancel_for_order">>
  <2>1. e \in Events /\ SessionOf(e) = s /\ TypeOf(e) = "cancel_for_order"
    BY DEF Events, EventTypes, SessionOf, TypeOf
  <2>2. Agrees(e, row[e].action)
    BY <2>1 DEF OutboxInv, SentAgreesWithWlt
  <2> QED
    BY <2>1, <2>2 DEF Agrees, CodStatus
<1> QED
  BY <1>1, OutboxInvariant, PTL

\* No step of any worker, operator or late request changes a sent row.
LEMMA SentRowsStay ==
  TypeOK /\ FencingInv /\ [Next]_vars
    => [\A e \in Events : row[e].status = "sent" => row'[e] = row[e]]_vars
<1> SUFFICES ASSUME TypeOK, FencingInv, [Next]_vars,
                    NEW e \in Events, row[e].status = "sent"
             PROVE  row'[e] = row[e]
  OBVIOUS
<1>1. ASSUME NEW d \in Events, Enqueue(d) PROVE row'[e] = row[e]
  BY <1>1 DEF Enqueue, TypeOK
<1>2. ASSUME NEW s \in Sessions, Journey(s) PROVE row'[e] = row[e]
  <2>1. \A type \in EventTypes : <<s, type>> \in Events
    BY DEF Events
  <2> QED
    BY <1>1, <1>2, <2>1 DEF EventTypes, Journey, AbandonCheckout, CreateOrder,
       EnqueueRelease, CancelOrder, DeliverOrder, ReserveCod, FinalizeCod, SessionProgress
<1>3. ASSUME NEW w \in Workers, Claim(w) PROVE row'[e] = row[e]
  BY <1>3, ClaimShape DEF Claimable
<1>4. ASSUME NEW w \in Workers, NEW j \in work[w],
             \/ MarkSent(w, j) \/ MarkDeliveryFailure(w, j) \/ MarkOutcomeUnknown(w, j)
             \/ MarkReadbackAbsent(w, j) \/ MarkInvalidOperatorContext(w, j)
      PROVE  row'[e] = row[e]
  <2>1. CASE ~Holds(j)
    BY <1>4, <2>1, RecordShape
  <2>2. CASE Holds(j)
    <3>1. e # j.ev
      BY <2>2 DEF Holds
    <3>2. \E new : row' = [row EXCEPT ![j.ev] = new]
      BY <1>4, <2>2, RecordShape
    <3> QED
      BY <3>1, <3>2 DEF TypeOK
  <2> QED
    BY <2>1, <2>2
<1>5. ASSUME NEW w \in Workers, Process(w) PROVE row'[e] = row[e]
  BY <1>4, <1>5 DEF Process, Dispatch, ConfirmExpiry, Reconcile
<1>6. ASSUME NEW d \in Events,
             \/ LapseHeld(d) \/ LapseOrphaned(d)
             \/ RetryFailed(d) \/ RequeueForReconciliation(d)
      PROVE  row'[e] = row[e]
  BY <1>6 DEF LapseHeld, LapseOrphaned, LeaseLapse, RetryFailed,
     RequeueForReconciliation, TypeOK
<1> QED
  BY <1>2, <1>3, <1>5, <1>6 DEF Next, Crash, LoseMark, LateMutation, LostMutation, vars

\* A row recorded as sent never changes again (MarkSentWithResult).
THEOREM SentRowsFinal == Spec => SentIsFinal
BY SentRowsStay, TypeCorrect, FencingInvariant, PTL DEF Spec, SentIsFinal
=============================================================================
