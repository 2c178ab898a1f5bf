------------------------ MODULE PaymentSessionProofs ------------------------
(***************************************************************************)
(* Proofs about PaymentSession, for any set of keys and any bounds: types, *)
(* truth of a capture, the reconciliation cases, and the refinements of    *)
(* PaymentOutcome and SessionCourse.                                       *)
(***************************************************************************)
EXTENDS PaymentSession, FiniteSetTheorems, TLAPS

LEMMA InitType == Init => TypeOK
<1> SUFFICES ASSUME Init PROVE TypeOK OBVIOUS
<1>1. status \in OnlineStatus /\ bound \in BOOLEAN /\ ledger \in BOOLEAN
  BY DEF Init, OnlineStatus
<1>2. receipt \in [Requests -> ReceiptState] /\ stage \in [Requests -> Stages]
  BY DEF Init, ReceiptState, Stages
<1>3. cases \subseteq Operations /\ outbox \subseteq Decided /\ late \subseteq Operations
      /\ emitted \subseteq RailStatus /\ processed \subseteq emitted
  BY DEF Init
<1>4. rail \in RailStatus \cup {"none"} /\ refresh \in RailStatus \cup {"none"}
  BY DEF Init
<1>5. crashes \in Nat /\ lates \in Nat /\ stales \in Nat
  BY DEF Init
<1> QED BY <1>1, <1>2, <1>3, <1>4, <1>5 DEF TypeOK

LEMMA StageType ==
  ASSUME stage \in [Requests -> Stages], NEW r \in Requests, NEW s \in Stages, Goto(r, s)
  PROVE  stage' \in [Requests -> Stages]
  BY DEF Goto

\* A decision moves the session to an online status and tells DSH a decided one.
LEMMA BecomeType ==
  ASSUME TypeOK, NEW s \in RailStatus, Become(s)
  PROVE  status' \in OnlineStatus /\ ledger' \in BOOLEAN /\ outbox' \subseteq Decided
  BY DEF TypeOK, Become, PostCaptured, UpdateState, RailStatus, OnlineStatus, Decided

LEMMA RequestOp == ASSUME NEW r \in Requests PROVE OpOf(r) \in Operations
  BY DEF Requests, OpOf

LEMMA ReachType ==
  ASSUME TypeOK, NEW s \in RailStatus, Reach(s)
  PROVE  rail' \in RailStatus \cup {"none"} /\ emitted' \subseteq RailStatus /\ emitted \subseteq emitted'
  BY DEF TypeOK, Reach

LEMMA ProviderType ==
  ASSUME TypeOK, NEW op, Approves(op) \/ Declines(op)
  PROVE  rail' \in RailStatus \cup {"none"} /\ emitted' \subseteq RailStatus /\ emitted \subseteq emitted'
  BY DEF TypeOK, Approves, Declines, Reach, RailStatus, provider

LEMMA OutstandingType ==
  ASSUME TypeOK, NEW r \in Requests, Outstanding(r)
  PROVE  late' \subseteq Operations /\ lates' \in Nat
  BY RequestOp DEF TypeOK, Outstanding

LEMMA ApplyType ==
  ASSUME TypeOK, NEW s \in RailStatus, Apply(s)
  PROVE  /\ status' \in OnlineStatus /\ bound' \in BOOLEAN /\ cases' \subseteq Operations
         /\ ledger' \in BOOLEAN /\ outbox' \subseteq Decided
  BY BecomeType DEF TypeOK, Apply, session

LEMMA HandleType ==
  ASSUME TypeOK, NEW r \in Requests, Handle(r)
  PROVE  TypeOK'
<1>1. OpOf(r) \in Operations BY RequestOp
<1>2. CASE Begin(r)
  BY <1>2 DEF TypeOK, Begin, Goto, session, provider, bounds, ReceiptState, Stages
<1>3. CASE Claim(r)
  BY <1>3 DEF TypeOK, Claim, Goto, provider, bounds, Stages, Pending, OnlineStatus
<1>4. CASE ClaimConflict(r)
  BY <1>4 DEF TypeOK, ClaimConflict, Goto, session, provider, bounds, Stages
<1>5. CASE Execute(r)
  <2>1. rail' \in RailStatus \cup {"none"} /\ emitted' \subseteq RailStatus /\ emitted \subseteq emitted'
    BY <1>5, ProviderType DEF Execute
  <2> QED BY <2>1, <1>5 DEF TypeOK, Execute, Goto, session, bounds, Stages
<1>6. CASE Lose(r)
  BY <1>6, OutstandingType DEF TypeOK, Lose, Goto, session, provider, Stages
<1>7. CASE Finalize(r)
  <2>1. Done(OpOf(r)) \in RailStatus BY <1>1 DEF Done, RailStatus
  <2>2. status' \in OnlineStatus /\ ledger' \in BOOLEAN /\ outbox' \subseteq Decided
    BY <2>1, <1>7, BecomeType DEF Finalize
  <2> QED BY <2>2, <1>7 DEF TypeOK, Finalize, Goto, provider, bounds, Stages
<1>8. CASE Decline(r)
  BY <1>8 DEF TypeOK, Decline, Goto, UpdateState, provider, bounds, Stages, OnlineStatus, Decided
<1>9. CASE Recover(r)
  BY <1>1, <1>9 DEF TypeOK, Recover, Goto, RecordsLoss, LostStatus, provider, bounds, Stages, OnlineStatus
<1>10. CASE Finish(r)
  <2>1. Classified(r) \in ReceiptState BY DEF Classified, ReceiptState
  <2> QED BY <2>1, <1>10 DEF TypeOK, Finish, Goto, session, provider, bounds, Stages
<1>11. CASE Crash(r)
  BY <1>11, OutstandingType, BoundsAssumption DEF TypeOK, Crash, Goto, session, provider, Stages
<1> QED
  BY <1>2, <1>3, <1>4, <1>5, <1>6, <1>7, <1>8, <1>9, <1>10, <1>11 DEF Handle

LEMMA OtherType ==
  ASSUME TypeOK, Next, ~ \E r \in Requests : Handle(r)
  PROVE  TypeOK'
<1>1. CASE \E op \in Operations : LateExecution(op)
  <2>1. PICK op \in Operations : LateExecution(op) BY <1>1
  <2>2. rail' \in RailStatus \cup {"none"} /\ emitted' \subseteq RailStatus /\ emitted \subseteq emitted'
    BY <2>1, ProviderType DEF LateExecution
  <2> QED BY <2>1, <2>2 DEF TypeOK, LateExecution, session, calls, bounds
<1>2. CASE \E op \in Operations : Resolve(op)
  <2>1. PICK op \in Operations : Resolve(op) BY <1>2
  <2>2. Confirmed(op) \in RailStatus BY DEF Confirmed, Done, RailStatus
  <2>3. status' \in OnlineStatus /\ ledger' \in BOOLEAN /\ outbox' \subseteq Decided
    BY <2>1, <2>2, BecomeType DEF Resolve
  <2> QED BY <2>1, <2>3 DEF TypeOK, Resolve, calls, provider, bounds
<1>3. CASE \E s \in RailStatus : Webhook(s)
  <2>1. PICK s \in RailStatus : Webhook(s) BY <1>3
  <2>2. Apply(s) BY <2>1 DEF Webhook
  <2> QED BY <2>1, <2>2, ApplyType DEF TypeOK, Webhook, Timely, calls, provider
<1>4. CASE RefreshRead
  BY <1>4 DEF TypeOK, RefreshRead, session, calls, provider, bounds
<1>5. CASE RefreshApply
  <2>1. refresh \in RailStatus /\ Apply(refresh) BY <1>5 DEF RefreshApply, TypeOK
  <2> QED BY <2>1, <1>5, ApplyType DEF TypeOK, RefreshApply, Timely, calls, provider
<1>6. CASE ProviderExpires
  BY <1>6, ReachType DEF TypeOK, ProviderExpires, session, calls, bounds, RailStatus
<1>7. CASE Expire
  BY <1>7 DEF TypeOK, Expire, UpdateState, calls, provider, bounds, OnlineStatus, Decided
<1> QED BY <1>1, <1>2, <1>3, <1>4, <1>5, <1>6, <1>7 DEF Next

LEMMA NextType == TypeOK /\ [Next]_vars => TypeOK'
<1>1. CASE UNCHANGED vars
  BY <1>1 DEF TypeOK, vars, session, calls, provider, bounds
<1> QED BY <1>1, HandleType, OtherType

\* Sessions, cases, receipts, calls, provider statuses and events stay well typed,
\* for any number of keys (PaymentSession as a whole).
THEOREM SessionTyped == Spec => []TypeOK
<1>1. TypeOK /\ [Next]_vars => TypeOK' BY NextType
<1> QED BY <1>1, InitType, PTL DEF Spec

-----------------------------------------------------------------------------
(* Decisions. Every step leaves the session's books alone, moves it between *)
(* undecided statuses, or decides it.                                       *)

KeepBooks == UNCHANGED <<status, ledger, outbox>>
Progress == status \notin Decided /\ status' \notin Decided /\ UNCHANGED <<ledger, outbox>>
Settle == status \notin Decided /\ \E s \in RailStatus : Become(s)

LEMMA BecomeSettles ==
  ASSUME NEW s \in RailStatus, Become(s), status \notin Decided
  PROVE  Settle
  BY DEF Settle

LEMMA LegalLeavesOpen ==
  ASSUME NEW s \in RailStatus, LegalAuthoritative(status, s), status # s
  PROVE  status \notin Decided
  BY DEF LegalAuthoritative, Decided

LEMMA ApplySettles ==
  ASSUME NEW s \in RailStatus, Apply(s)
  PROVE  KeepBooks \/ Settle
  BY BecomeSettles, LegalLeavesOpen DEF Apply, KeepBooks, session

LEMMA HandleSettles ==
  ASSUME NEW r \in Requests, Handle(r)
  PROVE  KeepBooks \/ Progress \/ Settle
<1>1. OpOf(r) \in Operations BY RequestOp
<1>2. CASE Begin(r) BY <1>2 DEF Begin, KeepBooks, session
<1>3. CASE Claim(r)
  BY <1>3 DEF Claim, AllowedFrom, Pending, Progress, Decided
<1>4. CASE ClaimConflict(r) BY <1>4 DEF ClaimConflict, KeepBooks, session
<1>5. CASE Execute(r) BY <1>5 DEF Execute, KeepBooks, session
<1>6. CASE Lose(r) BY <1>6 DEF Lose, KeepBooks, session
<1>7. CASE Finalize(r)
  <2>1. Done(OpOf(r)) \in RailStatus /\ status \notin Decided
    BY <1>1, <1>7 DEF Finalize, Done, Pending, RailStatus, Decided
  <2> QED BY <2>1, <1>7, BecomeSettles DEF Finalize
<1>8. CASE Decline(r)
  <2>1. CASE status = Pending(OpOf(r)) /\ UpdateState("failed")
    <3>1. "failed" \in RailStatus /\ Become("failed") BY <2>1 DEF Become, RailStatus
    <3>2. status \notin Decided BY <2>1 DEF Pending, Decided
    <3> QED BY <3>1, <3>2, BecomeSettles
  <2> QED BY <2>1, <1>8 DEF Decline, KeepBooks
<1>9. CASE Recover(r)
  BY <1>9 DEF Recover, RecordsLoss, LostStatus, Pending, Progress, KeepBooks, Decided
<1>10. CASE Finish(r) BY <1>10 DEF Finish, KeepBooks, session
<1>11. CASE Crash(r) BY <1>11 DEF Crash, KeepBooks, session
<1> QED
  BY <1>2, <1>3, <1>4, <1>5, <1>6, <1>7, <1>8, <1>9, <1>10, <1>11 DEF Handle

LEMMA StepSettles ==
  ASSUME TypeOK, [Next]_vars
  PROVE  KeepBooks \/ Progress \/ Settle
<1>1. CASE UNCHANGED vars BY <1>1 DEF vars, session, KeepBooks
<1>2. CASE \E r \in Requests : Handle(r) BY <1>2, HandleSettles
<1>3. CASE \E op \in Operations : LateExecution(op)
  BY <1>3 DEF LateExecution, KeepBooks, session
<1>4. CASE \E op \in Operations : Resolve(op)
  <2>1. PICK op \in Operations : Resolve(op) BY <1>4
  <2>2. Confirmed(op) \in RailStatus BY DEF Confirmed, Done, RailStatus
  <2>3. status \notin Decided BY <2>1 DEF Resolve, Decided
  <2> QED BY <2>1, <2>2, <2>3, BecomeSettles DEF Resolve
<1>5. CASE \E s \in RailStatus : Webhook(s) BY <1>5, ApplySettles DEF Webhook
<1>6. CASE RefreshRead BY <1>6 DEF RefreshRead, KeepBooks, session
<1>7. CASE RefreshApply BY <1>7, ApplySettles DEF RefreshApply, TypeOK
<1>8. CASE ProviderExpires BY <1>8 DEF ProviderExpires, KeepBooks, session
<1>9. CASE Expire
  <2>1. "expired" \in RailStatus /\ Become("expired") BY <1>9 DEF Expire, Become, RailStatus
  <2>2. status \notin Decided BY <1>9 DEF Expire, Expirable, Decided
  <2> QED BY <2>1, <2>2, BecomeSettles
<1> QED
  BY <1>1, <1>2, <1>3, <1>4, <1>5, <1>6, <1>7, <1>8, <1>9 DEF Next

LEMMA InitBooks == Init => Books
  BY DEF Init, Books, Decided

\* The status a decision reaches, and what it tells and books.
LEMMA BecomeBooks ==
  ASSUME Books, status \notin Decided, NEW s \in RailStatus, Become(s)
  PROVE  status' = s /\ outbox' = {s} \cap Decided /\ ledger' = (s = "captured")
<1>1. outbox = {} BY DEF Books
<1>2. ledger = FALSE BY DEF Books, Decided
<1>3. CASE s = "captured" /\ PostCaptured
  BY <1>1, <1>3 DEF PostCaptured, Decided
<1>4. CASE s # "captured" /\ UpdateState(s)
  <2>1. outbox' = {s} \cap Decided BY <1>1, <1>4 DEF UpdateState, Decided
  <2>2. ledger' = FALSE BY <1>2, <1>4 DEF UpdateState
  <2> QED BY <2>1, <2>2, <1>4 DEF UpdateState
<1> QED BY <1>3, <1>4 DEF Become

LEMMA NextBooks == TypeOK /\ Books /\ [Next]_vars => Books'
<1> SUFFICES ASSUME TypeOK, Books, [Next]_vars PROVE Books' OBVIOUS
<1>1. CASE KeepBooks BY <1>1 DEF KeepBooks, Books
<1>2. CASE Progress
  <2>1. outbox' = {status'} \cap Decided BY <1>2 DEF Progress, Books
  <2>2. ledger' = (status' = "captured") BY <1>2 DEF Progress, Books, Decided
  <2> QED BY <2>1, <2>2 DEF Books
<1>3. CASE Settle BY <1>3, BecomeBooks DEF Settle, Books
<1> QED BY <1>1, <1>2, <1>3, StepSettles

\* Each step of the session is a decision of PaymentOutcome or leaves it unchanged.
LEMMA OutcomeStep ==
  ASSUME TypeOK, Books, [Next]_vars
  PROVE  [Outcome!Next]_<<IF status \in Decided THEN status ELSE "open", ledger, outbox>>
<1>1. CASE KeepBooks BY <1>1 DEF KeepBooks
<1>2. CASE Progress BY <1>2 DEF Progress
<1>3. CASE Settle
  <2>1. PICK s \in RailStatus : Become(s) BY <1>3 DEF Settle
  <2>2. status \notin Decided BY <1>3 DEF Settle
  <2>3. status' = s /\ outbox' = {s} \cap Decided /\ ledger' = (s = "captured")
    BY <2>1, <2>2, BecomeBooks
  <2>4. CASE s \in Decided
    <3>1. outbox' = {s} BY <2>3, <2>4
    <3>2. Outcome!Decide(s) BY <2>2, <2>3, <2>4, <3>1 DEF Outcome!Decide
    <3>3. s \in Outcome!Outcomes BY <2>4 DEF Decided, Outcome!Outcomes
    <3> QED BY <3>2, <3>3 DEF Outcome!Next
  <2>5. CASE s \notin Decided
    <3>1. outbox' = outbox BY <2>2, <2>3, <2>5 DEF Books
    <3>2. ledger' = ledger BY <2>2, <2>3, <2>5 DEF Books, Decided
    <3> QED BY <2>2, <2>3, <2>5, <3>1, <3>2
  <2> QED BY <2>4, <2>5
<1> QED BY <1>1, <1>2, <1>3, StepSettles

LEMMA OutcomeInit == Init => Outcome!Init
  BY DEF Init, Outcome!Init, Decided

\* The session implements PaymentOutcome: calls, events, refreshes, operators and
\* expiries decide it at most once, DSH is told that decision only, and the ledger
\* holds exactly a captured decision.
THEOREM OutcomeRefined == Spec => DecidedOnce
<1>1. TypeOK /\ Books /\ [Next]_vars => (TypeOK /\ Books)' BY NextType, NextBooks
<1>2. Init => TypeOK /\ Books BY InitType, InitBooks
<1>3. TypeOK /\ Books /\ [Next]_vars
        => [Outcome!Next]_<<IF status \in Decided THEN status ELSE "open", ledger, outbox>>
  BY OutcomeStep
<1> QED BY <1>1, <1>2, <1>3, OutcomeInit, PTL DEF Spec, DecidedOnce, Outcome!Spec

-----------------------------------------------------------------------------
(* Truth: WLT hears of a capture only after the provider has captured.     *)

LEMMA InitHeard == Init => CaptureHeard
  BY DEF Init, CaptureHeard, CapturedIsReal

LEMMA BecomeCaptured ==
  ASSUME NEW s \in RailStatus, Become(s), status' = "captured"
  PROVE  s = "captured"
  BY DEF Become, UpdateState

\* Nothing the provider does takes a capture back, and it reports none before.
LEMMA ProviderHeard ==
  ASSUME CaptureHeard, NEW op, Approves(op) \/ Declines(op)
  PROVE  /\ rail = "captured" => rail' = "captured"
         /\ "captured" \in emitted' => rail' = "captured"
         /\ Approves(op) /\ op = "capture" => rail' = "captured"
  BY DEF CaptureHeard, Approves, Declines, Reach, provider

LEMMA ApplyHeard ==
  ASSUME CaptureHeard, NEW s \in RailStatus, Apply(s), s = "captured" => rail = "captured"
  PROVE  status' = "captured" => rail = "captured"
  BY BecomeCaptured DEF Apply, CaptureHeard, CapturedIsReal, session

LEMMA HandleHeard ==
  ASSUME TypeOK, CaptureHeard, NEW r \in Requests, Handle(r)
  PROVE  CaptureHeard'
<1> USE DEF CaptureHeard, CapturedIsReal
<1>1. OpOf(r) \in Operations /\ stage \in [Requests -> Stages]
  BY RequestOp DEF TypeOK
<1>2. CASE Begin(r) BY <1>1, <1>2 DEF Begin, Goto, session, provider
<1>3. CASE Claim(r) BY <1>1, <1>3 DEF Claim, Goto, Pending, provider
<1>4. CASE ClaimConflict(r) BY <1>1, <1>4 DEF ClaimConflict, Goto, session, provider
<1>5. CASE Execute(r)
  <2>1. /\ rail = "captured" => rail' = "captured"
        /\ "captured" \in emitted' => rail' = "captured"
        /\ Approves(OpOf(r)) /\ OpOf(r) = "capture" => rail' = "captured"
    BY <1>5, ProviderHeard DEF Execute
  <2>2. status' = status /\ refresh' = refresh BY <1>5 DEF Execute, session
  <2>3. CASE Approves(OpOf(r)) /\ Goto(r, "approved")
    BY <1>1, <2>1, <2>2, <2>3 DEF Goto
  <2>4. CASE Goto(r, "declined")
    BY <1>1, <2>1, <2>2, <2>4 DEF Goto
  <2> QED BY <2>3, <2>4, <1>5 DEF Execute
<1>6. CASE Lose(r) BY <1>1, <1>6 DEF Lose, Goto, session, provider
<1>7. CASE Finalize(r)
  <2>1. Done(OpOf(r)) \in RailStatus BY <1>1 DEF Done, RailStatus
  <2>2. status' = "captured" => OpOf(r) = "capture"
    <3>1. status' = "captured" => Done(OpOf(r)) = "captured"
      BY <1>7, <2>1, BecomeCaptured DEF Finalize
    <3>2. Done(OpOf(r)) = "captured" => OpOf(r) = "capture" BY <1>1 DEF Done, Operations
    <3> QED BY <3>1, <3>2
  <2> QED BY <1>1, <1>7, <2>2 DEF Finalize, Goto, provider
<1>8. CASE Decline(r) BY <1>1, <1>8 DEF Decline, Goto, UpdateState, provider
<1>9. CASE Recover(r) BY <1>1, <1>9 DEF Recover, LostStatus, Goto, provider
<1>10. CASE Finish(r) BY <1>1, <1>10 DEF Finish, Goto, session, provider
<1>11. CASE Crash(r) BY <1>1, <1>11 DEF Crash, Goto, session, provider
<1> QED
  BY <1>2, <1>3, <1>4, <1>5, <1>6, <1>7, <1>8, <1>9, <1>10, <1>11 DEF Handle

LEMMA NextHeard == TypeOK /\ CaptureHeard /\ [Next]_vars => CaptureHeard'
<1> SUFFICES ASSUME TypeOK, CaptureHeard, [Next]_vars PROVE CaptureHeard' OBVIOUS
<1> USE DEF CaptureHeard, CapturedIsReal
<1>1. CASE UNCHANGED vars BY <1>1 DEF vars, session, calls, provider
<1>2. CASE \E r \in Requests : Handle(r) BY <1>2, HandleHeard
<1>3. CASE \E op \in Operations : LateExecution(op)
  BY <1>3, ProviderHeard DEF LateExecution, session, calls
<1>4. CASE \E op \in Operations : Resolve(op)
  <2>1. PICK op \in Operations : Resolve(op) BY <1>4
  <2>2. Confirmed(op) \in RailStatus BY DEF Confirmed, Done, RailStatus
  <2>3. Confirmed(op) = "captured" => rail = "captured" BY DEF Confirmed, Done
  <2> QED BY <2>1, <2>2, <2>3, BecomeCaptured DEF Resolve, calls, provider
<1>5. CASE \E s \in RailStatus : Webhook(s)
  BY <1>5, ApplyHeard DEF Webhook, calls, provider
<1>6. CASE RefreshRead BY <1>6 DEF RefreshRead, session, calls, provider
<1>7. CASE RefreshApply
  <2>1. refresh \in RailStatus BY <1>7 DEF RefreshApply, TypeOK
  <2> QED BY <2>1, <1>7, ApplyHeard DEF RefreshApply, calls, provider
<1>8. CASE ProviderExpires BY <1>8 DEF ProviderExpires, Reach, session, calls
<1>9. CASE Expire BY <1>9 DEF Expire, UpdateState, calls, provider
<1> QED
  BY <1>1, <1>2, <1>3, <1>4, <1>5, <1>6, <1>7, <1>8, <1>9 DEF Next

\* A captured session is captured at the provider, whatever was lost, late or
\* stale (CaptureSessionWithProvider, postCapturedProviderResult).
THEOREM CaptureTruth == Spec => []CapturedIsReal
<1>1. TypeOK /\ CaptureHeard /\ [Next]_vars => (TypeOK /\ CaptureHeard)'
  BY NextType, NextHeard
<1>2. CaptureHeard => CapturedIsReal BY DEF CaptureHeard
<1> QED BY <1>1, <1>2, InitType, InitHeard, PTL DEF Spec

-----------------------------------------------------------------------------
(* Reconciliation cases.                                                   *)

LEMMA InitCases == Init => CasesInv
  BY DEF Init, CasesInv, Operations

LEMMA ApplyCases ==
  ASSUME TypeOK, CasesInv, NEW s \in RailStatus, Apply(s)
  PROVE  CasesInv'
<1> USE DEF CasesInv, Operations, Decided, RailStatus
<1>1. CASE UNCHANGED session BY <1>1 DEF session
<1>2. CASE LegalAuthoritative(status, s) /\ cases' = cases \ ClosedBy(s)
  <2>1. s = "authorized" => "authorize" \notin cases' BY <1>2 DEF ClosedBy
  <2>2. cases' \subseteq cases BY <1>2
  <2>3. status' = s
    BY <1>2 DEF Apply, Become, PostCaptured, UpdateState, session
  <2> QED BY <2>1, <2>2, <2>3 DEF TypeOK
<1> QED BY <1>1, <1>2 DEF Apply

LEMMA HandleCases ==
  ASSUME TypeOK, CasesInv, NEW r \in Requests, Handle(r)
  PROVE  CasesInv'
<1> USE DEF CasesInv
<1>1. OpOf(r) \in Operations BY RequestOp
<1>2. CASE Begin(r) BY <1>2 DEF Begin, session
<1>3. CASE Claim(r)
  BY <1>1, <1>3 DEF Claim, AllowedFrom, Pending, Operations, Decided
<1>4. CASE ClaimConflict(r) BY <1>4 DEF ClaimConflict, session
<1>5. CASE Execute(r) BY <1>5 DEF Execute, session
<1>6. CASE Lose(r) BY <1>6 DEF Lose, session
<1>7. CASE Finalize(r)
  BY <1>1, <1>7 DEF Finalize, Become, PostCaptured, UpdateState, Done, Pending, Operations, Decided
<1>8. CASE Decline(r) BY <1>8 DEF Decline, UpdateState, Decided
<1>9. CASE Recover(r)
  BY <1>1, <1>9 DEF Recover, RecordsLoss, LostStatus, Pending, Operations, Decided, TypeOK
<1>10. CASE Finish(r) BY <1>10 DEF Finish, session
<1>11. CASE Crash(r) BY <1>11 DEF Crash, session
<1> QED
  BY <1>2, <1>3, <1>4, <1>5, <1>6, <1>7, <1>8, <1>9, <1>10, <1>11 DEF Handle

LEMMA NextCases == TypeOK /\ CasesInv /\ [Next]_vars => CasesInv'
<1> SUFFICES ASSUME TypeOK, CasesInv, [Next]_vars PROVE CasesInv' OBVIOUS
<1>1. CASE UNCHANGED vars BY <1>1 DEF vars, session, CasesInv
<1>2. CASE \E r \in Requests : Handle(r) BY <1>2, HandleCases
<1>3. CASE \E op \in Operations : LateExecution(op)
  BY <1>3 DEF LateExecution, session, CasesInv
<1>4. CASE \E op \in Operations : Resolve(op)
  <2>1. PICK op \in Operations : Resolve(op) BY <1>4
  <2>2. cases' = {}
    BY <2>1 DEF Resolve, CasesInv, Operations, TypeOK
  <2>3. status' \in {"authorized", "captured", "failed"}
    BY <2>1 DEF Resolve, Become, PostCaptured, UpdateState, Confirmed, Done
  <2> QED BY <2>2, <2>3 DEF CasesInv, Operations
<1>5. CASE \E s \in RailStatus : Webhook(s) BY <1>5, ApplyCases DEF Webhook
<1>6. CASE RefreshRead BY <1>6 DEF RefreshRead, session, CasesInv
<1>7. CASE RefreshApply BY <1>7, ApplyCases DEF RefreshApply, TypeOK
<1>8. CASE ProviderExpires BY <1>8 DEF ProviderExpires, session, CasesInv
<1>9. CASE Expire BY <1>9 DEF Expire, UpdateState, CasesInv, Decided
<1> QED
  BY <1>1, <1>2, <1>3, <1>4, <1>5, <1>6, <1>7, <1>8, <1>9 DEF Next

LEMMA AtMostOneCase ==
  ASSUME cases \subseteq Operations, cases # Operations
  PROVE  Cardinality(cases) <= 1
<1>1. CASE cases = {} BY <1>1, FS_EmptySet
<1>2. CASE cases # {}
  <2>1. PICK op \in cases : cases = {op} BY <1>2 DEF Operations
  <2> QED BY <2>1, FS_Singleton
<1> QED BY <1>1, <1>2

\* There is never more than one open case, and always one while the outcome is
\* unknown: openReconciliationCaseForProviderEvent never fails on several cases.
THEOREM OneCase == Spec => []OneCaseWhenUnknown
<1>1. TypeOK /\ CasesInv /\ [Next]_vars => (TypeOK /\ CasesInv)'
  BY NextType, NextCases
<1>2. TypeOK /\ CasesInv => OneCaseWhenUnknown
  BY AtMostOneCase DEF TypeOK, CasesInv, OneCaseWhenUnknown
<1> QED BY <1>1, <1>2, InitType, InitCases, PTL DEF Spec

-----------------------------------------------------------------------------
(* The course of a session: what other modules assume of its moves.        *)

LEMMA BecomeStatus == ASSUME NEW s, Become(s) PROVE status' = s
  BY DEF Become, PostCaptured, UpdateState

\* A legal answer, a claim, a loss: each is a step of the course.
LEMMA LegalFollows ==
  ASSUME NEW s \in OnlineStatus, status' = s, status # s, LegalAuthoritative(status, s)
  PROVE  Course!Next
  BY DEF Course!Next, Course!Progress, Course!ProviderStep, LegalAuthoritative,
         Course!LegalAuthoritative, OnlineStatus, Course!OnlineStatus

LEMMA RailIsOnline == RailStatus \subseteq OnlineStatus
  BY DEF RailStatus, OnlineStatus

LEMMA ApplyFollows ==
  ASSUME NEW s \in RailStatus, Apply(s)
  PROVE  Course!Next \/ status' = status
<1>1. CASE LegalAuthoritative(status, s) /\ status # s /\ Become(s)
  BY <1>1, BecomeStatus, LegalFollows, RailIsOnline
<1> QED BY <1>1 DEF Apply, session

LEMMA ClaimFollows ==
  ASSUME NEW r \in Requests, Claim(r)
  PROVE  Course!Next
<1>1. \/ status \in {"reference_created", "pending_provider"}
         /\ status' = "authorization_pending"
      \/ status = "authorized" /\ status' = "capture_pending"
  <2>1. OpOf(r) \in Operations /\ status \in AllowedFrom(OpOf(r))
        /\ status' = Pending(OpOf(r))
    BY RequestOp DEF Claim
  <2> QED BY <2>1 DEF Operations, AllowedFrom, Pending
<1> QED BY <1>1 DEF Course!Next, Course!Progress, Course!ProviderStep, Course!OnlineStatus

\* A call that ends moves the session only from the status it claimed.
LEMMA EndFollows ==
  ASSUME NEW r \in Requests, Finalize(r) \/ Decline(r) \/ Recover(r)
  PROVE  Course!Next \/ status' = status
<1>1. OpOf(r) \in Operations BY RequestOp
<1>2. CASE Finalize(r)
  <2>1. status = Pending(OpOf(r)) /\ status' = Done(OpOf(r))
    BY <1>2, BecomeStatus DEF Finalize
  <2> QED BY <1>1, <2>1, LegalFollows
          DEF Operations, Pending, Done, LegalAuthoritative, OnlineStatus
<1>3. CASE Decline(r)
  <2>1. CASE status = Pending(OpOf(r)) /\ UpdateState("failed")
    BY <1>1, <2>1, LegalFollows
    DEF UpdateState, Operations, Pending, LegalAuthoritative, OnlineStatus
  <2> QED BY <1>3, <2>1 DEF Decline
<1>4. CASE Recover(r)
  <2>1. CASE status = Pending(OpOf(r)) /\ status' = "provider_result_unknown"
    BY <1>1, <2>1 DEF Operations, Pending, Course!Next, Course!Progress,
                      Course!ProviderStep, Course!OnlineStatus
  <2> QED BY <1>4, <2>1 DEF Recover, RecordsLoss, LostStatus
<1> QED BY <1>2, <1>3, <1>4

LEMMA HandleFollows ==
  ASSUME NEW r \in Requests, Handle(r)
  PROVE  Course!Next \/ status' = status
<1>1. CASE Claim(r) BY <1>1, ClaimFollows
<1>2. CASE Finalize(r) \/ Decline(r) \/ Recover(r) BY <1>2, EndFollows
<1>3. CASE Begin(r) \/ ClaimConflict(r) \/ Execute(r)
  BY <1>3 DEF Begin, ClaimConflict, Execute, session
<1>4. CASE Lose(r) \/ Finish(r) \/ Crash(r)
  BY <1>4 DEF Lose, Finish, Crash, session
<1> QED BY <1>1, <1>2, <1>3, <1>4 DEF Handle

LEMMA StepFollows ==
  ASSUME TypeOK, [Next]_vars
  PROVE  [Course!Next]_status
<1>1. CASE UNCHANGED vars BY <1>1 DEF vars, session
<1>2. CASE \E r \in Requests : Handle(r) BY <1>2, HandleFollows
<1>3. CASE \E op \in Operations : LateExecution(op) BY <1>3 DEF LateExecution, session
<1>4. CASE \E op \in Operations : Resolve(op)
  <2>1. PICK op \in Operations : Resolve(op) BY <1>4
  <2>2. status' = Confirmed(op) BY <2>1, BecomeStatus DEF Resolve
  <2>3. status = "provider_result_unknown" BY <2>1 DEF Resolve
  <2>4. Confirmed(op) \in {"authorized", "captured", "failed"} BY DEF Confirmed, Done
  <2> QED BY <2>2, <2>3, <2>4, LegalFollows DEF LegalAuthoritative, OnlineStatus
<1>5. CASE \E s \in RailStatus : Webhook(s) BY <1>5, ApplyFollows DEF Webhook
<1>6. CASE RefreshRead BY <1>6 DEF RefreshRead, session
<1>7. CASE RefreshApply BY <1>7, ApplyFollows DEF RefreshApply, TypeOK
<1>8. CASE ProviderExpires BY <1>8 DEF ProviderExpires, session
<1>9. CASE Expire
  BY <1>9 DEF Expire, UpdateState, Expirable, Course!Next, Course!Expire, Course!Expirable
<1> QED
  BY <1>1, <1>2, <1>3, <1>4, <1>5, <1>6, <1>7, <1>8, <1>9 DEF Next

\* A session moves only as CheckoutFinanceOutbox takes its sessions to move, for any
\* number of requests, restarts, late executions and stale statuses: no call that
\* ends late, event, operator or expiry makes another move.
THEOREM CourseFollowed == Spec => StatusFollowsCourse
<1>1. TypeOK /\ [Next]_vars => TypeOK' BY NextType
<1>2. TypeOK /\ [Next]_vars => [Course!Next]_status BY StepFollows
<1>3. Init => Course!Init BY DEF Init, Course!Init
<1> QED BY <1>1, <1>2, <1>3, InitType, PTL DEF Spec, StatusFollowsCourse, Course!Spec
=============================================================================
