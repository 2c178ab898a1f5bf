---------------------- MODULE PaymentSessionClaimProofs ----------------------
(***************************************************************************)
(* More proofs about PaymentSession, for any set of keys and any bounds:   *)
(* the claim of a session, the one authorization it asks for, and, with a  *)
(* punctual provider, the one capture that is never lost.                  *)
(***************************************************************************)
EXTENDS PaymentSessionProofs

Fresh == {"reference_created", "pending_provider"}
Flying(r) == stage[r] \in InFlight

-----------------------------------------------------------------------------
(* What the steps that are no part of a call do to the session.            *)

Quiet ==
  /\ stage' = stage
  /\ status' # status => status' \in RailStatus
  /\ status \in {"capture_pending"} \cup Decided => status' \in Decided \cup {status}
  /\ status \in {"authorization_pending", "capture_pending"} /\ status' = status => cases' = cases
  /\ crashes' = crashes

LEMMA ApplyQuiet ==
  ASSUME NEW s \in RailStatus, Apply(s)
  PROVE  /\ status' # status => status' = s
         /\ status \in {"capture_pending"} \cup Decided => status' \in Decided \cup {status}
         /\ status \in {"authorization_pending", "capture_pending"} /\ status' = status
              => cases' = cases
<1>1. CASE UNCHANGED session BY <1>1 DEF session
<1>2. CASE LegalAuthoritative(status, s) /\ status # s /\ Become(s)
  <2>1. status' = s BY <1>2, BecomeStatus
  <2>2. status \in {"capture_pending"} \cup Decided => s \in Decided
    BY <1>2 DEF LegalAuthoritative, Decided
  <2> QED BY <1>2, <2>1, <2>2
<1>3. CASE status = s /\ UNCHANGED <<status, bound, ledger, outbox>>
  BY <1>3 DEF RailStatus
<1> QED BY <1>1, <1>2, <1>3 DEF Apply

LEMMA OtherQuiet ==
  ASSUME TypeOK, [Next]_vars, ~ \E r \in Requests : Handle(r)
  PROVE  Quiet
<1>1. CASE UNCHANGED vars BY <1>1 DEF vars, session, calls, bounds, Quiet
<1>2. CASE \E op \in Operations : LateExecution(op)
  BY <1>2 DEF LateExecution, session, calls, bounds, Quiet
<1>3. CASE \E op \in Operations : Resolve(op)
  <2>1. PICK op \in Operations : Resolve(op) BY <1>3
  <2>2. Confirmed(op) \in RailStatus BY DEF Confirmed, Done, RailStatus
  <2>3. status' = Confirmed(op) BY <2>1, <2>2, BecomeStatus DEF Resolve
  <2> QED BY <2>1, <2>2, <2>3 DEF Resolve, calls, bounds, Quiet, Decided
<1>4. CASE \E s \in RailStatus : Webhook(s)
  <2>1. PICK s \in RailStatus : Webhook(s) BY <1>4
  <2> QED BY <2>1, ApplyQuiet DEF Webhook, calls, Quiet
<1>5. CASE RefreshRead BY <1>5 DEF RefreshRead, session, calls, bounds, Quiet
<1>6. CASE RefreshApply
  <2>1. refresh \in RailStatus BY <1>6 DEF RefreshApply, TypeOK
  <2> QED BY <1>6, <2>1, ApplyQuiet DEF RefreshApply, calls, Quiet
<1>7. CASE ProviderExpires BY <1>7 DEF ProviderExpires, session, calls, bounds, Quiet
<1>8. CASE Expire
  BY <1>8 DEF Expire, Expirable, UpdateState, calls, bounds, Quiet, RailStatus, Decided
<1> QED BY <1>1, <1>2, <1>3, <1>4, <1>5, <1>6, <1>7, <1>8 DEF Next

-----------------------------------------------------------------------------
(* The claim. An operation has one call in flight, an authorization leaves *)
(* the fresh statuses for good, and a claimed capture keeps the session    *)
(* until it is decided.                                                    *)

ClaimInv ==
  /\ \A r, q \in Requests : Flying(r) /\ Flying(q) /\ OpOf(r) = OpOf(q) => r = q
  /\ \A r \in Requests : Flying(r) /\ OpOf(r) = "authorize" => status \notin Fresh
  /\ \A r \in Requests :
       Flying(r) /\ OpOf(r) = "capture" => status \in {"capture_pending"} \cup Decided

LEMMA InitClaim == Init => ClaimInv
  BY DEF Init, ClaimInv, Flying, InFlight

\* No call becomes one in flight except by a claim.
LEMMA NoNewCall ==
  ASSUME TypeOK, NEW r \in Requests, NEW s, Goto(r, s), s \in InFlight => Flying(r)
  PROVE  \A q \in Requests : Flying(q)' => Flying(q)
  BY DEF TypeOK, Goto, Flying

LEMMA ClaimKept ==
  ASSUME ClaimInv, \A q \in Requests : Flying(q)' => Flying(q),
         status' \in Fresh => status' = status,
         status \in {"capture_pending"} \cup Decided =>
           \/ status' \in {"capture_pending"} \cup Decided
           \/ \A q \in Requests : Flying(q)' => OpOf(q) # "capture"
  PROVE  ClaimInv'
  BY DEF ClaimInv

LEMMA HandleClaim ==
  ASSUME TypeOK, ClaimInv, NEW r \in Requests, Handle(r)
  PROVE  ClaimInv'
<1>1. OpOf(r) \in Operations BY RequestOp
<1> USE DEF InFlight
<1>2. CASE Begin(r)
  BY <1>2, NoNewCall, ClaimKept DEF Begin, session
<1>3. CASE Claim(r)
  <2>1. \A q \in Requests : Flying(q)' => Flying(q) \/ q = r
    BY <1>3 DEF Claim, TypeOK, Goto, Flying
  <2>2. \A q \in Requests : Flying(q) => OpOf(q) # OpOf(r)
    BY <1>1, <1>3 DEF Claim, ClaimInv, AllowedFrom, Fresh, Operations, Decided
  <2>3. \A q \in Requests : Flying(q) => OpOf(q) # "capture"
    BY <1>1, <1>3 DEF Claim, ClaimInv, AllowedFrom, Operations, Decided
  <2>4. status' = Pending(OpOf(r)) BY <1>3 DEF Claim
  <2> QED BY <1>1, <2>1, <2>2, <2>3, <2>4 DEF ClaimInv, Pending, Fresh, Operations
<1>4. CASE ClaimConflict(r)
  BY <1>4, NoNewCall, ClaimKept DEF ClaimConflict, session
<1>5. CASE Execute(r)
  <2>1. Flying(r) /\ status' = status BY <1>5 DEF Execute, Flying, session
  <2> QED BY <1>5, <2>1, NoNewCall, ClaimKept DEF Execute
<1>6. CASE Lose(r)
  <2>1. Flying(r) /\ status' = status BY <1>6 DEF Lose, Flying, session
  <2> QED BY <1>6, <2>1, NoNewCall, ClaimKept DEF Lose
<1>7. CASE Finalize(r)
  <2>1. Done(OpOf(r)) \in RailStatus BY <1>1 DEF Done, RailStatus
  <2>2. status' = Done(OpOf(r)) BY <1>7, <2>1, BecomeStatus DEF Finalize
  <2>3. status' \notin Fresh BY <2>1, <2>2 DEF Fresh, RailStatus
  <2>4. status \in {"capture_pending"} \cup Decided => status' \in Decided
    BY <1>1, <1>7, <2>2 DEF Finalize, Pending, Done, Decided, Operations
  <2>5. \A q \in Requests : Flying(q)' => Flying(q) BY <1>7, NoNewCall DEF Finalize
  <2> QED BY <2>3, <2>4, <2>5, ClaimKept
<1>8. CASE Decline(r)
  <2>1. status' \in {status, "failed"} BY <1>8 DEF Decline, UpdateState
  <2>2. \A q \in Requests : Flying(q)' => Flying(q) BY <1>8, NoNewCall DEF Decline
  <2> QED BY <2>1, <2>2, ClaimKept DEF Fresh, Decided
<1>9. CASE Recover(r)
  <2>1. \A q \in Requests : Flying(q)' => Flying(q) BY <1>9, NoNewCall DEF Recover
  <2>2. CASE UNCHANGED status BY <2>1, <2>2, ClaimKept
  <2>3. CASE RecordsLoss(OpOf(r)) /\ status' = LostStatus
    <3>1. \A q \in Requests : Flying(q)' => q # r BY <1>9 DEF Recover, TypeOK, Goto, Flying
    <3>2. Flying(r) BY <1>9 DEF Recover, Flying
    <3>3. status = "capture_pending" => OpOf(r) = "capture"
      BY <1>1, <2>3 DEF RecordsLoss, Pending, Operations
    <3>4. status \in {"capture_pending"} \cup Decided =>
            \A q \in Requests : Flying(q)' => OpOf(q) # "capture"
      BY <1>1, <2>1, <2>3, <3>1, <3>2, <3>3 DEF ClaimInv, RecordsLoss, Pending, Decided
    <3>5. status' \notin Fresh BY <2>3 DEF LostStatus, Fresh
    <3> QED BY <2>1, <3>4, <3>5, ClaimKept
  <2> QED BY <1>9, <2>2, <2>3 DEF Recover
<1>10. CASE Finish(r) BY <1>10, NoNewCall, ClaimKept DEF Finish, session
<1>11. CASE Crash(r) BY <1>11, NoNewCall, ClaimKept DEF Crash, session
<1> QED
  BY <1>2, <1>3, <1>4, <1>5, <1>6, <1>7, <1>8, <1>9, <1>10, <1>11 DEF Handle

LEMMA NextClaim == TypeOK /\ ClaimInv /\ [Next]_vars => ClaimInv'
<1> SUFFICES ASSUME TypeOK, ClaimInv, [Next]_vars PROVE ClaimInv' OBVIOUS
<1>1. CASE \E r \in Requests : Handle(r) BY <1>1, HandleClaim
<1>2. CASE ~ \E r \in Requests : Handle(r)
  <2>1. Quiet BY <1>2, OtherQuiet
  <2>2. \A q \in Requests : Flying(q)' => Flying(q) BY <2>1 DEF Quiet, Flying
  <2>3. status' \in Fresh => status' = status BY <2>1 DEF Quiet, RailStatus, Fresh
  <2>4. status \in {"capture_pending"} \cup Decided => status' \in {"capture_pending"} \cup Decided
    BY <2>1 DEF Quiet
  <2> QED BY <2>2, <2>3, <2>4, ClaimKept
<1> QED BY <1>1, <1>2

-----------------------------------------------------------------------------
(* Pending statuses.                                                       *)

\* A request whose key was never used has no handler.
Unused == \A r \in Requests : receipt[r] = "none" => stage[r] = "idle"

LEMMA InitUnused == Init => Unused
  BY DEF Init, Unused

LEMMA NextUnused == TypeOK /\ Unused /\ [Next]_vars => Unused'
<1> SUFFICES ASSUME TypeOK, Unused, [Next]_vars PROVE Unused' OBVIOUS
<1>1. CASE \E r \in Requests : Handle(r)
  <2>1. PICK r \in Requests : Handle(r) BY <1>1
  <2>2. /\ stage \in [Requests -> Stages] /\ receipt \in [Requests -> ReceiptState]
        /\ \E s : Goto(r, s)
    BY <2>1 DEF TypeOK, Handle, Begin, Claim, ClaimConflict, Execute, Lose, Finalize, Decline,
       Recover, Finish, Crash
  <2>3. receipt' = receipt \/ receipt' = [receipt EXCEPT ![r] = "in_progress"]
          \/ receipt' = [receipt EXCEPT ![r] = Classified(r)]
    BY <2>1 DEF Handle, Begin, Claim, ClaimConflict, Execute, Lose, Finalize, Decline,
       Recover, Finish, Crash
  <2>4. Classified(r) # "none"
    BY DEF Classified
  <2>5. \A q \in Requests : q # r => stage'[q] = stage[q] /\ receipt'[q] = receipt[q]
    BY <2>2, <2>3 DEF Goto
  <2>6. receipt'[r] # "none" \/ stage'[r] = "idle"
    <3>1. CASE Begin(r) BY <2>2, <3>1 DEF Begin
    <3>2. CASE Finish(r) BY <2>2, <2>4, <3>2 DEF Finish
    <3>3. CASE Crash(r) BY <2>2, <3>3 DEF Crash, Goto
    <3>4. CASE stage[r] # "idle" /\ receipt' = receipt BY <3>4 DEF Unused
    <3> QED
      BY <2>1, <3>1, <3>2, <3>3, <3>4 DEF Handle, Claim, ClaimConflict, Execute, Lose, Finalize,
         Decline, Recover
  <2> QED BY <2>5, <2>6 DEF Unused
<1>2. CASE ~ \E r \in Requests : Handle(r)
  BY <1>2 DEF Next, vars, calls, Unused, LateExecution, Resolve, Webhook, RefreshRead,
     RefreshApply, ProviderExpires, Expire
<1> QED BY <1>1, <1>2

Explained ==
  \A op \in Operations :
    status = Pending(op) => Callers(op) # {} \/ crashes > 0 \/ op \in cases

LEMMA InitExplained == Init => Explained
  BY DEF Init, Explained, Pending

LEMMA CallersKept ==
  ASSUME Explained, \A q \in Requests : Flying(q) => Flying(q)', status' = status,
         cases \subseteq cases', crashes' = crashes
  PROVE  Explained'
<1>1. \A op \in Operations : Callers(op) # {} => Callers(op)' # {} BY DEF Callers, Flying
<1> QED BY <1>1 DEF Explained, Pending

LEMMA NotPending ==
  ASSUME status' \notin {"authorization_pending", "capture_pending"}
  PROVE  Explained'
  BY DEF Explained, Pending

\* A call that ends without a decision leaves a reason for its own operation, and the
\* calls of the other operation alone.
LEMMA CallEnds ==
  ASSUME TypeOK, Explained, NEW r \in Requests, NEW s \in Stages, Goto(r, s), status' = status,
         cases' = cases, crashes' = crashes,
         status # Pending(OpOf(r)) \/ OpOf(r) \in cases
  PROVE  Explained'
<1>1. \A q \in Requests : q # r => (Flying(q) => Flying(q)')
  BY DEF TypeOK, Goto, Flying
<1>2. \A op \in Operations : op # OpOf(r) /\ Callers(op) # {} => Callers(op)' # {}
  BY <1>1 DEF Callers, Flying
<1> QED BY <1>2 DEF Explained, Pending

LEMMA HandleExplained ==
  ASSUME TypeOK, Unused, Explained, NEW r \in Requests, Handle(r)
  PROVE  Explained'
<1>1. OpOf(r) \in Operations /\ stage \in [Requests -> Stages] BY RequestOp DEF TypeOK
<1> USE DEF InFlight
<1>2. CASE Begin(r)
  <2>1. \A q \in Requests : Flying(q) => Flying(q)'
    BY <1>1, <1>2 DEF Begin, Goto, Flying, Unused
  <2> QED BY <1>2, <2>1, CallersKept DEF Begin, session, bounds
<1>3. CASE Claim(r)
  <2>1. status' = Pending(OpOf(r)) /\ Flying(r)' BY <1>1, <1>3 DEF Claim, Goto, Flying
  <2>2. r \in Callers(OpOf(r))' BY <2>1 DEF Callers, Flying
  <2>3. \A op \in Operations : status' = Pending(op) => op = OpOf(r)
    BY <1>1, <2>1 DEF Pending, Operations
  <2> QED BY <2>2, <2>3 DEF Explained, Pending
<1>4. CASE ClaimConflict(r)
  <2>1. \A q \in Requests : Flying(q) => Flying(q)'
    BY <1>1, <1>4 DEF ClaimConflict, Goto, Flying
  <2> QED BY <1>4, <2>1, CallersKept DEF ClaimConflict, session, bounds
<1>5. CASE Execute(r)
  <2>1. \A q \in Requests : Flying(q) => Flying(q)'
    BY <1>1, <1>5 DEF Execute, Goto, Flying
  <2> QED BY <1>5, <2>1, CallersKept DEF Execute, session, bounds
<1>6. CASE Lose(r)
  <2>1. \A q \in Requests : Flying(q) => Flying(q)'
    BY <1>1, <1>6 DEF Lose, Goto, Flying
  <2> QED BY <1>6, <2>1, CallersKept DEF Lose, session
<1>7. CASE Finalize(r)
  <2>1. Done(OpOf(r)) \in RailStatus BY DEF Done, RailStatus
  <2>2. status' = Done(OpOf(r)) BY <1>7, <2>1, BecomeStatus DEF Finalize
  <2> QED BY <2>1, <2>2, NotPending DEF RailStatus
<1>8. CASE Decline(r)
  <2>1. CASE UpdateState("failed") BY <2>1, NotPending DEF UpdateState
  <2>2. CASE status # Pending(OpOf(r)) /\ UNCHANGED <<status, ledger, outbox>>
    BY <1>8, <2>2, CallEnds DEF Decline, bounds, Stages
  <2> QED BY <1>8, <2>1, <2>2 DEF Decline
<1>9. CASE Recover(r)
  <2>1. CASE status' = LostStatus BY <2>1, NotPending DEF LostStatus
  <2>2. CASE ~RecordsLoss(OpOf(r)) /\ UNCHANGED <<status, cases>>
    BY <1>9, <2>2, CallEnds DEF Recover, RecordsLoss, bounds, Stages
  <2> QED BY <1>9, <2>1, <2>2 DEF Recover
<1>10. CASE Finish(r)
  <2>1. \A q \in Requests : Flying(q) => Flying(q)'
    BY <1>1, <1>10 DEF Finish, Goto, Flying
  <2> QED BY <1>10, <2>1, CallersKept DEF Finish, session, bounds
<1>11. CASE Crash(r)
  <2>1. crashes' > 0 BY <1>11 DEF Crash, TypeOK
  <2> QED BY <2>1 DEF Explained
<1> QED
  BY <1>2, <1>3, <1>4, <1>5, <1>6, <1>7, <1>8, <1>9, <1>10, <1>11 DEF Handle

LEMMA NextExplained == TypeOK /\ Unused /\ Explained /\ [Next]_vars => Explained'
<1> SUFFICES ASSUME TypeOK, Unused, Explained, [Next]_vars PROVE Explained' OBVIOUS
<1>1. CASE \E r \in Requests : Handle(r) BY <1>1, HandleExplained
<1>2. CASE ~ \E r \in Requests : Handle(r)
  <2>1. Quiet BY <1>2, OtherQuiet
  <2>2. CASE status' # status \/ status \notin {"authorization_pending", "capture_pending"}
    BY <2>1, <2>2, NotPending DEF Quiet, RailStatus
  <2>3. CASE status' = status /\ status \in {"authorization_pending", "capture_pending"}
    <3>1. \A q \in Requests : Flying(q) => Flying(q)' BY <2>1 DEF Quiet, Flying
    <3> QED BY <2>1, <2>3, <3>1, CallersKept DEF Quiet
  <2> QED BY <2>2, <2>3
<1> QED BY <1>1, <1>2

\* A pending status is one call in flight, and without one the process was restarted
\* or a case of the operation is open, for any number of callers (claimSession,
\* markSessionResultUnknownAndOpenCase).
THEOREM PendingIsOneCall == Spec => []PendingBacked
<1>1. TypeOK /\ ClaimInv /\ Unused /\ Explained /\ [Next]_vars
        => (TypeOK /\ ClaimInv /\ Unused /\ Explained)'
  BY NextType, NextClaim, NextUnused, NextExplained
<1>2. ClaimInv /\ Explained => PendingBacked
  BY DEF ClaimInv, Explained, PendingBacked, Callers, Flying
<1> QED BY <1>1, <1>2, InitType, InitClaim, InitUnused, InitExplained, PTL DEF Spec

-----------------------------------------------------------------------------
(* The provider and the calls. Its status only moves in an execution, which *)
(* a call in flight or a lost request stands for, or in an expiry.          *)

FreshInv == status \in Fresh => rail = "none" /\ late = {}

\* The status of a session never becomes a fresh one again.
LEMMA StaysOpen ==
  ASSUME TypeOK, [Next]_vars
  PROVE  status' \in Fresh => status' = status
<1>1. CASE \E r \in Requests : Handle(r)
  <2>1. PICK r \in Requests : Handle(r) BY <1>1
  <2>2. OpOf(r) \in Operations BY RequestOp
  <2>3. CASE Finalize(r)
    <3>1. Done(OpOf(r)) \in RailStatus BY DEF Done, RailStatus
    <3> QED BY <2>3, <3>1, BecomeStatus DEF Finalize, RailStatus, Fresh
  <2> QED
    BY <2>1, <2>3 DEF Handle, Begin, Claim, ClaimConflict, Execute, Lose, Decline, Recover,
       Finish, Crash, session, Pending, UpdateState, LostStatus, Fresh
<1>2. CASE ~ \E r \in Requests : Handle(r)
  BY <1>2, OtherQuiet DEF Quiet, RailStatus, Fresh
<1> QED BY <1>1, <1>2

\* What moves the provider, and what may still move it later.
LEMMA ProviderMoves ==
  ASSUME TypeOK, [Next]_vars
  PROVE  \/ rail' = rail /\ late' \subseteq late
         \/ \E r \in Requests : stage[r] = "calling"
         \/ late # {}
         \/ rail = "authorized"
<1>1. CASE UNCHANGED vars BY <1>1 DEF vars, provider
<1>2. CASE \E r \in Requests : Handle(r)
  <2>1. PICK r \in Requests : Handle(r) BY <1>2
  <2>2. CASE stage[r] = "calling" BY <2>2
  <2>3. CASE stage[r] # "calling"
    <3>1. CASE Lose(r) \/ Crash(r)
      BY <2>3, <3>1 DEF Lose, Crash, Outstanding, provider
    <3> QED
      BY <2>1, <2>3, <3>1 DEF Handle, Begin, Claim, ClaimConflict, Execute, Finalize, Decline,
         Recover, Finish, provider
  <2> QED BY <2>2, <2>3
<1>3. CASE \E op \in Operations : LateExecution(op) BY <1>3 DEF LateExecution
<1>4. CASE ProviderExpires BY <1>4 DEF ProviderExpires
<1>5. CASE \/ \E op \in Operations : Resolve(op)
           \/ \E s \in RailStatus : Webhook(s)
           \/ RefreshRead \/ RefreshApply \/ Expire
  BY <1>5 DEF Resolve, Webhook, RefreshRead, RefreshApply, Expire, provider
<1> QED BY <1>1, <1>2, <1>3, <1>4, <1>5 DEF Next

LEMMA FlyingOps ==
  ASSUME NEW r \in Requests, stage[r] = "calling"
  PROVE  Flying(r) /\ OpOf(r) \in {"authorize", "capture"}
  BY RequestOp DEF Flying, InFlight, Operations

LEMMA NextFresh == TypeOK /\ ClaimInv /\ FreshInv /\ [Next]_vars => FreshInv'
<1> SUFFICES ASSUME TypeOK, ClaimInv, FreshInv, [Next]_vars, status' \in Fresh
             PROVE  rail' = "none" /\ late' = {}
  BY DEF FreshInv
<1>1. status' = status /\ status \in Fresh BY StaysOpen
<1>2. rail = "none" /\ late = {} BY <1>1 DEF FreshInv
<1>3. \A r \in Requests : stage[r] # "calling"
  BY <1>1, FlyingOps DEF ClaimInv, Fresh, Decided
<1> QED BY <1>2, <1>3, ProviderMoves

LEMMA InitFresh == Init => FreshInv
  BY DEF Init, FreshInv

\* WLT asks the provider for an authorization only while the provider has answered
\* none and no lost request can still authorize, for any number of callers, restarts
\* and reconciliations (AuthorizeSessionWithProvider, claimSession).
THEOREM OneAuthorization == Spec => NoSecondAuthorization
<1>1. TypeOK /\ ClaimInv /\ FreshInv /\ [Next]_vars => (TypeOK /\ ClaimInv /\ FreshInv)'
  BY NextType, NextClaim, NextFresh
<1>2. FreshInv /\ [Next]_vars
        => [\A r \in Requests :
              Claim(r) /\ OpOf(r) = "authorize" => rail = "none" /\ "authorize" \notin late]_vars
  BY DEF FreshInv, Fresh, Claim, AllowedFrom
<1> QED
  BY <1>1, <1>2, InitType, InitClaim, InitFresh, PTL DEF Spec, NoSecondAuthorization

-----------------------------------------------------------------------------
(* Captured money, as long as no lost request is executed late and no       *)
(* provider status is applied after it changed.                             *)

\* Where captured money can be, and what the calls in flight know of it.
MoneyParts ==
  /\ late = {}
  /\ rail = "captured" => status \in {"capture_pending", "captured", "provider_result_unknown"}
  /\ \A r \in Requests :
       OpOf(r) = "capture" /\ stage[r] \in {"calling", "declined"} => rail # "captured"
  /\ \A r \in Requests :
       OpOf(r) = "capture" /\ stage[r] = "calling" /\ status \in {"failed", "expired"} =>
         rail \in {"failed", "expired"}
  /\ "authorize" \in cases /\ status = "provider_result_unknown" => rail # "captured"

MoneyInv == Punctual => MoneyParts

LEMMA InitMoney == Init => MoneyInv
  BY DEF Init, MoneyInv, MoneyParts

LEMMA StaysPunctual ==
  ASSUME TypeOK, [Next]_vars, Punctual'
  PROVE  Punctual
<1>1. lates \in Nat /\ stales \in Nat BY DEF TypeOK
<1>2. lates' \in {lates, lates + 1} /\ stales' \in {stales, stales + 1}
  BY DEF Next, vars, bounds, Handle, Begin, Claim, ClaimConflict, Execute, Lose, Finalize, Decline,
     Recover, Finish, Crash, Outstanding, LateExecution, Resolve, Webhook, Timely, RefreshRead,
     RefreshApply, ProviderExpires, Expire
<1> QED BY <1>1, <1>2 DEF Punctual

\* An event or a status read of a punctual provider is its present status.
LEMMA ApplyMoney ==
  ASSUME TypeOK, ClaimInv, MoneyParts, NEW s \in RailStatus, Apply(s), s = rail,
         UNCHANGED <<calls, provider, late>>
  PROVE  MoneyParts'
<1>1. status' = status \/ (LegalAuthoritative(status, s) /\ status' = s /\ status # s)
  BY BecomeStatus DEF Apply, session
<1>4. cases' \subseteq cases BY DEF Apply, session
<1>2. CASE status' = status
  BY <1>2, <1>4 DEF MoneyParts, calls, provider
<1>3. CASE LegalAuthoritative(status, s) /\ status' = s /\ status # s
  BY <1>3 DEF MoneyParts, calls, provider, RailStatus
<1> QED BY <1>1, <1>2, <1>3

\* A step outside the calls that only moves the status.
LEMMA CallMoves ==
  ASSUME MoneyParts, late' = late, provider' = provider, NEW r \in Requests, NEW s, TypeOK,
         Goto(r, s), s \notin {"calling", "declined"},
         rail = "captured" => status' \in {"capture_pending", "captured", "provider_result_unknown"},
         status' \in {"failed", "expired"} => status' = status,
         cases' = cases, status' = "provider_result_unknown" => status' = status
  PROVE  MoneyParts'
<1>1. \A q \in Requests : q # r => stage'[q] = stage[q] BY DEF TypeOK, Goto
<1>2. stage'[r] = s BY DEF TypeOK, Goto
<1>3. rail' = rail BY DEF provider
<1> QED BY <1>1, <1>2, <1>3 DEF MoneyParts

\* The provider answers a call: it captures only what a call in flight asks it to,
\* and nothing takes a capture, a failure or an expiry back.
LEMMA ExecuteMoney ==
  ASSUME TypeOK, ClaimInv, MoneyParts, NEW r \in Requests, Execute(r)
  PROVE  MoneyParts'
<1>1. stage[r] = "calling" /\ status' = status /\ late' = late BY DEF Execute, session
<1>2. \A q \in Requests : q # r => stage'[q] = stage[q] BY DEF Execute, TypeOK, Goto
<1>3. stage'[r] = "approved" \/ (stage'[r] = "declined" /\ Declines(OpOf(r)))
  <2>1. CASE Goto(r, "approved") BY <2>1 DEF TypeOK, Goto
  <2>2. CASE Goto(r, "declined") /\ Declines(OpOf(r)) BY <2>2 DEF TypeOK, Goto
  <2> QED BY <2>1, <2>2 DEF Execute
<1>4. Approves(OpOf(r)) \/ Declines(OpOf(r)) BY DEF Execute
<1>5. OpOf(r) \in {"authorize", "capture"} BY RequestOp DEF Operations
<1>6. \A q \in Requests :
        q # r /\ OpOf(r) = "capture" => ~(OpOf(q) = "capture" /\ stage[q] \in {"calling", "declined"})
  BY <1>1 DEF ClaimInv, Flying, InFlight
<1>7. rail \in {"failed", "expired", "captured"} => rail' = rail
  BY <1>4, <1>5 DEF Approves, Declines, provider, Reach
<1>8. rail' = "captured" => rail = "captured" \/ (OpOf(r) = "capture" /\ rail = "authorized")
  BY <1>4, <1>5 DEF Approves, Declines, provider, Reach
<1>9. rail' = "captured" => status \in {"capture_pending", "captured", "provider_result_unknown"}
  <2>1. CASE rail = "captured" BY <2>1 DEF MoneyParts
  <2>2. CASE OpOf(r) = "capture" /\ rail = "authorized"
    <3>1. status \in {"capture_pending"} \cup Decided
      BY <1>1, <2>2 DEF ClaimInv, Flying, InFlight
    <3>2. status \notin {"failed", "expired"} BY <1>1, <2>2 DEF MoneyParts
    <3> QED BY <3>1, <3>2 DEF Decided
  <2> QED BY <1>8, <2>1, <2>2
<1>10. OpOf(r) = "capture" /\ stage'[r] = "declined" => rail' # "captured"
  <2>1. OpOf(r) = "capture" => rail # "captured" BY <1>1 DEF MoneyParts
  <2>2. OpOf(r) = "capture" /\ Declines(OpOf(r)) => rail' = rail BY DEF Declines, provider
  <2> QED BY <1>3, <2>1, <2>2
<1>11. \A q \in Requests :
         OpOf(q) = "capture" /\ stage'[q] \in {"calling", "declined"} => rail' # "captured"
  <2> SUFFICES ASSUME NEW q \in Requests, OpOf(q) = "capture",
                      stage'[q] \in {"calling", "declined"}
               PROVE  rail' # "captured"
    OBVIOUS
  <2>1. CASE q = r BY <1>3, <1>10, <2>1
  <2>2. CASE q # r
    <3>1. stage[q] \in {"calling", "declined"} BY <1>2, <2>2
    <3>2. rail # "captured" BY <3>1 DEF MoneyParts
    <3>3. OpOf(r) # "capture" BY <1>6, <2>2, <3>1
    <3> QED BY <1>8, <3>2, <3>3
  <2> QED BY <2>1, <2>2
<1>12. \A q \in Requests :
         OpOf(q) = "capture" /\ stage'[q] = "calling" /\ status \in {"failed", "expired"} =>
           rail' \in {"failed", "expired"}
  BY <1>2, <1>3, <1>7 DEF MoneyParts
<1>13. "authorize" \in cases /\ status = "provider_result_unknown" => rail' # "captured"
  <2>1. status = "provider_result_unknown" => OpOf(r) # "capture"
    BY <1>1 DEF ClaimInv, Flying, InFlight, Decided
  <2> QED BY <1>8, <2>1 DEF MoneyParts
<1>14. cases' = cases BY DEF Execute, session
<1> QED BY <1>1, <1>9, <1>11, <1>12, <1>13, <1>14 DEF MoneyParts

LEMMA ClaimMoney ==
  ASSUME TypeOK, MoneyParts, NEW r \in Requests, Claim(r)
  PROVE  MoneyParts'
<1>1. OpOf(r) \in {"authorize", "capture"} BY RequestOp DEF Operations
<1>2. rail # "captured" BY <1>1 DEF Claim, AllowedFrom, MoneyParts
<1>3. rail' = rail /\ late' = late /\ status' = Pending(OpOf(r)) BY DEF Claim, provider
<1> QED BY <1>1, <1>2, <1>3 DEF MoneyParts, Pending

\* A declined capture had not been captured, and no other capture is in flight.
LEMMA DeclineMoney ==
  ASSUME TypeOK, ClaimInv, MoneyParts, NEW r \in Requests, Decline(r)
  PROVE  MoneyParts'
<1>1. OpOf(r) \in {"authorize", "capture"} BY RequestOp DEF Operations
<1>2. CASE status' = status
  BY <1>2, CallMoves DEF Decline, MoneyParts
<1>3. CASE status = Pending(OpOf(r)) /\ status' = "failed"
  <2>1. Flying(r) /\ stage[r] = "declined" BY DEF Decline, Flying, InFlight
  <2>2. rail # "captured" BY <1>1, <1>3, <2>1 DEF MoneyParts, Pending
  <2>3. \A q \in Requests : stage'[q] = "calling" => q # r /\ stage[q] = "calling"
    BY DEF Decline, TypeOK, Goto
  <2>4. \A q \in Requests : stage'[q] = "calling" => OpOf(q) # "capture"
    BY <1>1, <1>3, <2>1, <2>3 DEF ClaimInv, Flying, InFlight, Pending, Decided
  <2>5. rail' = rail /\ late' = late BY DEF Decline, provider
  <2> QED BY <2>2, <2>4, <2>5 DEF MoneyParts
<1> QED BY <1>2, <1>3 DEF Decline, UpdateState

\* The case of a lost authorization is opened before any capture, and the one of a lost
\* capture when no authorization is in doubt.
LEMMA RecoverMoney ==
  ASSUME TypeOK, CasesInv, MoneyParts, NEW r \in Requests, Recover(r)
  PROVE  MoneyParts'
<1>1. OpOf(r) \in {"authorize", "capture"} BY RequestOp DEF Operations
<1>2. CASE UNCHANGED <<status, cases>>
  BY <1>2, CallMoves DEF Recover, MoneyParts
<1>3. CASE RecordsLoss(OpOf(r)) /\ status' = LostStatus /\ cases' = cases \cup {OpOf(r)}
  <2>2. \A q \in Requests : stage'[q] \in {"calling", "declined"} => stage[q] = stage'[q]
    BY DEF Recover, TypeOK, Goto
  <2>3. rail' = rail /\ late' = late BY DEF Recover, provider
  <2>4. "authorize" \in cases' => rail # "captured"
    <3>1. CASE OpOf(r) = "authorize"
      BY <1>3, <3>1 DEF RecordsLoss, Pending, MoneyParts
    <3>2. CASE OpOf(r) = "capture"
      BY <1>3, <3>2 DEF RecordsLoss, Pending, CasesInv, Decided
    <3> QED BY <1>1, <3>1, <3>2
  <2>5. status' = "provider_result_unknown" BY <1>3 DEF LostStatus
  <2>6. \A q \in Requests :
          OpOf(q) = "capture" /\ stage'[q] \in {"calling", "declined"} => rail # "captured"
    BY <2>2 DEF MoneyParts
  <2> QED BY <2>3, <2>4, <2>5, <2>6 DEF MoneyParts
<1> QED BY <1>2, <1>3 DEF Recover

LEMMA OutstandingNone ==
  ASSUME TypeOK, Punctual', NEW r \in Requests, Outstanding(r)
  PROVE  late' = late
  BY DEF TypeOK, Punctual, Outstanding

LEMMA HandleMoney ==
  ASSUME TypeOK, ClaimInv, CasesInv, MoneyParts, Punctual', NEW r \in Requests, Handle(r)
  PROVE  MoneyParts'
<1>1. OpOf(r) \in {"authorize", "capture"} BY RequestOp DEF Operations
<1>2. rail = "captured" => status \in {"capture_pending", "captured", "provider_result_unknown"}
  BY DEF MoneyParts
<1>3. CASE Begin(r) BY <1>2, <1>3, CallMoves DEF Begin, session
<1>4. CASE Claim(r) BY <1>4, ClaimMoney
<1>5. CASE ClaimConflict(r) BY <1>2, <1>5, CallMoves DEF ClaimConflict, session
<1>6. CASE Execute(r) BY <1>6, ExecuteMoney
<1>7. CASE Lose(r) BY <1>2, <1>7, OutstandingNone, CallMoves DEF Lose, session
<1>8. CASE Finalize(r)
  <2>1. Done(OpOf(r)) \in RailStatus BY DEF Done, RailStatus
  <2>2. status' = Done(OpOf(r)) BY <1>8, <2>1, BecomeStatus DEF Finalize
  <2>3. rail = "captured" => status' = "captured"
    BY <1>1, <1>2, <1>8, <2>2 DEF Finalize, Pending, Done
  <2>4. status' \notin {"failed", "expired", "provider_result_unknown"} BY <2>2 DEF Done
  <2> QED BY <1>8, <2>3, <2>4, CallMoves DEF Finalize
<1>9. CASE Decline(r) BY <1>9, DeclineMoney
<1>10. CASE Recover(r) BY <1>10, RecoverMoney
<1>11. CASE Finish(r) BY <1>2, <1>11, CallMoves DEF Finish, session
<1>12. CASE Crash(r) BY <1>2, <1>12, OutstandingNone, CallMoves DEF Crash, session
<1> QED
  BY <1>3, <1>4, <1>5, <1>6, <1>7, <1>8, <1>9, <1>10, <1>11, <1>12 DEF Handle

LEMMA OtherMoney ==
  ASSUME TypeOK, ClaimInv, MoneyParts, Punctual', [Next]_vars, ~ \E r \in Requests : Handle(r)
  PROVE  MoneyParts'
<1>1. CASE UNCHANGED vars BY <1>1 DEF vars, session, calls, provider, MoneyParts
<1>2. CASE \E op \in Operations : LateExecution(op)
  BY <1>2 DEF LateExecution, MoneyParts
<1>3. CASE \E op \in Operations : Resolve(op)
  <2>1. PICK op \in Operations : Resolve(op) BY <1>3
  <2>2. Confirmed(op) \in RailStatus BY DEF Confirmed, Done, RailStatus
  <2>3. status' = Confirmed(op) BY <2>1, <2>2, BecomeStatus DEF Resolve
  <2>4. rail = "captured" => op = "capture" BY <2>1 DEF Resolve, MoneyParts, Operations
  <2>5. cases' \subseteq cases BY <2>1 DEF Resolve
  <2>6. \A r \in Requests : OpOf(r) = "capture" => stage[r] # "calling"
    BY <2>1 DEF Resolve, ClaimInv, Flying, InFlight, Decided
  <2>7. stage' = stage /\ rail' = rail /\ late' = late BY <2>1 DEF Resolve, calls, provider
  <2>8. rail = "captured" => status' = "captured"
    BY <2>3, <2>4 DEF Confirmed, Done
  <2>9. status' # "provider_result_unknown" BY <2>2, <2>3 DEF RailStatus
  <2>10. \A r \in Requests : OpOf(r) = "capture" /\ stage[r] = "declined" => rail # "captured"
    BY DEF MoneyParts
  <2> QED BY <2>6, <2>7, <2>8, <2>9, <2>10 DEF MoneyParts
<1>4. CASE \E s \in RailStatus : Webhook(s)
  <2>1. PICK s \in RailStatus : Webhook(s) BY <1>4
  <2>2. s = rail BY <2>1 DEF Webhook, Timely, Punctual, TypeOK
  <2> QED BY <2>1, <2>2, ApplyMoney DEF Webhook
<1>5. CASE RefreshRead BY <1>5 DEF RefreshRead, session, calls, provider, MoneyParts
<1>6. CASE RefreshApply
  <2>1. refresh \in RailStatus BY <1>6 DEF RefreshApply, TypeOK
  <2>2. refresh = rail BY <1>6 DEF RefreshApply, Timely, Punctual, TypeOK
  <2> QED BY <1>6, <2>1, <2>2, ApplyMoney DEF RefreshApply
<1>7. CASE ProviderExpires
  BY <1>7 DEF ProviderExpires, Reach, session, calls, MoneyParts
<1>8. CASE Expire
  <2>1. rail # "captured" BY <1>8 DEF Expire, Expirable, MoneyParts
  <2>2. \A r \in Requests : OpOf(r) = "capture" => stage[r] # "calling"
    BY <1>8 DEF Expire, Expirable, ClaimInv, Flying, InFlight, Decided
  <2> QED BY <1>8, <2>1, <2>2 DEF Expire, calls, provider, MoneyParts
<1> QED BY <1>1, <1>2, <1>3, <1>4, <1>5, <1>6, <1>7, <1>8 DEF Next

LEMMA NextMoney == TypeOK /\ ClaimInv /\ CasesInv /\ MoneyInv /\ [Next]_vars => MoneyInv'
<1> SUFFICES ASSUME TypeOK, ClaimInv, CasesInv, MoneyInv, [Next]_vars, Punctual' PROVE MoneyParts'
  BY DEF MoneyInv
<1>1. MoneyParts BY StaysPunctual DEF MoneyInv
<1> QED BY <1>1, HandleMoney, OtherMoney

LEMMA MoneyAlways == Spec => [](TypeOK /\ ClaimInv /\ CasesInv /\ MoneyInv)
<1>1. TypeOK /\ ClaimInv /\ CasesInv /\ MoneyInv /\ [Next]_vars => (TypeOK /\ ClaimInv /\ CasesInv /\ MoneyInv)'
  BY NextType, NextClaim, NextCases, NextMoney
<1> QED BY <1>1, InitType, InitClaim, InitCases, InitMoney, PTL DEF Spec

\* Money a punctual provider has captured is never behind a session WLT has closed as
\* failed or expired (Expire, Decline and provider events race with captures).
THEOREM CaptureKept == Spec => []NoLostCapture
<1>1. MoneyInv => NoLostCapture BY DEF MoneyInv, MoneyParts, NoLostCapture
<1> QED BY <1>1, MoneyAlways, PTL

\* A punctual provider is never asked again for money it has captured, whatever
\* answer was lost and whoever resolved it (claimSession, provider_result_unknown).
THEOREM CapturedOnce == Spec => CaptureOnce
<1>1. MoneyInv /\ [Next]_vars
        => [\A r \in Requests :
              Punctual /\ Claim(r) /\ OpOf(r) = "capture" => rail # "captured"]_vars
  BY DEF MoneyInv, MoneyParts, Claim, AllowedFrom
<1> QED BY <1>1, MoneyAlways, PTL DEF Spec, CaptureOnce
=============================================================================
