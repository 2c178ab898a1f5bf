--------------------------- MODULE PaymentSession ---------------------------
(***************************************************************************)
(* One provider-paid session of WLT: the governed authorize and capture    *)
(* requests with their idempotency receipts, the payment provider they     *)
(* call outside any transaction, its signed events, the status refresh,    *)
(* the reconciliation cases an operator resolves, and expiry by DSH.       *)
(* Sessions share no state, so one session is modelled.                    *)
(***************************************************************************)
EXTENDS Naturals, FiniteSets, WltSession

CONSTANTS
  Keys,          \* idempotency keys of the callers, per operation
  MaxCrashes,    \* bound on calls cut off by a restart
  MaxLate,       \* bound on lost requests the provider still executes
  MaxStale       \* bound on provider statuses applied after they changed

ASSUME BoundsAssumption ==
  MaxCrashes \in Nat /\ MaxLate \in Nat /\ MaxStale \in Nat

VARIABLES
  status,        \* wlt_payment_sessions.status
  bound,         \* provider_reference is set
  cases,         \* operations with an open wlt_reconciliation_cases row
  ledger,        \* the capture is posted to the ledger
  outbox,        \* event types in wlt_dsh_outbox_events
  receipt,       \* wlt_payment_operation_receipts.state, by request
  stage,         \* how far the handler of each request is
  rail,          \* the provider's own status of the payment
  emitted,       \* statuses the provider has sent an event for
  processed,     \* those with a row in wlt_payment_provider_events
  refresh,       \* the status a running refresh has read, or "none"
  late,          \* operations whose lost request the provider may still execute
  crashes, lates, stales

session == <<status, bound, cases, ledger, outbox>>
calls == <<receipt, stage>>
provider == <<rail, emitted>>
bounds == <<crashes, lates, stales>>
vars == <<session, calls, provider, processed, refresh, late, bounds>>

Operations == {"authorize", "capture"}
Requests == Operations \X Keys
OpOf(r) == r[1]
RailStatus == {"authorized", "captured", "failed", "expired"}
Decided == {"captured", "failed", "expired"}
ReceiptState == {"none", "in_progress", "completed", "failed", "provider_result_unknown"}
Stages == {"idle", "begun", "calling", "approved", "declined", "ambiguous",
           "succeeded", "refused"}
InFlight == {"calling", "approved", "declined", "ambiguous"}

AllowedFromUnknown(op) ==      \* mutant: a session under reconciliation is claimed
  IF op = "authorize" THEN {"reference_created", "provider_result_unknown"}
  ELSE {"authorized", "provider_result_unknown"}

AllowedFromPending(op) ==      \* mutant: a pending call is taken over
  IF op = "authorize" THEN {"reference_created", "pending_provider"}
  ELSE {"authorized", "capture_pending"}

\* claimSession: the statuses an operation may start from, and the status that
\* holds off every other call.
AllowedFrom(op) ==
  IF op = "authorize" THEN {"reference_created", "pending_provider"} ELSE {"authorized"}

Pending(op) == IF op = "authorize" THEN "authorization_pending" ELSE "capture_pending"
Done(op) == IF op = "authorize" THEN "authorized" ELSE "captured"

Init ==
  /\ status = "reference_created" /\ bound = FALSE /\ cases = {}
  /\ ledger = FALSE /\ outbox = {}
  /\ receipt = [r \in Requests |-> "none"]
  /\ stage = [r \in Requests |-> "idle"]
  /\ rail = "none" /\ emitted = {} /\ processed = {}
  /\ refresh = "none" /\ late = {}
  /\ crashes = 0 /\ lates = 0 /\ stales = 0

-----------------------------------------------------------------------------
(* What a transaction does to the session.                                 *)

\* postCapturedProviderResult and the finalization of a capture call: ledger,
\* status and DSH event in one transaction.
PostCaptured ==
  /\ status' = "captured" /\ ledger' = TRUE
  /\ outbox' = outbox \cup {"captured"}

\* updateAuthoritativeSessionState, and the guarded updates like it.
UpdateState(new) ==
  /\ status' = new
  /\ outbox' = outbox \cup ({new} \cap {"failed", "expired"})
  /\ UNCHANGED ledger

Become(new) ==
  \/ new = "captured" /\ PostCaptured
  \/ new # "captured" /\ UpdateState(new)

-----------------------------------------------------------------------------
(* HandleGovernedPaymentOperation around authorize and capture.            *)

Goto(r, s) == stage' = [stage EXCEPT ![r] = s]

\* A key is used once: a later request with it only reads the receipt.
Begin(r) ==
  /\ receipt[r] = "none"
  /\ receipt' = [receipt EXCEPT ![r] = "in_progress"]
  /\ Goto(r, "begun")
  /\ UNCHANGED <<session, provider, processed, refresh, late, bounds>>

Claim(r) ==
  /\ stage[r] = "begun" /\ status \in AllowedFrom(OpOf(r))
  /\ status' = Pending(OpOf(r)) /\ Goto(r, "calling")
  /\ UNCHANGED <<bound, cases, ledger, outbox, receipt, provider, processed,
                 refresh, late, bounds>>

ClaimConflict(r) ==
  /\ stage[r] = "begun" /\ status \notin AllowedFrom(OpOf(r))
  /\ Goto(r, "refused")
  /\ UNCHANGED <<session, receipt, provider, processed, refresh, late, bounds>>

\* The call succeeds and its finalization still finds the claimed status.
Finalize(r) ==
  /\ stage[r] = "approved" /\ status = Pending(OpOf(r))
  /\ Become(Done(OpOf(r))) /\ bound' = TRUE /\ Goto(r, "succeeded")
  /\ UNCHANGED <<cases, receipt, provider, processed, refresh, late, bounds>>

\* markSessionFailedAndNotify: a clean decline fails the session it claimed.
Decline(r) ==
  /\ stage[r] = "declined" /\ Goto(r, "refused")
  /\ \/ status = Pending(OpOf(r)) /\ UpdateState("failed")
     \/ status # Pending(OpOf(r)) /\ UNCHANGED <<status, ledger, outbox>>
  /\ UNCHANGED <<bound, cases, receipt, provider, processed, refresh, late, bounds>>

RecordsLossOfAuthorize(op) ==  \* mutant: the other operation's status is expected
  status = "authorization_pending" /\ op \notin cases

RecordsLossAnytime(op) ==      \* mutant: the claimed status is not looked for
  op \notin cases

\* markSessionResultUnknownAndOpenCase updates only the status it claimed, and its
\* INSERT fails on a case of the same operation that is still open.
RecordsLoss(op) == status = Pending(op) /\ op \notin cases

LostAsFailed == "failed"       \* mutant: an ambiguous answer counts as a decline
LostStatus == "provider_result_unknown"

Recover(r) ==
  LET op == OpOf(r) IN
  /\ stage[r] = "ambiguous" /\ Goto(r, "refused")
  /\ \/ RecordsLoss(op) /\ status' = LostStatus /\ cases' = cases \cup {op}
     \/ ~RecordsLoss(op) /\ UNCHANGED <<status, cases>>
  /\ UNCHANGED <<bound, ledger, outbox, receipt, provider, processed, refresh,
                 late, bounds>>

\* classifyOperationResult reads the session after the handler has returned.
Classified(r) ==
  CASE status \in {"authorized", "captured"} -> "completed"
    [] status = "provider_result_unknown" -> "provider_result_unknown"
    [] status \in {"failed", "expired"} -> "failed"
    [] OTHER -> IF stage[r] = "refused" THEN "failed" ELSE "in_progress"

Finish(r) ==
  /\ stage[r] \in {"succeeded", "refused"} /\ Goto(r, "idle")
  /\ receipt' = [receipt EXCEPT ![r] = Classified(r)]
  /\ UNCHANGED <<session, provider, processed, refresh, late, bounds>>

-----------------------------------------------------------------------------
(* The payment provider. Its status moves forward only, and it sends one   *)
(* event, redelivered until accepted, for each status it reaches.          *)

Reach(s) == rail' = s /\ emitted' = emitted \cup {s}

\* What the provider does with a request, and what it answers. A capture of
\* something captured already is accepted or refused; both leave it captured.
Approves(op) ==
  \/ op = "authorize" /\ rail = "none" /\ Reach("authorized")
  \/ op = "capture" /\ rail = "authorized" /\ Reach("captured")
  \/ op = "capture" /\ rail = "captured" /\ UNCHANGED provider

Declines(op) ==
  \/ op = "authorize" /\ rail = "none" /\ Reach("failed")
  \/ op = "capture" /\ UNCHANGED provider

Execute(r) ==
  /\ stage[r] = "calling"
  /\ \/ Approves(OpOf(r)) /\ Goto(r, "approved")
     \/ Declines(OpOf(r)) /\ Goto(r, "declined")
  /\ UNCHANGED <<session, receipt, processed, refresh, late, bounds>>

\* The provider may still execute the request of a call that ends here.
Outstanding(r) ==
  \/ UNCHANGED <<late, lates>>
  \/ /\ stage[r] = "calling" /\ lates < MaxLate
     /\ late' = late \cup {OpOf(r)} /\ lates' = lates + 1

\* Timeout, malformed answer, or a failed finalization after success.
Lose(r) ==
  /\ stage[r] \in {"calling", "approved", "declined"} /\ Goto(r, "ambiguous")
  /\ Outstanding(r)
  /\ UNCHANGED <<session, receipt, provider, processed, refresh, crashes, stales>>

Crash(r) ==
  /\ crashes < MaxCrashes /\ crashes' = crashes + 1
  /\ stage[r] # "idle" /\ Goto(r, "idle")
  /\ Outstanding(r)
  /\ UNCHANGED <<session, receipt, provider, processed, refresh, stales>>

LateExecution(op) ==
  /\ op \in late /\ late' = late \ {op}
  /\ Approves(op) \/ Declines(op)
  /\ UNCHANGED <<session, calls, processed, refresh, bounds>>

ProviderExpires ==
  /\ rail = "authorized" /\ Reach("expired")
  /\ UNCHANGED <<session, calls, processed, refresh, late, bounds>>

-----------------------------------------------------------------------------
(* ApplyAuthoritativeProviderEvent: webhook and refresh.                   *)

ClosedByNone(s) == {}          \* mutant: provider events leave the cases open

\* openReconciliationCaseForProviderEvent: the open case an event of type
\* payment.s resolves; the transaction fails when there are several.
ClosedBy(s) ==
  cases \cap (CASE s = "authorized" -> {"authorize"}
                [] s = "captured" -> {"capture"}
                [] OTHER -> Operations)

Apply(s) ==
  \/ /\ LegalAuthoritative(status, s) /\ Cardinality(ClosedBy(s)) <= 1
     /\ \/ status # s /\ Become(s) /\ bound' = TRUE
        \/ status = s /\ UNCHANGED <<status, bound, ledger, outbox>>
     /\ cases' = cases \ ClosedBy(s)
  \/ ~LegalAuthoritative(status, s) /\ UNCHANGED session

\* The provider's status has moved on since s was sent or read.
Timely(s) ==
  \/ s = rail /\ UNCHANGED stales
  \/ s # rail /\ stales < MaxStale /\ stales' = stales + 1

\* A redelivered event is an idempotent replay, even after a conflict.
Webhook(s) ==
  /\ s \in emitted \ processed /\ processed' = processed \cup {s}
  /\ Timely(s) /\ Apply(s)
  /\ UNCHANGED <<calls, provider, refresh, late, crashes, lates>>

\* HandleRefreshProviderStatus reads the session and asks the provider ...
RefreshRead ==
  /\ status \notin Decided /\ bound /\ rail # "none"
  /\ refresh' = rail /\ refresh # rail
  /\ UNCHANGED <<session, calls, provider, processed, late, bounds>>

\* ... and applies what it heard under an event id of its own.
RefreshApply ==
  /\ refresh # "none" /\ refresh' = "none"
  /\ Timely(refresh) /\ Apply(refresh)
  /\ UNCHANGED <<calls, provider, processed, late, crashes, lates>>

-----------------------------------------------------------------------------
ConfirmedCaptured(op) ==       \* mutant: the operation of the case is ignored
  IF rail \in {"authorized", "captured"} THEN "captured" ELSE "failed"

\* The operator confirms what the provider's records say of the operation.
Confirmed(op) ==
  IF rail = "captured" \/ rail = Done(op) THEN Done(op) ELSE "failed"

\* ResolveReconciliationCase keeps the reference the session has.
Resolve(op) ==
  /\ op \in cases /\ status = "provider_result_unknown"
  /\ Become(Confirmed(op))
  /\ cases' = cases \ {op}
  /\ UNCHANGED <<bound, calls, provider, processed, refresh, late, bounds>>

\* ExpireSession, and the expiry branch of an order cancellation.
Expire ==
  /\ status \in Expirable /\ UpdateState("expired")
  /\ UNCHANGED <<bound, cases, calls, provider, processed, refresh, late, bounds>>

-----------------------------------------------------------------------------
Handle(r) ==
  \/ Begin(r) \/ Claim(r) \/ ClaimConflict(r) \/ Execute(r) \/ Lose(r)
  \/ Finalize(r) \/ Decline(r) \/ Recover(r) \/ Finish(r) \/ Crash(r)

Next ==
  \/ \E r \in Requests : Handle(r)
  \/ \E op \in Operations : LateExecution(op) \/ Resolve(op)
  \/ \E s \in RailStatus : Webhook(s)
  \/ RefreshRead \/ RefreshApply \/ ProviderExpires \/ Expire

Spec == Init /\ [][Next]_vars

-----------------------------------------------------------------------------
TypeOK ==
  /\ status \in OnlineStatus /\ bound \in BOOLEAN
  /\ cases \subseteq Operations
  /\ ledger \in BOOLEAN /\ outbox \subseteq Decided
  /\ receipt \in [Requests -> ReceiptState]
  /\ stage \in [Requests -> Stages]
  /\ rail \in RailStatus \cup {"none"}
  /\ emitted \subseteq RailStatus /\ processed \subseteq emitted
  /\ refresh \in RailStatus \cup {"none"}
  /\ late \subseteq Operations
  /\ crashes \in Nat /\ lates \in Nat /\ stales \in Nat

Outcome == INSTANCE PaymentOutcome WITH
  outcome <- IF status \in Decided THEN status ELSE "open",
  booked <- ledger,
  told <- outbox

\* One decision, booked and told once: calls, events, refreshes, operators and
\* expiries that race for a session decide it at most once, DSH is told exactly
\* that decision, and the ledger holds a capture exactly when it is the decision.
\* No writer relies on wlt_guard_payment_session_terminal_status to stop it.
DecidedOnce == Outcome!Spec

Course == INSTANCE SessionCourse

\* What others assume of a session: it is claimed from the statuses of the operation
\* only, becomes unknown only from a pending status, and leaves that only by what the
\* provider, an event or an operator says of it (AuthorizeSessionWithProvider,
\* CaptureSessionWithProvider, markSessionResultUnknownAndOpenCase).  A recovery or a
\* finalization that ends long after its claim never undoes what came between.
StatusFollowsCourse == Course!Spec

\* WLT never books money the provider does not hold, whatever was lost, delayed,
\* repeated or confirmed by an operator.
CapturedIsReal == status = "captured" => rail = "captured"

\* A session under reconciliation has exactly one open case, so an operator or an
\* event can always settle it, and no event ever meets several open cases
\* (openReconciliationCaseForProviderEvent fails then).
OneCaseWhenUnknown ==
  /\ Cardinality(cases) <= 1
  /\ status = "provider_result_unknown" => cases # {}

\* "callers must refresh authoritative provider status rather than repeat
\* authorization": no authorization is requested once the provider has answered
\* one, or while it may still execute one (AuthorizeSessionWithProvider).
NoSecondAuthorization ==
  [][\A r \in Requests :
       Claim(r) /\ OpOf(r) = "authorize" => rail = "none" /\ "authorize" \notin late]_vars

Callers(op) == {r \in Requests : OpOf(r) = op /\ stage[r] \in InFlight}

\* A pending status is one call: no second request, restart or reconciliation puts
\* another call of the operation in flight beside it, and without a call behind it the
\* process was restarted or an open case of the operation is left (claimSession,
\* markSessionResultUnknownAndOpenCase).
PendingBacked ==
  \A op \in Operations :
    status = Pending(op) =>
      /\ \A r, q \in Callers(op) : r = q
      /\ Callers(op) # {} \/ crashes > 0 \/ op \in cases

\* Until a lost request is executed late or a provider status is applied after it
\* changed.
Punctual == lates = 0 /\ stales = 0

\* Captured money is asked for once: capture is not requested again after the
\* provider has captured, in spite of lost answers, restarts, refreshes and operators
\* (claimSession, provider_result_unknown), as long as the provider is punctual.
CaptureOnce ==
  [][\A r \in Requests :
       Punctual /\ Claim(r) /\ OpOf(r) = "capture" => rail # "captured"]_vars

\* Captured money is not lost: a session WLT has closed without a capture was not
\* captured by a punctual provider (Expire and Decline race with captures).
NoLostCapture == Punctual /\ status \in {"failed", "expired"} => rail # "captured"

\* What keeps CapturedIsReal inductive: every word WLT may have of a capture - the
\* answer of a call, an event, a status read - was given after the capture.
CaptureHeard ==
  /\ CapturedIsReal
  /\ \A r \in Requests : stage[r] = "approved" /\ OpOf(r) = "capture" => rail = "captured"
  /\ "captured" \in emitted \/ refresh = "captured" => rail = "captured"

\* DSH was told the decision and nothing else, and the ledger knows a capture.
Books ==
  /\ outbox = {status} \cap Decided
  /\ ledger = (status = "captured")

\* Where a session with an open case can be: a capture is claimed only after the
\* authorization was established, which closed any case of its own.
CasesInv ==
  /\ "authorize" \in cases => status \in {"provider_result_unknown"} \cup Decided
  /\ "capture" \in cases => status \notin {"reference_created", "pending_provider",
                                            "authorization_pending"}
  /\ cases # Operations
  /\ status = "provider_result_unknown" => cases # {}
=============================================================================
