----------------------------- MODULE ReleaseDuty -----------------------------
(***************************************************************************)
(* One order's duty to release its COD reservation, as the dispatch of the *)
(* order can rely on it: what the release row of the closure outbox may do *)
(* to the one reservation of the order, and when.  It is the interface     *)
(* between CheckoutFinanceOutbox, which delivers the row, and CodDispatch, *)
(* which queues it and lives with what it does.                            *)
(***************************************************************************)
VARIABLES
  duty,          \* the row; "answered": WLT has answered that nothing is held
  reservation    \* the order's row in wlt_cod_reservations

Init == duty = "absent" /\ reservation = "absent"

\* Enqueue, once for the session of the order.
Oblige == duty = "absent" /\ duty' = "pending" /\ UNCHANGED reservation

\* The request reaches WLT: at any time from then on, as often as it is sent, after the
\* row is closed too, and whatever reservation the order has by then.
Execute ==
  /\ duty # "absent"
  /\ reservation = "reserved" /\ reservation' = "released"
  /\ UNCHANGED duty

\* Whoever has the row learns that nothing is held: by executing the request, or because
\* there is no reservation, no longer or not yet.
Answer ==
  /\ duty = "pending" /\ duty' = "answered"
  /\ \/ reservation = "reserved" /\ reservation' = "released"
     \/ reservation # "reserved" /\ UNCHANGED reservation

\* The answer is lost with the lease, or recorded for good.
Forget == duty = "answered" /\ duty' = "pending" /\ UNCHANGED reservation
Discharge == duty = "answered" /\ duty' = "sent" /\ UNCHANGED reservation

\* The row is left to an operator, who may bring it back.
Park == duty = "pending" /\ duty' = "failed" /\ UNCHANGED reservation
Reopen == duty = "failed" /\ duty' = "pending" /\ UNCHANGED reservation

\* What the outbox does of its own accord.
Deliver == Execute \/ Answer \/ Forget \/ Discharge \/ Park \/ Reopen

\* What dispatch and WLT do: a reservation is made once for an order, and finalized.
Reserve == reservation = "absent" /\ reservation' = "reserved" /\ UNCHANGED duty
Finalize == reservation = "reserved" /\ reservation' = "finalized" /\ UNCHANGED duty

Next == Oblige \/ Deliver \/ Reserve \/ Finalize

Step == [Next]_<<duty, reservation>>

Spec == Init /\ [][Step]_<<duty, reservation>>
=============================================================================
