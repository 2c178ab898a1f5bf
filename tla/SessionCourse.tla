--------------------------- MODULE SessionCourse ---------------------------
(***************************************************************************)
(* The course of one provider-paid session as other parts see it: whoever  *)
(* works on the session, its status moves along ProviderStep or expires.   *)
(* CheckoutFinanceOutbox takes its sessions to move like this, and         *)
(* PaymentSession is shown to move like this.                              *)
(***************************************************************************)
EXTENDS WltSession

VARIABLE status

Init == status = "reference_created"

Progress == \E new \in OnlineStatus : ProviderStep(status, new) /\ status' = new

Expire == status \in Expirable /\ status' = "expired"

Next == Progress \/ Expire

Spec == Init /\ [][Next]_status
=============================================================================
