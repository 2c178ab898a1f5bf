--------------------------- MODULE PaymentOutcome ---------------------------
(***************************************************************************)
(* What WLT promises DSH about one payment session, whatever the order in  *)
(* which calls, provider events, operators and expiries reach it: the      *)
(* session is decided at most once, the decision is told to DSH in the     *)
(* transaction that takes it, and the ledger is posted for a capture only. *)
(***************************************************************************)
VARIABLES
  outcome,     \* the terminal status, or "open"
  booked,      \* the capture is in the double-entry ledger
  told         \* outcomes enqueued for DSH

Outcomes == {"captured", "failed", "expired"}

Init == outcome = "open" /\ booked = FALSE /\ told = {}

Decide(o) ==
  /\ outcome = "open"
  /\ outcome' = o
  /\ booked' = (o = "captured")
  /\ told' = {o}

Next == \E o \in Outcomes : Decide(o)

Spec == Init /\ [][Next]_<<outcome, booked, told>>
=============================================================================
