---------------------------- MODULE OrderCustody ----------------------------
(***************************************************************************)
(* Who answers for one order on its way, whatever offers, accepts,         *)
(* deadlines, reassignments and cancellations race for it: one captain at  *)
(* a time, replaced only before reaching the store, the same from there to *)
(* the door, and an order handed over is delivered or stays where it is.   *)
(***************************************************************************)
CONSTANT Captains

VARIABLES
  order,       \* status of the order
  captains,    \* the captain it is offered to or carried by, if there is one
  accepted     \* that captain has taken it

Init == order = "ready_for_pickup" /\ captains = {} /\ accepted = FALSE

Offer(c) ==
  /\ order = "ready_for_pickup"
  /\ order' = "driver_assigned" /\ captains' = {c} /\ accepted' = FALSE

Accept ==
  /\ order = "driver_assigned" /\ ~accepted /\ accepted' = TRUE
  /\ UNCHANGED <<order, captains>>

\* Another captain, or none, until the captain is at the store.
Reassign(c) ==
  /\ order = "driver_assigned" /\ captains' = {c} /\ accepted' = FALSE
  /\ UNCHANGED order
Withdraw ==
  /\ order = "driver_assigned"
  /\ order' = "ready_for_pickup" /\ captains' = {} /\ accepted' = FALSE

\* The way to the door is walked by the captain who accepted.
Onward(from, to) ==
  /\ order = from /\ order' = to /\ accepted
  /\ UNCHANGED <<captains, accepted>>
Travel ==
  \/ Onward("driver_assigned", "driver_arrived_store")
  \/ Onward("driver_arrived_store", "store_handoff_confirmed")
  \/ Onward("store_handoff_confirmed", "picked_up")
  \/ Onward("picked_up", "delivered")

Cancel ==
  /\ order \in {"ready_for_pickup", "driver_assigned", "driver_arrived_store"}
  /\ order' = "cancelled" /\ captains' = {} /\ accepted' = FALSE

Next ==
  \/ \E c \in Captains : Offer(c) \/ Reassign(c)
  \/ Accept \/ Withdraw \/ Travel \/ Cancel

Step == [Next]_<<order, captains, accepted>>

Spec == Init /\ [][Step]_<<order, captains, accepted>>
=============================================================================
