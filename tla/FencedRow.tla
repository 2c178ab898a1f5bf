------------------------------ MODULE FencedRow ------------------------------
(***************************************************************************)
(* What a lease with a fencing token gives one row of an outbox, for       *)
(* workers that may be slow, cut off or replaced without knowing it: many  *)
(* may believe that they work on the row, one at most owns it, and what    *)
(* the row records changes by the hand of its owner, who thereby gives it  *)
(* up, or while it has none.                                               *)
(***************************************************************************)
CONSTANT Workers

VARIABLES
  content,     \* what the row records; any value
  owners,      \* the workers whose next write will count: one or none
  believers    \* the workers that took the row and have not finished with it

Init == owners = {} /\ believers = {}

\* A worker takes the row, from nobody or from an owner who is not asked.
Take(w) ==
  /\ w \notin believers
  /\ owners' = {w} /\ believers' = believers \cup {w}
  /\ UNCHANGED content

\* It records a result: that of the owner counts, that of anyone else is dropped.
Finish(w) ==
  /\ w \in believers /\ believers' = believers \ {w}
  /\ \/ w \in owners /\ owners' = {}
     \/ w \notin owners /\ UNCHANGED <<owners, content>>

\* It stops, or its write is lost.
Vanish(w) ==
  /\ w \in believers /\ believers' = believers \ {w}
  /\ owners' = owners \ {w}
  /\ UNCHANGED content

\* The row is written by someone else while nobody owns it.
Manage == owners = {} /\ UNCHANGED <<owners, believers>>

Next == Manage \/ \E w \in Workers : Take(w) \/ Finish(w) \/ Vanish(w)

Step == [Next]_<<content, owners, believers>>

Spec == Init /\ [][Step]_<<content, owners, believers>>
=============================================================================
