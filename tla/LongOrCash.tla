----------------------------- MODULE LongOrCash -----------------------------
(***************************************************************************)
(* What a study case may do to its position: it is long or in cash.  A     *)
(* position is bought in one fill out of cash, is only ever reduced, and   *)
(* is gone before a new market segment begins.                             *)
(***************************************************************************)
EXTENDS Integers

VARIABLES
  quantity,  \* the position
  segment    \* segment boundaries passed

vars == <<quantity, segment>>

Init == quantity = 0 /\ segment = 0

Buy ==
  /\ quantity = 0
  /\ quantity' \in Nat \ {0}
  /\ UNCHANGED segment

Reduce ==
  /\ quantity' \in 0 .. (quantity - 1)
  /\ UNCHANGED segment

NextSegment ==
  /\ quantity = 0
  /\ segment' = segment + 1
  /\ UNCHANGED quantity

Next == Buy \/ Reduce \/ NextSegment
Spec == Init /\ [][Next]_vars
=============================================================================
