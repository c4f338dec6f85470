------------------------------ MODULE SealOnce ------------------------------
(***************************************************************************)
(* What the prospective final store promises: one job takes the candidate, *)
(* for good, and only that job may publish a seal, once.  A job that dies  *)
(* in between leaves the candidate taken and unsealed for ever.            *)
(***************************************************************************)
CONSTANTS Jobs, Seals, Nobody

VARIABLES holder, sealed

vars == <<holder, sealed>>

Init == holder = Nobody /\ sealed = {}

Take(j) ==
  /\ holder = Nobody
  /\ holder' = j
  /\ UNCHANGED sealed

Seal(j, s) ==
  /\ holder = j
  /\ sealed = {}
  /\ sealed' = {s}
  /\ UNCHANGED holder

Next == \E j \in Jobs : Take(j) \/ \E s \in Seals : Seal(j, s)

Spec == Init /\ [][Next]_vars
=============================================================================
