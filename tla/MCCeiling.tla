----------------------------- MODULE MCCeiling -----------------------------
(* Instances of Ceiling for TLC: who publishes for which Service. *)
EXTENDS Ceiling, TLC

CONSTANTS i1, i2, s1, s2

TwoServices == i1 :> s1 @@ i2 :> s2
=============================================================================
