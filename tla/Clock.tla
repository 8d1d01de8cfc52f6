------------------------------- MODULE Clock -------------------------------
(* The clock that the components with deadlines read. *)
EXTENDS Integers

CONSTANT MaxTime \* bound

ASSUME ClockAssumption == MaxTime \in Nat

VARIABLE now

Tick == now < MaxTime /\ now' = now + 1
=============================================================================
