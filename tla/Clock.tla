------------------------------- MODULE Clock -------------------------------
(* The wall clock that the services read, in the unit of the module that      *)
(* extends this one.                                                          *)
EXTENDS Naturals

CONSTANT MaxTime      \* bound: the clock stops here

ASSUME ClockAssumption == MaxTime \in Nat

VARIABLE now

TickClock == now < MaxTime /\ now' = now + 1
=============================================================================
