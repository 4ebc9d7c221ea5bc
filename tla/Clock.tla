------------------------------- MODULE Clock -------------------------------
(***************************************************************************)
(* The time of the one server process, in ticks.                           *)
(***************************************************************************)
EXTENDS Integers

CONSTANT MaxNow   \* bound: the last tick looked at

ASSUME ClockAssumption == MaxNow \in Nat

VARIABLE now

Tick == now < MaxNow /\ now' = now + 1
=============================================================================
