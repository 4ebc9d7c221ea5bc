------------------------------ MODULE MCOrders ------------------------------
(* Orders and callbacks are interchangeable.                               *)
EXTENDS Orders, TLC
Symmetry == Permutations(OrderIds) \cup Permutations(Callbacks)
=============================================================================
