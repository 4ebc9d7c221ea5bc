---------------------------- MODULE RequestFunds ----------------------------
(***************************************************************************)
(* What the billing code promises for the funds of one request: they are   *)
(* reserved when it is accepted, and then either charged in full, once, or *)
(* given back; nothing is charged without having been reserved and nothing *)
(* happens after that.  Gateway implements it, whoever runs the request.   *)
(***************************************************************************)
EXTENDS Naturals

VARIABLES
    phase,      \* "absent", "open" or "closed"
    reserved,   \* credits set aside for the request
    charged     \* credits the ledger took for it

vars == <<phase, reserved, charged>>

Init == phase = "absent" /\ reserved = 0 /\ charged = 0

\* Accepted, with funds (per call) or without (included).
Open ==
    /\ phase = "absent" /\ phase' = "open"
    /\ reserved' \in Nat
    /\ UNCHANGED charged

Charge ==
    /\ phase = "open" /\ phase' = "closed"
    /\ reserved > 0
    /\ charged' = reserved /\ reserved' = 0

Release ==
    /\ phase = "open" /\ phase' = "closed"
    /\ reserved' = 0
    /\ UNCHANGED charged

Next == Open \/ Charge \/ Release

Spec == Init /\ [][Next]_vars

=============================================================================
