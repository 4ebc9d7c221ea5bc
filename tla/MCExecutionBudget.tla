------------------------- MODULE MCExecutionBudget -------------------------
(* Two requests of one work, each in a recovery group of its own.          *)
EXTENDS ExecutionBudget, TLC
OwnGroups == CHOOSE f \in [Requests -> Groups] : \A q, r \in Requests : f[q] = f[r] => q = r
OneMore == [attempts |-> 1, tokens |-> 1, wait |-> 1, recovery |-> 1]
\* Extension ids are interchangeable, requests together with their groups.
WithGroups == {p \in Permutations(Requests \cup Groups) :
    \A r \in Requests : p[r] \in Requests /\ p[GroupOf[r]] = GroupOf[p[r]]}
Symmetry == Permutations(Extensions) \cup WithGroups
=============================================================================
