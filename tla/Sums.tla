-------------------------------- MODULE Sums --------------------------------
(***************************************************************************)
(* Amounts kept per bucket, per hold or per request, and what they add up  *)
(* to.  A sum counts units of credit: so the theorems on cardinality give  *)
(* its laws (Sums_proofs), which the induction behind a fold would not.    *)
(***************************************************************************)
EXTENDS Integers, FiniteSets

\* One element for each unit of each amount.
Units(f) == UNION {{x} \X (1 .. f[x]) : x \in DOMAIN f}

\* The sum of the amounts of f.
Sum(f) == Cardinality(Units(f))

=============================================================================
