----------------------------- MODULE MCCredits -----------------------------
(***************************************************************************)
(* Instances of Credits for TLC.  One per-call capability; the buckets the *)
(* user starts with are given by each run.                                 *)
(***************************************************************************)
EXTENDS Credits, TLC

Call == "match_columns"

PerCall(credits) == [mode |-> "per_call", credits |-> credits, version |-> 1]
OneCredit == Call :> PerCall(1)
TwoCredits == Call :> PerCall(2)
Dearer == {[mode |-> "per_call", credits |-> 2]}
CallOrFree == Dearer \cup {[mode |-> "included", credits |-> 0]}
None == {}

Bucket(plan, total, ends) == [plan |-> plan, total |-> total, ends |-> ends]
LastingPair == 1 :> Bucket("base", 2, 2) @@ 2 :> Bucket("pack", 1, 9)
OneOfTwo == 1 :> Bucket("trial", 2, 9)
GrantBase == {[plan |-> "base", amount |-> 1, days |-> 1]}

Symmetric == Permutations(Holds) \cup Permutations(Requests)
             \cup Permutations(Refunds) \cup Permutations(Tasks)
=============================================================================
