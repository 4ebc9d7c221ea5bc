----------------------------- MODULE MCSessions -----------------------------
(* Handlers, mail codes and token rows are interchangeable.                     *)
EXTENDS Sessions, TLC
Symmetry == Permutations(Handlers) \cup Permutations(Tokens)
              \cup Permutations(MailCodes)
\* Bound: states with all the codes there are go no further; two codes, of one kind or
\* of both, can get in each other's way as any number can.
FewCodes == Cardinality(Rows(mail) \cup Rows(sso)) <= 2
=============================================================================
