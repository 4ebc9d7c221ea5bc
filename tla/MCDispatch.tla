----------------------------- MODULE MCDispatch -----------------------------
(***************************************************************************)
(* An instance of Dispatch for TLC: users who share one address.           *)
(***************************************************************************)
EXTENDS Dispatch, TLC

IP == <<"ip">>
AllKeys == {<<kind, u>> : kind \in {"minute", "day", "trial"}, u \in Users} \cup {IP}
KeyOf(kind) == [u \in Users |-> <<kind, u>>]
Minute == KeyOf("minute")
Day == KeyOf("day")
Trial == KeyOf("trial")
Shared == [u \in Users |-> IP]

Limits == [k \in AllKeys |-> IF k = IP THEN 2 ELSE 1]
Windows == [k \in AllKeys |-> IF k[1] = "minute" THEN 2 ELSE 3]

Symmetric == Permutations(Handlers) \cup Permutations(Users)
=============================================================================
