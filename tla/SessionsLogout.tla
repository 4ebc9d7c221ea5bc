--------------------------- MODULE SessionsLogout ---------------------------
(***************************************************************************)
(* Sessions with a history of the logouts that were carried out.           *)
(***************************************************************************)
EXTENDS Sessions

VARIABLE left   \* families whose token was logged out

LogoutsOf(h) == IF at[h].pc = "logout" /\ Logout(h) THEN {at[h].family} ELSE {}

HistoryInit == Init /\ left = {}
HistoryNext == Next /\ left' = left \cup UNION {LogoutsOf(h) : h \in Handlers}
HistorySpec == HistoryInit /\ [][HistoryNext]_<<vars, left>>

\* "撤销该 token 所在的整个 family(全端登出该会话链)" (Logout): after a logout its session
\* has no token left.  Logout's UPDATE does not see the token that a refresh under way
\* has yet to insert.
LogoutEndsSession == \A f \in left : Unrevoked \cap Family(f) = {}
=============================================================================
