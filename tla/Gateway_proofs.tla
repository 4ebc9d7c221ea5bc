--------------------------- MODULE Gateway_proofs ---------------------------
(***************************************************************************)
(* The safety of one AI request for any number of handlers and any bounds: *)
(* types, at most one upstream call, at most one charge, final ends, and   *)
(* that every step is one the promise of its funds allows.                 *)
(*                                                                         *)
(* What carries the proofs is what the copies of the row are worth.  Under *)
(* the user's lock a copy of a pending row is the row itself, or the row   *)
(* before a result was stored (Persist takes no lock); and an execution    *)
(* belongs to one handler, so that only it can end an open attempt.        *)
(***************************************************************************)
EXTENDS Gateway, FiniteSetTheorems, TLAPS

Labels == {"idle", "admit", "execute", "calling", "persist", "fail", "failing", "settle"}
CauseType == {"none", "AI_CANCELLED", "expired"}
Locked == {"admit", "failing"}

\* Under the lock a copy of a new or pending row is the row, or what it was before a
\* result was stored.
Copies ==
    \A p \in Procs : pc[p] \in Locked /\ mine[p].status \in {"none", "pending"} =>
        \/ row = mine[p]
        \/ mine[p].status = "pending" /\ \E usable \in BOOLEAN : row = Stored(mine[p], usable)

\* failV2 goes on with a pending row only.
OnlyPendingFails == \A p \in Procs : pc[p] = "failing" => mine[p].status = "pending"

\* Every execution under way has a number of its own, up to the row's.
Working == {h \in Handlers : pc[h] \in {"execute", "calling", "persist"}}
OwnExecutions ==
    /\ \A h \in Working : mine[h].execution \in 1 .. row.execution
    /\ \A h, g \in Working : mine[h].execution = mine[g].execution => h = g

\* A handler in a call is the row's latest execution, and its attempt is open.
CallIsRecorded ==
    \A h \in Handlers : pc[h] = "calling" =>
        row.started /\ mine[h].execution = row.execution

NewIsEmpty == row.status = "none" => row = NoRow
PromisesKept == promised => row.status = "none" /\ cancelled

IInv ==
    /\ TypeOK /\ Copies /\ OnlyPendingFails /\ OwnExecutions /\ CallIsRecorded
    /\ NewIsEmpty /\ PromisesKept /\ ChargedOnce

-----------------------------------------------------------------------------
\* Rows and copies.

\* Recovery is a process of its own, and no process is called free.
LEMMA ProcsFacts ==
    /\ Recovery \in Procs /\ Recovery \notin Handlers /\ Handlers \subseteq Procs
    /\ "free" \notin Procs
PROOF
  BY BoundsAssumption DEF Procs, Recovery

\* An empty row is a row that nothing was done for.
LEMMA NoRowFields ==
    /\ NoRow \in RowType /\ NoRow.status = "none" /\ NoRow.execution = 0
    /\ NoRow.started = FALSE /\ NoRow.reserved = 0
PROOF
  BY BoundsAssumption DEF NoRow, RowType

\* Failing a row clears its reservation and leaves the record of its calls.
LEMMA FailedFields ==
    ASSUME NEW r \in RowType, NEW code \in {"none", "AI_CANCELLED", "AI_EXECUTION_UNCERTAIN"}
    PROVE  /\ Failed(r, code) \in RowType
           /\ Failed(r, code).status = "failed" /\ Failed(r, code).reserved = 0
           /\ Failed(r, code).execution = r.execution /\ Failed(r, code).started = r.started
           /\ Failed(r, code).calls = r.calls
PROOF
<1>1. 0 \in 0 .. 1
  OBVIOUS
<1>2. Failed(r, code) = [r EXCEPT !.status = "failed", !.reserved = 0, !.code = code]
  BY DEF Failed
<1>3. Failed(r, code) \in RowType
  BY <1>1, <1>2 DEF RowType
<1> QED
  BY <1>2, <1>3 DEF RowType

\* Storing a result changes nothing but the result.
LEMMA StoredFields ==
    ASSUME NEW r \in RowType, NEW usable \in BOOLEAN
    PROVE  /\ Stored(r, usable) \in RowType
           /\ Stored(r, usable).status = "settlement_pending"
           /\ Stored(r, usable).execution = r.execution /\ Stored(r, usable).started = r.started
           /\ Stored(r, usable).calls = r.calls /\ Stored(r, usable).reserved = r.reserved
PROOF
  BY DEF Stored, RowType

-----------------------------------------------------------------------------
\* Types.

\* What does not belong to a process.
SharedTypes ==
    /\ row \in RowType
    /\ due \in [lease : {"live", "expired", "abandoned"}, aged : BOOLEAN, cache : BOOLEAN]
    /\ charges \in Nat /\ crashes \in 0 .. MaxCrashes
    /\ revoked \in BOOLEAN /\ cancelled \in BOOLEAN /\ promised \in BOOLEAN

\* A step of p changes nothing of the others.
OthersStay(p) == \A o \in Procs \ {p} : pc'[o] = pc[o] /\ mine'[o] = mine[o]

\* What a step of one process leaves: its copy and where it stands, and the types.
LEMMA GotoFacts ==
    ASSUME NEW p \in Procs, NEW label \in Labels, NEW r \in RowType, NEW why \in CauseType,
           TypeOK, Goto(p, label, r, why)
    PROVE  /\ pc' \in [Procs -> Labels] /\ mine' \in [Procs -> RowType]
           /\ cause' \in [Procs -> CauseType]
           /\ pc'[p] = label /\ mine'[p] = IF label = "idle" THEN NoRow ELSE r
           /\ OthersStay(p)
PROOF
  BY NoRowFields DEF Goto, TypeOK, Labels, CauseType, OthersStay

\* Goto keeps the types if the lock goes with the label.
LEMMA GotoTypes ==
    ASSUME NEW p \in Procs, NEW label \in Labels, NEW r \in RowType, NEW why \in CauseType,
           TypeOK, Goto(p, label, r, why), SharedTypes',
           \/ label \in Locked /\ lock \in {p, "free"} /\ lock' = p
           \/ label \notin Locked /\ lock = p /\ lock' = "free"
           \/ label \notin Locked /\ lock # p /\ lock' = lock
    PROVE  TypeOK'
PROOF
<1>1. /\ pc' \in [Procs -> Labels] /\ mine' \in [Procs -> RowType]
      /\ cause' \in [Procs -> CauseType] /\ pc'[p] = label
      /\ \A o \in Procs \ {p} : pc'[o] = pc[o]
  BY GotoFacts DEF OthersStay
<1>2. \A o \in Procs : lock = o <=> pc[o] \in Locked
  BY DEF TypeOK, Locked
<1>3. \A o \in Procs : lock' = o <=> pc'[o] \in Locked
  BY <1>1, <1>2, ProcsFacts
<1>4. lock' \in Procs \cup {"free"}
  BY DEF TypeOK
<1> QED
  BY <1>1, <1>3, <1>4 DEF TypeOK, SharedTypes, Labels, CauseType, Locked

\* The lock is held by the one process inside a two-step transaction.
LEMMA LockHolder ==
    ASSUME TypeOK, NEW p \in Procs
    PROVE  /\ pc[p] \in Locked => lock = p /\ \A o \in Procs \ {p} : pc[o] \notin Locked
           /\ pc[p] \notin Locked => lock # p
           /\ lock = "free" => \A o \in Procs : pc[o] \notin Locked
PROOF
  BY ProcsFacts DEF TypeOK, Locked

\* Every action keeps the types.
LEMMA TypesKept ==
    ASSUME TypeOK, [Next]_vars
    PROVE  TypeOK'
PROOF
<1> USE DEF Locked
<1>0. /\ row \in RowType /\ NoRow \in RowType /\ Handlers \subseteq Procs
      /\ Recovery \in Procs /\ SharedTypes
      /\ \A p \in Procs : mine[p] \in RowType /\ cause[p] \in CauseType
      /\ NotDue \in [lease : {"live", "expired", "abandoned"}, aged : BOOLEAN, cache : BOOLEAN]
  BY NoRowFields, ProcsFacts DEF TypeOK, SharedTypes, CauseType, NotDue
<1>1. ASSUME NEW h \in Handlers, Enter(h) PROVE TypeOK'
  <2>1. SharedTypes' /\ lock = "free" /\ lock' = h /\ Goto(h, "admit", row, "none")
    BY <1>0, <1>1 DEF Enter, world, SharedTypes
  <2> QED
    BY <1>0, <2>1, GotoTypes DEF Labels, CauseType
<1>2. ASSUME NEW h \in Handlers, Query(h) PROVE TypeOK'
  <2>1. /\ SharedTypes' /\ lock' = lock /\ lock # h /\ Goto(h, "settle", NoRow, "none")
    BY <1>0, <1>2, LockHolder DEF Query, world, SharedTypes
  <2> QED
    BY <1>0, <2>1, GotoTypes DEF Labels, CauseType
\* The end of a two-step transaction.
<1>3. ASSUME NEW p \in Procs, pc[p] \in Locked, SharedTypes', lock' = "free",
             NEW label \in Labels \ Locked, NEW r \in RowType, Goto(p, label, r, "none")
      PROVE  TypeOK'
  <2>1. lock = p
    BY <1>3, LockHolder
  <2> QED
    BY <1>3, <2>1, GotoTypes DEF CauseType
<1>4. ASSUME NEW h \in Handlers, Admit(h) PROVE TypeOK'
  <2>1. PICK paid \in BOOLEAN :
          Save(h, [NoRow EXCEPT !.status = "pending", !.execution = 1, !.paid = paid,
                                !.reserved = IF paid THEN 1 ELSE 0], "execute")
    BY <1>4 DEF Admit
  <2>2. row' \in RowType
    <3>1. (IF paid THEN 1 ELSE 0) \in 0 .. 1 /\ 1 \in 0 .. MaxExecutions
      BY BoundsAssumption
    <3>2. row' = [NoRow EXCEPT !.status = "pending", !.execution = 1, !.paid = paid,
                               !.reserved = IF paid THEN 1 ELSE 0]
      BY <2>1 DEF Save
    <3> QED
      BY <1>0, <3>1, <3>2 DEF RowType
  <2>3. SharedTypes' /\ pc[h] \in Locked
    BY <1>0, <1>4, <2>2 DEF Admit, world, SharedTypes
  <2> QED
    BY <1>0, <1>3, <2>1, <2>2, <2>3 DEF Save, Labels
<1>5. ASSUME NEW h \in Handlers, Refuse(h) \/ Replay(h) PROVE TypeOK'
  <2>1. SharedTypes' /\ pc[h] \in Locked
    BY <1>0, <1>5 DEF Refuse, Replay, NoSave, world, SharedTypes
  <2>2. PICK label \in {"idle", "settle"} : NoSave(h, label)
    BY <1>5 DEF Refuse, Replay
  <2> QED
    BY <1>0, <1>3, <2>1, <2>2 DEF NoSave, Labels
<1>6. ASSUME NEW p \in Procs, pc[p] \in Locked, UNCHANGED due, UNCHANGED world,
             NEW code \in {"none", "AI_CANCELLED", "AI_EXECUTION_UNCERTAIN"},
             Save(p, Failed(mine[p], code), "idle")
      PROVE  TypeOK'
  <2>1. Failed(mine[p], code) \in RowType
    BY <1>0, FailedFields
  <2>2. SharedTypes'
    BY <1>0, <1>6, <2>1 DEF Save, world, SharedTypes
  <2> QED
    BY <1>3, <1>6, <2>1, <2>2 DEF Save, Labels
<1>7. ASSUME NEW h \in Handlers, CloseCancelled(h) \/ CloseUncertain(h) \/ CloseExhausted(h)
      PROVE  TypeOK'
  <2>1. PICK code \in {"none", "AI_CANCELLED", "AI_EXECUTION_UNCERTAIN"} :
          Save(h, Failed(mine[h], code), "idle")
    BY <1>7 DEF CloseCancelled, CloseUncertain, CloseExhausted
  <2>2. pc[h] \in Locked /\ UNCHANGED due /\ UNCHANGED world
    BY <1>7 DEF CloseCancelled, CloseUncertain, CloseExhausted
  <2> QED
    BY <1>0, <1>6, <2>1, <2>2
<1>8. ASSUME NEW h \in Handlers, TakeOver(h) PROVE TypeOK'
  <2>1. [mine[h] EXCEPT !.execution = mine[h].execution + 1] \in RowType
    <3>1. mine[h] \in RowType /\ mine[h].execution < MaxExecutions
      BY <1>0, <1>8 DEF TakeOver, MayRunAgain
    <3>2. mine[h].execution + 1 \in 0 .. MaxExecutions
      BY <3>1, BoundsAssumption DEF RowType
    <3> QED
      BY <3>1, <3>2 DEF RowType
  <2>2. SharedTypes' /\ pc[h] \in Locked
    BY <1>0, <1>8, <2>1 DEF TakeOver, Save, world, SharedTypes
  <2> QED
    BY <1>0, <1>3, <1>8, <2>1, <2>2 DEF TakeOver, Save, Labels
<1>9. ASSUME NEW p \in Procs, CommitFail(p) PROVE TypeOK'
  <2>1. FailureCode(p) \in {"none", "AI_CANCELLED", "AI_EXECUTION_UNCERTAIN"}
    BY <1>0 DEF FailureCode, CauseType
  <2> QED
    BY <1>6, <1>9, <2>1 DEF CommitFail
\* Steps outside two-step transactions.
<1>10. ASSUME NEW p \in Procs, pc[p] \notin Locked, SharedTypes', lock' = lock,
              NEW label \in Labels \ Locked, NEW r \in RowType, NEW why \in CauseType,
              Goto(p, label, r, why)
       PROVE  TypeOK'
  <2>1. lock # p
    BY <1>10, LockHolder
  <2> QED
    BY <1>10, <2>1, GotoTypes
<1>11. ASSUME NEW h \in Handlers, StartAttempt(h) PROVE TypeOK'
  <2>1. row' \in RowType
    <3>1. row.calls + 1 \in 0 .. MaxCalls
      BY <1>0, <1>11, BoundsAssumption DEF StartAttempt, RowType
    <3> QED
      BY <1>0, <1>11, <3>1 DEF StartAttempt, RowType
  <2>2. SharedTypes'
    BY <1>0, <1>11, <2>1 DEF StartAttempt, world, SharedTypes
  <2> QED
    BY <1>0, <1>10, <1>11, <2>2 DEF StartAttempt, Labels, CauseType
<1>12. ASSUME NEW h \in Handlers, GiveUp(h) \/ FinishTooLate(h) PROVE TypeOK'
  <2>1. SharedTypes' /\ pc[h] \notin Locked /\ lock' = lock
    BY <1>0, <1>12 DEF GiveUp, FinishTooLate, world, SharedTypes
  <2>2. PICK why \in CauseType : Goto(h, "fail", mine[h], why)
    BY <1>12 DEF GiveUp, FinishTooLate, Causes, CauseType
  <2> QED
    BY <1>0, <1>10, <2>1, <2>2 DEF Labels
<1>13. ASSUME NEW h \in Handlers, FinishAttempt(h) PROVE TypeOK'
  <2>1. row' \in RowType
    BY <1>0, <1>13 DEF FinishAttempt, RowType
  <2>2. SharedTypes' /\ pc[h] \notin Locked /\ lock' = lock
    BY <1>0, <1>13, <2>1 DEF FinishAttempt, world, SharedTypes
  <2>3. PICK label \in {"persist", "execute", "fail"}, why \in CauseType :
          Goto(h, label, mine[h], why)
    BY <1>13 DEF FinishAttempt, Causes, CauseType
  <2> QED
    BY <1>0, <1>10, <2>2, <2>3 DEF Labels
<1>14. ASSUME NEW h \in Handlers, Persist(h) PROVE TypeOK'
  <2>1. row' \in RowType
    BY <1>0, <1>14, StoredFields DEF Persist
  <2>2. SharedTypes' /\ pc[h] \notin Locked /\ lock' = lock
    BY <1>0, <1>14, <2>1 DEF Persist, world, SharedTypes
  <2> QED
    BY <1>0, <1>10, <1>14, <2>2 DEF Persist, Labels, CauseType
<1>15. ASSUME NEW h \in Handlers, PersistLost(h) PROVE TypeOK'
  <2>1. SharedTypes' /\ pc[h] \notin Locked /\ lock' = lock
    BY <1>0, <1>15 DEF PersistLost, world, SharedTypes
  <2> QED
    BY <1>0, <1>10, <1>15, <2>1 DEF PersistLost, Done, Labels, CauseType
<1>16. ASSUME NEW p \in Procs, LockFail(p) PROVE TypeOK'
  <2>1. SharedTypes' /\ pc[p] \notin Locked /\ lock = "free"
    BY <1>0, <1>16 DEF LockFail, world, SharedTypes
  <2>2. CASE OwnsLease(p)
    <3>1. lock' = p /\ Goto(p, "failing", row, cause[p])
      BY <1>16, <2>2 DEF LockFail
    <3> QED
      BY <1>0, <2>1, <3>1, GotoTypes DEF Labels
  <2>3. CASE ~OwnsLease(p)
    <3>1. lock' = lock /\ Goto(p, "idle", NoRow, "none")
      BY <1>16, <2>3 DEF LockFail, Done
    <3> QED
      BY <1>0, <1>10, <2>1, <3>1 DEF Labels, CauseType
  <2> QED
    BY <2>2, <2>3
<1>17. ASSUME NEW p \in Procs, SettleV2(p) PROVE TypeOK'
  <2>1. row' \in RowType
    <3>1. CASE SettleTooLate(p)
      <4>1. Failed(row, "none") \in RowType
        BY <1>0, FailedFields
      <4>2. row' = [Failed(row, "none") EXCEPT !.result = FALSE]
        BY <3>1 DEF SettleTooLate
      <4> QED
        BY <4>1, <4>2 DEF RowType
    <3>2. CASE SettleFree(p) \/ SettleDebit(p)
      <4>1. row' = [row EXCEPT !.status = "ok", !.reserved = 0]
        BY <3>2 DEF SettleFree, SettleDebit
      <4>2. 0 \in 0 .. 1
        OBVIOUS
      <4> QED
        BY <1>0, <4>1, <4>2 DEF RowType
    <3> QED
      BY <1>0, <1>17, <3>1, <3>2 DEF SettleV2, SettleNothing
  <2>2. SharedTypes' /\ pc[p] \notin Locked /\ lock' = lock /\ Done(p)
    BY <1>0, <1>17, <2>1 DEF SettleV2, SettleTooLate, SettleFree, SettleDebit, SettleNothing,
       world, SharedTypes
  <2> QED
    BY <1>0, <1>10, <2>2 DEF Done, Labels, CauseType
<1>18. ASSUME Recover PROVE TypeOK'
  <2>1. SharedTypes' /\ pc[Recovery] \notin Locked /\ lock' = lock
    BY <1>0, <1>18 DEF Recover, world, SharedTypes
  <2>2. PICK label \in {"settle", "fail"}, r \in {NoRow, row}, why \in CauseType :
          Goto(Recovery, label, r, why)
    BY <1>18 DEF Recover, CauseType
  <2> QED
    BY <1>0, <1>10, <2>1, <2>2 DEF Labels
<1>19. ASSUME NEW p \in Procs, Crash(p) PROVE TypeOK'
  <2>1. crashes' \in 0 .. MaxCrashes
    BY <1>0, <1>19, BoundsAssumption DEF Crash, SharedTypes
  <2>2. SharedTypes' /\ Goto(p, "idle", NoRow, "none")
    BY <1>0, <1>19, <2>1 DEF Crash, Done, SharedTypes
  <2>3. lock' = IF lock = p THEN "free" ELSE lock
    BY <1>19 DEF Crash
  <2> QED
    BY <1>0, <2>2, <2>3, GotoTypes DEF Labels, CauseType
\* Steps that are nobody's.
<1>20. ASSUME SharedTypes', UNCHANGED procVars PROVE TypeOK'
  BY <1>20 DEF procVars, TypeOK, SharedTypes
<1>21. ASSUME Cancel \/ Revoke PROVE TypeOK'
  BY <1>0, <1>20, <1>21 DEF Cancel, Revoke, SharedTypes
<1>22. ASSUME CleanExpiredCaches PROVE TypeOK'
  <2>1. row' \in RowType
    BY <1>0, <1>22 DEF CleanExpiredCaches, RowType
  <2> QED
    BY <1>0, <1>20, <1>22, <2>1 DEF CleanExpiredCaches, world, SharedTypes
<1>23. ASSUME TimePasses PROVE TypeOK'
  <2>1. due' \in [lease : {"live", "expired", "abandoned"}, aged : BOOLEAN, cache : BOOLEAN]
    BY <1>0, <1>23 DEF TimePasses, LeaseExpires, RequestAges, LeaseAbandoned, CacheExpires,
       SharedTypes
  <2>2. UNCHANGED row /\ UNCHANGED procVars /\ UNCHANGED world
    BY <1>23 DEF TimePasses, LeaseExpires, RequestAges, LeaseAbandoned, CacheExpires
  <2> QED
    BY <1>0, <1>20, <2>1, <2>2 DEF world, SharedTypes
<1>24. CASE UNCHANGED vars
  BY <1>24 DEF vars, TypeOK
<1>25. CASE Next
  <2>1. ASSUME NEW p \in Procs, Progress(p) PROVE TypeOK'
    BY <2>1, <1>4, <1>5, <1>7, <1>8, <1>9, <1>11, <1>12, <1>13, <1>14, <1>15, <1>16, <1>17
       DEF Progress, Commit, Execute
  <2> QED
    BY <1>25, <2>1, <1>1, <1>2, <1>18, <1>19, <1>21, <1>22, <1>23 DEF Next
<1> QED
  BY <1>24, <1>25

-----------------------------------------------------------------------------
\* The inductive invariant.

\* What a copy under the lock tells of the row.
LEMMA CopyFacts ==
    ASSUME IInv, NEW p \in Procs, pc[p] \in Locked
    PROVE  /\ mine[p].status = "none" => row = NoRow
           /\ mine[p].status = "pending" =>
                /\ row.status \in {"pending", "settlement_pending"}
                /\ row.execution = mine[p].execution /\ row.started = mine[p].started
                /\ row.calls = mine[p].calls /\ row.reserved = mine[p].reserved
PROOF
<1>1. mine[p] \in RowType
  BY DEF IInv, TypeOK
<1>2. CASE mine[p].status = "none"
  BY <1>2 DEF IInv, Copies, NewIsEmpty
<1>3. CASE mine[p].status = "pending"
  <2>1. CASE row = mine[p]
    BY <1>3, <2>1
  <2>2. CASE \E usable \in BOOLEAN : row = Stored(mine[p], usable)
    BY <1>1, <1>3, <2>2, StoredFields
  <2> QED
    BY <1>3, <2>1, <2>2 DEF IInv, Copies
<1> QED
  BY <1>2, <1>3

\* Nothing was charged before the end.
LEMMA ChargeFacts ==
    ASSUME IInv
    PROVE  row.status # "ok" => charges = 0
PROOF
  BY DEF IInv, ChargedOnce

\* A step of p that leaves the row alone and does not go on executing.
LEMMA QuietStep ==
    ASSUME IInv, TypeOK', NEW p \in Procs, OthersStay(p),
           UNCHANGED <<row, charges, cancelled, promised>>,
           pc'[p] \notin {"execute", "calling", "persist"},
           pc'[p] \in Locked => mine'[p] = row,
           pc'[p] = "failing" => row.status = "pending"
    PROVE  IInv'
PROOF
<1>1. Copies'
  BY DEF IInv, Copies, OthersStay
<1>2. OnlyPendingFails'
  BY DEF IInv, OnlyPendingFails, OthersStay, Locked
<1>3. \A h \in Working' : h \in Working /\ mine'[h] = mine[h]
  BY ProcsFacts DEF Working, OthersStay
<1>4. OwnExecutions'
  BY <1>3 DEF IInv, OwnExecutions
<1>5. CallIsRecorded'
  BY ProcsFacts DEF IInv, CallIsRecorded, OthersStay
<1>6. NewIsEmpty' /\ PromisesKept' /\ ChargedOnce'
  BY DEF IInv, NewIsEmpty, PromisesKept, ChargedOnce
<1> QED
  BY <1>1, <1>2, <1>4, <1>5, <1>6 DEF IInv

\* A step of p that ends the request, holding the lock or finding it free.
LEMMA EndingStep ==
    ASSUME IInv, TypeOK', NEW p \in Procs, OthersStay(p), UNCHANGED <<cancelled, promised>>,
           \A o \in Procs \ {p} : pc[o] \notin Locked,
           pc'[p] = "idle", row.status \in {"pending", "settlement_pending"},
           row'.status \in {"ok", "failed"},
           row'.execution = row.execution, row'.started = row.started, ChargedOnce'
    PROVE  IInv'
PROOF
<1>1. Copies' /\ OnlyPendingFails'
  BY DEF IInv, Copies, OnlyPendingFails, OthersStay, Locked
<1>2. \A h \in Working' : h \in Working /\ mine'[h] = mine[h]
  BY ProcsFacts DEF Working, OthersStay
<1>3. OwnExecutions'
  BY <1>2 DEF IInv, OwnExecutions
<1>4. CallIsRecorded'
  BY ProcsFacts DEF IInv, CallIsRecorded, OthersStay
<1>5. NewIsEmpty' /\ PromisesKept'
  BY DEF IInv, NewIsEmpty, PromisesKept
<1> QED
  BY <1>1, <1>3, <1>4, <1>5 DEF IInv

\* The row's moves: the request is accepted once, works while it is open, ends with its
\* funds charged or cleared, and at last forgets its result.
Open == {"pending", "settlement_pending"}
Accepts ==
    /\ row = NoRow /\ row'.status = "pending" /\ row'.reserved \in Nat
    /\ charges' = charges
Works ==
    /\ row.status \in Open /\ row'.status \in Open
    /\ row.started => row'.execution = row.execution /\ row'.calls = row.calls
    /\ row'.reserved = row.reserved /\ charges' = charges
Ends ==
    /\ row.status \in Open /\ row'.status \in {"ok", "failed"}
    /\ row'.execution = row.execution /\ row'.calls = row.calls /\ row'.reserved = 0
    /\ charges' = charges \/ (row.reserved > 0 /\ charges' = charges + 1)
Forgets ==
    /\ row.status = "ok" /\ due.cache /\ row' = [row EXCEPT !.result = FALSE]
    /\ charges' = charges
RowMoves == UNCHANGED <<row, charges>> \/ Accepts \/ Works \/ Ends \/ Forgets

\* Admit: the copy is empty, so nothing was done for the request yet.
LEMMA AdmitStep ==
    ASSUME IInv, TypeOK', NEW h \in Handlers, Admit(h)
    PROVE  IInv' /\ Accepts
PROOF
<1>1. /\ h \in Procs /\ pc[h] \in Locked /\ mine[h].status = "none" /\ ~cancelled
      /\ UNCHANGED <<charges, cancelled, promised>>
  BY ProcsFacts DEF Admit, Locked, world
<1>2. row = NoRow /\ \A o \in Procs \ {h} : pc[o] \notin Locked
  BY <1>1, CopyFacts, LockHolder DEF IInv
<1>3. PICK paid \in BOOLEAN :
        Save(h, [NoRow EXCEPT !.status = "pending", !.execution = 1, !.paid = paid,
                              !.reserved = IF paid THEN 1 ELSE 0], "execute")
  BY DEF Admit
<1>4. /\ row' = [NoRow EXCEPT !.status = "pending", !.execution = 1, !.paid = paid,
                              !.reserved = IF paid THEN 1 ELSE 0]
      /\ row' \in RowType /\ Goto(h, "execute", row', "none")
  BY <1>3 DEF Save, TypeOK
<1>5. /\ row'.status = "pending" /\ row'.execution = 1
      /\ row'.reserved = IF paid THEN 1 ELSE 0
  BY <1>4, NoRowFields DEF RowType
<1>6. pc'[h] = "execute" /\ mine'[h] = row' /\ OthersStay(h)
  BY <1>1, <1>4, GotoFacts DEF IInv, Labels, CauseType
<1>7. Working = {}
  BY <1>2, NoRowFields DEF IInv, OwnExecutions
<1>8. Copies' /\ OnlyPendingFails'
  BY <1>2, <1>6 DEF Copies, OnlyPendingFails, OthersStay, Locked
<1>9. \A g \in Working' : g = h
  BY <1>1, <1>6, <1>7, ProcsFacts DEF Working, OthersStay
<1>10. OwnExecutions'
  BY <1>5, <1>6, <1>9 DEF OwnExecutions
<1>11. CallIsRecorded'
  BY <1>6, <1>7, ProcsFacts DEF CallIsRecorded, Working, OthersStay
<1>12. NewIsEmpty' /\ PromisesKept'
  BY <1>1, <1>5 DEF IInv, NewIsEmpty, PromisesKept
<1>13. ChargedOnce'
  BY <1>1, <1>2, <1>5, NoRowFields DEF IInv, ChargedOnce
<1> QED
  BY <1>1, <1>2, <1>5, <1>8, <1>10, <1>11, <1>12, <1>13 DEF IInv, Accepts

\* TakeOver: no attempt is open, so nobody is in a call; the new number is above all others.
LEMMA TakeOverStep ==
    ASSUME IInv, TypeOK', NEW h \in Handlers, TakeOver(h)
    PROVE  IInv' /\ Works
PROOF
<1>1. /\ h \in Procs /\ pc[h] \in Locked /\ mine[h].status = "pending" /\ ~mine[h].started
      /\ UNCHANGED <<charges, cancelled, promised>>
      /\ row' = [mine[h] EXCEPT !.execution = mine[h].execution + 1]
      /\ Goto(h, "execute", row', "none")
  BY ProcsFacts DEF TakeOver, Save, MayRunAgain, Locked, world
<1>2. \A o \in Procs \ {h} : pc[o] \notin Locked
  BY <1>1, LockHolder DEF IInv
<1>3. /\ row.status \in Open /\ row.execution = mine[h].execution /\ ~row.started
      /\ row.reserved = mine[h].reserved
  BY <1>1, CopyFacts DEF Open
<1>4. row \in RowType /\ mine[h] \in RowType /\ row' \in RowType
  BY <1>1 DEF IInv, TypeOK
<1>5. row'.status = "pending" /\ row'.execution = row.execution + 1 /\ row'.reserved = row.reserved
  BY <1>1, <1>3, <1>4 DEF RowType
<1>6. pc'[h] = "execute" /\ mine'[h] = row' /\ OthersStay(h)
  BY <1>1, <1>4, GotoFacts DEF IInv, Labels, CauseType
<1>7. Copies' /\ OnlyPendingFails'
  BY <1>2, <1>6 DEF Copies, OnlyPendingFails, OthersStay, Locked
<1>8. \A g \in Working' \ {h} : g \in Working /\ mine'[g] = mine[g]
  BY <1>6, ProcsFacts DEF Working, OthersStay
<1>9. row.execution \in Nat
  BY <1>4 DEF RowType
<1>10. OwnExecutions'
  <2>1. \A g \in Working' \ {h} : mine'[g].execution \in 1 .. row.execution
    BY <1>8 DEF IInv, OwnExecutions
  <2>2. mine'[h].execution = row.execution + 1
    BY <1>5, <1>6
  <2>3. \A g \in Working' : mine'[g].execution \in 1 .. row'.execution
    BY <1>5, <1>9, <2>1, <2>2
  <2>4. \A f, g \in Working' : mine'[f].execution = mine'[g].execution => f = g
    BY <1>8, <1>9, <2>1, <2>2 DEF IInv, OwnExecutions
  <2> QED
    BY <2>3, <2>4 DEF OwnExecutions
<1>11. CallIsRecorded'
  BY <1>3, <1>6, ProcsFacts DEF IInv, CallIsRecorded, OthersStay
<1>12. NewIsEmpty' /\ PromisesKept' /\ ChargedOnce'
  BY <1>1, <1>3, <1>5 DEF IInv, NewIsEmpty, PromisesKept, ChargedOnce, Open
<1> QED
  BY <1>1, <1>3, <1>5, <1>7, <1>10, <1>11, <1>12 DEF IInv, Works, Open

\* Every request that ends under the lock does so by failing.
LEMMA CloseStep ==
    ASSUME IInv, TypeOK', NEW p \in Procs, pc[p] \in Locked, mine[p].status = "pending",
           NEW code \in {"none", "AI_CANCELLED", "AI_EXECUTION_UNCERTAIN"},
           Save(p, Failed(mine[p], code), "idle"), UNCHANGED world
    PROVE  IInv' /\ Ends
PROOF
<1>1. /\ row' = Failed(mine[p], code) /\ Goto(p, "idle", row', "none")
      /\ UNCHANGED <<charges, cancelled, promised>>
  BY DEF Save, world
<1>2. mine[p] \in RowType /\ row' \in RowType
  BY DEF IInv, TypeOK
<1>3. /\ row.status \in Open /\ row.execution = mine[p].execution
      /\ row.started = mine[p].started /\ row.calls = mine[p].calls
  BY CopyFacts DEF Open
<1>4. /\ row'.status = "failed" /\ row'.reserved = 0 /\ row'.execution = row.execution
      /\ row'.started = row.started /\ row'.calls = row.calls
  BY <1>1, <1>2, <1>3, FailedFields
<1>5. pc'[p] = "idle" /\ OthersStay(p) /\ \A o \in Procs \ {p} : pc[o] \notin Locked
  BY <1>1, <1>2, GotoFacts, LockHolder DEF IInv, Labels, CauseType
<1>6. ChargedOnce'
  BY <1>1, <1>3, <1>4, ChargeFacts DEF ChargedOnce, Open
<1>7. row.status \in {"pending", "settlement_pending"} /\ row'.status \in {"ok", "failed"}
  BY <1>3, <1>4 DEF Open
<1>8. IInv'
  BY <1>1, <1>4, <1>5, <1>6, <1>7, EndingStep
<1>9. Ends
  BY <1>1, <1>3, <1>4, <1>7 DEF Ends
<1> QED
  BY <1>8, <1>9

\* StartAttempt: only the row's own execution opens an attempt.
LEMMA StartStep ==
    ASSUME IInv, TypeOK', NEW h \in Handlers, StartAttempt(h)
    PROVE  IInv' /\ Works
PROOF
<1>1. /\ h \in Procs /\ pc[h] = "execute" /\ lock = "free" /\ OwnsLease(h) /\ ~row.started
      /\ UNCHANGED <<charges, cancelled, promised>>
      /\ row' = [row EXCEPT !.started = TRUE, !.calls = row.calls + 1]
      /\ Goto(h, "calling", mine[h], "none")
  BY ProcsFacts DEF StartAttempt, world
<1>2. row \in RowType /\ mine[h] \in RowType
  BY <1>1 DEF IInv, TypeOK
<1>3. /\ row'.status = row.status /\ row'.execution = row.execution /\ row'.started
      /\ row'.reserved = row.reserved /\ row'.paid = row.paid /\ row'.usable = row.usable
  BY <1>1, <1>2 DEF RowType
<1>4. pc'[h] = "calling" /\ mine'[h] = mine[h] /\ OthersStay(h)
  BY <1>1, <1>2, GotoFacts DEF IInv, Labels, CauseType
<1>5. row.status = "pending" /\ mine[h].execution = row.execution
  BY <1>1 DEF OwnsLease
<1>6. Copies' /\ OnlyPendingFails'
  BY <1>1, <1>4, LockHolder DEF IInv, Copies, OnlyPendingFails, OthersStay, Locked
<1>7. \A g \in Working' : g \in Working /\ mine'[g] = mine[g]
  BY <1>1, <1>4, ProcsFacts DEF Working, OthersStay
<1>8. OwnExecutions'
  BY <1>3, <1>7 DEF IInv, OwnExecutions
<1>9. CallIsRecorded'
  BY <1>3, <1>4, <1>5, ProcsFacts DEF IInv, CallIsRecorded, OthersStay
<1>10. NewIsEmpty' /\ PromisesKept' /\ ChargedOnce'
  BY <1>1, <1>3, <1>5 DEF IInv, NewIsEmpty, PromisesKept, ChargedOnce
<1>11. Works
  BY <1>1, <1>3, <1>5 DEF Works, Open
<1> QED
  BY <1>6, <1>8, <1>9, <1>10, <1>11 DEF IInv

\* FinishAttempt: the execution that closes the attempt was the only one in a call.
LEMMA FinishStep ==
    ASSUME IInv, TypeOK', NEW h \in Handlers, FinishAttempt(h)
    PROVE  IInv' /\ Works
PROOF
<1>1. /\ h \in Procs /\ pc[h] = "calling" /\ lock = "free" /\ OwnsLease(h)
      /\ UNCHANGED <<charges, cancelled, promised>>
      /\ row' = [row EXCEPT !.started = FALSE]
  BY ProcsFacts DEF FinishAttempt, world
<1>2. PICK label \in {"persist", "execute", "fail"}, why \in CauseType :
        Goto(h, label, mine[h], why)
  BY DEF FinishAttempt, Causes, CauseType
<1>3. row \in RowType /\ mine[h] \in RowType
  BY <1>1 DEF IInv, TypeOK
<1>4. /\ row'.status = row.status /\ row'.execution = row.execution /\ row'.calls = row.calls
      /\ row'.reserved = row.reserved /\ row'.paid = row.paid /\ row'.usable = row.usable
  BY <1>1, <1>3 DEF RowType
<1>5. pc'[h] = label /\ mine'[h] = mine[h] /\ OthersStay(h)
  BY <1>1, <1>2, <1>3, GotoFacts DEF IInv, Labels
<1>6. row.status = "pending" /\ mine[h].execution = row.execution
  BY <1>1 DEF OwnsLease
<1>7. Copies' /\ OnlyPendingFails'
  BY <1>1, <1>5, LockHolder DEF IInv, Copies, OnlyPendingFails, OthersStay, Locked
<1>8. \A g \in Working' : g \in Working /\ mine'[g] = mine[g]
  BY <1>1, <1>5, ProcsFacts DEF Working, OthersStay
<1>9. OwnExecutions'
  BY <1>4, <1>8 DEF IInv, OwnExecutions
<1>10. CallIsRecorded'
  <2>1. \A g \in Handlers : pc[g] = "calling" => g = h
    BY <1>1, <1>6 DEF IInv, CallIsRecorded, OwnExecutions, Working
  <2> QED
    BY <1>5, <2>1, ProcsFacts DEF CallIsRecorded, OthersStay
<1>11. NewIsEmpty' /\ PromisesKept' /\ ChargedOnce'
  BY <1>1, <1>4, <1>6 DEF IInv, NewIsEmpty, PromisesKept, ChargedOnce
<1>12. Works
  BY <1>1, <1>4, <1>6 DEF Works, Open
<1> QED
  BY <1>7, <1>9, <1>10, <1>11, <1>12 DEF IInv

\* Persist takes no lock: whoever holds it has a copy without the result from here on.
LEMMA PersistStep ==
    ASSUME IInv, TypeOK', NEW h \in Handlers, Persist(h)
    PROVE  IInv' /\ Works
PROOF
<1>1. /\ h \in Procs /\ pc[h] = "persist" /\ row.status = "pending"
      /\ UNCHANGED <<charges, cancelled, promised>>
      /\ Goto(h, "settle", NoRow, "none")
  BY ProcsFacts DEF Persist, OwnsLease, world
<1>2. PICK usable \in BOOLEAN : row' = Stored(row, usable)
  BY DEF Persist
<1>3. row \in RowType
  BY DEF IInv, TypeOK
<1>4. /\ row'.status = "settlement_pending" /\ row'.execution = row.execution
      /\ row'.started = row.started /\ row'.calls = row.calls /\ row'.reserved = row.reserved
  BY <1>2, <1>3, StoredFields
<1>5. pc'[h] = "settle" /\ OthersStay(h)
  BY <1>1, NoRowFields, GotoFacts DEF IInv, Labels, CauseType
<1>6. Copies'
  <2>1. ASSUME NEW p \in Procs \ {h}, pc[p] \in Locked, mine[p].status \in {"none", "pending"}
        PROVE  row = mine[p]
    <3>1. mine[p] \in RowType
      BY DEF IInv, TypeOK
    <3>2. \A u \in BOOLEAN : Stored(mine[p], u).status = "settlement_pending"
      BY <3>1, StoredFields
    <3> QED
      BY <1>1, <2>1, <3>2 DEF IInv, Copies
  <2> QED
    BY <1>1, <1>2, <1>5, <2>1 DEF Copies, OthersStay, Locked
<1>7. OnlyPendingFails'
  BY <1>5 DEF IInv, OnlyPendingFails, OthersStay
<1>8. \A g \in Working' : g \in Working /\ mine'[g] = mine[g]
  BY <1>5, ProcsFacts DEF Working, OthersStay
<1>9. OwnExecutions'
  BY <1>4, <1>8 DEF IInv, OwnExecutions
<1>10. CallIsRecorded'
  BY <1>4, <1>5, ProcsFacts DEF IInv, CallIsRecorded, OthersStay
<1>11. NewIsEmpty' /\ PromisesKept' /\ ChargedOnce'
  BY <1>1, <1>4 DEF IInv, NewIsEmpty, PromisesKept, ChargedOnce
<1>12. Works
  BY <1>1, <1>4 DEF Works, Open
<1> QED
  BY <1>6, <1>7, <1>9, <1>10, <1>11, <1>12 DEF IInv

\* Settling ends the request: nothing for a free one, the one charge for a paid one.
LEMMA SettleStep ==
    ASSUME IInv, TypeOK', NEW p \in Procs, SettleTooLate(p) \/ SettleFree(p) \/ SettleDebit(p)
    PROVE  IInv' /\ Ends
PROOF
<1>1. /\ lock = "free" /\ row.status = "settlement_pending" /\ Done(p)
      /\ UNCHANGED <<cancelled, promised>>
  BY DEF SettleTooLate, SettleFree, SettleDebit, world
<1>2. row \in RowType /\ Failed(row, "none") \in RowType
  BY FailedFields DEF IInv, TypeOK
<1>3. /\ row'.status \in {"ok", "failed"} /\ row'.execution = row.execution
      /\ row'.started = row.started /\ row'.calls = row.calls /\ row'.reserved = 0
      /\ \/ charges' = charges /\ (row'.status = "ok" => IsFree(row'))
         \/ row.reserved > 0 /\ charges' = charges + 1 /\ row'.status = "ok" /\ ~IsFree(row')
  <2>1. CASE SettleTooLate(p)
    <3>1. row' = [Failed(row, "none") EXCEPT !.result = FALSE] /\ charges' = charges
      BY <2>1 DEF SettleTooLate, world
    <3>2. /\ row'.status = Failed(row, "none").status
          /\ row'.execution = Failed(row, "none").execution
          /\ row'.started = Failed(row, "none").started
          /\ row'.calls = Failed(row, "none").calls
          /\ row'.reserved = Failed(row, "none").reserved
      BY <1>2, <3>1 DEF RowType
    <3> QED
      BY <1>2, <3>1, <3>2, FailedFields
  <2>2. CASE SettleFree(p)
    BY <1>2, <2>2 DEF SettleFree, world, IsFree, RowType
  <2>3. CASE SettleDebit(p)
    BY <1>2, <2>3 DEF SettleDebit, IsFree, RowType
  <2> QED
    BY <2>1, <2>2, <2>3
<1>4. pc'[p] = "idle" /\ OthersStay(p) /\ \A o \in Procs \ {p} : pc[o] \notin Locked
  BY <1>1, NoRowFields, GotoFacts, LockHolder DEF IInv, Done, Labels, CauseType
<1>5. charges = 0 /\ ChargedOnce'
  <2>1. charges = 0
    BY <1>1, ChargeFacts
  <2> QED
    BY <1>3, <2>1 DEF ChargedOnce
<1>6. IInv'
  BY <1>1, <1>3, <1>4, <1>5, EndingStep
<1>7. Ends
  BY <1>1, <1>3 DEF Ends, Open
<1> QED
  BY <1>6, <1>7

\* CleanExpiredCaches touches ended requests only, of which nobody holds an open copy.
LEMMA CleanStep ==
    ASSUME IInv, TypeOK', CleanExpiredCaches
    PROVE  IInv' /\ Forgets
PROOF
<1>1. /\ row.status = "ok" /\ due.cache /\ row' = [row EXCEPT !.result = FALSE]
      /\ UNCHANGED <<pc, mine, charges, cancelled, promised>>
  BY DEF CleanExpiredCaches, procVars, world
<1>2. row \in RowType
  BY DEF IInv, TypeOK
<1>3. /\ row'.status = "ok" /\ row'.execution = row.execution /\ row'.started = row.started
      /\ row'.paid = row.paid /\ row'.usable = row.usable
  BY <1>1, <1>2 DEF RowType
<1>4. \A p \in Procs : pc[p] \in Locked => mine[p].status \notin {"none", "pending"}
  BY <1>1, CopyFacts, NoRowFields
<1>5. Copies' /\ OnlyPendingFails'
  BY <1>1, <1>4 DEF IInv, Copies, OnlyPendingFails
<1>6. OwnExecutions' /\ CallIsRecorded'
  BY <1>1, <1>3 DEF IInv, OwnExecutions, CallIsRecorded, Working
<1>7. NewIsEmpty' /\ PromisesKept' /\ ChargedOnce'
  BY <1>1, <1>3 DEF IInv, NewIsEmpty, PromisesKept, ChargedOnce, IsFree
<1> QED
  BY <1>1, <1>5, <1>6, <1>7 DEF IInv, Forgets

\* The other steps of a process leave the row alone.
LEMMA QuietActions ==
    ASSUME IInv, TypeOK', NEW p \in Procs,
           \/ p \in Handlers /\ \/ Enter(p) \/ Query(p) \/ Refuse(p) \/ Replay(p) \/ GiveUp(p)
                                \/ FinishTooLate(p) \/ PersistLost(p)
           \/ LockFail(p) \/ SettleNothing(p) \/ Crash(p)
           \/ p = Recovery /\ Recover
    PROVE  IInv' /\ UNCHANGED <<row, charges>>
PROOF
<1>1. UNCHANGED <<row, charges, cancelled, promised>>
  BY DEF Enter, Query, Refuse, Replay, NoSave, GiveUp, FinishTooLate, PersistLost, LockFail,
     SettleNothing, Crash, Recover, world
<1>2. row \in RowType /\ mine[p] \in RowType /\ cause[p] \in CauseType /\ NoRow \in RowType
  BY NoRowFields DEF IInv, TypeOK, CauseType
<1>3. \/ \E label \in {"idle", "settle", "fail"}, r \in RowType, why \in CauseType :
           Goto(p, label, r, why)
      \/ Goto(p, "admit", row, "none")
      \/ row.status = "pending" /\ Goto(p, "failing", row, cause[p])
  <2>1. CASE p \in Handlers /\ (Enter(p) \/ Query(p) \/ PersistLost(p))
    BY <1>2, <2>1 DEF Enter, Query, PersistLost, Done, CauseType
  <2>2. CASE p \in Handlers /\ (Refuse(p) \/ Replay(p))
    BY <1>2, <2>2 DEF Refuse, Replay, NoSave, CauseType
  <2>3. CASE p \in Handlers /\ (GiveUp(p) \/ FinishTooLate(p))
    BY <1>2, <2>3 DEF GiveUp, FinishTooLate, Causes, CauseType
  <2>4. CASE LockFail(p)
    BY <1>2, <2>4 DEF LockFail, OwnsLease, Done, CauseType
  <2>5. CASE SettleNothing(p) \/ Crash(p)
    BY <1>2, <2>5 DEF SettleNothing, Crash, Done, CauseType
  <2>6. CASE p = Recovery /\ Recover
    BY <1>2, <2>6 DEF Recover, CauseType
  <2> QED
    BY <2>1, <2>2, <2>3, <2>4, <2>5, <2>6
<1>4. CASE \E label \in {"idle", "settle", "fail"}, r \in RowType, why \in CauseType :
             Goto(p, label, r, why)
  <2>1. pc'[p] \in {"idle", "settle", "fail"} /\ OthersStay(p)
    BY <1>4, GotoFacts DEF IInv, Labels
  <2>2. pc'[p] \notin {"execute", "calling", "persist", "failing"} /\ pc'[p] \notin Locked
    BY <2>1 DEF Locked
  <2> QED
    BY <1>1, <2>1, <2>2, QuietStep
<1>5. CASE Goto(p, "admit", row, "none")
  <2>1. pc'[p] = "admit" /\ mine'[p] = row /\ OthersStay(p)
    BY <1>2, <1>5, GotoFacts DEF IInv, Labels, CauseType
  <2> QED
    BY <1>1, <2>1, QuietStep
<1>6. CASE row.status = "pending" /\ Goto(p, "failing", row, cause[p])
  <2>1. pc'[p] = "failing" /\ mine'[p] = row /\ OthersStay(p)
    BY <1>2, <1>6, GotoFacts DEF IInv, Labels
  <2> QED
    BY <1>1, <1>6, <2>1, QuietStep
<1> QED
  BY <1>1, <1>3, <1>4, <1>5, <1>6

\* Every step keeps the invariant, and moves the row as its life allows.
LEMMA StepFacts ==
    ASSUME IInv, [Next]_vars
    PROVE  IInv' /\ RowMoves
PROOF
<1>1. TypeOK'
  BY TypesKept DEF IInv
<1>2. ASSUME UNCHANGED <<row, charges, cancelled, promised, pc, mine>> PROVE IInv' /\ RowMoves
  BY <1>1, <1>2 DEF IInv, Copies, OnlyPendingFails, OwnExecutions, Working, CallIsRecorded,
     NewIsEmpty, PromisesKept, ChargedOnce, RowMoves
<1>3. ASSUME NEW p \in Procs, Progress(p) PROVE IInv' /\ RowMoves
  <2>1. CASE p \in Handlers /\ Admit(p)
    BY <1>1, <2>1, AdmitStep DEF RowMoves
  <2>2. CASE p \in Handlers /\ TakeOver(p)
    BY <1>1, <2>2, TakeOverStep DEF RowMoves
  <2>3. CASE p \in Handlers /\ (CloseCancelled(p) \/ CloseUncertain(p) \/ CloseExhausted(p))
    <3>1. /\ pc[p] \in Locked /\ mine[p].status = "pending" /\ UNCHANGED world
          /\ \E code \in {"none", "AI_CANCELLED", "AI_EXECUTION_UNCERTAIN"} :
               Save(p, Failed(mine[p], code), "idle")
      BY <2>3 DEF CloseCancelled, CloseUncertain, CloseExhausted, Locked
    <3> QED
      BY <1>1, <3>1, CloseStep DEF RowMoves
  <2>4. CASE CommitFail(p)
    <3>1. FailureCode(p) \in {"none", "AI_CANCELLED", "AI_EXECUTION_UNCERTAIN"}
      BY DEF FailureCode, IInv, TypeOK
    <3>2. /\ pc[p] \in Locked /\ mine[p].status = "pending" /\ UNCHANGED world
          /\ Save(p, Failed(mine[p], FailureCode(p)), "idle")
      BY <2>4 DEF CommitFail, Locked, IInv, OnlyPendingFails
    <3> QED
      BY <1>1, <3>1, <3>2, CloseStep DEF RowMoves
  <2>5. CASE p \in Handlers /\ StartAttempt(p)
    BY <1>1, <2>5, StartStep DEF RowMoves
  <2>6. CASE p \in Handlers /\ FinishAttempt(p)
    BY <1>1, <2>6, FinishStep DEF RowMoves
  <2>7. CASE p \in Handlers /\ Persist(p)
    BY <1>1, <2>7, PersistStep DEF RowMoves
  <2>8. CASE SettleTooLate(p) \/ SettleFree(p) \/ SettleDebit(p)
    BY <1>1, <2>8, SettleStep DEF RowMoves
  <2>9. CASE \/ p \in Handlers /\ \/ Refuse(p) \/ Replay(p) \/ GiveUp(p) \/ FinishTooLate(p)
                                  \/ PersistLost(p)
             \/ LockFail(p) \/ SettleNothing(p)
    BY <1>1, <2>9, QuietActions DEF RowMoves
  <2> QED
    BY <1>3, <2>1, <2>2, <2>3, <2>4, <2>5, <2>6, <2>7, <2>8, <2>9
       DEF Progress, Commit, Execute, SettleV2
<1>4. ASSUME NEW h \in Handlers, Enter(h) \/ Query(h) PROVE IInv' /\ RowMoves
  BY <1>1, <1>4, ProcsFacts, QuietActions DEF RowMoves
<1>5. ASSUME NEW p \in Procs, Crash(p) PROVE IInv' /\ RowMoves
  BY <1>1, <1>5, QuietActions DEF RowMoves
<1>6. CASE Recover
  BY <1>1, <1>6, ProcsFacts, QuietActions DEF RowMoves
<1>7. CASE Cancel
  <2>1. UNCHANGED <<row, charges, pc, mine>> /\ cancelled' /\ promised' = (row.status = "none")
    BY <1>7 DEF Cancel, procVars
  <2> QED
    BY <1>1, <2>1 DEF IInv, Copies, OnlyPendingFails, OwnExecutions, Working, CallIsRecorded,
       NewIsEmpty, PromisesKept, ChargedOnce, RowMoves
<1>8. CASE CleanExpiredCaches
  BY <1>1, <1>8, CleanStep DEF RowMoves
<1>9. CASE Revoke \/ TimePasses \/ UNCHANGED vars
  BY <1>2, <1>9 DEF Revoke, TimePasses, LeaseExpires, RequestAges, LeaseAbandoned, CacheExpires,
     vars, procVars, world
<1> QED
  BY <1>3, <1>4, <1>5, <1>6, <1>7, <1>8, <1>9 DEF Next

\* Nothing has started: the invariant holds at first.
LEMMA InitFacts ==
    ASSUME Init
    PROVE  IInv
PROOF
<1>1. /\ row = NoRow /\ due = NotDue /\ charges = 0 /\ crashes = 0 /\ lock = "free"
      /\ revoked = FALSE /\ cancelled = FALSE /\ promised = FALSE
      /\ pc = [p \in Procs |-> "idle"] /\ mine = [p \in Procs |-> NoRow]
      /\ cause = [p \in Procs |-> "none"]
  BY DEF Init
<1>2. TypeOK
  <2>1. row \in RowType /\ mine \in [Procs -> RowType]
    BY <1>1, NoRowFields
  <2>2. due \in [lease : {"live", "expired", "abandoned"}, aged : BOOLEAN, cache : BOOLEAN]
    BY <1>1 DEF NotDue
  <2>3. crashes \in 0 .. MaxCrashes /\ charges \in Nat
    BY <1>1, BoundsAssumption
  <2>4. \A p \in Procs : lock = p <=> pc[p] \in {"admit", "failing"}
    BY <1>1, ProcsFacts
  <2> QED
    BY <1>1, <2>1, <2>2, <2>3, <2>4 DEF TypeOK
<1>3. \A p \in Procs : pc[p] = "idle"
  BY <1>1
<1>4. Copies /\ OnlyPendingFails
  BY <1>3 DEF Copies, OnlyPendingFails, Locked
<1>5. OwnExecutions /\ CallIsRecorded
  BY <1>3, ProcsFacts DEF OwnExecutions, CallIsRecorded, Working
<1>6. NewIsEmpty /\ PromisesKept /\ ChargedOnce
  BY <1>1, NoRowFields DEF NewIsEmpty, PromisesKept, ChargedOnce
<1> QED
  BY <1>2, <1>4, <1>5, <1>6 DEF IInv

-----------------------------------------------------------------------------
\* The invariant holds in every state: this is what the theorems below rest on.
THEOREM Invariance == Spec => []IInv
PROOF
<1>1. Init => IInv
  BY InitFacts
<1>2. IInv /\ [Next]_vars => IInv'
  BY StepFacts
<1> QED
  BY <1>1, <1>2, PTL DEF Spec

\* The row and the copies have their types, and the lock is held by the one process
\* inside a two-step transaction, for any number of handlers (handleBillingV2, failV2).
THEOREM TypeCorrect == Spec => []TypeOK
PROOF
  BY Invariance, PTL DEF IInv

\* At most one charge, and only for a usable result of a paid call that ended "ok",
\* whoever races to settle and whoever dies (settleV2).
THEOREM NeverChargedTwice == Spec => []ChargedOnce
PROOF
  BY Invariance, PTL DEF IInv

\* At most one handler is in an upstream call, over lease expiry and takeover
\* (handleBillingV2, executeV2).
THEOREM NeverTwoCalls == Spec => []OneCallAtATime
PROOF
<1>1. ASSUME IInv PROVE OneCallAtATime
  <2> DEFINE Callers == {h \in Handlers : pc[h] = "calling"}
  <2>1. \A h, g \in Callers : h = g
    BY <1>1 DEF IInv, CallIsRecorded, OwnExecutions, Working
  <2>2. CASE Callers = {}
    <3>1. Cardinality(Callers) = 0
      BY <2>2, FS_EmptySet
    <3> QED
      BY <3>1 DEF OneCallAtATime
  <2>3. CASE Callers # {}
    <3>1. PICK h \in Callers : TRUE
      BY <2>3
    <3>2. Callers = {h}
      BY <2>1, <3>1
    <3>3. Cardinality(Callers) = 1
      BY <3>2, FS_Singleton
    <3> QED
      BY <3>3 DEF OneCallAtATime
  <2> QED
    BY <2>2, <2>3
<1> QED
  BY <1>1, Invariance, PTL

\* A request whose cancellation was confirmed before it was accepted is never accepted
\* (CancelRequest, handleBillingV2).
THEOREM NeverAcceptedOnceCancelled == Spec => []CancelledStaysOut
PROOF
<1>1. IInv => CancelledStaysOut
  BY DEF IInv, PromisesKept, CancelledStaysOut
<1> QED
  BY <1>1, Invariance, PTL

\* No transaction that writes a row back whole changes a request that has ended.
THEOREM EndsAreFinal == Spec => EndedIsFinal
PROOF
<1>1. ASSUME IInv, RowMoves, Terminal(row)
      PROVE  row' = [row EXCEPT !.result = row'.result]
  <2>1. row \in RowType
    BY <1>1 DEF IInv, TypeOK
  <2>2. row' = row \/ row' = [row EXCEPT !.result = FALSE]
    BY <1>1, NoRowFields DEF RowMoves, Accepts, Works, Ends, Forgets, Open, Terminal
  <2> QED
    BY <2>1, <2>2 DEF RowType
<1>2. IInv /\ [Next]_vars =>
        [Terminal(row) => row' = [row EXCEPT !.result = row'.result]]_vars
  BY <1>1, StepFacts
<1> QED
  BY <1>2, Invariance, PTL DEF Spec, EndedIsFinal

\* The result of a request that has ended is there to be replayed for its 24 hours
\* (CleanExpiredCaches): what StoredResultIsKept shows to be lost is a result that is not
\* settled yet.
THEOREM SettledResultIsKept ==
    Spec => [][Terminal(row) /\ row.result /\ ~due.cache => row'.result]_vars
PROOF
<1>1. ASSUME IInv, RowMoves, Terminal(row), row.result, ~due.cache
      PROVE  row'.result
  BY <1>1, NoRowFields DEF RowMoves, Accepts, Works, Ends, Forgets, Open, Terminal
<1>2. IInv /\ [Next]_vars => [Terminal(row) /\ row.result /\ ~due.cache => row'.result]_vars
  BY <1>1, StepFacts
<1> QED
  BY <1>2, Invariance, PTL DEF Spec

\* No execution starts over an attempt whose outcome is unknown (handleBillingV2).
THEOREM UnknownIsNeverRerun == Spec => UnknownIsNotRerun
PROOF
<1>1. ASSUME IInv, RowMoves, row.started
      PROVE  row'.execution = row.execution /\ row'.calls = row.calls
  <2>1. row \in RowType
    BY <1>1 DEF IInv, TypeOK
  <2>2. CASE Forgets
    BY <2>1, <2>2 DEF Forgets, RowType
  <2> QED
    BY <1>1, <2>2, NoRowFields DEF RowMoves, Accepts, Works, Ends
<1>2. IInv /\ [Next]_vars =>
        [row.started => row'.execution = row.execution /\ row'.calls = row.calls]_vars
  BY <1>1, StepFacts
<1> QED
  BY <1>2, Invariance, PTL DEF Spec, UnknownIsNotRerun

\* Whatever happens to a request is, for its funds, what RequestFunds promises: opened,
\* then charged what was reserved or released, once.
THEOREM FundsPromiseKept == Spec => ImplementsFunds
PROOF
<1>1. Init => Funds!Init
  BY NoRowFields DEF Init, Funds!Init, Phase
<1>2. ASSUME IInv, RowMoves PROVE [Funds!Next]_Funds!vars
  <2>1. /\ row \in RowType /\ row.reserved \in 0 .. 1
        /\ row.status # "ok" => charges = 0
    BY <1>2, ChargeFacts DEF IInv, TypeOK, RowType
  <2>2. CASE UNCHANGED <<row, charges>>
    BY <2>2 DEF Funds!vars, Phase, Terminal
  <2>3. CASE Accepts
    <3>1. Funds!Open
      BY <2>3, NoRowFields DEF Accepts, Funds!Open, Phase, Terminal
    <3> QED
      BY <3>1 DEF Funds!Next
  <2>4. CASE Works
    BY <2>4 DEF Works, Open, Funds!vars, Phase, Terminal
  <2>5. CASE Ends
    <3>1. Phase = "open" /\ Phase' = "closed"
      BY <2>5 DEF Ends, Open, Phase, Terminal
    <3>2. charges = 0
      BY <2>1, <2>5 DEF Ends, Open
    <3>3. Funds!Release \/ Funds!Charge
      BY <2>1, <2>5, <3>1, <3>2 DEF Ends, Funds!Release, Funds!Charge
    <3> QED
      BY <3>3 DEF Funds!Next
  <2>6. CASE Forgets
    <3>1. row'.status = row.status /\ row'.reserved = row.reserved /\ charges' = charges
      BY <2>1, <2>6 DEF Forgets, RowType
    <3> QED
      BY <3>1 DEF Funds!vars, Phase, Terminal
  <2> QED
    BY <1>2, <2>2, <2>3, <2>4, <2>5, <2>6 DEF RowMoves
<1>3. IInv /\ [Next]_vars => [Funds!Next]_Funds!vars
  BY <1>2, StepFacts
<1> QED
  BY <1>1, <1>3, Invariance, PTL DEF Spec, ImplementsFunds, Funds!Spec
=============================================================================
