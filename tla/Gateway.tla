------------------------------ MODULE Gateway ------------------------------
(***************************************************************************)
(* One AI request under billing v2: the HTTP handlers that carry it (the   *)
(* client's first call and its retries under the same requestId), the      *)
(* recovery job, status queries and cancellation, over the row of          *)
(* ai_requests they share.                                                 *)
(*                                                                         *)
(* Transactions lock the user's row, read the request and write it back    *)
(* WHOLE (tx.Save), while executeV2 stores a result by an UPDATE that      *)
(* takes no lock.  So a transaction that may write back a pending row is   *)
(* two steps here, the locked read and the commit, and the UPDATE may fall *)
(* between them; the other transactions are one step.  Time is kept as     *)
(* what has elapsed (due): the lease of 90 s, the 10 minutes after which   *)
(* recovery gives up, the 24 h of the stored result.                       *)
(***************************************************************************)
EXTENDS Naturals, FiniteSets

CONSTANTS
    Handlers,        \* HTTP handlers of this request
    MaxExecutions,   \* ExecutionAttempts at which a takeover is refused (3)
    MaxCalls,        \* upstream attempts the execution budget allows
    MaxCrashes       \* bound of the model: processes lost

Recovery == "recovery"
Procs == Handlers \cup {Recovery}

ASSUME BoundsAssumption ==
    /\ Recovery \notin Handlers /\ "free" \notin Handlers
    /\ MaxExecutions \in Nat \ {0} /\ MaxCalls \in Nat /\ MaxCrashes \in Nat

VARIABLES
    row,        \* the request, status "none" before it is accepted
    due,        \* which of the row's deadlines have passed
    charges,    \* debits in the ledger for this request
    revoked,    \* a bucket it reserved in was revoked
    cancelled,  \* a row of ai_request_cancellations exists
    promised,   \* a cancellation was answered "cancelled" before any acceptance
    lock,       \* the process in a two-step transaction on the user, or "free"
    pc,         \* where each process is
    mine,       \* the copy of the row each process works on (r, or current)
    cause,      \* why a process is about to fail the request
    crashes

vars == <<row, due, charges, revoked, cancelled, promised, lock, pc, mine, cause, crashes>>
procVars == <<lock, pc, mine, cause>>
world == <<charges, revoked, cancelled, promised, crashes>>

-----------------------------------------------------------------------------
\* LeaseToken is a fresh uuid of each execution: the number of the execution
\* stands for it.  "started" is an attempt of usage_details without an outcome.
NoRow == [status |-> "none", execution |-> 0, started |-> FALSE, calls |-> 0, paid |-> FALSE,
          reserved |-> 0, result |-> FALSE, usable |-> FALSE, code |-> "none"]

NotDue == [lease |-> "live", aged |-> FALSE, cache |-> FALSE]

Init ==
    /\ row = NoRow /\ due = NotDue
    /\ charges = 0 /\ revoked = FALSE /\ cancelled = FALSE /\ promised = FALSE
    /\ lock = "free"
    /\ pc = [p \in Procs |-> "idle"]
    /\ mine = [p \in Procs |-> NoRow]
    /\ cause = [p \in Procs |-> "none"]
    /\ crashes = 0

Terminal(r) == r.status \in {"ok", "failed"}
OwnsLease_TokenOnly(p) == row.execution = mine[p].execution   \* mutant: status not checked
OwnsLease(p) == row.status = "pending" /\ row.execution = mine[p].execution

\* p goes on at label; a process that is done forgets its copy.
Goto(p, label, r, why) ==
    /\ pc' = [pc EXCEPT ![p] = label]
    /\ mine' = [mine EXCEPT ![p] = IF label = "idle" THEN NoRow ELSE r]
    /\ cause' = [cause EXCEPT ![p] = IF label = "idle" THEN "none" ELSE why]
Done(p) == Goto(p, "idle", NoRow, "none")

\* Why a call or its admission ended without an answer: a cancelled request's
\* may still fail for another reason first.
Causes == {"none"} \cup {c \in {"AI_CANCELLED"} : cancelled}

Failed_KeepingFunds(r, code) == [r EXCEPT !.status = "failed", !.code = code]   \* mutant
\* ReleaseRequest: the reservation is cleared (where the funds go is in Credits).
Failed(r, code) == [r EXCEPT !.status = "failed", !.reserved = 0, !.code = code]

\* The end of a two-step transaction that saves r whole and goes on at label.
Save(p, r, label) ==
    /\ row' = r /\ lock' = "free"
    /\ Goto(p, label, r, "none")

NoSave(p, label) ==
    /\ lock' = "free" /\ UNCHANGED row
    /\ Goto(p, label, mine[p], "none")

-----------------------------------------------------------------------------
\* handleBillingV2

\* LockUser and the read of the request.
Enter(h) ==
    /\ pc[h] = "idle" /\ lock = "free"
    /\ lock' = h /\ Goto(h, "admit", row, "none")
    /\ UNCHANGED <<row, due>> /\ UNCHANGED world

Admit_Unchecked(h) ==   \* mutant: cancellations are not looked up
    /\ pc[h] = "admit" /\ mine[h].status = "none"
    /\ Save(h, [NoRow EXCEPT !.status = "pending", !.execution = 1], "execute")
    /\ due' = NotDue
    /\ UNCHANGED world

\* A new request, refused when its cancellation came first.  Included calls
\* reserve nothing.  Refusals for price, subscription or funds change nothing.
Admit(h) ==
    /\ pc[h] = "admit" /\ mine[h].status = "none"
    /\ ~cancelled
    /\ \E paid \in BOOLEAN :
         Save(h, [NoRow EXCEPT !.status = "pending", !.execution = 1, !.paid = paid,
                               !.reserved = IF paid THEN 1 ELSE 0], "execute")
    /\ due' = NotDue
    /\ UNCHANGED world

Refuse(h) ==
    /\ pc[h] = "admit" /\ mine[h].status = "none"
    /\ NoSave(h, "idle")
    /\ UNCHANGED due /\ UNCHANGED world

\* The lease of a cancelled request ran out.
CloseCancelled(h) ==
    /\ pc[h] = "admit" /\ mine[h].status = "pending" /\ cancelled /\ due.lease # "live"
    /\ Save(h, Failed(mine[h], "AI_CANCELLED"), "idle")
    /\ UNCHANGED due /\ UNCHANGED world

\* The lease ran out while an attempt had no outcome: never run it again.
CloseUncertain(h) ==
    /\ pc[h] = "admit" /\ mine[h].status = "pending" /\ ~cancelled /\ due.lease # "live"
    /\ mine[h].started
    /\ Save(h, Failed(mine[h], "AI_EXECUTION_UNCERTAIN"), "idle")
    /\ UNCHANGED due /\ UNCHANGED world

MayRunAgain_WithOpenAttempt(r) ==   \* mutant: an unknown outcome does not matter
    r.execution < MaxExecutions /\ ~due.aged
MayRunAgain_WithoutLimit(r) == ~r.started   \* mutant: no limit of executions and age
MayRunAgain(r) == ~r.started /\ r.execution < MaxExecutions /\ ~due.aged

CloseExhausted(h) ==
    /\ pc[h] = "admit" /\ mine[h].status = "pending" /\ ~cancelled /\ due.lease # "live"
    /\ ~mine[h].started /\ ~MayRunAgain(mine[h])
    /\ Save(h, Failed(mine[h], "none"), "idle")
    /\ UNCHANGED due /\ UNCHANGED world

TakeOver_Afresh(h) ==   \* mutant: the new execution forgets the attempts of the old one
    /\ pc[h] = "admit" /\ mine[h].status = "pending" /\ ~cancelled /\ due.lease # "live"
    /\ mine[h].execution < MaxExecutions
    /\ Save(h, [mine[h] EXCEPT !.execution = mine[h].execution + 1, !.started = FALSE], "execute")
    /\ due' = [due EXCEPT !.lease = "live"]
    /\ UNCHANGED world

TakeOver(h) ==
    /\ pc[h] = "admit" /\ mine[h].status = "pending" /\ ~cancelled /\ due.lease # "live"
    /\ MayRunAgain(mine[h])
    /\ Save(h, [mine[h] EXCEPT !.execution = mine[h].execution + 1], "execute")
    /\ due' = [due EXCEPT !.lease = "live"]
    /\ UNCHANGED world

\* In flight, finished, or stored and to be settled: nothing is written here.
Replay(h) ==
    /\ pc[h] = "admit" /\ mine[h].status # "none"
    /\ mine[h].status = "pending" => due.lease = "live"
    /\ NoSave(h, IF mine[h].status = "settlement_pending" THEN "settle" ELSE "idle")
    /\ UNCHANGED due /\ UNCHANGED world

-----------------------------------------------------------------------------
\* executeV2

\* The execution budget admits one upstream attempt: its transaction is refused
\* once a cancellation is recorded, the lease is lost or an attempt is open.
StartAttempt(h) ==
    /\ pc[h] = "execute" /\ lock = "free"
    /\ ~cancelled /\ OwnsLease(h) /\ ~row.started /\ row.calls < MaxCalls
    /\ row' = [row EXCEPT !.started = TRUE, !.calls = row.calls + 1]
    /\ Goto(h, "calling", mine[h], "none")
    /\ UNCHANGED <<due, lock>> /\ UNCHANGED world

\* The attempt is refused, or the request cannot be rendered, or the 80 s are over.
GiveUp(h) ==
    /\ pc[h] = "execute"
    /\ \E why \in Causes : Goto(h, "fail", mine[h], why)
    /\ UNCHANGED <<row, due, lock>> /\ UNCHANGED world

\* The upstream answered, or the call failed or was cut off: the outcome is
\* recorded if the lease is still held.  Then the answer is stored, or there is
\* another try (an invalid answer, the next upstream), or the request fails.
FinishAttempt(h) ==
    /\ pc[h] = "calling" /\ lock = "free"
    /\ OwnsLease(h) /\ row.started
    /\ row' = [row EXCEPT !.started = FALSE]
    /\ \/ \E next \in {"persist", "execute"} : Goto(h, next, mine[h], "none")
       \/ \E why \in Causes : Goto(h, "fail", mine[h], why)
    /\ UNCHANGED <<due, lock>> /\ UNCHANGED world

FinishTooLate(h) ==
    /\ pc[h] = "calling" /\ lock = "free"
    /\ ~(OwnsLease(h) /\ row.started)
    /\ Goto(h, "fail", mine[h], "none")
    /\ UNCHANGED <<row, due, lock>> /\ UNCHANGED world

Stored(r, usable) ==
    [r EXCEPT !.status = "settlement_pending", !.result = TRUE, !.usable = usable]

\* The result is stored by one guarded UPDATE: no lock is needed or taken.
Persist(h) ==
    /\ pc[h] = "persist"
    /\ OwnsLease(h)
    /\ \E usable \in BOOLEAN :
         row' = Stored(row, usable) /\ Goto(h, "settle", NoRow, "none")
    /\ due' = [due EXCEPT !.cache = FALSE]
    /\ UNCHANGED lock /\ UNCHANGED world

\* No row was updated, or the UPDATE failed: the handler answers "in flight".
PersistLost(h) ==
    /\ pc[h] = "persist"
    /\ Done(h)
    /\ UNCHANGED <<row, due, lock>> /\ UNCHANGED world

-----------------------------------------------------------------------------
\* failV2, by a handler or by recovery.

LockFail(p) ==
    /\ pc[p] = "fail" /\ lock = "free"
    /\ IF OwnsLease(p)
       THEN lock' = p /\ Goto(p, "failing", row, cause[p])
       ELSE Done(p) /\ UNCHANGED lock    \* errLeaseLost
    /\ UNCHANGED <<row, due>> /\ UNCHANGED world

\* Recovery decides under the lock what it is that expired.
FailureCode(p) ==
    IF cause[p] # "expired" THEN cause[p]
    ELSE IF cancelled THEN "AI_CANCELLED"
    ELSE IF mine[p].started THEN "AI_EXECUTION_UNCERTAIN" ELSE "none"

CommitFail(p) ==
    /\ pc[p] = "failing"
    /\ Save(p, Failed(mine[p], FailureCode(p)), "idle")
    /\ UNCHANGED due /\ UNCHANGED world

-----------------------------------------------------------------------------
\* settleV2, by whoever finds a stored result.

IsFree(r) == ~r.paid \/ ~r.usable

SettleTooLate(p) ==
    /\ pc[p] = "settle" /\ lock = "free"
    /\ row.status = "settlement_pending" /\ due.cache
    /\ row' = [Failed(row, "none") EXCEPT !.result = FALSE]
    /\ Done(p)
    /\ UNCHANGED <<due, lock>> /\ UNCHANGED world

SettleFree(p) ==
    /\ pc[p] = "settle" /\ lock = "free"
    /\ row.status = "settlement_pending" /\ ~due.cache /\ IsFree(row)
    /\ row' = [row EXCEPT !.status = "ok", !.reserved = 0]
    /\ Done(p)
    /\ UNCHANGED <<due, lock>> /\ UNCHANGED world

SettleDebit_Alone(p) ==   \* mutant: the debit is not in one transaction with the status
    /\ pc[p] = "settle" /\ lock = "free"
    /\ row.status = "settlement_pending" /\ ~due.cache /\ ~IsFree(row) /\ ~revoked
    /\ charges' = charges + 1
    /\ Done(p)
    /\ UNCHANGED <<row, due, lock, revoked, cancelled, promised, crashes>>

SettleDebit(p) ==
    /\ pc[p] = "settle" /\ lock = "free"
    /\ row.status = "settlement_pending" /\ ~due.cache /\ ~IsFree(row) /\ ~revoked
    /\ row.reserved > 0
    /\ charges' = charges + 1
    /\ row' = [row EXCEPT !.status = "ok", !.reserved = 0]
    /\ Done(p)
    /\ UNCHANGED <<due, lock, revoked, cancelled, promised, crashes>>

\* Already settled, failed in the meantime, or the funds were revoked.
SettleNothing(p) ==
    /\ pc[p] = "settle" /\ lock = "free"
    /\ \/ row.status # "settlement_pending"
       \/ ~due.cache /\ ~IsFree(row) /\ revoked
    /\ Done(p)
    /\ UNCHANGED <<row, due, lock>> /\ UNCHANGED world

-----------------------------------------------------------------------------
\* The other callers.

\* QueryRequest settles what it finds stored.
Query(h) ==
    /\ pc[h] = "idle" /\ row.status = "settlement_pending"
    /\ Goto(h, "settle", NoRow, "none")
    /\ UNCHANGED <<row, due, lock>> /\ UNCHANGED world

Recover_OnlyStored ==   \* mutant: abandoned executions are not recovered
    /\ pc[Recovery] = "idle" /\ row.status = "settlement_pending"
    /\ Goto(Recovery, "settle", NoRow, "none")
    /\ UNCHANGED <<row, due, lock>> /\ UNCHANGED world

\* RecoverBillingV2 lists without a lock what is stored or long expired.
Recover ==
    /\ pc[Recovery] = "idle"
    /\ \/ /\ row.status = "settlement_pending"
          /\ Goto(Recovery, "settle", NoRow, "none")
       \/ /\ row.status = "pending" /\ due.lease = "abandoned"
          /\ Goto(Recovery, "fail", row, "expired")
    /\ UNCHANGED <<row, due, lock>> /\ UNCHANGED world

\* CancelRequest: recorded for a request that is pending or not accepted yet.
\* (Cancelling the running call only makes it return sooner.)
Cancel ==
    /\ lock = "free" /\ row.status \in {"none", "pending"} /\ ~cancelled
    /\ cancelled' = TRUE
    /\ promised' = (row.status = "none")
    /\ UNCHANGED <<row, due, charges, revoked, crashes>> /\ UNCHANGED procVars

\* RevokeBucket of a bucket the request reserved in.
Revoke ==
    /\ lock = "free" /\ row.reserved > 0 /\ ~revoked
    /\ revoked' = TRUE
    /\ UNCHANGED <<row, due, charges, cancelled, promised, crashes>> /\ UNCHANGED procVars

\* CleanExpiredCaches: the result of a settled request goes after 24 h.
CleanExpiredCaches ==
    /\ row.status = "ok" /\ row.result /\ due.cache
    /\ row' = [row EXCEPT !.result = FALSE]
    /\ UNCHANGED due /\ UNCHANGED procVars /\ UNCHANGED world

\* A process dies; a transaction it was in is rolled back.
Crash(p) ==
    /\ pc[p] # "idle" /\ crashes < MaxCrashes
    /\ crashes' = crashes + 1
    /\ Done(p)
    /\ lock' = IF lock = p THEN "free" ELSE lock
    /\ UNCHANGED <<row, due, charges, revoked, cancelled, promised>>

\* Time.
LeaseExpires ==
    /\ row.status = "pending" /\ due.lease = "live"
    /\ due' = [due EXCEPT !.lease = "expired"]
    /\ UNCHANGED row /\ UNCHANGED procVars /\ UNCHANGED world

RequestAges ==
    /\ row.status = "pending" /\ ~due.aged
    /\ due' = [due EXCEPT !.aged = TRUE]
    /\ UNCHANGED row /\ UNCHANGED procVars /\ UNCHANGED world

LeaseAbandoned ==
    /\ row.status = "pending" /\ due.lease = "expired"
    /\ due' = [due EXCEPT !.lease = "abandoned", !.aged = TRUE]
    /\ UNCHANGED row /\ UNCHANGED procVars /\ UNCHANGED world

CacheExpires ==
    /\ row.result /\ ~due.cache
    /\ due' = [due EXCEPT !.cache = TRUE]
    /\ UNCHANGED row /\ UNCHANGED procVars /\ UNCHANGED world

-----------------------------------------------------------------------------
Commit(p) ==
    \/ /\ p \in Handlers
       /\ \/ Admit(p) \/ Refuse(p) \/ CloseCancelled(p) \/ CloseUncertain(p)
          \/ CloseExhausted(p) \/ TakeOver(p) \/ Replay(p)
    \/ CommitFail(p)

Execute(h) ==
    \/ StartAttempt(h) \/ GiveUp(h) \/ FinishAttempt(h) \/ FinishTooLate(h)
    \/ Persist(h) \/ PersistLost(h)

SettleV2(p) == SettleTooLate(p) \/ SettleFree(p) \/ SettleDebit(p) \/ SettleNothing(p)

Progress(p) == Commit(p) \/ (p \in Handlers /\ Execute(p)) \/ LockFail(p) \/ SettleV2(p)

TimePasses == LeaseExpires \/ RequestAges \/ LeaseAbandoned \/ CacheExpires

Next ==
    \/ \E h \in Handlers : Enter(h) \/ Query(h)
    \/ \E p \in Procs : Progress(p) \/ Crash(p)
    \/ Recover \/ Cancel \/ Revoke \/ CleanExpiredCaches
    \/ TimePasses

Spec == Init /\ [][Next]_vars

\* A running process goes on (SF, for the user's lock is granted in the order it is
\* asked for), the minute job runs, deadlines pass.
\* Clients need not retry, query or cancel.
Fairness ==
    /\ \A p \in Procs : SF_vars(Progress(p))
    /\ WF_vars(Recover)
    /\ WF_vars(LeaseExpires) /\ WF_vars(LeaseAbandoned) /\ WF_vars(CacheExpires)

FairSpec == Spec /\ Fairness

-----------------------------------------------------------------------------
RowType ==
    [status : {"none", "pending", "settlement_pending", "ok", "failed"},
     execution : 0 .. MaxExecutions, started : BOOLEAN, calls : 0 .. MaxCalls,
     paid : BOOLEAN, reserved : 0 .. 1, result : BOOLEAN, usable : BOOLEAN,
     code : {"none", "AI_CANCELLED", "AI_EXECUTION_UNCERTAIN"}]

\* Type invariant: the row within its bounds, and the lock held exactly by a
\* process inside a two-step transaction.
TypeOK ==
    /\ row \in RowType
    /\ due \in [lease : {"live", "expired", "abandoned"}, aged : BOOLEAN, cache : BOOLEAN]
    /\ charges \in Nat /\ crashes \in 0 .. MaxCrashes
    /\ revoked \in BOOLEAN /\ cancelled \in BOOLEAN /\ promised \in BOOLEAN
    /\ pc \in [Procs -> {"idle", "admit", "execute", "calling", "persist", "fail",
                         "failing", "settle"}]
    /\ mine \in [Procs -> RowType]
    /\ cause \in [Procs -> {"none", "AI_CANCELLED", "expired"}]
    /\ \A p \in Procs : lock = p <=> pc[p] \in {"admit", "failing"}
    /\ lock \in Procs \cup {"free"}

\* At most one charge per request, and only for a usable result of a paid call that
\* ended "ok": whatever handlers, retries, queries and recovery race to settle, and
\* whoever dies in between.
ChargedOnce ==
    charges = IF row.status = "ok" /\ ~IsFree(row) THEN 1 ELSE 0

\* No two handlers of one request are in an upstream call at the same time, over
\* lease expiry, takeover and the death of the one that was calling.
OneCallAtATime ==
    Cardinality({h \in Handlers : pc[h] = "calling"}) <= 1

\* "200 / cancelled: 未受理请求已被取消登记阻止" (docs, 显式取消与恢复): a cancellation
\* answered so before acceptance keeps the request from ever being accepted, also
\* by a handler that was already on its way.
CancelledStaysOut == promised => row.status = "none"

\* An ended request stays as it ended although transactions write whole rows from
\* reads that may be stale by then.
EndedIsFinal ==
    [][Terminal(row) => row' = [row EXCEPT !.result = row'.result]]_vars

\* "恢复不能抹掉未知 usage 或盲目重新推理": an attempt without an outcome is never
\* forgotten by a new execution, only recorded by its own or closed with the request.
UnknownIsNotRerun ==
    [][row.started => row'.execution = row.execution /\ row'.calls = row.calls]_vars

\* Every accepted request ends, whoever dies, even if its funds were revoked and no
\* client comes back: recovery settles or fails it and the 24 h bound its result.
AcceptedEnds == (row.status \in {"pending", "settlement_pending"}) ~> Terminal(row)

\* The request implements the promise of its funds: reserved, then charged once or
\* given back.
Phase ==
    IF row.status = "none" THEN "absent" ELSE IF Terminal(row) THEN "closed" ELSE "open"
Funds == INSTANCE RequestFunds WITH
    phase <- Phase, reserved <- row.reserved, charged <- charges
ImplementsFunds == Funds!Spec

\* "缓存命中直接重放 … 绝不重调重扣" (docs/开发状态.md:58): a result that was stored
\* stays for its 24 hours.  The code does not keep this.
StoredResultIsKept ==
    [][row.result /\ ~due.cache => row'.result]_vars

=============================================================================
