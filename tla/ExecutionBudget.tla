--------------------------- MODULE ExecutionBudget ---------------------------
(***************************************************************************)
(* The execution budget of one piece of work: how many upstream calls, how *)
(* many tokens and how much waiting its requests may spend together, and   *)
(* the record each request keeps of its attempts (usage_details).          *)
(*                                                                         *)
(* Every transaction locks the user's row first, so it is one step; the    *)
(* upstream call itself lies between two of them.  Who holds the lease of  *)
(* a request is Gateway's matter: here it is lost at any time.             *)
(***************************************************************************)
EXTENDS Sums, Sequences

CONSTANTS
    Requests,      \* requests of this work
    Groups,        \* their recovery groups
    GroupOf,       \* [Requests -> Groups]
    Executions,    \* numbers of the executions of a request (Gateway)
    Extensions,    \* request ids of budget extensions a client makes up
    MaxAttempts, MaxTokens, MaxWait,   \* what a new budget allows
    RecoveryMaxAttempts,               \* calls of one group
    MaxExtensions,
    Offer,         \* [attempts, tokens, wait, recovery] of one extension
    CallTimeout,   \* longest wait for one call
    Reserves,      \* token reserves a call may ask for
    Overrun,       \* how far usage and time may exceed what was reserved
    MaxRecord      \* bound: attempts in the record of one request (calls that were
                   \* never sent do not count, so nothing else bounds them)

ASSUME BudgetAssumption ==
    /\ GroupOf \in [Requests -> Groups]
    /\ Executions \subseteq Nat \ {0} /\ 1 \in Executions
    /\ {MaxAttempts, MaxTokens, MaxWait, RecoveryMaxAttempts, MaxExtensions,
         Overrun, MaxRecord} \subseteq Nat
    /\ Offer \in [attempts : Nat, tokens : Nat, wait : Nat, recovery : Nat]
    /\ CallTimeout \in Nat \ {0}
    /\ Reserves \subseteq Nat \ {0}

VARIABLES
    budget,      \* the row of ai_execution_budgets
    attempts,    \* [Requests -> sequence of attempts]: usage_details
    lease,       \* [Requests -> execution that holds the pending row, 0 when it ended]
    cancelled,   \* requests whose cancellation is recorded
    call         \* [Requests -> [Executions -> the attempt it is in, 0 when in none]]

vars == <<budget, attempts, lease, cancelled, call>>

-----------------------------------------------------------------------------
NoBudget == [exists |-> FALSE, attempts |-> 0, known |-> 0, reserved |-> 0,
             wait |-> 0, reservedWait |-> 0,
             maxAttempts |-> MaxAttempts, maxTokens |-> MaxTokens, maxWait |-> MaxWait,
             groups |-> [g \in Groups |-> 0], extra |-> [g \in Groups |-> 0],
             extensions |-> 0, applied |-> {}]
NewBudget == [NoBudget EXCEPT !.exists = TRUE]

Init ==
    /\ budget = NoBudget
    /\ attempts = [r \in Requests |-> <<>>]
    /\ lease = [r \in Requests |-> 1]
    /\ cancelled = {}
    /\ call = [r \in Requests |-> [e \in Executions |-> 0]]

Unfinished(r) == \E i \in DOMAIN attempts[r] : attempts[r][i].status = "started"

\* The row inserted by the first request, else the one that is there.
Current == IF budget.exists THEN budget ELSE NewBudget

-----------------------------------------------------------------------------
\* withExecutionBudget, start

Exhausted_ByGroupOnly(b, g, reserve) ==   \* mutant: what is reserved does not count
    \/ b.groups[g] >= RecoveryMaxAttempts + b.extra[g]
    \/ b.attempts >= b.maxAttempts
    \/ b.known + reserve > b.maxTokens
    \/ b.maxWait - b.wait <= 0

Exhausted(b, g, reserve) ==
    \/ b.groups[g] >= RecoveryMaxAttempts + b.extra[g]
    \/ b.attempts >= b.maxAttempts
    \/ b.known + b.reserved + reserve > b.maxTokens
    \/ b.maxWait - b.wait - b.reservedWait <= 0

\* The transaction goes on: not cancelled and the lease is still this execution's.
Admissible(r, e) == r \notin cancelled /\ lease[r] = e

\* A denied call leaves only the new budget row, which an extension can then find.
Deny(r, e, reserve) ==
    /\ call[r][e] = 0 /\ Admissible(r, e)
    /\ Exhausted(Current, GroupOf[r], reserve)
    /\ budget' = Current
    /\ UNCHANGED <<attempts, lease, cancelled, call>>

Start(r, e, reserve) ==
    LET b == Current
        g == GroupOf[r]
        left == b.maxWait - b.wait - b.reservedWait
        allowance == IF left <= CallTimeout THEN left ELSE CallTimeout
    IN  /\ call[r][e] = 0 /\ Admissible(r, e)
        /\ ~Exhausted(b, g, reserve)
        /\ ~Unfinished(r)
        /\ Len(attempts[r]) < MaxRecord
        /\ attempts' = [attempts EXCEPT ![r] = Append(@,
             [status |-> "started", reserve |-> reserve, kept |-> reserve,
              allowance |-> allowance, tokens |-> 0, wait |-> 0])]
        /\ budget' = [b EXCEPT !.attempts = @ + 1, !.groups[g] = @ + 1,
                               !.reserved = @ + reserve, !.reservedWait = @ + allowance]
        /\ call' = [call EXCEPT ![r][e] = Len(attempts[r]) + 1]
        /\ UNCHANGED <<lease, cancelled>>

-----------------------------------------------------------------------------
\* callOnce and finish

\* What a call can report: one that was never sent is free and known; one that was sent
\* may lack usage, or report more than was reserved for it.  The time of either is
\* measured until it returns, which may be after its allowance is over.
Outcomes(a) ==
    [sent : {FALSE}, known : {TRUE}, tokens : {0}, wait : 0 .. a.allowance + Overrun]
      \cup [sent : {TRUE}, known : BOOLEAN, tokens : 0 .. a.reserve + Overrun,
            wait : 0 .. a.allowance + Overrun]

Kept_Unguarded(a, o) ==   \* mutant: usage beyond the reserve is not considered
    IF o.known THEN 0 ELSE a.reserve - o.tokens
\* What stays reserved: nothing when usage is known, else what it has not used up.
Kept(a, o) ==
    IF o.known \/ o.tokens >= a.reserve THEN 0 ELSE a.reserve - o.tokens

Counted_KeepingGroup(b, g, o) ==   \* mutant: the group keeps a call that was never sent
    IF o.sent THEN b ELSE [b EXCEPT !.attempts = @ - 1]
\* A call that was never sent does not count.
Counted(b, g, o) ==
    IF o.sent THEN b ELSE [b EXCEPT !.attempts = @ - 1, !.groups[g] = @ - 1]

Settled_KeepingWait(b, a, o) ==   \* mutant: the waiting that was reserved is not given back
    [b EXCEPT !.known = @ + o.tokens, !.wait = @ + o.wait,
              !.reserved = @ - (a.reserve - Kept(a, o))]
Settled(b, a, o) ==
    [b EXCEPT !.known = @ + o.tokens, !.wait = @ + o.wait,
              !.reservedWait = @ - a.allowance,
              !.reserved = @ - (a.reserve - Kept(a, o))]

OwnsAttempt_NoLease(r, e) ==   \* mutant: the lease is not checked
    attempts[r][call[r][e]].status = "started"
OwnsAttempt(r, e) == lease[r] = e /\ attempts[r][call[r][e]].status = "started"

Finish(r, e) ==
    LET i == call[r][e]
        a == attempts[r][i]
    IN  /\ i # 0 /\ OwnsAttempt(r, e)
        /\ \E o \in Outcomes(a) :
             /\ budget' = Counted(Settled(budget, a, o), GroupOf[r], o)
             /\ attempts' = [attempts EXCEPT ![r][i] =
                  [a EXCEPT !.status = IF o.sent THEN "sent" ELSE "unsent",
                            !.kept = Kept(a, o), !.tokens = o.tokens, !.wait = o.wait]]
        /\ call' = [call EXCEPT ![r][e] = 0]
        /\ UNCHANGED <<lease, cancelled>>

\* The lease is lost: the transaction fails and its reservation stays.
FinishTooLate(r, e) ==
    /\ call[r][e] # 0 /\ ~OwnsAttempt(r, e)
    /\ call' = [call EXCEPT ![r][e] = 0]
    /\ UNCHANGED <<budget, attempts, lease, cancelled>>

\* The process dies in the call.
Crash(r, e) ==
    /\ call[r][e] # 0
    /\ call' = [call EXCEPT ![r][e] = 0]
    /\ UNCHANGED <<budget, attempts, lease, cancelled>>

-----------------------------------------------------------------------------
\* The request, as Gateway has it.

\* A new execution takes over, unless an attempt has no outcome.
TakeOver(r) ==
    /\ lease[r] # 0 /\ lease[r] + 1 \in Executions
    /\ ~Unfinished(r) /\ r \notin cancelled
    /\ lease' = [lease EXCEPT ![r] = @ + 1]
    /\ UNCHANGED <<budget, attempts, cancelled, call>>

\* Its result is stored, or it fails.
End(r) ==
    /\ lease[r] # 0
    /\ lease' = [lease EXCEPT ![r] = 0]
    /\ UNCHANGED <<budget, attempts, cancelled, call>>

Cancel(r) ==
    /\ lease[r] # 0 /\ r \notin cancelled
    /\ cancelled' = cancelled \cup {r}
    /\ UNCHANGED <<budget, attempts, lease, call>>

-----------------------------------------------------------------------------
\* ExtendExecutionBudget

Applied(id) == \E x \in budget.applied : x.id = id

Acceptable_AnyRevision(id, revision) ==   \* mutant: the client's revision is not compared
    budget.exists /\ ~Applied(id) /\ budget.extensions < MaxExtensions
\* A repeated id only answers (or conflicts, when it asks for something else).
Acceptable(id, revision) ==
    /\ budget.exists /\ ~Applied(id)
    /\ revision = budget.extensions /\ budget.extensions < MaxExtensions

Extended(id, revision) ==
    [budget EXCEPT !.extensions = @ + 1,
                   !.applied = @ \cup {[id |-> id, revision |-> revision]},
                   !.maxAttempts = @ + Offer.attempts, !.maxTokens = @ + Offer.tokens,
                   !.maxWait = @ + Offer.wait]

Extend(id, revision) ==
    /\ Acceptable(id, revision)
    /\ budget' = Extended(id, revision)
    /\ UNCHANGED <<attempts, lease, cancelled, call>>

\* With a recovery group: only one that has been used can get more calls.
\* (groups[g] = 0 stands for a group the map has no entry for or whose only call was
\* never sent; the second may be extended as well.)
ExtendGroup(id, revision, g) ==
    /\ Acceptable(id, revision)
    /\ \E r \in Requests : GroupOf[r] = g /\ attempts[r] # <<>>
    /\ budget' = [Extended(id, revision) EXCEPT !.extra[g] = @ + Offer.recovery]
    /\ UNCHANGED <<attempts, lease, cancelled, call>>

-----------------------------------------------------------------------------
RequestStep(r) ==
    \/ \E e \in Executions :
         \/ \E reserve \in Reserves : Deny(r, e, reserve) \/ Start(r, e, reserve)
         \/ Finish(r, e) \/ FinishTooLate(r, e) \/ Crash(r, e)
    \/ TakeOver(r) \/ End(r) \/ Cancel(r)

ExtendStep ==
    \E id \in Extensions, revision \in 0 .. MaxExtensions :
      \/ Extend(id, revision)
      \/ \E g \in Groups : ExtendGroup(id, revision, g)

Next == (\E r \in Requests : RequestStep(r)) \/ ExtendStep

Spec == Init /\ [][Next]_vars

-----------------------------------------------------------------------------
AttemptType ==
    [status : {"started", "sent", "unsent"}, reserve : Nat, kept : Nat, allowance : Nat,
     tokens : Nat, wait : Nat]

\* Type invariant: nothing that is counted or reserved ever falls below zero.
TypeOK ==
    /\ budget \in [exists : BOOLEAN, attempts : Nat, known : Nat, reserved : Nat,
                   wait : Nat, reservedWait : Nat,
                   maxAttempts : Nat, maxTokens : Nat, maxWait : Nat,
                   groups : [Groups -> Nat], extra : [Groups -> Nat],
                   extensions : 0 .. MaxExtensions,
                   applied : SUBSET [id : Extensions, revision : 0 .. MaxExtensions]]
    /\ attempts \in [Requests -> Seq(AttemptType)]
    /\ lease \in [Requests -> Executions \cup {0}]
    /\ cancelled \subseteq Requests
    /\ call \in [Requests -> [Executions -> Nat]]

\* All attempts of the work, whichever request made them.
All == UNION {{r} \X DOMAIN attempts[r] : r \in Requests}
Attempt(x) == attempts[x[1]][x[2]]
Total(Amount(_)) == Sum([x \in All |-> Amount(Attempt(x))])
Counts(x) == Attempt(x).status # "unsent"

\* The counters and the requests' own records agree: the budget counts every call that
\* was or may have been sent, by group and together, also when its process died
\* (start, finish and saveAttemptUsage write the two separately).
CallsCounted ==
    /\ budget.attempts = Cardinality({x \in All : Counts(x)})
    /\ \A g \in Groups :
         budget.groups[g] = Cardinality({x \in All : Counts(x) /\ GroupOf[x[1]] = g})

\* Reservations are backed by attempts: what an attempt with a known outcome had reserved
\* is free again, and nothing else is ("恢复不能抹掉未知 usage").
ReservationsBacked ==
    LET kept(a) == a.kept
        waiting(a) == IF a.status = "started" THEN a.allowance ELSE 0
    IN  budget.reserved = Total(kept) /\ budget.reservedWait = Total(waiting)

\* A work sends no more calls than its budget allows, nor a recovery group more than its
\* share, and tokens and waiting stay within it up to what single calls overran their own
\* reserves: concurrent requests, take-overs and extensions never spend a remainder twice.
SpendingWithinLimits ==
    LET Over(x, y) == IF x > y THEN x - y ELSE 0
        tokens(a) == Over(a.tokens, a.reserve)
        waited(a) == Over(a.wait, a.allowance)
    IN  /\ budget.attempts <= budget.maxAttempts
        /\ \A g \in Groups : budget.groups[g] <= RecoveryMaxAttempts + budget.extra[g]
        /\ budget.known + budget.reserved <= budget.maxTokens + Total(tokens)
        /\ budget.wait + budget.reservedWait <= budget.maxWait + Total(waited)

\* A confirmed extension is applied once, however often it is sent, and two clients that
\* saw the same revision extend it once ("重复点击或丢失回执按同一扩额身份重放").
ExtendedOnce ==
    /\ budget.extensions = Cardinality(budget.applied)
    /\ \A x, y \in budget.applied : x.id = y.id \/ x.revision = y.revision => x = y
    /\ budget.maxAttempts = MaxAttempts + budget.extensions * Offer.attempts

\* What a request that ended has used is frozen, and an execution that has lost its
\* lease, to the end of the request or to a newer execution, comes out of its call
\* without a trace: its late answer changes no record and not the budget either.
EndedUsageIsFinal ==
    [][\A r \in Requests :
         /\ lease[r] = 0 => attempts'[r] = attempts[r]
         /\ \A e \in Executions :
              call[r][e] # 0 /\ lease[r] # e /\ call'[r][e] = 0
                => UNCHANGED <<budget, attempts>>]_vars

=============================================================================
