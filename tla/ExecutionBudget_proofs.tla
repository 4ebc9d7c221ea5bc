----------------------- MODULE ExecutionBudget_proofs -----------------------
(***************************************************************************)
(* The budget of a piece of work and the records of its requests agree,    *)
(* and the work stays within the budget, for any number of requests and    *)
(* executions, and whatever upstreams report.                              *)
(*                                                                         *)
(* The budget is one row of totals; the attempts they count are spread     *)
(* over the records of the requests.  A start adds an attempt, a finish    *)
(* changes one, and every total moves by what that attempt adds to it.     *)
(***************************************************************************)
EXTENDS ExecutionBudget, Sums_proofs

-----------------------------------------------------------------------------
\* The attempts of the work.

\* An attempt is a request and a number in its record.
LEMMA AllElements ==
    ASSUME TypeOK
    PROVE  /\ \A r \in Requests : attempts[r] \in Seq(AttemptType)
           /\ \A x : x \in All <=> \E r \in Requests : \E i \in 1 .. Len(attempts[r]) : x = <<r, i>>
           /\ \A x \in All : Attempt(x) \in AttemptType
PROOF
<1>1. \A r \in Requests : /\ attempts[r] \in Seq(AttemptType)
                          /\ DOMAIN attempts[r] = 1 .. Len(attempts[r])
  BY DEF TypeOK
<1>2. \A x : x \in All <=> \E r \in Requests : x \in {r} \X DOMAIN attempts[r]
  BY Zenon DEF All
<1>3. \A r, x : x \in {r} \X DOMAIN attempts[r] <=> \E i \in DOMAIN attempts[r] : x = <<r, i>>
  OBVIOUS
<1>4. \A x : x \in All <=> \E r \in Requests : \E i \in 1 .. Len(attempts[r]) : x = <<r, i>>
  BY <1>1, <1>2, <1>3
<1>5. ASSUME NEW x \in All
      PROVE  Attempt(x) \in AttemptType
  <2>1. PICK r \in Requests : \E i \in 1 .. Len(attempts[r]) : x = <<r, i>>
    BY <1>4
  <2>2. PICK i \in 1 .. Len(attempts[r]) : x = <<r, i>>
    BY <2>1
  <2>3. attempts[r][i] \in AttemptType
    BY <1>1
  <2>. QED
    BY <2>2, <2>3 DEF Attempt
<1>. QED
  BY <1>1, <1>4, <1>5

\* What the attempts of the work amount to together; amt says what each one amounts to.
TotalOf(amt) == Sum([x \in All |-> amt[Attempt(x)]])

keptAmount == [a \in AttemptType |-> a.kept]
waitingAmount == [a \in AttemptType |-> IF a.status = "started" THEN a.allowance ELSE 0]
Over(x, y) == IF x > y THEN x - y ELSE 0
tokensOver == [a \in AttemptType |-> Over(a.tokens, a.reserve)]
waitOver == [a \in AttemptType |-> Over(a.wait, a.allowance)]

\* The four of them are amounts.
LEMMA AmountTypes ==
    /\ keptAmount \in [AttemptType -> Nat] /\ waitingAmount \in [AttemptType -> Nat]
    /\ tokensOver \in [AttemptType -> Nat] /\ waitOver \in [AttemptType -> Nat]
PROOF
  BY DEF keptAmount, waitingAmount, tokensOver, waitOver, Over, AttemptType

\* A total of finitely many attempts is an amount, at least that of any one of them.
LEMMA TotalType ==
    ASSUME TypeOK, IsFiniteSet(All), NEW amt \in [AttemptType -> Nat]
    PROVE  /\ TotalOf(amt) \in Nat
           /\ \A x \in All : amt[Attempt(x)] \in Nat /\ amt[Attempt(x)] <= TotalOf(amt)
PROOF
<1>. DEFINE f == [x \in All |-> amt[Attempt(x)]]
<1>1. f \in [All -> Nat]
  BY AllElements
<1>2. TotalOf(amt) = Sum(f) /\ \A x \in All : f[x] = amt[Attempt(x)]
  BY DEF TotalOf
<1>. HIDE DEF f
<1>3. Sum(f) \in Nat /\ \A x \in All : f[x] <= Sum(f)
  BY <1>1, SumType, SumAtLeast
<1>. QED
  BY <1>1, <1>2, <1>3

\* The properties of the module speak of these totals.
LEMMA TotalsOfProperties ==
    ASSUME TypeOK
    PROVE  /\ ReservationsBacked <=>
                /\ budget.reserved = TotalOf(keptAmount)
                /\ budget.reservedWait = TotalOf(waitingAmount)
           /\ SpendingWithinLimits <=>
                /\ budget.attempts <= budget.maxAttempts
                /\ \A g \in Groups : budget.groups[g] <= RecoveryMaxAttempts + budget.extra[g]
                /\ budget.known + budget.reserved <= budget.maxTokens + TotalOf(tokensOver)
                /\ budget.wait + budget.reservedWait <= budget.maxWait + TotalOf(waitOver)
PROOF
<1>0. \A x \in All : Attempt(x) \in AttemptType
  BY AllElements
<1>1. [x \in All |-> Attempt(x).kept] = [x \in All |-> keptAmount[Attempt(x)]]
  BY <1>0 DEF keptAmount
<1>2. [x \in All |-> IF Attempt(x).status = "started" THEN Attempt(x).allowance ELSE 0]
        = [x \in All |-> waitingAmount[Attempt(x)]]
  BY <1>0 DEF waitingAmount
<1>3. [x \in All |-> IF Attempt(x).tokens > Attempt(x).reserve
                     THEN Attempt(x).tokens - Attempt(x).reserve ELSE 0]
        = [x \in All |-> tokensOver[Attempt(x)]]
  BY <1>0 DEF tokensOver, Over
<1>4. [x \in All |-> IF Attempt(x).wait > Attempt(x).allowance
                     THEN Attempt(x).wait - Attempt(x).allowance ELSE 0]
        = [x \in All |-> waitOver[Attempt(x)]]
  BY <1>0 DEF waitOver, Over
<1>5. ReservationsBacked <=>
        budget.reserved = TotalOf(keptAmount) /\ budget.reservedWait = TotalOf(waitingAmount)
  BY <1>1, <1>2, Zenon DEF ReservationsBacked, Total, TotalOf
<1>6. SpendingWithinLimits <=>
        /\ budget.attempts <= budget.maxAttempts
        /\ \A g \in Groups : budget.groups[g] <= RecoveryMaxAttempts + budget.extra[g]
        /\ budget.known + budget.reserved <= budget.maxTokens + TotalOf(tokensOver)
        /\ budget.wait + budget.reservedWait <= budget.maxWait + TotalOf(waitOver)
  BY <1>3, <1>4, Zenon DEF SpendingWithinLimits, Total, TotalOf
<1>. QED
  BY <1>5, <1>6

-----------------------------------------------------------------------------
\* How the attempts of the work move.

\* What of a request's record counts as an attempt, now and in the next state.
LEMMA ElementsOf ==
    ASSUME NEW rec \in [Requests -> Seq(AttemptType)]
    PROVE  \A x : x \in UNION {{r} \X DOMAIN rec[r] : r \in Requests}
                    <=> \E r \in Requests : \E i \in 1 .. Len(rec[r]) : x = <<r, i>>
PROOF
<1>1. \A r \in Requests : DOMAIN rec[r] = 1 .. Len(rec[r])
  OBVIOUS
<1>2. \A x : x \in UNION {{r} \X DOMAIN rec[r] : r \in Requests}
               <=> \E r \in Requests : x \in {r} \X DOMAIN rec[r]
  BY Zenon
<1>3. \A r, x : x \in {r} \X DOMAIN rec[r] <=> \E i \in DOMAIN rec[r] : x = <<r, i>>
  OBVIOUS
<1>. QED
  BY <1>1, <1>2, <1>3

\* A start adds one attempt.
LEMMA AttemptAdded ==
    ASSUME TypeOK, NEW r \in Requests, NEW a \in AttemptType,
           attempts' = [attempts EXCEPT ![r] = Append(@, a)],
           NEW x, x = <<r, Len(attempts[r]) + 1>>
    PROVE  /\ attempts' \in [Requests -> Seq(AttemptType)]
           /\ Len(attempts'[r]) = Len(attempts[r]) + 1
           /\ x \notin All /\ All' = All \cup {x} /\ Attempt(x)' = a
           /\ \A y \in All : Attempt(y)' = Attempt(y)
PROOF
<1>1. attempts \in [Requests -> Seq(AttemptType)] /\ attempts[r] \in Seq(AttemptType)
  BY DEF TypeOK
<1>2. /\ attempts' \in [Requests -> Seq(AttemptType)]
      /\ attempts'[r] = Append(attempts[r], a)
      /\ \A p \in Requests : p # r => attempts'[p] = attempts[p]
  BY <1>1
<1>3. /\ Len(attempts'[r]) = Len(attempts[r]) + 1 /\ Len(attempts[r]) \in Nat
      /\ attempts'[r][Len(attempts[r]) + 1] = a
      /\ \A i \in 1 .. Len(attempts[r]) : attempts'[r][i] = attempts[r][i]
  BY <1>1, <1>2
<1>4. \A y : y \in All <=> \E p \in Requests : \E i \in 1 .. Len(attempts[p]) : y = <<p, i>>
  BY <1>1, ElementsOf DEF All
<1>5. \A y : y \in All' <=> \E p \in Requests : \E i \in 1 .. Len(attempts'[p]) : y = <<p, i>>
  BY <1>2, ElementsOf DEF All
<1>6. x \notin All
  BY <1>3, <1>4
<1>7. ASSUME NEW y
      PROVE  y \in All' <=> y \in All \/ y = x
  <2>1. \A i : i \in 1 .. Len(attempts'[r])
                 <=> i \in 1 .. Len(attempts[r]) \/ i = Len(attempts[r]) + 1
    BY <1>3
  <2>. QED
    BY <1>2, <1>4, <1>5, <2>1
<1>8. Attempt(x)' = a
  BY <1>3 DEF Attempt
<1>9. ASSUME NEW y \in All
      PROVE  Attempt(y)' = Attempt(y)
  <2>1. PICK p \in Requests : \E i \in 1 .. Len(attempts[p]) : y = <<p, i>>
    BY <1>4
  <2>2. PICK i \in 1 .. Len(attempts[p]) : y = <<p, i>>
    BY <2>1
  <2>3. attempts'[p][i] = attempts[p][i]
    BY <1>2, <1>3
  <2>. QED
    BY <2>2, <2>3 DEF Attempt
<1>10. All' = All \cup {x}
  BY <1>7
<1>. QED
  BY <1>2, <1>3, <1>6, <1>8, <1>9, <1>10

\* A finish changes one attempt.
ChangesTo(r, i, a) ==
    attempts' = [attempts EXCEPT ![r] = [attempts[r] EXCEPT ![i] = a]]

\* Nothing but that attempt changes.
LEMMA AttemptChanged ==
    ASSUME TypeOK, NEW r \in Requests, NEW i \in 1 .. Len(attempts[r]), NEW a \in AttemptType,
           ChangesTo(r, i, a)
    PROVE  /\ attempts' \in [Requests -> Seq(AttemptType)]
           /\ \A p \in Requests : Len(attempts'[p]) = Len(attempts[p])
           /\ <<r, i>> \in All /\ All' = All
           /\ Attempt(<<r, i>>) = attempts[r][i] /\ Attempt(<<r, i>>)' = a
           /\ \A y \in All : y # <<r, i>> => Attempt(y)' = Attempt(y)
PROOF
<1>. PICK x : x = <<r, i>>
  OBVIOUS
<1>. PICK row : row = [attempts[r] EXCEPT ![i] = a]
  OBVIOUS
<1>2. attempts' = [attempts EXCEPT ![r] = row]
  BY DEF ChangesTo
<1>1. attempts \in [Requests -> Seq(AttemptType)] /\ attempts[r] \in Seq(AttemptType)
  BY DEF TypeOK
<1>3. /\ row \in Seq(AttemptType) /\ Len(row) = Len(attempts[r]) /\ row[i] = a
      /\ \A j \in 1 .. Len(attempts[r]) : j # i => row[j] = attempts[r][j]
  BY <1>1
<1>5. /\ attempts' \in [Requests -> Seq(AttemptType)] /\ attempts'[r] = row
      /\ \A p \in Requests : p # r => attempts'[p] = attempts[p]
  BY <1>1, <1>2, <1>3
<1>6. \A p \in Requests : Len(attempts'[p]) = Len(attempts[p])
  BY <1>3, <1>5
<1>7. \A y : y \in All <=> \E p \in Requests : \E j \in 1 .. Len(attempts[p]) : y = <<p, j>>
  BY <1>1, ElementsOf DEF All
<1>8. \A y : y \in All' <=> \E p \in Requests : \E j \in 1 .. Len(attempts'[p]) : y = <<p, j>>
  BY <1>5, ElementsOf DEF All
<1>9. All' = All
  BY <1>6, <1>7, <1>8
<1>10. ASSUME NEW y \in All, y # x
       PROVE  Attempt(y)' = Attempt(y)
  <2>1. PICK p \in Requests : \E j \in 1 .. Len(attempts[p]) : y = <<p, j>>
    BY <1>7
  <2>2. PICK j \in 1 .. Len(attempts[p]) : y = <<p, j>>
    BY <2>1
  <2>3. attempts'[p][j] = attempts[p][j]
    BY <1>3, <1>5, <1>10, <2>2
  <2>. QED
    BY <2>2, <2>3 DEF Attempt
<1>11. x \in All /\ Attempt(x) = attempts[r][i] /\ Attempt(x)' = a
  BY <1>3, <1>5, <1>7 DEF Attempt
<1>. QED
  BY <1>5, <1>6, <1>9, <1>10, <1>11

\* Every total moves by what the attempt adds to it.
LEMMA TotalAdded ==
    ASSUME TypeOK, IsFiniteSet(All), NEW amt \in [AttemptType -> Nat],
           NEW x, x \notin All, All' = All \cup {x}, Attempt(x)' \in AttemptType,
           \A y \in All : Attempt(y)' = Attempt(y)
    PROVE  TotalOf(amt)' = TotalOf(amt) + amt[Attempt(x)']
PROOF
<1>. PICK T : T = All \cup {x}
  OBVIOUS
<1>. DEFINE f == [y \in All |-> amt[Attempt(y)]]
            g == [y \in T |-> amt[Attempt(y)']]
<1>1. f \in [All -> Nat]
  BY AllElements
<1>2. \A y \in All : Attempt(y)' \in AttemptType
  BY AllElements
<1>3. g \in [T -> Nat] /\ \A y \in All : g[y] = f[y]
  BY <1>2
<1>4. TotalOf(amt) = Sum(f)
  BY DEF TotalOf
<1>5. TotalOf(amt)' = Sum(g)
  BY Zenon DEF TotalOf
<1>6. g[x] = amt[Attempt(x)']
  OBVIOUS
<1>. HIDE DEF f, g
<1>7. Sum(g) = Sum(f) + g[x]
  BY <1>1, <1>3, SumGrown
<1>. QED
  BY <1>4, <1>5, <1>6, <1>7

\* The same for a finish.
LEMMA TotalChanged ==
    ASSUME TypeOK, IsFiniteSet(All), NEW amt \in [AttemptType -> Nat],
           NEW x \in All, All' = All, Attempt(x)' \in AttemptType,
           \A y \in All : y # x => Attempt(y)' = Attempt(y)
    PROVE  /\ TotalOf(amt)' + amt[Attempt(x)] = TotalOf(amt) + amt[Attempt(x)']
           /\ TotalOf(amt)' \in Nat
PROOF
<1>. DEFINE f == [y \in All |-> amt[Attempt(y)]]
            g == [y \in All |-> amt[Attempt(y)']]
<1>1. f \in [All -> Nat]
  BY AllElements
<1>2. \A y \in All : Attempt(y)' \in AttemptType
  BY AllElements
<1>3. g \in [All -> Nat] /\ \A y \in All : y # x => g[y] = f[y]
  BY <1>2
<1>4. TotalOf(amt) = Sum(f)
  BY DEF TotalOf
<1>5. TotalOf(amt)' = Sum(g)
  BY Zenon DEF TotalOf
<1>6. g[x] = amt[Attempt(x)'] /\ f[x] = amt[Attempt(x)]
  OBVIOUS
<1>. HIDE DEF f, g
<1>7. Sum(g) + f[x] = Sum(f) + g[x] /\ Sum(g) \in Nat
  BY <1>1, <1>3, SumChange, SumType
<1>. QED
  BY <1>4, <1>5, <1>6, <1>7

\* The attempts that count, of those in K.
CountIn(K) == {x \in All : Counts(x) /\ x \in K}

\* A new attempt counts at once.
LEMMA CountAdded ==
    ASSUME IsFiniteSet(All), NEW K,
           NEW x, x \notin All, All' = All \cup {x}, Attempt(x)'.status # "unsent",
           \A y \in All : Attempt(y)' = Attempt(y)
    PROVE  /\ Cardinality(CountIn(K)) \in Nat
           /\ Cardinality(CountIn(K)') = Cardinality(CountIn(K)) + (IF x \in K THEN 1 ELSE 0)
PROOF
<1>1. IsFiniteSet(CountIn(K)) /\ x \notin CountIn(K)
  <2>1. CountIn(K) \subseteq All
    BY DEF CountIn
  <2>. QED
    BY <2>1, FS_Subset
<1>2. \A y \in All : Counts(y)' <=> Counts(y)
  BY DEF Counts
<1>3. Counts(x)'
  BY DEF Counts
<1>4. CountIn(K)' = IF x \in K THEN CountIn(K) \cup {x} ELSE CountIn(K)
  BY <1>2, <1>3 DEF CountIn
<1>. QED
  BY <1>1, <1>4, FS_AddElement, FS_CardinalityType

\* An attempt that was under way counts on unless it was never sent.
LEMMA CountChanged ==
    ASSUME IsFiniteSet(All), NEW K,
           NEW x \in All, All' = All, Attempt(x).status = "started",
           \A y \in All : y # x => Attempt(y)' = Attempt(y)
    PROVE  /\ Cardinality(CountIn(K)) \in Nat
           /\ IF x \in K /\ Attempt(x)'.status = "unsent"
              THEN /\ Cardinality(CountIn(K)) > 0
                   /\ Cardinality(CountIn(K)') = Cardinality(CountIn(K)) - 1
              ELSE Cardinality(CountIn(K)') = Cardinality(CountIn(K))
PROOF
<1>1. IsFiniteSet(CountIn(K))
  <2>1. CountIn(K) \subseteq All
    BY DEF CountIn
  <2>. QED
    BY <2>1, FS_Subset
<1>2. \A y \in All : y # x => (Counts(y)' <=> Counts(y))
  BY DEF Counts
<1>3. Counts(x) /\ (Counts(x)' <=> Attempt(x)'.status # "unsent")
  BY DEF Counts
<1>4. CASE x \in K /\ Attempt(x)'.status = "unsent"
  <2>1. CountIn(K)' = CountIn(K) \ {x} /\ x \in CountIn(K)
    BY <1>2, <1>3, <1>4 DEF CountIn
  <2>2. /\ Cardinality(CountIn(K) \ {x}) = Cardinality(CountIn(K)) - 1
        /\ IsFiniteSet(CountIn(K) \ {x})
    BY <1>1, <2>1, FS_RemoveElement
  <2>3. Cardinality(CountIn(K) \ {x}) \in Nat /\ Cardinality(CountIn(K)) \in Nat
    BY <1>1, <2>2, FS_CardinalityType
  <2>. QED
    BY <1>4, <2>1, <2>2, <2>3
<1>5. CASE ~(x \in K /\ Attempt(x)'.status = "unsent")
  <2>1. CountIn(K)' = CountIn(K)
    BY <1>2, <1>3, <1>5 DEF CountIn
  <2>. QED
    BY <1>1, <1>5, <2>1, FS_CardinalityType
<1>. QED
  BY <1>4, <1>5

-----------------------------------------------------------------------------
\* The invariant.

BudgetType ==
    [exists : BOOLEAN, attempts : Nat, known : Nat, reserved : Nat,
     wait : Nat, reservedWait : Nat, maxAttempts : Nat, maxTokens : Nat, maxWait : Nat,
     groups : [Groups -> Nat], extra : [Groups -> Nat],
     extensions : 0 .. MaxExtensions,
     applied : SUBSET [id : Extensions, revision : 0 .. MaxExtensions]]

\* All attempts, and those of one recovery group.
Everywhere == Requests \X Nat
InGroup(g) == {x \in Everywhere : GroupOf[x[1]] = g}

\* A process is in an attempt of its request; one that is under way keeps what it reserved
\* and has used nothing.
CallsRecorded ==
    \A r \in Requests, e \in Executions : call[r][e] \in 0 .. Len(attempts[r])
StartedUnused ==
    \A x \in All : Attempt(x).status = "started" =>
      Attempt(x).kept = Attempt(x).reserve /\ Attempt(x).tokens = 0 /\ Attempt(x).wait = 0

\* CallsCounted, ReservationsBacked and SpendingWithinLimits in the terms of the lemmas.
CountsAgree ==
    /\ budget.attempts = Cardinality(CountIn(Everywhere))
    /\ \A g \in Groups : budget.groups[g] = Cardinality(CountIn(InGroup(g)))
TotalsAgree ==
    budget.reserved = TotalOf(keptAmount) /\ budget.reservedWait = TotalOf(waitingAmount)
WithinLimits ==
    /\ budget.attempts <= budget.maxAttempts
    /\ \A g \in Groups : budget.groups[g] <= RecoveryMaxAttempts + budget.extra[g]
    /\ budget.known + budget.reserved <= budget.maxTokens + TotalOf(tokensOver)
    /\ budget.wait + budget.reservedWait <= budget.maxWait + TotalOf(waitOver)

WorkInv ==
    /\ TypeOK
    /\ IsFiniteSet(All)
    /\ CallsRecorded
    /\ StartedUnused
    /\ ~budget.exists => budget = NoBudget
    /\ CountsAgree /\ TotalsAgree /\ WithinLimits

\* What the budget allows and was extended to.
SameLimits ==
    /\ budget'.maxAttempts = budget.maxAttempts /\ budget'.maxTokens = budget.maxTokens
    /\ budget'.maxWait = budget.maxWait /\ budget'.extra = budget.extra
    /\ budget'.extensions = budget.extensions /\ budget'.applied = budget.applied

\* What was spent and what is reserved.
SameSpending ==
    /\ budget'.attempts = budget.attempts /\ budget'.groups = budget.groups
    /\ budget'.known = budget.known /\ budget'.reserved = budget.reserved
    /\ budget'.wait = budget.wait /\ budget'.reservedWait = budget.reservedWait

\* A budget that does not exist yet is the one the first request inserts.
LEMMA CurrentIsBudget ==
    ASSUME TypeOK, ~budget.exists => budget = NoBudget
    PROVE  Current = [budget EXCEPT !.exists = TRUE] /\ Current \in BudgetType /\ Current.exists
PROOF
<1>1. budget \in BudgetType
  BY DEF TypeOK, BudgetType
<1>2. CASE budget.exists
  <2>1. Current = budget
    BY <1>2 DEF Current
  <2>2. budget = [budget EXCEPT !.exists = TRUE]
    BY <1>1, <1>2 DEF BudgetType
  <2>. QED
    BY <1>1, <1>2, <2>1, <2>2
<1>3. CASE ~budget.exists
  <2>1. Current = [budget EXCEPT !.exists = TRUE]
    BY <1>3 DEF Current, NewBudget
  <2>. QED
    BY <1>1, <2>1 DEF BudgetType
<1>. QED
  BY <1>2, <1>3

\* The properties of the module are parts of the invariant.
LEMMA CountsOfProperties ==
    ASSUME TypeOK
    PROVE  CallsCounted <=> CountsAgree
PROOF
<1>1. \A x \in All : x \in Everywhere
  BY AllElements DEF Everywhere
<1>2. {x \in All : Counts(x)} = CountIn(Everywhere)
  BY <1>1 DEF CountIn
<1>3. \A g \in Groups : {x \in All : Counts(x) /\ GroupOf[x[1]] = g} = CountIn(InGroup(g))
  BY <1>1 DEF CountIn, InGroup
<1>. QED
  BY <1>2, <1>3, Zenon DEF CallsCounted, CountsAgree

\* Initially there is neither an attempt nor a budget.
LEMMA WorkInit == Init => WorkInv
PROOF
<1>. SUFFICES ASSUME Init PROVE WorkInv
  OBVIOUS
<1>1. TypeOK
  <2>1. budget \in BudgetType
    BY BudgetAssumption DEF Init, NoBudget, BudgetType
  <2>2. attempts \in [Requests -> Seq(AttemptType)]
    BY DEF Init
  <2>3. lease \in [Requests -> Executions \cup {0}]
    BY BudgetAssumption DEF Init
  <2>. QED
    BY <2>1, <2>2, <2>3 DEF Init, TypeOK, BudgetType
<1>2. All = {} /\ IsFiniteSet(All)
  <2>1. \A r \in Requests : Len(attempts[r]) = 0
    BY DEF Init
  <2>2. \A x : x \notin All
    BY <1>1, <2>1, AllElements
  <2>. QED
    BY <2>2, FS_EmptySet
<1>3. CallsRecorded
  BY DEF Init, CallsRecorded
<1>4. StartedUnused
  BY <1>2 DEF StartedUnused
<1>5. ~budget.exists => budget = NoBudget
  BY DEF Init
<1>6. \A K : Cardinality(CountIn(K)) = 0
  <2>1. \A K : CountIn(K) = {}
    BY <1>2 DEF CountIn
  <2>. QED
    BY <2>1, FS_EmptySet
<1>7. ASSUME NEW amt \in [AttemptType -> Nat]
      PROVE  TotalOf(amt) = 0
  <2>. DEFINE f == [x \in All |-> amt[Attempt(x)]]
  <2>1. f \in [All -> Nat] /\ \A x \in All : f[x] = 0
    BY <1>2
  <2>. HIDE DEF f
  <2>2. Sum(f) = 0
    BY <1>2, <2>1, SumZero
  <2>. QED
    BY <2>2 DEF TotalOf, f
<1>8. CountsAgree
  BY <1>6 DEF Init, NoBudget, CountsAgree
<1>9. TotalsAgree
  BY <1>7, AmountTypes DEF Init, NoBudget, TotalsAgree
<1>10. WithinLimits
  <2>1. TotalOf(tokensOver) = 0 /\ TotalOf(waitOver) = 0
    BY <1>7, AmountTypes
  <2>. QED
    BY <2>1, BudgetAssumption DEF Init, NoBudget, WithinLimits
<1>. QED
  BY <1>1, <1>2, <1>3, <1>4, <1>5, <1>8, <1>9, <1>10 DEF WorkInv

-----------------------------------------------------------------------------
\* Steps that start and finish nothing.

\* When the records stay, so does everything that is computed from them.
LEMMA RecordsKept ==
    ASSUME attempts' = attempts
    PROVE  /\ All' = All /\ \A x : Attempt(x)' = Attempt(x)
           /\ \A amt : TotalOf(amt)' = TotalOf(amt)
           /\ \A K : CountIn(K)' = CountIn(K)
PROOF
<1>1. All' = All /\ \A x : Attempt(x)' = Attempt(x)
  BY DEF All, Attempt
<1>2. \A amt : TotalOf(amt)' = TotalOf(amt)
  BY DEF TotalOf, All, Attempt
<1>3. \A K : CountIn(K)' = CountIn(K)
  BY DEF CountIn, Counts, All, Attempt
<1>. QED
  BY <1>1, <1>2, <1>3

\* Leases, cancellations and processes that leave their call.
LEMMA QuietStep ==
    ASSUME WorkInv, attempts' = attempts, budget' = budget \/ budget' = Current,
           lease' \in [Requests -> Executions \cup {0}], cancelled' \subseteq Requests,
           call' = call \/ \E r \in Requests, e \in Executions : call' = [call EXCEPT ![r][e] = 0]
    PROVE  WorkInv'
PROOF
<1>0. TypeOK /\ budget \in BudgetType /\ call \in [Requests -> [Executions -> Nat]]
  BY DEF WorkInv, TypeOK, BudgetType
<1>1. budget' = budget \/ budget' = [budget EXCEPT !.exists = TRUE]
  BY CurrentIsBudget DEF WorkInv
<1>2. budget' \in BudgetType /\ SameLimits /\ SameSpending
  BY <1>0, <1>1 DEF BudgetType, SameLimits, SameSpending
<1>3. ~budget'.exists => budget' = NoBudget
  BY <1>0, <1>1 DEF WorkInv, BudgetType
<1>4. /\ call' \in [Requests -> [Executions -> Nat]]
      /\ \A r \in Requests, e \in Executions : call'[r][e] = call[r][e] \/ call'[r][e] = 0
  BY <1>0
<1>5. TypeOK'
  BY <1>0, <1>2, <1>4 DEF TypeOK, BudgetType
<1>6. CallsRecorded'
  <2>1. \A r \in Requests : Len(attempts[r]) \in Nat
    BY <1>0 DEF TypeOK
  <2>. QED
    BY <1>4, <2>1 DEF WorkInv, CallsRecorded
<1>7. IsFiniteSet(All)' /\ StartedUnused'
  BY RecordsKept DEF WorkInv, StartedUnused
<1>8. CountsAgree'
  BY <1>2, RecordsKept DEF WorkInv, CountsAgree, SameSpending
<1>9. TotalsAgree' /\ WithinLimits'
  BY <1>2, RecordsKept DEF WorkInv, TotalsAgree, WithinLimits, SameSpending, SameLimits
<1>. QED
  BY <1>3, <1>5, <1>6, <1>7, <1>8, <1>9 DEF WorkInv

\* An extension only raises what the budget allows.
LEMMA ExtensionStep ==
    ASSUME WorkInv, UNCHANGED <<attempts, lease, cancelled, call>>,
           budget' \in BudgetType, budget.exists, budget'.exists, SameSpending,
           budget'.maxAttempts >= budget.maxAttempts, budget'.maxTokens >= budget.maxTokens,
           budget'.maxWait >= budget.maxWait,
           \A g \in Groups : budget'.extra[g] >= budget.extra[g]
    PROVE  WorkInv'
PROOF
<1>0. TypeOK /\ budget \in BudgetType
  BY DEF WorkInv, TypeOK, BudgetType
<1>1. TypeOK'
  BY <1>0 DEF TypeOK, BudgetType
<1>2. IsFiniteSet(All)' /\ StartedUnused' /\ CallsRecorded'
  BY RecordsKept DEF WorkInv, StartedUnused, CallsRecorded
<1>3. CountsAgree' /\ TotalsAgree'
  BY RecordsKept DEF WorkInv, CountsAgree, TotalsAgree, SameSpending
<1>4. WithinLimits'
  <2>1. WithinLimits
    BY DEF WorkInv
  <2>2. TotalOf(tokensOver) \in Nat /\ TotalOf(waitOver) \in Nat
    BY <1>0, TotalType, AmountTypes DEF WorkInv
  <2>3. TotalOf(tokensOver)' = TotalOf(tokensOver) /\ TotalOf(waitOver)' = TotalOf(waitOver)
    BY RecordsKept
  <2>4. budget'.attempts <= budget'.maxAttempts
    BY <1>0, <2>1 DEF WithinLimits, SameSpending, BudgetType
  <2>5. ASSUME NEW g \in Groups
        PROVE  budget'.groups[g] <= RecoveryMaxAttempts + budget'.extra[g]
    <3>1. /\ budget.groups[g] \in Nat /\ budget.extra[g] \in Nat /\ budget'.extra[g] \in Nat
          /\ RecoveryMaxAttempts \in Nat
      BY <1>0, BudgetAssumption DEF BudgetType
    <3>. QED
      BY <2>1, <3>1 DEF WithinLimits, SameSpending
  <2>6. budget'.known + budget'.reserved <= budget'.maxTokens + TotalOf(tokensOver)
    BY <1>0, <2>1, <2>2 DEF WithinLimits, SameSpending, BudgetType
  <2>7. budget'.wait + budget'.reservedWait <= budget'.maxWait + TotalOf(waitOver)
    BY <1>0, <2>1, <2>2 DEF WithinLimits, SameSpending, BudgetType
  <2>. QED
    BY <2>3, <2>4, <2>5, <2>6, <2>7 DEF WithinLimits
<1>. QED
  BY <1>1, <1>2, <1>3, <1>4 DEF WorkInv

-----------------------------------------------------------------------------
\* A call starts.

NewAttempt(reserve, allowance) ==
    [status |-> "started", reserve |-> reserve, kept |-> reserve,
     allowance |-> allowance, tokens |-> 0, wait |-> 0]

\* What a start writes, and what it has checked before.
StartWrites(r, e, reserve, allowance) ==
    /\ attempts' = [attempts EXCEPT ![r] = Append(@, NewAttempt(reserve, allowance))]
    /\ call' = [call EXCEPT ![r][e] = Len(attempts[r]) + 1]
    /\ budget' \in BudgetType /\ budget'.exists /\ SameLimits
    /\ budget'.attempts = budget.attempts + 1
    /\ budget'.groups = [budget.groups EXCEPT ![GroupOf[r]] = @ + 1]
    /\ budget'.known = budget.known /\ budget'.wait = budget.wait
    /\ budget'.reserved = budget.reserved + reserve
    /\ budget'.reservedWait = budget.reservedWait + allowance
    /\ budget.attempts < budget.maxAttempts
    /\ budget.groups[GroupOf[r]] < RecoveryMaxAttempts + budget.extra[GroupOf[r]]
    /\ budget.known + budget.reserved + reserve <= budget.maxTokens
    /\ budget.wait + budget.reservedWait + allowance <= budget.maxWait

\* A start does so if the budget has room for it.
LEMMA StartEffect ==
    ASSUME WorkInv, NEW r \in Requests, NEW e \in Executions, NEW reserve \in Reserves,
           Start(r, e, reserve)
    PROVE  \E allowance \in Nat : StartWrites(r, e, reserve, allowance)
PROOF
<1>. PICK b : b = Current
  OBVIOUS
<1>. PICK g : g = GroupOf[r]
  OBVIOUS
<1>. DEFINE left == b.maxWait - b.wait - b.reservedWait
<1>. PICK allowance : allowance = IF left <= CallTimeout THEN left ELSE CallTimeout
  OBVIOUS
<1>0. /\ budget \in BudgetType /\ b \in BudgetType /\ b = [budget EXCEPT !.exists = TRUE]
      /\ g \in Groups /\ reserve \in Nat /\ RecoveryMaxAttempts \in Nat
  BY CurrentIsBudget, BudgetAssumption DEF WorkInv, TypeOK, BudgetType
<1>1. /\ ~Exhausted(b, g, reserve)
      /\ attempts' = [attempts EXCEPT ![r] = Append(@, NewAttempt(reserve, allowance))]
      /\ budget' = [b EXCEPT !.attempts = @ + 1, !.groups[g] = @ + 1,
                             !.reserved = @ + reserve, !.reservedWait = @ + allowance]
      /\ call' = [call EXCEPT ![r][e] = Len(attempts[r]) + 1]
  BY DEF Start, NewAttempt
<1>2. /\ b.exists /\ b.attempts = budget.attempts /\ b.groups = budget.groups
      /\ b.known = budget.known /\ b.reserved = budget.reserved
      /\ b.wait = budget.wait /\ b.reservedWait = budget.reservedWait
      /\ b.maxAttempts = budget.maxAttempts /\ b.maxTokens = budget.maxTokens
      /\ b.maxWait = budget.maxWait /\ b.extra = budget.extra
      /\ b.extensions = budget.extensions /\ b.applied = budget.applied
  BY <1>0 DEF BudgetType
<1>3. /\ b.attempts \in Nat /\ b.groups \in [Groups -> Nat] /\ b.groups[g] \in Nat
      /\ b.extra[g] \in Nat /\ b.known \in Nat /\ b.reserved \in Nat /\ b.wait \in Nat
      /\ b.reservedWait \in Nat /\ b.maxAttempts \in Nat /\ b.maxTokens \in Nat
      /\ b.maxWait \in Nat
  BY <1>0 DEF BudgetType
<1>4. /\ b.attempts < b.maxAttempts /\ b.groups[g] < RecoveryMaxAttempts + b.extra[g]
      /\ b.known + b.reserved + reserve <= b.maxTokens /\ left > 0
  <2>1. /\ ~(b.groups[g] >= RecoveryMaxAttempts + b.extra[g]) /\ ~(b.attempts >= b.maxAttempts)
        /\ ~(b.known + b.reserved + reserve > b.maxTokens) /\ ~(left <= 0)
    BY <1>1, Zenon DEF Exhausted
  <2>2. left \in Int
    BY <1>3
  <2>. HIDE DEF left
  <2>. QED
    BY <1>0, <1>3, <2>1, <2>2
<1>5. allowance \in Nat /\ b.wait + b.reservedWait + allowance <= b.maxWait
  BY <1>3, <1>4, BudgetAssumption
<1>6. /\ budget'.exists /\ budget'.attempts = b.attempts + 1
      /\ budget'.groups = [b.groups EXCEPT ![g] = @ + 1]
      /\ budget'.reserved = b.reserved + reserve
      /\ budget'.reservedWait = b.reservedWait + allowance
      /\ budget'.known = b.known /\ budget'.wait = b.wait
      /\ budget'.maxAttempts = b.maxAttempts /\ budget'.maxTokens = b.maxTokens
      /\ budget'.maxWait = b.maxWait /\ budget'.extra = b.extra
      /\ budget'.extensions = b.extensions /\ budget'.applied = b.applied
  BY <1>0, <1>1, <1>2 DEF BudgetType
<1>7. budget' \in BudgetType
  <2>1. [b.groups EXCEPT ![g] = @ + 1] \in [Groups -> Nat]
    BY <1>0, <1>3
  <2>2. b.attempts + 1 \in Nat /\ b.reserved + reserve \in Nat /\ b.reservedWait + allowance \in Nat
    BY <1>0, <1>3, <1>5
  <2>. QED
    BY <1>0, <1>1, <2>1, <2>2 DEF BudgetType
<1>8. StartWrites(r, e, reserve, allowance)
  BY <1>1, <1>2, <1>4, <1>5, <1>6, <1>7 DEF StartWrites, SameLimits
<1>. QED
  BY <1>5, <1>8

\* What was free before a start covers what it reserves.
LEMMA StartStep ==
    ASSUME WorkInv, NEW r \in Requests, NEW e \in Executions, NEW reserve \in Reserves,
           Start(r, e, reserve)
    PROVE  WorkInv'
PROOF
<1>. PICK allowance \in Nat : StartWrites(r, e, reserve, allowance)
  BY StartEffect
<1>. PICK a : a = NewAttempt(reserve, allowance)
  OBVIOUS
<1>. PICK x : x = <<r, Len(attempts[r]) + 1>>
  OBVIOUS
<1>. PICK g : g = GroupOf[r]
  OBVIOUS
<1>0. /\ TypeOK /\ budget \in BudgetType /\ g \in Groups /\ reserve \in Nat
      /\ attempts[r] \in Seq(AttemptType) /\ call \in [Requests -> [Executions -> Nat]]
      /\ lease' = lease /\ cancelled' = cancelled
  BY BudgetAssumption DEF WorkInv, TypeOK, BudgetType, Start
<1>1. a \in AttemptType /\ a.status = "started" /\ a.reserve = reserve /\ a.kept = reserve
      /\ a.allowance = allowance /\ a.tokens = 0 /\ a.wait = 0
  BY <1>0 DEF NewAttempt, AttemptType
<1>2. /\ attempts' \in [Requests -> Seq(AttemptType)]
      /\ Len(attempts'[r]) = Len(attempts[r]) + 1
      /\ x \notin All /\ All' = All \cup {x} /\ Attempt(x)' = a
      /\ \A y \in All : Attempt(y)' = Attempt(y)
  BY <1>0, <1>1, AttemptAdded DEF StartWrites
<1>3. IsFiniteSet(All)'
  BY <1>2, FS_AddElement DEF WorkInv
<1>4. /\ call' \in [Requests -> [Executions -> Nat]] /\ CallsRecorded'
  <2>0. /\ \A p \in Requests : attempts[p] \in Seq(AttemptType)
        /\ DOMAIN attempts = Requests
    BY <1>0 DEF TypeOK
  <2>1. /\ call' = [call EXCEPT ![r][e] = Len(attempts[r]) + 1] /\ Len(attempts[r]) \in Nat
        /\ \A p \in Requests : Len(attempts[p]) \in Nat
        /\ \A p \in Requests : p # r => attempts'[p] = attempts[p]
    <3>1. \A p \in Requests : Len(attempts[p]) \in Nat
      BY <2>0
    <3>2. \A p \in Requests : p # r => attempts'[p] = attempts[p]
      BY <2>0 DEF StartWrites
    <3>. QED
      BY <3>1, <3>2 DEF StartWrites
  <2>2. call' \in [Requests -> [Executions -> Nat]]
    BY <1>0, <2>1
  <2>3. ASSUME NEW p \in Requests, NEW d \in Executions
        PROVE  call'[p][d] \in 0 .. Len(attempts'[p])
    <3>1. call[p][d] \in 0 .. Len(attempts[p])
      BY DEF WorkInv, CallsRecorded
    <3>2. CASE p = r /\ d = e
      BY <1>0, <1>2, <2>1, <3>2
    <3>3. CASE p # r
      BY <1>0, <2>1, <3>1, <3>3
    <3>4. CASE p = r /\ d # e
      BY <1>0, <1>2, <2>1, <3>1, <3>4
    <3>. QED
      BY <3>2, <3>3, <3>4
  <2>. QED
    BY <2>2, <2>3 DEF CallsRecorded
<1>5. TypeOK'
  BY <1>0, <1>2, <1>4 DEF StartWrites, TypeOK, BudgetType
<1>6. StartedUnused'
  BY <1>1, <1>2 DEF WorkInv, StartedUnused
<1>7. CountsAgree'
  <2>1. x \in Everywhere /\ \A f \in Groups : x \in InGroup(f) <=> f = g
    BY <1>0 DEF Everywhere, InGroup
  <2>2. ASSUME NEW K
        PROVE  Cardinality(CountIn(K)') = Cardinality(CountIn(K)) + (IF x \in K THEN 1 ELSE 0)
    BY <1>1, <1>2, CountAdded DEF WorkInv
  <2>3. budget'.attempts = Cardinality(CountIn(Everywhere)')
    <3>1. budget.attempts = Cardinality(CountIn(Everywhere))
      BY DEF WorkInv, CountsAgree
    <3>. QED
      BY <2>1, <2>2, <3>1 DEF StartWrites
  <2>4. ASSUME NEW f \in Groups
        PROVE  budget'.groups[f] = Cardinality(CountIn(InGroup(f))')
    <3>1. budget.groups[f] = Cardinality(CountIn(InGroup(f))) /\ budget.groups[f] \in Nat
      BY <1>0 DEF WorkInv, CountsAgree, BudgetType
    <3>2. budget'.groups[f] = budget.groups[f] + (IF f = g THEN 1 ELSE 0)
      <4>1. budget.groups \in [Groups -> Nat]
        BY <1>0 DEF BudgetType
      <4>2. budget'.groups = [budget.groups EXCEPT ![g] = @ + 1]
        BY DEF StartWrites
      <4>. QED
        BY <1>0, <3>1, <4>1, <4>2
    <3>. QED
      BY <2>1, <2>2, <3>1, <3>2
  <2>. QED
    BY <2>3, <2>4 DEF CountsAgree, CountIn
<1>8. ASSUME NEW amt \in [AttemptType -> Nat]
      PROVE  TotalOf(amt)' = TotalOf(amt) + amt[a] /\ TotalOf(amt) \in Nat /\ amt[a] \in Nat
  BY <1>0, <1>1, <1>2, TotalAdded, TotalType DEF WorkInv
<1>9. /\ keptAmount[a] = reserve /\ waitingAmount[a] = allowance
      /\ tokensOver[a] = 0 /\ waitOver[a] = 0
  BY <1>0, <1>1 DEF keptAmount, waitingAmount, tokensOver, waitOver, Over
<1>10. TotalsAgree'
  <2>1. TotalOf(keptAmount)' = TotalOf(keptAmount) + reserve
    BY <1>8, <1>9, AmountTypes
  <2>2. TotalOf(waitingAmount)' = TotalOf(waitingAmount) + allowance
    BY <1>8, <1>9, AmountTypes
  <2>. QED
    BY <2>1, <2>2 DEF WorkInv, TotalsAgree, StartWrites
<1>11. WithinLimits'
  <2>1. /\ TotalOf(tokensOver)' = TotalOf(tokensOver) /\ TotalOf(tokensOver) \in Nat
        /\ TotalOf(waitOver)' = TotalOf(waitOver) /\ TotalOf(waitOver) \in Nat
    BY <1>8, <1>9, AmountTypes
  <2>2. budget'.attempts <= budget'.maxAttempts
    BY <1>0 DEF StartWrites, SameLimits, BudgetType
  <2>3. ASSUME NEW f \in Groups
        PROVE  budget'.groups[f] <= RecoveryMaxAttempts + budget'.extra[f]
    <3>1. /\ budget.groups[f] \in Nat /\ budget.extra[f] \in Nat /\ RecoveryMaxAttempts \in Nat
          /\ budget.groups[f] <= RecoveryMaxAttempts + budget.extra[f]
      BY <1>0, BudgetAssumption DEF WorkInv, WithinLimits, BudgetType
    <3>2. budget'.groups[f] = budget.groups[f] + (IF f = g THEN 1 ELSE 0)
      <4>1. budget.groups \in [Groups -> Nat]
        BY <1>0 DEF BudgetType
      <4>2. budget'.groups = [budget.groups EXCEPT ![g] = @ + 1]
        BY DEF StartWrites
      <4>. QED
        BY <1>0, <3>1, <4>1, <4>2
    <3>. QED
      BY <3>1, <3>2 DEF StartWrites, SameLimits
  <2>4. /\ budget'.known \in Nat /\ budget'.reserved \in Nat /\ budget'.maxTokens \in Nat
        /\ budget'.wait \in Nat /\ budget'.reservedWait \in Nat /\ budget'.maxWait \in Nat
        /\ budget.known \in Nat /\ budget.reserved \in Nat
        /\ budget.wait \in Nat /\ budget.reservedWait \in Nat
    BY <1>0 DEF StartWrites, BudgetType
  <2>5. /\ budget'.known = budget.known /\ budget'.reserved = budget.reserved + reserve
        /\ budget'.wait = budget.wait
        /\ budget'.reservedWait = budget.reservedWait + allowance
        /\ budget.known + budget.reserved + reserve <= budget'.maxTokens
        /\ budget.wait + budget.reservedWait + allowance <= budget'.maxWait
    BY DEF StartWrites, SameLimits
  <2>6. \A spent, held, more, max, over \in Nat :
          spent + held + more <= max => spent + (held + more) <= max + over
    OBVIOUS
  <2>7. budget'.known + budget'.reserved <= budget'.maxTokens + TotalOf(tokensOver)
    BY <1>0, <2>1, <2>4, <2>5, <2>6, Zenon
  <2>8. budget'.wait + budget'.reservedWait <= budget'.maxWait + TotalOf(waitOver)
    BY <2>1, <2>4, <2>5, <2>6, Zenon
  <2>. QED
    BY <2>1, <2>2, <2>3, <2>7, <2>8 DEF WithinLimits
<1>12. budget'.exists
  BY DEF StartWrites
<1>. QED
  BY <1>3, <1>4, <1>5, <1>6, <1>7, <1>10, <1>11, <1>12 DEF WorkInv

-----------------------------------------------------------------------------
\* A call ends.

OutcomeType == [sent : BOOLEAN, known : BOOLEAN, tokens : Nat, wait : Nat]
Ended(a, o) == [a EXCEPT !.status = IF o.sent THEN "sent" ELSE "unsent",
                         !.kept = Kept(a, o), !.tokens = o.tokens, !.wait = o.wait]

\* BudgetType before it is known that nothing falls below zero.
LooseType ==
    [exists : BOOLEAN, attempts : Int, known : Int, reserved : Int,
     wait : Int, reservedWait : Int, maxAttempts : Nat, maxTokens : Nat, maxWait : Nat,
     groups : [Groups -> Int], extra : [Groups -> Nat],
     extensions : 0 .. MaxExtensions,
     applied : SUBSET [id : Extensions, revision : 0 .. MaxExtensions]]

\* What a finish writes, field by field.
FinishWrites(r, e, i, a, o) ==
    /\ i \in 1 .. Len(attempts[r]) /\ a = attempts[r][i] /\ a.status = "started"
    /\ o \in OutcomeType
    /\ attempts' = [attempts EXCEPT ![r][i] = Ended(a, o)]
    /\ call' = [call EXCEPT ![r][e] = 0]
    /\ budget' \in LooseType /\ budget'.exists = budget.exists /\ SameLimits
    /\ budget'.attempts = budget.attempts - (IF o.sent THEN 0 ELSE 1)
    /\ \A f \in Groups : budget'.groups[f] =
         budget.groups[f] - (IF o.sent \/ f # GroupOf[r] THEN 0 ELSE 1)
    /\ budget'.known = budget.known + o.tokens
    /\ budget'.wait = budget.wait + o.wait
    /\ budget'.reserved = budget.reserved - (a.reserve - Kept(a, o))
    /\ budget'.reservedWait = budget.reservedWait - a.allowance

\* A finish does so, once and with one outcome.
LEMMA FinishEffect ==
    ASSUME WorkInv, NEW r \in Requests, NEW e \in Executions, Finish(r, e)
    PROVE  \E i, a, o : FinishWrites(r, e, i, a, o)
PROOF
<1>. PICK i : i = call[r][e]
  OBVIOUS
<1>. PICK a : a = attempts[r][i]
  OBVIOUS
<1>. PICK g : g = GroupOf[r]
  OBVIOUS
<1>0. /\ budget \in BudgetType /\ attempts[r] \in Seq(AttemptType) /\ g \in Groups
      /\ i \in 0 .. Len(attempts[r])
  BY BudgetAssumption DEF WorkInv, TypeOK, BudgetType, CallsRecorded
<1>1. i # 0 /\ a.status = "started" /\ call' = [call EXCEPT ![r][e] = 0]
  BY DEF Finish, OwnsAttempt
<1>2. i \in 1 .. Len(attempts[r]) /\ a \in AttemptType
  BY <1>0, <1>1
<1>3. PICK o \in Outcomes(a) :
        /\ budget' = Counted(Settled(budget, a, o), g, o)
        /\ attempts' = [attempts EXCEPT ![r][i] = Ended(a, o)]
  BY Zenon DEF Finish, Ended
<1>a. a.reserve \in Nat /\ a.allowance \in Nat /\ Overrun \in Nat
  BY <1>2, BudgetAssumption DEF AttemptType
<1>4. o \in OutcomeType
  <2>1. /\ 0 .. a.reserve + Overrun \subseteq Nat
        /\ 0 .. a.allowance + Overrun \subseteq Nat
    BY <1>a
  <2>2. ASSUME NEW S \in SUBSET BOOLEAN, NEW K \in SUBSET BOOLEAN,
               NEW T \in SUBSET Nat, NEW W \in SUBSET Nat
        PROVE  [sent : S, known : K, tokens : T, wait : W] \subseteq OutcomeType
    BY DEF OutcomeType
  <2>3. {FALSE} \in SUBSET BOOLEAN /\ {TRUE} \in SUBSET BOOLEAN
        /\ BOOLEAN \in SUBSET BOOLEAN /\ {0} \in SUBSET Nat
    OBVIOUS
  <2>4. [sent : {FALSE}, known : {TRUE}, tokens : {0}, wait : 0 .. a.allowance + Overrun]
          \subseteq OutcomeType
    BY <2>1, <2>2, <2>3, Zenon
  <2>5. [sent : {TRUE}, known : BOOLEAN, tokens : 0 .. a.reserve + Overrun,
         wait : 0 .. a.allowance + Overrun] \subseteq OutcomeType
    <3>1. ASSUME NEW S \in SUBSET BOOLEAN, NEW T \in SUBSET Nat, NEW W \in SUBSET Nat
          PROVE  [sent : S, known : BOOLEAN, tokens : T, wait : W] \subseteq OutcomeType
      BY DEF OutcomeType
    <3>. QED
      BY <2>1, <2>3, <3>1, Zenon
  <2>. QED
    BY <2>4, <2>5, Zenon DEF Outcomes
<1>5. o.tokens \in Nat /\ o.wait \in Nat /\ Kept(a, o) \in Nat
  <2>1. o.tokens \in Nat /\ o.wait \in Nat
    BY <1>4 DEF OutcomeType
  <2>. QED
    BY <1>a, <2>1 DEF Kept
<1>. PICK s : s = Settled(budget, a, o)
  OBVIOUS
<1>6. s = [budget EXCEPT !.known = @ + o.tokens, !.wait = @ + o.wait,
                         !.reservedWait = @ - a.allowance,
                         !.reserved = @ - (a.reserve - Kept(a, o))]
  BY DEF Settled
<1>7. /\ s \in LooseType /\ s.exists = budget.exists
      /\ s.attempts = budget.attempts /\ s.groups = budget.groups
      /\ s.known = budget.known + o.tokens /\ s.wait = budget.wait + o.wait
      /\ s.reserved = budget.reserved - (a.reserve - Kept(a, o))
      /\ s.reservedWait = budget.reservedWait - a.allowance
      /\ s.maxAttempts = budget.maxAttempts /\ s.maxTokens = budget.maxTokens
      /\ s.maxWait = budget.maxWait /\ s.extra = budget.extra
      /\ s.extensions = budget.extensions /\ s.applied = budget.applied
  <2>1. /\ budget.known \in Nat /\ budget.wait \in Nat /\ budget.reserved \in Nat
        /\ budget.reservedWait \in Nat
    BY <1>0 DEF BudgetType
  <2>2. /\ budget.known + o.tokens \in Int /\ budget.wait + o.wait \in Int
        /\ budget.reserved - (a.reserve - Kept(a, o)) \in Int
        /\ budget.reservedWait - a.allowance \in Int
    BY <1>a, <1>5, <2>1
  <2>3. budget \in LooseType
    BY <1>0 DEF BudgetType, LooseType
  <2>4. PICK u \in Int, v \in Int, p \in Int, q \in Int :
          /\ u = budget.known + o.tokens /\ v = budget.wait + o.wait
          /\ p = budget.reserved - (a.reserve - Kept(a, o))
          /\ q = budget.reservedWait - a.allowance
    BY <2>2, Zenon
  <2>5. s = [budget EXCEPT !.known = u, !.wait = v, !.reservedWait = q, !.reserved = p]
    BY <1>6, <2>4, Zenon
  <2>6. /\ s \in LooseType /\ s.exists = budget.exists /\ s.attempts = budget.attempts
        /\ s.groups = budget.groups /\ s.known = u /\ s.wait = v
        /\ s.reserved = p /\ s.reservedWait = q
        /\ s.maxAttempts = budget.maxAttempts /\ s.maxTokens = budget.maxTokens
        /\ s.maxWait = budget.maxWait /\ s.extra = budget.extra
        /\ s.extensions = budget.extensions /\ s.applied = budget.applied
    <3>1. \A b \in LooseType :
            [b EXCEPT !.known = u, !.wait = v, !.reservedWait = q, !.reserved = p] \in LooseType
      BY DEF LooseType
    <3>2. s \in LooseType
      BY <2>3, <2>5, <3>1, Zenon
    <3>. QED
      BY <2>3, <2>5, <3>2 DEF LooseType
  <2>. QED
    BY <2>4, <2>6
<1>8. budget' = IF o.sent THEN s ELSE [s EXCEPT !.attempts = @ - 1, !.groups[g] = @ - 1]
  BY <1>3 DEF Counted
<1>9. s.groups \in [Groups -> Int] /\ s.attempts \in Int
  BY <1>7 DEF LooseType
<1>10. /\ budget' \in LooseType /\ budget'.exists = s.exists
       /\ budget'.attempts = s.attempts - (IF o.sent THEN 0 ELSE 1)
       /\ budget'.groups = IF o.sent THEN s.groups ELSE [s.groups EXCEPT ![g] = @ - 1]
       /\ budget'.known = s.known /\ budget'.wait = s.wait
       /\ budget'.reserved = s.reserved /\ budget'.reservedWait = s.reservedWait
       /\ budget'.maxAttempts = s.maxAttempts /\ budget'.maxTokens = s.maxTokens
       /\ budget'.maxWait = s.maxWait /\ budget'.extra = s.extra
       /\ budget'.extensions = s.extensions /\ budget'.applied = s.applied
  <2>1. CASE o.sent
    BY <1>7, <1>8, <1>9, <2>1
  <2>2. CASE ~o.sent
    <3>1. budget' = [s EXCEPT !.attempts = @ - 1, !.groups[g] = @ - 1]
      BY <1>8, <2>2
    <3>2. [s.groups EXCEPT ![g] = @ - 1] \in [Groups -> Int] /\ s.attempts - 1 \in Int
      BY <1>0, <1>9
    <3>3. budget' = [s EXCEPT !.attempts = s.attempts - 1,
                              !.groups = [s.groups EXCEPT ![g] = @ - 1]]
      BY <3>1
    <3>4. PICK n \in Int, f \in [Groups -> Int] :
            n = s.attempts - 1 /\ f = [s.groups EXCEPT ![g] = @ - 1]
      BY <3>2, Zenon
    <3>5. budget' = [s EXCEPT !.attempts = n, !.groups = f]
      BY <3>3, <3>4, Zenon
    <3>6. /\ budget' \in LooseType /\ budget'.exists = s.exists /\ budget'.attempts = n
          /\ budget'.groups = f /\ budget'.known = s.known /\ budget'.wait = s.wait
          /\ budget'.reserved = s.reserved /\ budget'.reservedWait = s.reservedWait
          /\ budget'.maxAttempts = s.maxAttempts /\ budget'.maxTokens = s.maxTokens
          /\ budget'.maxWait = s.maxWait /\ budget'.extra = s.extra
          /\ budget'.extensions = s.extensions /\ budget'.applied = s.applied
      <4>1. s \in LooseType
        BY <1>7
      <4>2. budget' \in LooseType
        BY <3>5, <4>1 DEF LooseType
      <4>. QED
        BY <3>5, <4>1, <4>2 DEF LooseType
    <3>. QED
      BY <2>2, <3>4, <3>6
  <2>. QED
    BY <2>1, <2>2
<1>11. \A f \in Groups : budget'.groups[f] =
         budget.groups[f] - (IF o.sent \/ f # g THEN 0 ELSE 1)
  <2>1. budget.groups \in [Groups -> Nat] /\ s.groups = budget.groups
    BY <1>0, <1>7 DEF BudgetType
  <2>. QED
    BY <1>0, <1>10, <2>1
<1>12. SameLimits
  BY <1>7, <1>10 DEF SameLimits
<1>13. FinishWrites(r, e, i, a, o)
  BY <1>1, <1>2, <1>3, <1>4, <1>7, <1>10, <1>11, <1>12 DEF FinishWrites
<1>. QED
  BY <1>13

\* An attempt gives back what it reserved and adds no more than it used and overran.
LEMMA FinishStep ==
    ASSUME WorkInv, NEW r \in Requests, NEW e \in Executions, Finish(r, e)
    PROVE  WorkInv'
PROOF
<1>. PICK i, a, o : FinishWrites(r, e, i, a, o)
  BY FinishEffect
<1>. PICK c : c = Ended(a, o)
  OBVIOUS
<1>. PICK x : x = <<r, i>>
  OBVIOUS
<1>. PICK g : g = GroupOf[r]
  OBVIOUS
<1>0. /\ TypeOK /\ budget \in BudgetType /\ budget' \in LooseType /\ g \in Groups
      /\ call \in [Requests -> [Executions -> Nat]] /\ IsFiniteSet(All)
      /\ lease' = lease /\ cancelled' = cancelled
      /\ i \in 1 .. Len(attempts[r]) /\ a = attempts[r][i] /\ a.status = "started"
      /\ o \in OutcomeType
  BY BudgetAssumption DEF WorkInv, TypeOK, BudgetType, Finish, FinishWrites
<1>1. a \in AttemptType
  BY <1>0 DEF TypeOK
<1>2. /\ a.reserve \in Nat /\ a.allowance \in Nat /\ o.tokens \in Nat /\ o.wait \in Nat
      /\ Kept(a, o) \in Nat
  BY <1>0, <1>1 DEF AttemptType, OutcomeType, Kept
<1>3. /\ c \in AttemptType /\ c.status = (IF o.sent THEN "sent" ELSE "unsent")
      /\ c.kept = Kept(a, o) /\ c.tokens = o.tokens /\ c.wait = o.wait
      /\ c.reserve = a.reserve /\ c.allowance = a.allowance
  <2>1. PICK u \in {"sent", "unsent"}, k \in Nat, t \in Nat, w \in Nat :
          /\ u = (IF o.sent THEN "sent" ELSE "unsent") /\ k = Kept(a, o)
          /\ t = o.tokens /\ w = o.wait
    BY <1>2, Zenon
  <2>2. c = [a EXCEPT !.status = u, !.kept = k, !.tokens = t, !.wait = w]
    BY <2>1, Zenon DEF Ended
  <2>3. /\ c \in AttemptType /\ c.status = u /\ c.kept = k /\ c.tokens = t /\ c.wait = w
        /\ c.reserve = a.reserve /\ c.allowance = a.allowance
    BY <1>1, <2>1, <2>2 DEF AttemptType
  <2>. QED
    BY <2>1, <2>3
<1>4. /\ attempts' \in [Requests -> Seq(AttemptType)]
      /\ \A p \in Requests : Len(attempts'[p]) = Len(attempts[p])
      /\ x \in All /\ All' = All /\ Attempt(x) = a /\ Attempt(x)' = c
      /\ \A y \in All : y # x => Attempt(y)' = Attempt(y)
  <2>1. ChangesTo(r, i, c)
    BY DEF FinishWrites, ChangesTo
  <2>2. c \in AttemptType /\ TypeOK /\ i \in 1 .. Len(attempts[r])
    BY <1>0, <1>3
  <2>3. /\ attempts' \in [Requests -> Seq(AttemptType)]
        /\ \A p \in Requests : Len(attempts'[p]) = Len(attempts[p])
        /\ <<r, i>> \in All /\ All' = All
        /\ Attempt(<<r, i>>) = attempts[r][i] /\ Attempt(<<r, i>>)' = c
        /\ \A y \in All : y # <<r, i>> => Attempt(y)' = Attempt(y)
    BY <2>1, <2>2, AttemptChanged
  <2>. QED
    BY <1>0, <2>3
<1>5. IsFiniteSet(All)'
  BY <1>0, <1>4
<1>6. call' \in [Requests -> [Executions -> Nat]] /\ CallsRecorded'
  <2>1. call' = [call EXCEPT ![r][e] = 0] /\ \A p \in Requests : Len(attempts[p]) \in Nat
    <3>1. \A p \in Requests : Len(attempts[p]) \in Nat
      BY <1>0 DEF TypeOK
    <3>. QED
      BY <3>1 DEF FinishWrites
  <2>2. call' \in [Requests -> [Executions -> Nat]]
    BY <1>0, <2>1
  <2>3. ASSUME NEW p \in Requests, NEW d \in Executions
        PROVE  call'[p][d] \in 0 .. Len(attempts'[p])
    <3>1. call[p][d] \in 0 .. Len(attempts[p])
      BY DEF WorkInv, CallsRecorded
    <3>2. CASE p = r /\ d = e
      BY <1>0, <1>4, <2>1, <3>2
    <3>3. CASE ~(p = r /\ d = e)
      BY <1>0, <1>4, <2>1, <3>1, <3>3
    <3>. QED
      BY <3>2, <3>3
  <2>. QED
    BY <2>2, <2>3 DEF CallsRecorded
<1>7. StartedUnused'
  BY <1>3, <1>4 DEF WorkInv, StartedUnused
<1>8. a.kept = a.reserve /\ a.tokens = 0 /\ a.wait = 0
  BY <1>0, <1>4 DEF WorkInv, StartedUnused
<1>9. CountsAgree'
  <2>1. x \in Everywhere /\ \A f \in Groups : x \in InGroup(f) <=> f = g
    BY <1>0 DEF Everywhere, InGroup
  <2>2. ASSUME NEW K
        PROVE  Cardinality(CountIn(K)') =
                 Cardinality(CountIn(K)) - (IF o.sent \/ x \notin K THEN 0 ELSE 1)
    <3>1. /\ Cardinality(CountIn(K)) \in Nat
          /\ IF x \in K /\ c.status = "unsent"
             THEN Cardinality(CountIn(K)') = Cardinality(CountIn(K)) - 1
             ELSE Cardinality(CountIn(K)') = Cardinality(CountIn(K))
      BY <1>0, <1>4, CountChanged
    <3>. QED
      BY <1>3, <3>1
  <2>3. budget'.attempts = Cardinality(CountIn(Everywhere)')
    <3>1. budget.attempts = Cardinality(CountIn(Everywhere))
      BY DEF WorkInv, CountsAgree
    <3>. QED
      BY <2>1, <2>2, <3>1 DEF FinishWrites
  <2>4. ASSUME NEW f \in Groups
        PROVE  budget'.groups[f] = Cardinality(CountIn(InGroup(f))')
    <3>1. budget.groups[f] = Cardinality(CountIn(InGroup(f)))
      BY DEF WorkInv, CountsAgree
    <3>2. budget'.groups[f] = budget.groups[f] - (IF o.sent \/ f # g THEN 0 ELSE 1)
      BY DEF FinishWrites
    <3>3. Cardinality(CountIn(InGroup(f))') =
            Cardinality(CountIn(InGroup(f))) - (IF o.sent \/ x \notin InGroup(f) THEN 0 ELSE 1)
      BY <2>2
    <3>4. x \in InGroup(f) <=> f = g
      BY <2>1
    <3>. QED
      BY <3>1, <3>2, <3>3, <3>4
  <2>. QED
    BY <2>3, <2>4 DEF CountsAgree, CountIn
<1>10. ASSUME NEW amt \in [AttemptType -> Nat]
       PROVE  /\ TotalOf(amt) \in Nat /\ TotalOf(amt)' \in Nat
              /\ TotalOf(amt)' + amt[a] = TotalOf(amt) + amt[c]
  <2>1. TotalOf(amt) \in Nat
    BY <1>0, TotalType
  <2>2. TotalOf(amt)' + amt[a] = TotalOf(amt) + amt[c] /\ TotalOf(amt)' \in Nat
    BY <1>0, <1>3, <1>4, TotalChanged
  <2>. QED
    BY <2>1, <2>2
<1>11. /\ keptAmount[a] = a.reserve /\ keptAmount[c] = Kept(a, o)
       /\ waitingAmount[a] = a.allowance /\ waitingAmount[c] = 0
       /\ tokensOver[a] = 0 /\ tokensOver[c] = Over(o.tokens, a.reserve)
       /\ waitOver[a] = 0 /\ waitOver[c] = Over(o.wait, a.allowance)
  <2>1. /\ keptAmount[a] = a.reserve /\ keptAmount[c] = Kept(a, o)
        /\ waitingAmount[a] = a.allowance /\ waitingAmount[c] = 0
    BY <1>0, <1>1, <1>3, <1>8 DEF keptAmount, waitingAmount
  <2>2. tokensOver[a] = 0 /\ tokensOver[c] = Over(o.tokens, a.reserve)
    BY <1>1, <1>2, <1>3, <1>8 DEF tokensOver, Over
  <2>3. waitOver[a] = 0 /\ waitOver[c] = Over(o.wait, a.allowance)
    BY <1>1, <1>2, <1>3, <1>8 DEF waitOver, Over
  <2>. QED
    BY <2>1, <2>2, <2>3
<1>12. budget'.reserved = TotalOf(keptAmount)' /\ budget'.reserved \in Nat
  <2>1. /\ TotalOf(keptAmount) \in Nat /\ TotalOf(keptAmount)' \in Nat
        /\ TotalOf(keptAmount)' + a.reserve = TotalOf(keptAmount) + Kept(a, o)
    BY <1>10, <1>11, AmountTypes
  <2>2. budget'.reserved = TotalOf(keptAmount) - (a.reserve - Kept(a, o))
    BY DEF FinishWrites, WorkInv, TotalsAgree
  <2>. QED
    BY <1>2, <2>1, <2>2
<1>13. budget'.reservedWait = TotalOf(waitingAmount)' /\ budget'.reservedWait \in Nat
  <2>1. /\ TotalOf(waitingAmount) \in Nat /\ TotalOf(waitingAmount)' \in Nat
        /\ TotalOf(waitingAmount)' + a.allowance = TotalOf(waitingAmount) + 0
    BY <1>10, <1>11, AmountTypes
  <2>2. budget'.reservedWait = TotalOf(waitingAmount) - a.allowance
    BY DEF FinishWrites, WorkInv, TotalsAgree
  <2>. QED
    BY <1>2, <2>1, <2>2
<1>14. /\ budget.known \in Nat /\ budget.wait \in Nat
       /\ budget.reserved \in Nat /\ budget.reservedWait \in Nat
       /\ budget.maxTokens \in Nat /\ budget.maxWait \in Nat
       /\ budget.attempts \in Nat /\ budget.maxAttempts \in Nat
       /\ budget.groups \in [Groups -> Nat] /\ budget.extra \in [Groups -> Nat]
  BY <1>0 DEF BudgetType
<1>15. budget' \in BudgetType
  <2>1. \A K : Cardinality(CountIn(K)') \in Nat
    <3>1. \A K : IsFiniteSet(CountIn(K)')
      <4>1. \A K : CountIn(K)' \subseteq All'
        BY DEF CountIn
      <4>. QED
        BY <1>5, <4>1, FS_Subset
    <3>. QED
      BY <3>1, FS_CardinalityType
  <2>2. budget'.attempts \in Nat /\ \A f \in Groups : budget'.groups[f] \in Nat
    BY <1>9, <2>1 DEF CountsAgree
  <2>3. budget'.groups \in [Groups -> Nat]
    <3>1. budget'.groups \in [Groups -> Int]
      BY <1>0 DEF LooseType
    <3>. QED
      BY <2>2, <3>1
  <2>4. budget'.known \in Nat /\ budget'.wait \in Nat
    <3>1. budget'.known = budget.known + o.tokens /\ budget'.wait = budget.wait + o.wait
      BY DEF FinishWrites
    <3>. QED
      BY <1>2, <1>14, <3>1
  <2>. QED
    BY <1>0, <1>12, <1>13, <2>2, <2>3, <2>4 DEF LooseType, BudgetType
<1>16. WithinLimits'
  <2>1. budget'.attempts <= budget'.maxAttempts
    <3>1. budget.attempts <= budget.maxAttempts
      BY DEF WorkInv, WithinLimits
    <3>. QED
      BY <1>14, <3>1 DEF FinishWrites, SameLimits
  <2>2. ASSUME NEW f \in Groups
        PROVE  budget'.groups[f] <= RecoveryMaxAttempts + budget'.extra[f]
    <3>1. /\ budget.groups[f] \in Nat /\ budget.extra[f] \in Nat /\ RecoveryMaxAttempts \in Nat
          /\ budget.groups[f] <= RecoveryMaxAttempts + budget.extra[f]
      BY <1>14, BudgetAssumption DEF WorkInv, WithinLimits
    <3>. QED
      BY <3>1 DEF FinishWrites, SameLimits
  <2>3. budget'.known + budget'.reserved <= budget'.maxTokens + TotalOf(tokensOver)'
    <3>1. /\ TotalOf(tokensOver) \in Nat
          /\ TotalOf(tokensOver)' = TotalOf(tokensOver) + Over(o.tokens, a.reserve)
      BY <1>2, <1>10, <1>11, AmountTypes DEF Over
    <3>2. Over(o.tokens, a.reserve) >= o.tokens - a.reserve + Kept(a, o)
      BY <1>2 DEF Over, Kept
    <3>3. Over(o.tokens, a.reserve) \in Nat
      BY <1>2 DEF Over
    <3>4. budget.known + budget.reserved <= budget.maxTokens + TotalOf(tokensOver)
      BY DEF WorkInv, WithinLimits
    <3>5. /\ budget'.known = budget.known + o.tokens
          /\ budget'.reserved = budget.reserved - (a.reserve - Kept(a, o))
          /\ budget'.maxTokens = budget.maxTokens
      BY DEF FinishWrites, SameLimits
    <3>6. \A k, s, t, v, kept, m, n, over \in Nat :
            /\ k + s <= m + n
            /\ over >= t - v + kept
            => (k + t) + (s - (v - kept)) <= m + (n + over)
      OBVIOUS
    <3>. QED
      BY <1>2, <1>14, <3>1, <3>2, <3>3, <3>4, <3>5, <3>6
  <2>4. budget'.wait + budget'.reservedWait <= budget'.maxWait + TotalOf(waitOver)'
    <3>1. /\ TotalOf(waitOver) \in Nat
          /\ TotalOf(waitOver)' = TotalOf(waitOver) + Over(o.wait, a.allowance)
      BY <1>2, <1>10, <1>11, AmountTypes DEF Over
    <3>2. Over(o.wait, a.allowance) >= o.wait - a.allowance
      BY <1>2 DEF Over
    <3>3. Over(o.wait, a.allowance) \in Nat
      BY <1>2 DEF Over
    <3>4. budget.wait + budget.reservedWait <= budget.maxWait + TotalOf(waitOver)
      BY DEF WorkInv, WithinLimits
    <3>5. /\ budget'.wait = budget.wait + o.wait
          /\ budget'.reservedWait = budget.reservedWait - a.allowance
          /\ budget'.maxWait = budget.maxWait
      BY DEF FinishWrites, SameLimits
    <3>6. \A k, s, t, v, m, n, over \in Nat :
            /\ k + s <= m + n
            /\ over >= t - v
            => (k + t) + (s - v) <= m + (n + over)
      OBVIOUS
    <3>. QED
      BY <1>2, <1>14, <3>1, <3>2, <3>3, <3>4, <3>5, <3>6
  <2>. QED
    BY <2>1, <2>2, <2>3, <2>4 DEF WithinLimits
<1>17. budget'.exists
  <2>1. x \in CountIn(Everywhere) /\ IsFiniteSet(CountIn(Everywhere))
    <3>1. CountIn(Everywhere) \subseteq All
      BY DEF CountIn
    <3>2. x \in Everywhere
      BY <1>0 DEF Everywhere
    <3>. QED
      BY <1>0, <1>4, <3>1, <3>2, FS_Subset DEF CountIn, Counts
  <2>2. Cardinality(CountIn(Everywhere)) # 0
    BY <2>1, FS_EmptySet
  <2>3. budget.attempts # 0
    BY <2>2 DEF WorkInv, CountsAgree
  <2>4. budget.exists
    BY <2>3 DEF WorkInv, NoBudget
  <2>. QED
    BY <2>4 DEF FinishWrites
<1>18. TypeOK'
  BY <1>0, <1>4, <1>6, <1>15 DEF TypeOK, BudgetType
<1>19. TotalsAgree'
  BY <1>12, <1>13 DEF TotalsAgree
<1>. QED
  BY <1>5, <1>6, <1>7, <1>9, <1>16, <1>17, <1>18, <1>19 DEF WorkInv

-----------------------------------------------------------------------------
\* The invariant is inductive.

\* What an extension writes, field by field.
ExtendWrites(id, revision) ==
    /\ budget' \in BudgetType /\ budget.exists /\ budget'.exists /\ SameSpending
    /\ budget'.extensions = budget.extensions + 1
    /\ budget'.applied = budget.applied \cup {[id |-> id, revision |-> revision]}
    /\ budget'.maxAttempts = budget.maxAttempts + Offer.attempts
    /\ budget'.maxTokens = budget.maxTokens + Offer.tokens
    /\ budget'.maxWait = budget.maxWait + Offer.wait
    /\ \A g \in Groups : budget'.extra[g] >= budget.extra[g]

\* What it leaves of the row b it wrote, whether or not it also raised a group's share.
KeepsRow(b) ==
    /\ budget' \in BudgetType /\ budget'.exists = b.exists
    /\ budget'.attempts = b.attempts /\ budget'.groups = b.groups
    /\ budget'.known = b.known /\ budget'.reserved = b.reserved
    /\ budget'.wait = b.wait /\ budget'.reservedWait = b.reservedWait
    /\ budget'.extensions = b.extensions /\ budget'.applied = b.applied
    /\ budget'.maxAttempts = b.maxAttempts /\ budget'.maxTokens = b.maxTokens
    /\ budget'.maxWait = b.maxWait
    /\ \A g \in Groups : budget'.extra[g] >= budget.extra[g]

\* Both kinds of extension do so, of an acceptable id and revision.
LEMMA ExtendEffect ==
    ASSUME TypeOK, NEW id \in Extensions, NEW revision \in 0 .. MaxExtensions,
           Extend(id, revision) \/ \E g \in Groups : ExtendGroup(id, revision, g)
    PROVE  /\ Acceptable(id, revision) /\ ExtendWrites(id, revision)
           /\ UNCHANGED <<attempts, lease, cancelled, call>>
PROOF
<1>1. /\ Acceptable(id, revision) /\ UNCHANGED <<attempts, lease, cancelled, call>>
      /\ \/ budget' = Extended(id, revision)
         \/ \E g \in Groups :
              budget' = [Extended(id, revision) EXCEPT !.extra[g] = @ + Offer.recovery]
  BY DEF Extend, ExtendGroup
<1>2. budget \in BudgetType /\ budget.exists
  BY <1>1 DEF TypeOK, BudgetType, Acceptable
<1>3. /\ Offer.attempts \in Nat /\ Offer.tokens \in Nat /\ Offer.wait \in Nat
      /\ Offer.recovery \in Nat /\ MaxExtensions \in Nat
  BY BudgetAssumption
<1>4. /\ budget.extensions \in 0 .. MaxExtensions /\ budget.extensions < MaxExtensions
      /\ budget.applied \in SUBSET [id : Extensions, revision : 0 .. MaxExtensions]
      /\ budget.maxAttempts \in Nat /\ budget.maxTokens \in Nat /\ budget.maxWait \in Nat
      /\ budget.extra \in [Groups -> Nat]
  BY <1>1, <1>2 DEF BudgetType, Acceptable
<1>5. PICK n \in 0 .. MaxExtensions,
           A \in SUBSET [id : Extensions, revision : 0 .. MaxExtensions],
           u \in Nat, v \in Nat, w \in Nat :
        /\ n = budget.extensions + 1
        /\ A = budget.applied \cup {[id |-> id, revision |-> revision]}
        /\ u = budget.maxAttempts + Offer.attempts
        /\ v = budget.maxTokens + Offer.tokens
        /\ w = budget.maxWait + Offer.wait
  <2>1. budget.extensions + 1 \in 0 .. MaxExtensions
    BY <1>3, <1>4
  <2>2. budget.applied \cup {[id |-> id, revision |-> revision]}
          \in SUBSET [id : Extensions, revision : 0 .. MaxExtensions]
    BY <1>4
  <2>3. /\ budget.maxAttempts + Offer.attempts \in Nat
        /\ budget.maxTokens + Offer.tokens \in Nat /\ budget.maxWait + Offer.wait \in Nat
    BY <1>3, <1>4
  <2>. QED
    BY <2>1, <2>2, <2>3, Zenon
<1>. PICK b : b = Extended(id, revision)
  OBVIOUS
<1>6. b = [budget EXCEPT !.extensions = n, !.applied = A, !.maxAttempts = u,
                         !.maxTokens = v, !.maxWait = w]
  BY <1>5, Zenon DEF Extended
<1>7. b \in BudgetType
  <2>1. \A d \in BudgetType :
          [d EXCEPT !.extensions = n, !.applied = A, !.maxAttempts = u,
                    !.maxTokens = v, !.maxWait = w] \in BudgetType
    BY DEF BudgetType
  <2>. QED
    BY <1>2, <1>6, <2>1, Zenon
<1>8. /\ b.exists = budget.exists /\ b.attempts = budget.attempts /\ b.groups = budget.groups
      /\ b.known = budget.known /\ b.reserved = budget.reserved
      /\ b.wait = budget.wait /\ b.reservedWait = budget.reservedWait
      /\ b.extensions = n /\ b.applied = A /\ b.maxAttempts = u /\ b.maxTokens = v
      /\ b.maxWait = w /\ b.extra = budget.extra
  BY <1>2, <1>6 DEF BudgetType
<1>9. KeepsRow(b)
  <2>1. CASE budget' = b
    BY <1>4, <1>7, <1>8, <2>1 DEF KeepsRow
  <2>2. ASSUME NEW g \in Groups, budget' = [b EXCEPT !.extra[g] = @ + Offer.recovery]
        PROVE  KeepsRow(b)
    <3>1. PICK x \in [Groups -> Nat] : x = [b.extra EXCEPT ![g] = @ + Offer.recovery]
      <4>1. [b.extra EXCEPT ![g] = @ + Offer.recovery] \in [Groups -> Nat]
        BY <1>3, <1>4, <1>8
      <4>. QED
        BY <4>1, Zenon
    <3>2. budget' = [b EXCEPT !.extra = x]
      BY <2>2, <3>1, Zenon
    <3>3. \A d \in BudgetType : [d EXCEPT !.extra = x] \in BudgetType
      BY DEF BudgetType
    <3>4. budget' \in BudgetType
      BY <1>7, <3>2, <3>3, Zenon
    <3>5. /\ budget'.exists = b.exists
          /\ budget'.attempts = b.attempts /\ budget'.groups = b.groups
          /\ budget'.known = b.known /\ budget'.reserved = b.reserved
          /\ budget'.wait = b.wait /\ budget'.reservedWait = b.reservedWait
          /\ budget'.extensions = b.extensions /\ budget'.applied = b.applied
          /\ budget'.maxAttempts = b.maxAttempts /\ budget'.maxTokens = b.maxTokens
          /\ budget'.maxWait = b.maxWait /\ budget'.extra = x
      BY <1>7, <3>2 DEF BudgetType
    <3>6. \A f \in Groups : x[f] >= budget.extra[f]
      BY <1>3, <1>4, <1>8, <3>1
    <3>. QED
      BY <3>4, <3>5, <3>6 DEF KeepsRow
  <2>. QED
    BY <1>1, <2>1, <2>2
<1>10. ExtendWrites(id, revision)
  BY <1>2, <1>5, <1>8, <1>9 DEF ExtendWrites, SameSpending, KeepsRow
<1>. QED
  BY <1>1, <1>10

\* Every step keeps the invariant.
LEMMA WorkStep == WorkInv /\ [Next]_vars => WorkInv'
PROOF
<1>. SUFFICES ASSUME WorkInv, [Next]_vars PROVE WorkInv'
  OBVIOUS
<1>0. budget \in BudgetType /\ lease \in [Requests -> Executions \cup {0}]
      /\ call \in [Requests -> [Executions -> Nat]] /\ cancelled \subseteq Requests
  BY DEF WorkInv, TypeOK, BudgetType
<1>1. ASSUME NEW r \in Requests, NEW e \in Executions, NEW reserve \in Reserves,
             Deny(r, e, reserve)
      PROVE  WorkInv'
  <2>1. /\ budget' = Current /\ attempts' = attempts /\ call' = call
        /\ lease' \in [Requests -> Executions \cup {0}] /\ cancelled' \subseteq Requests
    BY <1>0, <1>1 DEF Deny
  <2>. QED
    BY <2>1, QuietStep
<1>2. ASSUME NEW r \in Requests, NEW e \in Executions, FinishTooLate(r, e) \/ Crash(r, e)
      PROVE  WorkInv'
  <2>1. /\ budget' = budget /\ attempts' = attempts /\ call' = [call EXCEPT ![r][e] = 0]
        /\ lease' \in [Requests -> Executions \cup {0}] /\ cancelled' \subseteq Requests
    BY <1>0, <1>2 DEF FinishTooLate, Crash
  <2>. QED
    BY <2>1, QuietStep
<1>3. ASSUME NEW r \in Requests, TakeOver(r) \/ End(r) \/ Cancel(r)
      PROVE  WorkInv'
  <2>1. budget' = budget /\ attempts' = attempts /\ call' = call
    BY <1>3 DEF TakeOver, End, Cancel
  <2>2. lease' \in [Requests -> Executions \cup {0}] /\ cancelled' \subseteq Requests
    BY <1>0, <1>3 DEF TakeOver, End, Cancel
  <2>. QED
    BY <2>1, <2>2, QuietStep
<1>4. ASSUME NEW id \in Extensions, NEW revision \in 0 .. MaxExtensions,
             Extend(id, revision) \/ \E g \in Groups : ExtendGroup(id, revision, g)
      PROVE  WorkInv'
  <2>1. ExtendWrites(id, revision) /\ UNCHANGED <<attempts, lease, cancelled, call>>
    BY <1>4, ExtendEffect DEF WorkInv
  <2>2. /\ budget'.maxAttempts >= budget.maxAttempts /\ budget'.maxTokens >= budget.maxTokens
        /\ budget'.maxWait >= budget.maxWait
    <3>1. /\ budget.maxAttempts \in Nat /\ budget.maxTokens \in Nat /\ budget.maxWait \in Nat
          /\ Offer.attempts \in Nat /\ Offer.tokens \in Nat /\ Offer.wait \in Nat
      BY <1>0, BudgetAssumption DEF BudgetType
    <3>. QED
      BY <2>1, <3>1 DEF ExtendWrites
  <2>. QED
    BY <2>1, <2>2, ExtensionStep DEF ExtendWrites
<1>5. CASE UNCHANGED vars
  <2>1. /\ budget' = budget /\ attempts' = attempts /\ call' = call
        /\ lease' \in [Requests -> Executions \cup {0}] /\ cancelled' \subseteq Requests
    BY <1>0, <1>5 DEF vars
  <2>. QED
    BY <2>1, QuietStep
<1>. QED
  BY <1>1, <1>2, <1>3, <1>4, <1>5, StartStep, FinishStep DEF Next, RequestStep, ExtendStep

-----------------------------------------------------------------------------
\* Extensions.

\* Revisions of extensions that were applied are older than the budget's.
ExtendInv ==
    /\ ExtendedOnce
    /\ IsFiniteSet(budget.applied)
    /\ \A x \in budget.applied : x.revision < budget.extensions

\* Nothing but an extension changes what the budget allows.
LEMMA LimitsKept ==
    ASSUME WorkInv, [Next]_vars
    PROVE  \/ SameLimits
           \/ \E id \in Extensions, revision \in 0 .. MaxExtensions :
                Acceptable(id, revision) /\ ExtendWrites(id, revision)
PROOF
<1>0. TypeOK /\ budget \in BudgetType
  BY DEF WorkInv, TypeOK, BudgetType
<1>1. budget' = budget \/ budget' = Current => SameLimits
  <2>1. Current = [budget EXCEPT !.exists = TRUE]
    BY <1>0, CurrentIsBudget DEF WorkInv
  <2>. QED
    BY <1>0, <2>1 DEF BudgetType, SameLimits
<1>2. ASSUME NEW r \in Requests, NEW e \in Executions, NEW reserve \in Reserves,
             Deny(r, e, reserve) \/ Start(r, e, reserve)
      PROVE  SameLimits
  <2>1. CASE Deny(r, e, reserve)
    BY <1>1, <2>1 DEF Deny
  <2>2. CASE Start(r, e, reserve)
    BY <2>2, StartEffect DEF StartWrites
  <2>. QED
    BY <1>2, <2>1, <2>2
<1>3. ASSUME NEW r \in Requests, NEW e \in Executions, Finish(r, e)
      PROVE  SameLimits
  BY <1>3, FinishEffect DEF FinishWrites
<1>4. ASSUME NEW r \in Requests, NEW e \in Executions,
             FinishTooLate(r, e) \/ Crash(r, e)
      PROVE  budget' = budget
  BY <1>4 DEF FinishTooLate, Crash
<1>5. ASSUME NEW r \in Requests, TakeOver(r) \/ End(r) \/ Cancel(r)
      PROVE  budget' = budget
  BY <1>5 DEF TakeOver, End, Cancel
<1>6. CASE UNCHANGED vars
  BY <1>1, <1>6 DEF vars
<1>7. CASE ExtendStep
  BY <1>0, <1>7, ExtendEffect DEF ExtendStep
<1>8. CASE \E r \in Requests : RequestStep(r)
  BY <1>1, <1>2, <1>3, <1>4, <1>5, <1>8 DEF RequestStep
<1>. QED
  BY <1>6, <1>7, <1>8 DEF Next

\* Two extensions differ in their id and in the revision their clients had seen.
LEMMA ExtendInvStep == WorkInv /\ ExtendInv /\ [Next]_vars => ExtendInv'
PROOF
<1>. SUFFICES ASSUME WorkInv, ExtendInv, [Next]_vars PROVE ExtendInv'
  OBVIOUS
<1>0. budget \in BudgetType
  BY DEF WorkInv, TypeOK, BudgetType
<1>1. CASE SameLimits
  BY <1>1 DEF SameLimits, ExtendInv, ExtendedOnce
<1>2. ASSUME NEW id \in Extensions, NEW revision \in 0 .. MaxExtensions,
             Acceptable(id, revision), ExtendWrites(id, revision)
      PROVE  ExtendInv'
  <2>. PICK y : y = [id |-> id, revision |-> revision]
    OBVIOUS
  <2>1. /\ y.id = id /\ y.revision = revision /\ revision = budget.extensions
        /\ budget'.applied = budget.applied \cup {y}
        /\ budget'.extensions = budget.extensions + 1
        /\ budget.extensions \in Nat
    BY <1>0, <1>2, BudgetAssumption DEF Acceptable, ExtendWrites, BudgetType
  <2>2. \A x \in budget.applied : x.id # id /\ x.revision \in Nat /\ x.revision < revision
    <3>1. \A x \in budget.applied : x.id # id
      BY <1>2 DEF Acceptable, Applied
    <3>2. \A x \in budget.applied : x.revision \in Nat
      BY <1>0 DEF BudgetType
    <3>. QED
      BY <2>1, <3>1, <3>2 DEF ExtendInv
  <2>3. y \notin budget.applied
    BY <2>1, <2>2
  <2>4. /\ IsFiniteSet(budget'.applied)
        /\ Cardinality(budget'.applied) = Cardinality(budget.applied) + 1
    BY <2>1, <2>3, FS_AddElement DEF ExtendInv
  <2>5. budget'.extensions = Cardinality(budget'.applied)
    BY <2>1, <2>4 DEF ExtendInv, ExtendedOnce
  <2>6. \A x \in budget'.applied : x.revision < budget'.extensions
    BY <2>1, <2>2
  <2>7. \A x, z \in budget'.applied : x.id = z.id \/ x.revision = z.revision => x = z
    <3>1. \A x, z \in budget.applied : x.id = z.id \/ x.revision = z.revision => x = z
      BY DEF ExtendInv, ExtendedOnce
    <3>2. \A x \in budget.applied : x.id # y.id /\ x.revision # y.revision
      BY <2>1, <2>2
    <3>. QED
      BY <2>1, <3>1, <3>2
  <2>8. budget'.maxAttempts = MaxAttempts + budget'.extensions * Offer.attempts
    <3>1. \A n, k \in Nat : (n + 1) * k = n * k + k
      OBVIOUS
    <3>2. /\ Offer.attempts \in Nat /\ MaxAttempts \in Nat
          /\ budget.extensions * Offer.attempts \in Nat
      BY <2>1, BudgetAssumption
    <3>3. /\ budget'.maxAttempts = budget.maxAttempts + Offer.attempts
          /\ budget.maxAttempts = MaxAttempts + budget.extensions * Offer.attempts
      BY <1>2 DEF ExtendWrites, ExtendInv, ExtendedOnce
    <3>. QED
      BY <2>1, <3>1, <3>2, <3>3
  <2>. QED
    BY <2>4, <2>5, <2>6, <2>7, <2>8 DEF ExtendInv, ExtendedOnce
<1>. QED
  BY <1>1, <1>2, LimitsKept

\* Initially no extension was applied.
LEMMA ExtendInvInit == Init => ExtendInv
PROOF
<1>. SUFFICES ASSUME Init PROVE ExtendInv
  OBVIOUS
<1>1. budget.applied = {} /\ budget.extensions = 0 /\ budget.maxAttempts = MaxAttempts
  BY DEF Init, NoBudget
<1>. QED
  BY <1>1, FS_EmptySet, BudgetAssumption DEF ExtendInv, ExtendedOnce

-----------------------------------------------------------------------------
\* The theorems.

\* The invariant holds in every state.
LEMMA WorkInvariant == Spec => [](WorkInv /\ ExtendInv)
PROOF
<1>1. Init => WorkInv /\ ExtendInv
  BY WorkInit, ExtendInvInit
<1>2. (WorkInv /\ ExtendInv) /\ [Next]_vars => (WorkInv /\ ExtendInv)'
  BY WorkStep, ExtendInvStep
<1>. QED
  BY <1>1, <1>2, PTL DEF Spec

\* Types; nothing the budget counts or has reserved falls below zero, whatever upstreams
\* report, since it is the sum of what the attempts stand for (ExecutionBudget.TypeOK).
THEOREM TypeCorrect == Spec => []TypeOK
PROOF
<1>1. WorkInv /\ ExtendInv => TypeOK
  BY DEF WorkInv
<1>. QED
  BY <1>1, WorkInvariant, PTL

\* The counters of the budget and the records of its requests agree, for any number of
\* requests, executions and crashes (withExecutionBudget, saveAttemptUsage).
THEOREM EveryCallCounted == Spec => []CallsCounted
PROOF
<1>1. WorkInv /\ ExtendInv => CallsCounted
  BY CountsOfProperties DEF WorkInv
<1>. QED
  BY <1>1, WorkInvariant, PTL

\* What is reserved is what attempts without a known outcome stand for
\* (finish, saveAttemptUsage).
THEOREM EveryReservationBacked == Spec => []ReservationsBacked
PROOF
<1>1. WorkInv /\ ExtendInv => ReservationsBacked
  BY TotalsOfProperties DEF WorkInv, TotalsAgree
<1>. QED
  BY <1>1, WorkInvariant, PTL

\* A work spends no more than its budget allows, but for what single calls overran
\* (withExecutionBudget).
THEOREM NeverBeyondBudget == Spec => []SpendingWithinLimits
PROOF
<1>1. WorkInv /\ ExtendInv => SpendingWithinLimits
  BY TotalsOfProperties DEF WorkInv, WithinLimits
<1>. QED
  BY <1>1, WorkInvariant, PTL

\* Every extension counts once, whatever clients repeat (ExtendExecutionBudget).
THEOREM ExtensionsOnce == Spec => []ExtendedOnce
PROOF
<1>1. WorkInv /\ ExtendInv => ExtendedOnce
  BY DEF ExtendInv
<1>. QED
  BY <1>1, WorkInvariant, PTL

\* No late answer changes the record of a request that ended, nor anything at all once
\* another execution holds the lease (OwnsAttempt in finish).
THEOREM EndedRecordsFinal == Spec => EndedUsageIsFinal
PROOF
<1>1. ASSUME WorkInv, [Next]_vars, NEW p \in Requests, lease[p] = 0
      PROVE  attempts'[p] = attempts[p]
  <2>0. /\ \A e \in Executions : e # 0
        /\ attempts \in [Requests -> Seq(AttemptType)]
    BY <1>1, BudgetAssumption DEF WorkInv, TypeOK
  <2>1. ASSUME NEW r \in Requests, NEW e \in Executions, NEW reserve \in Reserves,
               Deny(r, e, reserve) \/ Start(r, e, reserve)
        PROVE  attempts'[p] = attempts[p]
    <3>1. CASE Deny(r, e, reserve)
      BY <3>1 DEF Deny
    <3>2. CASE Start(r, e, reserve)
      <4>1. p # r
        BY <1>1, <2>0, <3>2 DEF Start, Admissible
      <4>2. \E row : attempts' = [attempts EXCEPT ![r] = row]
        BY <3>2, Zenon DEF Start
      <4>. QED
        BY <2>0, <4>1, <4>2
    <3>. QED
      BY <2>1, <3>1, <3>2
  <2>2. ASSUME NEW r \in Requests, NEW e \in Executions, Finish(r, e)
        PROVE  attempts'[p] = attempts[p]
    <3>1. p # r
      BY <1>1, <2>0, <2>2 DEF Finish, OwnsAttempt
    <3>2. PICK i, a, o : FinishWrites(r, e, i, a, o)
      BY <1>1, <2>2, FinishEffect
    <3>3. attempts' = [attempts EXCEPT ![r][i] = Ended(a, o)]
      BY <3>2 DEF FinishWrites
    <3>. QED
      BY <2>0, <3>1, <3>3
  <2>3. ASSUME NEW r \in Requests, NEW e \in Executions, FinishTooLate(r, e) \/ Crash(r, e)
        PROVE  attempts' = attempts
    BY <2>3 DEF FinishTooLate, Crash
  <2>4. ASSUME NEW r \in Requests, TakeOver(r) \/ End(r) \/ Cancel(r)
        PROVE  attempts' = attempts
    BY <2>4 DEF TakeOver, End, Cancel
  <2>5. CASE ExtendStep
    BY <2>5 DEF ExtendStep, Extend, ExtendGroup
  <2>6. CASE UNCHANGED vars
    BY <2>6 DEF vars
  <2>7. CASE \E r \in Requests : RequestStep(r)
    BY <2>1, <2>2, <2>3, <2>4, <2>7 DEF RequestStep
  <2>. QED
    BY <1>1, <2>5, <2>6, <2>7 DEF Next
<1>2. ASSUME WorkInv, [Next]_vars, NEW p \in Requests, NEW f \in Executions,
             call[p][f] # 0, lease[p] # f, call'[p][f] = 0
      PROVE  UNCHANGED <<budget, attempts>>
  <2>0. call \in [Requests -> [Executions -> Nat]]
    BY <1>2 DEF WorkInv, TypeOK
  <2>1. ASSUME NEW r \in Requests, NEW e \in Executions, NEW n, n # 0 \/ p # r \/ f # e,
               call' = [call EXCEPT ![r][e] = n]
        PROVE  FALSE
    BY <1>2, <2>0, <2>1
  <2>2. ASSUME NEW r \in Requests, NEW e \in Executions, NEW reserve \in Reserves
        PROVE  ~Deny(r, e, reserve) /\ ~Start(r, e, reserve)
    <3>1. ~Deny(r, e, reserve)
      BY <1>2 DEF Deny
    <3>2. ASSUME Start(r, e, reserve)
          PROVE  FALSE
      <4>1. Len(attempts[r]) + 1 # 0
        <5>1. attempts[r] \in Seq(AttemptType)
          BY <1>2 DEF WorkInv, TypeOK
        <5>. QED
          BY <5>1
      <4>2. call' = [call EXCEPT ![r][e] = Len(attempts[r]) + 1]
        BY <3>2 DEF Start
      <4>. QED
        BY <2>1, <4>1, <4>2
    <3>. QED
      BY <3>1, <3>2
  <2>3. ASSUME NEW r \in Requests, NEW e \in Executions, Finish(r, e)
        PROVE  FALSE
    <3>1. lease[r] = e /\ call' = [call EXCEPT ![r][e] = 0]
      BY <2>3 DEF Finish, OwnsAttempt
    <3>2. p # r \/ f # e
      BY <1>2, <3>1
    <3>. QED
      BY <2>1, <3>1, <3>2
  <2>4. ASSUME NEW r \in Requests, NEW e \in Executions, FinishTooLate(r, e) \/ Crash(r, e)
        PROVE  UNCHANGED <<budget, attempts>>
    BY <2>4 DEF FinishTooLate, Crash
  <2>5. ASSUME NEW r \in Requests, TakeOver(r) \/ End(r) \/ Cancel(r)
        PROVE  UNCHANGED <<budget, attempts>>
    BY <2>5 DEF TakeOver, End, Cancel
  <2>6. ~ExtendStep
    BY <1>2 DEF ExtendStep, Extend, ExtendGroup
  <2>7. CASE UNCHANGED vars
    BY <2>7 DEF vars
  <2>8. CASE \E r \in Requests : RequestStep(r)
    BY <2>2, <2>3, <2>4, <2>5, <2>8 DEF RequestStep
  <2>. QED
    BY <1>2, <2>6, <2>7, <2>8 DEF Next
<1>. DEFINE Frozen ==
       \A r \in Requests :
         /\ lease[r] = 0 => attempts'[r] = attempts[r]
         /\ \A e \in Executions :
              call[r][e] # 0 /\ lease[r] # e /\ call'[r][e] = 0
                => UNCHANGED <<budget, attempts>>
<1>3. WorkInv /\ [Next]_vars => [Frozen]_vars
  BY <1>1, <1>2
<1>4. Spec => []WorkInv
  BY WorkInvariant, PTL
<1>. QED
  BY <1>3, <1>4, PTL DEF Spec, EndedUsageIsFinal
=============================================================================
