------------------------------ MODULE Credits ------------------------------
(***************************************************************************)
(* The funds of one user under the per-call-v2 billing policy: quota       *)
(* buckets, task authorizations (holds), requests and the ledger.          *)
(*                                                                         *)
(* Every transaction of the code that is an action here first locks the    *)
(* user's row (model.LockUser), so the transactions of one user are        *)
(* serial and no row is shared between users: one user and one action per  *)
(* transaction lose nothing.  Three operations take no lock.               *)
(* QuoteCapabilities reads prices and totals and then inserts: a quote     *)
(* made of older readings is a quote inserted earlier, and Confirm checks  *)
(* both again.  ExpireSubscriptions is one UPDATE of rows whose end has    *)
(* passed, which activeBuckets ignores anyway.  ChangePrice is one UPDATE  *)
(* of a row that the transactions read once.                               *)
(***************************************************************************)
EXTENDS Sums, Functions

CONSTANTS
    Buckets,        \* ids of rows of user_subscriptions, in creation order
    Tasks, Holds, Requests, Refunds, Capabilities,
    Granted,        \* buckets the user starts with: id -> [plan, total, ends]
    InitialPrices,  \* capability_prices at the start
    NewPrices,      \* (mode, credits) pairs an administrator may set
    CallCounts,     \* expected number of calls in a quote
    Totals,         \* maxTotal values a client may confirm
    LegacyAmounts,  \* amounts a legacy CreateHold may ask for
    RefundAmounts,  \* amounts an administrator may refund
    Grants,         \* [plan, amount, days] records of AdminGrant
    Extensions,     \* days of ExtendBucket
    Revocable,      \* buckets an administrator may revoke
    MaxBudget,      \* 1_000_000_000_000 in the code
    QuoteTTL, HoldTTL, PriceTTL, CacheTTL, BonusTTL,
    MaxNow, MaxVersion   \* bounds of the model: clock, price version

ASSUME RowsAssumption ==
    /\ Buckets \subseteq Nat
    /\ IsFiniteSet(Buckets) /\ IsFiniteSet(Holds)
    /\ IsFiniteSet(Requests) /\ IsFiniteSet(Refunds) /\ IsFiniteSet(Capabilities)
    /\ "none" \notin Tasks \cup Holds \cup Requests \cup Capabilities
ASSUME DurationsAssumption ==
    {QuoteTTL, HoldTTL, PriceTTL, CacheTTL, BonusTTL, MaxNow, MaxVersion} \subseteq Nat
ASSUME AmountsAssumption ==
    /\ MaxBudget \in Nat
    /\ Totals \subseteq 0 .. MaxBudget
    /\ LegacyAmounts \subseteq Nat \ {0}
    /\ RefundAmounts \subseteq Nat \ {0}
    /\ CallCounts \subseteq Nat
    /\ Extensions \subseteq Nat \ {0}
    /\ Revocable \subseteq Buckets

PlanTypes == {"base", "trial", "pack", "bonus"}
Price == [mode : {"included", "per_call"}, credits : Nat, version : Nat]

ASSUME GrantedAssumption ==
    /\ DOMAIN Granted \subseteq Buckets
    /\ \A b \in DOMAIN Granted :
         Granted[b] \in [plan : PlanTypes, total : Nat, ends : Nat]
    /\ Grants \subseteq [plan : PlanTypes, amount : Nat, days : Nat \ {0}]

\* ValidPrice of policy.go: included calls are free, per-call ones are not.
ValidPrice(p) == (p.mode = "included") <=> (p.credits = 0)

ASSUME PricesAssumption ==
    /\ InitialPrices \in [Capabilities -> Price]
    /\ \A c \in Capabilities : ValidPrice(InitialPrices[c])
    /\ NewPrices \subseteq [mode : {"included", "per_call"}, credits : Nat]

VARIABLES
    now,      \* the database clock
    price,    \* [Capabilities -> Price]
    bucket,   \* [Buckets -> row of user_subscriptions, "absent" before it is created]
    hold,     \* [Holds -> row of credit_holds]
    req,      \* [Requests -> row of ai_requests]
    debit,    \* [Requests -> [Buckets -> credits the ledger takes for that request]]
    refund    \* [Refunds -> rows of the ledger with that refund_id]

vars == <<now, price, bucket, hold, req, debit, refund>>

-----------------------------------------------------------------------------
\* Amounts per bucket.

Zero == [b \in Buckets |-> 0]
PosPart(x) == IF x > 0 THEN x ELSE 0
Least(x, y) == IF x < y THEN x ELSE y

\* Rows come back ordered by rank (ends_at); equal ranks in creation order.
Before(rank, b, c) == rank[b] < rank[c] \/ (rank[b] = rank[c] /\ b < c)

InOrder_BeyondOffer(offer, rank, amount) ==   \* mutant: a row may give more than it has
    { take \in [Buckets -> 0 .. amount] : Sum(take) = amount }

\* What the loops of allocate, ReserveRequest and Refund take: from each row
\* in turn as much as it offers, until amount is reached.  Empty when the
\* offers do not reach it, else a singleton.
InOrder(offer, rank, amount) ==
    { take \in [Buckets -> 0 .. amount] :
        /\ Sum(take) = amount
        /\ \A b \in Buckets : take[b] <= offer[b]
        /\ \A b, c \in Buckets :
             Before(rank, b, c) /\ take[c] > 0 => take[b] = offer[b] }

-----------------------------------------------------------------------------
\* The rows.

NoBucket == [status |-> "absent", plan |-> "pack", total |-> 0, used |-> 0, ends |-> 0]
NoHold == [status |-> "none", v2 |-> FALSE, task |-> "none", amount |-> 0, consumed |-> 0,
           alloc |-> Zero, rank |-> Zero, prices |-> InitialPrices,
           expires |-> 0, priceExpires |-> 0]
NoRequest == [status |-> "none", task |-> "none", cap |-> "none", mode |-> "included",
              auth |-> "none", unit |-> 0, reserved |-> 0, alloc |-> Zero,
              credits |-> 0, usable |-> TRUE, cacheExpires |-> 0]
NoRefund == [request |-> "none", amount |-> 0, split |-> Zero, back |-> {}]

\* starts_at is left out: every bucket starts when it is created.
NewBucket(plan, total, ends) ==
    [status |-> "active", plan |-> plan, total |-> total, used |-> 0, ends |-> ends]

Init ==
    /\ now = 0
    /\ price = InitialPrices
    /\ bucket = [b \in Buckets |->
                   IF b \in DOMAIN Granted
                   THEN NewBucket(Granted[b].plan, Granted[b].total, Granted[b].ends)
                   ELSE NoBucket]
    /\ hold = [h \in Holds |-> NoHold]
    /\ req = [r \in Requests |-> NoRequest]
    /\ debit = [r \in Requests |-> Zero]
    /\ refund = [f \in Refunds |-> NoRefund]

-----------------------------------------------------------------------------
\* What the code derives from the rows.

Active == {b \in Buckets : bucket[b].status = "active" /\ now < bucket[b].ends}
Remaining(b) == PosPart(bucket[b].total - bucket[b].used)
HasSubscription == \E b \in Active : bucket[b].plan \in {"base", "trial"}

OpenNow(h) == h.status = "open" /\ now < h.expires

LegacyReserved(hs) ==
    Sum([h \in Holds |-> IF ~hs[h].v2 /\ OpenNow(hs[h])
                        THEN PosPart(hs[h].amount - hs[h].consumed) ELSE 0])

HeldIn(hs, b) ==
    [h \in Holds |-> IF hs[h].v2 /\ OpenNow(hs[h]) THEN hs[h].alloc[b] ELSE 0]
AcceptedIn(b) ==
    [r \in Requests |-> IF req[r].reserved > 0 THEN req[r].alloc[b] ELSE 0]

Reserved_WithoutRequests(hs, b) ==   \* mutant: accepted requests are not counted
    Sum(HeldIn(hs, b))

\* reservedByBucket: live authorizations and accepted requests.
Reserved(hs, b) == Sum(HeldIn(hs, b)) + Sum(AcceptedIn(b))

Free_OfUnused(hs) ==   \* mutant: what others reserved counts as free
    [b \in Buckets |->
       IF b \in Active THEN PosPart(bucket[b].total - bucket[b].used) ELSE 0]

Free(hs) ==
    [b \in Buckets |->
       IF b \in Active THEN PosPart(bucket[b].total - bucket[b].used - Reserved(hs, b)) ELSE 0]

Ends == [b \in Buckets |-> bucket[b].ends]

Allocations_IgnoringLegacy(hs, amount) ==   \* mutant: legacy holds are not set aside
    InOrder(Free(hs), Ends, amount)

\* allocate: what legacy holds froze is set aside first, bucket by bucket.
Allocations(hs, amount) ==
    LET free == Free(hs)
    IN  UNION { InOrder([b \in Buckets |-> free[b] - kept[b]], Ends, amount) :
                  kept \in InOrder(free, Ends, Least(LegacyReserved(hs), Sum(free))) }

Charged(t) == Sum([r \in Requests |-> IF req[r].task = t THEN req[r].credits ELSE 0])
InFlight(t) == Sum([r \in Requests |-> IF req[r].task = t THEN req[r].reserved ELSE 0])
Returned_Never(r) == 0   \* mutant: earlier refunds are forgotten
Returned(r) == Sum([f \in Refunds |-> IF refund[f].request = r THEN refund[f].amount ELSE 0])

-----------------------------------------------------------------------------
\* Authorizations.

QuoteCapabilities(h, t, calls) ==
    LET amount == Charged(t) + InFlight(t)
                    + Sum([c \in Capabilities |-> calls[c] * price[c].credits])
    IN  /\ hold[h].status = "none"
        /\ amount \in 0 .. MaxBudget
        /\ hold' = [hold EXCEPT ![h] =
             [NoHold EXCEPT !.status = "quoted", !.v2 = TRUE, !.task = t, !.amount = amount,
                            !.prices = price, !.expires = now + QuoteTTL]]
        /\ UNCHANGED <<now, price, bucket, req, debit, refund>>

SettledForTask_OnlyV2(t) ==   \* mutant: a legacy hold stays open
    [i \in Holds |-> IF hold[i].task = t /\ hold[i].status = "open" /\ hold[i].v2
                     THEN [hold[i] EXCEPT !.status = "settled"] ELSE hold[i]]

\* The task's other open hold is settled before funds are allocated, so what it
\* still held is free again.  A confirmed quote may be confirmed again: that
\* only answers and is no step.
SettledForTask(t) ==
    [i \in Holds |-> IF hold[i].task = t /\ hold[i].status = "open"
                     THEN [hold[i] EXCEPT !.status = "settled"] ELSE hold[i]]

Confirm(h, maxTotal) ==
    LET t == hold[h].task
        hs == SettledForTask(t)
    IN  /\ hold[h].v2 /\ hold[h].status = "quoted" /\ now <= hold[h].expires
        /\ hold[h].prices = price
        /\ HasSubscription
        /\ maxTotal >= Charged(t) + InFlight(t) /\ maxTotal >= hold[h].amount
        /\ \E alloc \in Allocations(hs, maxTotal - Charged(t) - InFlight(t)) :
             hold' = [hs EXCEPT ![h] =
               [hs[h] EXCEPT !.status = "open", !.amount = maxTotal,
                             !.alloc = alloc, !.rank = Ends,
                             !.expires = now + HoldTTL, !.priceExpires = now + PriceTTL]]
        /\ UNCHANGED <<now, price, bucket, req, debit, refund>>

\* The legacy endpoint: an open hold of the task, of either kind, is returned as it is.
CreateHold(h, t, amount) ==
    /\ hold[h].status = "none"
    /\ \A i \in Holds : ~(hold[i].task = t /\ hold[i].status = "open")
    /\ Sum([b \in Active |-> Remaining(b)]) - LegacyReserved(hold)
         - Sum([b \in Active |-> Reserved(hold, b)]) >= amount
    /\ hold' = [hold EXCEPT ![h] =
         [NoHold EXCEPT !.status = "open", !.task = t, !.amount = amount,
                        !.expires = now + HoldTTL]]
    /\ UNCHANGED <<now, price, bucket, req, debit, refund>>

Heartbeat(h) ==
    /\ OpenNow(hold[h])
    /\ hold' = [hold EXCEPT ![h].expires = now + HoldTTL]
    /\ UNCHANGED <<now, price, bucket, req, debit, refund>>

Settle(h) ==
    /\ hold[h].status = "open"
    /\ hold' = [hold EXCEPT ![h].status = "settled"]
    /\ UNCHANGED <<now, price, bucket, req, debit, refund>>

\* One round of the minute job for one hold: its guard is evaluated again under
\* the lock, so the list read before does not matter.
ExpireHold(h) ==
    /\ hold[h].status = "open" /\ now >= hold[h].expires
    /\ hold' = [hold EXCEPT ![h].status = "expired"]
    /\ UNCHANGED <<now, price, bucket, req, debit, refund>>

-----------------------------------------------------------------------------
\* Requests: the transactions of the gateway that move funds.

\* The transaction of handleBillingV2 that accepts an included call.
AcceptIncluded(r, t, c) ==
    /\ req[r].status = "none"
    /\ price[c].mode = "included" /\ HasSubscription
    /\ req' = [req EXCEPT ![r] =
         [NoRequest EXCEPT !.status = "pending", !.task = t, !.cap = c]]
    /\ UNCHANGED <<now, price, bucket, hold, debit, refund>>

Left_All(offer, take) == offer   \* mutant: the authorization keeps what it gave
Left(offer, take) == [b \in Buckets |-> offer[b] - take[b]]

\* The same transaction with ReserveRequest in it: funds move from the
\* authorization to the request; what the authorization held in buckets that
\* are not active is given up.
AcceptPerCall(r, c, h) ==
    LET t == hold[h].task
        unit == hold[h].prices[c].credits
        offer == [b \in Buckets |-> IF b \in Active THEN hold[h].alloc[b] ELSE 0]
    IN  /\ req[r].status = "none"
        /\ price[c].mode = "per_call" /\ HasSubscription
        /\ hold[h].v2 /\ OpenNow(hold[h]) /\ now < hold[h].priceExpires
        /\ hold[h].prices[c].version = price[c].version /\ unit = price[c].credits
        /\ Charged(t) + InFlight(t) + unit <= hold[h].amount
        /\ \E take \in InOrder(offer, hold[h].rank, unit) :
             /\ hold' = [hold EXCEPT ![h].alloc = Left(offer, take)]
             /\ req' = [req EXCEPT ![r] =
                  [NoRequest EXCEPT !.status = "pending", !.task = t, !.cap = c,
                                    !.mode = "per_call", !.auth = h, !.unit = unit,
                                    !.reserved = unit, !.alloc = take]]
        /\ UNCHANGED <<now, price, bucket, debit, refund>>

\* ReleaseRequest: back to the authorization if it is still live, else just free.
HoldsAfterRelease(r) ==
    [h \in Holds |->
       IF req[r].reserved > 0 /\ h = req[r].auth /\ OpenNow(hold[h])
       THEN [hold[h] EXCEPT !.alloc =
               [b \in Buckets |-> hold[h].alloc[b] + req[r].alloc[b]]]
       ELSE hold[h]]

Released_KeepingFunds(r, status) ==   \* mutant: the reservation is not cleared
    /\ hold' = HoldsAfterRelease(r)
    /\ req' = [req EXCEPT ![r].status = status]
    /\ UNCHANGED <<now, price, bucket, debit, refund>>

Released(r, status) ==
    /\ hold' = HoldsAfterRelease(r)
    /\ req' = [req EXCEPT ![r].status = status, ![r].reserved = 0, ![r].alloc = Zero]
    /\ UNCHANGED <<now, price, bucket, debit, refund>>

\* The result is stored with its reason; a mapping without any column is free.
Persist(r) ==
    /\ req[r].status = "pending"
    /\ \E usable \in BOOLEAN :
         req' = [req EXCEPT ![r].status = "settlement_pending", ![r].usable = usable,
                            ![r].cacheExpires = now + CacheTTL]
    /\ UNCHANGED <<now, price, bucket, hold, debit, refund>>

FailV2_AnyState(r) == req[r].status # "none" /\ Released(r, "failed")   \* mutant: no state guard
FailV2(r) == req[r].status = "pending" /\ Released(r, "failed")

\* settleV2, its three outcomes.
SettleTooLate(r) ==
    /\ req[r].status = "settlement_pending" /\ now >= req[r].cacheExpires
    /\ Released(r, "failed")

IsFree(r) == ~req[r].usable \/ req[r].mode = "included"

SettleFree(r) ==
    /\ req[r].status = "settlement_pending" /\ now < req[r].cacheExpires
    /\ IsFree(r)
    /\ Released(r, "ok")

\* DebitReserved: a bucket that merely ended still pays, a revoked one does not
\* (the transaction fails and the request stays where it is).
SettleDebit(r) ==
    LET paid == req[r].alloc
    IN  /\ req[r].status = "settlement_pending" /\ now < req[r].cacheExpires
        /\ ~IsFree(r)
        /\ req[r].reserved = req[r].unit /\ Sum(paid) = req[r].unit
        /\ \A b \in Buckets : paid[b] > 0 =>
             bucket[b].status # "revoked" /\ bucket[b].total - bucket[b].used >= paid[b]
        /\ bucket' = [b \in Buckets |->
             [bucket[b] EXCEPT !.used = bucket[b].used + paid[b]]]
        /\ debit' = [debit EXCEPT ![r] = paid]
        /\ hold' = [hold EXCEPT ![req[r].auth].consumed = @ + req[r].unit]
        /\ req' = [req EXCEPT ![r].status = "ok", ![r].credits = req[r].unit,
                              ![r].reserved = 0, ![r].alloc = Zero]
        /\ UNCHANGED <<now, price, refund>>

GivenBack_All(b, share) == [bucket[b] EXCEPT !.used = 0]   \* mutant: an absolute write
GivenBack(b, share) == [bucket[b] EXCEPT !.used = bucket[b].used - share]

\* Refund: the debits of the request are consumed in ledger order, those already
\* returned skipped.  A share goes back to its bucket while that is live, else
\* into a new bonus bucket.  Repeating a refund_id only answers.
Refund(f, r, amount) ==
    LET rank == hold[req[r].auth].rank
    IN  /\ refund[f] = NoRefund
        /\ \E b \in Buckets : debit[r][b] > 0
        /\ amount <= Sum(debit[r]) - Returned(r)
        /\ \E skipped \in InOrder(debit[r], rank, Returned(r)),
              reached \in InOrder(debit[r], rank, Returned(r) + amount) :
             LET share == [b \in Buckets |-> PosPart(reached[b] - skipped[b])]
                 back == {b \in Active : share[b] > 0}
                 lost == {b \in Buckets \ Active : share[b] > 0}
             IN  /\ \A b \in back : bucket[b].used >= share[b]
                 /\ \E bonus \in Injection(lost, {b \in Buckets : bucket[b].status = "absent"}) :
                      bucket' = [b \in Buckets |->
                        IF b \in back THEN GivenBack(b, share[b])
                        ELSE IF \E l \in lost : bonus[l] = b
                        THEN NewBucket("bonus", share[CHOOSE l \in lost : bonus[l] = b],
                                       now + BonusTTL)
                        ELSE bucket[b]]
                 /\ refund' = [refund EXCEPT ![f] =
                      [request |-> r, amount |-> amount, split |-> share, back |-> back]]
        /\ UNCHANGED <<now, price, hold, req, debit>>

-----------------------------------------------------------------------------
\* Administration and time.

\* AdminGrant; its ledger row (+amount) is the creation itself.
AdminGrant(b, g) ==
    /\ bucket[b].status = "absent"
    /\ bucket' = [bucket EXCEPT ![b] = NewBucket(g.plan, g.amount, now + g.days)]
    /\ UNCHANGED <<now, price, hold, req, debit, refund>>

\* Bound of the model: no extension of a bucket that outlives the clock.
ExtendBucket(b, days) ==
    LET ends == bucket[b].ends + days
    IN  /\ bucket[b].status \in {"active", "expired"}
        /\ bucket[b].ends <= MaxNow
        /\ bucket' = [bucket EXCEPT ![b].ends = ends,
             ![b].status = IF bucket[b].status = "expired" /\ ends > now
                           THEN "active" ELSE bucket[b].status]
        /\ UNCHANGED <<now, price, hold, req, debit, refund>>

RevokeBucket(b) ==
    /\ bucket[b].status \in {"active", "expired"}
    /\ bucket' = [bucket EXCEPT ![b].status = "revoked"]
    /\ UNCHANGED <<now, price, hold, req, debit, refund>>

ExpireSubscriptions ==
    LET due == {b \in Buckets : bucket[b].status = "active" /\ bucket[b].ends <= now}
    IN  /\ due # {}
        /\ bucket' = [b \in Buckets |->
             IF b \in due THEN [bucket[b] EXCEPT !.status = "expired"] ELSE bucket[b]]
        /\ UNCHANGED <<now, price, hold, req, debit, refund>>

ChangePrice(c, p) ==
    /\ price[c].version < MaxVersion
    /\ ValidPrice(p)
    /\ price' = [price EXCEPT ![c] =
         [mode |-> p.mode, credits |-> p.credits, version |-> price[c].version + 1]]
    /\ UNCHANGED <<now, bucket, hold, req, debit, refund>>

Tick ==
    /\ now < MaxNow
    /\ now' = now + 1
    /\ UNCHANGED <<price, bucket, hold, req, debit, refund>>

-----------------------------------------------------------------------------
HoldStep(h) ==
    \/ \E t \in Tasks, calls \in [Capabilities -> CallCounts] : QuoteCapabilities(h, t, calls)
    \/ \E maxTotal \in Totals : Confirm(h, maxTotal)
    \/ \E t \in Tasks, amount \in LegacyAmounts : CreateHold(h, t, amount)
    \/ Heartbeat(h)
    \/ Settle(h)
    \/ ExpireHold(h)

RequestStep(r) ==
    \/ \E t \in Tasks, c \in Capabilities : AcceptIncluded(r, t, c)
    \/ \E c \in Capabilities, h \in Holds : AcceptPerCall(r, c, h)
    \/ Persist(r)
    \/ FailV2(r)
    \/ SettleTooLate(r)
    \/ SettleFree(r)
    \/ SettleDebit(r)

AdminStep ==
    \/ \E f \in Refunds, r \in Requests, amount \in RefundAmounts : Refund(f, r, amount)
    \/ \E b \in Buckets, g \in Grants : AdminGrant(b, g)
    \/ \E b \in Buckets, days \in Extensions : ExtendBucket(b, days)
    \/ \E b \in Revocable : RevokeBucket(b)
    \/ \E c \in Capabilities, p \in NewPrices : ChangePrice(c, p)

Next ==
    \/ \E h \in Holds : HoldStep(h)
    \/ \E r \in Requests : RequestStep(r)
    \/ AdminStep
    \/ ExpireSubscriptions
    \/ Tick

Spec == Init /\ [][Next]_vars

-----------------------------------------------------------------------------
\* Type invariant: every row keeps the shape of its table.
HoldType ==
    [status : {"none", "quoted", "open", "settled", "expired"}, v2 : BOOLEAN,
     task : Tasks \cup {"none"}, amount : Nat, consumed : Nat,
     alloc : [Buckets -> Nat], rank : [Buckets -> Nat],
     prices : [Capabilities -> Price], expires : Nat, priceExpires : Nat]

RequestType ==
    [status : {"none", "pending", "settlement_pending", "ok", "failed"},
     task : Tasks \cup {"none"}, cap : Capabilities \cup {"none"},
     mode : {"included", "per_call"}, auth : Holds \cup {"none"}, unit : Nat,
     reserved : Nat, alloc : [Buckets -> Nat], credits : Nat, usable : BOOLEAN,
     cacheExpires : Nat]

BucketType ==
    [status : {"absent", "active", "expired", "revoked"}, plan : PlanTypes,
     total : Nat, used : Nat, ends : Nat]

RefundType ==
    [request : Requests \cup {"none"}, amount : Nat, split : [Buckets -> Nat],
     back : SUBSET Buckets]

\* Every row of the six tables keeps its columns' types; no amount turns negative.
TypeOK ==
    /\ now \in Nat
    /\ price \in [Capabilities -> Price]
    /\ bucket \in [Buckets -> BucketType]
    /\ hold \in [Holds -> HoldType]
    /\ req \in [Requests -> RequestType]
    /\ debit \in [Requests -> [Buckets -> Nat]]
    /\ refund \in [Refunds -> RefundType]

\* No bucket is promised twice: what it has paid plus what live authorizations
\* and accepted requests reserve in it never exceeds what it was granted, whatever
\* expires, is renewed, extended, refunded or released in between (allocate,
\* ReserveRequest, ReleaseRequest, DebitReserved, Refund).
NoOvercommit ==
    \A b \in Buckets : bucket[b].used + Reserved(hold, b) <= bucket[b].total

\* An accepted request is always payable: DebitReserved can refuse a stored result
\* only because a bucket was revoked, never because another request, a refund or
\* the natural end of a bucket took the funds.
AcceptedIsPayable ==
    \A r \in Requests :
      req[r].reserved > 0 =>
        /\ req[r].reserved = req[r].unit
        /\ Sum(req[r].alloc) = req[r].unit
        /\ \A b \in Buckets :
             /\ req[r].alloc[b] > 0
             /\ bucket[b].status # "revoked"
             => bucket[b].total - bucket[b].used >= req[r].alloc[b]

\* The confirmed maximum is a limit on the task as a whole: what is spent, in
\* flight and still allocated to the open authorization never exceeds it, over
\* replaced authorizations, releases and refunds (Confirm, ReserveRequest).
WithinAuthorization ==
    \A h \in Holds :
      hold[h].v2 /\ hold[h].status = "open" =>
        Sum(hold[h].alloc) + Charged(hold[h].task) + InFlight(hold[h].task)
          <= hold[h].amount

\* The partial unique index on open holds is never hit: each path that opens a
\* hold has closed or found the task's other one, of either policy.
OneOpenHoldPerTask ==
    \A h, i \in Holds :
      /\ hold[h].status = "open"
      /\ hold[i].status = "open"
      /\ hold[h].task = hold[i].task
      => h = i

\* A request is charged once, in full and at the price its authorization quoted,
\* exactly when it ends "ok" with a result that costs; in every other state the
\* ledger takes nothing for it, and an ended request holds no funds.
ChargedExactly ==
    \A r \in Requests :
      /\ req[r].status = "ok" /\ ~IsFree(r) =>
           /\ req[r].credits = hold[req[r].auth].prices[req[r].cap].credits
           /\ Sum(debit[r]) = req[r].credits
           /\ req[r].credits > 0
      /\ ~(req[r].status = "ok" /\ ~IsFree(r)) =>
           req[r].credits = 0 /\ debit[r] = Zero
      /\ req[r].status \in {"none", "ok", "failed"} =>
           req[r].reserved = 0 /\ req[r].alloc = Zero

\* Refunds return no more of a debit than it took, bucket by bucket, however they
\* are split over several refunds (the skip order of Refund).
RefundedWithinDebit ==
    \A r \in Requests, b \in Buckets :
      Sum([f \in Refunds |-> IF refund[f].request = r THEN refund[f].split[b] ELSE 0])
        <= debit[r][b]

\* amount_used and the ledger agree for every bucket: debits minus the returns that
\* went back to it.  The two are written by separate statements of each transaction.
UsedMatchesLedger ==
    \A b \in Buckets :
      bucket[b].used =
        Sum([r \in Requests |-> debit[r][b]])
          - Sum([f \in Refunds |-> IF b \in refund[f].back THEN refund[f].split[b] ELSE 0])

\* The unassigned freeze of legacy holds stays covered by what is free in active
\* buckets: no step of the new policy spends it; only a bucket ending or being
\* revoked may uncover it ("旧在途任务的无分桶预占仍受保护").
Covered == LegacyReserved(hold) <= Sum(Free(hold))
LegacyStaysCovered == [][Covered /\ Active' = Active => Covered']_vars

\* Once spent, spent: what a task was charged never falls, so a refund never
\* reopens the budget of its authorization ("返还不重新打开自动消费预算"), and an
\* ended request never changes again.
SpendingIsFinal ==
    [][/\ \A t \in Tasks : Charged(t)' >= Charged(t)
       /\ \A r \in Requests : req[r].status \in {"ok", "failed"} => req'[r] = req[r]]_vars

=============================================================================
