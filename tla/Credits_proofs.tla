--------------------------- MODULE Credits_proofs ---------------------------
(***************************************************************************)
(* Theorems about Credits for every set of buckets, tasks, holds, requests *)
(* and refunds, every price list and every duration.                       *)
(***************************************************************************)
EXTENDS Credits, Sums_proofs, TLAPS

-----------------------------------------------------------------------------
\* What the loops take is a table of amounts within what is offered.
LEMMA InOrderTakes ==
    ASSUME NEW offer, NEW rank, NEW amount \in Int, NEW take \in InOrder(offer, rank, amount)
    PROVE  /\ take \in [Buckets -> Nat]
           /\ Sum(take) = amount
           /\ \A b \in Buckets : take[b] <= offer[b]
<1>1. take \in [Buckets -> 0 .. amount] /\ Sum(take) = amount
  BY DEF InOrder
<1>2. \A b \in Buckets : take[b] <= offer[b]
  BY DEF InOrder
<1>. QED
  BY <1>1, <1>2

\* allocate gives each bucket no more than is free in it.
LEMMA AllocationsTake ==
    ASSUME NEW hs, NEW amount \in Int, NEW alloc \in Allocations(hs, amount),
           Free(hs) \in [Buckets -> Nat]
    PROVE  /\ alloc \in [Buckets -> Nat]
           /\ Sum(alloc) = amount
           /\ \A b \in Buckets : alloc[b] <= Free(hs)[b]
<1>. DEFINE free == Free(hs)
            froze == Least(LegacyReserved(hs), Sum(free))
            offer(kept) == [b \in Buckets |-> free[b] - kept[b]]
<1>1. PICK kept \in InOrder(free, Ends, froze) : alloc \in InOrder(offer(kept), Ends, amount)
  BY Zenon DEF Allocations
<1>. HIDE DEF froze, free, offer
<1>2. alloc \in [Buckets -> Nat] /\ Sum(alloc) = amount
  BY <1>1, InOrderTakes
<1>3. \A b \in Buckets : alloc[b] <= offer(kept)[b]
  BY <1>1, InOrderTakes
<1>4. \A b \in Buckets : kept[b] \in Nat
  BY <1>1 DEF InOrder
<1>. QED
  BY <1>2, <1>3, <1>4 DEF offer, free

\* The tables that are summed over requests and refunds hold amounts.
LEMMA SumsOfRows ==
    ASSUME TypeOK
    PROVE  /\ \A t : Charged(t) \in Nat /\ InFlight(t) \in Nat
           /\ \A r : Returned(r) \in Nat
<1>1. \A t : [r \in Requests |-> IF req[r].task = t THEN req[r].credits ELSE 0]
               \in [Requests -> Nat]
  BY DEF TypeOK, RequestType
<1>2. \A t : [r \in Requests |-> IF req[r].task = t THEN req[r].reserved ELSE 0]
               \in [Requests -> Nat]
  BY DEF TypeOK, RequestType
<1>3. \A r : [f \in Refunds |-> IF refund[f].request = r THEN refund[f].amount ELSE 0]
               \in [Refunds -> Nat]
  BY DEF TypeOK, RefundType
<1>. QED
  BY <1>1, <1>2, <1>3, SumType, RowsAssumption, Zenon DEF Charged, InFlight, Returned

\* So are what is reserved in a bucket and what is free in it.
LEMMA ReservedType ==
    ASSUME TypeOK, NEW hs \in [Holds -> HoldType]
    PROVE  /\ \A b \in Buckets : /\ HeldIn(hs, b) \in [Holds -> Nat]
                                 /\ AcceptedIn(b) \in [Requests -> Nat]
                                 /\ Sum(HeldIn(hs, b)) \in Nat
                                 /\ Sum(AcceptedIn(b)) \in Nat
                                 /\ Reserved(hs, b) \in Nat
           /\ Free(hs) \in [Buckets -> Nat]
<1>1. \A b \in Buckets : HeldIn(hs, b) \in [Holds -> Nat]
  BY DEF HeldIn, HoldType
<1>2. \A b \in Buckets : AcceptedIn(b) \in [Requests -> Nat]
  BY DEF AcceptedIn, TypeOK, RequestType
<1>3. \A b \in Buckets : Sum(HeldIn(hs, b)) \in Nat /\ Sum(AcceptedIn(b)) \in Nat
  BY <1>1, <1>2, SumType, RowsAssumption, Zenon
<1>4. \A b \in Buckets : Reserved(hs, b) \in Nat
  BY <1>3 DEF Reserved
<1>5. Free(hs) \in [Buckets -> Nat]
  BY <1>4 DEF Free, PosPart, TypeOK, BucketType
<1>. QED
  BY <1>1, <1>2, <1>3, <1>4, <1>5

\* What Refund does to a bucket: nothing, a share given back to it, or it is the
\* bonus bucket made for the share of a bucket that is gone.
RefundedRow(b, share) ==
    \/ bucket'[b] = bucket[b]
    \/ /\ b \in Active /\ bucket[b].used >= share[b]
       /\ bucket'[b] = [bucket[b] EXCEPT !.used = bucket[b].used - share[b]]
    \/ /\ bucket[b].status = "absent"
       /\ \E l \in Buckets : bucket'[b] = NewBucket("bonus", share[l], now + BonusTTL)

\* Refund gives shares back or makes bonus buckets of them, and writes one ledger row.
LEMMA RefundEffect ==
    ASSUME TypeOK, NEW f \in Refunds, NEW r \in Requests, NEW amount \in RefundAmounts,
           Refund(f, r, amount)
    PROVE  \E share \in [Buckets -> Nat], back \in SUBSET Active :
             /\ \A b \in Buckets : RefundedRow(b, share)
             /\ bucket' = [b \in Buckets |-> bucket'[b]]
             /\ refund' = [refund EXCEPT ![f] =
                  [request |-> r, amount |-> amount, split |-> share, back |-> back]]
<1>. DEFINE rank == hold[req[r].auth].rank
            absent == {b \in Buckets : bucket[b].status = "absent"}
            Back(share) == {b \in Active : share[b] > 0}
            Lost(share) == {b \in Buckets \ Active : share[b] > 0}
            Rows(share, bonus) == [b \in Buckets |->
              IF b \in Back(share) THEN GivenBack(b, share[b])
              ELSE IF \E l \in Lost(share) : bonus[l] = b
              THEN NewBucket("bonus", share[CHOOSE l \in Lost(share) : bonus[l] = b],
                             now + BonusTTL)
              ELSE bucket[b]]
            Effect(share) ==
              /\ \A b \in Back(share) : bucket[b].used >= share[b]
              /\ \E bonus \in Injection(Lost(share), absent) : bucket' = Rows(share, bonus)
              /\ refund' = [refund EXCEPT ![f] =
                   [request |-> r, amount |-> amount, split |-> share, back |-> Back(share)]]
<1>1. PICK skipped \in InOrder(debit[r], rank, Returned(r)),
           reached \in InOrder(debit[r], rank, Returned(r) + amount) :
        Effect([b \in Buckets |-> PosPart(reached[b] - skipped[b])])
  BY Zenon DEF Refund
<1>2. [b \in Buckets |-> PosPart(reached[b] - skipped[b])] \in [Buckets -> Nat]
  <2>1. Returned(r) \in Int /\ amount \in Int
    BY SumsOfRows, AmountsAssumption
  <2>2. reached \in [Buckets -> Nat] /\ skipped \in [Buckets -> Nat]
    BY <2>1, InOrderTakes
  <2>. QED
    BY <2>2 DEF PosPart
<1>. HIDE DEF Effect
<1>3. PICK share \in [Buckets -> Nat] : Effect(share)
  BY <1>1, <1>2
<1>4. PICK bonus \in Injection(Lost(share), absent) : bucket' = Rows(share, bonus)
  BY <1>3 DEF Effect
<1>5. ASSUME NEW b \in Buckets
      PROVE  RefundedRow(b, share)
  <2>1. CASE b \in Back(share)
    BY <1>3, <1>4, <2>1 DEF Effect, RefundedRow, GivenBack
  <2>2. CASE b \notin Back(share) /\ \E l \in Lost(share) : bonus[l] = b
    <3>. DEFINE l == CHOOSE l \in Lost(share) : bonus[l] = b
    <3>1. l \in Buckets
      BY <2>2
    <3>2. bucket[b].status = "absent"
      BY <2>2 DEF Injection
    <3>3. bucket'[b] = NewBucket("bonus", share[l], now + BonusTTL)
      BY <1>4, <2>2
    <3>. QED
      BY <3>1, <3>2, <3>3 DEF RefundedRow
  <2>3. CASE b \notin Back(share) /\ ~\E l \in Lost(share) : bonus[l] = b
    BY <1>4, <2>3 DEF RefundedRow
  <2>. QED
    BY <2>1, <2>2, <2>3
<1>6. bucket' = [b \in Buckets |-> bucket'[b]]
  BY <1>4
<1>7. Back(share) \in SUBSET Active
  OBVIOUS
<1>. QED
  BY <1>3, <1>5, <1>6, <1>7 DEF Effect

-----------------------------------------------------------------------------
\* Type correctness.

\* The rows the store starts with have their types.
LEMMA TypeInit == Init => TypeOK
<1>. SUFFICES ASSUME Init PROVE TypeOK
  OBVIOUS
<1>1. now \in Nat /\ price \in [Capabilities -> Price]
  BY PricesAssumption DEF Init
<1>2. bucket \in [Buckets -> BucketType]
  BY GrantedAssumption DEF Init, BucketType, NoBucket, NewBucket, PlanTypes
<1>3. NoHold \in HoldType
  BY PricesAssumption DEF NoHold, HoldType, Zero
<1>4. NoRequest \in RequestType
  BY DEF NoRequest, RequestType, Zero
<1>5. NoRefund \in RefundType
  BY DEF NoRefund, RefundType, Zero
<1>6. Zero \in [Buckets -> Nat]
  BY DEF Zero
<1>. QED
  BY <1>1, <1>2, <1>3, <1>4, <1>5, <1>6, Zenon DEF Init, TypeOK

\* What a release leaves in the holds are holds.
LEMMA HoldsAfterReleaseType ==
    ASSUME TypeOK, NEW r \in Requests
    PROVE  HoldsAfterRelease(r) \in [Holds -> HoldType]
<1>1. req[r].alloc \in [Buckets -> Nat]
  BY DEF TypeOK, RequestType
<1>2. ASSUME NEW h \in Holds
      PROVE  [hold[h] EXCEPT !.alloc = [b \in Buckets |-> hold[h].alloc[b] + req[r].alloc[b]]]
               \in HoldType
  <2>1. hold[h] \in HoldType
    BY DEF TypeOK
  <2>2. [b \in Buckets |-> hold[h].alloc[b] + req[r].alloc[b]] \in [Buckets -> Nat]
    BY <1>1, <2>1 DEF HoldType
  <2>. QED
    BY <2>1, <2>2 DEF HoldType
<1>. QED
  BY <1>2 DEF TypeOK, HoldsAfterRelease

\* FailV2 and the two outcomes of settleV2 without a charge keep the types.
LEMMA TypeReleased ==
    ASSUME TypeOK, NEW r \in Requests, NEW s \in {"ok", "failed"}, Released(r, s)
    PROVE  TypeOK'
<1>1. hold' \in [Holds -> HoldType]
  BY HoldsAfterReleaseType, Zenon DEF Released
<1>2. [req[r] EXCEPT !.status = s, !.reserved = 0, !.alloc = Zero] \in RequestType
  <2>1. req[r] \in RequestType /\ Zero \in [Buckets -> Nat]
    BY DEF TypeOK, Zero
  <2>. QED
    BY <2>1 DEF RequestType
<1>3. req' \in [Requests -> RequestType]
  BY <1>2 DEF Released, TypeOK
<1>. QED
  BY <1>1, <1>3 DEF Released, TypeOK

\* Settling the other hold of a task leaves holds.
LEMMA SettledType ==
    ASSUME TypeOK, NEW t
    PROVE  SettledForTask(t) \in [Holds -> HoldType]
<1>1. \A i \in Holds : [hold[i] EXCEPT !.status = "settled"] \in HoldType
  <2>1. \A i \in Holds : hold[i] \in HoldType
    BY DEF TypeOK
  <2>. QED
    BY <2>1 DEF HoldType
<1>. QED
  BY <1>1 DEF SettledForTask, TypeOK

\* So do the operations on a hold, one by one.
LEMMA TypeHoldStep ==
    ASSUME TypeOK, NEW h \in Holds, HoldStep(h)
    PROVE  TypeOK'
<1>0. hold[h] \in HoldType /\ Zero \in [Buckets -> Nat] /\ now \in Nat
  BY DEF TypeOK, Zero
<1>1. ASSUME NEW t \in Tasks, NEW calls \in [Capabilities -> CallCounts],
             QuoteCapabilities(h, t, calls)
      PROVE  TypeOK'
  <2>1. PICK amount \in 0 .. MaxBudget :
          hold' = [hold EXCEPT ![h] =
             [NoHold EXCEPT !.status = "quoted", !.v2 = TRUE, !.task = t, !.amount = amount,
                            !.prices = price, !.expires = now + QuoteTTL]]
    BY <1>1 DEF QuoteCapabilities
  <2>2. [NoHold EXCEPT !.status = "quoted", !.v2 = TRUE, !.task = t, !.amount = amount,
                       !.prices = price, !.expires = now + QuoteTTL] \in HoldType
    <3>1. amount \in Nat /\ now + QuoteTTL \in Nat /\ price \in [Capabilities -> Price]
      BY AmountsAssumption, DurationsAssumption DEF TypeOK
    <3>. QED
      BY <1>0, <3>1 DEF NoHold, HoldType
  <2>. QED
    BY <1>1, <2>1, <2>2 DEF QuoteCapabilities, TypeOK
<1>2. ASSUME NEW maxTotal \in Totals, Confirm(h, maxTotal)
      PROVE  TypeOK'
  <2>. DEFINE t == hold[h].task
              hs == SettledForTask(t)
              amount == maxTotal - Charged(t) - InFlight(t)
  <2>1. hs \in [Holds -> HoldType]
    BY SettledType
  <2>2. maxTotal \in Nat /\ amount \in Int
    BY SumsOfRows, AmountsAssumption
  <2>3. Ends \in [Buckets -> Nat]
    BY DEF Ends, TypeOK, BucketType
  <2>. HIDE DEF hs, amount
  <2>4. \A alloc \in Allocations(hs, amount) : alloc \in [Buckets -> Nat]
    <3>1. Free(hs) \in [Buckets -> Nat]
      BY <2>1, ReservedType, Zenon DEF hs
    <3>. QED
      BY <2>2, <3>1, AllocationsTake, Zenon
  <2>5. PICK alloc \in [Buckets -> Nat] :
            hold' = [hs EXCEPT ![h] =
                [hs[h] EXCEPT !.status = "open", !.amount = maxTotal,
                              !.alloc = alloc, !.rank = Ends,
                              !.expires = now + HoldTTL,
                              !.priceExpires = now + PriceTTL]]
    BY <1>2, <2>4, Zenon DEF Confirm, hs, amount
  <2>6. [hs[h] EXCEPT !.status = "open", !.amount = maxTotal, !.alloc = alloc, !.rank = Ends,
                      !.expires = now + HoldTTL, !.priceExpires = now + PriceTTL] \in HoldType
    <3>1. hs[h] \in HoldType /\ now + HoldTTL \in Nat /\ now + PriceTTL \in Nat
      BY <2>1, DurationsAssumption DEF TypeOK
    <3>. QED
      BY <2>2, <2>3, <3>1 DEF HoldType
  <2>. QED
    BY <1>2, <2>1, <2>5, <2>6 DEF Confirm, TypeOK
<1>3. ASSUME NEW t \in Tasks, NEW amount \in LegacyAmounts, CreateHold(h, t, amount)
      PROVE  TypeOK'
  <2>1. [NoHold EXCEPT !.status = "open", !.task = t, !.amount = amount,
                       !.expires = now + HoldTTL] \in HoldType
    <3>1. amount \in Nat /\ now + HoldTTL \in Nat /\ InitialPrices \in [Capabilities -> Price]
      BY AmountsAssumption, DurationsAssumption, PricesAssumption DEF TypeOK
    <3>. QED
      BY <1>0, <3>1 DEF NoHold, HoldType
  <2>. QED
    BY <1>3, <2>1 DEF CreateHold, TypeOK
<1>4. CASE Heartbeat(h)
  <2>1. [hold[h] EXCEPT !.expires = now + HoldTTL] \in HoldType
    <3>1. now + HoldTTL \in Nat
      BY DurationsAssumption DEF TypeOK
    <3>. QED
      BY <1>0, <3>1 DEF HoldType
  <2>. QED
    BY <1>4, <2>1 DEF Heartbeat, TypeOK
<1>5. \A s \in {"settled", "expired"} : [hold[h] EXCEPT !.status = s] \in HoldType
  BY <1>0 DEF HoldType
<1>6. CASE Settle(h)
  BY <1>5, <1>6 DEF Settle, TypeOK
<1>7. CASE ExpireHold(h)
  BY <1>5, <1>7 DEF ExpireHold, TypeOK
<1>. QED
  BY <1>1, <1>2, <1>3, <1>4, <1>6, <1>7 DEF HoldStep

\* And the transactions of the gateway.
LEMMA TypeRequestStep ==
    ASSUME TypeOK, NEW r \in Requests, RequestStep(r)
    PROVE  TypeOK'
<1>0. req[r] \in RequestType /\ Zero \in [Buckets -> Nat] /\ now \in Nat
  BY DEF TypeOK, Zero
<1>1. ASSUME NEW t \in Tasks, NEW c \in Capabilities, AcceptIncluded(r, t, c)
      PROVE  TypeOK'
  <2>1. [NoRequest EXCEPT !.status = "pending", !.task = t, !.cap = c] \in RequestType
    BY <1>0 DEF NoRequest, RequestType
  <2>. QED
    BY <1>1, <2>1 DEF AcceptIncluded, TypeOK
<1>2. ASSUME NEW c \in Capabilities, NEW h \in Holds, AcceptPerCall(r, c, h)
      PROVE  TypeOK'
  <2>. DEFINE unit == hold[h].prices[c].credits
              offer == [b \in Buckets |-> IF b \in Active THEN hold[h].alloc[b] ELSE 0]
              new(take) == [NoRequest EXCEPT !.status = "pending", !.task = hold[h].task,
                                 !.cap = c, !.mode = "per_call", !.auth = h, !.unit = unit,
                                 !.reserved = unit, !.alloc = take]
  <2>1. unit \in Nat /\ offer \in [Buckets -> Nat]
    BY DEF TypeOK, HoldType, Price
  <2>2. PICK take \in InOrder(offer, hold[h].rank, unit) :
          /\ hold' = [hold EXCEPT ![h].alloc = Left(offer, take)]
          /\ req' = [req EXCEPT ![r] = new(take)]
    BY <1>2, Zenon DEF AcceptPerCall
  <2>. HIDE DEF unit, offer
  <2>3. take \in [Buckets -> Nat] /\ \A b \in Buckets : take[b] <= offer[b]
    BY <2>1, InOrderTakes
  <2>4. Left(offer, take) \in [Buckets -> Nat]
    BY <2>1, <2>3 DEF Left
  <2>5. [hold[h] EXCEPT !.alloc = Left(offer, take)] \in HoldType
    <3>1. hold[h] \in HoldType
      BY DEF TypeOK
    <3>. QED
      BY <2>4, <3>1 DEF HoldType
  <2>6. new(take) \in RequestType
    <3>1. hold[h].task \in Tasks \cup {"none"}
      BY DEF TypeOK, HoldType
    <3>. QED
      BY <1>0, <2>1, <2>3, <3>1 DEF NoRequest, RequestType
  <2>. HIDE DEF new
  <2>. QED
    BY <1>2, <2>2, <2>5, <2>6 DEF AcceptPerCall, TypeOK
<1>3. CASE Persist(r)
  <2>1. \A u \in BOOLEAN : [req[r] EXCEPT !.status = "settlement_pending", !.usable = u,
                                          !.cacheExpires = now + CacheTTL] \in RequestType
    <3>1. now + CacheTTL \in Nat
      BY <1>0, DurationsAssumption
    <3>. QED
      BY <1>0, <3>1 DEF RequestType
  <2>. QED
    BY <1>3, <2>1 DEF Persist, TypeOK
<1>4. CASE FailV2(r)
  BY <1>4, TypeReleased DEF FailV2
<1>5. CASE SettleTooLate(r)
  BY <1>5, TypeReleased DEF SettleTooLate
<1>6. CASE SettleFree(r)
  BY <1>6, TypeReleased DEF SettleFree
<1>7. CASE SettleDebit(r)
  <2>1. req[r].alloc \in [Buckets -> Nat] /\ req[r].unit \in Nat
    BY <1>0 DEF RequestType
  <2>2. bucket' \in [Buckets -> BucketType]
    <3>1. \A b \in Buckets :
            [bucket[b] EXCEPT !.used = bucket[b].used + req[r].alloc[b]] \in BucketType
      <4>1. \A b \in Buckets : bucket[b] \in BucketType /\ bucket[b].used + req[r].alloc[b] \in Nat
        BY <2>1 DEF TypeOK, BucketType
      <4>. QED BY <4>1 DEF BucketType
    <3>. QED
      BY <1>7, <3>1 DEF SettleDebit
  <2>3. debit' \in [Requests -> [Buckets -> Nat]]
    BY <1>7, <2>1 DEF SettleDebit, TypeOK
  <2>4. hold' \in [Holds -> HoldType]
    <3>1. \A h \in Holds : [hold[h] EXCEPT !.consumed = @ + req[r].unit] \in HoldType
      <4>1. \A h \in Holds : hold[h] \in HoldType /\ hold[h].consumed + req[r].unit \in Nat
        BY <2>1 DEF TypeOK, HoldType
      <4>. QED BY <4>1 DEF HoldType
    <3>. QED
      BY <1>7, <3>1 DEF SettleDebit, TypeOK
  <2>5. req' \in [Requests -> RequestType]
    <3>1. [req[r] EXCEPT !.status = "ok", !.credits = req[r].unit,
                         !.reserved = 0, !.alloc = Zero] \in RequestType
      BY <1>0, <2>1 DEF RequestType
    <3>. QED
      BY <1>7, <3>1 DEF SettleDebit, TypeOK
  <2>. QED
    BY <1>7, <2>2, <2>3, <2>4, <2>5 DEF SettleDebit, TypeOK
<1>. QED
  BY <1>1, <1>2, <1>3, <1>4, <1>5, <1>6, <1>7 DEF RequestStep

\* And refunds and administration.
LEMMA TypeAdminStep ==
    ASSUME TypeOK, AdminStep
    PROVE  TypeOK'
<1>1. ASSUME NEW f \in Refunds, NEW r \in Requests, NEW amount \in RefundAmounts,
             Refund(f, r, amount)
      PROVE  TypeOK'
  <2>1. PICK share \in [Buckets -> Nat], back \in SUBSET Active :
          /\ \A b \in Buckets : RefundedRow(b, share)
          /\ bucket' = [b \in Buckets |-> bucket'[b]]
          /\ refund' = [refund EXCEPT ![f] =
               [request |-> r, amount |-> amount, split |-> share, back |-> back]]
    BY <1>1, RefundEffect
  <2>2. ASSUME NEW b \in Buckets
        PROVE  bucket'[b] \in BucketType
    <3>1. bucket[b] \in BucketType /\ now + BonusTTL \in Nat
      BY DurationsAssumption DEF TypeOK
    <3>2. CASE /\ bucket[b].used >= share[b]
               /\ bucket'[b] = [bucket[b] EXCEPT !.used = bucket[b].used - share[b]]
      <4>1. bucket[b].used - share[b] \in Nat
        BY <3>1, <3>2 DEF BucketType
      <4>. QED
        BY <3>1, <3>2, <4>1 DEF BucketType
    <3>3. ASSUME NEW l \in Buckets, bucket'[b] = NewBucket("bonus", share[l], now + BonusTTL)
          PROVE  bucket'[b] \in BucketType
      BY <3>1, <3>3 DEF NewBucket, BucketType, PlanTypes
    <3>. QED
      BY <2>1, <3>1, <3>2, <3>3 DEF RefundedRow
  <2>3. bucket' \in [Buckets -> BucketType]
    BY <2>1, <2>2
  <2>4. [request |-> r, amount |-> amount, split |-> share, back |-> back] \in RefundType
    BY AmountsAssumption DEF Active, RefundType
  <2>. QED
    BY <1>1, <2>1, <2>3, <2>4 DEF Refund, TypeOK
<1>2. ASSUME NEW b \in Buckets, NEW g \in Grants, AdminGrant(b, g)
      PROVE  TypeOK'
  <2>1. NewBucket(g.plan, g.amount, now + g.days) \in BucketType
    BY GrantedAssumption DEF NewBucket, BucketType, PlanTypes, TypeOK
  <2>. QED
    BY <1>2, <2>1 DEF AdminGrant, TypeOK
<1>3. ASSUME NEW b \in Buckets, NEW days \in Extensions, ExtendBucket(b, days)
      PROVE  TypeOK'
  <2>1. bucket[b] \in BucketType /\ bucket[b].ends + days \in Nat
    BY AmountsAssumption DEF TypeOK, BucketType
  <2>2. \A s \in {"active", "expired"} :
          [bucket[b] EXCEPT !.ends = bucket[b].ends + days, !.status = s] \in BucketType
    BY <2>1 DEF BucketType
  <2>. QED
    BY <1>3, <2>1, <2>2 DEF ExtendBucket, TypeOK
<1>4. ASSUME NEW b \in Revocable, RevokeBucket(b)
      PROVE  TypeOK'
  <2>1. b \in Buckets
    BY AmountsAssumption
  <2>2. [bucket[b] EXCEPT !.status = "revoked"] \in BucketType
    BY <2>1 DEF TypeOK, BucketType
  <2>. QED
    BY <1>4, <2>1, <2>2 DEF RevokeBucket, TypeOK
<1>5. ASSUME NEW c \in Capabilities, NEW p \in NewPrices, ChangePrice(c, p)
      PROVE  TypeOK'
  <2>1. [mode |-> p.mode, credits |-> p.credits, version |-> price[c].version + 1] \in Price
    BY PricesAssumption DEF TypeOK, Price
  <2>. QED
    BY <1>5, <2>1 DEF ChangePrice, TypeOK
<1>. QED
  BY <1>1, <1>2, <1>3, <1>4, <1>5 DEF AdminStep

\* Every step keeps the types.
LEMMA TypeStep == TypeOK /\ [Next]_vars => TypeOK'
<1>. SUFFICES ASSUME TypeOK, [Next]_vars PROVE TypeOK'
  OBVIOUS
<1>1. CASE \E h \in Holds : HoldStep(h)
  BY <1>1, TypeHoldStep
<1>2. CASE \E r \in Requests : RequestStep(r)
  BY <1>2, TypeRequestStep
<1>3. CASE AdminStep
  BY <1>3, TypeAdminStep
<1>4. CASE ExpireSubscriptions
  <2>1. \A b \in Buckets : [bucket[b] EXCEPT !.status = "expired"] \in BucketType
    <3>1. \A b \in Buckets : bucket[b] \in BucketType
      BY DEF TypeOK
    <3>. QED BY <3>1 DEF BucketType
  <2>. QED
    BY <1>4, <2>1 DEF ExpireSubscriptions, TypeOK
<1>5. CASE Tick
  BY <1>5 DEF Tick, TypeOK
<1>6. CASE UNCHANGED vars
  BY <1>6 DEF vars, TypeOK
<1>. QED
  BY <1>1, <1>2, <1>3, <1>4, <1>5, <1>6 DEF Next

\* Every row of the six tables keeps its columns' types, and no amount is ever
\* negative: the guards of Confirm, ReserveRequest and Refund are enough for that.
THEOREM TypeCorrect == Spec => []TypeOK
  BY TypeInit, TypeStep, PTL DEF Spec

-----------------------------------------------------------------------------
\* No bucket is promised twice.

\* One bucket's part of NoOvercommit.
Fits(b) == bucket[b].used + Reserved(hold, b) <= bucket[b].total

\* A row that was never created holds nothing: AdminGrant and Refund create buckets
\* nothing can be reserved in yet.
UncreatedIsEmpty == \A b \in Buckets : bucket[b].status = "absent" => bucket[b] = NoBucket

FundsInv == TypeOK /\ UncreatedIsEmpty /\ NoOvercommit

\* The types of the tables after a step.
LEMMA ReservedTypeNext ==
    ASSUME TypeOK', NEW b \in Buckets
    PROVE  /\ HeldIn(hold, b)' \in [Holds -> Nat]
           /\ AcceptedIn(b)' \in [Requests -> Nat]
           /\ Sum(HeldIn(hold, b)') \in Nat
           /\ Sum(AcceptedIn(b)') \in Nat
           /\ Reserved(hold, b)' = Sum(HeldIn(hold, b)') + Sum(AcceptedIn(b)')
<1>1. HeldIn(hold, b)' \in [Holds -> Nat]
  BY DEF HeldIn, HoldType, TypeOK
<1>2. AcceptedIn(b)' \in [Requests -> Nat]
  BY DEF AcceptedIn, TypeOK, RequestType
<1>3. Sum(HeldIn(hold, b)') \in Nat /\ Sum(AcceptedIn(b)') \in Nat
  BY <1>1, <1>2, SumType, RowsAssumption, Zenon
<1>. QED
  BY <1>1, <1>2, <1>3 DEF Reserved

\* What a step leaves for new reservations in a bucket is no less than before it.
Headroom(b) == bucket[b].total - bucket[b].used - Reserved(hold, b)
HeadroomKept(b) == Headroom(b)' >= Headroom(b)

\* A bucket that fitted and keeps its headroom still fits.
LEMMA HeadroomFits ==
    ASSUME TypeOK, TypeOK', NEW b \in Buckets, Fits(b), HeadroomKept(b)
    PROVE  Fits(b)'
<1>1. Reserved(hold, b) \in Nat
  BY ReservedType DEF TypeOK
<1>2. Reserved(hold, b)' \in Nat
  <2>1. /\ Sum(HeldIn(hold, b)') \in Nat /\ Sum(AcceptedIn(b)') \in Nat
        /\ Reserved(hold, b)' = Sum(HeldIn(hold, b)') + Sum(AcceptedIn(b)')
    BY ReservedTypeNext, Zenon
  <2>. QED
    BY <2>1
<1>3. /\ bucket[b].used \in Nat /\ bucket[b].total \in Nat
      /\ bucket'[b].used \in Nat /\ bucket'[b].total \in Nat
  BY DEF TypeOK, BucketType
<1>. QED
  BY <1>1, <1>2, <1>3 DEF Fits, HeadroomKept, Headroom

\* A step under which nobody reserves more in a bucket and the bucket pays no more.
LEMMA NothingMoreReserved ==
    ASSUME TypeOK, TypeOK', NEW b \in Buckets,
           \A h \in Holds : HeldIn(hold, b)'[h] <= HeldIn(hold, b)[h],
           \A r \in Requests : AcceptedIn(b)'[r] <= AcceptedIn(b)[r],
           bucket'[b].used <= bucket[b].used,
           bucket'[b].total >= bucket[b].total
    PROVE  HeadroomKept(b)
<1>1. /\ HeldIn(hold, b) \in [Holds -> Nat] /\ AcceptedIn(b) \in [Requests -> Nat]
      /\ Sum(HeldIn(hold, b)) \in Nat /\ Sum(AcceptedIn(b)) \in Nat
  BY ReservedType, Zenon DEF TypeOK
<1>2. /\ HeldIn(hold, b)' \in [Holds -> Nat] /\ AcceptedIn(b)' \in [Requests -> Nat]
      /\ Sum(HeldIn(hold, b)') \in Nat /\ Sum(AcceptedIn(b)') \in Nat
      /\ Reserved(hold, b)' = Sum(HeldIn(hold, b)') + Sum(AcceptedIn(b)')
  BY ReservedTypeNext, Zenon
<1>3. Sum(HeldIn(hold, b)') <= Sum(HeldIn(hold, b))
  BY <1>1, <1>2, SumMonotone, RowsAssumption, Zenon
<1>4. Sum(AcceptedIn(b)') <= Sum(AcceptedIn(b))
  BY <1>1, <1>2, SumMonotone, RowsAssumption, Zenon
<1>5. /\ bucket[b].used \in Nat /\ bucket[b].total \in Nat
      /\ bucket'[b].used \in Nat /\ bucket'[b].total \in Nat
  BY DEF TypeOK, BucketType
<1>. QED
  BY <1>1, <1>2, <1>3, <1>4, <1>5 DEF HeadroomKept, Headroom, Reserved

\* Funds of one hold and one request change, in a bucket that is left alone or pays.
LEMMA FundsMoved ==
    ASSUME TypeOK, TypeOK', NEW b \in Buckets,
           NEW h \in Holds, NEW r \in Requests,
           \A i \in Holds : i # h => HeldIn(hold, b)'[i] = HeldIn(hold, b)[i],
           \A i \in Requests : i # r => AcceptedIn(b)'[i] = AcceptedIn(b)[i],
           bucket'[b].total = bucket[b].total,
           bucket'[b].used + HeldIn(hold, b)'[h] + AcceptedIn(b)'[r]
             <= bucket[b].used + HeldIn(hold, b)[h] + AcceptedIn(b)[r]
    PROVE  HeadroomKept(b)
<1>1. /\ HeldIn(hold, b) \in [Holds -> Nat] /\ AcceptedIn(b) \in [Requests -> Nat]
      /\ Sum(HeldIn(hold, b)) \in Nat /\ Sum(AcceptedIn(b)) \in Nat
  BY ReservedType, Zenon DEF TypeOK
<1>2. /\ HeldIn(hold, b)' \in [Holds -> Nat] /\ AcceptedIn(b)' \in [Requests -> Nat]
      /\ Sum(HeldIn(hold, b)') \in Nat /\ Sum(AcceptedIn(b)') \in Nat
      /\ Reserved(hold, b)' = Sum(HeldIn(hold, b)') + Sum(AcceptedIn(b)')
  BY ReservedTypeNext, Zenon
<1>3. Sum(HeldIn(hold, b)') + HeldIn(hold, b)[h] = Sum(HeldIn(hold, b)) + HeldIn(hold, b)'[h]
  BY <1>1, <1>2, SumChange, RowsAssumption
<1>4. Sum(AcceptedIn(b)') + AcceptedIn(b)[r] = Sum(AcceptedIn(b)) + AcceptedIn(b)'[r]
  BY <1>1, <1>2, SumChange, RowsAssumption
<1>5. /\ bucket[b].used \in Nat /\ bucket[b].total \in Nat /\ bucket'[b].used \in Nat
      /\ HeldIn(hold, b)[h] \in Nat /\ HeldIn(hold, b)'[h] \in Nat
      /\ AcceptedIn(b)[r] \in Nat /\ AcceptedIn(b)'[r] \in Nat
  BY <1>1, <1>2 DEF TypeOK, BucketType
<1>. QED
  BY <1>1, <1>2, <1>3, <1>4, <1>5 DEF HeadroomKept, Headroom, Reserved

\* Nothing is reserved at first.
LEMMA FundsInit == Init => FundsInv
<1>. SUFFICES ASSUME Init PROVE FundsInv
  OBVIOUS
<1>1. TypeOK
  BY TypeInit
<1>2. UncreatedIsEmpty
  BY DEF Init, UncreatedIsEmpty, NewBucket
<1>3. ASSUME NEW b \in Buckets PROVE bucket[b].used + Reserved(hold, b) <= bucket[b].total
  <2>1. HeldIn(hold, b) \in [Holds -> Nat] /\ AcceptedIn(b) \in [Requests -> Nat]
    BY <1>1, ReservedType, Zenon DEF TypeOK
  <2>2. \A h \in Holds : HeldIn(hold, b)[h] = 0
    BY DEF Init, HeldIn, NoHold
  <2>3. \A r \in Requests : AcceptedIn(b)[r] = 0
    BY DEF Init, AcceptedIn, NoRequest
  <2>4. Sum(HeldIn(hold, b)) = 0 /\ Sum(AcceptedIn(b)) = 0
    BY <2>1, <2>2, <2>3, SumZero, RowsAssumption, Zenon
  <2>5. bucket[b].used = 0 /\ bucket[b].total \in Nat
    BY <1>1 DEF Init, NewBucket, NoBucket, TypeOK, BucketType
  <2>. QED
    BY <2>4, <2>5 DEF Reserved
<1>. QED
  BY <1>1, <1>2, <1>3 DEF FundsInv, NoOvercommit

\* Confirm gives back what the task's other hold kept, then takes what is free.
LEMMA ConfirmFits ==
    ASSUME FundsInv, TypeOK', NEW b \in Buckets, NEW h \in Holds, NEW maxTotal \in Totals,
           Confirm(h, maxTotal)
    PROVE  Fits(b)'
<1>. DEFINE t == hold[h].task
            hs == SettledForTask(t)
            amount == maxTotal - Charged(t) - InFlight(t)
            before == HeldIn(hold, b)
            kept == HeldIn(hs, b)
            after == HeldIn(hold, b)'
<1>0. TypeOK /\ Fits(b)
  BY DEF FundsInv, NoOvercommit, Fits
<1>1. hs \in [Holds -> HoldType]
  BY <1>0, SettledType
<1>2. amount \in Int
  BY <1>0, SumsOfRows, AmountsAssumption
<1>3. /\ before \in [Holds -> Nat] /\ Sum(before) \in Nat
      /\ kept \in [Holds -> Nat] /\ Sum(kept) \in Nat
      /\ AcceptedIn(b) \in [Requests -> Nat] /\ Sum(AcceptedIn(b)) \in Nat
      /\ Free(hs) \in [Buckets -> Nat]
  <2>. HIDE DEF hs
  <2>1. hold \in [Holds -> HoldType]
    BY <1>0 DEF TypeOK
  <2>. QED
    BY <1>0, <1>1, <2>1, ReservedType, Zenon
<1>4. after \in [Holds -> Nat] /\ Sum(after) \in Nat
      /\ Reserved(hold, b)' = Sum(after) + Sum(AcceptedIn(b)')
  BY ReservedTypeNext, Zenon
<1>5. PICK alloc \in Allocations(hs, amount) :
          hold' = [hs EXCEPT ![h] =
             [hs[h] EXCEPT !.status = "open", !.amount = maxTotal, !.alloc = alloc,
                           !.rank = Ends, !.expires = now + HoldTTL,
                           !.priceExpires = now + PriceTTL]]
  BY Zenon DEF Confirm
<1>6. alloc \in [Buckets -> Nat] /\ alloc[b] <= Free(hs)[b]
  <2>. HIDE DEF hs, amount
  <2>. QED
    BY <1>2, <1>3, AllocationsTake
<1>7. Sum(kept) <= Sum(before)
  <2>1. \A i \in Holds : kept[i] = before[i] \/ kept[i] = 0
    BY <1>0 DEF HeldIn, SettledForTask, OpenNow, TypeOK
  <2>2. \A i \in Holds : kept[i] <= before[i]
    <3>. HIDE DEF kept, before
    <3>. QED
      BY <1>3, <2>1
  <2>. HIDE DEF kept, before
  <2>. QED
    BY <1>3, <2>2, SumMonotone, RowsAssumption, Zenon
<1>8. Sum(after) <= Sum(kept) + alloc[b]
  <2>. HIDE DEF hs
  <2>1. \A i \in Holds : i # h => after[i] = kept[i]
    BY <1>1, <1>5 DEF HeldIn, OpenNow, Confirm
  <2>2. after[h] <= alloc[b]
    BY <1>1, <1>5, <1>6 DEF HeldIn
  <2>. HIDE DEF after, kept
  <2>3. Sum(after) + kept[h] = Sum(kept) + after[h]
    BY <1>3, <1>4, <2>1, SumChange, RowsAssumption
  <2>4. kept[h] \in Nat /\ after[h] \in Nat /\ alloc[b] \in Nat
    BY <1>3, <1>4, <1>6
  <2>. QED
    BY <1>3, <1>4, <2>2, <2>3, <2>4
<1>9. AcceptedIn(b)' = AcceptedIn(b) /\ bucket' = bucket
  BY DEF Confirm, AcceptedIn
<1>10. bucket[b].used \in Nat /\ bucket[b].total \in Nat /\ alloc[b] \in Nat
  BY <1>0, <1>6 DEF TypeOK, BucketType
<1>. HIDE DEF hs, before, kept, after
<1>11. alloc[b] > 0 => alloc[b] <= bucket[b].total - bucket[b].used
                                     - (Sum(kept) + Sum(AcceptedIn(b)))
  <2>1. Free(hs)[b] > 0 =>
          Free(hs)[b] = bucket[b].total - bucket[b].used - (Sum(kept) + Sum(AcceptedIn(b)))
    BY <1>3, <1>10 DEF Free, PosPart, Reserved, kept
  <2>2. Free(hs)[b] \in Nat
    BY <1>3
  <2>. QED
    BY <1>6, <1>10, <2>1, <2>2
<1>. QED
  BY <1>0, <1>3, <1>4, <1>7, <1>8, <1>9, <1>10, <1>11 DEF Fits, Reserved, before

\* The other operations on a hold reserve nothing.
LEMMA HoldStepKeeps ==
    ASSUME FundsInv, TypeOK', NEW b \in Buckets, NEW h \in Holds, HoldStep(h),
           \A maxTotal \in Totals : ~Confirm(h, maxTotal)
    PROVE  HeadroomKept(b)
<1>0. TypeOK
  BY DEF FundsInv
<1>2. ASSUME UNCHANGED <<now, bucket, req>>,
             hold' \in [Holds -> HoldType],
             \A i \in Holds : i # h => hold'[i] = hold[i],
             HeldIn(hold, b)'[h] <= HeldIn(hold, b)[h]
      PROVE  HeadroomKept(b)
  <2>0. HeldIn(hold, b) \in [Holds -> Nat] /\ AcceptedIn(b) \in [Requests -> Nat]
    BY <1>0, ReservedType, Zenon DEF TypeOK
  <2>1. \A i \in Holds : i # h => HeldIn(hold, b)'[i] = HeldIn(hold, b)[i]
    BY <1>2 DEF HeldIn, OpenNow
  <2>2. AcceptedIn(b)' = AcceptedIn(b)
    BY <1>2 DEF AcceptedIn
  <2>3. \A i \in Holds : HeldIn(hold, b)'[i] <= HeldIn(hold, b)[i]
    BY <1>2, <2>0, <2>1
  <2>4. \A r \in Requests : AcceptedIn(b)'[r] <= AcceptedIn(b)[r]
    BY <2>0, <2>2
  <2>5. bucket'[b].used <= bucket[b].used /\ bucket'[b].total >= bucket[b].total
    BY <1>0, <1>2 DEF TypeOK, BucketType
  <2>. QED
    BY <1>0, <2>3, <2>4, <2>5, NothingMoreReserved
<1>3. hold' \in [Holds -> HoldType] /\ HeldIn(hold, b)[h] \in Nat
  BY <1>0, ReservedType DEF TypeOK
<1>4. ASSUME NEW t \in Tasks, NEW calls \in [Capabilities -> CallCounts],
             QuoteCapabilities(h, t, calls)
      PROVE  HeadroomKept(b)
  <2>1. \A i \in Holds : i # h => hold'[i] = hold[i]
    BY <1>4 DEF QuoteCapabilities
  <2>2. HeldIn(hold, b)'[h] = 0
    BY <1>0, <1>4 DEF QuoteCapabilities, NoHold, HeldIn, OpenNow, TypeOK
  <2>. QED
    BY <1>2, <1>3, <1>4, <2>1, <2>2 DEF QuoteCapabilities
<1>5. ASSUME NEW t \in Tasks, NEW amount \in LegacyAmounts, CreateHold(h, t, amount)
      PROVE  HeadroomKept(b)
  <2>1. \A i \in Holds : i # h => hold'[i] = hold[i]
    BY <1>5 DEF CreateHold
  <2>2. HeldIn(hold, b)'[h] = 0
    BY <1>0, <1>5 DEF CreateHold, NoHold, HeldIn, OpenNow, TypeOK
  <2>. QED
    BY <1>2, <1>3, <1>5, <2>1, <2>2 DEF CreateHold
<1>6. CASE Heartbeat(h)
  <2>1. \A i \in Holds : i # h => hold'[i] = hold[i]
    BY <1>6 DEF Heartbeat
  <2>2. HeldIn(hold, b)'[h] <= HeldIn(hold, b)[h]
    <3>1. HeldIn(hold, b)[h] = IF hold[h].v2 THEN hold[h].alloc[b] ELSE 0
      BY <1>6 DEF Heartbeat, HeldIn
    <3>2. hold'[h] = [hold[h] EXCEPT !.expires = now + HoldTTL]
      BY <1>0, <1>6 DEF Heartbeat, TypeOK
    <3>3. hold[h] \in HoldType
      BY <1>0 DEF TypeOK
    <3>4. hold'[h].alloc = hold[h].alloc /\ hold'[h].v2 = hold[h].v2
      BY <3>2, <3>3 DEF HoldType
    <3>5. HeldIn(hold, b)'[h] \in {0, HeldIn(hold, b)[h]}
      BY <3>1, <3>4 DEF HeldIn
    <3>. QED
      BY <1>3, <3>5
  <2>. QED
    BY <1>2, <1>3, <1>6, <2>1, <2>2 DEF Heartbeat
<1>7. CASE Settle(h)
  <2>1. (\A i \in Holds : i # h => hold'[i] = hold[i]) /\ hold'[h].status = "settled"
    BY <1>0, <1>7 DEF Settle, TypeOK, HoldType
  <2>2. HeldIn(hold, b)'[h] = 0
    BY <2>1 DEF HeldIn, OpenNow
  <2>. QED
    BY <1>2, <1>3, <1>7, <2>1, <2>2 DEF Settle
<1>8. CASE ExpireHold(h)
  <2>1. (\A i \in Holds : i # h => hold'[i] = hold[i]) /\ hold'[h].status = "expired"
    BY <1>0, <1>8 DEF ExpireHold, TypeOK, HoldType
  <2>2. HeldIn(hold, b)'[h] = 0
    BY <2>1 DEF HeldIn, OpenNow
  <2>. QED
    BY <1>2, <1>3, <1>8, <2>1, <2>2 DEF ExpireHold
<1>. QED
  BY <1>4, <1>5, <1>6, <1>7, <1>8 DEF HoldStep

\* What a request gives up, its authorization may take back.
LEMMA ReleasedKeeps ==
    ASSUME FundsInv, TypeOK', NEW b \in Buckets, NEW r \in Requests,
           NEW s \in {"ok", "failed"}, Released(r, s)
    PROVE  HeadroomKept(b)
<1>0. TypeOK
  BY DEF FundsInv
<1>1. /\ HeldIn(hold, b) \in [Holds -> Nat] /\ AcceptedIn(b) \in [Requests -> Nat]
      /\ HeldIn(hold, b)' \in [Holds -> Nat] /\ AcceptedIn(b)' \in [Requests -> Nat]
  BY <1>0, ReservedType, ReservedTypeNext, Zenon DEF TypeOK
<1>2. bucket' = bucket /\ now' = now /\ hold' = HoldsAfterRelease(r)
  BY DEF Released
<1>3. \A i \in Requests : i # r => req'[i] = req[i]
  BY <1>0 DEF Released, TypeOK
<1>4. req'[r].reserved = 0
  BY <1>0 DEF Released, TypeOK, RequestType
<1>5. AcceptedIn(b)'[r] = 0 /\ \A i \in Requests : i # r => AcceptedIn(b)'[i] = AcceptedIn(b)[i]
  BY <1>3, <1>4 DEF AcceptedIn
<1>6. bucket[b].used \in Nat /\ bucket[b].total \in Nat
  BY <1>0 DEF TypeOK, BucketType
<1>7. CASE req[r].reserved > 0 /\ req[r].auth \in Holds /\ OpenNow(hold[req[r].auth])
  <2>. DEFINE h == req[r].auth
  <2>1. \A i \in Holds : i # h => hold'[i] = hold[i]
    BY <1>2 DEF HoldsAfterRelease
  <2>2. \A i \in Holds : i # h => HeldIn(hold, b)'[i] = HeldIn(hold, b)[i]
    BY <1>2, <2>1 DEF HeldIn, OpenNow
  <2>3. hold'[h] = [hold[h] EXCEPT !.alloc =
                      [c \in Buckets |-> hold[h].alloc[c] + req[r].alloc[c]]]
    BY <1>2, <1>7 DEF HoldsAfterRelease
  <2>4. /\ hold'[h].alloc[b] = hold[h].alloc[b] + req[r].alloc[b]
        /\ hold'[h].v2 = hold[h].v2
    <3>1. hold[h] \in HoldType
      BY <1>0, <1>7 DEF TypeOK
    <3>. QED
      BY <2>3, <3>1 DEF HoldType
  <2>5. AcceptedIn(b)[r] = req[r].alloc[b]
    BY <1>7 DEF AcceptedIn
  <2>6. req[r].alloc[b] \in Nat /\ hold[h].alloc[b] \in Nat
    BY <1>0, <1>7 DEF TypeOK, RequestType, HoldType
  <2>7. HeldIn(hold, b)'[h] <= HeldIn(hold, b)[h] + AcceptedIn(b)[r]
    <3>1. HeldIn(hold, b)[h] = IF hold[h].v2 THEN hold[h].alloc[b] ELSE 0
      BY <1>7 DEF HeldIn
    <3>2. HeldIn(hold, b)'[h] = 0 \/ (hold[h].v2 /\ HeldIn(hold, b)'[h] = hold'[h].alloc[b])
      BY <1>7, <2>4 DEF HeldIn
    <3>. QED
      BY <2>4, <2>5, <2>6, <3>1, <3>2
  <2>8. bucket'[b].used + HeldIn(hold, b)'[h] + AcceptedIn(b)'[r]
          <= bucket[b].used + HeldIn(hold, b)[h] + AcceptedIn(b)[r]
    BY <1>1, <1>2, <1>5, <1>6, <1>7, <2>7
  <2>. QED
    BY <1>0, <1>2, <1>5, <1>7, <2>2, <2>8, FundsMoved
<1>8. CASE ~(req[r].reserved > 0 /\ req[r].auth \in Holds /\ OpenNow(hold[req[r].auth]))
  <2>1. hold' = hold
    BY <1>0, <1>2, <1>8 DEF HoldsAfterRelease, TypeOK
  <2>2. \A i \in Holds : HeldIn(hold, b)'[i] <= HeldIn(hold, b)[i]
    <3>1. HeldIn(hold, b)' = HeldIn(hold, b)
      BY <1>2, <2>1 DEF HeldIn, OpenNow
    <3>. QED
      BY <1>1, <3>1
  <2>3. \A i \in Requests : AcceptedIn(b)'[i] <= AcceptedIn(b)[i]
    BY <1>1, <1>5
  <2>. QED
    BY <1>0, <1>2, <1>6, <2>2, <2>3, NothingMoreReserved
<1>. QED
  BY <1>7, <1>8

\* ReserveRequest: what the request takes, its authorization no longer holds.
LEMMA AcceptPerCallKeeps ==
    ASSUME FundsInv, TypeOK', NEW b \in Buckets, NEW r \in Requests,
           NEW c \in Capabilities, NEW h \in Holds, AcceptPerCall(r, c, h)
    PROVE  HeadroomKept(b)
<1>. DEFINE unit == hold[h].prices[c].credits
            offer == [i \in Buckets |-> IF i \in Active THEN hold[h].alloc[i] ELSE 0]
            new(take) == [NoRequest EXCEPT !.status = "pending", !.task = hold[h].task,
                               !.cap = c, !.mode = "per_call", !.auth = h, !.unit = unit,
                               !.reserved = unit, !.alloc = take]
<1>0. TypeOK
  BY DEF FundsInv
<1>1. /\ HeldIn(hold, b) \in [Holds -> Nat] /\ AcceptedIn(b) \in [Requests -> Nat]
      /\ HeldIn(hold, b)' \in [Holds -> Nat] /\ AcceptedIn(b)' \in [Requests -> Nat]
  BY <1>0, ReservedType, ReservedTypeNext, Zenon DEF TypeOK
<1>2. unit \in Nat /\ offer \in [Buckets -> Nat] /\ hold[h] \in HoldType
  BY <1>0 DEF TypeOK, HoldType, Price
<1>3. PICK take \in InOrder(offer, hold[h].rank, unit) :
        /\ hold' = [hold EXCEPT ![h].alloc = Left(offer, take)]
        /\ req' = [req EXCEPT ![r] = new(take)]
  BY Zenon DEF AcceptPerCall
<1>4. bucket' = bucket /\ now' = now /\ hold[h].v2 /\ OpenNow(hold[h])
  BY DEF AcceptPerCall
<1>5. take \in [Buckets -> Nat] /\ take[b] <= offer[b]
  <2>. HIDE DEF unit, offer
  <2>. QED
    BY <1>2, <1>3, InOrderTakes
<1>6. new(take).alloc = take
  BY DEF NoRequest
<1>. HIDE DEF new
<1>7. HeldIn(hold, b)[h] = hold[h].alloc[b]
  BY <1>4 DEF HeldIn
<1>8. /\ \A i \in Holds : i # h => HeldIn(hold, b)'[i] = HeldIn(hold, b)[i]
      /\ HeldIn(hold, b)'[h] <= offer[b] - take[b]
  <2>. HIDE DEF offer
  <2>1. \A i \in Holds : i # h => hold'[i] = hold[i]
    BY <1>3
  <2>2. hold'[h].alloc = Left(offer, take)
    BY <1>0, <1>2, <1>3 DEF TypeOK, HoldType
  <2>3. Left(offer, take)[b] = offer[b] - take[b] /\ offer[b] - take[b] \in Nat
    BY <1>2, <1>5 DEF Left
  <2>4. HeldIn(hold, b)'[h] \in {0, offer[b] - take[b]}
    BY <2>2, <2>3 DEF HeldIn
  <2>. QED
    BY <1>4, <2>1, <2>3, <2>4 DEF HeldIn, OpenNow
<1>9. /\ \A i \in Requests : i # r => AcceptedIn(b)'[i] = AcceptedIn(b)[i]
      /\ AcceptedIn(b)'[r] <= take[b]
  <2>1. (\A i \in Requests : i # r => req'[i] = req[i]) /\ req'[r] = new(take)
    BY <1>0, <1>3 DEF TypeOK
  <2>2. AcceptedIn(b)'[r] \in {0, take[b]}
    BY <1>6, <2>1 DEF AcceptedIn
  <2>. QED
    BY <1>5, <2>1, <2>2 DEF AcceptedIn
<1>10. bucket'[b].used + HeldIn(hold, b)'[h] + AcceptedIn(b)'[r]
         <= bucket[b].used + HeldIn(hold, b)[h] + AcceptedIn(b)[r]
  <2>1. /\ bucket[b].used \in Nat /\ offer[b] \in Nat /\ take[b] \in Nat
        /\ hold[h].alloc[b] \in Nat /\ offer[b] <= hold[h].alloc[b]
    BY <1>0, <1>2, <1>5 DEF TypeOK, BucketType, HoldType
  <2>2. /\ HeldIn(hold, b)'[h] \in Nat /\ AcceptedIn(b)'[r] \in Nat /\ AcceptedIn(b)[r] \in Nat
    BY <1>1
  <2>. HIDE DEF offer
  <2>. QED
    BY <1>4, <1>7, <1>8, <1>9, <2>1, <2>2
<1>. QED
  BY <1>0, <1>4, <1>8, <1>9, <1>10, FundsMoved

\* DebitReserved: what the bucket pays was reserved for the request.
LEMMA SettleDebitKeeps ==
    ASSUME FundsInv, TypeOK', NEW b \in Buckets, NEW r \in Requests, SettleDebit(r)
    PROVE  HeadroomKept(b)
<1>. DEFINE paid == req[r].alloc
<1>0. TypeOK
  BY DEF FundsInv
<1>1. /\ HeldIn(hold, b) \in [Holds -> Nat] /\ AcceptedIn(b) \in [Requests -> Nat]
      /\ HeldIn(hold, b)' \in [Holds -> Nat] /\ AcceptedIn(b)' \in [Requests -> Nat]
  BY <1>0, ReservedType, ReservedTypeNext, Zenon DEF TypeOK
<1>2. paid \in [Buckets -> Nat] /\ req[r].reserved \in Nat /\ req[r].unit \in Nat
  BY <1>0 DEF TypeOK, RequestType
<1>3. \A i \in Holds : hold'[i].alloc = hold[i].alloc /\ hold'[i].v2 = hold[i].v2
                       /\ OpenNow(hold[i])' = OpenNow(hold[i])
  <2>1. \A i \in Holds : hold[i] \in HoldType
    BY <1>0 DEF TypeOK
  <2>2. \A i \in Holds : hold'[i] = hold[i] \/ \E n : hold'[i] = [hold[i] EXCEPT !.consumed = n]
    BY <1>0 DEF SettleDebit, TypeOK
  <2>3. now' = now
    BY DEF SettleDebit
  <2>4. ASSUME NEW i \in Holds
        PROVE  /\ hold'[i].alloc = hold[i].alloc /\ hold'[i].v2 = hold[i].v2
               /\ hold'[i].status = hold[i].status /\ hold'[i].expires = hold[i].expires
    <3>1. CASE hold'[i] = hold[i]
      BY <3>1
    <3>2. ASSUME NEW n, hold'[i] = [hold[i] EXCEPT !.consumed = n]
          PROVE  /\ hold'[i].alloc = hold[i].alloc /\ hold'[i].v2 = hold[i].v2
                 /\ hold'[i].status = hold[i].status /\ hold'[i].expires = hold[i].expires
      BY <2>1, <3>2 DEF HoldType
    <3>. QED
      BY <2>2, <3>1, <3>2
  <2>. QED
    BY <2>3, <2>4 DEF OpenNow
<1>4. HeldIn(hold, b)' = HeldIn(hold, b)
  BY <1>3 DEF HeldIn
<1>5. (\A i \in Requests : i # r => req'[i] = req[i]) /\ req'[r].reserved = 0
  <2>1. req \in [Requests -> RequestType]
    BY <1>0 DEF TypeOK
  <2>2. req[r] \in RequestType
    BY <2>1
  <2>3. req' = [req EXCEPT ![r].status = "ok", ![r].credits = req[r].unit,
                           ![r].reserved = 0, ![r].alloc = Zero]
    BY DEF SettleDebit
  <2>4. req'[r] = [req[r] EXCEPT !.status = "ok", !.credits = req[r].unit,
                                 !.reserved = 0, !.alloc = Zero]
    BY <2>1, <2>3
  <2>. QED
    BY <2>1, <2>2, <2>3, <2>4 DEF RequestType
<1>6. /\ AcceptedIn(b)'[r] = 0
      /\ \A i \in Requests : i # r => AcceptedIn(b)'[i] = AcceptedIn(b)[i]
  BY <1>5 DEF AcceptedIn
<1>7. AcceptedIn(b)[r] = paid[b]
  <2>1. CASE req[r].reserved > 0
    BY <2>1 DEF AcceptedIn
  <2>2. CASE ~(req[r].reserved > 0)
    <3>1. Sum(paid) = req[r].unit /\ req[r].reserved = req[r].unit
      BY DEF SettleDebit
    <3>2. paid[b] <= Sum(paid)
      BY <1>2, SumAtLeast, RowsAssumption
    <3>3. paid[b] = 0
      BY <1>2, <2>2, <3>1, <3>2
    <3>. QED
      BY <2>2, <3>3 DEF AcceptedIn
  <2>. QED
    BY <2>1, <2>2
<1>8. /\ bucket'[b].used = bucket[b].used + paid[b] /\ bucket'[b].total = bucket[b].total
      /\ bucket[b].used \in Nat /\ bucket[b].total \in Nat
  <2>1. bucket[b] \in BucketType
    BY <1>0 DEF TypeOK
  <2>2. bucket'[b] = [bucket[b] EXCEPT !.used = bucket[b].used + paid[b]]
    BY DEF SettleDebit
  <2>. QED
    BY <2>1, <2>2 DEF BucketType
<1>9. CASE Holds = {}
  <2>1. Reserved(hold, b)' = Sum(HeldIn(hold, b)) + Sum(AcceptedIn(b)')
    BY <1>4, ReservedTypeNext
  <2>2. Sum(AcceptedIn(b)') + AcceptedIn(b)[r] = Sum(AcceptedIn(b)) + AcceptedIn(b)'[r]
    BY <1>1, <1>6, SumChange, RowsAssumption
  <2>3. Sum(HeldIn(hold, b)) \in Nat /\ Sum(AcceptedIn(b)) \in Nat /\ Sum(AcceptedIn(b)') \in Nat
    BY <1>1, SumType, RowsAssumption, Zenon
  <2>. HIDE DEF paid
  <2>. QED
    BY <1>0, <1>2, <1>6, <1>7, <1>8, <2>1, <2>2, <2>3 DEF HeadroomKept, Headroom, Reserved
<1>10. ASSUME NEW h \in Holds
       PROVE  HeadroomKept(b)
  <2>1. bucket'[b].used + HeldIn(hold, b)'[h] + AcceptedIn(b)'[r]
          <= bucket[b].used + HeldIn(hold, b)[h] + AcceptedIn(b)[r]
    BY <1>1, <1>2, <1>4, <1>6, <1>7, <1>8
  <2>. QED
    BY <1>0, <1>4, <1>6, <1>8, <2>1, FundsMoved
<1>. QED
  BY <1>9, <1>10

\* The transactions of the gateway only move what was already reserved.
LEMMA RequestStepKeeps ==
    ASSUME FundsInv, TypeOK', NEW b \in Buckets, NEW r \in Requests, RequestStep(r)
    PROVE  HeadroomKept(b)
<1>0. TypeOK
  BY DEF FundsInv
<1>1. HeldIn(hold, b) \in [Holds -> Nat] /\ AcceptedIn(b) \in [Requests -> Nat]
  BY <1>0, ReservedType, Zenon DEF TypeOK
<1>2. ASSUME UNCHANGED <<now, bucket, hold>>,
             \A i \in Requests : AcceptedIn(b)'[i] <= AcceptedIn(b)[i]
      PROVE  HeadroomKept(b)
  <2>1. \A i \in Holds : HeldIn(hold, b)'[i] <= HeldIn(hold, b)[i]
    <3>1. HeldIn(hold, b)' = HeldIn(hold, b)
      BY <1>2 DEF HeldIn, OpenNow
    <3>. QED
      BY <1>1, <3>1
  <2>2. bucket'[b].used <= bucket[b].used /\ bucket'[b].total >= bucket[b].total
    BY <1>0, <1>2 DEF TypeOK, BucketType
  <2>. QED
    BY <1>0, <1>2, <2>1, <2>2, NothingMoreReserved
<1>3. ASSUME NEW t \in Tasks, NEW c \in Capabilities, AcceptIncluded(r, t, c)
      PROVE  HeadroomKept(b)
  <2>1. (\A i \in Requests : i # r => req'[i] = req[i]) /\ req'[r].reserved = 0
    BY <1>0, <1>3 DEF AcceptIncluded, TypeOK, NoRequest
  <2>2. \A i \in Requests : AcceptedIn(b)'[i] = AcceptedIn(b)[i] \/ AcceptedIn(b)'[i] = 0
    BY <2>1 DEF AcceptedIn
  <2>. QED
    BY <1>1, <1>2, <1>3, <2>2 DEF AcceptIncluded
<1>4. ASSUME NEW c \in Capabilities, NEW h \in Holds, AcceptPerCall(r, c, h)
      PROVE  HeadroomKept(b)
  BY <1>4, AcceptPerCallKeeps
<1>5. CASE Persist(r)
  <2>1. \A i \in Requests : req'[i].reserved = req[i].reserved /\ req'[i].alloc = req[i].alloc
    <3>1. req[r] \in RequestType
      BY <1>0 DEF TypeOK
    <3>2. \A i \in Requests : i # r => req'[i] = req[i]
      BY <1>0, <1>5 DEF Persist, TypeOK
    <3>3. PICK u : req'[r] = [req[r] EXCEPT !.status = "settlement_pending", !.usable = u,
                                            !.cacheExpires = now + CacheTTL]
      BY <1>0, <1>5 DEF Persist, TypeOK
    <3>4. req'[r].reserved = req[r].reserved /\ req'[r].alloc = req[r].alloc
      BY <3>1, <3>3 DEF RequestType
    <3>. QED
      BY <3>2, <3>4
  <2>2. AcceptedIn(b)' = AcceptedIn(b)
    BY <2>1 DEF AcceptedIn
  <2>. QED
    BY <1>1, <1>2, <1>5, <2>2 DEF Persist
<1>6. CASE FailV2(r)
  BY <1>6, ReleasedKeeps DEF FailV2
<1>7. CASE SettleTooLate(r)
  BY <1>7, ReleasedKeeps DEF SettleTooLate
<1>8. CASE SettleFree(r)
  BY <1>8, ReleasedKeeps DEF SettleFree
<1>9. CASE SettleDebit(r)
  BY <1>9, SettleDebitKeeps
<1>. QED
  BY <1>3, <1>4, <1>5, <1>6, <1>7, <1>8, <1>9 DEF RequestStep

\* A step that moves no reservation: buckets may gain credits, or get some back.
LEMMA BucketStepKeeps ==
    ASSUME FundsInv, TypeOK', NEW b \in Buckets,
           now' >= now, UNCHANGED <<hold, req>>,
           bucket'[b].used <= bucket[b].used, bucket'[b].total >= bucket[b].total
    PROVE  HeadroomKept(b)
<1>0. TypeOK
  BY DEF FundsInv
<1>1. HeldIn(hold, b) \in [Holds -> Nat] /\ AcceptedIn(b) \in [Requests -> Nat]
  BY <1>0, ReservedType, Zenon DEF TypeOK
<1>2. AcceptedIn(b)' = AcceptedIn(b)
  BY DEF AcceptedIn
<1>3. \A h \in Holds : OpenNow(hold[h])' => OpenNow(hold[h])
  BY <1>0 DEF OpenNow, TypeOK, HoldType
<1>4. \A h \in Holds : HeldIn(hold, b)'[h] = HeldIn(hold, b)[h] \/ HeldIn(hold, b)'[h] = 0
  BY <1>3 DEF HeldIn
<1>5. /\ \A h \in Holds : HeldIn(hold, b)'[h] <= HeldIn(hold, b)[h]
      /\ \A r \in Requests : AcceptedIn(b)'[r] <= AcceptedIn(b)[r]
  BY <1>1, <1>2, <1>4
<1>. QED
  BY <1>0, <1>5, NothingMoreReserved

\* Administration takes no credits out of a bucket, and never un-creates one.
CreditsStay(b) ==
    /\ bucket'[b].used <= bucket[b].used
    /\ bucket'[b].total >= bucket[b].total
    /\ bucket'[b].status = "absent" => bucket'[b] = bucket[b]

\* Each of the operations of administration, by what it writes to the bucket.
LEMMA AdminStepBuckets ==
    ASSUME TypeOK, UncreatedIsEmpty, TypeOK', AdminStep, NEW b \in Buckets
    PROVE  CreditsStay(b)
<1>1. bucket[b] \in BucketType /\ bucket \in [Buckets -> BucketType]
  BY DEF TypeOK
<1>2. ASSUME bucket'[b] = bucket[b]
      PROVE  CreditsStay(b)
  BY <1>1, <1>2 DEF BucketType, CreditsStay
<1>3. ASSUME bucket[b].status = "absent", NEW plan, NEW total \in Nat, NEW ends,
             bucket'[b] = NewBucket(plan, total, ends)
      PROVE  CreditsStay(b)
  BY <1>3 DEF UncreatedIsEmpty, NoBucket, NewBucket, CreditsStay
<1>4. ASSUME NEW f \in Refunds, NEW r \in Requests, NEW amount \in RefundAmounts,
             Refund(f, r, amount)
      PROVE  CreditsStay(b)
  <2>1. PICK share \in [Buckets -> Nat] : RefundedRow(b, share)
    BY <1>4, RefundEffect
  <2>2. CASE /\ b \in Active
             /\ bucket'[b] = [bucket[b] EXCEPT !.used = bucket[b].used - share[b]]
    <3>1. /\ bucket'[b].used = bucket[b].used - share[b]
          /\ bucket'[b].total = bucket[b].total
          /\ bucket'[b].status = "active"
      BY <1>1, <2>2 DEF BucketType, Active
    <3>. QED
      BY <1>1, <3>1 DEF BucketType, CreditsStay
  <2>. QED
    BY <1>2, <1>3, <2>1, <2>2 DEF RefundedRow
<1>5. ASSUME NEW i \in Buckets, NEW g \in Grants, AdminGrant(i, g)
      PROVE  CreditsStay(b)
  <2>1. CASE b = i
    <3>1. bucket'[b] = NewBucket(g.plan, g.amount, now + g.days) /\ g.amount \in Nat
      BY <1>1, <1>5, <2>1, GrantedAssumption DEF AdminGrant
    <3>. QED
      BY <1>3, <1>5, <2>1, <3>1 DEF AdminGrant
  <2>2. CASE b # i
    BY <1>1, <1>2, <1>5, <2>2 DEF AdminGrant
  <2>. QED
    BY <2>1, <2>2
<1>6. ASSUME NEW i \in Buckets,
             \A j \in Buckets : j # i => bucket'[j] = bucket[j],
             bucket'[i].used = bucket[i].used, bucket'[i].total = bucket[i].total,
             bucket'[i].status # "absent"
      PROVE  CreditsStay(b)
  BY <1>1, <1>2, <1>6 DEF BucketType, CreditsStay
<1>7. ASSUME NEW i \in Buckets, NEW days \in Extensions, ExtendBucket(i, days)
      PROVE  CreditsStay(b)
  <2>1. bucket[i] \in BucketType
    BY <1>1
  <2>2. PICK s \in {"active", "expired"} :
          bucket'[i] = [bucket[i] EXCEPT !.ends = bucket[i].ends + days, !.status = s]
    BY <1>1, <1>7 DEF ExtendBucket
  <2>3. /\ bucket'[i].used = bucket[i].used /\ bucket'[i].total = bucket[i].total
        /\ bucket'[i].status = s
    BY <2>1, <2>2 DEF BucketType
  <2>4. \A j \in Buckets : j # i => bucket'[j] = bucket[j]
    BY <1>1, <1>7 DEF ExtendBucket
  <2>. QED
    BY <1>6, <2>3, <2>4
<1>8. ASSUME NEW i \in Revocable, RevokeBucket(i)
      PROVE  CreditsStay(b)
  <2>1. i \in Buckets /\ bucket[i] \in BucketType
    BY <1>1, AmountsAssumption
  <2>2. bucket'[i] = [bucket[i] EXCEPT !.status = "revoked"]
    BY <1>1, <1>8, <2>1 DEF RevokeBucket
  <2>3. /\ bucket'[i].used = bucket[i].used /\ bucket'[i].total = bucket[i].total
        /\ bucket'[i].status = "revoked"
    BY <2>1, <2>2 DEF BucketType
  <2>4. \A j \in Buckets : j # i => bucket'[j] = bucket[j]
    BY <1>1, <1>8 DEF RevokeBucket
  <2>. QED
    BY <1>6, <2>1, <2>3, <2>4
<1>9. ASSUME NEW c \in Capabilities, NEW p \in NewPrices, ChangePrice(c, p)
      PROVE  bucket'[b] = bucket[b]
  BY <1>9 DEF ChangePrice
<1>. QED
  BY <1>2, <1>4, <1>5, <1>7, <1>8, <1>9 DEF AdminStep

\* And none of them touches a hold or a request.
LEMMA AdminStepKeeps ==
    ASSUME TypeOK, AdminStep
    PROVE  now' >= now /\ UNCHANGED <<hold, req>>
<1>1. UNCHANGED <<now, hold, req>>
  BY DEF AdminStep, Refund, AdminGrant, ExtendBucket, RevokeBucket, ChangePrice
<1>. QED
  BY <1>1 DEF TypeOK

\* Only AdminGrant and Refund turn an absent bucket into another row.
LEMMA UncreatedStep ==
    ASSUME FundsInv, [Next]_vars, TypeOK'
    PROVE  UncreatedIsEmpty'
<1>. SUFFICES ASSUME NEW b \in Buckets, bucket'[b].status = "absent"
              PROVE  bucket'[b] = NoBucket
  BY DEF UncreatedIsEmpty
<1>0. TypeOK /\ UncreatedIsEmpty /\ bucket[b] \in BucketType
  BY DEF FundsInv, TypeOK
<1>1. ASSUME bucket'[b] = bucket[b] PROVE bucket'[b] = NoBucket
  BY <1>0, <1>1 DEF UncreatedIsEmpty
<1>2. ASSUME NEW h \in Holds, HoldStep(h) PROVE bucket'[b] = NoBucket
  BY <1>1, <1>2 DEF HoldStep, QuoteCapabilities, Confirm, CreateHold, Heartbeat, Settle, ExpireHold
<1>3. ASSUME NEW r \in Requests, RequestStep(r) PROVE bucket'[b] = NoBucket
  <2>1. CASE SettleDebit(r)
    <3>1. bucket'[b] = [bucket[b] EXCEPT !.used = bucket[b].used + req[r].alloc[b]]
      BY <2>1 DEF SettleDebit
    <3>2. bucket[b].status = "absent"
      BY <1>0, <3>1 DEF BucketType
    <3>3. bucket[b] = NoBucket /\ req[r].alloc[b] \in Nat
      BY <1>0, <3>2 DEF UncreatedIsEmpty, TypeOK, RequestType
    <3>4. req[r].alloc[b] > 0 => bucket[b].total - bucket[b].used >= req[r].alloc[b]
      BY <2>1 DEF SettleDebit
    <3>5. bucket[b].total = 0 /\ bucket[b].used = 0
      BY <3>3 DEF NoBucket
    <3>6. req[r].alloc[b] = 0
      BY <3>3, <3>4, <3>5
    <3>. QED
      BY <3>1, <3>3, <3>6 DEF NoBucket
  <2>2. CASE ~SettleDebit(r)
    BY <1>1, <1>3, <2>2 DEF RequestStep, AcceptIncluded, AcceptPerCall, Persist, FailV2,
       SettleTooLate, SettleFree, Released
  <2>. QED
    BY <2>1, <2>2
<1>4. CASE AdminStep
  BY <1>0, <1>1, <1>4, AdminStepBuckets DEF CreditsStay
<1>5. CASE ExpireSubscriptions
  <2>1. \/ bucket'[b] = bucket[b]
        \/ bucket'[b] = [bucket[b] EXCEPT !.status = "expired"]
    BY <1>5 DEF ExpireSubscriptions
  <2>. QED
    BY <1>0, <1>1, <2>1 DEF BucketType
<1>6. CASE Tick \/ UNCHANGED vars
  BY <1>1, <1>6 DEF Tick, vars
<1>. QED
  BY <1>2, <1>3, <1>4, <1>5, <1>6 DEF Next

\* Only Confirm may leave less in a bucket than there was.
IsConfirm == \E h \in Holds, maxTotal \in Totals : Confirm(h, maxTotal)

\* Every other step keeps the headroom of every bucket.
LEMMA HeadroomStep ==
    ASSUME FundsInv, [Next]_vars, ~IsConfirm, TypeOK', NEW b \in Buckets
    PROVE  HeadroomKept(b)
<1>0. TypeOK /\ UncreatedIsEmpty /\ bucket[b] \in BucketType
  BY DEF FundsInv, TypeOK
<1>1. CASE \E h \in Holds : HoldStep(h)
  BY <1>1, HoldStepKeeps DEF IsConfirm
<1>2. CASE \E r \in Requests : RequestStep(r)
  BY <1>2, RequestStepKeeps
<1>3. CASE AdminStep
  <2>1. now' >= now /\ UNCHANGED <<hold, req>>
    BY <1>0, <1>3, AdminStepKeeps
  <2>2. bucket'[b].used <= bucket[b].used /\ bucket'[b].total >= bucket[b].total
    BY <1>0, <1>3, AdminStepBuckets DEF CreditsStay
  <2>. QED
    BY <2>1, <2>2, BucketStepKeeps
<1>4. CASE ExpireSubscriptions
  <2>1. \/ bucket'[b] = bucket[b]
        \/ bucket'[b] = [bucket[b] EXCEPT !.status = "expired"]
    BY <1>4 DEF ExpireSubscriptions
  <2>2. bucket'[b].used <= bucket[b].used /\ bucket'[b].total >= bucket[b].total
    BY <1>0, <2>1 DEF BucketType
  <2>3. now' >= now /\ UNCHANGED <<hold, req>>
    BY <1>0, <1>4 DEF ExpireSubscriptions, TypeOK
  <2>. QED
    BY <2>2, <2>3, BucketStepKeeps
<1>5. CASE Tick \/ UNCHANGED vars
  <2>1. now' >= now /\ UNCHANGED <<hold, req, bucket>>
    BY <1>0, <1>5 DEF Tick, vars, TypeOK
  <2>2. bucket'[b].used <= bucket[b].used /\ bucket'[b].total >= bucket[b].total
    BY <1>0, <2>1 DEF BucketType
  <2>. QED
    BY <2>1, <2>2, BucketStepKeeps
<1>. QED
  BY <1>1, <1>2, <1>3, <1>4, <1>5 DEF Next

\* The invariant is inductive: Confirm takes from what is free, the rest keeps the headroom.
LEMMA FundsStep == FundsInv /\ [Next]_vars => FundsInv'
<1>. SUFFICES ASSUME FundsInv, [Next]_vars PROVE FundsInv'
  OBVIOUS
<1>0. TypeOK /\ UncreatedIsEmpty
  BY DEF FundsInv
<1>1. TypeOK'
  BY <1>0, TypeStep
<1>2. UncreatedIsEmpty'
  BY <1>1, UncreatedStep
<1>3. ASSUME NEW b \in Buckets PROVE Fits(b)'
  <2>1. CASE IsConfirm
    BY <1>1, <2>1, ConfirmFits DEF IsConfirm
  <2>2. CASE ~IsConfirm
    <3>1. HeadroomKept(b)
      BY <1>1, <2>2, HeadroomStep
    <3>2. Fits(b)
      BY DEF FundsInv, NoOvercommit, Fits
    <3>. QED
      BY <1>0, <1>1, <3>1, <3>2, HeadroomFits
  <2>. QED
    BY <2>1, <2>2
<1>. QED
  BY <1>1, <1>2, <1>3 DEF FundsInv, NoOvercommit, Fits

\* No bucket is ever promised twice, whatever is quoted, confirmed, accepted, released,
\* charged, refunded, extended or revoked, in any order and for any number of tasks.
THEOREM NeverOvercommitted == Spec => []NoOvercommit
<1>1. FundsInv => NoOvercommit
  BY DEF FundsInv
<1>. QED
  BY <1>1, FundsInit, FundsStep, PTL DEF Spec

-----------------------------------------------------------------------------
(***************************************************************************)
(* The freeze of legacy holds.  It names no bucket, so nothing in the rows *)
(* reserves it: Confirm sets it aside before it allocates, CreateHold      *)
(* checks that it fits, and no other step freezes more or leaves less free *)
(* in a bucket that stays active.                                          *)
(***************************************************************************)

LegacyIn(hs) ==
    [h \in Holds |-> IF ~hs[h].v2 /\ OpenNow(hs[h])
                     THEN PosPart(hs[h].amount - hs[h].consumed) ELSE 0]

\* What a step does to a hold so that no more is frozen for it afterwards.
NoMoreFrozen(i) ==
    \/ hold'[i].status # "open"
    \/ hold'[i].v2
    \/ /\ hold'[i].v2 = hold[i].v2 /\ hold'[i].amount = hold[i].amount
       /\ hold'[i].consumed >= hold[i].consumed
       /\ \/ OpenNow(hold[i])
          \/ hold'[i].status = hold[i].status /\ hold'[i].expires = hold[i].expires

\* The tables that are compared hold amounts.
LEMMA LegacyType ==
    ASSUME NEW hs \in [Holds -> HoldType]
    PROVE  /\ LegacyIn(hs) \in [Holds -> Nat]
           /\ LegacyReserved(hs) = Sum(LegacyIn(hs)) /\ LegacyReserved(hs) \in Nat
<1>1. LegacyIn(hs) \in [Holds -> Nat]
  BY DEF LegacyIn, HoldType, PosPart
<1>2. LegacyReserved(hs) = Sum(LegacyIn(hs))
  BY Zenon DEF LegacyReserved, LegacyIn
<1>. QED
  BY <1>1, <1>2, SumType, RowsAssumption, Zenon

\* The same, and what is free, after a step.
LEMMA FreezeTypeNext ==
    ASSUME TypeOK'
    PROVE  /\ LegacyIn(hold)' \in [Holds -> Nat]
           /\ LegacyReserved(hold)' = Sum(LegacyIn(hold)') /\ LegacyReserved(hold)' \in Nat
           /\ Free(hold)' \in [Buckets -> Nat] /\ Sum(Free(hold)') \in Nat
<1>1. LegacyIn(hold)' \in [Holds -> Nat]
  BY DEF LegacyIn, HoldType, PosPart, TypeOK
<1>2. LegacyReserved(hold)' = Sum(LegacyIn(hold)')
  BY Zenon DEF LegacyReserved, LegacyIn
<1>3. \A b \in Buckets : Reserved(hold, b)' \in Nat
  <2>1. ASSUME NEW b \in Buckets
        PROVE  /\ Sum(HeldIn(hold, b)') \in Nat /\ Sum(AcceptedIn(b)') \in Nat
               /\ Reserved(hold, b)' = Sum(HeldIn(hold, b)') + Sum(AcceptedIn(b)')
    BY ReservedTypeNext, Zenon
  <2>. QED
    BY <2>1
<1>4. Free(hold)' \in [Buckets -> Nat]
  BY <1>3 DEF Free, PosPart, TypeOK, BucketType
<1>. QED
  BY <1>1, <1>2, <1>4, SumType, RowsAssumption, Zenon

\* Time and such a step only make the frozen part of a hold smaller.
LEMMA FreezeRow ==
    ASSUME TypeOK, TypeOK', now' >= now, NEW i \in Holds, NoMoreFrozen(i)
    PROVE  LegacyIn(hold)'[i] <= LegacyIn(hold)[i]
<1>0. /\ hold[i] \in HoldType /\ hold'[i] \in HoldType /\ now \in Nat /\ now' \in Nat
      /\ hold \in [Holds -> HoldType]
  BY DEF TypeOK
<1>1. LegacyIn(hold)[i] \in Nat
  BY <1>0, LegacyType
<1>2. CASE hold'[i].status # "open" \/ hold'[i].v2
  <2>1. LegacyIn(hold)'[i] = 0
    BY <1>2 DEF LegacyIn, OpenNow
  <2>. QED
    BY <1>1, <2>1
<1>3. CASE /\ hold'[i].v2 = hold[i].v2 /\ hold'[i].amount = hold[i].amount
           /\ hold'[i].consumed >= hold[i].consumed
           /\ \/ OpenNow(hold[i])
              \/ hold'[i].status = hold[i].status /\ hold'[i].expires = hold[i].expires
  <2>1. /\ hold[i].amount \in Nat /\ hold[i].consumed \in Nat /\ hold'[i].consumed \in Nat
        /\ hold[i].expires \in Nat
    BY <1>0 DEF HoldType
  <2>2. OpenNow(hold[i])' => OpenNow(hold[i])
    BY <1>0, <1>3, <2>1 DEF OpenNow
  <2>3. CASE ~OpenNow(hold[i])'
    <3>1. LegacyIn(hold)'[i] = 0
      BY <2>3 DEF LegacyIn
    <3>. QED
      BY <1>1, <3>1
  <2>4. CASE OpenNow(hold[i])'
    <3>1. LegacyIn(hold)'[i] = IF ~hold[i].v2 THEN PosPart(hold[i].amount - hold'[i].consumed)
                               ELSE 0
      BY <1>3, <2>4 DEF LegacyIn
    <3>2. LegacyIn(hold)[i] = IF ~hold[i].v2 THEN PosPart(hold[i].amount - hold[i].consumed)
                              ELSE 0
      BY <2>2, <2>4 DEF LegacyIn
    <3>3. hold'[i].consumed >= hold[i].consumed
      BY <1>3
    <3>. QED
      BY <2>1, <3>1, <3>2, <3>3 DEF PosPart
  <2>. QED
    BY <2>3, <2>4
<1>. QED
  BY <1>2, <1>3 DEF NoMoreFrozen

\* Only CreateHold freezes more.
IsCreateHold == \E h \in Holds, t \in Tasks, amount \in LegacyAmounts : CreateHold(h, t, amount)

\* The other operations on a hold freeze no more for any hold.
LEMMA FreezeHoldStep ==
    ASSUME TypeOK, NEW h \in Holds, HoldStep(h), ~IsCreateHold, NEW i \in Holds
    PROVE  NoMoreFrozen(i)
<1>0. hold \in [Holds -> HoldType] /\ hold[i] \in HoldType /\ hold[h] \in HoldType
  BY DEF TypeOK
<1>1. ASSUME hold'[i] = hold[i] PROVE NoMoreFrozen(i)
  BY <1>0, <1>1 DEF NoMoreFrozen, HoldType
<1>2. ASSUME NEW t \in Tasks, NEW calls \in [Capabilities -> CallCounts],
             QuoteCapabilities(h, t, calls)
      PROVE  NoMoreFrozen(i)
  <2>1. PICK amount :
          hold' = [hold EXCEPT ![h] =
             [NoHold EXCEPT !.status = "quoted", !.v2 = TRUE, !.task = t, !.amount = amount,
                            !.prices = price, !.expires = now + QuoteTTL]]
    BY <1>2, Zenon DEF QuoteCapabilities
  <2>2. hold'[i] = hold[i] \/ hold'[i].status = "quoted"
    BY <1>0, <2>1 DEF NoHold
  <2>. QED
    BY <1>1, <2>2 DEF NoMoreFrozen
<1>3. ASSUME NEW maxTotal \in Totals, Confirm(h, maxTotal)
      PROVE  NoMoreFrozen(i)
  <2>. DEFINE hs == SettledForTask(hold[h].task)
  <2>1. PICK alloc :
          hold' = [hs EXCEPT ![h] =
             [hs[h] EXCEPT !.status = "open", !.amount = maxTotal, !.alloc = alloc,
                           !.rank = Ends, !.expires = now + HoldTTL,
                           !.priceExpires = now + PriceTTL]]
    BY <1>3, Zenon DEF Confirm
  <2>2. hs \in [Holds -> HoldType] /\ hs[h] \in HoldType
    BY SettledType
  <2>3. hs[i] = hold[i] \/ hs[i].status = "settled"
    BY <1>0 DEF SettledForTask, HoldType
  <2>4. hs[h].v2
    BY <1>0, <1>3 DEF SettledForTask, HoldType, Confirm
  <2>. HIDE DEF hs
  <2>5. CASE i = h
    <3>1. hold'[i].v2
      BY <2>1, <2>2, <2>4, <2>5 DEF HoldType
    <3>. QED
      BY <3>1 DEF NoMoreFrozen
  <2>6. CASE i # h
    <3>1. hold'[i] = hs[i]
      BY <2>1, <2>2, <2>6
    <3>. QED
      BY <1>1, <2>3, <3>1 DEF NoMoreFrozen
  <2>. QED
    BY <2>5, <2>6
<1>4. ASSUME NEW t \in Tasks, NEW amount \in LegacyAmounts, CreateHold(h, t, amount)
      PROVE  NoMoreFrozen(i)
  BY <1>4 DEF IsCreateHold
<1>5. CASE Heartbeat(h)
  <2>1. OpenNow(hold[h]) /\ hold' = [hold EXCEPT ![h].expires = now + HoldTTL]
    BY <1>5 DEF Heartbeat
  <2>2. CASE i = h
    <3>1. hold'[h] = [hold[h] EXCEPT !.expires = now + HoldTTL]
      BY <1>0, <2>1
    <3>2. /\ hold'[h].v2 = hold[h].v2 /\ hold'[h].amount = hold[h].amount
          /\ hold'[h].consumed = hold[h].consumed /\ hold[h].consumed \in Nat
      BY <1>0, <3>1 DEF HoldType
    <3>. QED
      BY <2>1, <2>2, <3>2 DEF NoMoreFrozen
  <2>. QED
    BY <1>0, <1>1, <2>1, <2>2
<1>6. CASE Settle(h) \/ ExpireHold(h)
  <2>1. hold'[i] = hold[i] \/ hold'[i].status # "open"
    BY <1>0, <1>6 DEF Settle, ExpireHold, HoldType
  <2>. QED
    BY <1>1, <2>1 DEF NoMoreFrozen
<1>. QED
  BY <1>2, <1>3, <1>4, <1>5, <1>6 DEF HoldStep

\* Nor do the transactions of the gateway: they move funds, or consume them.
LEMMA FreezeRequestStep ==
    ASSUME TypeOK, NEW r \in Requests, RequestStep(r), NEW i \in Holds
    PROVE  NoMoreFrozen(i)
<1>0. hold \in [Holds -> HoldType] /\ hold[i] \in HoldType
  BY DEF TypeOK
<1>1. ASSUME hold'[i] = hold[i] PROVE NoMoreFrozen(i)
  BY <1>0, <1>1 DEF NoMoreFrozen, HoldType
<1>2. ASSUME NEW x, hold'[i] = [hold[i] EXCEPT !.alloc = x] PROVE NoMoreFrozen(i)
  <2>1. /\ hold'[i].v2 = hold[i].v2 /\ hold'[i].amount = hold[i].amount
        /\ hold'[i].consumed = hold[i].consumed /\ hold[i].consumed \in Nat
        /\ hold'[i].status = hold[i].status /\ hold'[i].expires = hold[i].expires
    BY <1>0, <1>2 DEF HoldType
  <2>. QED
    BY <2>1 DEF NoMoreFrozen
<1>3. ASSUME NEW c \in Capabilities, NEW h \in Holds, AcceptPerCall(r, c, h)
      PROVE  NoMoreFrozen(i)
  <2>1. PICK x : hold' = [hold EXCEPT ![h].alloc = x]
    BY <1>3, Zenon DEF AcceptPerCall
  <2>2. hold'[i] = hold[i] \/ hold'[i] = [hold[i] EXCEPT !.alloc = x]
    BY <1>0, <2>1
  <2>. QED
    BY <1>1, <1>2, <2>2
<1>4. CASE SettleDebit(r)
  <2>. DEFINE h == req[r].auth
              n == hold[i].consumed + req[r].unit
  <2>1. hold' = [hold EXCEPT ![h].consumed = @ + req[r].unit]
    BY <1>4 DEF SettleDebit
  <2>2. hold'[i] = hold[i] \/ hold'[i] = [hold[i] EXCEPT !.consumed = n]
    BY <1>0, <2>1
  <2>3. n \in Nat /\ n >= hold[i].consumed
    BY <1>0 DEF HoldType, TypeOK, RequestType
  <2>. HIDE DEF n
  <2>4. ASSUME hold'[i] = [hold[i] EXCEPT !.consumed = n]
        PROVE  /\ hold'[i].v2 = hold[i].v2 /\ hold'[i].amount = hold[i].amount
               /\ hold'[i].consumed = n
               /\ hold'[i].status = hold[i].status /\ hold'[i].expires = hold[i].expires
    BY <1>0, <2>4 DEF HoldType
  <2>. QED
    BY <1>1, <2>2, <2>3, <2>4 DEF NoMoreFrozen
<1>5. CASE FailV2(r) \/ SettleTooLate(r) \/ SettleFree(r)
  <2>1. hold' = HoldsAfterRelease(r)
    BY <1>5 DEF FailV2, SettleTooLate, SettleFree, Released
  <2>2. hold'[i] = hold[i] \/ \E x : hold'[i] = [hold[i] EXCEPT !.alloc = x]
    BY <2>1, Zenon DEF HoldsAfterRelease
  <2>. QED
    BY <1>1, <1>2, <2>2
<1>6. ASSUME NEW t \in Tasks, NEW c \in Capabilities, AcceptIncluded(r, t, c)
      PROVE  NoMoreFrozen(i)
  BY <1>1, <1>6 DEF AcceptIncluded
<1>7. CASE Persist(r)
  BY <1>1, <1>7 DEF Persist
<1>. QED
  BY <1>3, <1>4, <1>5, <1>6, <1>7 DEF RequestStep

\* A hold that any other step changes freezes no more afterwards.
LEMMA NothingMoreFrozen ==
    ASSUME TypeOK, [Next]_vars, TypeOK', ~IsCreateHold
    PROVE  LegacyReserved(hold)' <= LegacyReserved(hold)
<1>1. now' >= now
  <2>1. now' = now \/ now' = now + 1
    BY DEF Next, HoldStep, QuoteCapabilities, Confirm, CreateHold, Heartbeat, Settle, ExpireHold,
       RequestStep, AcceptIncluded, AcceptPerCall, Persist, FailV2, SettleTooLate, SettleFree,
       SettleDebit, Released, AdminStep, Refund, AdminGrant, ExtendBucket, RevokeBucket,
       ChangePrice, ExpireSubscriptions, Tick, vars
  <2>. QED
    BY <2>1 DEF TypeOK
<1>2. ASSUME NEW i \in Holds PROVE NoMoreFrozen(i)
  <2>1. CASE hold' = hold
    BY <2>1 DEF NoMoreFrozen, TypeOK, HoldType
  <2>2. CASE \E h \in Holds : HoldStep(h)
    BY <2>2, FreezeHoldStep
  <2>3. CASE \E r \in Requests : RequestStep(r)
    BY <2>3, FreezeRequestStep
  <2>. QED
    BY <2>1, <2>2, <2>3 DEF Next, AdminStep, Refund, AdminGrant, ExtendBucket, RevokeBucket,
       ChangePrice, ExpireSubscriptions, Tick, vars
<1>3. \A i \in Holds : LegacyIn(hold)'[i] <= LegacyIn(hold)[i]
  BY <1>1, <1>2, FreezeRow
<1>4. /\ LegacyIn(hold) \in [Holds -> Nat] /\ LegacyIn(hold)' \in [Holds -> Nat]
      /\ LegacyReserved(hold) = Sum(LegacyIn(hold))
      /\ LegacyReserved(hold)' = Sum(LegacyIn(hold)')
  BY LegacyType, FreezeTypeNext, Zenon DEF TypeOK
<1>5. Sum(LegacyIn(hold)') <= Sum(LegacyIn(hold))
  BY <1>3, <1>4, SumMonotone, RowsAssumption, Zenon
<1>. QED
  BY <1>4, <1>5

\* Nor is less free, while the same buckets are active.
LEMMA NothingLessFree ==
    ASSUME TypeOK, TypeOK', Active' = Active, \A b \in Buckets : HeadroomKept(b)
    PROVE  Sum(Free(hold)) <= Sum(Free(hold)')
<1>1. Free(hold) \in [Buckets -> Nat] /\ Free(hold)' \in [Buckets -> Nat]
  BY ReservedType, FreezeTypeNext, Zenon DEF TypeOK
<1>2. ASSUME NEW b \in Buckets
      PROVE  Free(hold)[b] <= Free(hold)'[b]
  <2>1. /\ Free(hold)[b] = IF b \in Active THEN PosPart(Headroom(b)) ELSE 0
        /\ Free(hold)'[b] = IF b \in Active THEN PosPart(Headroom(b)') ELSE 0
    BY DEF Free, Headroom
  <2>2. Headroom(b) \in Int /\ Headroom(b)' \in Int /\ Headroom(b)' >= Headroom(b)
    <3>1. Reserved(hold, b) \in Nat
      BY ReservedType DEF TypeOK
    <3>2. Reserved(hold, b)' \in Nat
      <4>1. /\ Sum(HeldIn(hold, b)') \in Nat /\ Sum(AcceptedIn(b)') \in Nat
            /\ Reserved(hold, b)' = Sum(HeldIn(hold, b)') + Sum(AcceptedIn(b)')
        BY ReservedTypeNext, Zenon
      <4>. QED
        BY <4>1
    <3>3. /\ bucket[b].used \in Nat /\ bucket[b].total \in Nat
          /\ bucket'[b].used \in Nat /\ bucket'[b].total \in Nat
      BY DEF TypeOK, BucketType
    <3>4. Headroom(b)' >= Headroom(b)
      BY DEF HeadroomKept
    <3>. QED
      BY <3>1, <3>2, <3>3, <3>4 DEF Headroom
  <2>. QED
    BY <2>1, <2>2 DEF PosPart
<1>. QED
  BY <1>1, <1>2, SumMonotone, RowsAssumption, Zenon

\* CreateHold: what the active buckets have left covers the old freezes and its own.
LEMMA CreateHoldCovered ==
    ASSUME FundsInv, [Next]_vars, TypeOK', NEW h \in Holds, NEW t \in Tasks,
           NEW amount \in LegacyAmounts, CreateHold(h, t, amount), Active' = Active
    PROVE  Covered'
<1>. DEFINE left == [b \in Active |-> Remaining(b)]
            held == [b \in Active |-> Reserved(hold, b)]
            free == [b \in Active |-> Free(hold)[b]]
<1>0. TypeOK /\ NoOvercommit /\ hold \in [Holds -> HoldType] /\ amount \in Nat /\ now \in Nat
  BY AmountsAssumption DEF FundsInv, TypeOK
<1>1. Active \in SUBSET Buckets /\ IsFiniteSet(Active)
  <2>1. Active \subseteq Buckets
    BY DEF Active
  <2>. QED
    BY <2>1, FS_Subset, RowsAssumption
<1>2. Free(hold) \in [Buckets -> Nat] /\ \A b \in Buckets : Reserved(hold, b) \in Nat
  BY <1>0, ReservedType, Zenon
<1>3. left \in [Active -> Nat] /\ held \in [Active -> Nat] /\ free \in [Active -> Nat]
  <2>1. \A b \in Buckets : bucket[b].total - bucket[b].used \in Int
    BY <1>0 DEF TypeOK, BucketType
  <2>2. \A b \in Active : Remaining(b) \in Nat
    BY <1>1, <2>1 DEF Remaining, PosPart
  <2>. QED
    BY <1>1, <1>2, <2>2
<1>4. \A b \in Active : left[b] = free[b] + held[b]
  <2>1. ASSUME NEW b \in Active
        PROVE  Remaining(b) = Free(hold)[b] + Reserved(hold, b)
    <3>1. bucket[b].used \in Nat /\ bucket[b].total \in Nat /\ Reserved(hold, b) \in Nat
      BY <1>0, <1>1, <1>2 DEF TypeOK, BucketType
    <3>2. bucket[b].used + Reserved(hold, b) <= bucket[b].total
      BY <1>0, <1>1 DEF NoOvercommit
    <3>3. Free(hold)[b] = PosPart(bucket[b].total - bucket[b].used - Reserved(hold, b))
      BY <1>1 DEF Free
    <3>. QED
      BY <3>1, <3>2, <3>3 DEF Remaining, PosPart
  <2>. QED
    BY <2>1
<1>5. Sum(free) \in Nat /\ Sum(held) \in Nat /\ Sum(left) = Sum(free) + Sum(held)
  <2>. HIDE DEF left, held, free
  <2>1. left = [b \in Active |-> free[b] + held[b]]
    BY <1>3, <1>4
  <2>2. Sum([b \in Active |-> free[b] + held[b]]) = Sum(free) + Sum(held)
    BY <1>1, <1>3, SumPlus, Zenon
  <2>. QED
    BY <1>1, <1>3, <2>1, <2>2, SumType, Zenon
<1>6. Sum(Free(hold)) = Sum(free)
  <2>1. (\A b \in Active : Free(hold)[b] = free[b])
        /\ \A b \in Buckets \ Active : Free(hold)[b] = 0
    BY DEF Free
  <2>. HIDE DEF free
  <2>. QED
    BY <1>1, <1>2, <1>3, <2>1, SumRestrict
<1>7. Sum(Free(hold)) <= Sum(Free(hold)')
  <2>1. ~IsConfirm
    <3>1. PICK new : hold' = [hold EXCEPT ![h] = [NoHold EXCEPT !.status = "open", !.task = t,
                                                    !.amount = amount, !.expires = new]]
      BY Zenon DEF CreateHold
    <3>2. \A i \in Holds : hold'[i].v2 => hold'[i] = hold[i]
      BY <1>0, <3>1 DEF NoHold
    <3>3. ASSUME NEW i \in Holds, NEW maxTotal \in Totals, Confirm(i, maxTotal)
          PROVE  hold'[i].v2 /\ hold'[i].status = "open" /\ hold[i].status = "quoted"
      <4>. DEFINE hs == SettledForTask(hold[i].task)
      <4>1. PICK alloc :
              hold' = [hs EXCEPT ![i] =
                 [hs[i] EXCEPT !.status = "open", !.amount = maxTotal, !.alloc = alloc,
                               !.rank = Ends, !.expires = now + HoldTTL,
                               !.priceExpires = now + PriceTTL]]
        BY <3>3, Zenon DEF Confirm
      <4>2. hs \in [Holds -> HoldType] /\ hs[i] \in HoldType
        BY <1>0, SettledType
      <4>3. hs[i].v2 /\ hold[i].status = "quoted"
        BY <1>0, <3>3 DEF SettledForTask, HoldType, Confirm
      <4>. HIDE DEF hs
      <4>. QED
        BY <4>1, <4>2, <4>3 DEF HoldType
    <3>. QED
      BY <3>2, <3>3 DEF IsConfirm
  <2>2. \A b \in Buckets : HeadroomKept(b)
    BY <2>1, HeadroomStep
  <2>. QED
    BY <1>0, <2>2, NothingLessFree
<1>8. LegacyReserved(hold)' <= LegacyReserved(hold) + amount
  <2>1. /\ LegacyIn(hold) \in [Holds -> Nat] /\ LegacyIn(hold)' \in [Holds -> Nat]
        /\ LegacyReserved(hold) = Sum(LegacyIn(hold)) /\ LegacyReserved(hold) \in Nat
        /\ LegacyReserved(hold)' = Sum(LegacyIn(hold)') /\ LegacyReserved(hold)' \in Nat
    BY <1>0, LegacyType, FreezeTypeNext, Zenon
  <2>2. now' = now /\ hold[h].status = "none"
        /\ hold' = [hold EXCEPT ![h] = [NoHold EXCEPT !.status = "open", !.task = t,
                                          !.amount = amount, !.expires = now + HoldTTL]]
    BY DEF CreateHold
  <2>3. LegacyIn(hold)[h] = 0
    BY <2>2 DEF LegacyIn, OpenNow
  <2>4. LegacyIn(hold)'[h] <= amount
    <3>1. hold'[h].amount = amount /\ hold'[h].consumed = 0
      BY <1>0, <2>2 DEF NoHold
    <3>2. LegacyIn(hold)'[h] \in {0, PosPart(amount - 0)}
      BY <3>1 DEF LegacyIn
    <3>. QED
      BY <1>0, <3>2 DEF PosPart
  <2>5. \A i \in Holds : i # h => LegacyIn(hold)'[i] = LegacyIn(hold)[i]
    BY <1>0, <2>2 DEF LegacyIn, OpenNow
  <2>6. Sum(LegacyIn(hold)') + LegacyIn(hold)[h] = Sum(LegacyIn(hold)) + LegacyIn(hold)'[h]
    BY <2>1, <2>5, SumChange, RowsAssumption
  <2>7. LegacyIn(hold)'[h] \in Nat
    BY <2>1
  <2>. QED
    BY <1>0, <2>1, <2>3, <2>4, <2>6, <2>7
<1>9. Sum(left) - LegacyReserved(hold) - Sum(held) >= amount
  BY DEF CreateHold
<1>10. LegacyReserved(hold) \in Nat /\ LegacyReserved(hold)' \in Nat /\ Sum(Free(hold)') \in Nat
  BY <1>0, LegacyType, FreezeTypeNext, Zenon
<1>. HIDE DEF left, held, free
<1>11. LegacyReserved(hold)' <= Sum(Free(hold)')
  BY <1>0, <1>5, <1>6, <1>7, <1>8, <1>9, <1>10
<1>. QED
  BY <1>11, Zenon DEF Covered

\* Confirm: what it kept of the free credits is still free, and that is the whole freeze.
LEMMA ConfirmCovered ==
    ASSUME FundsInv, TypeOK', NEW h \in Holds, NEW maxTotal \in Totals, Confirm(h, maxTotal),
           Covered
    PROVE  Covered'
<1>. DEFINE t == hold[h].task
            hs == SettledForTask(t)
            amount == maxTotal - Charged(t) - InFlight(t)
            free == Free(hs)
            froze == Least(LegacyReserved(hs), Sum(free))
            offer(kept) == [b \in Buckets |-> free[b] - kept[b]]
<1>0. TypeOK /\ NoOvercommit /\ hold \in [Holds -> HoldType] /\ now \in Nat
  BY DEF FundsInv, TypeOK
<1>1. hs \in [Holds -> HoldType] /\ hs[h] \in HoldType
  BY <1>0, SettledType
<1>2. amount \in Int
  BY <1>0, SumsOfRows, AmountsAssumption
<1>3. PICK alloc \in Allocations(hs, amount) :
          hold' = [hs EXCEPT ![h] =
             [hs[h] EXCEPT !.status = "open", !.amount = maxTotal, !.alloc = alloc,
                           !.rank = Ends, !.expires = now + HoldTTL,
                           !.priceExpires = now + PriceTTL]]
  BY Zenon DEF Confirm
<1>4. PICK kept \in InOrder(free, Ends, froze) : alloc \in InOrder(offer(kept), Ends, amount)
  BY Zenon DEF Allocations
<1>5. /\ \A i \in Holds : hs[i] = hold[i] \/ hs[i].status = "settled"
      /\ hs[h].v2 /\ hs[h].status = "quoted"
  BY <1>0 DEF SettledForTask, HoldType, Confirm
<1>6. now' = now /\ bucket' = bucket /\ req' = req /\ Active' = Active
  BY DEF Confirm, Active
<1>. HIDE DEF hs, amount
<1>7. free \in [Buckets -> Nat] /\ Free(hold) \in [Buckets -> Nat]
      /\ \A b \in Buckets : Reserved(hs, b) \in Nat /\ Reserved(hold, b) \in Nat
  BY <1>0, <1>1, ReservedType, Zenon
<1>8. /\ LegacyIn(hs) \in [Holds -> Nat] /\ LegacyReserved(hs) \in Nat
      /\ LegacyReserved(hs) = Sum(LegacyIn(hs))
      /\ LegacyIn(hold) \in [Holds -> Nat] /\ LegacyReserved(hold) \in Nat
      /\ LegacyReserved(hold) = Sum(LegacyIn(hold))
      /\ Sum(free) \in Nat /\ Sum(Free(hold)) \in Nat
  BY <1>0, <1>1, <1>7, LegacyType, SumType, RowsAssumption, Zenon
<1>9. /\ LegacyIn(hold)' \in [Holds -> Nat] /\ LegacyReserved(hold)' \in Nat
      /\ LegacyReserved(hold)' = Sum(LegacyIn(hold)')
      /\ Free(hold)' \in [Buckets -> Nat] /\ Sum(Free(hold)') \in Nat
  BY FreezeTypeNext, Zenon
\* What the task's other hold gave up only adds to what is free.
<1>10. LegacyReserved(hs) <= LegacyReserved(hold)
  <2>1. \A i \in Holds : LegacyIn(hs)[i] = LegacyIn(hold)[i] \/ LegacyIn(hs)[i] = 0
    BY <1>5 DEF LegacyIn, OpenNow
  <2>2. \A i \in Holds : LegacyIn(hs)[i] <= LegacyIn(hold)[i]
    BY <1>8, <2>1
  <2>3. Sum(LegacyIn(hs)) <= Sum(LegacyIn(hold))
    BY <1>8, <2>2, SumMonotone, RowsAssumption, Zenon
  <2>. QED
    BY <1>8, <2>3
<1>11. Sum(Free(hold)) <= Sum(free)
  <2>1. ASSUME NEW b \in Buckets
        PROVE  Free(hold)[b] <= free[b]
    <3>1. HeldIn(hs, b) \in [Holds -> Nat] /\ HeldIn(hold, b) \in [Holds -> Nat]
      BY <1>0, <1>1, ReservedType, Zenon
    <3>2. \A i \in Holds : HeldIn(hs, b)[i] = HeldIn(hold, b)[i] \/ HeldIn(hs, b)[i] = 0
      BY <1>5 DEF HeldIn, OpenNow
    <3>3. \A i \in Holds : HeldIn(hs, b)[i] <= HeldIn(hold, b)[i]
      BY <3>1, <3>2
    <3>4. Sum(HeldIn(hs, b)) <= Sum(HeldIn(hold, b))
      BY <3>1, <3>3, SumMonotone, RowsAssumption, Zenon
    <3>5. /\ Sum(HeldIn(hs, b)) \in Nat /\ Sum(HeldIn(hold, b)) \in Nat
          /\ Sum(AcceptedIn(b)) \in Nat
      BY <1>0, <1>1, ReservedType, Zenon
    <3>6. Reserved(hs, b) <= Reserved(hold, b)
      BY <3>4, <3>5 DEF Reserved
    <3>7. bucket[b].used \in Nat /\ bucket[b].total \in Nat
      BY <1>0 DEF TypeOK, BucketType
    <3>. QED
      BY <1>7, <3>6, <3>7 DEF Free, PosPart
  <2>. QED
    BY <1>7, <2>1, SumMonotone, RowsAssumption, Zenon
<1>. HIDE DEF free, froze
<1>12. LegacyReserved(hs) <= Sum(free) /\ froze = LegacyReserved(hs)
  <2>1. LegacyReserved(hold) <= Sum(Free(hold))
    BY Zenon DEF Covered
  <2>2. LegacyReserved(hs) <= Sum(free)
    BY <1>8, <1>10, <1>11, <2>1
  <2>. QED
    BY <1>8, <2>2 DEF froze, Least
<1>13. kept \in [Buckets -> Nat] /\ Sum(kept) = LegacyReserved(hs)
  <2>1. froze \in Int
    BY <1>8, <1>12
  <2>. QED
    BY <1>4, <1>12, <2>1, InOrderTakes
<1>14. /\ alloc \in [Buckets -> Nat]
       /\ \A b \in Buckets : alloc[b] + kept[b] <= free[b]
  <2>1. alloc \in [Buckets -> Nat] /\ \A b \in Buckets : alloc[b] <= offer(kept)[b]
    BY <1>2, <1>4, InOrderTakes
  <2>2. \A b \in Buckets : alloc[b] <= free[b] - kept[b]
    BY <2>1
  <2>. QED
    BY <1>7, <1>13, <2>1, <2>2
<1>15. Sum(kept) <= Sum(Free(hold)')
  <2>1. ASSUME NEW b \in Buckets
        PROVE  kept[b] <= Free(hold)'[b]
    <3>1. Reserved(hold, b)' <= Reserved(hs, b) + alloc[b] /\ Reserved(hold, b)' \in Nat
      <4>1. /\ HeldIn(hs, b) \in [Holds -> Nat] /\ Sum(HeldIn(hs, b)) \in Nat
            /\ Sum(AcceptedIn(b)) \in Nat
        BY <1>0, <1>1, ReservedType, Zenon
      <4>2. /\ HeldIn(hold, b)' \in [Holds -> Nat] /\ Sum(HeldIn(hold, b)') \in Nat
            /\ Reserved(hold, b)' = Sum(HeldIn(hold, b)') + Sum(AcceptedIn(b)')
        BY ReservedTypeNext, Zenon
      <4>3. AcceptedIn(b)' = AcceptedIn(b)
        BY <1>6 DEF AcceptedIn
      <4>4. \A i \in Holds : i # h => HeldIn(hold, b)'[i] = HeldIn(hs, b)[i]
        BY <1>1, <1>3, <1>6 DEF HeldIn, OpenNow
      <4>5. HeldIn(hold, b)'[h] <= alloc[b]
        BY <1>1, <1>3, <1>14 DEF HeldIn
      <4>6. Sum(HeldIn(hold, b)') + HeldIn(hs, b)[h] = Sum(HeldIn(hs, b)) + HeldIn(hold, b)'[h]
        BY <4>1, <4>2, <4>4, SumChange, RowsAssumption
      <4>7. HeldIn(hs, b)[h] \in Nat /\ HeldIn(hold, b)'[h] \in Nat /\ alloc[b] \in Nat
        BY <1>14, <4>1, <4>2
      <4>. QED
        BY <4>1, <4>2, <4>3, <4>5, <4>6, <4>7 DEF Reserved
    <3>2. /\ bucket[b].used \in Nat /\ bucket[b].total \in Nat /\ Reserved(hs, b) \in Nat
          /\ kept[b] \in Nat /\ alloc[b] \in Nat /\ alloc[b] + kept[b] <= free[b]
      BY <1>0, <1>7, <1>13, <1>14 DEF TypeOK, BucketType
    <3>3. free[b] = IF b \in Active
                    THEN PosPart(bucket[b].total - bucket[b].used - Reserved(hs, b)) ELSE 0
      BY DEF free, Free
    <3>4. Free(hold)'[b] = IF b \in Active
                           THEN PosPart(bucket[b].total - bucket[b].used - Reserved(hold, b)')
                           ELSE 0
      BY <1>6 DEF Free
    <3>. QED
      BY <3>1, <3>2, <3>3, <3>4 DEF PosPart
  <2>. QED
    BY <1>9, <1>13, <2>1, SumMonotone, RowsAssumption, Zenon
<1>16. LegacyReserved(hold)' <= LegacyReserved(hs)
  <2>1. \A i \in Holds : i # h => LegacyIn(hold)'[i] = LegacyIn(hs)[i]
    BY <1>1, <1>3, <1>6 DEF LegacyIn, OpenNow
  <2>2. LegacyIn(hold)'[h] = 0
    <3>1. hold'[h].v2
      BY <1>1, <1>3, <1>5 DEF HoldType
    <3>. QED
      BY <3>1 DEF LegacyIn
  <2>3. \A i \in Holds : LegacyIn(hold)'[i] <= LegacyIn(hs)[i]
    BY <1>8, <2>1, <2>2
  <2>4. Sum(LegacyIn(hold)') <= Sum(LegacyIn(hs))
    BY <1>8, <1>9, <2>3, SumMonotone, RowsAssumption, Zenon
  <2>. QED
    BY <1>8, <1>9, <2>4
<1>17. LegacyReserved(hold)' <= Sum(Free(hold)')
  BY <1>8, <1>9, <1>13, <1>15, <1>16
<1>. QED
  BY <1>17, Zenon DEF Covered

\* The three kinds of steps together.
LEMMA CoveredStep ==
    ASSUME FundsInv, [Next]_vars, Covered, Active' = Active
    PROVE  Covered'
<1>0. TypeOK /\ TypeOK'
  BY TypeStep DEF FundsInv
<1>1. CASE IsConfirm
  BY <1>0, <1>1, ConfirmCovered DEF IsConfirm
<1>2. CASE IsCreateHold
  BY <1>0, <1>2, CreateHoldCovered DEF IsCreateHold
<1>3. CASE ~IsConfirm /\ ~IsCreateHold
  <2>1. \A b \in Buckets : HeadroomKept(b)
    BY <1>0, <1>3, HeadroomStep
  <2>2. Sum(Free(hold)) <= Sum(Free(hold)') /\ LegacyReserved(hold)' <= LegacyReserved(hold)
    BY <1>0, <1>3, <2>1, NothingLessFree, NothingMoreFrozen
  <2>3. Sum(Free(hold)) \in Nat /\ LegacyReserved(hold) \in Nat
    BY <1>0, ReservedType, LegacyType, SumType, RowsAssumption, Zenon DEF TypeOK
  <2>4. Sum(Free(hold)') \in Nat /\ LegacyReserved(hold)' \in Nat
    BY <1>0, FreezeTypeNext, Zenon
  <2>5. LegacyReserved(hold) <= Sum(Free(hold))
    BY Zenon DEF Covered
  <2>6. LegacyReserved(hold)' <= Sum(Free(hold)')
    BY <2>2, <2>3, <2>4, <2>5
  <2>. QED
    BY <2>6, Zenon DEF Covered
<1>. QED
  BY <1>1, <1>2, <1>3

\* Once covered, the freeze of the legacy holds stays covered until a bucket ends, is
\* revoked or comes to life: no quote, confirmation, acceptance, release or charge of the
\* new policy spends what an old client still in flight was promised.
THEOREM LegacyFreezeKept == Spec => LegacyStaysCovered
<1>1. FundsInv /\ [Next]_vars => [Covered /\ Active' = Active => Covered']_vars
  BY CoveredStep
<1>. QED
  BY <1>1, FundsInit, FundsStep, PTL DEF Spec, LegacyStaysCovered

-----------------------------------------------------------------------------
\* A request is charged once and exactly.

\* The authorization of a per-call request still shows the price that was quoted.
QuotedPrice(r) ==
    req[r].mode = "per_call" =>
      /\ req[r].auth \in Holds /\ req[r].cap \in Capabilities
      /\ hold[req[r].auth].status # "none"
      /\ req[r].unit = hold[req[r].auth].prices[req[r].cap].credits
      /\ req[r].unit > 0

\* One request's part of ChargedExactly, and what keeps it true.
ChargeOf(r) ==
    /\ req[r].status = "ok" /\ ~IsFree(r) =>
         req[r].credits = req[r].unit /\ Sum(debit[r]) = req[r].unit
    /\ ~(req[r].status = "ok" /\ ~IsFree(r)) => req[r].credits = 0 /\ debit[r] = Zero
    /\ req[r].status \in {"none", "ok", "failed"} => req[r].reserved = 0 /\ req[r].alloc = Zero
    /\ QuotedPrice(r)

ChargesInv ==
    /\ TypeOK
    /\ \A c \in Capabilities : ValidPrice(price[c])
    /\ \A r \in Requests : ChargeOf(r)

\* Nothing is charged at first.
LEMMA ChargesInit == Init => ChargesInv
<1>. SUFFICES ASSUME Init PROVE ChargesInv
  OBVIOUS
<1>1. TypeOK
  BY TypeInit
<1>2. \A c \in Capabilities : ValidPrice(price[c])
  BY PricesAssumption DEF Init
<1>3. ASSUME NEW r \in Requests PROVE ChargeOf(r)
  BY DEF Init, ChargeOf, QuotedPrice, NoRequest
<1>. QED
  BY <1>1, <1>2, <1>3 DEF ChargesInv

\* A quote never changes once it is made.
QuoteKept(h) ==
    hold[h].status # "none" => hold'[h].status # "none" /\ hold'[h].prices = hold[h].prices

\* No step rewrites the prices of a quote, so that a request is charged what it showed.
LEMMA QuotesKept ==
    ASSUME TypeOK, [Next]_vars, NEW i \in Holds
    PROVE  QuoteKept(i)
<1>0. hold[i] \in HoldType /\ hold \in [Holds -> HoldType]
  BY DEF TypeOK
<1>1. ASSUME hold' = hold PROVE QuoteKept(i)
  BY <1>1 DEF QuoteKept
<1>2. ASSUME NEW x, hold'[i] = [hold[i] EXCEPT !.alloc = x] PROVE QuoteKept(i)
  BY <1>0, <1>2 DEF QuoteKept, HoldType
<1>3. ASSUME NEW h \in Holds, HoldStep(h) PROVE QuoteKept(i)
  <2>1. ASSUME NEW t \in Tasks, NEW calls \in [Capabilities -> CallCounts],
               QuoteCapabilities(h, t, calls)
        PROVE  QuoteKept(i)
    BY <1>0, <2>1 DEF QuoteCapabilities, QuoteKept
  <2>2. ASSUME NEW maxTotal \in Totals, Confirm(h, maxTotal)
        PROVE  QuoteKept(i)
    <3>. DEFINE hs == SettledForTask(hold[h].task)
    <3>1. PICK alloc :
            hold' = [hs EXCEPT ![h] =
               [hs[h] EXCEPT !.status = "open", !.amount = maxTotal, !.alloc = alloc,
                             !.rank = Ends, !.expires = now + HoldTTL,
                             !.priceExpires = now + PriceTTL]]
      BY <2>2, Zenon DEF Confirm
    <3>2. hs \in [Holds -> HoldType]
      BY SettledType
    <3>3. hs[i].prices = hold[i].prices /\ (hold[i].status # "none" => hs[i].status # "none")
      BY <1>0 DEF SettledForTask, HoldType
    <3>. HIDE DEF hs
    <3>4. hold'[i] = hs[i] \/ (hold'[i].status = "open" /\ hold'[i].prices = hs[i].prices)
      <4>1. hs[i] \in HoldType
        BY <3>2
      <4>. QED
        BY <3>1, <3>2, <4>1 DEF HoldType
    <3>. QED
      BY <3>3, <3>4 DEF QuoteKept
  <2>3. ASSUME NEW t \in Tasks, NEW amount \in LegacyAmounts, CreateHold(h, t, amount)
        PROVE  QuoteKept(i)
    BY <1>0, <2>3 DEF CreateHold, QuoteKept
  <2>4. CASE Heartbeat(h)
    BY <1>0, <2>4 DEF Heartbeat, QuoteKept, HoldType
  <2>5. CASE Settle(h)
    BY <1>0, <2>5 DEF Settle, QuoteKept, HoldType
  <2>6. CASE ExpireHold(h)
    BY <1>0, <2>6 DEF ExpireHold, QuoteKept, HoldType
  <2>. QED
    BY <1>3, <2>1, <2>2, <2>3, <2>4, <2>5, <2>6 DEF HoldStep
<1>4. ASSUME NEW r \in Requests, hold' = HoldsAfterRelease(r) PROVE QuoteKept(i)
  <2>1. hold'[i] = hold[i] \/ \E x : hold'[i] = [hold[i] EXCEPT !.alloc = x]
    BY <1>4, Zenon DEF HoldsAfterRelease
  <2>. QED
    BY <1>2, <2>1 DEF QuoteKept
<1>5. ASSUME NEW r \in Requests, RequestStep(r) PROVE QuoteKept(i)
  <2>1. ASSUME NEW c \in Capabilities, NEW h \in Holds, AcceptPerCall(r, c, h)
        PROVE  QuoteKept(i)
    <3>1. PICK x : hold' = [hold EXCEPT ![h].alloc = x]
      BY <2>1, Zenon DEF AcceptPerCall
    <3>. QED
      BY <1>0, <1>2, <3>1 DEF QuoteKept
  <2>2. CASE SettleDebit(r)
    BY <1>0, <2>2 DEF SettleDebit, QuoteKept, HoldType
  <2>3. CASE FailV2(r) \/ SettleTooLate(r) \/ SettleFree(r)
    BY <1>4, <2>3 DEF FailV2, SettleTooLate, SettleFree, Released
  <2>4. ASSUME NEW t \in Tasks, NEW c \in Capabilities, AcceptIncluded(r, t, c)
        PROVE  QuoteKept(i)
    BY <1>1, <2>4 DEF AcceptIncluded
  <2>5. CASE Persist(r)
    BY <1>1, <2>5 DEF Persist
  <2>. QED
    BY <1>5, <2>1, <2>2, <2>3, <2>4, <2>5 DEF RequestStep
<1>6. CASE AdminStep
  BY <1>1, <1>6, AdminStepKeeps
<1>7. CASE ExpireSubscriptions \/ Tick \/ UNCHANGED vars
  BY <1>1, <1>7 DEF ExpireSubscriptions, Tick, vars
<1>. QED
  BY <1>3, <1>5, <1>6, <1>7 DEF Next

\* A request that a step leaves alone stays charged as it was.
LEMMA ChargeKept ==
    ASSUME ChargesInv, [Next]_vars, NEW r \in Requests,
           req'[r] = req[r], debit'[r] = debit[r]
    PROVE  ChargeOf(r)'
<1>1. TypeOK /\ ChargeOf(r)
  BY DEF ChargesInv
<1>2. QuotedPrice(r)'
  <2>. SUFFICES ASSUME req[r].mode = "per_call"
                PROVE  /\ req[r].auth \in Holds /\ req[r].cap \in Capabilities
                       /\ hold'[req[r].auth].status # "none"
                       /\ req[r].unit = hold'[req[r].auth].prices[req[r].cap].credits
                       /\ req[r].unit > 0
    BY DEF QuotedPrice
  <2>1. QuoteKept(req[r].auth) /\ QuotedPrice(r)
    BY <1>1, QuotesKept DEF ChargeOf, QuotedPrice
  <2>. QED
    BY <2>1 DEF QuoteKept, QuotedPrice
<1>. QED
  BY <1>1, <1>2 DEF ChargeOf, IsFree

\* A transaction that ends r without charging it.
LEMMA ReleasedUncharged ==
    ASSUME ChargesInv, [Next]_vars, NEW r \in Requests, NEW s \in {"ok", "failed"},
           Released(r, s), req[r].status \in {"pending", "settlement_pending"},
           s = "ok" => IsFree(r)
    PROVE  ChargeOf(r)'
<1>0. TypeOK /\ ChargeOf(r) /\ req[r] \in RequestType
  BY DEF ChargesInv, TypeOK
<1>1. req'[r] = [req[r] EXCEPT !.status = s, !.reserved = 0, !.alloc = Zero]
  BY <1>0 DEF Released, TypeOK
<1>2. /\ req'[r].status = s /\ req'[r].reserved = 0 /\ req'[r].alloc = Zero
      /\ req'[r].credits = req[r].credits /\ req'[r].unit = req[r].unit
      /\ req'[r].mode = req[r].mode /\ req'[r].usable = req[r].usable
      /\ req'[r].auth = req[r].auth /\ req'[r].cap = req[r].cap
  BY <1>0, <1>1 DEF RequestType
<1>3. debit'[r] = debit[r]
  BY DEF Released
<1>4. req[r].credits = 0 /\ debit[r] = Zero
  BY <1>0 DEF ChargeOf
<1>5. QuotedPrice(r)'
  <2>1. req[r].mode = "per_call" => QuoteKept(req[r].auth) /\ QuotedPrice(r)
    BY <1>0, QuotesKept DEF ChargeOf, QuotedPrice
  <2>. QED
    BY <1>2, <2>1 DEF QuoteKept, QuotedPrice
<1>6. ~(req'[r].status = "ok" /\ ~IsFree(r)')
  BY <1>2 DEF IsFree
<1>. QED
  BY <1>2, <1>3, <1>4, <1>5, <1>6 DEF ChargeOf

\* Each transaction of the gateway keeps its request charged exactly or not at all.
LEMMA RequestStepCharges ==
    ASSUME ChargesInv, [Next]_vars, NEW r \in Requests, RequestStep(r)
    PROVE  ChargeOf(r)'
<1>0. TypeOK /\ ChargeOf(r) /\ req[r] \in RequestType
  BY DEF ChargesInv, TypeOK
<1>1. ASSUME NEW t \in Tasks, NEW c \in Capabilities, AcceptIncluded(r, t, c)
      PROVE  ChargeOf(r)'
  <2>1. /\ req'[r] = [NoRequest EXCEPT !.status = "pending", !.task = t, !.cap = c]
        /\ debit'[r] = debit[r] /\ req[r].status = "none"
    BY <1>0, <1>1 DEF AcceptIncluded, TypeOK
  <2>2. debit[r] = Zero
    BY <1>0, <2>1 DEF ChargeOf
  <2>. QED
    BY <2>1, <2>2 DEF ChargeOf, QuotedPrice, NoRequest
<1>2. ASSUME NEW c \in Capabilities, NEW h \in Holds, AcceptPerCall(r, c, h)
      PROVE  ChargeOf(r)'
  <2>. DEFINE unit == hold[h].prices[c].credits
  <2>1. PICK take :
          req'[r] = [NoRequest EXCEPT !.status = "pending", !.task = hold[h].task, !.cap = c,
                                      !.mode = "per_call", !.auth = h, !.unit = unit,
                                      !.reserved = unit, !.alloc = take]
    <3>1. req \in [Requests -> RequestType]
      BY <1>0 DEF TypeOK
    <3>2. PICK take :
            req' = [req EXCEPT ![r] =
               [NoRequest EXCEPT !.status = "pending", !.task = hold[h].task, !.cap = c,
                                 !.mode = "per_call", !.auth = h, !.unit = unit,
                                 !.reserved = unit, !.alloc = take]]
      BY <1>2, Zenon DEF AcceptPerCall
    <3>. HIDE DEF unit
    <3>. QED
      BY <3>1, <3>2
  <2>2. debit'[r] = debit[r] /\ req[r].status = "none"
    BY <1>2 DEF AcceptPerCall
  <2>3. debit[r] = Zero
    BY <1>0, <2>2 DEF ChargeOf
  <2>4. unit > 0
    <3>1. price[c].mode = "per_call" /\ unit = price[c].credits
      BY <1>2 DEF AcceptPerCall
    <3>2. price[c].credits \in Nat /\ ValidPrice(price[c])
      BY DEF ChargesInv, TypeOK, Price
    <3>. QED
      BY <3>1, <3>2 DEF ValidPrice
  <2>5. hold'[h].status # "none" /\ hold'[h].prices[c].credits = unit
    <3>1. hold[h].status = "open"
      BY <1>2 DEF AcceptPerCall, OpenNow
    <3>. QED
      BY <1>0, <3>1, QuotesKept DEF QuoteKept
  <2>. HIDE DEF unit
  <2>6. QuotedPrice(r)'
    BY <2>1, <2>4, <2>5 DEF QuotedPrice, NoRequest
  <2>. QED
    BY <2>1, <2>2, <2>3, <2>6 DEF ChargeOf, NoRequest
<1>3. CASE Persist(r)
  <2>1. /\ req'[r].status = "settlement_pending" /\ debit'[r] = debit[r]
        /\ req'[r].reserved = req[r].reserved /\ req'[r].alloc = req[r].alloc
        /\ req'[r].credits = req[r].credits /\ req'[r].unit = req[r].unit
        /\ req'[r].mode = req[r].mode /\ req'[r].auth = req[r].auth
        /\ req'[r].cap = req[r].cap /\ req[r].status = "pending"
    <3>1. PICK u :
            req'[r] = [req[r] EXCEPT !.status = "settlement_pending", !.usable = u,
                                     !.cacheExpires = now + CacheTTL]
      BY <1>0, <1>3 DEF Persist, TypeOK
    <3>. QED
      BY <1>0, <1>3, <3>1 DEF Persist, RequestType
  <2>2. QuotedPrice(r)'
    <3>1. req[r].mode = "per_call" => QuoteKept(req[r].auth) /\ QuotedPrice(r)
      BY <1>0, QuotesKept DEF ChargeOf, QuotedPrice
    <3>. QED
      BY <2>1, <3>1 DEF QuoteKept, QuotedPrice
  <2>. QED
    BY <1>0, <2>1, <2>2 DEF ChargeOf
<1>4. CASE FailV2(r)
  BY <1>4, ReleasedUncharged DEF FailV2
<1>5. CASE SettleTooLate(r)
  BY <1>5, ReleasedUncharged DEF SettleTooLate
<1>6. CASE SettleFree(r)
  BY <1>6, ReleasedUncharged DEF SettleFree
<1>7. CASE SettleDebit(r)
  <2>1. /\ req'[r].status = "ok" /\ req'[r].credits = req[r].unit
        /\ req'[r].reserved = 0 /\ req'[r].alloc = Zero
        /\ req'[r].unit = req[r].unit /\ req'[r].usable = req[r].usable
        /\ req'[r].mode = req[r].mode /\ req'[r].auth = req[r].auth
        /\ req'[r].cap = req[r].cap
    <3>1. req'[r] = [req[r] EXCEPT !.status = "ok", !.credits = req[r].unit,
                                   !.reserved = 0, !.alloc = Zero]
      BY <1>0, <1>7 DEF SettleDebit, TypeOK
    <3>. QED
      BY <1>0, <3>1 DEF RequestType
  <2>2. debit'[r] = req[r].alloc /\ Sum(req[r].alloc) = req[r].unit /\ ~IsFree(r)
    BY <1>0, <1>7 DEF SettleDebit, TypeOK
  <2>3. QuotedPrice(r)'
    <3>1. req[r].mode = "per_call" => QuoteKept(req[r].auth) /\ QuotedPrice(r)
      BY <1>0, QuotesKept DEF ChargeOf, QuotedPrice
    <3>. QED
      BY <2>1, <3>1 DEF QuoteKept, QuotedPrice
  <2>. QED
    BY <2>1, <2>2, <2>3 DEF ChargeOf, IsFree
<1>. QED
  BY <1>1, <1>2, <1>3, <1>4, <1>5, <1>6, <1>7 DEF RequestStep

\* The invariant is inductive.
LEMMA ChargesStep == ChargesInv /\ [Next]_vars => ChargesInv'
<1>. SUFFICES ASSUME ChargesInv, [Next]_vars PROVE ChargesInv'
  OBVIOUS
<1>0. TypeOK
  BY DEF ChargesInv
<1>1. TypeOK'
  BY <1>0, TypeStep
<1>2. ASSUME NEW c \in Capabilities PROVE ValidPrice(price'[c])
  <2>0. ValidPrice(price[c]) /\ price \in [Capabilities -> Price]
    BY <1>0 DEF ChargesInv, TypeOK
  <2>1. ASSUME NEW d \in Capabilities, NEW p \in NewPrices, ChangePrice(d, p)
        PROVE  ValidPrice(price'[c])
    BY <2>0, <2>1 DEF ChangePrice, ValidPrice
  <2>2. ASSUME price' = price PROVE ValidPrice(price'[c])
    BY <2>0, <2>2
  <2>3. CASE \E h \in Holds : HoldStep(h)
    BY <2>2, <2>3 DEF HoldStep, QuoteCapabilities, Confirm, CreateHold, Heartbeat, Settle,
       ExpireHold
  <2>4. ASSUME NEW r \in Requests, RequestStep(r) PROVE ValidPrice(price'[c])
    <3>1. price' = price
      BY <2>4 DEF RequestStep, AcceptIncluded, AcceptPerCall, Persist, FailV2,
         SettleTooLate, SettleFree, SettleDebit, Released
    <3>. QED
      BY <2>2, <3>1
  <2>5. CASE AdminStep
    BY <2>1, <2>2, <2>5 DEF AdminStep, Refund, AdminGrant, ExtendBucket, RevokeBucket
  <2>6. CASE ExpireSubscriptions \/ Tick \/ UNCHANGED vars
    BY <2>2, <2>6 DEF ExpireSubscriptions, Tick, vars
  <2>. QED
    BY <2>3, <2>4, <2>5, <2>6 DEF Next
<1>3. ASSUME NEW r \in Requests PROVE ChargeOf(r)'
  <2>1. CASE RequestStep(r)
    BY <2>1, RequestStepCharges
  <2>2. ASSUME NEW i \in Requests, i # r, RequestStep(i)
        PROVE  req'[r] = req[r] /\ debit'[r] = debit[r]
    <3>1. req \in [Requests -> RequestType] /\ debit \in [Requests -> [Buckets -> Nat]]
      BY <1>0 DEF TypeOK
    <3>2. CASE FailV2(i) \/ SettleTooLate(i) \/ SettleFree(i)
      BY <2>2, <3>1, <3>2 DEF FailV2, SettleTooLate, SettleFree, Released
    <3>3. CASE SettleDebit(i)
      BY <2>2, <3>1, <3>3 DEF SettleDebit
    <3>4. ASSUME NEW c \in Capabilities, NEW h \in Holds, AcceptPerCall(i, c, h)
          PROVE  req'[r] = req[r] /\ debit'[r] = debit[r]
      <4>1. (\E x : req' = [req EXCEPT ![i] = x]) /\ debit' = debit
        BY <3>4, Zenon DEF AcceptPerCall
      <4>. QED
        BY <2>2, <3>1, <4>1
    <3>5. ASSUME NEW t \in Tasks, NEW c \in Capabilities, AcceptIncluded(i, t, c)
          PROVE  req'[r] = req[r] /\ debit'[r] = debit[r]
      BY <2>2, <3>1, <3>5 DEF AcceptIncluded
    <3>6. CASE Persist(i)
      BY <2>2, <3>1, <3>6 DEF Persist
    <3>. QED
      BY <2>2, <3>2, <3>3, <3>4, <3>5, <3>6 DEF RequestStep
  <2>3. CASE \E h \in Holds : HoldStep(h)
    <3>1. req' = req /\ debit' = debit
      BY <2>3 DEF HoldStep, QuoteCapabilities, Confirm, CreateHold, Heartbeat, Settle, ExpireHold
    <3>. QED
      BY <3>1, ChargeKept
  <2>4. CASE AdminStep \/ ExpireSubscriptions \/ Tick \/ UNCHANGED vars
    <3>1. req' = req /\ debit' = debit
      BY <2>4 DEF AdminStep, Refund, AdminGrant, ExtendBucket, RevokeBucket, ChangePrice,
         ExpireSubscriptions, Tick, vars
    <3>. QED
      BY <3>1, ChargeKept
  <2>. QED
    BY <2>1, <2>2, <2>3, <2>4, ChargeKept DEF Next
<1>. QED
  BY <1>1, <1>2, <1>3 DEF ChargesInv

\* A request is charged once, in full, at the price that was quoted for it, and only when
\* it ends "ok" with a result that costs, whatever prices administrators set meanwhile.
THEOREM AlwaysChargedExactly == Spec => []ChargedExactly
<1>1. ChargesInv => ChargedExactly
  <2>. SUFFICES ASSUME ChargesInv, NEW r \in Requests
                PROVE  /\ req[r].status = "ok" /\ ~IsFree(r) =>
                            /\ req[r].credits = hold[req[r].auth].prices[req[r].cap].credits
                            /\ Sum(debit[r]) = req[r].credits
                            /\ req[r].credits > 0
                       /\ ~(req[r].status = "ok" /\ ~IsFree(r)) =>
                            req[r].credits = 0 /\ debit[r] = Zero
                       /\ req[r].status \in {"none", "ok", "failed"} =>
                            req[r].reserved = 0 /\ req[r].alloc = Zero
    BY DEF ChargedExactly
  <2>1. ChargeOf(r) /\ req[r].mode \in {"included", "per_call"}
    BY DEF ChargesInv, TypeOK, RequestType
  <2>. QED
    BY <2>1 DEF ChargeOf, QuotedPrice, IsFree
<1>. QED
  BY <1>1, ChargesInit, ChargesStep, PTL DEF Spec

-----------------------------------------------------------------------------
(***************************************************************************)
(* Authorizations                                                          *)
(*                                                                         *)
(* What an authorization (an open hold) is worth: a task has one, no more  *)
(* than its maximum is ever spent, in flight or set aside under it, what a *)
(* request was accepted with can be paid, and what was spent stays spent.  *)
(* The second part is about the ledger of what was spent.                  *)
(***************************************************************************)

\* What a step does to a hold: its funds at most; or it is not open afterwards; or it is
\* opened, as the only one of its task and, if it is an authorization, within its maximum.
FundsOnly(i) ==
    /\ hold'[i].status = hold[i].status /\ hold'[i].task = hold[i].task
    /\ hold'[i].v2 = hold[i].v2 /\ hold'[i].amount = hold[i].amount
NotOpen(i) ==
    /\ hold'[i].status # "open"
    /\ hold[i].status # "none" => hold'[i].status # "none" /\ hold'[i].task = hold[i].task
Opens(i) ==
    /\ hold[i].status # "none" => hold'[i].task = hold[i].task
    /\ hold'[i].status = "open"
    /\ \A j \in Holds \ {i} : hold'[j].status = "open" => hold'[j].task # hold'[i].task
    /\ hold'[i].v2 =>
         Sum(hold'[i].alloc) + Charged(hold'[i].task) + InFlight(hold'[i].task)
           <= hold'[i].amount

\* Transactions on holds touch no request, and the funds of no other open hold.
LEMMA HoldStepRows ==
    ASSUME TypeOK, NEW h \in Holds, HoldStep(h)
    PROVE  /\ req' = req
           /\ \A i \in Holds : \/ FundsOnly(i) /\ hold'[i].alloc = hold[i].alloc
                               \/ NotOpen(i) \/ Opens(i)
PROOF
<1>0. hold \in [Holds -> HoldType] /\ \A i \in Holds : hold[i] \in HoldType
  BY DEF TypeOK
<1>1. req' = req
  <2>1. \A t \in Tasks, calls \in [Capabilities -> CallCounts] :
          QuoteCapabilities(h, t, calls) => req' = req
    BY DEF QuoteCapabilities
  <2>2. \A maxTotal \in Totals : Confirm(h, maxTotal) => req' = req
    BY DEF Confirm
  <2>3. \A t \in Tasks, amount \in LegacyAmounts : CreateHold(h, t, amount) => req' = req
    BY DEF CreateHold
  <2>4. Heartbeat(h) \/ Settle(h) \/ ExpireHold(h) => req' = req
    BY DEF Heartbeat, Settle, ExpireHold
  <2>. QED
    BY <2>1, <2>2, <2>3, <2>4 DEF HoldStep
<1>2. ASSUME NEW i \in Holds, hold'[i] = hold[i]
      PROVE  FundsOnly(i) /\ hold'[i].alloc = hold[i].alloc
  BY <1>2, Zenon DEF FundsOnly
<1>3. ASSUME NEW t \in Tasks, NEW calls \in [Capabilities -> CallCounts],
             QuoteCapabilities(h, t, calls), NEW i \in Holds
      PROVE  hold'[i] = hold[i] \/ NotOpen(i)
  <2>1. /\ hold[h].status = "none" /\ \A j \in Holds \ {h} : hold'[j] = hold[j]
        /\ hold'[h].status = "quoted"
    <3>1. PICK amount :
            hold' = [hold EXCEPT ![h] =
               [NoHold EXCEPT !.status = "quoted", !.v2 = TRUE, !.task = t, !.amount = amount,
                              !.prices = price, !.expires = now + QuoteTTL]]
      BY <1>3, Zenon DEF QuoteCapabilities
    <3>2. hold[h].status = "none"
      BY <1>3 DEF QuoteCapabilities
    <3>. QED
      BY <1>0, <3>1, <3>2 DEF NoHold
  <2>. QED
    BY <2>1 DEF NotOpen
<1>4. ASSUME NEW maxTotal \in Totals, Confirm(h, maxTotal), NEW i \in Holds
      PROVE  hold'[i] = hold[i] \/ NotOpen(i) \/ Opens(i)
  <2>. DEFINE t == hold[h].task
              hs == SettledForTask(t)
  <2>1. PICK alloc \in Allocations(hs, maxTotal - Charged(t) - InFlight(t)) :
          hold' = [hs EXCEPT ![h] =
             [hs[h] EXCEPT !.status = "open", !.amount = maxTotal, !.alloc = alloc,
                           !.rank = Ends, !.expires = now + HoldTTL,
                           !.priceExpires = now + PriceTTL]]
    BY <1>4, Zenon DEF Confirm
  <2>2. hs \in [Holds -> HoldType]
    BY SettledType
  <2>3. /\ \A j \in Holds : hs[j].task = hold[j].task /\ hs[j].v2 = hold[j].v2
        /\ \A j \in Holds : hs[j].status = "open" => hold[j].task # t
        /\ \A j \in Holds : hs[j] = hold[j] \/ hs[j].status = "settled"
    BY <1>0 DEF SettledForTask, HoldType
  <2>4. hold[h].status = "quoted"
    BY <1>4 DEF Confirm
  <2>5. Sum(alloc) = maxTotal - Charged(t) - InFlight(t) /\ alloc \in [Buckets -> Nat]
    <3>1. maxTotal \in Int /\ Charged(t) \in Int /\ InFlight(t) \in Int
      BY SumsOfRows, AmountsAssumption
    <3>2. Free(hs) \in [Buckets -> Nat]
      BY <2>2, ReservedType, Zenon
    <3>. HIDE DEF hs, t
    <3>. QED
      BY <2>1, <3>1, <3>2, AllocationsTake
  <2>. HIDE DEF hs
  <2>6. /\ hold'[h].status = "open" /\ hold'[h].amount = maxTotal /\ hold'[h].alloc = alloc
        /\ hold'[h].task = hs[h].task
        /\ \A j \in Holds \ {h} : hold'[j] = hs[j]
    <3>1. hs[h] \in HoldType
      BY <2>2
    <3>. QED
      BY <2>1, <2>2, <3>1 DEF HoldType
  <2>7. CASE i # h
    BY <2>3, <2>6, <2>7 DEF NotOpen
  <2>8. CASE i = h
    <3>1. Sum(alloc) + Charged(t) + InFlight(t) <= maxTotal
      BY <2>5, SumsOfRows, AmountsAssumption
    <3>2. hold'[h].task = t
      BY <2>3, <2>6
    <3>3. \A j \in Holds \ {h} : hold'[j].status = "open" => hold'[j].task # t
      BY <2>3, <2>6
    <3>. HIDE DEF t
    <3>4. hold[h].task = t
      BY DEF t
    <3>. QED
      BY <2>6, <2>8, <3>1, <3>2, <3>3, <3>4 DEF Opens
  <2>. QED
    BY <2>7, <2>8
<1>5. ASSUME NEW t \in Tasks, NEW amount \in LegacyAmounts, CreateHold(h, t, amount),
             NEW i \in Holds
      PROVE  hold'[i] = hold[i] \/ Opens(i)
  <2>1. /\ hold[h].status = "none"
        /\ \A j \in Holds : ~(hold[j].task = t /\ hold[j].status = "open")
        /\ hold' = [hold EXCEPT ![h] =
             [NoHold EXCEPT !.status = "open", !.task = t, !.amount = amount,
                            !.expires = now + HoldTTL]]
    BY <1>5 DEF CreateHold
  <2>2. /\ hold'[h].status = "open" /\ hold'[h].task = t /\ hold'[h].v2 = FALSE
        /\ \A j \in Holds \ {h} : hold'[j] = hold[j]
    BY <1>0, <2>1 DEF NoHold
  <2>. QED
    BY <2>1, <2>2 DEF Opens
<1>6. ASSUME Heartbeat(h), NEW i \in Holds
      PROVE  FundsOnly(i) /\ hold'[i].alloc = hold[i].alloc
  BY <1>0, <1>6 DEF Heartbeat, FundsOnly, HoldType
<1>7. ASSUME Settle(h) \/ ExpireHold(h), NEW i \in Holds
      PROVE  hold'[i] = hold[i] \/ NotOpen(i)
  BY <1>0, <1>7 DEF Settle, ExpireHold, NotOpen, HoldType
<1>. QED
  BY <1>1, <1>2, <1>3, <1>4, <1>5, <1>6, <1>7, Zenon DEF HoldStep

\* Transactions on a request change the funds of holds and nothing else of them.
LEMMA RequestStepHolds ==
    ASSUME TypeOK, NEW r \in Requests, RequestStep(r), NEW i \in Holds
    PROVE  FundsOnly(i)
PROOF
<1>0. hold \in [Holds -> HoldType] /\ hold[i] \in HoldType
  BY DEF TypeOK
<1>1. ASSUME hold' = hold PROVE FundsOnly(i)
  BY <1>1 DEF FundsOnly
<1>2. ASSUME NEW x, hold'[i] = [hold[i] EXCEPT !.alloc = x] PROVE FundsOnly(i)
  BY <1>0, <1>2 DEF FundsOnly, HoldType
<1>3. ASSUME NEW c \in Capabilities, NEW h \in Holds, AcceptPerCall(r, c, h)
      PROVE  FundsOnly(i)
  <2>1. PICK x : hold' = [hold EXCEPT ![h].alloc = x]
    BY <1>3, Zenon DEF AcceptPerCall
  <2>. QED
    BY <1>0, <1>2, <2>1 DEF FundsOnly
<1>4. CASE SettleDebit(r)
  BY <1>0, <1>4 DEF SettleDebit, FundsOnly, HoldType
<1>5. CASE FailV2(r) \/ SettleTooLate(r) \/ SettleFree(r)
  <2>1. hold' = HoldsAfterRelease(r)
    BY <1>5 DEF FailV2, SettleTooLate, SettleFree, Released
  <2>2. hold'[i] = hold[i] \/ \E x : hold'[i] = [hold[i] EXCEPT !.alloc = x]
    BY <2>1, Zenon DEF HoldsAfterRelease
  <2>. QED
    BY <1>2, <2>2 DEF FundsOnly
<1>6. ASSUME NEW t \in Tasks, NEW c \in Capabilities, AcceptIncluded(r, t, c)
      PROVE  FundsOnly(i)
  BY <1>1, <1>6 DEF AcceptIncluded
<1>7. CASE Persist(r)
  BY <1>1, <1>7 DEF Persist
<1>. QED
  BY <1>3, <1>4, <1>5, <1>6, <1>7 DEF RequestStep

\* Every step is one on a hold, one on a request, or leaves both tables alone.
LEMMA StepKinds ==
    ASSUME [Next]_vars
    PROVE  \/ \E h \in Holds : HoldStep(h)
           \/ \E r \in Requests : RequestStep(r)
           \/ hold' = hold /\ req' = req
PROOF
  BY DEF Next, AdminStep, Refund, AdminGrant, ExtendBucket, RevokeBucket, ChangePrice,
     ExpireSubscriptions, Tick, vars

\* Any step does one of the three things to a hold.
LEMMA HoldRows ==
    ASSUME TypeOK, [Next]_vars, NEW i \in Holds
    PROVE  FundsOnly(i) \/ NotOpen(i) \/ Opens(i)
PROOF
<1>1. ASSUME hold' = hold PROVE FundsOnly(i)
  BY <1>1 DEF FundsOnly
<1>. QED
  BY <1>1, StepKinds, HoldStepRows, RequestStepHolds

-----------------------------------------------------------------------------
\* A task has one open hold.

\* Holds of one task that stay open were open before, and no step opens a second one.
LEMMA OneOpenStep ==
    ASSUME TypeOK, OneOpenHoldPerTask, [Next]_vars
    PROVE  OneOpenHoldPerTask'
PROOF
<1>. SUFFICES ASSUME NEW h \in Holds, NEW i \in Holds, h # i,
                     hold'[h].status = "open", hold'[i].status = "open",
                     hold'[h].task = hold'[i].task
              PROVE  FALSE
  BY DEF OneOpenHoldPerTask
<1>1. FundsOnly(h) /\ FundsOnly(i)
  <2>1. ~NotOpen(h) /\ ~NotOpen(i)
    BY DEF NotOpen
  <2>2. ~Opens(h) /\ ~Opens(i)
    BY DEF Opens
  <2>. QED
    BY <2>1, <2>2, HoldRows
<1>. QED
  BY <1>1 DEF FundsOnly, OneOpenHoldPerTask

\* The unique index on open holds is never hit, for any set of tasks and holds.
THEOREM OneAuthorization == Spec => []OneOpenHoldPerTask
PROOF
<1>1. Init => OneOpenHoldPerTask
  BY DEF Init, OneOpenHoldPerTask, NoHold
<1>2. TypeOK /\ OneOpenHoldPerTask /\ [Next]_vars => OneOpenHoldPerTask'
  BY OneOpenStep
<1>. QED
  BY <1>1, <1>2, TypeCorrect, PTL DEF Spec

-----------------------------------------------------------------------------
\* What a transaction does to its request, and to the holds.

IsIncluded(r) ==
    /\ req[r].status = "none" /\ hold' = hold
    /\ req'[r].reserved = 0 /\ req'[r].credits = 0 /\ req'[r].auth = "none"
IsStored(r) ==
    /\ req[r].status = "pending" /\ hold' = hold
    /\ req'[r].task = req[r].task /\ req'[r].auth = req[r].auth /\ req'[r].unit = req[r].unit
    /\ req'[r].reserved = req[r].reserved /\ req'[r].alloc = req[r].alloc
    /\ req'[r].credits = req[r].credits
IsReleased(r) ==
    /\ req[r].status \in {"pending", "settlement_pending"} /\ hold' = HoldsAfterRelease(r)
    /\ req'[r].task = req[r].task /\ req'[r].auth = req[r].auth
    /\ req'[r].reserved = 0 /\ req'[r].credits = req[r].credits
IsDebited(r) ==
    /\ req[r].status = "settlement_pending"
    /\ \A i \in Holds : hold'[i].alloc = hold[i].alloc
    /\ req'[r].task = req[r].task /\ req'[r].auth = req[r].auth /\ req'[r].reserved = 0
    /\ req[r].reserved = req[r].unit /\ req'[r].credits = req[r].unit
IsAccepted(r, h, take) ==
    /\ req[r].status = "none" /\ hold[h].status = "open"
    /\ take \in [Buckets -> Nat] /\ \A b \in Buckets : take[b] <= hold[h].alloc[b]
    /\ Sum(hold'[h].alloc) + Sum(take) <= Sum(hold[h].alloc)
    /\ \A i \in Holds \ {h} : hold'[i] = hold[i]
    /\ req'[r].task = hold[h].task /\ req'[r].auth = h /\ req'[r].credits = 0
    /\ req'[r].reserved = Sum(take) /\ req'[r].unit = Sum(take) /\ req'[r].alloc = take

\* ReserveRequest moves what the request takes out of the authorization.
LEMMA AcceptedRow ==
    ASSUME TypeOK, NEW r \in Requests, NEW c \in Capabilities, NEW h \in Holds,
           AcceptPerCall(r, c, h)
    PROVE  \E take : IsAccepted(r, h, take)
PROOF
<1>. DEFINE unit == hold[h].prices[c].credits
            offer == [b \in Buckets |-> IF b \in Active THEN hold[h].alloc[b] ELSE 0]
<1>0. /\ hold \in [Holds -> HoldType] /\ hold[h] \in HoldType
      /\ req \in [Requests -> RequestType]
  BY DEF TypeOK
<1>1. PICK take \in InOrder(offer, hold[h].rank, unit) :
        /\ hold' = [hold EXCEPT ![h].alloc = Left(offer, take)]
        /\ req' = [req EXCEPT ![r] =
             [NoRequest EXCEPT !.status = "pending", !.task = hold[h].task, !.cap = c,
                               !.mode = "per_call", !.auth = h, !.unit = unit,
                               !.reserved = unit, !.alloc = take]]
  BY Zenon DEF AcceptPerCall
<1>2. unit \in Int
  BY <1>0 DEF HoldType, Price
<1>3. hold[h].alloc \in [Buckets -> Nat] /\ offer \in [Buckets -> Nat]
  BY <1>0 DEF HoldType
<1>4. \A b \in Buckets : offer[b] <= hold[h].alloc[b]
  BY <1>3
<1>5. req[r].status = "none" /\ hold[h].status = "open"
  BY DEF AcceptPerCall, OpenNow
<1>. HIDE DEF unit, offer
<1>6. take \in [Buckets -> Nat] /\ Sum(take) = unit /\ \A b \in Buckets : take[b] <= offer[b]
  BY <1>1, <1>2, InOrderTakes
<1>7. \A b \in Buckets : take[b] <= hold[h].alloc[b]
  <2>. SUFFICES ASSUME NEW b \in Buckets PROVE take[b] <= hold[h].alloc[b]
    OBVIOUS
  <2>1. take[b] \in Nat /\ offer[b] \in Nat /\ hold[h].alloc[b] \in Nat
    BY <1>3, <1>6
  <2>. QED
    BY <1>4, <1>6, <2>1
<1>8. Sum(Left(offer, take)) + Sum(take) <= Sum(hold[h].alloc)
  <2>. DEFINE left == Left(offer, take)
  <2>1. left \in [Buckets -> Nat]
    BY <1>3, <1>6 DEF Left
  <2>2. offer = [b \in Buckets |-> left[b] + take[b]]
    BY <1>3, <1>6 DEF Left
  <2>. HIDE DEF left
  <2>3. Sum(offer) = Sum(left) + Sum(take)
    <3>1. Sum([b \in Buckets |-> left[b] + take[b]]) = Sum(left) + Sum(take)
      BY <1>6, <2>1, SumPlus, RowsAssumption
    <3>. QED
      BY <2>2, <3>1, Zenon
  <2>4. Sum(offer) <= Sum(hold[h].alloc)
    BY <1>3, <1>4, SumMonotone, RowsAssumption
  <2>. QED
    BY <2>3, <2>4 DEF left
<1>9. hold'[h].alloc = Left(offer, take) /\ \A i \in Holds \ {h} : hold'[i] = hold[i]
  BY <1>0, <1>1 DEF HoldType
<1>10. /\ req'[r].task = hold[h].task /\ req'[r].auth = h /\ req'[r].credits = 0
       /\ req'[r].reserved = unit /\ req'[r].unit = unit /\ req'[r].alloc = take
  BY <1>0, <1>1 DEF NoRequest
<1>. QED
  BY <1>5, <1>6, <1>7, <1>8, <1>9, <1>10 DEF IsAccepted

\* One of these five moves, and no other request changes.
LEMMA RequestRows ==
    ASSUME TypeOK, NEW r \in Requests, RequestStep(r)
    PROVE  /\ \/ IsIncluded(r) \/ IsStored(r) \/ IsReleased(r) \/ IsDebited(r)
              \/ \E h \in Holds : \E take : IsAccepted(r, h, take)
           /\ \A i \in Requests \ {r} : req'[i] = req[i]
PROOF
<1>0. req \in [Requests -> RequestType] /\ req[r] \in RequestType /\ hold \in [Holds -> HoldType]
  BY DEF TypeOK
<1>1. \A i \in Requests \ {r} : req'[i] = req[i]
  <2>1. CASE FailV2(r) \/ SettleTooLate(r) \/ SettleFree(r)
    BY <1>0, <2>1 DEF FailV2, SettleTooLate, SettleFree, Released
  <2>2. CASE SettleDebit(r)
    BY <1>0, <2>2 DEF SettleDebit
  <2>3. ASSUME NEW c \in Capabilities, NEW h \in Holds, AcceptPerCall(r, c, h)
        PROVE  \A i \in Requests \ {r} : req'[i] = req[i]
    <3>1. \E x : req' = [req EXCEPT ![r] = x]
      BY <2>3, Zenon DEF AcceptPerCall
    <3>. QED
      BY <1>0, <3>1
  <2>4. ASSUME NEW t \in Tasks, NEW c \in Capabilities, AcceptIncluded(r, t, c)
        PROVE  \A i \in Requests \ {r} : req'[i] = req[i]
    BY <1>0, <2>4 DEF AcceptIncluded
  <2>5. CASE Persist(r)
    BY <1>0, <2>5 DEF Persist
  <2>. QED
    BY <2>1, <2>2, <2>3, <2>4, <2>5 DEF RequestStep
<1>2. ASSUME NEW t \in Tasks, NEW c \in Capabilities, AcceptIncluded(r, t, c)
      PROVE  IsIncluded(r)
  <2>1. /\ req'[r] = [NoRequest EXCEPT !.status = "pending", !.task = t, !.cap = c]
        /\ req[r].status = "none" /\ hold' = hold
    BY <1>0, <1>2 DEF AcceptIncluded
  <2>. QED
    BY <2>1 DEF IsIncluded, NoRequest
<1>3. ASSUME Persist(r) PROVE IsStored(r)
  <2>1. PICK u : req' = [req EXCEPT ![r].status = "settlement_pending", ![r].usable = u,
                                    ![r].cacheExpires = now + CacheTTL]
    BY <1>3, Zenon DEF Persist
  <2>2. req[r].status = "pending" /\ hold' = hold
    BY <1>3 DEF Persist
  <2>3. /\ req'[r].task = req[r].task /\ req'[r].auth = req[r].auth
        /\ req'[r].unit = req[r].unit /\ req'[r].reserved = req[r].reserved
        /\ req'[r].alloc = req[r].alloc /\ req'[r].credits = req[r].credits
    BY <1>0, <2>1 DEF RequestType
  <2>. QED
    BY <2>2, <2>3 DEF IsStored
<1>4. ASSUME NEW s, Released(r, s), req[r].status \in {"pending", "settlement_pending"}
      PROVE  IsReleased(r)
  <2>1. /\ req'[r] = [req[r] EXCEPT !.status = s, !.reserved = 0, !.alloc = Zero]
        /\ hold' = HoldsAfterRelease(r)
    BY <1>0, <1>4 DEF Released
  <2>. QED
    BY <1>0, <1>4, <2>1 DEF IsReleased, RequestType
<1>5. ASSUME FailV2(r) \/ SettleTooLate(r) \/ SettleFree(r) PROVE IsReleased(r)
  <2>1. CASE FailV2(r)
    BY <1>4, <2>1 DEF FailV2
  <2>2. CASE SettleTooLate(r)
    BY <1>4, <2>2 DEF SettleTooLate
  <2>3. CASE SettleFree(r)
    BY <1>4, <2>3 DEF SettleFree
  <2>. QED
    BY <1>5, <2>1, <2>2, <2>3
<1>6. ASSUME SettleDebit(r) PROVE IsDebited(r)
  <2>1. req'[r] = [req[r] EXCEPT !.status = "ok", !.credits = req[r].unit,
                                 !.reserved = 0, !.alloc = Zero]
    BY <1>0, <1>6 DEF SettleDebit
  <2>2. req[r].status = "settlement_pending" /\ req[r].reserved = req[r].unit
    BY <1>6 DEF SettleDebit
  <2>3. \A i \in Holds : hold'[i].alloc = hold[i].alloc
    BY <1>0, <1>6 DEF SettleDebit, HoldType
  <2>4. /\ req'[r].task = req[r].task /\ req'[r].auth = req[r].auth
        /\ req'[r].reserved = 0 /\ req'[r].credits = req[r].unit
    BY <1>0, <2>1 DEF RequestType
  <2>. QED
    BY <2>2, <2>3, <2>4 DEF IsDebited
<1>. QED
  BY <1>1, <1>2, <1>3, <1>5, <1>6, AcceptedRow DEF RequestStep

-----------------------------------------------------------------------------
\* What one request adds to the totals of a task.

CreditsFor(r, t) == IF req[r].task = t THEN req[r].credits ELSE 0
ReservedFor(r, t) == IF req[r].task = t THEN req[r].reserved ELSE 0

\* When one request changes, the totals change by what it adds.
LEMMA TaskTotals ==
    ASSUME TypeOK, TypeOK', NEW r \in Requests, \A i \in Requests \ {r} : req'[i] = req[i], NEW t
    PROVE  /\ Charged(t) \in Nat /\ Charged(t)' \in Nat
           /\ InFlight(t) \in Nat /\ InFlight(t)' \in Nat
           /\ CreditsFor(r, t) \in Nat /\ CreditsFor(r, t)' \in Nat
           /\ ReservedFor(r, t) \in Nat /\ ReservedFor(r, t)' \in Nat
           /\ Charged(t)' + CreditsFor(r, t) = Charged(t) + CreditsFor(r, t)'
           /\ InFlight(t)' + ReservedFor(r, t) = InFlight(t) + ReservedFor(r, t)'
PROOF
<1>. DEFINE c == [i \in Requests |-> CreditsFor(i, t)]
            d == [i \in Requests |-> CreditsFor(i, t)']
            f == [i \in Requests |-> ReservedFor(i, t)]
            g == [i \in Requests |-> ReservedFor(i, t)']
<1>1. \A i \in Requests : /\ CreditsFor(i, t) \in Nat /\ CreditsFor(i, t)' \in Nat
                          /\ ReservedFor(i, t) \in Nat /\ ReservedFor(i, t)' \in Nat
  BY DEF CreditsFor, ReservedFor, TypeOK, RequestType
<1>2. \A i \in Requests : i # r => /\ CreditsFor(i, t)' = CreditsFor(i, t)
                                   /\ ReservedFor(i, t)' = ReservedFor(i, t)
  BY DEF CreditsFor, ReservedFor
<1>3. Charged(t) = Sum(c) /\ InFlight(t) = Sum(f)
  BY Zenon DEF Charged, InFlight, CreditsFor, ReservedFor
<1>4. Charged(t)' = Sum(d) /\ InFlight(t)' = Sum(g)
  BY Zenon DEF Charged, InFlight, CreditsFor, ReservedFor
<1>5. /\ c \in [Requests -> Nat] /\ d \in [Requests -> Nat]
      /\ f \in [Requests -> Nat] /\ g \in [Requests -> Nat]
  BY <1>1
<1>6. /\ \A i \in Requests : i # r => d[i] = c[i] /\ g[i] = f[i]
      /\ c[r] = CreditsFor(r, t) /\ d[r] = CreditsFor(r, t)'
      /\ f[r] = ReservedFor(r, t) /\ g[r] = ReservedFor(r, t)'
  BY <1>2
<1>. HIDE DEF c, d, f, g
<1>7. Sum(c) \in Nat /\ Sum(d) \in Nat /\ Sum(f) \in Nat /\ Sum(g) \in Nat
  BY <1>5, SumType, RowsAssumption, Zenon
<1>8. Sum(d) + c[r] = Sum(c) + d[r]
  BY <1>5, <1>6, SumChange, RowsAssumption
<1>9. Sum(g) + f[r] = Sum(f) + g[r]
  BY <1>5, <1>6, SumChange, RowsAssumption
<1>. QED
  BY <1>1, <1>3, <1>4, <1>6, <1>7, <1>8, <1>9

-----------------------------------------------------------------------------
\* An accepted request holds what it costs, from an authorization of its task.

Backed(r) ==
    req[r].reserved > 0 =>
      /\ req[r].reserved = req[r].unit /\ Sum(req[r].alloc) = req[r].unit
      /\ req[r].auth \in Holds
      /\ hold[req[r].auth].status # "none" /\ hold[req[r].auth].task = req[r].task
AllBacked == \A r \in Requests : Backed(r)

\* No step takes from an accepted request what it holds.
LEMMA BackedStep ==
    ASSUME TypeOK, AllBacked, [Next]_vars
    PROVE  AllBacked'
PROOF
<1>1. \A i \in Holds : hold[i].status # "none" =>
        hold'[i].status # "none" /\ hold'[i].task = hold[i].task
  <2>. SUFFICES ASSUME NEW i \in Holds, hold[i].status # "none"
                PROVE  hold'[i].status # "none" /\ hold'[i].task = hold[i].task
    OBVIOUS
  <2>. QED
    BY HoldRows DEF FundsOnly, NotOpen, Opens
<1>2. ASSUME NEW r \in Requests, req'[r] = req[r]
      PROVE  Backed(r)'
  BY <1>1, <1>2 DEF AllBacked, Backed
<1>3. ASSUME NEW r \in Requests, RequestStep(r)
      PROVE  Backed(r)'
  <2>1. CASE IsIncluded(r) \/ IsReleased(r) \/ IsDebited(r)
    BY <2>1 DEF IsIncluded, IsReleased, IsDebited, Backed
  <2>2. CASE IsStored(r)
    BY <1>1, <2>2 DEF IsStored, AllBacked, Backed
  <2>3. ASSUME NEW h \in Holds, NEW take, IsAccepted(r, h, take)
        PROVE  Backed(r)'
    <3>1. hold[h].status # "none"
      BY <2>3 DEF IsAccepted
    <3>. QED
      BY <1>1, <2>3, <3>1 DEF IsAccepted, Backed
  <2>. QED
    BY <1>3, <2>1, <2>2, <2>3, RequestRows
<1>4. ASSUME NEW r \in Requests
      PROVE  Backed(r)'
  <2>1. \/ req'[r] = req[r] \/ RequestStep(r)
    <3>1. ASSUME NEW i \in Requests, RequestStep(i), i # r
          PROVE  req'[r] = req[r]
      BY <3>1, RequestRows
    <3>2. ASSUME NEW h \in Holds, HoldStep(h)
          PROVE  req'[r] = req[r]
      BY <3>2, HoldStepRows
    <3>. QED
      BY <3>1, <3>2, StepKinds
  <2>. QED
    BY <1>2, <1>3, <2>1
<1>. QED
  BY <1>4 DEF AllBacked

\* A result that was stored can be paid for, for any amounts, prices and ends of buckets:
\* only a revocation stands in the way.
THEOREM AlwaysPayable == Spec => []AcceptedIsPayable
PROOF
<1>1. Init => AllBacked
  BY DEF Init, AllBacked, Backed, NoRequest
<1>2. TypeOK /\ AllBacked /\ [Next]_vars => AllBacked'
  BY BackedStep
<1>3. TypeOK /\ AllBacked /\ NoOvercommit => AcceptedIsPayable
  <2>. SUFFICES ASSUME TypeOK, AllBacked, NoOvercommit, NEW r \in Requests, req[r].reserved > 0
                PROVE  /\ req[r].reserved = req[r].unit /\ Sum(req[r].alloc) = req[r].unit
                       /\ \A b \in Buckets :
                            bucket[b].total - bucket[b].used >= req[r].alloc[b]
    BY Zenon DEF AcceptedIsPayable
  <2>. SUFFICES ASSUME NEW b \in Buckets
                PROVE  /\ req[r].reserved = req[r].unit /\ Sum(req[r].alloc) = req[r].unit
                       /\ bucket[b].total - bucket[b].used >= req[r].alloc[b]
    BY DEF AllBacked, Backed
  <2>1. req[r].reserved = req[r].unit /\ Sum(req[r].alloc) = req[r].unit
    BY DEF AllBacked, Backed
  <2>2. AcceptedIn(b)[r] = req[r].alloc[b] /\ req[r].alloc[b] \in Nat
    BY DEF AcceptedIn, TypeOK, RequestType
  <2>3. /\ HeldIn(hold, b) \in [Holds -> Nat] /\ AcceptedIn(b) \in [Requests -> Nat]
        /\ Sum(HeldIn(hold, b)) \in Nat /\ Sum(AcceptedIn(b)) \in Nat
    BY ReservedType, Zenon DEF TypeOK
  <2>4. AcceptedIn(b)[r] <= Sum(AcceptedIn(b))
    BY <2>3, SumAtLeast, RowsAssumption
  <2>5. bucket[b].used + Reserved(hold, b) <= bucket[b].total
    BY DEF NoOvercommit
  <2>6. bucket[b].used \in Nat /\ bucket[b].total \in Nat
    BY DEF TypeOK, BucketType
  <2>7. bucket[b].used + req[r].alloc[b] <= bucket[b].total
    BY <2>2, <2>3, <2>4, <2>5, <2>6 DEF Reserved
  <2>. QED
    BY <2>1, <2>2, <2>6, <2>7
<1>. QED
  BY <1>1, <1>2, <1>3, TypeCorrect, NeverOvercommitted, PTL DEF Spec

-----------------------------------------------------------------------------
\* A task never goes beyond what its client confirmed.

\* Before it is charged a request adds no credits, and one that is new or over none at all.
LEMMA UnchargedRows ==
    ASSUME ChargesInv, NEW r \in Requests
    PROVE  /\ req[r].status # "ok" => req[r].credits = 0
           /\ req[r].status \in {"none", "ok", "failed"} => req[r].reserved = 0
PROOF
  BY DEF ChargesInv, ChargeOf

\* WithinAuthorization says this of every open authorization.
Within(h) ==
    Sum(hold[h].alloc) + Charged(hold[h].task) + InFlight(hold[h].task) <= hold[h].amount

\* Within in the next state, with the task named by a value.
LEMMA WithinNext ==
    ASSUME NEW h, NEW t, t = hold'[h].task
    PROVE  Within(h)' <=> Sum(hold'[h].alloc) + Charged(t)' + InFlight(t)' <= hold'[h].amount
PROOF
  BY DEF Within, Charged, InFlight

\* A transaction on a request leaves every authorization within its maximum.
LEMMA WithinRequestStep ==
    ASSUME TypeOK, TypeOK', ChargesInv, AllBacked, OneOpenHoldPerTask, WithinAuthorization,
           NEW r \in Requests, RequestStep(r),
           NEW h \in Holds, FundsOnly(h), hold[h].v2, hold[h].status = "open"
    PROVE  Within(h)'
PROOF
<1>. PICK t : t = hold[h].task
  OBVIOUS
<1>. DEFINE A == Sum(hold[h].alloc)
            B == Sum(hold'[h].alloc)
<1>0. /\ hold[h].alloc \in [Buckets -> Nat] /\ hold'[h].alloc \in [Buckets -> Nat]
      /\ hold[h].amount \in Nat
      /\ req[r].reserved \in Nat /\ req[r].credits \in Nat /\ req[r].unit \in Nat
      /\ req[r].alloc \in [Buckets -> Nat]
  BY DEF TypeOK, HoldType, RequestType
<1>1. A \in Nat /\ B \in Nat
  BY <1>0, SumType, RowsAssumption, Zenon
<1>2. A + Charged(t) + InFlight(t) <= hold[h].amount
  BY DEF WithinAuthorization
<1>3. /\ Charged(t) \in Nat /\ Charged(t)' \in Nat
      /\ InFlight(t) \in Nat /\ InFlight(t)' \in Nat
      /\ CreditsFor(r, t) \in Nat /\ CreditsFor(r, t)' \in Nat
      /\ ReservedFor(r, t) \in Nat /\ ReservedFor(r, t)' \in Nat
      /\ Charged(t)' + CreditsFor(r, t) = Charged(t) + CreditsFor(r, t)'
      /\ InFlight(t)' + ReservedFor(r, t) = InFlight(t) + ReservedFor(r, t)'
  BY RequestRows, TaskTotals
<1>4. B + CreditsFor(r, t)' + ReservedFor(r, t)' <= A + CreditsFor(r, t) + ReservedFor(r, t)
  <2>1. CASE IsIncluded(r)
    <3>1. B = A
      BY <2>1 DEF IsIncluded
    <3>2. CreditsFor(r, t)' = 0 /\ ReservedFor(r, t)' = 0
      BY <2>1 DEF IsIncluded, CreditsFor, ReservedFor
    <3>. QED
      BY <1>1, <1>3, <3>1, <3>2
  <2>2. CASE IsStored(r)
    <3>1. B = A
      BY <2>2 DEF IsStored
    <3>2. CreditsFor(r, t)' = CreditsFor(r, t) /\ ReservedFor(r, t)' = ReservedFor(r, t)
      BY <2>2 DEF IsStored, CreditsFor, ReservedFor
    <3>. QED
      BY <1>1, <1>3, <3>1, <3>2
  <2>3. CASE IsReleased(r)
    <3>1. CreditsFor(r, t)' = CreditsFor(r, t) /\ ReservedFor(r, t)' = 0
      BY <2>3 DEF IsReleased, CreditsFor, ReservedFor
    <3>2. B <= A + ReservedFor(r, t)
      <4>1. CASE req[r].reserved > 0 /\ h = req[r].auth /\ OpenNow(hold[h])
        <5>1. hold'[h].alloc = [b \in Buckets |-> hold[h].alloc[b] + req[r].alloc[b]]
          <6>1. hold'[h] = [hold[h] EXCEPT !.alloc =
                              [b \in Buckets |-> hold[h].alloc[b] + req[r].alloc[b]]]
            BY <2>3, <4>1, Zenon DEF IsReleased, HoldsAfterRelease
          <6>2. hold[h] \in HoldType
            BY DEF TypeOK
          <6>. QED
            BY <6>1, <6>2 DEF HoldType
        <5>2. Sum([b \in Buckets |-> hold[h].alloc[b] + req[r].alloc[b]])
                = Sum(hold[h].alloc) + Sum(req[r].alloc)
          <6>. DEFINE f == hold[h].alloc
                      g == req[r].alloc
          <6>1. f \in [Buckets -> Nat] /\ g \in [Buckets -> Nat]
            BY <1>0
          <6>. HIDE DEF f, g
          <6>2. Sum([b \in Buckets |-> f[b] + g[b]]) = Sum(f) + Sum(g)
            BY <6>1, SumPlus, RowsAssumption
          <6>. QED
            BY <6>2, Zenon DEF f, g
        <5>3. Sum(req[r].alloc) = ReservedFor(r, t)
          BY <4>1 DEF AllBacked, Backed, ReservedFor
        <5>. QED
          BY <1>1, <1>3, <5>1, <5>2, <5>3
      <4>2. CASE ~(req[r].reserved > 0 /\ h = req[r].auth /\ OpenNow(hold[h]))
        <5>1. hold'[h] = hold[h]
          BY <2>3, <4>2, Zenon DEF IsReleased, HoldsAfterRelease
        <5>. QED
          BY <1>1, <1>3, <5>1
      <4>. QED
        BY <4>1, <4>2
    <3>. HIDE DEF A, B
    <3>. QED
      BY <1>1, <1>3, <3>1, <3>2
  <2>4. CASE IsDebited(r)
    <3>1. B = A
      BY <2>4 DEF IsDebited
    <3>2. req[r].credits = 0
      BY <2>4, UnchargedRows DEF IsDebited
    <3>3. CreditsFor(r, t)' = ReservedFor(r, t) /\ ReservedFor(r, t)' = 0 /\ CreditsFor(r, t) = 0
      BY <2>4, <3>2 DEF IsDebited, CreditsFor, ReservedFor
    <3>. HIDE DEF A, B
    <3>. QED
      BY <1>1, <1>3, <3>1, <3>3
  <2>5. ASSUME NEW i \in Holds, NEW take, IsAccepted(r, i, take)
        PROVE  B + CreditsFor(r, t)' + ReservedFor(r, t)'
                 <= A + CreditsFor(r, t) + ReservedFor(r, t)
    <3>1. CreditsFor(r, t)' = 0
      BY <2>5 DEF IsAccepted, CreditsFor
    <3>2. CASE i = h
      <4>1. ReservedFor(r, t)' = Sum(take) /\ B + Sum(take) <= A
        BY <2>5, <3>2 DEF IsAccepted, ReservedFor
      <4>. HIDE DEF A, B
      <4>. QED
        BY <1>1, <1>3, <3>1, <4>1
    <3>3. CASE i # h
      <4>1. hold[i].task # t
        BY <2>5, <3>3 DEF IsAccepted, OneOpenHoldPerTask
      <4>2. ReservedFor(r, t)' = 0 /\ B = A
        BY <2>5, <3>3, <4>1 DEF IsAccepted, ReservedFor
      <4>. HIDE DEF A, B
      <4>. QED
        BY <1>1, <1>3, <3>1, <4>2
    <3>. QED
      BY <3>2, <3>3
  <2>. QED
    BY <2>1, <2>2, <2>3, <2>4, <2>5, RequestRows
<1>5. hold'[h].task = t /\ hold'[h].amount = hold[h].amount
  BY DEF FundsOnly
<1>6. Within(h)' <=> Sum(hold'[h].alloc) + Charged(t)' + InFlight(t)' <= hold'[h].amount
  BY <1>5, WithinNext
<1>. HIDE DEF A, B
<1>7. B + Charged(t)' + InFlight(t)' <= hold[h].amount
  BY <1>0, <1>1, <1>2, <1>3, <1>4
<1>. QED
  BY <1>5, <1>7, <1>6 DEF B

\* No step takes an open authorization beyond its maximum.
LEMMA WithinStep ==
    ASSUME TypeOK, TypeOK', ChargesInv, AllBacked, OneOpenHoldPerTask, WithinAuthorization,
           [Next]_vars
    PROVE  WithinAuthorization'
PROOF
<1>. SUFFICES ASSUME NEW h \in Holds, hold'[h].v2, hold'[h].status = "open"
              PROVE  Within(h)'
  BY DEF WithinAuthorization, Within
<1>. PICK t : t = hold'[h].task
  OBVIOUS
<1>0. Within(h)' <=> Sum(hold'[h].alloc) + Charged(t)' + InFlight(t)' <= hold'[h].amount
  BY WithinNext
<1>1. ASSUME req' = req
      PROVE  Charged(t)' = Charged(t) /\ InFlight(t)' = InFlight(t)
  BY <1>1 DEF Charged, InFlight
<1>2. ASSUME req' = req, FundsOnly(h), hold'[h].alloc = hold[h].alloc
      PROVE  Within(h)'
  <2>1. /\ hold[h].v2 /\ hold[h].status = "open" /\ hold[h].task = t
        /\ hold'[h].amount = hold[h].amount
    BY <1>2 DEF FundsOnly
  <2>2. Sum(hold[h].alloc) + Charged(t) + InFlight(t) <= hold[h].amount
    BY <2>1 DEF WithinAuthorization
  <2>. QED
    BY <1>0, <1>1, <1>2, <2>1, <2>2
<1>3. ASSUME req' = req, Opens(h)
      PROVE  Within(h)'
  <2>1. Sum(hold'[h].alloc) + Charged(t) + InFlight(t) <= hold'[h].amount
    BY <1>3 DEF Opens
  <2>. QED
    BY <1>0, <1>1, <1>3, <2>1
<1>4. ASSUME NEW i \in Holds, HoldStep(i)
      PROVE  Within(h)'
  <2>1. ~NotOpen(h)
    BY DEF NotOpen
  <2>. QED
    BY <1>2, <1>3, <1>4, <2>1, HoldStepRows
<1>5. ASSUME NEW r \in Requests, RequestStep(r)
      PROVE  Within(h)'
  <2>1. FundsOnly(h)
    BY <1>5, RequestStepHolds
  <2>2. hold[h].v2 /\ hold[h].status = "open"
    BY <2>1 DEF FundsOnly
  <2>. QED
    BY <1>5, <2>1, <2>2, WithinRequestStep
<1>6. CASE hold' = hold /\ req' = req
  BY <1>2, <1>6 DEF FundsOnly
<1>. QED
  BY <1>4, <1>5, <1>6, StepKinds

\* What a task has spent, has in flight and has set aside never exceeds the maximum that was
\* confirmed, over replaced authorizations, releases and changes of prices.
THEOREM NeverBeyondMaximum == Spec => []WithinAuthorization
PROOF
<1>. DEFINE Inv == ChargesInv /\ AllBacked /\ OneOpenHoldPerTask /\ WithinAuthorization
<1>1. Init => Inv
  <2>1. Init => WithinAuthorization
    BY DEF Init, WithinAuthorization, NoHold
  <2>2. Init => OneOpenHoldPerTask
    BY DEF Init, OneOpenHoldPerTask, NoHold
  <2>3. Init => AllBacked
    BY DEF Init, AllBacked, Backed, NoRequest
  <2>. QED
    BY <2>1, <2>2, <2>3, ChargesInit
<1>2. Inv /\ [Next]_vars => Inv'
  <2>. SUFFICES ASSUME Inv, [Next]_vars PROVE Inv'
    OBVIOUS
  <2>1. TypeOK /\ ChargesInv' /\ TypeOK'
    BY ChargesStep, TypeStep DEF ChargesInv
  <2>. QED
    BY <2>1, WithinStep, OneOpenStep, BackedStep
<1>. HIDE DEF Inv
<1>3. Spec => []Inv
  BY <1>1, <1>2, PTL DEF Spec
<1>4. Inv => WithinAuthorization
  BY DEF Inv
<1>. QED
  BY <1>3, <1>4, PTL

-----------------------------------------------------------------------------
\* Whatever happens later, what a task has spent is spent and an ended request stays.

\* One step of SpendingIsFinal.
LEMMA SpendingStep ==
    ASSUME TypeOK, TypeOK', ChargesInv, [Next]_vars
    PROVE  /\ \A t \in Tasks : Charged(t)' >= Charged(t)
           /\ \A r \in Requests : req[r].status \in {"ok", "failed"} => req'[r] = req[r]
PROOF
<1>1. CASE req' = req
  <2>1. \A t : Charged(t)' = Charged(t) /\ Charged(t) \in Nat
    BY <1>1, SumsOfRows DEF Charged
  <2>. QED
    BY <1>1, <2>1
<1>2. ASSUME NEW r \in Requests, RequestStep(r)
      PROVE  /\ \A t \in Tasks : Charged(t)' >= Charged(t)
             /\ \A i \in Requests : req[i].status \in {"ok", "failed"} => req'[i] = req[i]
  <2>1. \A i \in Requests \ {r} : req'[i] = req[i]
    BY <1>2, RequestRows
  <2>2. req[r].status \in {"none", "pending", "settlement_pending"}
    BY <1>2, RequestRows DEF IsIncluded, IsStored, IsReleased, IsDebited, IsAccepted
  <2>3. req[r].credits = 0
    BY <2>2, UnchargedRows
  <2>4. ASSUME NEW t \in Tasks
        PROVE  Charged(t)' >= Charged(t)
    <3>1. CreditsFor(r, t) = 0
      BY <2>3 DEF CreditsFor
    <3>2. /\ Charged(t) \in Nat /\ Charged(t)' \in Nat /\ CreditsFor(r, t)' \in Nat
          /\ Charged(t)' + CreditsFor(r, t) = Charged(t) + CreditsFor(r, t)'
      BY <2>1, TaskTotals
    <3>. QED
      BY <3>1, <3>2
  <2>. QED
    BY <2>1, <2>2, <2>4
<1>. QED
  BY <1>1, <1>2, StepKinds, HoldStepRows

\* What a task was charged never falls, so that a refund never reopens its budget.
THEOREM SpentStaysSpent == Spec => SpendingIsFinal
PROOF
<1>1. ChargesInv /\ [Next]_vars =>
        [/\ \A t \in Tasks : Charged(t)' >= Charged(t)
         /\ \A r \in Requests : req[r].status \in {"ok", "failed"} => req'[r] = req[r]]_vars
  <2>. SUFFICES ASSUME ChargesInv, [Next]_vars
                PROVE  /\ \A t \in Tasks : Charged(t)' >= Charged(t)
                       /\ \A r \in Requests :
                            req[r].status \in {"ok", "failed"} => req'[r] = req[r]
    OBVIOUS
  <2>1. TypeOK /\ TypeOK'
    BY TypeStep DEF ChargesInv
  <2>. QED
    BY <2>1, SpendingStep
<1>. QED
  BY <1>1, ChargesInit, ChargesStep, PTL DEF Spec, SpendingIsFinal

-----------------------------------------------------------------------------
(***************************************************************************)
(* The ledger: what buckets have used is what the ledger says, and refunds *)
(* give back no more of a debit than it took.                              *)
(*                                                                         *)
(* Refund takes a debit's rows in the order in which they were debited and *)
(* skips what earlier refunds took.  That works because the greedy take of *)
(* an amount is unique and grows with the amount, so what was skipped is   *)
(* what was given back before, row by row.                                 *)
(***************************************************************************)

-----------------------------------------------------------------------------
\* Greedy takes.

\* Rows are ordered: no two differ without one being before the other.
LEMMA RowsOrdered ==
    ASSUME NEW rank \in [Buckets -> Nat], NEW b \in Buckets, NEW c \in Buckets, b # c
    PROVE  Before(rank, b, c) \/ Before(rank, c, b)
PROOF
<1>1. b \in Nat /\ c \in Nat /\ rank[b] \in Nat /\ rank[c] \in Nat
  BY RowsAssumption
<1>. QED
  BY <1>1 DEF Before

\* The sum of rows that are larger by d.
LEMMA SumLarger ==
    ASSUME NEW f \in [Buckets -> Nat], NEW d \in [Buckets -> Nat], NEW g \in [Buckets -> Nat],
           \A b \in Buckets : g[b] = f[b] + d[b]
    PROVE  Sum(g) = Sum(f) + Sum(d)
PROOF
<1>1. g = [x \in Buckets |-> f[x] + d[x]]
  OBVIOUS
<1>2. IsFiniteSet(Buckets)
  BY RowsAssumption
<1>3. Sum([x \in Buckets |-> f[x] + d[x]]) = Sum(f) + Sum(d)
  BY <1>2, SumPlus
<1>. QED
  BY <1>1, <1>3, Zenon

\* Of a larger amount each row gives at least as much.
LEMMA GreedyGrows ==
    ASSUME NEW offer \in [Buckets -> Nat], NEW rank \in [Buckets -> Nat],
           NEW m \in Nat, NEW n \in Nat, m <= n,
           NEW take \in InOrder(offer, rank, m), NEW more \in InOrder(offer, rank, n)
    PROVE  \A b \in Buckets : take[b] <= more[b]
PROOF
<1>1. /\ take \in [Buckets -> Nat] /\ Sum(take) = m /\ \A b \in Buckets : take[b] <= offer[b]
      /\ more \in [Buckets -> Nat] /\ Sum(more) = n /\ \A b \in Buckets : more[b] <= offer[b]
  BY InOrderTakes
<1>2. \A b, c \in Buckets : Before(rank, b, c) /\ take[c] > 0 => take[b] = offer[b]
  BY DEF InOrder
<1>3. \A b, c \in Buckets : Before(rank, b, c) /\ more[c] > 0 => more[b] = offer[b]
  BY DEF InOrder
<1>. SUFFICES ASSUME NEW b \in Buckets, more[b] < take[b]
              PROVE  FALSE
  BY <1>1
<1>4. PICK c \in Buckets : take[c] < more[c]
  <2>. SUFFICES ASSUME \A c \in Buckets : more[c] <= take[c]
                PROVE  FALSE
    BY <1>1
  <2>. DEFINE d == [c \in Buckets |-> take[c] - more[c]]
  <2>1. d \in [Buckets -> Nat]
    BY <1>1
  <2>2. \A c \in Buckets : take[c] = more[c] + d[c]
    BY <1>1
  <2>3. d[b] > 0
    BY <1>1
  <2>. HIDE DEF d
  <2>4. m = n + Sum(d)
    BY <1>1, <2>1, <2>2, SumLarger
  <2>5. Sum(d) \in Nat /\ d[b] <= Sum(d) /\ d[b] \in Nat
    BY <2>1, SumType, SumAtLeast, RowsAssumption
  <2>. QED
    BY <2>3, <2>4, <2>5
<1>5. b # c /\ take[b] > 0 /\ more[c] > 0
  BY <1>1, <1>4
<1>6. CASE Before(rank, b, c)
  BY <1>1, <1>3, <1>5, <1>6
<1>7. CASE Before(rank, c, b)
  BY <1>1, <1>2, <1>4, <1>5, <1>7
<1>. QED
  BY <1>5, <1>6, <1>7, RowsOrdered

\* The greedy take of an amount is unique.
LEMMA GreedyUnique ==
    ASSUME NEW offer \in [Buckets -> Nat], NEW rank \in [Buckets -> Nat], NEW n \in Nat,
           NEW take \in InOrder(offer, rank, n), NEW other \in InOrder(offer, rank, n)
    PROVE  take = other
PROOF
<1>1. take \in [Buckets -> Nat] /\ other \in [Buckets -> Nat]
  BY InOrderTakes
<1>2. \A b \in Buckets : take[b] <= other[b]
  BY GreedyGrows
<1>3. \A b \in Buckets : other[b] <= take[b]
  BY GreedyGrows
<1>4. \A b \in Buckets : take[b] = other[b]
  BY <1>1, <1>2, <1>3
<1>. QED
  BY <1>1, <1>4

\* Of nothing every row gives nothing.
LEMMA GreedyZero ==
    ASSUME NEW offer \in [Buckets -> Nat], NEW rank
    PROVE  Zero \in InOrder(offer, rank, 0)
PROOF
<1>1. Zero \in [Buckets -> Nat]
  BY DEF Zero
<1>2. Sum(Zero) = 0
  <2>1. \A b \in Buckets : Zero[b] = 0
    BY DEF Zero
  <2>. QED
    BY <1>1, <2>1, SumZero, RowsAssumption
<1>. QED
  BY <1>2 DEF InOrder, Zero

-----------------------------------------------------------------------------
\* A refund in full: which rows it takes and what it does to the buckets.

RefundOf(f, r, amount, skipped, reached) ==
    LET share == [b \in Buckets |-> PosPart(reached[b] - skipped[b])]
        back == {b \in Active : share[b] > 0}
    IN  /\ refund[f] = NoRefund /\ \E b \in Buckets : debit[r][b] > 0
        /\ refund' = [refund EXCEPT ![f] =
             [request |-> r, amount |-> amount, split |-> share, back |-> back]]
        /\ \A b \in Buckets :
             bucket'[b].used = IF b \in back THEN bucket[b].used - share[b] ELSE bucket[b].used

\* The rows a refund skips and reaches, and what becomes of the buckets.
LEMMA RefundRows ==
    ASSUME FundsInv, NEW f \in Refunds, NEW r \in Requests, NEW amount \in RefundAmounts,
           Refund(f, r, amount)
    PROVE  \E skipped \in InOrder(debit[r], hold[req[r].auth].rank, Returned(r)),
              reached \in InOrder(debit[r], hold[req[r].auth].rank, Returned(r) + amount) :
             RefundOf(f, r, amount, skipped, reached)
PROOF
<1>. DEFINE rank == hold[req[r].auth].rank
            absent == {b \in Buckets : bucket[b].status = "absent"}
            Share(skipped, reached) == [b \in Buckets |-> PosPart(reached[b] - skipped[b])]
            Back(share) == {b \in Active : share[b] > 0}
            Lost(share) == {b \in Buckets \ Active : share[b] > 0}
            Rows3(share, bonus) == [b \in Buckets |->
              IF b \in Back(share) THEN GivenBack(b, share[b])
              ELSE IF \E l \in Lost(share) : bonus[l] = b
              THEN NewBucket("bonus", share[CHOOSE l \in Lost(share) : bonus[l] = b],
                             now + BonusTTL)
              ELSE bucket[b]]
            Effect(share) ==
              /\ \A b \in Back(share) : bucket[b].used >= share[b]
              /\ \E bonus \in Injection(Lost(share), absent) : bucket' = Rows3(share, bonus)
              /\ refund' = [refund EXCEPT ![f] =
                   [request |-> r, amount |-> amount, split |-> share, back |-> Back(share)]]
<1>1. PICK skipped \in InOrder(debit[r], rank, Returned(r)),
           reached \in InOrder(debit[r], rank, Returned(r) + amount) :
        Effect(Share(skipped, reached))
  BY Zenon DEF Refund
<1>2. refund[f] = NoRefund /\ \E b \in Buckets : debit[r][b] > 0
  BY DEF Refund
<1>3. PICK share : share = Share(skipped, reached)
  OBVIOUS
<1>. HIDE DEF Effect
<1>4. Effect(share)
  BY <1>1, <1>3
<1>5. PICK bonus \in Injection(Lost(share), absent) : bucket' = Rows3(share, bonus)
  BY <1>4 DEF Effect
<1>6. bucket \in [Buckets -> BucketType] /\ \A b \in absent : bucket[b].used = 0
  BY DEF FundsInv, UncreatedIsEmpty, TypeOK, NoBucket
<1>7. ASSUME NEW b \in Buckets
      PROVE  bucket'[b].used = IF b \in Back(share) THEN bucket[b].used - share[b]
                               ELSE bucket[b].used
  <2>1. CASE b \in Back(share)
    BY <1>5, <1>6, <2>1 DEF GivenBack, BucketType
  <2>2. CASE b \notin Back(share) /\ \E l \in Lost(share) : bonus[l] = b
    <3>1. b \in absent
      BY <2>2 DEF Injection
    <3>2. \E x : bucket'[b] = NewBucket("bonus", x, now + BonusTTL)
      BY <1>5, <2>2
    <3>. QED
      BY <1>6, <2>2, <3>1, <3>2 DEF NewBucket
  <2>3. CASE b \notin Back(share) /\ ~\E l \in Lost(share) : bonus[l] = b
    BY <1>5, <2>3
  <2>. QED
    BY <2>1, <2>2, <2>3
<1>8. refund' = [refund EXCEPT ![f] =
        [request |-> r, amount |-> amount, split |-> share, back |-> Back(share)]]
  BY <1>4 DEF Effect
<1>9. RefundOf(f, r, amount, skipped, reached)
  BY <1>2, <1>3, <1>7, <1>8, Zenon DEF RefundOf
<1>. QED
  BY <1>9

-----------------------------------------------------------------------------
\* What buckets have used is what the ledger says.

\* The step writes no amount of the ledger and none of a bucket.
Quiet == debit' = debit /\ refund' = refund /\ \A b \in Buckets : bucket'[b].used = bucket[b].used

\* Only a debit and a refund write amounts.
LEMMA LedgerKinds ==
    ASSUME FundsInv, [Next]_vars
    PROVE  \/ Quiet
           \/ \E r \in Requests : SettleDebit(r)
           \/ \E f \in Refunds, r \in Requests, amount \in RefundAmounts : Refund(f, r, amount)
PROOF
<1>0. bucket \in [Buckets -> BucketType] /\ \A b \in Buckets : bucket[b] \in BucketType
  BY DEF FundsInv, TypeOK
<1>1. ASSUME bucket' = bucket /\ debit' = debit /\ refund' = refund
      PROVE  Quiet
  BY <1>1 DEF Quiet
<1>2. ASSUME NEW h \in Holds, HoldStep(h)
      PROVE  Quiet
  <2>1. \A t \in Tasks, calls \in [Capabilities -> CallCounts] :
          QuoteCapabilities(h, t, calls) => Quiet
    BY <1>1 DEF QuoteCapabilities
  <2>2. \A maxTotal \in Totals : Confirm(h, maxTotal) => Quiet
    BY <1>1 DEF Confirm
  <2>3. \A t \in Tasks, amount \in LegacyAmounts : CreateHold(h, t, amount) => Quiet
    BY <1>1 DEF CreateHold
  <2>4. Heartbeat(h) \/ Settle(h) \/ ExpireHold(h) => Quiet
    BY <1>1 DEF Heartbeat, Settle, ExpireHold
  <2>. QED
    BY <1>2, <2>1, <2>2, <2>3, <2>4 DEF HoldStep
<1>3. ASSUME NEW r \in Requests, RequestStep(r)
      PROVE  Quiet \/ SettleDebit(r)
  <2>1. \A t \in Tasks, c \in Capabilities : AcceptIncluded(r, t, c) => Quiet
    BY <1>1 DEF AcceptIncluded
  <2>2. \A c \in Capabilities, h \in Holds : AcceptPerCall(r, c, h) => Quiet
    BY <1>1 DEF AcceptPerCall
  <2>3. Persist(r) => Quiet
    BY <1>1 DEF Persist
  <2>4. FailV2(r) \/ SettleTooLate(r) \/ SettleFree(r) => Quiet
    BY <1>1 DEF FailV2, SettleTooLate, SettleFree, Released
  <2>. QED
    BY <1>3, <2>1, <2>2, <2>3, <2>4 DEF RequestStep
<1>4. ASSUME NEW b \in Buckets, NEW g \in Grants, AdminGrant(b, g)
      PROVE  Quiet
  <2>1. bucket[b].used = 0
    BY <1>4 DEF AdminGrant, FundsInv, UncreatedIsEmpty, NoBucket
  <2>2. bucket' = [bucket EXCEPT ![b] = NewBucket(g.plan, g.amount, now + g.days)]
    BY <1>4 DEF AdminGrant
  <2>3. NewBucket(g.plan, g.amount, now + g.days).used = 0
    BY DEF NewBucket
  <2>4. debit' = debit /\ refund' = refund
    BY <1>4 DEF AdminGrant
  <2>. QED
    BY <1>0, <2>1, <2>2, <2>3, <2>4 DEF Quiet
<1>5. ASSUME NEW b \in Buckets, NEW days \in Extensions, ExtendBucket(b, days)
      PROVE  Quiet
  BY <1>0, <1>5 DEF ExtendBucket, Quiet, BucketType
<1>6. ASSUME NEW b \in Revocable, RevokeBucket(b)
      PROVE  Quiet
  BY <1>0, <1>6, AmountsAssumption DEF RevokeBucket, Quiet, BucketType
<1>7. ASSUME NEW c \in Capabilities, NEW p \in NewPrices, ChangePrice(c, p)
      PROVE  Quiet
  BY <1>1, <1>7 DEF ChangePrice
<1>8. CASE ExpireSubscriptions
  BY <1>0, <1>8 DEF ExpireSubscriptions, Quiet, BucketType
<1>9. CASE Tick \/ UNCHANGED vars
  BY <1>1, <1>9 DEF Tick, vars
<1>. QED
  BY <1>2, <1>3, <1>4, <1>5, <1>6, <1>7, <1>8, <1>9 DEF Next, AdminStep

\* What the ledger took from a bucket, and what refunds put back into it.
Took(b) == Sum([r \in Requests |-> debit[r][b]])
BackIn(f, b) == IF b \in refund[f].back THEN refund[f].split[b] ELSE 0
PutBack(b) == Sum([f \in Refunds |-> BackIn(f, b)])

LedgerInv == FundsInv /\ ChargesInv /\ UsedMatchesLedger

\* Both totals are amounts.
LEMMA LedgerTypes ==
    ASSUME TypeOK, NEW b \in Buckets
    PROVE  /\ [r \in Requests |-> debit[r][b]] \in [Requests -> Nat]
           /\ [f \in Refunds |-> BackIn(f, b)] \in [Refunds -> Nat]
           /\ Took(b) \in Nat /\ PutBack(b) \in Nat
PROOF
<1>1. [r \in Requests |-> debit[r][b]] \in [Requests -> Nat]
  BY DEF TypeOK
<1>2. [f \in Refunds |-> BackIn(f, b)] \in [Refunds -> Nat]
  BY DEF TypeOK, RefundType, BackIn
<1>. QED
  BY <1>1, <1>2, SumType, RowsAssumption, Zenon DEF Took, PutBack

\* UsedMatchesLedger, of one bucket and without a difference of amounts.
Matches(b) == bucket[b].used + PutBack(b) = Took(b)

\* A step changes both sides of the account of a bucket by the same amount.
LEMMA LedgerStep ==
    ASSUME LedgerInv, TypeOK', [Next]_vars, NEW b \in Buckets, Matches(b)
    PROVE  Matches(b)'
PROOF
<1>. DEFINE d == [r \in Requests |-> debit[r][b]]
            dn == [r \in Requests |-> debit'[r][b]]
            p == [f \in Refunds |-> BackIn(f, b)]
            pn == [f \in Refunds |-> BackIn(f, b)']
<1>0. TypeOK /\ ChargesInv /\ FundsInv
  BY DEF LedgerInv, FundsInv
<1>1. /\ d \in [Requests -> Nat] /\ dn \in [Requests -> Nat]
      /\ p \in [Refunds -> Nat] /\ pn \in [Refunds -> Nat]
  <2>1. \A r \in Requests : debit[r][b] \in Nat /\ debit'[r][b] \in Nat
    BY <1>0 DEF TypeOK
  <2>2. \A f \in Refunds : BackIn(f, b) \in Nat /\ BackIn(f, b)' \in Nat
    BY <1>0 DEF TypeOK, RefundType, BackIn
  <2>. QED
    BY <2>1, <2>2
<1>2. /\ Took(b) = Sum(d) /\ Took(b)' = Sum(dn)
      /\ PutBack(b) = Sum(p) /\ PutBack(b)' = Sum(pn)
  BY Zenon DEF Took, PutBack
<1>3. bucket[b].used + Sum(p) = Sum(d) /\ bucket[b].used \in Nat /\ bucket'[b].used \in Nat
  BY <1>0, <1>2 DEF Matches, TypeOK, BucketType
<1>4. Matches(b)' <=> bucket'[b].used + Sum(pn) = Sum(dn)
  BY <1>2 DEF Matches
<1>5. Sum(p) \in Nat /\ Sum(pn) \in Nat /\ Sum(d) \in Nat /\ Sum(dn) \in Nat
  BY <1>1, SumType, RowsAssumption, Zenon
<1>6. CASE Quiet
  <2>1. dn = d /\ pn = p /\ bucket'[b].used = bucket[b].used
    BY <1>6 DEF Quiet, BackIn
  <2>. HIDE DEF d, dn, p, pn
  <2>. QED
    BY <1>3, <1>4, <2>1
<1>7. ASSUME NEW r \in Requests, SettleDebit(r)
      PROVE  Matches(b)'
  <2>. DEFINE paid == req[r].alloc
  <2>1. req[r].status = "settlement_pending"
    BY <1>7 DEF SettleDebit
  <2>2. debit[r][b] = 0
    <3>1. ChargeOf(r)
      BY <1>0 DEF ChargesInv
    <3>. QED
      BY <2>1, <3>1 DEF ChargeOf, Zero
  <2>3. /\ debit' = [debit EXCEPT ![r] = paid] /\ refund' = refund
        /\ bucket' = [x \in Buckets |-> [bucket[x] EXCEPT !.used = bucket[x].used + paid[x]]]
    BY <1>7 DEF SettleDebit
  <2>4. bucket'[b].used = bucket[b].used + paid[b]
    BY <1>0, <2>3 DEF TypeOK, BucketType
  <2>5. d[r] = 0 /\ dn[r] = paid[b] /\ \A i \in Requests : i # r => dn[i] = d[i]
    BY <1>0, <2>2, <2>3 DEF TypeOK
  <2>6. pn = p
    BY <2>3 DEF BackIn
  <2>7. paid[b] \in Nat
    BY <1>0 DEF TypeOK, RequestType
  <2>. HIDE DEF d, dn, p, pn, paid
  <2>8. Sum(dn) + d[r] = Sum(d) + dn[r]
    BY <1>1, <2>5, SumChange, RowsAssumption
  <2>. QED
    BY <1>3, <1>4, <1>5, <2>4, <2>5, <2>6, <2>7, <2>8
<1>8. ASSUME NEW f \in Refunds, NEW r \in Requests, NEW amount \in RefundAmounts,
             Refund(f, r, amount)
      PROVE  Matches(b)'
  <2>1. PICK skipped \in InOrder(debit[r], hold[req[r].auth].rank, Returned(r)),
             reached \in InOrder(debit[r], hold[req[r].auth].rank, Returned(r) + amount) :
               RefundOf(f, r, amount, skipped, reached)
    BY <1>0, <1>8, RefundRows
  <2>2. PICK share : share = [x \in Buckets |-> PosPart(reached[x] - skipped[x])]
    OBVIOUS
  <2>3. PICK back : back = {x \in Active : share[x] > 0}
    OBVIOUS
  <2>4. /\ refund[f] = NoRefund
        /\ refund' = [refund EXCEPT ![f] =
             [request |-> r, amount |-> amount, split |-> share, back |-> back]]
        /\ bucket'[b].used = IF b \in back THEN bucket[b].used - share[b] ELSE bucket[b].used
    BY <2>1, <2>2, <2>3 DEF RefundOf
  <2>5. /\ refund'[f].split = share /\ refund'[f].back = back
        /\ \A i \in Refunds : i # f => refund'[i] = refund[i]
    BY <1>0, <2>4 DEF TypeOK
  <2>6. p[f] = 0 /\ pn[f] = (IF b \in back THEN share[b] ELSE 0)
    BY <2>4, <2>5 DEF BackIn, NoRefund
  <2>7. \A i \in Refunds : i # f => pn[i] = p[i]
    BY <2>5 DEF BackIn
  <2>8. dn = d
    BY <1>8 DEF Refund
  <2>9. pn[f] \in Nat
    BY <1>1
  <2>. HIDE DEF d, dn, p, pn
  <2>10. Sum(pn) + p[f] = Sum(p) + pn[f]
    BY <1>1, <2>7, SumChange, RowsAssumption
  <2>11. bucket'[b].used = bucket[b].used - pn[f]
    BY <1>3, <2>4, <2>6
  <2>. QED
    BY <1>3, <1>4, <1>5, <2>6, <2>8, <2>9, <2>10, <2>11
<1>. QED
  BY <1>0, <1>6, <1>7, <1>8, LedgerKinds

\* What a bucket has used is what the ledger took from it and did not give back, whatever is
\* debited, refunded, granted or revoked: the separate statements of each transaction agree.
THEOREM UsedIsInTheLedger == Spec => []UsedMatchesLedger
PROOF
<1>1. TypeOK => (UsedMatchesLedger <=> \A b \in Buckets : Matches(b))
  <2>. SUFFICES ASSUME TypeOK, NEW b \in Buckets
                PROVE  bucket[b].used = Took(b) - PutBack(b) <=> Matches(b)
    BY Zenon DEF UsedMatchesLedger, Took, PutBack, BackIn
  <2>1. bucket[b].used \in Nat /\ Took(b) \in Nat /\ PutBack(b) \in Nat
    BY LedgerTypes DEF TypeOK, BucketType
  <2>. QED
    BY <2>1 DEF Matches
<1>2. Init => UsedMatchesLedger
  <2>. SUFFICES ASSUME Init, NEW b \in Buckets
                PROVE  Matches(b)
    BY <1>1, TypeInit
  <2>. DEFINE d == [r \in Requests |-> debit[r][b]]
              p == [f \in Refunds |-> BackIn(f, b)]
  <2>1. d \in [Requests -> Nat] /\ p \in [Refunds -> Nat]
    BY TypeInit, LedgerTypes
  <2>2. \A r \in Requests : d[r] = 0
    BY DEF Init, Zero
  <2>3. \A f \in Refunds : p[f] = 0
    BY DEF Init, NoRefund, BackIn
  <2>. HIDE DEF d, p
  <2>4. Sum(d) = 0 /\ Sum(p) = 0
    BY <2>1, <2>2, <2>3, SumZero, RowsAssumption
  <2>5. Took(b) = 0 /\ PutBack(b) = 0
    BY <2>4 DEF Took, PutBack, d, p
  <2>6. bucket[b].used = 0
    BY DEF Init, NewBucket, NoBucket
  <2>. QED
    BY <2>5, <2>6 DEF Matches
<1>3. LedgerInv /\ [Next]_vars => LedgerInv'
  <2>. SUFFICES ASSUME LedgerInv, [Next]_vars PROVE LedgerInv'
    OBVIOUS
  <2>1. FundsInv' /\ ChargesInv'
    BY FundsStep, ChargesStep DEF LedgerInv
  <2>2. TypeOK /\ TypeOK'
    BY <2>1 DEF LedgerInv, FundsInv
  <2>3. \A b \in Buckets : Matches(b)'
    BY <1>1, <2>2, LedgerStep DEF LedgerInv
  <2>4. TypeOK' => (UsedMatchesLedger' <=> \A b \in Buckets : Matches(b)')
    <3>. SUFFICES ASSUME TypeOK', NEW b \in Buckets
                  PROVE  bucket'[b].used = Took(b)' - PutBack(b)' <=> Matches(b)'
      BY Zenon DEF UsedMatchesLedger, Took, PutBack, BackIn
    <3>1. \A r \in Requests : debit'[r][b] \in Nat
      BY DEF TypeOK
    <3>2. \A f \in Refunds : BackIn(f, b)' \in Nat
      BY DEF TypeOK, RefundType, BackIn
    <3>3. Took(b)' \in Nat /\ PutBack(b)' \in Nat
      BY <3>1, <3>2, SumType, RowsAssumption DEF Took, PutBack
    <3>4. bucket'[b].used \in Nat
      BY DEF TypeOK, BucketType
    <3>. QED
      BY <3>3, <3>4 DEF Matches
  <2>. QED
    BY <2>1, <2>2, <2>3, <2>4 DEF LedgerInv
<1>4. LedgerInv => UsedMatchesLedger
  BY DEF LedgerInv
<1>5. Init => LedgerInv
  BY <1>2, FundsInit, ChargesInit DEF LedgerInv
<1>. QED
  BY <1>3, <1>4, <1>5, PTL DEF Spec

-----------------------------------------------------------------------------
\* Refunds give back no more of a debit than it took.

\* An authorization that was opened keeps the order in which its buckets are debited.
OrderKept(h) ==
    hold[h].status \notin {"none", "quoted"} =>
      hold'[h].status \notin {"none", "quoted"} /\ hold'[h].rank = hold[h].rank

\* No step reorders an authorization that was opened.
LEMMA OrdersKept ==
    ASSUME TypeOK, [Next]_vars, NEW i \in Holds
    PROVE  OrderKept(i)
PROOF
<1>0. hold[i] \in HoldType /\ hold \in [Holds -> HoldType]
  BY DEF TypeOK
<1>1. ASSUME hold' = hold
      PROVE  OrderKept(i)
  BY <1>1 DEF OrderKept
<1>2. ASSUME NEW x, hold'[i] = [hold[i] EXCEPT !.alloc = x]
      PROVE  OrderKept(i)
  BY <1>0, <1>2 DEF OrderKept, HoldType
<1>3. ASSUME NEW h \in Holds, HoldStep(h)
      PROVE  OrderKept(i)
  <2>1. ASSUME NEW t \in Tasks, NEW calls \in [Capabilities -> CallCounts],
               QuoteCapabilities(h, t, calls)
        PROVE  OrderKept(i)
    BY <1>0, <2>1 DEF QuoteCapabilities, OrderKept
  <2>2. ASSUME NEW maxTotal \in Totals, Confirm(h, maxTotal)
        PROVE  OrderKept(i)
    <3>. DEFINE hs == SettledForTask(hold[h].task)
    <3>1. PICK row : hold' = [hs EXCEPT ![h] = row]
      BY <2>2, Zenon DEF Confirm
    <3>2. hs \in [Holds -> HoldType]
      BY SettledType
    <3>3. hs[i].rank = hold[i].rank /\ (hs[i] = hold[i] \/ hs[i].status = "settled")
      BY <1>0 DEF SettledForTask, HoldType
    <3>4. hold[h].status = "quoted"
      BY <2>2 DEF Confirm
    <3>. HIDE DEF hs
    <3>5. i # h => hold'[i] = hs[i]
      BY <3>1, <3>2
    <3>. QED
      BY <3>3, <3>4, <3>5 DEF OrderKept
  <2>3. ASSUME NEW t \in Tasks, NEW amount \in LegacyAmounts, CreateHold(h, t, amount)
        PROVE  OrderKept(i)
    BY <1>0, <2>3 DEF CreateHold, OrderKept
  <2>4. CASE Heartbeat(h)
    BY <1>0, <2>4 DEF Heartbeat, OrderKept, HoldType
  <2>5. CASE Settle(h)
    BY <1>0, <2>5 DEF Settle, OrderKept, HoldType
  <2>6. CASE ExpireHold(h)
    BY <1>0, <2>6 DEF ExpireHold, OrderKept, HoldType
  <2>. QED
    BY <1>3, <2>1, <2>2, <2>3, <2>4, <2>5, <2>6 DEF HoldStep
<1>4. ASSUME NEW r \in Requests, RequestStep(r)
      PROVE  OrderKept(i)
  <2>1. ASSUME NEW c \in Capabilities, NEW h \in Holds, AcceptPerCall(r, c, h)
        PROVE  OrderKept(i)
    <3>1. PICK x : hold' = [hold EXCEPT ![h].alloc = x]
      BY <2>1, Zenon DEF AcceptPerCall
    <3>. QED
      BY <1>0, <1>2, <3>1 DEF OrderKept
  <2>2. CASE SettleDebit(r)
    BY <1>0, <2>2 DEF SettleDebit, OrderKept, HoldType
  <2>3. CASE FailV2(r) \/ SettleTooLate(r) \/ SettleFree(r)
    <3>1. hold' = HoldsAfterRelease(r)
      BY <2>3 DEF FailV2, SettleTooLate, SettleFree, Released
    <3>2. hold'[i] = hold[i] \/ \E x : hold'[i] = [hold[i] EXCEPT !.alloc = x]
      BY <3>1, Zenon DEF HoldsAfterRelease
    <3>. QED
      BY <1>2, <3>2 DEF OrderKept
  <2>4. ASSUME NEW t \in Tasks, NEW c \in Capabilities, AcceptIncluded(r, t, c)
        PROVE  OrderKept(i)
    BY <1>1, <2>4 DEF AcceptIncluded
  <2>5. CASE Persist(r)
    BY <1>1, <2>5 DEF Persist
  <2>. QED
    BY <1>4, <2>1, <2>2, <2>3, <2>4, <2>5 DEF RequestStep
<1>. QED
  BY <1>1, <1>3, <1>4, StepKinds

\* A request is paid for by an authorization that was opened.
AuthOpened(r) ==
    req[r].auth \in Holds => hold[req[r].auth].status \notin {"none", "quoted"}

\* A request is accepted with an open authorization, and none closes back into a quote.
LEMMA AuthStaysOpened ==
    ASSUME TypeOK, \A r \in Requests : AuthOpened(r), [Next]_vars, NEW r \in Requests
    PROVE  AuthOpened(r)'
PROOF
<1>1. ASSUME req'[r].auth = req[r].auth
      PROVE  AuthOpened(r)'
  BY <1>1, OrdersKept DEF AuthOpened, OrderKept
<1>2. ASSUME NEW i \in Requests, RequestStep(i), i # r
      PROVE  AuthOpened(r)'
  BY <1>1, <1>2, RequestRows
<1>3. CASE RequestStep(r)
  <2>1. CASE IsIncluded(r)
    BY <2>1, RowsAssumption DEF IsIncluded, AuthOpened
  <2>2. CASE IsStored(r) \/ IsReleased(r) \/ IsDebited(r)
    BY <1>1, <2>2 DEF IsStored, IsReleased, IsDebited
  <2>3. ASSUME NEW h \in Holds, NEW take, IsAccepted(r, h, take)
        PROVE  AuthOpened(r)'
    BY <2>3, OrdersKept DEF IsAccepted, AuthOpened, OrderKept
  <2>. QED
    BY <1>3, <2>1, <2>2, <2>3, RequestRows
<1>. QED
  BY <1>1, <1>2, <1>3, StepKinds, HoldStepRows

\* What refunds gave back for a request, bucket by bucket; RefundedWithinDebit compares it
\* with the debit.
SplitIn(f, r, b) == IF refund[f].request = r THEN refund[f].split[b] ELSE 0
AmountIn(f, r) == IF refund[f].request = r THEN refund[f].amount ELSE 0
SplitOf(r) == [b \in Buckets |-> Sum([f \in Refunds |-> SplitIn(f, r, b)])]

\* Together they are the greedy take of their total from the debit.
InLedgerOrder(r) == SplitOf(r) \in InOrder(debit[r], hold[req[r].auth].rank, Returned(r))

\* Amounts of refunds are amounts.
LEMMA RefundTypes ==
    ASSUME TypeOK
    PROVE  /\ \A f \in Refunds : \A r : /\ AmountIn(f, r) \in Nat
                                        /\ \A b \in Buckets : SplitIn(f, r, b) \in Nat
           /\ \A r : SplitOf(r) \in [Buckets -> Nat] /\ Returned(r) \in Nat
PROOF
<1>1. \A f \in Refunds : \A r : /\ AmountIn(f, r) \in Nat
                                /\ \A b \in Buckets : SplitIn(f, r, b) \in Nat
  BY DEF TypeOK, RefundType, AmountIn, SplitIn
<1>2. ASSUME NEW r, NEW b \in Buckets
      PROVE  Sum([f \in Refunds |-> SplitIn(f, r, b)]) \in Nat
  <2>1. [f \in Refunds |-> SplitIn(f, r, b)] \in [Refunds -> Nat]
    BY <1>1
  <2>. QED
    BY <2>1, SumType, RowsAssumption, Zenon
<1>3. \A r : SplitOf(r) \in [Buckets -> Nat]
  BY <1>2 DEF SplitOf
<1>. QED
  BY <1>1, <1>3, SumsOfRows

\* A request of which nothing was returned: the order does not matter.
LEMMA NothingReturned ==
    ASSUME TypeOK, NEW r, NEW d \in [Buckets -> Nat], NEW e \in [Buckets -> Nat],
           NEW rank, NEW other, SplitOf(r) \in InOrder(d, rank, 0)
    PROVE  SplitOf(r) \in InOrder(e, other, 0)
PROOF
<1>1. SplitOf(r) \in [Buckets -> Nat] /\ Sum(SplitOf(r)) = 0
  BY InOrderTakes
<1>2. \A b \in Buckets : SplitOf(r)[b] = 0
  BY <1>1, SumZero, RowsAssumption
<1>3. SplitOf(r) = Zero
  BY <1>1, <1>2 DEF Zero
<1>. QED
  BY <1>3, GreedyZero

\* Only a request that was charged through an authorization has a debit.
LEMMA DebitedRequest ==
    ASSUME ChargesInv, NEW r \in Requests, debit[r] # Zero
    PROVE  req[r].status = "ok" /\ req[r].auth \in Holds
PROOF
<1>1. ChargeOf(r) /\ req[r].mode \in {"included", "per_call"}
  BY DEF ChargesInv, TypeOK, RequestType
<1>. QED
  BY <1>1 DEF ChargeOf, QuotedPrice, IsFree

\* A step that writes no refund of r leaves what was given back in order.
LEMMA RefundsKept ==
    ASSUME FundsInv, ChargesInv, TypeOK', [Next]_vars, NEW r \in Requests,
           AuthOpened(r), InLedgerOrder(r),
           SplitOf(r)' = SplitOf(r), Returned(r)' = Returned(r)
    PROVE  InLedgerOrder(r)'
PROOF
<1>0. /\ TypeOK /\ debit[r] \in [Buckets -> Nat] /\ debit'[r] \in [Buckets -> Nat]
      /\ SplitOf(r) \in [Buckets -> Nat] /\ Returned(r) \in Nat
  BY RefundTypes DEF ChargesInv, TypeOK
<1>1. CASE Returned(r) = 0
  <2>1. SplitOf(r) \in InOrder(debit[r], hold[req[r].auth].rank, 0)
    BY <1>1 DEF InLedgerOrder
  <2>2. PICK other : other = hold'[req'[r].auth].rank
    OBVIOUS
  <2>3. SplitOf(r) \in InOrder(debit'[r], other, 0)
    BY <1>0, <2>1, NothingReturned
  <2>. QED
    BY <1>1, <2>2, <2>3, Zenon DEF InLedgerOrder
<1>2. CASE Returned(r) # 0
  <2>1. debit[r] # Zero
    <3>. SUFFICES ASSUME debit[r] = Zero
                  PROVE  FALSE
      OBVIOUS
    <3>1. Sum(SplitOf(r)) = Returned(r) /\ \A b \in Buckets : SplitOf(r)[b] <= debit[r][b]
      BY <1>0, InOrderTakes DEF InLedgerOrder
    <3>2. \A b \in Buckets : SplitOf(r)[b] = 0
      BY <1>0, <3>1 DEF Zero
    <3>3. Sum(SplitOf(r)) = 0
      BY <1>0, <3>2, SumZero, RowsAssumption
    <3>. QED
      BY <1>2, <3>1, <3>3
  <2>2. req[r].status = "ok" /\ req[r].auth \in Holds
    BY <2>1, DebitedRequest
  <2>3. req'[r] = req[r]
    BY <1>0, <2>2, SpendingStep
  <2>4. debit'[r] = debit[r]
    <3>1. ASSUME NEW i \in Requests, SettleDebit(i)
          PROVE  debit'[r] = debit[r]
      <4>1. i # r /\ debit' = [debit EXCEPT ![i] = req[i].alloc]
        BY <2>2, <3>1 DEF SettleDebit
      <4>. QED
        BY <1>0, <4>1 DEF TypeOK
    <3>2. ASSUME NEW f \in Refunds, NEW i \in Requests, NEW amount \in RefundAmounts,
                 Refund(f, i, amount)
          PROVE  debit'[r] = debit[r]
      BY <3>2 DEF Refund
    <3>. QED
      BY <3>1, <3>2, LedgerKinds DEF Quiet
  <2>5. hold'[req[r].auth].rank = hold[req[r].auth].rank
    BY <1>0, <2>2, OrdersKept DEF OrderKept, AuthOpened
  <2>. QED
    BY <2>3, <2>4, <2>5 DEF InLedgerOrder
<1>. QED
  BY <1>1, <1>2

\* What a refund adds to the totals of each request.
LEMMA RefundTotals ==
    ASSUME TypeOK, TypeOK', NEW f \in Refunds, NEW r \in Requests, NEW amount \in RefundAmounts,
           NEW share, NEW back, refund[f] = NoRefund,
           refund' = [refund EXCEPT ![f] =
             [request |-> r, amount |-> amount, split |-> share, back |-> back]]
    PROVE  /\ Returned(r)' = Returned(r) + amount
           /\ \A b \in Buckets : SplitOf(r)'[b] = SplitOf(r)[b] + share[b]
           /\ \A i \in Requests \ {r} : SplitOf(i)' = SplitOf(i) /\ Returned(i)' = Returned(i)
PROOF
<1>1. /\ refund'[f] = [request |-> r, amount |-> amount, split |-> share, back |-> back]
      /\ \A i \in Refunds : i # f => refund'[i] = refund[i]
      /\ \A i \in Requests : i # "none"
  BY RowsAssumption DEF TypeOK
<1>2. Returned(r)' = Returned(r) + amount
  <2>. DEFINE u == [i \in Refunds |-> AmountIn(i, r)]
              v == [i \in Refunds |-> AmountIn(i, r)']
  <2>1. u[f] = 0 /\ v[f] = amount /\ \A i \in Refunds : i # f => v[i] = u[i]
    BY <1>1 DEF AmountIn, NoRefund
  <2>2. u \in [Refunds -> Nat] /\ v \in [Refunds -> Nat]
    <3>1. \A i \in Refunds : AmountIn(i, r) \in Nat
      BY RefundTypes
    <3>2. \A i \in Refunds : AmountIn(i, r)' \in Nat
      BY DEF TypeOK, RefundType, AmountIn
    <3>. QED
      BY <3>1, <3>2
  <2>3. Returned(r) = Sum(u) /\ Returned(r)' = Sum(v)
    BY Zenon DEF Returned, AmountIn
  <2>. HIDE DEF u, v
  <2>4. Sum(v) + u[f] = Sum(u) + v[f] /\ Sum(u) \in Nat /\ Sum(v) \in Nat
    BY <2>1, <2>2, SumChange, SumType, RowsAssumption
  <2>. QED
    BY <2>1, <2>2, <2>3, <2>4
<1>3. ASSUME NEW b \in Buckets
      PROVE  SplitOf(r)'[b] = SplitOf(r)[b] + share[b]
  <2>. DEFINE u == [i \in Refunds |-> SplitIn(i, r, b)]
              v == [i \in Refunds |-> SplitIn(i, r, b)']
  <2>1. u[f] = 0 /\ v[f] = share[b] /\ \A i \in Refunds : i # f => v[i] = u[i]
    BY <1>1 DEF SplitIn, NoRefund
  <2>2. u \in [Refunds -> Nat] /\ v \in [Refunds -> Nat]
    <3>1. \A i \in Refunds : SplitIn(i, r, b) \in Nat
      BY RefundTypes
    <3>2. \A i \in Refunds : SplitIn(i, r, b)' \in Nat
      BY DEF TypeOK, RefundType, SplitIn
    <3>. QED
      BY <3>1, <3>2
  <2>3. SplitOf(r)[b] = Sum(u) /\ SplitOf(r)'[b] = Sum(v)
    BY DEF SplitOf
  <2>. HIDE DEF u, v
  <2>4. Sum(v) + u[f] = Sum(u) + v[f] /\ Sum(u) \in Nat /\ Sum(v) \in Nat
    BY <2>1, <2>2, SumChange, SumType, RowsAssumption
  <2>. QED
    BY <2>1, <2>2, <2>3, <2>4
<1>4. ASSUME NEW i \in Requests \ {r}
      PROVE  SplitOf(i)' = SplitOf(i) /\ Returned(i)' = Returned(i)
  <2>1. \A g \in Refunds : /\ AmountIn(g, i)' = AmountIn(g, i)
                           /\ \A b \in Buckets : SplitIn(g, i, b)' = SplitIn(g, i, b)
    BY <1>1 DEF AmountIn, SplitIn, NoRefund
  <2>2. Returned(i)' = Returned(i)
    BY <2>1 DEF Returned, AmountIn
  <2>. QED
    BY <2>1, <2>2 DEF SplitOf
<1>. QED
  BY <1>2, <1>3, <1>4

\* After a refund in full the refunds of its request are the greedy take of the new total:
\* what was skipped is what they were before.
LEMMA RefundInOrder ==
    ASSUME FundsInv, ChargesInv, TypeOK', NEW f \in Refunds, NEW r \in Requests,
           NEW amount \in RefundAmounts, Refund(f, r, amount), InLedgerOrder(r)
    PROVE  /\ InLedgerOrder(r)'
           /\ \A i \in Requests \ {r} : SplitOf(i)' = SplitOf(i) /\ Returned(i)' = Returned(i)
PROOF
<1>. PICK rank : rank = hold[req[r].auth].rank
  OBVIOUS
<1>0. TypeOK /\ debit[r] \in [Buckets -> Nat] /\ amount \in Nat
  BY AmountsAssumption DEF ChargesInv, TypeOK
<1>1. SplitOf(r) \in [Buckets -> Nat] /\ Returned(r) \in Nat
  BY <1>0, RefundTypes
<1>2. PICK skipped \in InOrder(debit[r], rank, Returned(r)),
           reached \in InOrder(debit[r], rank, Returned(r) + amount) :
             RefundOf(f, r, amount, skipped, reached)
  BY RefundRows
<1>3. PICK share : share = [b \in Buckets |-> PosPart(reached[b] - skipped[b])]
  OBVIOUS
<1>4. PICK back : back = {b \in Active : share[b] > 0}
  OBVIOUS
<1>5. /\ refund[f] = NoRefund /\ \E b \in Buckets : debit[r][b] > 0
      /\ refund' = [refund EXCEPT ![f] =
           [request |-> r, amount |-> amount, split |-> share, back |-> back]]
  BY <1>2, <1>3, <1>4 DEF RefundOf
<1>6. /\ Returned(r)' = Returned(r) + amount
      /\ \A b \in Buckets : SplitOf(r)'[b] = SplitOf(r)[b] + share[b]
      /\ \A i \in Requests \ {r} : SplitOf(i)' = SplitOf(i) /\ Returned(i)' = Returned(i)
  BY <1>0, <1>5, RefundTotals
<1>7. rank \in [Buckets -> Nat]
  <2>1. debit[r] # Zero
    BY <1>5 DEF Zero
  <2>2. req[r].auth \in Holds
    BY <2>1, DebitedRequest
  <2>. QED
    BY <1>0, <2>2 DEF TypeOK, HoldType
<1>8. SplitOf(r) = skipped
  <2>1. SplitOf(r) \in InOrder(debit[r], rank, Returned(r))
    BY DEF InLedgerOrder
  <2>. QED
    BY <1>0, <1>1, <1>7, <2>1, GreedyUnique
<1>9. /\ \A b \in Buckets : skipped[b] <= reached[b]
      /\ skipped \in [Buckets -> Nat] /\ reached \in [Buckets -> Nat]
  <2>1. Returned(r) + amount \in Nat /\ Returned(r) <= Returned(r) + amount
    BY <1>0, <1>1
  <2>2. \A b \in Buckets : skipped[b] <= reached[b]
    BY <1>0, <1>1, <1>7, <2>1, GreedyGrows
  <2>. QED
    BY <1>1, <2>1, <2>2, InOrderTakes
<1>10. \A b \in Buckets : SplitOf(r)'[b] = reached[b]
  BY <1>3, <1>6, <1>8, <1>9 DEF PosPart
<1>11. SplitOf(r)' = reached
  <2>1. SplitOf(r)' = [b \in Buckets |-> SplitOf(r)'[b]]
    BY DEF SplitOf
  <2>. QED
    BY <1>9, <1>10, <2>1
<1>12. debit' = debit /\ hold' = hold /\ req' = req
  BY DEF Refund
<1>13. InLedgerOrder(r)'
  BY <1>2, <1>6, <1>11, <1>12, Zenon DEF InLedgerOrder
<1>. QED
  BY <1>6, <1>13

RefundsInv ==
    /\ FundsInv /\ ChargesInv
    /\ \A r \in Requests : AuthOpened(r) /\ InLedgerOrder(r)

\* However it is split over several refunds, no more of a debit is returned than it took, in
\* no bucket: refunds of one request follow one order, that of the debit.
THEOREM NeverRefundedBeyond == Spec => []RefundedWithinDebit
PROOF
<1>1. Init => RefundsInv
  <2>. SUFFICES ASSUME Init, NEW r \in Requests
                PROVE  AuthOpened(r) /\ InLedgerOrder(r)
    BY FundsInit, ChargesInit DEF RefundsInv
  <2>1. AuthOpened(r)
    BY RowsAssumption DEF Init, AuthOpened, NoRequest
  <2>2. \A f \in Refunds, b \in Buckets : SplitIn(f, r, b) = 0 /\ AmountIn(f, r) = 0
    BY DEF Init, NoRefund, SplitIn, AmountIn, Zero
  <2>3. TypeOK
    BY TypeInit
  <2>. DEFINE u == [f \in Refunds |-> AmountIn(f, r)]
              z == [f \in Refunds |-> 0]
  <2>4. z \in [Refunds -> Nat] /\ \A f \in Refunds : z[f] = 0
    OBVIOUS
  <2>5. Sum(z) = 0
    BY <2>4, SumZero, RowsAssumption
  <2>6. Returned(r) = Sum(u)
    BY Zenon DEF Returned, AmountIn
  <2>7. Returned(r) = 0
    <3>1. \A f \in Refunds : refund[f].amount = 0
      BY DEF Init, NoRefund
    <3>2. u \in [Refunds -> Nat] /\ \A f \in Refunds : u[f] = 0
      BY <3>1 DEF AmountIn
    <3>. HIDE DEF u
    <3>. QED
      BY <2>6, <3>2, SumZero, RowsAssumption
  <2>8. ASSUME NEW b \in Buckets
        PROVE  Sum([f \in Refunds |-> SplitIn(f, r, b)]) = 0
    <3>1. [f \in Refunds |-> SplitIn(f, r, b)] = z
      BY <2>2
    <3>. QED
      BY <2>5, <3>1, Zenon
  <2>9. SplitOf(r) = Zero
    BY <2>8 DEF SplitOf, Zero
  <2>10. debit[r] \in [Buckets -> Nat]
    BY <2>3 DEF TypeOK
  <2>. QED
    BY <2>1, <2>7, <2>9, <2>10, GreedyZero DEF InLedgerOrder
<1>2. RefundsInv /\ [Next]_vars => RefundsInv'
  <2>. SUFFICES ASSUME RefundsInv, [Next]_vars
                PROVE  RefundsInv'
    OBVIOUS
  <2>1. /\ FundsInv /\ ChargesInv /\ FundsInv' /\ ChargesInv' /\ TypeOK /\ TypeOK'
        /\ \A r \in Requests : AuthOpened(r) /\ InLedgerOrder(r)
    BY FundsStep, ChargesStep DEF RefundsInv, FundsInv
  <2>2. \A r \in Requests : AuthOpened(r)'
    BY <2>1, AuthStaysOpened
  <2>3. ASSUME NEW r \in Requests, refund' = refund
        PROVE  InLedgerOrder(r)'
    <3>1. SplitOf(r)' = SplitOf(r) /\ Returned(r)' = Returned(r)
      BY <2>3 DEF SplitOf, SplitIn, Returned
    <3>. QED
      BY <2>1, <3>1, RefundsKept
  <2>4. ASSUME NEW f \in Refunds, NEW i \in Requests, NEW amount \in RefundAmounts,
               Refund(f, i, amount), NEW r \in Requests
        PROVE  InLedgerOrder(r)'
    <3>1. /\ InLedgerOrder(i)'
          /\ \A j \in Requests \ {i} : SplitOf(j)' = SplitOf(j) /\ Returned(j)' = Returned(j)
      BY <2>1, <2>4, RefundInOrder
    <3>2. CASE r # i
      <4>1. SplitOf(r)' = SplitOf(r) /\ Returned(r)' = Returned(r)
        BY <3>1, <3>2
      <4>. QED
        BY <2>1, <4>1, RefundsKept
    <3>. QED
      BY <3>1, <3>2
  <2>5. ASSUME NEW r \in Requests
        PROVE  InLedgerOrder(r)'
    <3>1. \A i \in Requests : SettleDebit(i) => refund' = refund
      BY DEF SettleDebit
    <3>2. Quiet => refund' = refund
      BY DEF Quiet
    <3>. QED
      BY <2>1, <2>3, <2>4, <3>1, <3>2, LedgerKinds
  <2>. QED
    BY <2>1, <2>2, <2>5 DEF RefundsInv
<1>3. RefundsInv => RefundedWithinDebit
  <2>. SUFFICES ASSUME RefundsInv, NEW r \in Requests, NEW b \in Buckets
                PROVE  SplitOf(r)[b] <= debit[r][b]
    BY DEF RefundedWithinDebit, SplitOf, SplitIn
  <2>1. TypeOK /\ InLedgerOrder(r)
    BY DEF RefundsInv, FundsInv
  <2>2. Returned(r) \in Int
    BY <2>1, SumsOfRows
  <2>. QED
    BY <2>1, <2>2, InOrderTakes DEF InLedgerOrder
<1>. QED
  BY <1>1, <1>2, <1>3, PTL DEF Spec

-----------------------------------------------------------------------------
(***************************************************************************)
(* Each request implements the promise of its funds (RequestFunds), on the *)
(* sums of the ledger: what Gateway shows for one row holds for every row  *)
(* here, whatever the other requests, the holds, the buckets and the       *)
(* refunds do in between.                                                  *)
(***************************************************************************)

Phase(r) ==
    IF req[r].status = "none" THEN "absent"
    ELSE IF req[r].status \in {"ok", "failed"} THEN "closed" ELSE "open"

Funds(r) == INSTANCE RequestFunds WITH
    phase <- Phase(r), reserved <- req[r].reserved, charged <- Sum(debit[r])

\* The rows a step does not touch promise what they promised.
LEMMA FundsUntouched ==
    ASSUME NEW r \in Requests, req'[r] = req[r], debit'[r] = debit[r]
    PROVE  UNCHANGED Funds(r)!vars
  BY DEF Funds!vars, Phase

\* Accepting a request, with or without funds, opens it.
LEMMA FundsOpened ==
    ASSUME TypeOK, TypeOK', NEW r \in Requests, debit' = debit,
           req[r].status = "none", req'[r].status = "pending"
    PROVE  Funds(r)!Open
<1>1. req'[r].reserved \in Nat
  BY DEF TypeOK, RequestType
<1>2. Phase(r) = "absent" /\ Phase(r)' = "open"
  BY DEF Phase
<1>. QED
  BY <1>1, <1>2 DEF Funds!Open

\* FailV2 and the settlements without a charge release it.
LEMMA FundsReleased ==
    ASSUME TypeOK, NEW r \in Requests, NEW s \in {"ok", "failed"}, Released(r, s),
           req[r].status \in {"pending", "settlement_pending"}
    PROVE  Funds(r)!Release
<1>1. req'[r] = [req[r] EXCEPT !.status = s, !.reserved = 0, !.alloc = Zero] /\ debit' = debit
  BY DEF Released, TypeOK
<1>2. req'[r].status = s /\ req'[r].reserved = 0
  BY <1>1 DEF TypeOK, RequestType
<1>3. Phase(r) = "open" /\ Phase(r)' = "closed"
  BY <1>2 DEF Phase
<1>. QED
  BY <1>1, <1>2, <1>3 DEF Funds!Release

\* DebitReserved charges exactly what was reserved, which is not nothing.
LEMMA FundsCharged ==
    ASSUME ChargesInv, NEW r \in Requests, SettleDebit(r)
    PROVE  Funds(r)!Charge
<1>0. req \in [Requests -> RequestType] /\ debit \in [Requests -> [Buckets -> Nat]]
      /\ req[r] \in RequestType
  BY DEF ChargesInv, TypeOK
<1>1. /\ req[r].status = "settlement_pending" /\ ~IsFree(r)
      /\ req[r].reserved = req[r].unit /\ Sum(req[r].alloc) = req[r].unit
      /\ debit' = [debit EXCEPT ![r] = req[r].alloc]
      /\ req' = [req EXCEPT ![r].status = "ok", ![r].credits = req[r].unit,
                            ![r].reserved = 0, ![r].alloc = Zero]
  BY DEF SettleDebit
<1>2. req'[r].status = "ok" /\ req'[r].reserved = 0
  BY <1>0, <1>1 DEF RequestType
<1>3. debit'[r] = req[r].alloc
  BY <1>0, <1>1
<1>4. req[r].reserved > 0
  BY <1>0, <1>1 DEF ChargesInv, ChargeOf, QuotedPrice, IsFree, RequestType
<1>5. Phase(r) = "open" /\ Phase(r)' = "closed"
  BY <1>1, <1>2 DEF Phase
<1>. QED
  BY <1>1, <1>2, <1>3, <1>4, <1>5 DEF Funds!Charge

\* Any step is, for one request, one of the three or no step.
LEMMA FundsOfEachStep ==
    ASSUME ChargesInv, [Next]_vars, NEW r \in Requests
    PROVE  [Funds(r)!Next]_(Funds(r)!vars)
<1>0. TypeOK /\ TypeOK' /\ req \in [Requests -> RequestType]
      /\ debit \in [Requests -> [Buckets -> Nat]]
  BY TypeStep DEF ChargesInv, TypeOK
<1>1. ASSUME req' = req, debit' = debit PROVE UNCHANGED Funds(r)!vars
  BY <1>1, FundsUntouched
<1>2. ASSUME NEW i \in Requests, RequestStep(i) PROVE [Funds(r)!Next]_(Funds(r)!vars)
  <2>1. CASE i # r
    <3>1. req'[r] = req[r]
      BY <1>0, <1>2, <2>1, RequestRows
    <3>2. debit'[r] = debit[r]
      BY <1>0, <1>2, <2>1 DEF RequestStep, AcceptIncluded, AcceptPerCall, Persist, FailV2,
         SettleTooLate, SettleFree, SettleDebit, Released
    <3>. QED
      BY <3>1, <3>2, FundsUntouched
  <2>2. CASE i = r
    <3>1. ASSUME NEW t \in Tasks, NEW c \in Capabilities, AcceptIncluded(r, t, c)
          PROVE  Funds(r)!Open
      <4>1. req[r].status = "none" /\ req'[r].status = "pending" /\ debit' = debit
        BY <1>0, <3>1 DEF AcceptIncluded, NoRequest
      <4>. QED
        BY <1>0, <4>1, FundsOpened
    <3>2. ASSUME NEW c \in Capabilities, NEW h \in Holds, AcceptPerCall(r, c, h)
          PROVE  Funds(r)!Open
      <4>1. PICK take :
              req' = [req EXCEPT ![r] =
                [NoRequest EXCEPT !.status = "pending", !.task = hold[h].task, !.cap = c,
                                  !.mode = "per_call", !.auth = h,
                                  !.unit = hold[h].prices[c].credits,
                                  !.reserved = hold[h].prices[c].credits, !.alloc = take]]
        BY <3>2, Zenon DEF AcceptPerCall
      <4>2. req[r].status = "none" /\ debit' = debit
        BY <3>2 DEF AcceptPerCall
      <4>3. req'[r].status = "pending"
        BY <1>0, <4>1 DEF NoRequest
      <4>. QED
        BY <1>0, <4>2, <4>3, FundsOpened
    <3>3. ASSUME Persist(r)
          PROVE  UNCHANGED Funds(r)!vars
      <4>1. PICK u : req'[r] = [req[r] EXCEPT !.status = "settlement_pending", !.usable = u,
                                              !.cacheExpires = now + CacheTTL]
        BY <1>0, <3>3 DEF Persist
      <4>2. /\ req'[r].status = "settlement_pending" /\ req'[r].reserved = req[r].reserved
            /\ req[r].status = "pending" /\ debit' = debit
        BY <1>0, <3>3, <4>1 DEF Persist, RequestType
      <4>. QED
        BY <4>2 DEF Funds!vars, Phase
    <3>4. CASE FailV2(r) \/ SettleTooLate(r) \/ SettleFree(r)
      BY <1>0, <3>4, FundsReleased DEF FailV2, SettleTooLate, SettleFree, Funds!Next
    <3>5. CASE SettleDebit(r)
      BY <3>5, FundsCharged DEF Funds!Next
    <3>. QED
      BY <1>2, <2>2, <3>1, <3>2, <3>3, <3>4, <3>5 DEF RequestStep, Funds!Next
  <2>. QED
    BY <2>1, <2>2
<1>3. CASE \E h \in Holds : HoldStep(h)
  <2>1. debit' = debit
    BY <1>3 DEF HoldStep, QuoteCapabilities, Confirm, CreateHold, Heartbeat, Settle, ExpireHold
  <2>2. req' = req
    BY <1>0, <1>3, HoldStepRows
  <2>. QED
    BY <1>1, <2>1, <2>2
<1>4. CASE AdminStep \/ ExpireSubscriptions \/ Tick \/ UNCHANGED vars
  <2>1. req' = req /\ debit' = debit
    BY <1>4 DEF AdminStep, Refund, AdminGrant, ExtendBucket, RevokeBucket, ChangePrice,
       ExpireSubscriptions, Tick, vars
  <2>. QED
    BY <1>1, <2>1
<1>. QED
  BY <1>2, <1>3, <1>4 DEF Next

\* Credits implements RequestFunds once per request: its funds are reserved when it is
\* accepted and then either charged in full, once, or given back.
THEOREM FundsOfEachRequest ==
    ASSUME NEW r \in Requests
    PROVE  Spec => Funds(r)!Spec
<1>1. Init => Funds(r)!Init
  <2>. SUFFICES ASSUME Init PROVE Funds(r)!Init
    OBVIOUS
  <2>1. Zero \in [Buckets -> Nat] /\ \A b \in Buckets : Zero[b] = 0
    BY DEF Zero
  <2>2. Sum(Zero) = 0
    BY <2>1, SumZero, RowsAssumption
  <2>3. debit[r] = Zero /\ req[r].status = "none" /\ req[r].reserved = 0
    BY DEF Init, NoRequest
  <2>. QED
    BY <2>2, <2>3 DEF Funds!Init, Phase
<1>2. ChargesInv /\ [Next]_vars => [Funds(r)!Next]_(Funds(r)!vars)
  BY FundsOfEachStep
<1>. QED
  BY <1>1, <1>2, ChargesInit, ChargesStep, PTL DEF Spec, Funds!Spec

=============================================================================
