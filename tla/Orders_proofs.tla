--------------------------- MODULE Orders_proofs ----------------------------
(***************************************************************************)
(* Buckets and bonuses of payment orders, for any number of orders, of     *)
(* callbacks at a time and of failures.                                    *)
(*                                                                         *)
(* Callbacks race between their read of an order and the commit.  What     *)
(* makes them safe is what holds while one is between its UPDATE and its   *)
(* commit: the order is not paid yet, nobody else is there for it, and if  *)
(* it counted an earlier base order then that one is paid for good.        *)
(***************************************************************************)
EXTENDS Orders, FiniteSetTheorems, TLAPS

OrderType == [kind : Sold \cup {"none"}, status : {"none", "pending", "expired", "paid"}]
CallbackType ==
    {Idle} \cup [at : {"read"}, order : OrderIds, seen : {"pending", "expired"}]
           \cup [at : {"flipped"}, order : OrderIds, first : BOOLEAN]
           \cup [at : {"success"}, order : OrderIds]

Rows ==
    /\ orders \in [OrderIds -> OrderType]
    /\ granted \in [OrderIds -> [Kinds -> Nat]]
    /\ callback \in [Callbacks -> CallbackType]
    /\ \A o \in OrderIds : orders[o].status # "none" => orders[o].kind \in Sold

\* Some base order is paid.
PaidBase == \E p \in OrderIds : orders[p].kind = "base" /\ orders[p].status = "paid"

\* A callback between its UPDATE and its commit.
InCommit(c, o) == callback[c].at = "flipped" /\ callback[c].order = o
HoldsLock(c, o) ==
    InCommit(c, o) =>
      /\ orders[o].status \in {"pending", "expired"}
      /\ \A d \in Callbacks : InCommit(d, o) => d = c
      /\ orders[o].kind = "base" /\ ~callback[c].first => PaidBase

\* The bonus of the first purchase was given.
Bonus == \E o \in OrderIds : granted[o]["bonus"] > 0

\* BucketPerPaidOrder, of one order.
Issued(o) ==
    \A k \in Sold :
      granted[o][k] = IF orders[o].status = "paid" /\ orders[o].kind = k THEN 1 ELSE 0

OrdersInv ==
    /\ Rows
    /\ \A c \in Callbacks, o \in OrderIds : HoldsLock(c, o)
    /\ \A o \in OrderIds : Issued(o)
    /\ BonusPlan /\ PaidBase => Bonus

\* Initially nothing is paid and nothing issued.
LEMMA OrdersInit == Init => OrdersInv
PROOF
<1>. SUFFICES ASSUME Init PROVE OrdersInv
  OBVIOUS
<1>1. Rows
  BY DEF Init, Rows, OrderType, CallbackType, Kinds
<1>2. \A c \in Callbacks, o \in OrderIds : HoldsLock(c, o)
  BY DEF Init, HoldsLock, InCommit, Idle
<1>3. \A o \in OrderIds : Issued(o)
  BY DEF Init, Issued, Kinds
<1>4. ~PaidBase
  BY DEF Init, PaidBase
<1>. QED
  BY <1>1, <1>2, <1>3, <1>4 DEF OrdersInv

-----------------------------------------------------------------------------
\* Steps that issue nothing: an order is created, or one that nobody paid expires.

Created(o) ==
    /\ orders[o].status = "none"
    /\ \E kind \in Sold : orders'[o] = [kind |-> kind, status |-> "pending"]
Expired(o) ==
    orders[o].status = "pending" /\ orders'[o] = [orders[o] EXCEPT !.status = "expired"]

\* Such steps keep the invariant: who holds a lock and who has paid stays the same.
LEMMA UnpaidStep ==
    ASSUME OrdersInv, callback' = callback, granted' = granted, DOMAIN orders' = OrderIds,
           orders' = [o \in DOMAIN orders' |-> orders'[o]],
           \A o \in OrderIds : orders'[o] = orders[o] \/ Created(o) \/ Expired(o)
    PROVE  OrdersInv'
PROOF
<1>0. Rows
  BY DEF OrdersInv
<1>1. ASSUME NEW o \in OrderIds
      PROVE  /\ orders'[o] \in OrderType
             /\ orders'[o].status # "none" => orders'[o].kind \in Sold
             /\ orders[o].status = "paid" <=> orders'[o].status = "paid"
             /\ orders[o].status # "none" => orders'[o].kind = orders[o].kind
             /\ orders[o].status \in {"pending", "expired"}
                  => orders'[o].status \in {"pending", "expired"}
  <2>0. orders[o] \in OrderType /\ (orders[o].status # "none" => orders[o].kind \in Sold)
    BY <1>0 DEF Rows
  <2>1. CASE orders'[o] = orders[o]
    BY <2>0, <2>1
  <2>2. CASE Created(o)
    BY <2>0, <2>2 DEF Created, OrderType
  <2>3. CASE Expired(o)
    BY <2>0, <2>3 DEF Expired, OrderType
  <2>. QED
    BY <2>1, <2>2, <2>3
<1>2. Rows'
  BY <1>0, <1>1 DEF Rows
<1>3. PaidBase' <=> PaidBase
  BY <1>1 DEF PaidBase
<1>4. ASSUME NEW c \in Callbacks, NEW o \in OrderIds
      PROVE  HoldsLock(c, o)'
  <2>1. HoldsLock(c, o)
    BY DEF OrdersInv
  <2>2. \A d \in Callbacks : InCommit(d, o)' <=> InCommit(d, o)
    BY DEF InCommit
  <2>. SUFFICES ASSUME InCommit(c, o)
                PROVE  /\ orders'[o].status \in {"pending", "expired"}
                       /\ \A d \in Callbacks : InCommit(d, o) => d = c
                       /\ orders'[o].kind = "base" /\ ~callback[c].first => PaidBase
    BY <1>3, <2>2 DEF HoldsLock
  <2>. QED
    BY <1>1, <2>1 DEF HoldsLock
<1>5. ASSUME NEW o \in OrderIds
      PROVE  Issued(o)'
  <2>1. Issued(o)
    BY DEF OrdersInv
  <2>. QED
    BY <1>1, <2>1 DEF Issued
<1>6. BonusPlan /\ PaidBase' => Bonus'
  BY <1>3 DEF OrdersInv, Bonus
<1>. QED
  BY <1>2, <1>4, <1>5, <1>6 DEF OrdersInv

\* Orders are created, launched, voided, paid for and expire without issuing anything.
LEMMA OrderSteps ==
    ASSUME OrdersInv,
           \/ \E o \in OrderIds : \/ \E kind \in Sold : CreateOrder(o, kind)
                                  \/ Launch(o) \/ Void(o) \/ Age(o) \/ Pay(o)
           \/ ExpirePendingOrders \/ Subscribe \/ UNCHANGED vars
    PROVE  OrdersInv'
PROOF
<1>0. orders \in [OrderIds -> OrderType]
  BY DEF OrdersInv, Rows
<1>1. ASSUME orders' = orders, callback' = callback, granted' = granted
      PROVE  OrdersInv'
  BY <1>0, <1>1, UnpaidStep
<1>2. ASSUME NEW o \in OrderIds, NEW kind \in Sold, CreateOrder(o, kind)
      PROVE  OrdersInv'
  <2>1. /\ orders[o].status = "none"
        /\ orders' = [orders EXCEPT ![o] = [kind |-> kind, status |-> "pending"]]
        /\ callback' = callback /\ granted' = granted
    BY <1>2 DEF CreateOrder
  <2>2. Created(o)
    BY <1>0, <2>1 DEF Created
  <2>3. \A p \in OrderIds : p # o => orders'[p] = orders[p]
    BY <1>0, <2>1
  <2>4. DOMAIN orders' = OrderIds /\ orders' = [p \in DOMAIN orders' |-> orders'[p]]
    BY <1>0, <2>1
  <2>. QED
    BY <2>1, <2>2, <2>3, <2>4, UnpaidStep
<1>3. ASSUME NEW o \in OrderIds, Void(o)
      PROVE  OrdersInv'
  <2>1. /\ \/ orders' = orders
           \/ orders' = [orders EXCEPT ![o].status = IF @ = "pending" THEN "expired" ELSE @]
        /\ callback' = callback /\ granted' = granted
    BY <1>3 DEF Void
  <2>2. \A p \in OrderIds : orders'[p] = orders[p] \/ Expired(p)
    BY <1>0, <2>1 DEF Expired, OrderType
  <2>3. DOMAIN orders' = OrderIds /\ orders' = [p \in DOMAIN orders' |-> orders'[p]]
    BY <1>0, <2>1
  <2>. QED
    BY <2>1, <2>2, <2>3, UnpaidStep
<1>4. ASSUME ExpirePendingOrders
      PROVE  OrdersInv'
  <2>1. /\ orders' = [o \in OrderIds |-> IF Expirable(o)
                        THEN [orders[o] EXCEPT !.status = "expired"] ELSE orders[o]]
        /\ callback' = callback /\ granted' = granted
    BY <1>4 DEF ExpirePendingOrders
  <2>2. \A o \in OrderIds : orders'[o] = orders[o] \/ Expired(o)
    BY <2>1 DEF Expired, Expirable
  <2>3. DOMAIN orders' = OrderIds /\ orders' = [p \in DOMAIN orders' |-> orders'[p]]
    BY <2>1
  <2>. QED
    BY <2>1, <2>2, <2>3, UnpaidStep
<1>5. ASSUME NEW o \in OrderIds, Launch(o) \/ Age(o) \/ Pay(o)
      PROVE  OrdersInv'
  BY <1>1, <1>5 DEF Launch, Age, Pay
<1>6. CASE Subscribe \/ UNCHANGED vars
  BY <1>1, <1>6 DEF Subscribe, vars
<1>. QED
  BY <1>2, <1>3, <1>4, <1>5, <1>6

-----------------------------------------------------------------------------
\* Steps of a callback.

\* A callback that reads, answers or fails: at most it gives up its lock.
LEMMA HandlerStep ==
    ASSUME OrdersInv, NEW c \in Callbacks, NEW x \in CallbackType, x.at # "flipped",
           callback' = [callback EXCEPT ![c] = x], orders' = orders, granted' = granted
    PROVE  OrdersInv'
PROOF
<1>0. Rows
  BY DEF OrdersInv
<1>1. /\ callback'[c] = x /\ \A d \in Callbacks : d # c => callback'[d] = callback[d]
      /\ callback' \in [Callbacks -> CallbackType]
  BY <1>0 DEF Rows
<1>2. Rows'
  BY <1>0, <1>1 DEF Rows
<1>3. ASSUME NEW d \in Callbacks, NEW o \in OrderIds
      PROVE  HoldsLock(d, o)'
  <2>1. HoldsLock(d, o)
    BY DEF OrdersInv
  <2>2. \A e \in Callbacks : InCommit(e, o)' => e # c /\ InCommit(e, o)
    BY <1>1 DEF InCommit
  <2>3. PaidBase' <=> PaidBase
    BY DEF PaidBase
  <2>. QED
    BY <1>1, <2>1, <2>2, <2>3 DEF HoldsLock
<1>4. (\A o \in OrderIds : Issued(o)') /\ (BonusPlan /\ PaidBase' => Bonus')
  BY DEF OrdersInv, Issued, PaidBase, Bonus
<1>. QED
  BY <1>2, <1>3, <1>4 DEF OrdersInv

\* The UPDATE found the order as the callback had read it.
LEMMA LockStep ==
    ASSUME OrdersInv, NEW c \in Callbacks, NEW o \in OrderIds,
           orders[o].status \in {"pending", "expired"}, ~Locked(o),
           callback' = [callback EXCEPT ![c] =
                          [at |-> "flipped", order |-> o, first |-> ~PaidBaseBefore(o)]],
           orders' = orders, granted' = granted
    PROVE  OrdersInv'
PROOF
<1>0. Rows
  BY DEF OrdersInv
<1>1. PICK first \in BOOLEAN : first <=> ~PaidBaseBefore(o)
  OBVIOUS
<1>2. PICK x : x = [at |-> "flipped", order |-> o, first |-> ~PaidBaseBefore(o)]
  OBVIOUS
<1>3. x \in CallbackType /\ x.at = "flipped" /\ x.order = o /\ (x.first <=> ~PaidBaseBefore(o))
  <2>1. (~PaidBaseBefore(o)) \in BOOLEAN
    BY DEF PaidBaseBefore
  <2>. QED
    BY <1>2, <2>1 DEF CallbackType
<1>4. /\ callback'[c] = x /\ \A d \in Callbacks : d # c => callback'[d] = callback[d]
      /\ callback' \in [Callbacks -> CallbackType]
  BY <1>0, <1>2, <1>3 DEF Rows
<1>5. Rows'
  BY <1>0, <1>4 DEF Rows
<1>6. PaidBase' <=> PaidBase
  BY DEF PaidBase
<1>7. ASSUME NEW d \in Callbacks, NEW p \in OrderIds
      PROVE  HoldsLock(d, p)'
  <2>1. HoldsLock(d, p)
    BY DEF OrdersInv
  <2>2. \A e \in Callbacks : ~InCommit(e, o)
    BY DEF Locked, InCommit
  <2>3. InCommit(c, p)' <=> p = o
    BY <1>3, <1>4 DEF InCommit
  <2>4. \A e \in Callbacks : e # c => (InCommit(e, p)' <=> InCommit(e, p))
    BY <1>4 DEF InCommit
  <2>5. CASE d = c /\ p = o
    <3>1. \A e \in Callbacks : InCommit(e, o)' => e = c
      BY <2>2, <2>4, <2>5
    <3>2. ~callback'[c].first => PaidBase
      BY <1>3, <1>4 DEF PaidBaseBefore, PaidBase
    <3>. QED
      BY <1>6, <2>5, <3>1, <3>2 DEF HoldsLock
  <2>6. CASE p # o
    <3>1. \A e \in Callbacks : InCommit(e, p)' => e # c /\ InCommit(e, p)
      BY <2>3, <2>4, <2>6
    <3>. QED
      BY <1>4, <1>6, <2>1, <3>1 DEF HoldsLock
  <2>7. CASE d # c /\ p = o
    <3>1. ~InCommit(d, p)'
      BY <2>2, <2>4, <2>7
    <3>. QED
      BY <3>1 DEF HoldsLock
  <2>. QED
    BY <2>5, <2>6, <2>7
<1>8. (\A p \in OrderIds : Issued(p)') /\ (BonusPlan /\ PaidBase' => Bonus')
  BY DEF OrdersInv, Issued, PaidBase, Bonus
<1>. QED
  BY <1>5, <1>7, <1>8 DEF OrdersInv

\* The commit: the order is paid, its bucket issued and the first base order rewarded.
LEMMA CommitStep ==
    ASSUME OrdersInv, NEW c \in Callbacks, Commit(c)
    PROVE  OrdersInv'
PROOF
<1>0. Rows
  BY DEF OrdersInv
<1>1. PICK o : o = callback[c].order
  OBVIOUS
<1>2. PICK kind : kind = orders[o].kind
  OBVIOUS
<1>3. PICK bonus : bonus = IF Rewarded(o, callback[c].first) THEN 1 ELSE 0
  OBVIOUS
<1>4. o \in OrderIds /\ InCommit(c, o) /\ callback[c].first \in BOOLEAN
  <2>1. callback[c].at = "flipped" /\ callback[c] \in CallbackType
    BY <1>0 DEF Commit, Rows
  <2>. QED
    BY <1>1, <2>1 DEF CallbackType, InCommit, Idle
<1>5. /\ HoldsLock(c, o) /\ orders[o].status \in {"pending", "expired"}
      /\ \A d \in Callbacks : InCommit(d, o) => d = c
      /\ kind = "base" /\ ~callback[c].first => PaidBase
  BY <1>2, <1>4 DEF OrdersInv, HoldsLock
<1>6. kind \in Sold /\ kind # "bonus" /\ kind \in Kinds /\ "bonus" \in Kinds /\ bonus \in {0, 1}
  BY <1>0, <1>2, <1>3, <1>4, <1>5 DEF Rows, Sold, Kinds
<1>7. /\ orders' = [orders EXCEPT ![o].status = "paid"]
      /\ granted' = [granted EXCEPT ![o][kind] = @ + 1, ![o]["bonus"] = @ + bonus]
      /\ callback' = [callback EXCEPT ![c] = Success(o)]
  BY <1>1, <1>2, <1>3 DEF Commit, Go
<1>8. /\ orders'[o].status = "paid" /\ orders'[o].kind = kind /\ orders'[o] \in OrderType
      /\ \A p \in OrderIds : p # o => orders'[p] = orders[p]
      /\ orders' \in [OrderIds -> OrderType]
  BY <1>0, <1>2, <1>4, <1>7 DEF Rows, OrderType
<1>9. /\ granted'[o][kind] = granted[o][kind] + 1
      /\ granted'[o]["bonus"] = granted[o]["bonus"] + bonus
      /\ \A k \in Kinds : k # kind /\ k # "bonus" => granted'[o][k] = granted[o][k]
      /\ \A p \in OrderIds : p # o => granted'[p] = granted[p]
      /\ granted' \in [OrderIds -> [Kinds -> Nat]]
  <2>0. granted \in [OrderIds -> [Kinds -> Nat]] /\ granted[o] \in [Kinds -> Nat]
    BY <1>0, <1>4 DEF Rows
  <2>1. PICK row : row = [granted[o] EXCEPT ![kind] = @ + 1, !["bonus"] = @ + bonus]
    OBVIOUS
  <2>2. granted' = [granted EXCEPT ![o] = row]
    BY <1>4, <1>7, <2>0, <2>1
  <2>3. /\ row \in [Kinds -> Nat] /\ row[kind] = granted[o][kind] + 1
        /\ row["bonus"] = granted[o]["bonus"] + bonus
        /\ \A k \in Kinds : k # kind /\ k # "bonus" => row[k] = granted[o][k]
    BY <1>6, <2>0, <2>1
  <2>4. /\ granted'[o] = row /\ \A p \in OrderIds : p # o => granted'[p] = granted[p]
        /\ granted' \in [OrderIds -> [Kinds -> Nat]]
    BY <1>4, <2>0, <2>2, <2>3
  <2>. QED
    BY <2>3, <2>4
<1>10. /\ callback'[c].at = "success"
       /\ \A d \in Callbacks : d # c => callback'[d] = callback[d]
       /\ callback' \in [Callbacks -> CallbackType]
  BY <1>0, <1>4, <1>7 DEF Rows, Success, CallbackType
<1>11. Rows'
  BY <1>0, <1>6, <1>8, <1>9, <1>10 DEF Rows
<1>12. PaidBase => PaidBase'
  BY <1>5, <1>8 DEF PaidBase
<1>13. ASSUME NEW d \in Callbacks, NEW p \in OrderIds
       PROVE  HoldsLock(d, p)'
  <2>1. HoldsLock(d, p)
    BY DEF OrdersInv
  <2>2. \A e \in Callbacks : InCommit(e, p)' => e # c /\ InCommit(e, p) /\ p # o
    BY <1>5, <1>10 DEF InCommit
  <2>. QED
    BY <1>8, <1>10, <1>12, <2>1, <2>2 DEF HoldsLock
<1>14. ASSUME NEW p \in OrderIds
       PROVE  Issued(p)'
  <2>1. Issued(p)
    BY DEF OrdersInv
  <2>2. CASE p # o
    BY <1>8, <1>9, <2>1, <2>2 DEF Issued
  <2>3. CASE p = o
    <3>1. granted[o][kind] = 0 /\ \A k \in Sold : granted[o][k] = 0
      BY <1>5, <1>6, <2>1, <2>3 DEF Issued
    <3>. QED
      BY <1>6, <1>8, <1>9, <2>3, <3>1 DEF Issued, Sold, Kinds
  <2>. QED
    BY <2>2, <2>3
<1>15. \A p \in OrderIds : granted'[p]["bonus"] >= granted[p]["bonus"]
  <2>1. \A p \in OrderIds : granted[p]["bonus"] \in Nat
    BY <1>0, <1>6 DEF Rows
  <2>. QED
    BY <1>6, <1>9, <2>1
<1>16. Bonus => Bonus'
  <2>1. \A p \in OrderIds : granted[p]["bonus"] \in Nat /\ granted'[p]["bonus"] \in Nat
    BY <1>0, <1>6, <1>9 DEF Rows
  <2>. QED
    BY <1>15, <2>1 DEF Bonus
<1>17. BonusPlan /\ PaidBase' => Bonus'
  <2>. SUFFICES ASSUME BonusPlan
                PROVE  PaidBase' => Bonus'
    OBVIOUS
  <2>1. CASE PaidBase
    BY <1>16, <2>1 DEF OrdersInv
  <2>2. CASE ~PaidBase /\ kind = "base"
    <3>1. bonus = 1
      BY <1>2, <1>3, <1>5, <2>2 DEF Rewarded
    <3>2. granted[o]["bonus"] \in Nat
      BY <1>0, <1>4, <1>6 DEF Rows
    <3>3. granted'[o]["bonus"] > 0
      BY <1>9, <3>1, <3>2
    <3>. QED
      BY <1>4, <3>3 DEF Bonus
  <2>3. CASE ~PaidBase /\ kind # "base"
    <3>1. ~PaidBase'
      BY <1>8, <2>3 DEF PaidBase
    <3>. QED
      BY <3>1
  <2>. QED
    BY <2>1, <2>2, <2>3
<1>. QED
  BY <1>11, <1>13, <1>14, <1>17 DEF OrdersInv

\* Every step of a callback keeps the invariant.
LEMMA CallbackSteps ==
    ASSUME OrdersInv, NEW c \in Callbacks,
           CallbackStep(c) \/ Fail(c) \/ \E o \in OrderIds : Arrive(c, o)
    PROVE  OrdersInv'
PROOF
<1>0. Rows /\ callback[c] \in CallbackType
  BY DEF OrdersInv, Rows
<1>1. /\ Idle \in CallbackType /\ Idle.at # "flipped"
      /\ \A o \in OrderIds : Success(o) \in CallbackType /\ Success(o).at # "flipped"
  BY DEF CallbackType, Idle, Success
<1>2. CASE Flip(c)
  <2>1. PICK o : o = callback[c].order
    OBVIOUS
  <2>2. o \in OrderIds /\ callback[c].seen \in {"pending", "expired"}
    <3>1. callback[c].at = "read"
      BY <1>2 DEF Flip
    <3>. QED
      BY <1>0, <2>1, <3>1 DEF CallbackType, Idle
  <2>3. ~Locked(o) /\ orders' = orders /\ granted' = granted
    BY <1>2, <2>1 DEF Flip
  <2>4. CASE Matches(o, callback[c].seen)
    <3>1. callback' = [callback EXCEPT ![c] =
                         [at |-> "flipped", order |-> o, first |-> ~PaidBaseBefore(o)]]
      BY <1>2, <2>1, <2>4 DEF Flip, Go
    <3>2. orders[o].status \in {"pending", "expired"}
      BY <2>2, <2>4 DEF Matches
    <3>. QED
      BY <2>2, <2>3, <3>1, <3>2, LockStep
  <2>5. CASE ~Matches(o, callback[c].seen)
    <3>1. callback' = [callback EXCEPT ![c] = Success(o)]
      BY <1>2, <2>1, <2>5 DEF Flip, Go
    <3>. QED
      BY <1>1, <2>2, <2>3, <3>1, HandlerStep
  <2>. QED
    BY <2>4, <2>5
<1>3. CASE Answer(c) \/ Fail(c)
  <2>1. callback' = [callback EXCEPT ![c] = Idle] /\ orders' = orders /\ granted' = granted
    BY <1>3 DEF Answer, Fail, Go
  <2>. QED
    BY <1>1, <2>1, HandlerStep
<1>4. ASSUME NEW o \in OrderIds, Arrive(c, o)
      PROVE  OrdersInv'
  <2>1. orders' = orders /\ granted' = granted
    BY <1>4 DEF Arrive
  <2>2. CASE callback' = [callback EXCEPT ![c] = Success(o)]
    BY <1>1, <2>1, <2>2, HandlerStep
  <2>3. CASE /\ Completable(orders[o].status)
             /\ callback' = [callback EXCEPT ![c] =
                               [at |-> "read", order |-> o, seen |-> orders[o].status]]
    <3>1. PICK x : x = [at |-> "read", order |-> o, seen |-> orders[o].status]
      OBVIOUS
    <3>2. x \in CallbackType /\ x.at # "flipped"
      BY <2>3, <3>1 DEF Completable, CallbackType
    <3>. QED
      BY <2>1, <2>3, <3>1, <3>2, HandlerStep
  <2>4. CASE callback' = callback
    <3>1. callback' = [callback EXCEPT ![c] = Idle]
      <4>1. callback[c] = Idle
        <5>1. callback[c].at = "idle"
          BY <1>4 DEF Arrive
        <5>. QED
          BY <1>0, <5>1 DEF CallbackType
      <4>. QED
        BY <1>0, <2>4, <4>1 DEF Rows
    <3>. QED
      BY <1>1, <2>1, <3>1, HandlerStep
  <2>. QED
    BY <1>4, <2>2, <2>3, <2>4 DEF Arrive, Go
<1>5. CASE Commit(c)
  BY <1>5, CommitStep
<1>. QED
  BY <1>2, <1>3, <1>4, <1>5 DEF CallbackStep

-----------------------------------------------------------------------------
\* OrdersInv holds throughout.
LEMMA OrdersInvariant == Spec => []OrdersInv
PROOF
<1>1. OrdersInv /\ [Next]_vars => OrdersInv'
  <2>. SUFFICES ASSUME OrdersInv, [Next]_vars
                PROVE  OrdersInv'
    OBVIOUS
  <2>1. ASSUME NEW o \in OrderIds, OrderStep(o)
        PROVE  OrdersInv'
    BY <2>1, OrderSteps, CallbackSteps DEF OrderStep
  <2>2. ASSUME NEW c \in Callbacks, CallbackStep(c) \/ Fail(c)
        PROVE  OrdersInv'
    BY <2>2, CallbackSteps
  <2>3. CASE ExpirePendingOrders \/ Subscribe \/ UNCHANGED vars
    BY <2>3, OrderSteps
  <2>. QED
    BY <2>1, <2>2, <2>3 DEF Next
<1>. QED
  BY <1>1, OrdersInit, PTL DEF Spec

\* An order has its bucket once, and exactly when it is paid, for any number of callbacks that
\* are repeated, concurrent or fail half-way, and of runs of the expiry job.
THEOREM BucketIssuedOnce == Spec => []BucketPerPaidOrder
PROOF
<1>1. OrdersInv => BucketPerPaidOrder
  BY DEF OrdersInv, Issued, BucketPerPaidOrder
<1>. QED
  BY <1>1, OrdersInvariant, PTL

\* Whoever paid a base order has had the first-purchase bonus.
THEOREM FirstIsRewarded == Spec => []FirstPurchaseRewarded
PROOF
<1>1. OrdersInv => FirstPurchaseRewarded
  BY DEF OrdersInv, PaidBase, Bonus, FirstPurchaseRewarded
<1>. QED
  BY <1>1, OrdersInvariant, PTL
-----------------------------------------------------------------------------
\* What "success" is worth.  A callback can be answered "success" without being completed
\* only if the expiry job came between its read and its UPDATE, which needs an order older
\* than pendingOrderTTL.

\* Where an order stands that somebody may pay: an order that was voided has no link, so
\* that of those with a link only the due ones can be expired.
Known(o) ==
    /\ o \in opening \cup payable \cup due => orders[o].status # "none"
    /\ o \in opening => orders[o].status = "pending" /\ o \notin payable \cup due
    /\ o \in payable /\ orders[o].status = "expired" => o \in due
    /\ o \in settled => o \in payable
    /\ o \in confirmed => o \in settled /\ orders[o].status \in {"expired", "paid"}

\* What a callback knows of its order: a status it has read is not undone but by a commit.
Carries(c) ==
    callback[c].at # "idle" =>
      /\ callback[c].order \in settled
      /\ callback[c].at = "read" /\ callback[c].seen = "expired"
           => orders[callback[c].order].status # "pending"
      /\ callback[c].at = "success" => orders[callback[c].order].status \in {"expired", "paid"}

AnswersInv ==
    /\ OrdersInv
    /\ opening \cup payable \cup due \cup settled \cup confirmed \subseteq OrderIds
    /\ \A o \in OrderIds : Known(o)
    /\ \A c \in Callbacks : Carries(c)

\* What the steps of others do to an order that has a link.
Kept(o) ==
    /\ orders[o].status \in {"expired", "paid"} => orders'[o].status \in {"expired", "paid"}
    /\ o \in settled => o \in settled'

\* A callback that does nothing keeps what it knows.
LEMMA CarriesKept ==
    ASSUME AnswersInv, \A o \in OrderIds : o \in settled => Kept(o),
           NEW c \in Callbacks, callback'[c] = callback[c]
    PROVE  Carries(c)'
PROOF
<1>1. Rows /\ callback[c] \in CallbackType /\ Carries(c) /\ settled \subseteq OrderIds
  BY DEF AnswersInv, OrdersInv, Rows
<1>2. CASE callback[c].at = "idle"
  BY <1>2 DEF Carries
<1>3. CASE callback[c].at # "idle"
  <2>1. PICK o \in OrderIds : o = callback[c].order /\ o \in settled
    BY <1>1, <1>3 DEF Carries
  <2>2. /\ callback[c].at = "read" /\ callback[c].seen = "expired"
             => orders[o].status \in {"expired", "paid"}
        /\ callback[c].at = "success" => orders[o].status \in {"expired", "paid"}
    <3>1. orders[o].status \in {"none", "pending", "expired", "paid"}
      BY <1>1 DEF Rows, OrderType
    <3>2. orders[o].status # "none"
      BY <2>1 DEF AnswersInv, Known
    <3>. QED
      BY <1>1, <1>3, <2>1, <3>1, <3>2 DEF Carries
  <2>3. Kept(o)
    BY <2>1
  <2>. QED
    BY <2>1, <2>2, <2>3 DEF Carries, Kept
<1>. QED
  BY <1>2, <1>3

\* Steps of users, of the job and of the world.
LEMMA AnswersOrderSteps ==
    ASSUME AnswersInv, OrdersInv',
           \/ \E o \in OrderIds : \/ \E kind \in Sold : CreateOrder(o, kind)
                                  \/ Launch(o) \/ Void(o) \/ Age(o) \/ Pay(o)
           \/ ExpirePendingOrders \/ Subscribe \/ UNCHANGED vars
    PROVE  AnswersInv'
PROOF
<1>0. /\ orders \in [OrderIds -> OrderType] /\ callback' = callback /\ confirmed' = confirmed
      /\ opening \cup payable \cup due \cup settled \cup confirmed \subseteq OrderIds
      /\ \A o \in OrderIds : Known(o)
  BY DEF AnswersInv, OrdersInv, Rows, CreateOrder, Launch, Void, Age, Pay,
         ExpirePendingOrders, Subscribe, vars, provider, checkout
<1>. DEFINE Sets == opening \cup payable \cup due \cup settled \cup confirmed \subseteq OrderIds
            Goal == Sets' /\ \A p \in OrderIds : Known(p)' /\ (p \in settled => Kept(p))
<1>1. ASSUME NEW o \in OrderIds, NEW kind \in Sold, CreateOrder(o, kind)
      PROVE  Goal
  <2>1. /\ orders[o].status = "none" /\ opening' = opening \cup {o}
        /\ payable' = payable /\ due' = due /\ settled' = settled
        /\ orders' = [orders EXCEPT ![o] = [kind |-> kind, status |-> "pending"]]
    BY <1>1 DEF CreateOrder, provider
  <2>2. orders'[o].status = "pending" /\ \A p \in OrderIds : p # o => orders'[p] = orders[p]
    BY <1>0, <2>1
  <2>. QED
    BY <1>0, <2>1, <2>2 DEF Known, Kept
<1>2. ASSUME NEW o \in OrderIds, Launch(o)
      PROVE  Goal
  <2>1. /\ orders' = orders /\ o \in opening /\ opening' = opening \ {o}
        /\ payable' = payable \cup {o} /\ due' = due /\ settled' = settled
    BY <1>2 DEF Launch, provider
  <2>2. orders[o].status # "expired"
    BY <1>0, <2>1 DEF Known
  <2>. QED
    BY <1>0, <2>1, <2>2 DEF Known, Kept
<1>3. ASSUME NEW o \in OrderIds, Void(o)
      PROVE  Goal
  <2>1. /\ \/ orders' = orders
           \/ orders' = [orders EXCEPT ![o].status = IF @ = "pending" THEN "expired" ELSE @]
        /\ o \in opening /\ opening' = opening \ {o}
        /\ payable' = payable /\ due' = due /\ settled' = settled
    BY <1>3 DEF Void, provider
  <2>2. /\ \A p \in OrderIds : p # o => orders'[p] = orders[p]
        /\ \/ orders'[o].status = orders[o].status
           \/ orders[o].status = "pending" /\ orders'[o].status = "expired"
    <3>1. CASE orders' = orders
      BY <3>1
    <3>2. CASE orders' = [orders EXCEPT ![o].status = IF @ = "pending" THEN "expired" ELSE @]
      BY <1>0, <3>2 DEF OrderType
    <3>. QED
      BY <2>1, <3>1, <3>2
  <2>. QED
    BY <1>0, <2>1, <2>2 DEF Known, Kept
<1>4. ASSUME NEW o \in OrderIds, Age(o) \/ Pay(o)
      PROVE  Goal
  <2>1. orders' = orders /\ opening' = opening /\ payable' = payable
    BY <1>4 DEF Age, Pay, checkout
  <2>2. CASE Age(o)
    <3>1. /\ due' = due \cup {o} /\ settled' = settled
          /\ orders[o].status # "none" /\ o \notin opening
      BY <2>2 DEF Age, provider
    <3>. QED
      BY <1>0, <2>1, <3>1 DEF Known, Kept
  <2>3. CASE Pay(o)
    <3>1. due' = due /\ settled' = settled \cup {o} /\ o \in payable
      BY <2>3 DEF Pay
    <3>. QED
      BY <1>0, <2>1, <3>1 DEF Known, Kept
  <2>. QED
    BY <1>4, <2>2, <2>3
<1>5. ASSUME ExpirePendingOrders
      PROVE  Goal
  <2>1. /\ opening' = opening /\ payable' = payable /\ due' = due /\ settled' = settled
        /\ orders' = [o \in OrderIds |-> IF o \in {p \in OrderIds : Expirable(p)}
                        THEN [orders[o] EXCEPT !.status = "expired"] ELSE orders[o]]
    BY <1>5 DEF ExpirePendingOrders, checkout, provider
  <2>2. \A o \in OrderIds :
           \/ orders'[o] = orders[o]
           \/ o \in due /\ orders[o].status = "pending" /\ orders'[o].status = "expired"
    BY <1>0, <2>1 DEF Expirable, OrderType
  <2>3. ASSUME NEW o \in OrderIds
        PROVE  Known(o)' /\ (o \in settled => Kept(o))
    <3>1. Known(o)
      BY <1>0
    <3>2. \/ orders'[o] = orders[o]
          \/ o \in due /\ orders[o].status = "pending" /\ orders'[o].status = "expired"
      BY <2>2
    <3>. QED
      BY <1>0, <2>1, <3>1, <3>2 DEF Known, Kept
  <2>. QED
    BY <1>0, <2>1, <2>3
<1>6. ASSUME Subscribe \/ UNCHANGED vars
      PROVE  Goal
  <2>1. orders' = orders /\ opening' = opening /\ payable' = payable /\ due' = due
        /\ settled' = settled
    BY <1>6 DEF Subscribe, vars, checkout, provider
  <2>. QED
    BY <1>0, <2>1 DEF Known, Kept
<1>7. Goal
  <2>. HIDE DEF Goal
  <2>. QED
    BY <1>1, <1>2, <1>3, <1>4, <1>5, <1>6
<1>8. \A c \in Callbacks : Carries(c)'
  BY <1>0, <1>7, CarriesKept
<1>. QED
  BY <1>7, <1>8 DEF AnswersInv

\* Steps of a callback.
LEMMA AnswersCallbackSteps ==
    ASSUME AnswersInv, OrdersInv', NEW c \in Callbacks,
           CallbackStep(c) \/ Fail(c) \/ \E o \in OrderIds : Arrive(c, o)
    PROVE  AnswersInv'
PROOF
<1>0. /\ orders \in [OrderIds -> OrderType] /\ callback \in [Callbacks -> CallbackType]
      /\ opening \cup payable \cup due \cup settled \cup confirmed \subseteq OrderIds
      /\ \A o \in OrderIds : Known(o)
      /\ Carries(c) /\ callback[c] \in CallbackType
  BY DEF AnswersInv, OrdersInv, Rows
<1>1. opening' = opening /\ payable' = payable /\ due' = due /\ settled' = settled
  BY DEF CallbackStep, Flip, Commit, Answer, Fail, Arrive, checkout, provider
<1>. DEFINE Goal == /\ confirmed' \subseteq OrderIds
                    /\ \A p \in OrderIds : Known(p)' /\ (p \in settled => Kept(p))
                    /\ \A d \in Callbacks : d # c => callback'[d] = callback[d]
                    /\ Carries(c)'
<1>2. ASSUME orders' = orders, confirmed' = confirmed, NEW x,
             callback' = [callback EXCEPT ![c] = x],
             x.at # "idle" =>
               /\ x.order \in settled
               /\ x.at = "read" /\ x.seen = "expired" => orders[x.order].status # "pending"
               /\ x.at = "success" => orders[x.order].status \in {"expired", "paid"}
      PROVE  Goal
  <2>1. callback'[c] = x /\ \A d \in Callbacks : d # c => callback'[d] = callback[d]
    BY <1>0, <1>2
  <2>2. Carries(c)'
    BY <1>1, <1>2, <2>1 DEF Carries
  <2>3. \A p \in OrderIds : Known(p)' /\ (p \in settled => Kept(p))
    BY <1>0, <1>1, <1>2 DEF Known, Kept
  <2>. QED
    BY <1>0, <1>2, <2>1, <2>2, <2>3
<1>3. ASSUME NEW o \in OrderIds, Arrive(c, o)
      PROVE  Goal
  <2>1. o \in settled /\ orders' = orders /\ confirmed' = confirmed /\ callback[c].at = "idle"
    BY <1>3 DEF Arrive, provider
  <2>2. CASE orders[o].status = "paid" /\ callback' = [callback EXCEPT ![c] = Success(o)]
    <3>1. /\ Success(o).at = "success" /\ Success(o).order = o
      BY DEF Success
    <3>. HIDE DEF Goal
    <3>. QED
      BY <1>2, <2>1, <2>2, <3>1
  <2>3. CASE callback' = [callback EXCEPT ![c] =
                            [at |-> "read", order |-> o, seen |-> orders[o].status]]
    <3>1. PICK x : x = [at |-> "read", order |-> o, seen |-> orders[o].status]
      OBVIOUS
    <3>2. x.at = "read" /\ x.order = o /\ x.seen = orders[o].status
      BY <3>1
    <3>. HIDE DEF Goal
    <3>. QED
      BY <1>2, <2>1, <2>3, <3>1, <3>2
  <2>4. CASE callback' = callback
    <3>1. callback' = [callback EXCEPT ![c] = callback[c]]
      BY <1>0, <2>4
    <3>. HIDE DEF Goal
    <3>. QED
      BY <1>2, <2>1, <3>1
  <2>. QED
    BY <1>3, <2>2, <2>3, <2>4 DEF Arrive, Go
<1>4. ASSUME Flip(c)
      PROVE  Goal
  <2>1. PICK o : o = callback[c].order
    OBVIOUS
  <2>2. callback[c].at = "read" /\ orders' = orders /\ confirmed' = confirmed
    BY <1>4, <2>1 DEF Flip, provider
  <2>6. \/ callback' = [callback EXCEPT ![c] =
                          [at |-> "flipped", order |-> o, first |-> ~PaidBaseBefore(o)]]
        \/ ~Matches(o, callback[c].seen) /\ callback' = [callback EXCEPT ![c] = Success(o)]
    BY <1>4, <2>1 DEF Flip, Go
  <2>3. /\ o \in OrderIds /\ o \in settled /\ callback[c].seen \in {"pending", "expired"}
        /\ callback[c].seen = "expired" => orders[o].status # "pending"
    BY <1>0, <2>1, <2>2 DEF CallbackType, Carries, Idle
  <2>4. CASE callback' = [callback EXCEPT ![c] =
                            [at |-> "flipped", order |-> o, first |-> ~PaidBaseBefore(o)]]
    <3>1. PICK x : x = [at |-> "flipped", order |-> o, first |-> ~PaidBaseBefore(o)]
      OBVIOUS
    <3>2. x.at = "flipped" /\ x.order = o
      BY <3>1
    <3>. HIDE DEF Goal
    <3>. QED
      BY <1>2, <2>2, <2>3, <2>4, <3>1, <3>2
  <2>5. CASE ~Matches(o, callback[c].seen) /\ callback' = [callback EXCEPT ![c] = Success(o)]
    <3>1. orders[o].status \in {"expired", "paid"}
      <4>1. orders[o].status # "none" /\ orders[o].status # callback[c].seen
        BY <1>0, <2>3, <2>5 DEF Known, Matches
      <4>2. orders[o].status \in {"none", "pending", "expired", "paid"}
        BY <1>0, <2>3 DEF OrderType
      <4>. QED
        BY <2>3, <4>1, <4>2
    <3>2. Success(o).at = "success" /\ Success(o).order = o
      BY DEF Success
    <3>. HIDE DEF Goal
    <3>. QED
      BY <1>2, <2>2, <2>3, <2>5, <3>1, <3>2
  <2>. QED
    BY <2>4, <2>5, <2>6
<1>5. ASSUME Commit(c)
      PROVE  Goal
  <2>1. PICK o : o = callback[c].order
    OBVIOUS
  <2>2. /\ callback[c].at = "flipped" /\ confirmed' = confirmed
        /\ orders' = [orders EXCEPT ![o].status = "paid"]
        /\ callback' = [callback EXCEPT ![c] = Success(o)]
    BY <1>5, <2>1 DEF Commit, Go, provider
  <2>3. o \in OrderIds /\ o \in settled
    BY <1>0, <2>1, <2>2 DEF Carries
  <2>4. orders[o].status \in {"pending", "expired"}
    <3>1. InCommit(c, o) /\ HoldsLock(c, o)
      BY <2>1, <2>2, <2>3 DEF InCommit, AnswersInv, OrdersInv
    <3>. QED
      BY <3>1 DEF HoldsLock
  <2>5. /\ \A p \in OrderIds : p # o => orders'[p] = orders[p]
        /\ orders'[o].status = "paid" /\ orders[o] \in OrderType
    BY <1>0, <2>2, <2>3
  <2>6. /\ callback'[c].at = "success" /\ callback'[c].order = o
        /\ \A d \in Callbacks : d # c => callback'[d] = callback[d]
    BY <1>0, <2>2 DEF Success
  <2>7. Carries(c)'
    BY <1>1, <2>3, <2>5, <2>6 DEF Carries
  <2>8. ASSUME NEW p \in OrderIds
        PROVE  Known(p)' /\ (p \in settled => Kept(p))
    <3>1. CASE p = o
      <4>1. Known(o) /\ o \in payable /\ o \notin opening /\ orders[o].status # "none"
        BY <1>0, <2>3 DEF Known
      <4>2. Known(o)'
        BY <1>1, <2>2, <2>3, <2>5, <4>1 DEF Known
      <4>3. Kept(o)
        BY <1>1, <2>3, <2>4, <2>5 DEF Kept
      <4>. QED
        BY <3>1, <4>2, <4>3
    <3>2. CASE p # o
      BY <1>0, <1>1, <2>2, <2>5, <3>2 DEF Known, Kept
    <3>. QED
      BY <3>1, <3>2
  <2>. QED
    BY <1>0, <2>2, <2>6, <2>7, <2>8
<1>6. ASSUME Answer(c)
      PROVE  Goal
  <2>1. PICK o : o = callback[c].order
    OBVIOUS
  <2>2. /\ callback[c].at = "success" /\ confirmed' = confirmed \cup {o} /\ orders' = orders
        /\ callback' = [callback EXCEPT ![c] = Idle]
    BY <1>6, <2>1 DEF Answer, Go
  <2>3. o \in OrderIds /\ o \in settled /\ orders[o].status \in {"expired", "paid"}
    BY <1>0, <2>1, <2>2 DEF Carries
  <2>4. callback'[c].at = "idle" /\ \A d \in Callbacks : d # c => callback'[d] = callback[d]
    BY <1>0, <2>2 DEF Idle
  <2>5. Carries(c)'
    BY <2>4 DEF Carries
  <2>6. ASSUME NEW p \in OrderIds
        PROVE  Known(p)' /\ (p \in settled => Kept(p))
    BY <1>0, <1>1, <2>2, <2>3 DEF Known, Kept
  <2>. QED
    BY <1>0, <2>2, <2>3, <2>4, <2>5, <2>6
<1>7. ASSUME Fail(c)
      PROVE  Goal
  <2>1. /\ orders' = orders /\ confirmed' = confirmed
        /\ callback' = [callback EXCEPT ![c] = Idle] /\ Idle.at = "idle"
    BY <1>7 DEF Fail, Go, provider, Idle
  <2>. HIDE DEF Goal
  <2>. QED
    BY <1>2, <2>1
<1>8. Goal
  <2>. HIDE DEF Goal
  <2>. QED
    BY <1>3, <1>4, <1>5, <1>6, <1>7 DEF CallbackStep
<1>9. ASSUME NEW d \in Callbacks
      PROVE  Carries(d)'
  BY <1>8, CarriesKept
<1>. QED
  BY <1>0, <1>1, <1>8, <1>9 DEF AnswersInv

\* AnswersInv holds throughout.
LEMMA AnswersInvariant == Spec => []AnswersInv
PROOF
<1>1. Init => AnswersInv
  BY OrdersInit DEF Init, AnswersInv, Known, Carries, Idle
<1>2. AnswersInv /\ [Next]_vars /\ OrdersInv' => AnswersInv'
  <2>. SUFFICES ASSUME AnswersInv, [Next]_vars, OrdersInv'
                PROVE  AnswersInv'
    OBVIOUS
  <2>1. ASSUME NEW o \in OrderIds, OrderStep(o)
        PROVE  AnswersInv'
    BY <2>1, AnswersOrderSteps, AnswersCallbackSteps DEF OrderStep
  <2>2. ASSUME NEW c \in Callbacks, CallbackStep(c) \/ Fail(c)
        PROVE  AnswersInv'
    BY <2>2, AnswersCallbackSteps
  <2>3. CASE ExpirePendingOrders \/ Subscribe \/ UNCHANGED vars
    BY <2>3, AnswersOrderSteps
  <2>. QED
    BY <2>1, <2>2, <2>3 DEF Next
<1>. QED
  BY <1>1, <1>2, OrdersInvariant, PTL DEF Spec

\* An order the provider has seen answered "success" is paid, or the expiry job took it when
\* it was older than pendingOrderTTL: Orders_late_callback is the only way to lose a payment.
ConfirmedInTime ==
    \A o \in confirmed :
      orders[o].status = "paid" \/ (o \in due /\ orders[o].status = "expired")

\* The provider never reads "success" for a payment younger than the TTL that is not booked.
THEOREM ConfirmedInTimeIsPaid == Spec => []ConfirmedInTime
PROOF
<1>1. AnswersInv => ConfirmedInTime
  BY DEF AnswersInv, Known, ConfirmedInTime
<1>. QED
  BY <1>1, AnswersInvariant, PTL

-----------------------------------------------------------------------------
\* One bonus for a user, when one callback runs at a time.

\* Only a paid base order has a bonus; there is one; and who is about to give it is the first.
BonusInv ==
    /\ OrdersInv
    /\ \A o \in OrderIds : granted[o]["bonus"] > 0
         => orders[o].kind = "base" /\ orders[o].status = "paid"
    /\ \A o, p \in OrderIds : granted[o]["bonus"] > 0 /\ granted[p]["bonus"] > 0 => o = p
    /\ \A c \in Callbacks : callback[c].at = "flipped" /\ callback[c].first
         => ~PaidBaseBefore(callback[c].order)

\* Nothing but a commit pays for an order, and a paid order is not touched again.
PaidStays ==
    /\ granted' = granted
    /\ \A o \in OrderIds : orders[o].status = "paid" \/ orders'[o].status = "paid"
         => orders'[o] = orders[o]

LEMMA OnlyCommitPays ==
    ASSUME OrdersInv, [Next]_vars, \A c \in Callbacks : ~Commit(c)
    PROVE  PaidStays
PROOF
<1>0. orders \in [OrderIds -> OrderType]
  BY DEF OrdersInv, Rows
<1>1. ASSUME orders' = orders, granted' = granted
      PROVE  PaidStays
  BY <1>1 DEF PaidStays
<1>2. ASSUME NEW o \in OrderIds, NEW kind \in Sold, CreateOrder(o, kind)
      PROVE  PaidStays
  <2>1. /\ orders[o].status = "none" /\ granted' = granted
        /\ orders' = [orders EXCEPT ![o] = [kind |-> kind, status |-> "pending"]]
    BY <1>2 DEF CreateOrder
  <2>2. orders'[o].status = "pending" /\ \A p \in OrderIds : p # o => orders'[p] = orders[p]
    BY <1>0, <2>1
  <2>. QED
    BY <2>1, <2>2 DEF PaidStays
<1>3. ASSUME NEW o \in OrderIds, Void(o)
      PROVE  PaidStays
  <2>1. CASE orders' = orders
    BY <1>1, <1>3, <2>1 DEF Void
  <2>2. CASE orders' = [orders EXCEPT ![o].status = IF @ = "pending" THEN "expired" ELSE @]
    <3>1. /\ \A p \in OrderIds : p # o => orders'[p] = orders[p]
          /\ orders[o].status # "pending" => orders'[o] = orders[o]
          /\ orders[o].status = "pending" => orders'[o].status = "expired"
      BY <1>0, <2>2 DEF OrderType
    <3>2. granted' = granted
      BY <1>3 DEF Void
    <3>. QED
      BY <3>1, <3>2 DEF PaidStays
  <2>. QED
    BY <1>3, <2>1, <2>2 DEF Void
<1>4. ASSUME ExpirePendingOrders
      PROVE  PaidStays
  <2>1. /\ granted' = granted
        /\ orders' = [o \in OrderIds |-> IF o \in {p \in OrderIds : Expirable(p)}
                        THEN [orders[o] EXCEPT !.status = "expired"] ELSE orders[o]]
    BY <1>4 DEF ExpirePendingOrders
  <2>2. \A o \in OrderIds :
           \/ orders'[o] = orders[o]
           \/ orders[o].status = "pending" /\ orders'[o].status = "expired"
    BY <1>0, <2>1 DEF Expirable, OrderType
  <2>. QED
    BY <2>1, <2>2 DEF PaidStays
<1>5. ASSUME NEW o \in OrderIds,
             Launch(o) \/ Age(o) \/ Pay(o) \/ \E c \in Callbacks : Arrive(c, o)
      PROVE  PaidStays
  BY <1>1, <1>5 DEF Launch, Age, Pay, Arrive
<1>6. ASSUME NEW c \in Callbacks, Flip(c) \/ Answer(c) \/ Fail(c)
      PROVE  PaidStays
  BY <1>1, <1>6 DEF Flip, Answer, Fail
<1>7. ASSUME Subscribe \/ UNCHANGED vars
      PROVE  PaidStays
  BY <1>1, <1>7 DEF Subscribe, vars
<1>. QED
  BY <1>2, <1>3, <1>4, <1>5, <1>6, <1>7 DEF Next, OrderStep, CallbackStep

\* A callback that is in its transaction has been there before, or its UPDATE counts now.
LEMMA FlippedOnce ==
    ASSUME OrdersInv, [Next]_vars, NEW c \in Callbacks, callback'[c].at = "flipped"
    PROVE  \/ callback'[c] = callback[c]
           \/ callback'[c].first <=> ~PaidBaseBefore(callback'[c].order)
PROOF
<1>0. callback \in [Callbacks -> CallbackType]
  BY DEF OrdersInv, Rows
<1>1. ASSUME NEW d \in Callbacks, NEW x, callback' = [callback EXCEPT ![d] = x],
             d = c => x.at # "flipped"
      PROVE  callback'[c] = callback[c]
  BY <1>0, <1>1
<1>2. ASSUME callback' = callback
      PROVE  callback'[c] = callback[c]
  BY <1>2
<1>3. ASSUME NEW d \in Callbacks, NEW o \in OrderIds, Arrive(d, o)
      PROVE  callback'[c] = callback[c]
  <2>1. CASE callback' = [callback EXCEPT ![d] = Success(o)]
    BY <1>1, <2>1 DEF Success
  <2>2. CASE callback' = [callback EXCEPT ![d] =
                            [at |-> "read", order |-> o, seen |-> orders[o].status]]
    BY <1>0, <2>2
  <2>. QED
    BY <1>2, <1>3, <2>1, <2>2 DEF Arrive, Go
<1>4. ASSUME NEW d \in Callbacks, Flip(d)
      PROVE  \/ callback'[c] = callback[c]
             \/ callback'[c].first <=> ~PaidBaseBefore(callback'[c].order)
  <2>1. PICK o : o = callback[d].order
    OBVIOUS
  <2>2. CASE callback' = [callback EXCEPT ![d] = Success(o)]
    BY <1>1, <2>2 DEF Success
  <2>3. CASE callback' = [callback EXCEPT ![d] =
                            [at |-> "flipped", order |-> o, first |-> ~PaidBaseBefore(o)]]
    <3>1. PICK x : x = [at |-> "flipped", order |-> o, first |-> ~PaidBaseBefore(o)]
      OBVIOUS
    <3>2. x.order = o /\ (x.first <=> ~PaidBaseBefore(o))
      BY <3>1
    <3>3. callback'[c] = IF c = d THEN x ELSE callback[c]
      BY <1>0, <2>3, <3>1
    <3>4. CASE c = d
      <4>1. callback'[c] = x
        BY <3>3, <3>4
      <4>2. orders' = orders
        BY <1>4 DEF Flip
      <4>. QED
        BY <3>2, <4>1, <4>2 DEF PaidBaseBefore
    <3>. QED
      BY <3>3, <3>4
  <2>. QED
    BY <1>4, <2>1, <2>2, <2>3 DEF Flip, Go
<1>5. ASSUME NEW d \in Callbacks, Commit(d) \/ Answer(d) \/ Fail(d)
      PROVE  callback'[c] = callback[c]
  <2>1. CASE Commit(d)
    BY <1>1, <2>1 DEF Commit, Go, Success
  <2>2. CASE Answer(d) \/ Fail(d)
    BY <1>1, <2>2 DEF Answer, Fail, Go, Idle
  <2>. QED
    BY <1>5, <2>1, <2>2
<1>6. ASSUME NEW o \in OrderIds,
             \/ \E kind \in Sold : CreateOrder(o, kind)
             \/ Launch(o) \/ Void(o) \/ Age(o) \/ Pay(o)
      PROVE  callback'[c] = callback[c]
  BY <1>6 DEF CreateOrder, Launch, Void, Age, Pay
<1>7. ASSUME ExpirePendingOrders \/ Subscribe \/ UNCHANGED vars
      PROVE  callback'[c] = callback[c]
  BY <1>7 DEF ExpirePendingOrders, Subscribe, vars
<1>. QED
  BY <1>3, <1>4, <1>5, <1>6, <1>7 DEF Next, OrderStep, CallbackStep

\* A callback that is about to give the bonus finds, or has found, no paid base order; when it
\* is the only one, no other can have become paid since.
LEMMA BonusStep ==
    ASSUME \A c, d \in Callbacks : c = d, BonusInv, OrdersInv', [Next]_vars
    PROVE  BonusInv'
PROOF
<1>0. /\ Rows /\ Rows' /\ \A o \in OrderIds : "bonus" \in Kinds /\ granted[o]["bonus"] \in Nat
  BY DEF BonusInv, OrdersInv, Rows, Kinds
<1>1. ASSUME NEW c \in Callbacks, Commit(c)
      PROVE  BonusInv'
  <2>1. PICK o : o = callback[c].order
    OBVIOUS
  <2>2. PICK bonus : bonus = IF Rewarded(o, callback[c].first) THEN 1 ELSE 0
    OBVIOUS
  <2>3. /\ o \in OrderIds /\ callback[c].at = "flipped" /\ callback[c].first \in BOOLEAN
        /\ orders[o].status \in {"pending", "expired"} /\ orders[o].kind \in Sold
    <3>1. callback[c].at = "flipped" /\ callback[c] \in CallbackType
      BY <1>0, <1>1 DEF Commit, Rows
    <3>2. o \in OrderIds /\ callback[c].first \in BOOLEAN
      BY <2>1, <3>1 DEF CallbackType, Idle
    <3>3. InCommit(c, o) /\ HoldsLock(c, o)
      BY <2>1, <3>1, <3>2 DEF InCommit, BonusInv, OrdersInv
    <3>4. orders[o].status \in {"pending", "expired"}
      BY <3>3 DEF HoldsLock
    <3>. QED
      BY <1>0, <3>1, <3>2, <3>4 DEF Rows
  <2>4. /\ orders' = [orders EXCEPT ![o].status = "paid"]
        /\ granted' = [granted EXCEPT ![o][orders[o].kind] = @ + 1, ![o]["bonus"] = @ + bonus]
        /\ callback' = [callback EXCEPT ![c] = Success(o)]
    BY <1>1, <2>1, <2>2 DEF Commit, Go
  <2>5. /\ orders'[o].status = "paid" /\ orders'[o].kind = orders[o].kind
        /\ \A p \in OrderIds : p # o => orders'[p] = orders[p]
    BY <1>0, <2>3, <2>4 DEF Rows, OrderType
  <2>6. /\ granted'[o]["bonus"] = granted[o]["bonus"] + bonus
        /\ \A p \in OrderIds : p # o => granted'[p] = granted[p]
    <3>1. orders[o].kind # "bonus" /\ orders[o].kind \in Kinds /\ "bonus" \in Kinds
      BY <2>3 DEF Sold, Kinds
    <3>2. granted \in [OrderIds -> [Kinds -> Nat]]
      BY <1>0 DEF Rows
    <3>. QED
      BY <2>3, <2>4, <3>1, <3>2
  <2>7. granted[o]["bonus"] = 0
    BY <1>0, <2>3 DEF BonusInv
  <2>8. bonus = 1 => orders[o].kind = "base" /\ \A p \in OrderIds : granted[p]["bonus"] = 0
    <3>. SUFFICES ASSUME bonus = 1
                  PROVE  orders[o].kind = "base" /\ \A p \in OrderIds : granted[p]["bonus"] = 0
      OBVIOUS
    <3>1. Rewarded(o, callback[c].first)
      BY <2>2
    <3>2. orders[o].kind = "base" /\ ~PaidBaseBefore(o)
      BY <2>1, <2>3, <3>1 DEF Rewarded, BonusInv
    <3>3. ASSUME NEW p \in OrderIds, p # o
          PROVE  ~(granted[p]["bonus"] > 0)
      BY <3>2, <3>3 DEF BonusInv, PaidBaseBefore
    <3>. QED
      BY <1>0, <2>7, <3>2, <3>3
  <2>9. bonus \in {0, 1}
    BY <2>2
  <2>10. \A p \in OrderIds : granted'[p]["bonus"] > 0 =>
            (p = o /\ bonus = 1) \/ (p # o /\ bonus = 0 /\ granted[p]["bonus"] > 0)
    <3>. SUFFICES ASSUME NEW p \in OrderIds, granted'[p]["bonus"] > 0
                  PROVE  (p = o /\ bonus = 1) \/ (p # o /\ bonus = 0 /\ granted[p]["bonus"] > 0)
      OBVIOUS
    <3>1. CASE p = o
      <4>1. granted'[o]["bonus"] = bonus
        BY <2>6, <2>7, <2>9
      <4>2. granted'[o]["bonus"] > 0
        BY <3>1
      <4>3. bonus = 1
        BY <2>9, <4>1, <4>2
      <4>. QED
        BY <3>1, <4>3
    <3>2. CASE p # o
      <4>1. granted[p]["bonus"] > 0
        BY <2>6, <3>2
      <4>2. bonus # 1
        BY <1>0, <2>8, <4>1
      <4>. QED
        BY <2>9, <3>2, <4>1, <4>2
    <3>. QED
      BY <3>1, <3>2
  <2>11. \A p \in OrderIds : granted'[p]["bonus"] > 0
            => orders'[p].kind = "base" /\ orders'[p].status = "paid"
    <3>. TAKE p \in OrderIds
    <3>1. CASE p = o
      BY <2>5, <2>8, <2>10, <3>1
    <3>2. CASE p # o
      BY <2>5, <2>10, <3>2 DEF BonusInv
    <3>. QED
      BY <3>1, <3>2
  <2>12. \A p, q \in OrderIds : granted'[p]["bonus"] > 0 /\ granted'[q]["bonus"] > 0 => p = q
    BY <2>9, <2>10 DEF BonusInv
  <2>13. \A d \in Callbacks : callback'[d].at # "flipped"
    <3>1. callback'[c].at = "success"
      BY <1>0, <2>4 DEF Rows, Success
    <3>. QED
      BY <3>1
  <2>. QED
    BY <2>11, <2>12, <2>13 DEF BonusInv
<1>2. ASSUME \A c \in Callbacks : ~Commit(c)
      PROVE  BonusInv'
  <2>1. PaidStays
    BY <1>2, OnlyCommitPays DEF BonusInv
  <2>2. ASSUME NEW c \in Callbacks, callback'[c].at = "flipped", callback'[c].first
        PROVE  ~PaidBaseBefore(callback[c].order)'
    <3>1. PICK o : o = callback'[c].order
      OBVIOUS
    <3>2. ~PaidBaseBefore(o)
      <4>1. OrdersInv
        BY DEF BonusInv
      <4>2. CASE callback'[c] = callback[c]
        BY <2>2, <3>1, <4>2 DEF BonusInv
      <4>3. CASE callback'[c].first <=> ~PaidBaseBefore(callback'[c].order)
        BY <2>2, <3>1, <4>3
      <4>. QED
        BY <2>2, <4>1, <4>2, <4>3, FlippedOnce
    <3>3. ~PaidBaseBefore(o)'
      BY <2>1, <3>2 DEF PaidStays, PaidBaseBefore
    <3>. QED
      BY <3>1, <3>3 DEF PaidBaseBefore
  <2>. QED
    BY <2>1, <2>2 DEF BonusInv, PaidStays
<1>. QED
  BY <1>1, <1>2

\* "首笔 base 订单加赠首充礼桶;第二笔不再赠送" holds when callbacks come one at a time: what
\* Orders_two_bonuses shows needs two that overlap.
THEOREM OneBonusOneByOne ==
    ASSUME \A c, d \in Callbacks : c = d
    PROVE  Spec => []BonusOnce
PROOF
<1>1. Init => BonusInv
  BY OrdersInit DEF Init, BonusInv, Kinds, Idle
<1>2. BonusInv /\ [Next]_vars /\ OrdersInv' => BonusInv'
  BY BonusStep
<1>3. BonusInv => BonusOnce
  <2>. SUFFICES ASSUME BonusInv PROVE BonusOnce
    OBVIOUS
  <2>. DEFINE rewarded == {o \in OrderIds : granted[o]["bonus"] > 0}
  <2>1. \A o, p \in rewarded : o = p
    BY DEF BonusInv
  <2>2. CASE rewarded = {}
    BY <2>2, FS_EmptySet DEF BonusOnce
  <2>3. CASE rewarded # {}
    <3>1. PICK o : rewarded = {o}
      BY <2>1, <2>3
    <3>2. Cardinality(rewarded) = 1
      BY <3>1, FS_Singleton
    <3>3. Cardinality({p \in OrderIds : granted[p]["bonus"] > 0}) <= 1
      BY <3>2
    <3>. QED
      BY <3>3 DEF BonusOnce
  <2>. QED
    BY <2>2, <2>3
<1>. QED
  BY <1>1, <1>2, <1>3, OrdersInvariant, PTL DEF Spec
=============================================================================
