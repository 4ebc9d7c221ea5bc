------------------------------- MODULE Orders -------------------------------
(***************************************************************************)
(* Payment orders of one user: CreateOrder, the provider's callbacks       *)
(* (notify, retried until it reads "success", and the browser's return),   *)
(* CompleteOrder and the job that expires orders nobody paid.              *)
(*                                                                         *)
(* None of these locks the user.  They run on PostgreSQL at READ COMMITTED *)
(* (model/db.go opens it with its defaults), so CompleteOrder is three     *)
(* steps: it reads the committed order; its guarded UPDATE waits for the   *)
(* row lock, then looks at the committed status again; it commits.  The    *)
(* count of earlier base orders sees what is committed when it runs, and   *)
(* is one step with the UPDATE before it, which others see only through    *)
(* the lock.  The amount check compares constants of the order and its     *)
(* callback; a callback here has passed it.                                *)
(***************************************************************************)
EXTENDS Naturals, FiniteSets

CONSTANTS
    OrderIds,    \* orders the user may place
    Callbacks,   \* callback handlers that can run at a time
    MaxFailures, \* bound: transactions rolled back and answers lost
    BonusPlan    \* a plan of kind bonus is configured

ASSUME OrdersAssumption == MaxFailures \in Nat /\ BonusPlan \in BOOLEAN

VARIABLES
    orders,      \* [OrderIds -> [kind, status]]: payment_orders
    subscribed,  \* the user has an active base bucket
    granted,     \* [OrderIds -> [kind -> buckets issued for the order]]
    due,         \* orders older than pendingOrderTTL
    opening,     \* orders whose CreateOrder has not answered
    payable,     \* orders with a cashier link
    settled,     \* orders paid at the provider
    confirmed,   \* orders whose callback the provider saw answered "success"
    callback,    \* [Callbacks -> [at, order, seen, first]]
    failures

vars == <<orders, subscribed, granted, due, opening, payable, settled, confirmed,
          callback, failures>>
provider == <<settled, confirmed>>
checkout == <<opening, payable>>

Sold == {"base", "pack"}
Kinds == Sold \cup {"bonus"}
Idle == [at |-> "idle"]

Init ==
    /\ orders = [o \in OrderIds |-> [kind |-> "none", status |-> "none"]]
    /\ subscribed \in BOOLEAN
    /\ granted = [o \in OrderIds |-> [k \in Kinds |-> 0]]
    /\ due = {} /\ opening = {} /\ payable = {}
    /\ settled = {} /\ confirmed = {}
    /\ callback = [c \in Callbacks |-> Idle]
    /\ failures = 0

\* The row lock of an order whose UPDATE is not committed.
Locked(o) == \E c \in Callbacks : callback[c].at = "flipped" /\ callback[c].order = o

-----------------------------------------------------------------------------
\* CreateOrder: a pack needs an active base subscription.
CreateOrder(o, kind) ==
    /\ orders[o].status = "none"
    /\ kind = "pack" => subscribed
    /\ orders' = [orders EXCEPT ![o] = [kind |-> kind, status |-> "pending"]]
    /\ opening' = opening \cup {o}
    /\ UNCHANGED <<subscribed, granted, due, payable, provider, callback, failures>>

\* The cashier link is made.
Launch(o) ==
    /\ o \in opening
    /\ opening' = opening \ {o} /\ payable' = payable \cup {o}
    /\ UNCHANGED <<orders, subscribed, granted, due, provider, callback, failures>>

\* It could not be made: the order is voided if it is still pending, or (an error
\* before, or a crash) stays as it is.
Void(o) ==
    /\ o \in opening
    /\ opening' = opening \ {o}
    /\ orders' \in {orders, [orders EXCEPT ![o].status =
                               IF @ = "pending" THEN "expired" ELSE @]}
    /\ UNCHANGED <<subscribed, granted, due, payable, provider, callback, failures>>

-----------------------------------------------------------------------------
\* The world: a day passes, the subscription ends or is granted, the user pays.
Age(o) ==
    /\ orders[o].status # "none" /\ o \notin opening \cup due
    /\ due' = due \cup {o}
    /\ UNCHANGED <<orders, subscribed, granted, checkout, provider, callback, failures>>

Subscribe ==
    /\ subscribed' = ~subscribed
    /\ UNCHANGED <<orders, granted, due, checkout, provider, callback, failures>>

Pay(o) ==
    /\ o \in payable \ settled
    /\ settled' = settled \cup {o}
    /\ UNCHANGED <<orders, subscribed, granted, due, checkout, confirmed, callback, failures>>

-----------------------------------------------------------------------------
\* ExpirePendingOrders: one UPDATE, which waits for the locks of the rows it changes.
Expirable(o) == o \in due /\ orders[o].status = "pending"

ExpirePendingOrders ==
    LET expiring == {o \in OrderIds : Expirable(o)}
    IN  /\ expiring # {} /\ \A o \in expiring : ~Locked(o)
        /\ orders' = [o \in OrderIds |-> IF o \in expiring
                        THEN [orders[o] EXCEPT !.status = "expired"] ELSE orders[o]]
        /\ UNCHANGED <<subscribed, granted, due, checkout, provider, callback, failures>>

-----------------------------------------------------------------------------
\* verifyAndComplete and CompleteOrder

Completable_NotExpired(status) == status = "pending"  \* mutant: an expired order is refused
Completable(status) == status \in {"pending", "expired"}

Go(c, state) == callback' = [callback EXCEPT ![c] = state]
\* A handler that is about to answer "success" for order o.
Success(o) == [at |-> "success", order |-> o]

\* A callback of a paid order arrives and its transaction reads the order.  A paid order
\* is answered at once; one that cannot be completed is answered "fail".
Arrive(c, o) ==
    /\ callback[c].at = "idle" /\ o \in settled
    /\ LET status == orders[o].status
       IN  IF status = "paid" THEN Go(c, Success(o))
           ELSE IF Completable(status)
             THEN Go(c, [at |-> "read", order |-> o, seen |-> status])
             ELSE UNCHANGED callback
    /\ UNCHANGED <<orders, subscribed, granted, due, checkout, provider, failures>>

PaidBaseBefore_WithOwn(o) ==   \* mutant: the order that is completed counts as well
    orders[o].kind = "base"
PaidBaseBefore(o) ==
    \E p \in OrderIds \ {o} : orders[p].kind = "base" /\ orders[p].status = "paid"

Matches_AnyStatus(o, seen) == TRUE   \* mutant: the UPDATE does not compare the status
Matches(o, seen) == orders[o].status = seen

\* The guarded UPDATE.  No row: taken for the work of another callback.
Flip(c) ==
    LET o == callback[c].order
    IN  /\ callback[c].at = "read" /\ ~Locked(o)
        /\ IF Matches(o, callback[c].seen)
             THEN Go(c, [at |-> "flipped", order |-> o, first |-> ~PaidBaseBefore(o)])
             ELSE Go(c, Success(o))
        /\ UNCHANGED <<orders, subscribed, granted, due, checkout, provider, failures>>

\* Without a bonus plan there is no bonus; the first order is completed all the same.
Rewarded(o, first) == BonusPlan /\ orders[o].kind = "base" /\ first

Commit(c) ==
    LET o == callback[c].order
        kind == orders[o].kind
        bonus == IF Rewarded(o, callback[c].first) THEN 1 ELSE 0
    IN  /\ callback[c].at = "flipped"
        /\ orders' = [orders EXCEPT ![o].status = "paid"]
        /\ granted' = [granted EXCEPT ![o][kind] = @ + 1, ![o]["bonus"] = @ + bonus]
        /\ subscribed' = (subscribed \/ kind = "base")
        /\ Go(c, Success(o))
        /\ UNCHANGED <<due, checkout, provider, failures>>

\* The provider reads the answer.
Answer(c) ==
    /\ callback[c].at = "success"
    /\ confirmed' = confirmed \cup {callback[c].order}
    /\ Go(c, Idle)
    /\ UNCHANGED <<orders, subscribed, granted, due, checkout, settled, failures>>

\* The transaction is rolled back (answer "fail"), or the answer does not reach the
\* provider: the process dies, or the callback was the browser's return.
Fail(c) ==
    /\ callback[c].at # "idle" /\ failures < MaxFailures
    /\ failures' = failures + 1
    /\ Go(c, Idle)
    /\ UNCHANGED <<orders, subscribed, granted, due, checkout, provider>>

-----------------------------------------------------------------------------
OrderStep(o) ==
    \/ \E kind \in Sold : CreateOrder(o, kind)
    \/ Launch(o) \/ Void(o) \/ Age(o) \/ Pay(o)
    \/ \E c \in Callbacks : Arrive(c, o)

CallbackStep(c) == Flip(c) \/ Commit(c) \/ Answer(c)

Next ==
    \/ \E o \in OrderIds : OrderStep(o)
    \/ \E c \in Callbacks : CallbackStep(c) \/ Fail(c)
    \/ ExpirePendingOrders \/ Subscribe

Spec == Init /\ [][Next]_vars

\* Handlers run on, and the provider repeats a callback until it reads "success"
\* ("重复回调(易支付会重发)", epay_test.go): a handler is free again and again.
Fairness ==
    /\ \A c \in Callbacks : WF_vars(CallbackStep(c))
    /\ \A o \in OrderIds : SF_vars(o \notin confirmed /\ \E c \in Callbacks : Arrive(c, o))

FairSpec == Spec /\ Fairness

-----------------------------------------------------------------------------
\* An order has its bucket exactly when it is paid, over repeated and concurrent
\* callbacks, failures and the expiry job (the guarded UPDATE of CompleteOrder).
BucketPerPaidOrder ==
    \A o \in OrderIds, k \in Sold :
      granted[o][k] = IF orders[o].status = "paid" /\ orders[o].kind = k THEN 1 ELSE 0

\* Where there is a bonus plan, a user who has paid a base order has had the bonus for the
\* first purchase, whichever of several concurrent callbacks is the first to commit.
FirstPurchaseRewarded ==
    BonusPlan /\ (\E o \in OrderIds : orders[o].kind = "base" /\ orders[o].status = "paid")
      => \E o \in OrderIds : granted[o]["bonus"] > 0

\* The provider's callbacks for a payment are eventually answered "success", also when
\* the order has expired in between ("迟到的回调仍能落账").
PaymentConfirmed == \A o \in OrderIds : o \in settled ~> o \in confirmed

\* "迟到的回调仍能落账": once the provider has seen "success", the order is paid.
ConfirmedIsPaid == \A o \in confirmed : orders[o].status = "paid"

\* "首笔 base 订单加赠首充礼桶;第二笔不再赠送": one bonus for a user.
BonusOnce == Cardinality({o \in OrderIds : granted[o]["bonus"] > 0}) <= 1

=============================================================================
