-------------------------- MODULE SubscriptionOrders --------------------------
(***************************************************************************)
(* The subscription orders of one user: bought online (epay), from the     *)
(* balance, with a redemption code or as an upgrade of a subscription; the *)
(* payment callback, which may come late, twice, or for an order that was  *)
(* replaced; and what an administrator does with the orders.               *)
(*                                                                         *)
(* A transaction that locks one row and commits is one step.  A request    *)
(* for an online order checks first and inserts in another statement.  The *)
(* two ways to upgrade are two steps too: they first expire the pending    *)
(* upgrade orders they see, whose rows stay locked, and lock the source    *)
(* subscription only then; PostgreSQL, one of the databases the code       *)
(* supports, lets other transactions commit between the two.  Prices are   *)
(* small numbers, and the worth that is left of a subscription one of a    *)
(* few.  Bills (TopUp rows) mirror the orders; keys, groups and logs are   *)
(* left out.                                                               *)
(***************************************************************************)
EXTENDS Integers, FiniteSets, Functions

CONSTANTS
  Plans, Price,     \* the plans and their prices
  Limit,            \* MaxPurchasePerUser, or 0
  InitialQuota,     \* the user's balance
  Worths,           \* what may be left of a subscription when it is upgraded
  Sessions,         \* requests that may be under way at a time
  MaxOrders,        \* bound: orders of the user
  MaxSubs,          \* bound: subscriptions of the user
  MaxHelps          \* bound: steps of an administrator, ends of subscriptions

ASSUME OrdersAssumption ==
  /\ Plans # {} /\ Price \in [Plans -> Nat]
  /\ Limit \in Nat /\ InitialQuota \in Nat
  /\ Worths \subseteq Nat
  /\ MaxOrders \in Nat /\ MaxSubs \in Nat /\ MaxHelps \in Nat

VARIABLES
  orders,      \* order rows, by number
  mirror,      \* status of the order's TopUp row, or "none"
  subs,        \* the user's subscriptions, by number
  quota,       \* the user's balance
  plans,       \* the plans that have not been deleted
  session,     \* requests between their two steps
  paid,        \* environment: orders the gateway has collected the money of
  told,        \* environment: orders whose callback was answered "success"
  delivered,   \* history: the subscriptions each order has produced
  helps        \* steps left to the administrator and to time

vars == <<orders, mirror, subs, quota, plans, session, paid, told, delivered,
          helps>>

OrderIds == 1..MaxOrders
SubIds == 1..MaxSubs

Absent == [status |-> "none", type |-> "new", provider |-> "epay",
           plan |-> CHOOSE p \in Plans : TRUE, from |-> 0, sub |-> 0,
           charged |-> 0, worth |-> -1]
NoSub == [status |-> "none", plan |-> Absent.plan, source |-> "order"]
Idle == [kind |-> "none", from |-> 0, plan |-> Absent.plan, held |-> {}]

Statuses == {"none", "pending", "expired", "success", "manual_review",
             "failed", "refunded"}

(* The type invariant.  worth is -1 where ProviderPayload records none. *)
TypeOK ==
  /\ orders \in [OrderIds ->
       [status : Statuses, type : {"new", "upgrade"},
        provider : {"epay", "balance", "redemption"}, plan : Plans,
        from : {0} \cup SubIds, sub : {0} \cup SubIds, charged : Nat,
        worth : Nat \cup {-1}]]
  /\ mirror \in [OrderIds -> {"none", "pending", "success", "failed", "refunded"}]
  /\ subs \in [SubIds -> [status : {"none", "active", "cancelled", "expired"},
                          plan : Plans, source : {"order", "upgrade"}]]
  /\ quota \in Nat
  /\ plans \in SUBSET Plans
  /\ session \in [Sessions -> [kind : {"none", "new", "balance", "epay"},
                  from : {0} \cup SubIds, plan : Plans, held : SUBSET OrderIds]]
  /\ paid \in SUBSET OrderIds /\ told \in SUBSET OrderIds
  /\ delivered \in [OrderIds -> SUBSET SubIds]
  /\ helps \in 0..MaxHelps

Init ==
  /\ orders = [o \in OrderIds |-> Absent]
  /\ mirror = [o \in OrderIds |-> "none"]
  /\ subs = [s \in SubIds |-> NoSub]
  /\ quota = InitialQuota
  /\ plans = Plans
  /\ session = [x \in Sessions |-> Idle]
  /\ paid = {} /\ told = {}
  /\ delivered = [o \in OrderIds |-> {}]
  /\ helps = MaxHelps
------------------------------------------------------------------------------
Status(o) == orders[o].status
NextOrder(o) == /\ o \in OrderIds /\ Status(o) = "none"
                /\ \A q \in 1..(o - 1) : Status(q) # "none"
NextSub(s) == /\ s \in SubIds /\ subs[s].status = "none"
              /\ \A q \in 1..(s - 1) : subs[q].status # "none"
Active(s) == s \in SubIds /\ subs[s].status = "active"
Actives == {s \in SubIds : Active(s)}

(* Rows an upgrade under way has updated and not yet committed. *)
Locked(o) == \E x \in Sessions : o \in session[x].held

(* The purchase guard: none active, or one of the same plan. *)
PurchaseAllowed(p) ==
  Actives = {} \/ \E s \in Actives : subs[s].plan = p

Bought(p) == {s \in SubIds : subs[s].status # "none" /\ subs[s].plan = p}
New(p) == {s \in Bought(p) : subs[s].source # "upgrade"}

(* The limit of CreateUserSubscriptionFromPlanTx leaves out upgrades;      *)
(* CountUserSubscriptionsByPlan, which a request asks, counts everything.  *)
LimitReached(p) == Limit > 0 /\ Cardinality(New(p)) >= Limit
LimitReachedByAll(p) == Limit > 0 /\ Cardinality(Bought(p)) >= Limit

(* CreateUserSubscriptionFromPlanTx. *)
Created(p, s, source) ==
  [subs EXCEPT ![s] = [status |-> "active", plan |-> p, source |-> source]]

(* performUpgradeTx: the source is cancelled, its successor created. *)
Upgraded(from, p, s) ==
  [Created(p, s, "upgrade") EXCEPT ![from].status = "cancelled"]

(* A row that becomes status, with its mirror where it has one. *)
Settle(o, status, mirrored) ==
  /\ orders' = [orders EXCEPT ![o].status = status]
  /\ mirror' = [mirror EXCEPT ![o] = mirrored]

(* The order o has produced the subscription s. *)
Deliver(o, s) ==
  /\ orders' = [orders EXCEPT ![o].status = "success", ![o].sub = s]
  /\ mirror' = [mirror EXCEPT ![o] = "success"]
  /\ delivered' = [delivered EXCEPT ![o] = @ \cup {s}]
------------------------------------------------------------------------------
(* SubscriptionRequestEpay: the checks, and later the pending order. *)
AskEpay(x, p) ==
  /\ session[x] = Idle
  /\ p \in plans /\ ~LimitReachedByAll(p) /\ PurchaseAllowed(p)
  /\ session' = [session EXCEPT ![x] = [Idle EXCEPT !.kind = "new", !.plan = p]]
  /\ UNCHANGED <<orders, mirror, subs, quota, plans, paid, told, delivered, helps>>

RequestEpay(x, o) ==
  /\ session[x].kind = "new" /\ NextOrder(o)
  /\ orders' = [orders EXCEPT ![o] =
                  [Absent EXCEPT !.status = "pending", !.plan = session[x].plan]]
  /\ session' = [session EXCEPT ![x] = Idle]
  /\ UNCHANGED <<mirror, subs, quota, plans, paid, told, delivered, helps>>

(* Mutant: the balance is not asked. *)
PurchaseOnCredit(o, p, s) ==
  /\ NextOrder(o) /\ NextSub(s) /\ p \in plans
  /\ PurchaseAllowed(p) /\ ~LimitReached(p)
  /\ quota' = quota - Price[p]
  /\ subs' = Created(p, s, "order")
  /\ orders' = [orders EXCEPT ![o] = [Absent EXCEPT !.status = "success",
                  !.provider = "balance", !.plan = p, !.charged = Price[p]]]
  /\ mirror' = [mirror EXCEPT ![o] = "success"]
  /\ delivered' = [delivered EXCEPT ![o] = @ \cup {s}]
  /\ UNCHANGED <<plans, session, paid, told, helps>>

(* PurchaseSubscriptionWithBalance.  The order it creates does not name    *)
(* the subscription it pays for.                                           *)
PurchaseWithBalance(o, p, s) ==
  /\ NextOrder(o) /\ NextSub(s) /\ p \in plans
  /\ PurchaseAllowed(p) /\ ~LimitReached(p)
  /\ quota >= Price[p]
  /\ quota' = quota - Price[p]
  /\ subs' = Created(p, s, "order")
  /\ orders' = [orders EXCEPT ![o] = [Absent EXCEPT !.status = "success",
                  !.provider = "balance", !.plan = p, !.charged = Price[p]]]
  /\ mirror' = [mirror EXCEPT ![o] = "success"]
  /\ delivered' = [delivered EXCEPT ![o] = @ \cup {s}]
  /\ UNCHANGED <<plans, session, paid, told, helps>>

(* redeemSubscriptionTx: a subscription for a redemption code. *)
Redeem(o, p, s) ==
  /\ NextOrder(o) /\ NextSub(s) /\ p \in plans
  /\ PurchaseAllowed(p) /\ ~LimitReached(p)
  /\ subs' = Created(p, s, "order")
  /\ orders' = [orders EXCEPT ![o] = [Absent EXCEPT !.status = "success",
                  !.provider = "redemption", !.plan = p, !.sub = s]]
  /\ mirror' = [mirror EXCEPT ![o] = "success"]
  /\ delivered' = [delivered EXCEPT ![o] = @ \cup {s}]
  /\ UNCHANGED <<quota, plans, session, paid, told, helps>>

(* Both ways to upgrade begin with expirePendingUpgradeOrdersTx, which     *)
(* waits for rows that another transaction has updated.  A request that    *)
(* its source or its plan dooms from the start only rolls back: left out.  *)
BeginUpgrade(x, kind, s, p) ==
  LET pending == {o \in OrderIds : /\ Status(o) = "pending"
                                   /\ orders[o].type = "upgrade"
                                   /\ orders[o].from = s}
  IN /\ session[x] = Idle
     /\ kind \in {"balance", "epay"}
     /\ Active(s) /\ Price[p] > Price[subs[s].plan]
     /\ \A o \in pending : ~Locked(o)
     /\ session' = [session EXCEPT ![x] =
                      [kind |-> kind, from |-> s, plan |-> p, held |-> pending]]
     /\ UNCHANGED <<orders, mirror, subs, quota, plans, paid, told, delivered, helps>>

(* quoteUpgradeLocked, with the source locked: w is what is left of it. *)
Upgradable(x, w) ==
  /\ Active(session[x].from)
  /\ session[x].plan \in plans
  /\ Price[session[x].plan] > Price[subs[session[x].from].plan]
  /\ w \in Worths /\ w <= Price[subs[session[x].from].plan]

Due(x, w) == Price[session[x].plan] - w

UpgradeOrder(x, w, provider, status, charged, s) ==
  [status |-> status, type |-> "upgrade", provider |-> provider,
   plan |-> session[x].plan, from |-> session[x].from, sub |-> s,
   charged |-> charged, worth |-> w]

(* The orders once the upgrade of x commits and adds its own. *)
Replaced(x, o, order) ==
  [q \in OrderIds |-> IF q = o THEN order
                      ELSE IF q \in session[x].held
                      THEN [orders[q] EXCEPT !.status = "expired"]
                      ELSE orders[q]]

(* The rest of UpgradeSubscriptionWithBalance. *)
UpgradeWithBalance(x, w, o, s) ==
  /\ session[x].kind = "balance" /\ NextOrder(o) /\ NextSub(s)
  /\ Upgradable(x, w)
  /\ quota >= Due(x, w)
  /\ quota' = quota - Due(x, w)
  /\ subs' = Upgraded(session[x].from, session[x].plan, s)
  /\ orders' = Replaced(x, o, UpgradeOrder(x, w, "balance", "success", Due(x, w), s))
  /\ mirror' = [mirror EXCEPT ![o] = "success"]
  /\ delivered' = [delivered EXCEPT ![o] = @ \cup {s}]
  /\ session' = [session EXCEPT ![x] = Idle]
  /\ UNCHANGED <<plans, paid, told, helps>>

(* The rest of CreateSubscriptionUpgradeEpayOrder. *)
CreateUpgradeOrder(x, w, o) ==
  /\ session[x].kind = "epay" /\ NextOrder(o)
  /\ Upgradable(x, w) /\ Due(x, w) > 0
  /\ orders' = Replaced(x, o, UpgradeOrder(x, w, "epay", "pending", 0, 0))
  /\ session' = [session EXCEPT ![x] = Idle]
  /\ UNCHANGED <<mirror, subs, quota, plans, paid, told, delivered, helps>>

(* A request is refused or fails: nothing of it stays. *)
RollBack(x) ==
  /\ session[x] # Idle
  /\ session' = [session EXCEPT ![x] = Idle]
  /\ UNCHANGED <<orders, mirror, subs, quota, plans, paid, told, delivered, helps>>
------------------------------------------------------------------------------
(* The user pays at the gateway, which does not know whether the order is  *)
(* still wanted.                                                           *)
Pay(o) ==
  /\ orders[o].provider = "epay" /\ Status(o) \in {"pending", "expired"}
  /\ o \notin paid
  /\ paid' = paid \cup {o}
  /\ UNCHANGED <<orders, mirror, subs, quota, plans, session, told, delivered, helps>>

(* Why a paid pending order cannot be delivered. *)
Undeliverable(o) ==
  \/ orders[o].plan \notin plans
  \/ /\ orders[o].type = "upgrade"
     /\ ~Active(orders[o].from)
  \/ /\ orders[o].type = "new"
     /\ ~PurchaseAllowed(orders[o].plan) \/ LimitReached(orders[o].plan)

(* Why it goes to an administrator: that, or the 30 minutes of an upgrade  *)
(* order have passed, which may be so at any payment.                      *)
ToReview(o) == Undeliverable(o) \/ orders[o].type = "upgrade"

(* A verified callback.  Its answer may be lost: the gateway calls again. *)
Callback(o) == /\ o \in paid /\ ~Locked(o)
               /\ told' \in {told, told \cup {o}}

(* CompleteSubscriptionOrder, settled before: the callback is swallowed. *)
AlreadyDone(o) ==
  /\ Callback(o) /\ o \notin told
  /\ Status(o) \in {"success", "manual_review"}
  /\ UNCHANGED <<orders, mirror, subs, quota, plans, session, paid, delivered, helps>>

(* Mutant: a payment for an expired order is swallowed without a trace. *)
ReviewOfPending(o) ==
  /\ Callback(o)
  /\ \/ Status(o) = "pending" /\ ToReview(o) /\ Settle(o, "manual_review", "pending")
     \/ Status(o) = "expired" /\ UNCHANGED <<orders, mirror>>
  /\ UNCHANGED <<subs, quota, plans, session, paid, delivered, helps>>

(* CompleteSubscriptionOrder: money that cannot buy what it was for.  The  *)
(* payload of the callback replaces the quote of an upgrade.               *)
Review(o) ==
  /\ Callback(o)
  /\ \/ Status(o) = "expired"
     \/ Status(o) = "pending" /\ ToReview(o)
  /\ orders' = [orders EXCEPT ![o].status = "manual_review", ![o].worth = -1]
  /\ mirror' = [mirror EXCEPT ![o] = "pending"]
  /\ UNCHANGED <<subs, quota, plans, session, paid, delivered, helps>>

(* What an order delivers: its subscription, or the source's successor. *)
Produced(o, s) ==
  IF orders[o].type = "upgrade" THEN Upgraded(orders[o].from, orders[o].plan, s)
  ELSE Created(orders[o].plan, s, "order")

(* Mutant: an order is delivered whatever its status. *)
CompleteAgain(o, s) ==
  /\ Callback(o) /\ NextSub(s)
  /\ Status(o) \in {"pending", "success"} /\ ~Undeliverable(o)
  /\ subs' = Produced(o, s)
  /\ Deliver(o, s)
  /\ UNCHANGED <<quota, plans, session, paid, helps>>

(* Mutant: the callback of an upgrade does not look at the source again. *)
CompleteAnySource(o, s) ==
  /\ Callback(o) /\ NextSub(s)
  /\ Status(o) = "pending"
  /\ orders[o].type = "new" => ~Undeliverable(o)
  /\ subs' = Produced(o, s)
  /\ Deliver(o, s)
  /\ UNCHANGED <<quota, plans, session, paid, helps>>

(* Mutant: the callback does not look at the purchase guard again. *)
CompleteUnchecked(o, s) ==
  /\ Callback(o) /\ NextSub(s)
  /\ Status(o) = "pending"
  /\ orders[o].type = "upgrade" => ~Undeliverable(o)
  /\ subs' = Produced(o, s)
  /\ Deliver(o, s)
  /\ UNCHANGED <<quota, plans, session, paid, helps>>

(* CompleteSubscriptionOrder: a payment in time delivers. *)
Complete(o, s) ==
  /\ Callback(o) /\ NextSub(s)
  /\ Status(o) = "pending" /\ ~Undeliverable(o)
  /\ subs' = Produced(o, s)
  /\ orders' = [orders EXCEPT ![o].status = "success", ![o].sub = s, ![o].worth = -1]
  /\ mirror' = [mirror EXCEPT ![o] = "success"]
  /\ delivered' = [delivered EXCEPT ![o] = @ \cup {s}]
  /\ UNCHANGED <<quota, plans, session, paid, helps>>
------------------------------------------------------------------------------
Help == helps > 0 /\ helps' = helps - 1

(* ExpireSubscriptionOrder, when the gateway cannot be reached, and        *)
(* AdminExpireSubscriptionOrder.                                           *)
Expire(o) ==
  /\ Help /\ ~Locked(o)
  /\ Status(o) = "pending"
  /\ orders' = [orders EXCEPT ![o].status = "expired"]
  /\ UNCHANGED <<mirror, subs, quota, plans, session, paid, told, delivered>>

(* AdminDeliverSubscriptionOrder. *)
AdminDeliver(o, s) ==
  /\ Help /\ NextSub(s)
  /\ Status(o) = "manual_review" /\ orders[o].plan \in plans
  /\ IF orders[o].type = "upgrade" THEN Active(orders[o].from)
     ELSE PurchaseAllowed(orders[o].plan) /\ ~LimitReached(orders[o].plan)
  /\ subs' = Produced(o, s)
  /\ Deliver(o, s)
  /\ UNCHANGED <<quota, plans, session, paid, told>>

(* AdminCloseSubscriptionOrder: the money is returned by other means. *)
AdminClose(o) ==
  /\ Help
  /\ Status(o) = "manual_review"
  /\ Settle(o, "failed", "failed")
  /\ UNCHANGED <<subs, quota, plans, session, paid, told, delivered>>

(* Mutant: an upgrade gives back its difference only. *)
CreditDifference(o) == orders[o].charged

(* What a refund credits: what was charged, and the worth of the source    *)
(* that an upgrade has used up.                                            *)
Credit(o) == orders[o].charged +
             (IF orders[o].type = "upgrade" THEN orders[o].worth ELSE 0)

Refundable(o) ==
  /\ Status(o) = "success"
  /\ orders[o].provider # "redemption"
  /\ orders[o].provider = "balance" => orders[o].charged > 0
  /\ orders[o].type = "upgrade" => orders[o].worth >= 0

(* AdminRefundSubscriptionOrder: the subscription the order names ends. *)
AdminRefund(o) ==
  /\ Help /\ Refundable(o)
  /\ subs' = IF Active(orders[o].sub)
             THEN [subs EXCEPT ![orders[o].sub].status = "cancelled"] ELSE subs
  /\ quota' = quota + Credit(o)
  /\ Settle(o, "refunded", "refunded")
  /\ UNCHANGED <<plans, session, paid, told, delivered>>

(* AdminInvalidateUserSubscription. *)
AdminInvalidate(s) ==
  /\ Help /\ subs[s].status # "none"
  /\ subs' = [subs EXCEPT ![s].status = "cancelled"]
  /\ UNCHANGED <<orders, mirror, quota, plans, session, paid, told, delivered>>

(* A subscription reaches its end. *)
SubEnds(s) ==
  /\ Help /\ Active(s)
  /\ subs' = [subs EXCEPT ![s].status = "expired"]
  /\ UNCHANGED <<orders, mirror, quota, plans, session, paid, told, delivered>>

(* AdminDeleteSubscriptionPlan: nothing active and nothing pending. *)
AdminDeletePlan(p) ==
  /\ Help /\ p \in plans
  /\ \A s \in Actives : subs[s].plan # p
  /\ \A o \in OrderIds : Status(o) = "pending" => orders[o].plan # p
  /\ plans' = plans \ {p}
  /\ UNCHANGED <<orders, mirror, subs, quota, session, paid, told, delivered>>

Notify(o) == AlreadyDone(o) \/ Review(o) \/ \E s \in SubIds : Complete(o, s)

Next ==
  \/ \E o \in OrderIds :
       \/ \E p \in Plans, s \in SubIds :
            PurchaseWithBalance(o, p, s) \/ Redeem(o, p, s)
       \/ Pay(o) \/ Notify(o)
       \/ Expire(o) \/ AdminClose(o) \/ AdminRefund(o)
       \/ \E s \in SubIds : AdminDeliver(o, s)
  \/ \E x \in Sessions :
       \/ \E p \in Plans : AskEpay(x, p)
       \/ \E o \in OrderIds : RequestEpay(x, o)
       \/ \E kind \in {"balance", "epay"}, s \in SubIds, p \in Plans :
            BeginUpgrade(x, kind, s, p)
       \/ \E w \in Worths, o \in OrderIds :
            \/ CreateUpgradeOrder(x, w, o)
            \/ \E s \in SubIds : UpgradeWithBalance(x, w, o, s)
       \/ RollBack(x)
  \/ \E s \in SubIds : AdminInvalidate(s) \/ SubEnds(s)
  \/ \E p \in Plans : AdminDeletePlan(p)

Spec == Init /\ [][Next]_vars
------------------------------------------------------------------------------
(* What became of an order's money, where it has come. *)
PhaseOf == [none |-> "open", pending |-> "open", expired |-> "open",
            success |-> "delivered", manual_review |-> "review",
            failed |-> "closed", refunded |-> "refunded"]

Phases == [o \in OrderIds |-> PhaseOf[Status(o)]]

(* A purchase from the balance, or with a code, is paid as it is made. *)
PaidFor == paid \cup {o \in OrderIds : orders[o].provider # "epay"}

Promised == INSTANCE OrderDelivery
  WITH Orders <- OrderIds, Subs <- SubIds,
       phase <- Phases, paid <- PaidFor, product <- delivered

(* However often the callback of an order comes, before or after it was    *)
(* expired, replaced, reviewed, closed or refunded, and whoever helps: its *)
(* money buys one subscription, its own, or ends in an administrator's     *)
(* hands.                                                                  *)
DeliversWhatWasPaid == Promised!Spec

(* One subscription is traded in once: two upgrade orders of one source,   *)
(* or one and an upgrade from the balance, never both deliver, and a       *)
(* source that was traded in is over.                                      *)
TradedInOnce ==
  \A o, q \in OrderIds :
    orders[o].type = "upgrade" /\ delivered[o] # {} =>
      /\ ~Active(orders[o].from)
      /\ orders[q].type = "upgrade" /\ delivered[q] # {}
           /\ orders[q].from = orders[o].from => q = o

BillOf == [success |-> "success", manual_review |-> "pending",
           failed |-> "failed", refunded |-> "refunded"]

(* Money taken leaves a trace: once the gateway was told to stop calling,  *)
(* the order is delivered, in review, closed or refunded, and its bill     *)
(* says the same; what nobody paid has no bill and delivers nothing.       *)
PaymentTraced ==
  \A o \in OrderIds :
    /\ o \in told => /\ Status(o) \in DOMAIN BillOf
                     /\ mirror[o] = BillOf[Status(o)]
    /\ orders[o].provider = "epay" /\ o \notin paid =>
         delivered[o] = {} /\ mirror[o] = "none"

Balance(o) ==
  IF Status(o) # "refunded" THEN -orders[o].charged
  ELSE IF orders[o].type = "upgrade" THEN orders[o].worth ELSE 0

(* The balance is what the orders say: each charge taken once, each refund *)
(* given once with the worth of the source it had used up.                 *)
WalletAgrees ==
  quota = InitialQuota + SumFunctionOnSet([o \in OrderIds |-> Balance(o)], OrderIds)

Held == {subs[s].plan : s \in Actives}

LimitKept == Limit > 0 => \A p \in Plans : Cardinality(New(p)) <= Limit

PlanEntered ==
  \A p \in Held' \ Held :
    Held = {} \/ \E s \in Actives \ Actives' : Price[subs[s].plan] < Price[p]

(* The limit and the purchase guard hold however late payments come: no    *)
(* more than Limit new subscriptions of a plan, and a plan the user did    *)
(* not hold begins only when nothing is active, or in trade for an active  *)
(* subscription of a cheaper plan, which ends with that very step.         *)
PurchasesAsAllowed == []LimitKept /\ [][PlanEntered]_vars

(* A refund ends the subscription that the order produced. *)
RefundRevokes ==
  \A o \in OrderIds : Status(o) = "refunded" =>
    \A s \in delivered[o] : ~Active(s)

===============================================================================
