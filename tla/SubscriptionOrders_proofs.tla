----------------------- MODULE SubscriptionOrders_proofs -----------------------
(***************************************************************************)
(* Theorems about SubscriptionOrders, for any number of orders, requests,  *)
(* plans and prices.                                                       *)
(***************************************************************************)
EXTENDS SubscriptionOrders, SumTheorems, FiniteSetTheorems, TLAPS

Order == [status : Statuses, type : {"new", "upgrade"},
          provider : {"epay", "balance", "redemption"}, plan : Plans,
          from : {0} \cup SubIds, sub : {0} \cup SubIds, charged : Nat,
          worth : Nat \cup {-1}]
Sub == [status : {"none", "active", "cancelled", "expired"},
        plan : Plans, source : {"order", "upgrade"}]
Request == [kind : {"none", "new", "balance", "epay"},
            from : {0} \cup SubIds, plan : Plans, held : SUBSET OrderIds]

(* The records of the module have their types. *)
LEMMA RecordTypes ==
  /\ Absent \in Order /\ NoSub \in Sub /\ Idle \in Request
  /\ Idle.kind = "none" /\ Idle.held = {} /\ NoSub.status = "none"
  /\ Absent.status = "none" /\ Absent.provider = "epay" /\ Absent.type = "new"
  /\ Absent.charged = 0
<1>1. (CHOOSE p \in Plans : TRUE) \in Plans
  BY OrdersAssumption
<1> QED
  BY <1>1 DEF Absent, NoSub, Idle, Order, Sub, Request, Statuses

(* The rows, as the lemmas below speak of them. *)
LEMMA Records ==
  ASSUME TypeOK
  PROVE  /\ orders \in [OrderIds -> Order]
         /\ subs \in [SubIds -> Sub]
         /\ session \in [Sessions -> Request]
         /\ Price \in [Plans -> Nat]
         /\ OrderIds \subseteq Nat /\ SubIds \subseteq Nat \ {0}
BY OrdersAssumption DEF TypeOK, Order, Sub, Request, OrderIds, SubIds

(* What an order's row is after some of its fields were set. *)
LEMMA OrderSet ==
  ASSUME NEW f \in [OrderIds -> Order], NEW o \in OrderIds,
         NEW st \in Statuses, NEW s \in {0} \cup SubIds
  PROVE  /\ [f EXCEPT ![o].status = st] \in [OrderIds -> Order]
         /\ [f EXCEPT ![o].status = st, ![o].sub = s] \in [OrderIds -> Order]
         /\ [f EXCEPT ![o].status = st, ![o].worth = -1] \in [OrderIds -> Order]
         /\ [f EXCEPT ![o].status = st, ![o].sub = s, ![o].worth = -1] \in [OrderIds -> Order]
<1>1. ASSUME NEW r \in Order
      PROVE  /\ [r EXCEPT !.status = st] \in Order
             /\ [r EXCEPT !.sub = s] \in Order
             /\ [r EXCEPT !.worth = -1] \in Order
  BY DEF Order
<1> DEFINE a == [f[o] EXCEPT !.status = st]
<1>2. a \in Order /\ [a EXCEPT !.sub = s] \in Order /\ [a EXCEPT !.worth = -1] \in Order
      /\ [[a EXCEPT !.sub = s] EXCEPT !.worth = -1] \in Order
  BY <1>1
<1>3. /\ [f EXCEPT ![o].status = st] = [f EXCEPT ![o] = a]
      /\ [f EXCEPT ![o].status = st, ![o].sub = s] = [f EXCEPT ![o] = [a EXCEPT !.sub = s]]
      /\ [f EXCEPT ![o].status = st, ![o].worth = -1] = [f EXCEPT ![o] = [a EXCEPT !.worth = -1]]
      /\ [f EXCEPT ![o].status = st, ![o].sub = s, ![o].worth = -1]
           = [f EXCEPT ![o] = [[a EXCEPT !.sub = s] EXCEPT !.worth = -1]]
  OBVIOUS
<1> QED
  BY <1>2, <1>3

(* Of the orders, only o has moved, to the status st. *)
Moved(new, o, st) ==
  /\ new[o].status = st /\ new[o].type = orders[o].type
  /\ new[o].provider = orders[o].provider /\ new[o].plan = orders[o].plan
  /\ new[o].from = orders[o].from
  /\ \A q \in OrderIds \ {o} : new[q] = orders[q]

(* Setting these fields moves one order and keeps what it was bought for. *)
LEMMA OrderMoved ==
  ASSUME orders \in [OrderIds -> Order], NEW o \in OrderIds,
         NEW st \in Statuses, NEW s \in {0} \cup SubIds
  PROVE  /\ Moved([orders EXCEPT ![o].status = st], o, st)
         /\ Moved([orders EXCEPT ![o].status = st, ![o].sub = s], o, st)
         /\ Moved([orders EXCEPT ![o].status = st, ![o].worth = -1], o, st)
         /\ Moved([orders EXCEPT ![o].status = st, ![o].sub = s, ![o].worth = -1], o, st)
BY DEF Order, Moved

(* What the subscriptions are after a purchase, an upgrade or an end. *)
LEMMA SubsSet ==
  ASSUME subs \in [SubIds -> Sub], NEW s \in SubIds, NEW p \in Plans,
         NEW from \in SubIds, from # s
  PROVE  /\ Created(p, s, "order") \in [SubIds -> Sub]
         /\ Created(p, s, "upgrade") \in [SubIds -> Sub]
         /\ Upgraded(from, p, s) \in [SubIds -> Sub]
         /\ Upgraded(from, p, s)[s] = [status |-> "active", plan |-> p, source |-> "upgrade"]
         /\ Upgraded(from, p, s)[from] = [subs[from] EXCEPT !.status = "cancelled"]
         /\ \A q \in SubIds \ {s, from} : Upgraded(from, p, s)[q] = subs[q]
<1>1. Created(p, s, "order") \in [SubIds -> Sub] /\ Created(p, s, "upgrade") \in [SubIds -> Sub]
  BY DEF Created, Sub
<1> QED
  BY <1>1 DEF Upgraded, Created, Sub
--------------------------------------------------------------------------------
MirrorType == [OrderIds -> {"none", "pending", "success", "failed", "refunded"}]

(* The types, by what each action assigns. *)
LEMMA TypeStep ==
  ASSUME TypeOK, Next
  PROVE  TypeOK'
<1>0. /\ orders \in [OrderIds -> Order] /\ subs \in [SubIds -> Sub]
      /\ session \in [Sessions -> Request] /\ mirror \in MirrorType
      /\ delivered \in [OrderIds -> SUBSET SubIds] /\ quota \in Nat
      /\ plans \subseteq Plans /\ paid \subseteq OrderIds /\ told \subseteq OrderIds
      /\ Price \in [Plans -> Nat] /\ Idle \in Request
  BY Records, RecordTypes DEF TypeOK, MirrorType
<1>1. SUFFICES /\ (orders \in [OrderIds -> Order] /\ mirror \in MirrorType
                   /\ delivered \in [OrderIds -> SUBSET SubIds])'
               /\ (subs \in [SubIds -> Sub])' /\ (session \in [Sessions -> Request])'
               /\ (quota \in Nat)' /\ (plans \subseteq Plans)'
               /\ (paid \subseteq OrderIds)' /\ (told \subseteq OrderIds)'
               /\ (helps \in 0..MaxHelps)'
  BY DEF TypeOK, Order, Sub, Request, MirrorType
<1>2. helps \in 0..MaxHelps /\ (Help => helps' \in 0..MaxHelps)
  BY OrdersAssumption DEF Help, TypeOK
<1>3. ASSUME NEW x \in Sessions, NEW p \in Plans, AskEpay(x, p)
      PROVE  session' \in [Sessions -> Request]
  <2>1. [Idle EXCEPT !.kind = "new", !.plan = p] \in Request
    BY <1>0 DEF Request
  <2> QED
    BY <1>0, <1>3, <2>1 DEF AskEpay
<1>4. ASSUME NEW x \in Sessions, NEW o \in OrderIds, RequestEpay(x, o)
      PROVE  orders' \in [OrderIds -> Order] /\ session' \in [Sessions -> Request]
  <2>1. session[x].plan \in Plans
    BY <1>0 DEF Request
  <2>2. [Absent EXCEPT !.status = "pending", !.plan = session[x].plan] \in Order
    BY <2>1, RecordTypes DEF Absent, Order, Statuses
  <2> QED
    BY <1>0, <1>4, <2>2 DEF RequestEpay
<1>5. ASSUME NEW o \in OrderIds, NEW p \in Plans, NEW s \in SubIds,
             PurchaseWithBalance(o, p, s) \/ Redeem(o, p, s)
      PROVE  /\ orders' \in [OrderIds -> Order] /\ mirror' \in MirrorType
             /\ delivered' \in [OrderIds -> SUBSET SubIds]
             /\ subs' \in [SubIds -> Sub] /\ quota' \in Nat
  <2>1. /\ [Absent EXCEPT !.status = "success", !.provider = "balance", !.plan = p,
                          !.charged = Price[p]] \in Order
        /\ [Absent EXCEPT !.status = "success", !.provider = "redemption", !.plan = p,
                          !.sub = s] \in Order
    <3>1. Price[p] \in Nat
      BY <1>0
    <3> QED
      BY <3>1, RecordTypes DEF Absent, Order, Statuses
  <2>2. Created(p, s, "order") \in [SubIds -> Sub]
    BY <1>0 DEF Created, Sub
  <2>3. mirror' \in MirrorType /\ delivered' \in [OrderIds -> SUBSET SubIds]
    BY <1>0, <1>5 DEF PurchaseWithBalance, Redeem, MirrorType
  <2>4. quota' \in Nat
    BY <1>0, <1>5 DEF PurchaseWithBalance, Redeem
  <2> QED
    BY <1>0, <1>5, <2>1, <2>2, <2>3, <2>4 DEF PurchaseWithBalance, Redeem
<1>6. ASSUME NEW x \in Sessions, NEW kind \in {"balance", "epay"}, NEW s \in SubIds,
             NEW p \in Plans, BeginUpgrade(x, kind, s, p)
      PROVE  session' \in [Sessions -> Request]
  <2> DEFINE pending == {o \in OrderIds : /\ Status(o) = "pending"
                                          /\ orders[o].type = "upgrade"
                                          /\ orders[o].from = s}
  <2>1. [kind |-> kind, from |-> s, plan |-> p, held |-> pending] \in Request
    BY DEF Request
  <2>2. session' = [session EXCEPT ![x] =
                     [kind |-> kind, from |-> s, plan |-> p, held |-> pending]]
    BY <1>6 DEF BeginUpgrade
  <2> QED
    BY <1>0, <2>1, <2>2
<1>7. ASSUME NEW x \in Sessions, NEW o \in OrderIds, NEW order \in Order,
             orders' = Replaced(x, o, order)
      PROVE  orders' \in [OrderIds -> Order]
  <2> DEFINE expired(q) == [orders[q] EXCEPT !.status = "expired"]
  <2>1. \A q \in OrderIds : expired(q) \in Order
    BY <1>0 DEF Order, Statuses
  <2>2. orders' = [q \in OrderIds |-> IF q = o THEN order
                                     ELSE IF q \in session[x].held THEN expired(q)
                                     ELSE orders[q]]
    BY <1>7 DEF Replaced
  <2> HIDE DEF expired
  <2> QED
    BY <1>0, <2>1, <2>2
<1>8. ASSUME NEW x \in Sessions, NEW w \in Worths, NEW o \in OrderIds, NEW s \in SubIds,
             UpgradeWithBalance(x, w, o, s)
      PROVE  /\ orders' \in [OrderIds -> Order] /\ mirror' \in MirrorType
             /\ delivered' \in [OrderIds -> SUBSET SubIds]
             /\ subs' \in [SubIds -> Sub] /\ quota' \in Nat
             /\ session' \in [Sessions -> Request]
  <2>1. /\ session[x].plan \in Plans /\ session[x].from \in SubIds
        /\ w \in Nat /\ subs[session[x].from] \in Sub /\ Active(session[x].from)
        /\ Price[session[x].plan] \in Nat /\ Price[subs[session[x].from].plan] \in Nat
    BY <1>0, <1>8, OrdersAssumption DEF UpgradeWithBalance, Upgradable, Active, Request, Sub
  <2>2. Due(x, w) \in Nat
    BY <1>8, <2>1 DEF UpgradeWithBalance, Upgradable, Due
  <2>3. UpgradeOrder(x, w, "balance", "success", Due(x, w), s) \in Order
    BY <2>1, <2>2 DEF UpgradeOrder, Order, Statuses
  <2>4. Upgraded(session[x].from, session[x].plan, s) \in [SubIds -> Sub]
    <3>1. session[x].from # s
      BY <1>8, <2>1 DEF UpgradeWithBalance, NextSub, Active
    <3> QED
      BY <1>0, <2>1, <3>1, SubsSet
  <2>5. orders' \in [OrderIds -> Order]
    BY <1>7, <1>8, <2>3 DEF UpgradeWithBalance
  <2>6. mirror' \in MirrorType /\ delivered' \in [OrderIds -> SUBSET SubIds]
    BY <1>0, <1>8 DEF UpgradeWithBalance, MirrorType
  <2>7. quota' \in Nat
    BY <1>0, <1>8, <2>2 DEF UpgradeWithBalance
  <2> QED
    BY <1>0, <1>8, <2>4, <2>5, <2>6, <2>7 DEF UpgradeWithBalance
<1>9. ASSUME NEW x \in Sessions, NEW w \in Worths, NEW o \in OrderIds,
             CreateUpgradeOrder(x, w, o)
      PROVE  orders' \in [OrderIds -> Order] /\ session' \in [Sessions -> Request]
  <2>1. /\ session[x].plan \in Plans /\ session[x].from \in {0} \cup SubIds /\ w \in Nat
    BY <1>0, OrdersAssumption DEF Request
  <2>2. UpgradeOrder(x, w, "epay", "pending", 0, 0) \in Order
    BY <2>1 DEF UpgradeOrder, Order, Statuses
  <2> QED
    BY <1>0, <1>7, <1>9, <2>2 DEF CreateUpgradeOrder
<1>10. ASSUME NEW o \in OrderIds, NEW s \in SubIds, NextSub(s),
              orders[o].type = "upgrade" => Active(orders[o].from)
       PROVE  Produced(o, s) \in [SubIds -> Sub]
  <2>1. orders[o].plan \in Plans /\ orders[o].type \in {"new", "upgrade"}
    BY <1>0 DEF Order
  <2>2. CASE orders[o].type = "upgrade"
    <3>1. orders[o].from \in SubIds /\ orders[o].from # s
      BY <1>10, <2>2 DEF Active, NextSub
    <3> QED
      BY <1>0, <2>1, <2>2, <3>1, SubsSet DEF Produced
  <2>3. CASE orders[o].type = "new"
    BY <1>0, <2>1, <2>3 DEF Produced, Created, Sub
  <2> QED
    BY <2>1, <2>2, <2>3
<1>11. ASSUME NEW o \in OrderIds, NEW s \in SubIds, Complete(o, s) \/ AdminDeliver(o, s)
       PROVE  /\ orders' \in [OrderIds -> Order] /\ mirror' \in MirrorType
              /\ delivered' \in [OrderIds -> SUBSET SubIds]
              /\ subs' \in [SubIds -> Sub]
  <2>1. subs' = Produced(o, s) /\ NextSub(s)
        /\ (orders[o].type = "upgrade" => Active(orders[o].from))
    BY <1>11 DEF Complete, AdminDeliver, Undeliverable
  <2>2. mirror' \in MirrorType /\ delivered' \in [OrderIds -> SUBSET SubIds]
    BY <1>0, <1>11 DEF Complete, AdminDeliver, Deliver, MirrorType
  <2>3. orders' \in [OrderIds -> Order]
    <3>1. /\ [orders EXCEPT ![o].status = "success", ![o].sub = s] \in [OrderIds -> Order]
          /\ [orders EXCEPT ![o].status = "success", ![o].sub = s, ![o].worth = -1]
               \in [OrderIds -> Order]
      <4>1. "success" \in Statuses /\ s \in {0} \cup SubIds
        BY DEF Statuses
      <4> QED
        BY ONLY <1>0, <1>11, <4>1, OrderSet
    <3> QED
      BY <1>11, <3>1 DEF Complete, AdminDeliver, Deliver
  <2> QED
    BY <1>10, <2>1, <2>2, <2>3
<1>12. ASSUME NEW o \in OrderIds, Review(o) \/ Expire(o) \/ AdminClose(o)
       PROVE  orders' \in [OrderIds -> Order] /\ mirror' \in MirrorType
  <2>1. {"manual_review", "expired", "failed"} \subseteq Statuses /\ 0 \in {0} \cup SubIds
    BY DEF Statuses
  <2>2. /\ [orders EXCEPT ![o].status = "manual_review", ![o].worth = -1] \in [OrderIds -> Order]
        /\ [orders EXCEPT ![o].status = "expired"] \in [OrderIds -> Order]
        /\ [orders EXCEPT ![o].status = "failed"] \in [OrderIds -> Order]
    BY ONLY <1>0, <1>12, <2>1, OrderSet
  <2> QED
    BY <1>0, <1>12, <2>2 DEF Review, Expire, AdminClose, Settle, MirrorType
<1>13. ASSUME NEW o \in OrderIds, AdminRefund(o)
       PROVE  /\ orders' \in [OrderIds -> Order] /\ mirror' \in MirrorType
              /\ subs' \in [SubIds -> Sub] /\ quota' \in Nat
  <2>1. orders' \in [OrderIds -> Order] /\ mirror' \in MirrorType
    BY <1>0, <1>13, OrderSet DEF AdminRefund, Settle, Statuses, MirrorType
  <2>2. subs' \in [SubIds -> Sub]
    BY <1>0, <1>13 DEF AdminRefund, Active, Sub
  <2>3. orders[o].charged \in Nat /\ orders[o].worth \in Nat \cup {-1}
    BY <1>0 DEF Order
  <2>4. Credit(o) \in Nat
    BY <1>13, <2>3 DEF AdminRefund, Refundable, Credit
  <2> QED
    BY <1>0, <1>13, <2>1, <2>2, <2>4 DEF AdminRefund
<1>14. ASSUME NEW s \in SubIds, AdminInvalidate(s) \/ SubEnds(s)
       PROVE  subs' \in [SubIds -> Sub]
  BY <1>0, <1>14 DEF AdminInvalidate, SubEnds, Sub
<1>15. ASSUME NEW o \in OrderIds, Callback(o)
       PROVE  told' \subseteq OrderIds
  BY <1>0, <1>15 DEF Callback
<1>16. CASE \E x \in Sessions : \E p \in Plans : AskEpay(x, p)
  BY <1>0, <1>2, <1>3, <1>16 DEF AskEpay
<1>17. CASE \E x \in Sessions, o \in OrderIds : RequestEpay(x, o)
  BY <1>0, <1>2, <1>4, <1>17 DEF RequestEpay
<1>18. CASE \E o \in OrderIds, p \in Plans, s \in SubIds :
              PurchaseWithBalance(o, p, s) \/ Redeem(o, p, s)
  <2>1. PICK o \in OrderIds, p \in Plans, s \in SubIds :
          PurchaseWithBalance(o, p, s) \/ Redeem(o, p, s)
    BY <1>18
  <2>2. UNCHANGED <<plans, session, paid, told, helps>>
    BY <2>1 DEF PurchaseWithBalance, Redeem
  <2> QED
    BY <1>0, <1>2, <1>5, <2>1, <2>2
<1>19. CASE \E x \in Sessions, kind \in {"balance", "epay"}, s \in SubIds, p \in Plans :
              BeginUpgrade(x, kind, s, p)
  BY <1>0, <1>2, <1>6, <1>19 DEF BeginUpgrade
<1>20. CASE \E x \in Sessions, w \in Worths, o \in OrderIds :
              \/ CreateUpgradeOrder(x, w, o)
              \/ \E s \in SubIds : UpgradeWithBalance(x, w, o, s)
  BY <1>0, <1>2, <1>8, <1>9, <1>20 DEF CreateUpgradeOrder, UpgradeWithBalance
<1>21. CASE \E x \in Sessions : RollBack(x)
  BY <1>0, <1>2, <1>21 DEF RollBack
<1>22. CASE \E o \in OrderIds : Pay(o) \/ AlreadyDone(o) \/ Review(o)
  BY <1>0, <1>2, <1>12, <1>15, <1>22 DEF Pay, AlreadyDone, Review
<1>23. CASE \E o \in OrderIds, s \in SubIds : Complete(o, s) \/ AdminDeliver(o, s)
  BY <1>0, <1>2, <1>11, <1>15, <1>23 DEF Complete, AdminDeliver
<1>24. CASE \E o \in OrderIds : Expire(o) \/ AdminClose(o) \/ AdminRefund(o)
  BY <1>0, <1>2, <1>12, <1>13, <1>24 DEF Expire, AdminClose, AdminRefund
<1>25. CASE \E s \in SubIds : AdminInvalidate(s) \/ SubEnds(s)
  BY <1>0, <1>2, <1>14, <1>25 DEF AdminInvalidate, SubEnds
<1>26. CASE \E p \in Plans : AdminDeletePlan(p)
  BY <1>0, <1>2, <1>26 DEF AdminDeletePlan
<1> QED
  BY <1>16, <1>17, <1>18, <1>19, <1>20, <1>21, <1>22, <1>23, <1>24, <1>25, <1>26
  DEF Next, Notify
--------------------------------------------------------------------------------
(* The bill of an order says what the order says. *)
MirrorOf(st) == IF st \in DOMAIN BillOf THEN BillOf[st] ELSE "none"

(* What the payment of an order and its bill allow it to be. *)
Traced(o) ==
  /\ mirror[o] = MirrorOf(Status(o))
  /\ o \in told => Status(o) \in DOMAIN BillOf
  /\ o \in paid => Status(o) # "none"
  /\ orders[o].provider = "epay" /\ o \notin paid =>
       Status(o) \in {"none", "pending", "expired"}

(* What was delivered was delivered once, and its source is over. *)
Once(o) ==
  delivered[o] # {} =>
    /\ Status(o) \in {"success", "refunded"}
    /\ \E s \in SubIds : delivered[o] = {s}
    /\ orders[o].type = "upgrade" =>
         subs[orders[o].from].status \in {"cancelled", "expired"}

(* An upgrade is dearer than its source, whose plan never changes. *)
Dearer(o) ==
  orders[o].type = "upgrade" /\ Status(o) # "none" =>
    /\ orders[o].from \in SubIds /\ subs[orders[o].from].status # "none"
    /\ Price[orders[o].plan] > Price[subs[orders[o].from].plan]

(* The rows an upgrade has updated wait for it as they were. *)
Holding(x) ==
  \A o \in session[x].held : Status(o) = "pending"

(* No row is held by two requests. *)
Disjoint == \A x, y \in Sessions : x # y => session[x].held \cap session[y].held = {}

(* Two upgrades that delivered have two sources. *)
Unique ==
  \A o, q \in OrderIds :
    /\ orders[o].type = "upgrade" /\ delivered[o] # {}
    /\ orders[q].type = "upgrade" /\ delivered[q] # {}
    /\ orders[q].from = orders[o].from
    => q = o

(* A row that was not made is not charged, and a request makes it. *)
Blank(o) ==
  Status(o) = "none" => orders[o].charged = 0 /\ orders[o].provider = "epay"

(* What was delivered is a subscription. *)
Born(o) == \A s \in delivered[o] : subs[s].status # "none"

(* The inductive invariant. *)
IInv ==
  /\ TypeOK
  /\ \A o \in OrderIds : Traced(o) /\ Once(o) /\ Dearer(o)
  /\ \A o \in OrderIds : Blank(o) /\ Born(o)
  /\ \A x \in Sessions : Holding(x)
  /\ Disjoint
  /\ Unique
  /\ LimitKept
--------------------------------------------------------------------------------
(* What a step may do to the subscriptions: nothing, add a purchase that is *)
(* allowed, replace an active one by a dearer one, or end one.              *)
SubsMove ==
  \/ subs' = subs
  \/ \E p \in Plans, s \in SubIds :
       /\ NextSub(s) /\ PurchaseAllowed(p) /\ ~LimitReached(p)
       /\ subs' = Created(p, s, "order")
  \/ \E p \in Plans, s, from \in SubIds :
       /\ NextSub(s) /\ Active(from) /\ Price[p] > Price[subs[from].plan]
       /\ subs' = Upgraded(from, p, s)
  \/ \E s \in SubIds, end \in {"cancelled", "expired"} :
       /\ subs[s].status # "none"
       /\ subs' = [subs EXCEPT ![s].status = end]

(* No step does anything else to the subscriptions. *)
LEMMA SubsMoves ==
  ASSUME IInv, Next
  PROVE  SubsMove
<1>0. /\ orders \in [OrderIds -> Order] /\ subs \in [SubIds -> Sub]
      /\ session \in [Sessions -> Request]
      /\ \A o \in OrderIds : Dearer(o)
  BY Records DEF IInv
<1>1. ASSUME NEW o \in OrderIds, NEW s \in SubIds, NextSub(s), subs' = Produced(o, s),
             Status(o) # "none",
             IF orders[o].type = "upgrade" THEN Active(orders[o].from)
             ELSE PurchaseAllowed(orders[o].plan) /\ ~LimitReached(orders[o].plan)
      PROVE  SubsMove
  <2>1. orders[o].plan \in Plans
    BY <1>0 DEF Order
  <2>2. CASE orders[o].type = "upgrade"
    BY <1>0, <1>1, <2>1, <2>2 DEF SubsMove, Dearer, Produced
  <2>3. CASE orders[o].type # "upgrade"
    BY <1>1, <2>1, <2>3 DEF SubsMove, Produced
  <2> QED
    BY <2>2, <2>3
<1>2. CASE \E o \in OrderIds, p \in Plans, s \in SubIds :
             PurchaseWithBalance(o, p, s) \/ Redeem(o, p, s)
  BY <1>2 DEF PurchaseWithBalance, Redeem, SubsMove
<1>3. CASE \E o \in OrderIds, s \in SubIds : Complete(o, s) \/ AdminDeliver(o, s)
  <2>1. PICK o \in OrderIds, s \in SubIds : Complete(o, s) \/ AdminDeliver(o, s)
    BY <1>3
  <2>2. orders[o].type \in {"new", "upgrade"}
    BY <1>0 DEF Order
  <2>3. /\ NextSub(s) /\ subs' = Produced(o, s) /\ Status(o) # "none"
        /\ IF orders[o].type = "upgrade" THEN Active(orders[o].from)
           ELSE PurchaseAllowed(orders[o].plan) /\ ~LimitReached(orders[o].plan)
    BY <2>1, <2>2 DEF Complete, AdminDeliver, Undeliverable
  <2> QED
    BY <1>1, <2>3
<1>4. CASE \E x \in Sessions, w \in Worths, o \in OrderIds, s \in SubIds :
             UpgradeWithBalance(x, w, o, s)
  <2>1. PICK x \in Sessions, w \in Worths, o \in OrderIds, s \in SubIds :
          UpgradeWithBalance(x, w, o, s)
    BY <1>4
  <2>2. session[x].plan \in Plans
    BY <1>0 DEF Request
  <2> QED
    BY <2>1, <2>2 DEF UpgradeWithBalance, Upgradable, Active, SubsMove
<1>5. CASE \E o \in OrderIds : AdminRefund(o)
  BY <1>5 DEF AdminRefund, Active, SubsMove
<1>6. CASE \E s \in SubIds : AdminInvalidate(s) \/ SubEnds(s)
  BY <1>6 DEF AdminInvalidate, SubEnds, Active, SubsMove
<1>7. CASE UNCHANGED subs
  BY <1>7 DEF SubsMove
<1> QED
  BY <1>2, <1>3, <1>4, <1>5, <1>6, <1>7
  DEF Next, Notify, AskEpay, RequestEpay, BeginUpgrade, CreateUpgradeOrder, RollBack, Pay,
      AlreadyDone, Review, Expire, AdminClose, AdminDeletePlan

(* A subscription keeps its plan, and what is over stays over. *)
Lasting(q) ==
  subs[q].status # "none" =>
    /\ subs'[q].plan = subs[q].plan /\ subs'[q].source = subs[q].source
    /\ subs'[q].status # "none"
    /\ subs[q].status \in {"cancelled", "expired"} =>
         subs'[q].status \in {"cancelled", "expired"}

LEMMA SubsLast ==
  ASSUME TypeOK, SubsMove
  PROVE  \A q \in SubIds : Lasting(q)
<1>0. subs \in [SubIds -> Sub]
  BY Records
<1>1. CASE subs' = subs
  BY <1>1 DEF Lasting
<1>2. ASSUME NEW p \in Plans, NEW s \in SubIds, NextSub(s), subs' = Created(p, s, "order")
      PROVE  \A q \in SubIds : Lasting(q)
  BY <1>0, <1>2 DEF Lasting, Created, NextSub
<1>3. ASSUME NEW p \in Plans, NEW s \in SubIds, NEW from \in SubIds, NextSub(s),
             Active(from), subs' = Upgraded(from, p, s)
      PROVE  \A q \in SubIds : Lasting(q)
  <2>1. from # s
    BY <1>3 DEF Active, NextSub
  <2>2. /\ subs'[from] = [subs[from] EXCEPT !.status = "cancelled"]
        /\ \A q \in SubIds \ {s, from} : subs'[q] = subs[q]
    <3>1. /\ Upgraded(from, p, s)[from] = [subs[from] EXCEPT !.status = "cancelled"]
          /\ \A q \in SubIds \ {s, from} : Upgraded(from, p, s)[q] = subs[q]
      BY <1>0, <2>1 DEF Upgraded, Created, Sub
    <3> QED
      BY <1>3, <3>1
  <2>3. Lasting(from)
    BY <1>0, <1>3, <2>2 DEF Lasting, Active, Sub
  <2>4. Lasting(s)
    BY <1>3 DEF Lasting, NextSub
  <2> QED
    BY <2>2, <2>3, <2>4 DEF Lasting
<1>4. ASSUME NEW s \in SubIds, NEW end \in {"cancelled", "expired"},
             subs[s].status # "none", subs' = [subs EXCEPT ![s].status = end]
      PROVE  \A q \in SubIds : Lasting(q)
  BY <1>0, <1>4 DEF Lasting, Sub
<1> QED
  BY <1>1, <1>2, <1>3, <1>4 DEF SubsMove

(* The subscriptions of one plan are finitely many. *)
LEMMA NewFinite ==
  ASSUME NEW p
  PROVE  IsFiniteSet(New(p)) /\ Cardinality(New(p)) \in Nat
<1>1. IsFiniteSet(SubIds)
  BY OrdersAssumption, FS_Interval DEF SubIds
<1>2. New(p) \subseteq SubIds
  BY DEF New, Bought
<1> QED
  BY <1>1, <1>2, FS_Subset, FS_CardinalityType

(* The limit, under each move of the subscriptions. *)
LEMMA LimitStep ==
  ASSUME TypeOK, LimitKept, SubsMove
  PROVE  LimitKept'
<1>0. /\ subs \in [SubIds -> Sub] /\ Limit \in Nat
      /\ \A s \in SubIds : subs[s] \in Sub
  BY Records, OrdersAssumption
<1> SUFFICES ASSUME Limit > 0, NEW r \in Plans
             PROVE  Cardinality(New(r)') <= Limit
  BY DEF LimitKept
<1>1. Cardinality(New(r)) <= Limit /\ Cardinality(New(r)) \in Nat
  BY NewFinite DEF LimitKept
<1>2. CASE New(r)' = New(r)
  BY <1>1, <1>2
<1>3. CASE subs' = subs
  BY <1>2, <1>3 DEF New, Bought
<1>4. ASSUME NEW p \in Plans, NEW s \in SubIds, NextSub(s),
             ~LimitReached(p), subs' = Created(p, s, "order")
      PROVE  Cardinality(New(r)') <= Limit
  <2>1. /\ subs'[s] = [status |-> "active", plan |-> p, source |-> "order"]
        /\ \A q \in SubIds \ {s} : subs'[q] = subs[q]
        /\ subs[s].status = "none"
    BY <1>0, <1>4 DEF Created, NextSub
  <2>2. CASE r = p
    <3>1. New(r)' = New(r) \cup {s} /\ s \notin New(r)
      BY <1>0, <2>1, <2>2 DEF New, Bought
    <3>2. Cardinality(New(r)') = Cardinality(New(r)) + 1
      BY <3>1, NewFinite, FS_AddElement
    <3>3. Cardinality(New(r)) < Limit
      BY <1>0, <1>1, <1>4, <2>2 DEF LimitReached
    <3> QED
      BY <1>0, <1>1, <3>2, <3>3
  <2>3. CASE r # p
    BY <1>0, <1>2, <2>1, <2>3 DEF New, Bought
  <2> QED
    BY <2>2, <2>3
<1>5. ASSUME NEW p \in Plans, NEW s \in SubIds, NEW from \in SubIds, NextSub(s),
             Active(from), subs' = Upgraded(from, p, s)
      PROVE  New(r)' = New(r)
  <2>0. from # s /\ subs[s].status = "none" /\ subs[from].status = "active"
    BY <1>5 DEF Active, NextSub
  <2>1. /\ subs'[s] = [status |-> "active", plan |-> p, source |-> "upgrade"]
        /\ subs'[from] = [subs[from] EXCEPT !.status = "cancelled"]
        /\ \A q \in SubIds \ {s, from} : subs'[q] = subs[q]
    BY <1>0, <1>5, <2>0, SubsSet
  <2>2. /\ subs'[from].status = "cancelled" /\ subs'[from].plan = subs[from].plan
        /\ subs'[from].source = subs[from].source
    BY <1>0, <2>1 DEF Sub
  <2>3. New(r) \subseteq SubIds /\ New(r)' \subseteq SubIds
    BY DEF New, Bought
  <2>4. s \notin New(r) /\ s \notin New(r)'
    BY <2>0, <2>1 DEF New, Bought
  <2>5. from \in New(r) <=> from \in New(r)'
    BY <2>0, <2>2 DEF New, Bought
  <2>6. \A q \in SubIds \ {s, from} : q \in New(r) <=> q \in New(r)'
    BY <2>1 DEF New, Bought
  <2> QED
    BY <2>3, <2>4, <2>5, <2>6
<1>6. ASSUME NEW s \in SubIds, NEW end \in {"cancelled", "expired"},
             subs[s].status # "none", subs' = [subs EXCEPT ![s].status = end]
      PROVE  New(r)' = New(r)
  <2>1. /\ subs'[s].status = end /\ subs'[s].plan = subs[s].plan
        /\ subs'[s].source = subs[s].source
        /\ \A q \in SubIds \ {s} : subs'[q] = subs[q]
    BY <1>0, <1>6 DEF Sub
  <2> QED
    BY <1>6, <2>1 DEF New, Bought
<1> QED
  BY <1>2, <1>3, <1>4, <1>5, <1>6 DEF SubsMove

(* A plan is entered by a purchase that the guard allows, or by an upgrade. *)
LEMMA EnteredStep ==
  ASSUME TypeOK, SubsMove
  PROVE  PlanEntered
<1>0. /\ subs \in [SubIds -> Sub] /\ \A s \in SubIds : subs[s] \in Sub
  BY Records
<1> SUFFICES ASSUME NEW r \in Held' \ Held
             PROVE  Held = {} \/ \E s \in Actives \ Actives' :
                                   Price[subs[s].plan] < Price[r]
  BY DEF PlanEntered
<1>1. PICK n \in SubIds : subs'[n].status = "active" /\ subs'[n].plan = r
  BY DEF Held, Actives, Active
<1>2. ASSUME subs'[n] = subs[n]
      PROVE  FALSE
  BY <1>1, <1>2 DEF Held, Actives, Active
<1>3. CASE subs' = subs
  BY <1>2, <1>3
<1>4. ASSUME NEW p \in Plans, NEW s \in SubIds, PurchaseAllowed(p),
             subs' = Created(p, s, "order")
      PROVE  Held = {}
  <2>1. n = s /\ r = p
    BY <1>0, <1>1, <1>2, <1>4 DEF Created
  <2> QED
    BY <1>4, <2>1 DEF PurchaseAllowed, Held
<1>5. ASSUME NEW p \in Plans, NEW s \in SubIds, NEW from \in SubIds, NextSub(s),
             Active(from), Price[p] > Price[subs[from].plan], subs' = Upgraded(from, p, s)
      PROVE  \E t \in Actives \ Actives' : Price[subs[t].plan] < Price[r]
  <2>0. from # s
    BY <1>5 DEF Active, NextSub
  <2>1. /\ subs'[s] = [status |-> "active", plan |-> p, source |-> "upgrade"]
        /\ subs'[from] = [subs[from] EXCEPT !.status = "cancelled"]
        /\ \A q \in SubIds \ {s, from} : subs'[q] = subs[q]
    BY <1>0, <1>5, <2>0, SubsSet
  <2>2. subs'[from].status = "cancelled"
    BY <1>0, <2>1 DEF Sub
  <2>3. n = s /\ r = p
    <3>1. n # from
      BY <1>1, <2>2
    <3>2. n = s
      BY <1>2, <2>1, <3>1
    <3> QED
      BY <1>1, <2>1, <3>2
  <2>4. Price[subs[from].plan] \in Nat /\ Price[p] \in Nat
    BY <1>0, OrdersAssumption DEF Sub
  <2>5. from \in Actives \ Actives' /\ Price[subs[from].plan] < Price[r]
    BY <1>5, <2>2, <2>3, <2>4 DEF Actives, Active
  <2> QED
    BY <2>5
<1>6. ASSUME NEW s \in SubIds, NEW end \in {"cancelled", "expired"},
             subs' = [subs EXCEPT ![s].status = end]
      PROVE  FALSE
  BY <1>0, <1>1, <1>2, <1>6 DEF Sub
<1> QED
  BY <1>3, <1>4, <1>5, <1>6, <1>2 DEF SubsMove
--------------------------------------------------------------------------------
(* What a step may do to an order: nothing; make it, pending or delivered;   *)
(* deliver it; or change its status, with its bill.                          *)
Same(q) ==
  /\ orders'[q] = orders[q] /\ mirror'[q] = mirror[q] /\ delivered'[q] = delivered[q]

Made(q, st) ==
  /\ Status(q) = "none" /\ orders'[q].status = st
  /\ orders'[q].type = "upgrade" =>
       /\ Active(orders'[q].from)
       /\ Price[orders'[q].plan] > Price[subs[orders'[q].from].plan]

MadePending(q) ==
  /\ Made(q, "pending")
  /\ mirror'[q] = mirror[q] /\ delivered'[q] = delivered[q]

(* A delivered upgrade has used its source up. *)
Delivers(q) ==
  /\ mirror'[q] = "success"
  /\ \E s \in SubIds : delivered'[q] = delivered[q] \cup {s}
  /\ orders'[q].type = "upgrade" =>
       Active(orders'[q].from) /\ subs'[orders'[q].from].status = "cancelled"

MadeDelivered(q) ==
  Made(q, "success") /\ orders'[q].provider # "epay" /\ Delivers(q)

Delivered(q) ==
  /\ Moved(orders', q, "success") /\ Delivers(q)
  /\ \/ Status(q) = "pending" /\ q \in paid
     \/ Status(q) = "manual_review"

Changed(q) ==
  \E st \in Statuses :
    /\ \/ st = "manual_review" /\ Status(q) \in {"pending", "expired"} /\ q \in paid
       \/ st = "expired" /\ Status(q) = "pending"
       \/ st = "failed" /\ Status(q) = "manual_review"
       \/ st = "refunded" /\ Status(q) = "success"
    /\ orders'[q].status = st /\ orders'[q].type = orders[q].type
    /\ orders'[q].provider = orders[q].provider /\ orders'[q].plan = orders[q].plan
    /\ orders'[q].from = orders[q].from
    /\ mirror'[q] = IF st = "expired" THEN mirror[q] ELSE MirrorOf(st)
    /\ delivered'[q] = delivered[q]

OrderMove(q) ==
  Same(q) \/ MadePending(q) \/ MadeDelivered(q) \/ Delivered(q) \/ Changed(q)

(* What the bill of an order says, status by status. *)
LEMMA BillsAre ==
  /\ DOMAIN BillOf = {"success", "manual_review", "failed", "refunded"}
  /\ MirrorOf("success") = "success" /\ MirrorOf("manual_review") = "pending"
  /\ MirrorOf("failed") = "failed" /\ MirrorOf("refunded") = "refunded"
  /\ MirrorOf("none") = "none" /\ MirrorOf("pending") = "none" /\ MirrorOf("expired") = "none"
<1>1. DOMAIN BillOf = {"success", "manual_review", "failed", "refunded"}
  BY DEF BillOf
<1> QED
  BY <1>1 DEF MirrorOf, BillOf

(* No step does anything else to an order; several may move at once, when *)
(* an upgrade expires the rows it holds.                                   *)
LEMMA OrderMoves ==
  ASSUME IInv, Next
  PROVE  \A q \in OrderIds : OrderMove(q)
<1>0. /\ orders \in [OrderIds -> Order] /\ subs \in [SubIds -> Sub]
      /\ session \in [Sessions -> Request] /\ mirror \in MirrorType
      /\ delivered \in [OrderIds -> SUBSET SubIds]
      /\ \A x \in Sessions : Holding(x)
  BY Records DEF IInv, TypeOK, MirrorType
<1>1. ASSUME NEW x \in Sessions, NEW o \in OrderIds, RequestEpay(x, o)
      PROVE  \A q \in OrderIds : OrderMove(q)
  <2>1. /\ orders'[o].status = "pending" /\ orders'[o].type = "new"
        /\ \A q \in OrderIds \ {o} : orders'[q] = orders[q]
        /\ Status(o) = "none" /\ UNCHANGED <<mirror, delivered>>
    BY <1>0, <1>1, RecordTypes DEF RequestEpay, Absent, NextOrder
  <2> QED
    BY <2>1 DEF OrderMove, Same, MadePending, Made
<1>2. ASSUME NEW o \in OrderIds, NEW p \in Plans, NEW s \in SubIds,
             PurchaseWithBalance(o, p, s) \/ Redeem(o, p, s)
      PROVE  \A q \in OrderIds : OrderMove(q)
  <2>1. /\ orders'[o].status = "success" /\ orders'[o].type = "new"
        /\ orders'[o].provider # "epay"
        /\ \A q \in OrderIds \ {o} : orders'[q] = orders[q]
    <3>1. CASE PurchaseWithBalance(o, p, s)
      <4>1. orders' = [orders EXCEPT ![o] = [Absent EXCEPT !.status = "success",
                         !.provider = "balance", !.plan = p, !.charged = Price[p]]]
        BY <3>1 DEF PurchaseWithBalance
      <4> QED
        BY ONLY <1>0, <1>2, <4>1 DEF Absent
    <3>2. CASE Redeem(o, p, s)
      <4>1. orders' = [orders EXCEPT ![o] = [Absent EXCEPT !.status = "success",
                         !.provider = "redemption", !.plan = p, !.sub = s]]
        BY <3>2 DEF Redeem
      <4> QED
        BY ONLY <1>0, <1>2, <4>1 DEF Absent
    <3> QED
      BY <1>2, <3>1, <3>2
  <2>2. /\ Status(o) = "none"
        /\ mirror' = [mirror EXCEPT ![o] = "success"]
        /\ delivered' = [delivered EXCEPT ![o] = @ \cup {s}]
    BY <1>2 DEF PurchaseWithBalance, Redeem, NextOrder
  <2>3. /\ mirror'[o] = "success" /\ delivered'[o] = delivered[o] \cup {s}
        /\ \A q \in OrderIds \ {o} : mirror'[q] = mirror[q] /\ delivered'[q] = delivered[q]
    BY <1>0, <2>2 DEF MirrorType
  <2> QED
    BY <2>1, <2>2, <2>3 DEF OrderMove, Same, MadeDelivered, Made, Delivers
<1>3. ASSUME NEW x \in Sessions, NEW o \in OrderIds, NEW order, NEW q \in OrderIds \ {o},
             orders' = Replaced(x, o, order),
             mirror'[q] = mirror[q], delivered'[q] = delivered[q]
      PROVE  OrderMove(q)
  <2>1. CASE q \in session[x].held
    <3>1. orders'[q] = [orders[q] EXCEPT !.status = "expired"] /\ orders[q] \in Order
      BY <1>0, <1>3, <2>1 DEF Replaced
    <3>2. /\ orders'[q].status = "expired" /\ orders'[q].type = orders[q].type
          /\ orders'[q].provider = orders[q].provider /\ orders'[q].plan = orders[q].plan
          /\ orders'[q].from = orders[q].from
      BY <3>1 DEF Order
    <3>3. Status(q) = "pending" /\ "expired" \in Statuses
      BY <1>0, <2>1 DEF Holding, Statuses
    <3> QED
      BY <1>3, <3>2, <3>3 DEF OrderMove, Changed
  <2>2. CASE q \notin session[x].held
    <3>1. orders'[q] = orders[q]
      BY <1>0, <1>3, <2>2 DEF Replaced
    <3> QED
      BY <1>3, <3>1 DEF OrderMove, Same
  <2> QED
    BY <2>1, <2>2
<1>4. ASSUME NEW x \in Sessions, NEW w \in Worths, NEW o \in OrderIds, NEW s \in SubIds,
             UpgradeWithBalance(x, w, o, s)
      PROVE  \A q \in OrderIds : OrderMove(q)
  <2> DEFINE order == UpgradeOrder(x, w, "balance", "success", Due(x, w), s)
  <2>1. /\ orders' = Replaced(x, o, order) /\ orders'[o] = order
        /\ Status(o) = "none" /\ Active(session[x].from) /\ NextSub(s)
        /\ Price[session[x].plan] > Price[subs[session[x].from].plan]
        /\ subs' = Upgraded(session[x].from, session[x].plan, s)
    BY <1>4 DEF UpgradeWithBalance, Upgradable, NextOrder, Replaced
  <2>2. /\ order.status = "success" /\ order.type = "upgrade" /\ order.provider # "epay"
        /\ order.from = session[x].from /\ order.plan = session[x].plan
    BY DEF UpgradeOrder
  <2>3. /\ mirror'[o] = "success" /\ delivered'[o] = delivered[o] \cup {s}
        /\ \A q \in OrderIds \ {o} : mirror'[q] = mirror[q] /\ delivered'[q] = delivered[q]
    BY <1>0, <1>4 DEF UpgradeWithBalance, MirrorType
  <2>4. subs'[session[x].from].status = "cancelled"
    <3>1. /\ session[x].from \in SubIds /\ session[x].from # s
          /\ session[x].plan \in Plans
      BY <1>0, <2>1 DEF Active, NextSub, Request
    <3> QED
      BY <1>0, <2>1, <3>1 DEF Upgraded, Created, Sub
  <2> HIDE DEF order
  <2>5. OrderMove(o)
    BY <2>1, <2>2, <2>3, <2>4 DEF OrderMove, MadeDelivered, Made, Delivers
  <2> QED
    BY <1>3, <2>1, <2>3, <2>5
<1>5. ASSUME NEW x \in Sessions, NEW w \in Worths, NEW o \in OrderIds,
             CreateUpgradeOrder(x, w, o)
      PROVE  \A q \in OrderIds : OrderMove(q)
  <2> DEFINE order == UpgradeOrder(x, w, "epay", "pending", 0, 0)
  <2>1. /\ orders' = Replaced(x, o, order) /\ orders'[o] = order
        /\ Status(o) = "none" /\ Active(session[x].from)
        /\ Price[session[x].plan] > Price[subs[session[x].from].plan]
        /\ UNCHANGED <<mirror, delivered>>
    BY <1>5 DEF CreateUpgradeOrder, Upgradable, NextOrder, Replaced
  <2>2. /\ order.status = "pending" /\ order.type = "upgrade"
        /\ order.from = session[x].from /\ order.plan = session[x].plan
    BY DEF UpgradeOrder
  <2> HIDE DEF order
  <2>3. OrderMove(o)
    BY <2>1, <2>2 DEF OrderMove, MadePending, Made
  <2> QED
    BY <1>3, <2>1, <2>3
<1>6. ASSUME NEW o \in OrderIds, NEW s \in SubIds, Complete(o, s) \/ AdminDeliver(o, s)
      PROVE  \A q \in OrderIds : OrderMove(q)
  <2>1. Moved(orders', o, "success")
    <3>1. "success" \in Statuses /\ s \in {0} \cup SubIds
      BY DEF Statuses
    <3>2. /\ Moved([orders EXCEPT ![o].status = "success", ![o].sub = s], o, "success")
          /\ Moved([orders EXCEPT ![o].status = "success", ![o].sub = s, ![o].worth = -1],
                   o, "success")
      BY ONLY <1>0, <1>6, <3>1, OrderMoved
    <3> QED
      BY <1>6, <3>2 DEF Complete, AdminDeliver, Deliver
  <2>2. /\ mirror'[o] = "success" /\ delivered'[o] = delivered[o] \cup {s}
        /\ \A q \in OrderIds \ {o} : mirror'[q] = mirror[q] /\ delivered'[q] = delivered[q]
    BY <1>0, <1>6 DEF Complete, AdminDeliver, Deliver, MirrorType
  <2>3. /\ \/ Status(o) = "pending" /\ o \in paid
           \/ Status(o) = "manual_review"
        /\ NextSub(s) /\ subs' = Produced(o, s)
        /\ orders[o].type = "upgrade" => Active(orders[o].from)
    BY <1>6 DEF Complete, AdminDeliver, Callback, Undeliverable
  <2>4. orders[o].type = "upgrade" => subs'[orders[o].from].status = "cancelled"
    <3>1. ASSUME orders[o].type = "upgrade"
          PROVE  /\ orders[o].from \in SubIds /\ orders[o].from # s
                 /\ subs' = Upgraded(orders[o].from, orders[o].plan, s)
                 /\ orders[o].plan \in Plans
      BY <1>0, <2>3, <3>1 DEF Active, NextSub, Produced, Order
    <3> QED
      BY <1>0, <3>1 DEF Upgraded, Created, Sub
  <2>5. OrderMove(o)
    BY <2>1, <2>2, <2>3, <2>4 DEF OrderMove, Delivered, Delivers, Moved
  <2> QED
    BY <2>1, <2>2, <2>5, Zenon DEF OrderMove, Same, Moved
<1>7. ASSUME NEW o \in OrderIds, Review(o) \/ Expire(o) \/ AdminClose(o) \/ AdminRefund(o)
      PROVE  \A q \in OrderIds : OrderMove(q)
  <2>1. {"manual_review", "expired", "failed", "refunded"} \subseteq Statuses
        /\ 0 \in {0} \cup SubIds
    BY DEF Statuses
  <2>2. /\ Moved([orders EXCEPT ![o].status = "manual_review", ![o].worth = -1], o, "manual_review")
        /\ Moved([orders EXCEPT ![o].status = "expired"], o, "expired")
        /\ Moved([orders EXCEPT ![o].status = "failed"], o, "failed")
        /\ Moved([orders EXCEPT ![o].status = "refunded"], o, "refunded")
    BY ONLY <1>0, <1>7, <2>1, OrderMoved
  <2>3. PICK st \in {"manual_review", "expired", "failed", "refunded"} :
          /\ Moved(orders', o, st)
          /\ \/ st = "manual_review" /\ Status(o) \in {"pending", "expired"} /\ o \in paid
             \/ st = "expired" /\ Status(o) = "pending"
             \/ st = "failed" /\ Status(o) = "manual_review"
             \/ st = "refunded" /\ Status(o) = "success"
          /\ mirror'[o] = IF st = "expired" THEN mirror[o] ELSE MirrorOf(st)
          /\ \A q \in OrderIds \ {o} : mirror'[q] = mirror[q]
          /\ delivered' = delivered
    <3>1. CASE Review(o)
      BY <1>0, <2>2, <3>1, BillsAre DEF Review, Callback, MirrorType
    <3>2. CASE Expire(o)
      BY <1>0, <2>2, <3>2 DEF Expire
    <3>3. CASE AdminClose(o)
      BY <1>0, <2>2, <3>3, BillsAre DEF AdminClose, Settle, MirrorType
    <3>4. CASE AdminRefund(o)
      BY <1>0, <2>2, <3>4, BillsAre DEF AdminRefund, Refundable, Settle, MirrorType
    <3> QED
      BY <1>7, <3>1, <3>2, <3>3, <3>4
  <2>4. Changed(o)
    BY <2>1, <2>3 DEF Changed, Moved
  <2> QED
    BY <2>3, <2>4 DEF OrderMove, Same, Moved
<1>8. CASE UNCHANGED <<orders, mirror, delivered>>
  BY <1>8 DEF OrderMove, Same
<1> QED
  BY <1>1, <1>2, <1>4, <1>5, <1>6, <1>7, <1>8
  DEF Next, Notify, AskEpay, BeginUpgrade, RollBack, Pay, AlreadyDone, AdminInvalidate,
      SubEnds, AdminDeletePlan

(* The steps, by what they are about. *)
Requests ==
  \E x \in Sessions :
    \/ \E p \in Plans : AskEpay(x, p)
    \/ \E o \in OrderIds : RequestEpay(x, o)
    \/ \E kind \in {"balance", "epay"}, s \in SubIds, p \in Plans :
         BeginUpgrade(x, kind, s, p)
    \/ RollBack(x)
Upgrades ==
  \E x \in Sessions, w \in Worths, o \in OrderIds :
    \/ CreateUpgradeOrder(x, w, o)
    \/ \E s \in SubIds : UpgradeWithBalance(x, w, o, s)
Purchases ==
  \E o \in OrderIds, p \in Plans, s \in SubIds :
    PurchaseWithBalance(o, p, s) \/ Redeem(o, p, s)
Payments == \E o \in OrderIds : Pay(o) \/ Notify(o)
Administration ==
  \/ \E o \in OrderIds : \/ Expire(o) \/ AdminClose(o) \/ AdminRefund(o)
                        \/ \E s \in SubIds : AdminDeliver(o, s)
  \/ \E s \in SubIds : AdminInvalidate(s) \/ SubEnds(s)
  \/ \E p \in Plans : AdminDeletePlan(p)

(* Every step is one of these. *)
LEMMA Steps ==
  ASSUME Next
  PROVE  Requests \/ Upgrades \/ Purchases \/ Payments \/ Administration
BY DEF Next, Requests, Upgrades, Purchases, Payments, Administration

(* The order o produces the subscription s, which nothing was before. *)
Production(o, s) ==
  /\ delivered' = [delivered EXCEPT ![o] = @ \cup {s}]
  /\ NextSub(s) /\ subs'[s].status = "active"

(* What comes of an upgrade is active. *)
LEMMA UpgradedActive ==
  ASSUME subs \in [SubIds -> Sub], NEW s \in SubIds, NEW p \in Plans,
         NEW from \in SubIds, NextSub(s), Active(from)
  PROVE  Upgraded(from, p, s)[s].status = "active"
<1>1. from # s
  BY DEF Active, NextSub
<1>2. Created(p, s, "upgrade")[s].status = "active"
  BY DEF Created
<1> QED
  BY <1>1, <1>2 DEF Upgraded

LEMMA PurchaseProduces ==
  ASSUME TypeOK, NEW o \in OrderIds, NEW p \in Plans, NEW s \in SubIds,
         PurchaseWithBalance(o, p, s) \/ Redeem(o, p, s)
  PROVE  Production(o, s)
<1>1. Created(p, s, "order")[s].status = "active"
  BY Records DEF Created
<1> QED
  BY <1>1 DEF PurchaseWithBalance, Redeem, Production

LEMMA UpgradeProduces ==
  ASSUME TypeOK, NEW x \in Sessions, NEW w, NEW o \in OrderIds, NEW s \in SubIds,
         UpgradeWithBalance(x, w, o, s)
  PROVE  Production(o, s)
<1>1. /\ subs' = Upgraded(session[x].from, session[x].plan, s) /\ NextSub(s)
      /\ Active(session[x].from) /\ delivered' = [delivered EXCEPT ![o] = @ \cup {s}]
  BY DEF UpgradeWithBalance, Upgradable
<1>2. session[x].plan \in Plans /\ session[x].from \in SubIds /\ subs \in [SubIds -> Sub]
  BY <1>1, Records DEF Request, Active
<1>3. subs'[s].status = "active"
  BY <1>1, <1>2, UpgradedActive
<1> QED
  BY <1>1, <1>3 DEF Production

LEMMA DeliveryProduces ==
  ASSUME TypeOK, NEW o \in OrderIds, NEW s \in SubIds, Complete(o, s) \/ AdminDeliver(o, s)
  PROVE  Production(o, s)
<1>0. /\ orders[o] \in Order /\ orders[o].plan \in Plans
      /\ subs \in [SubIds -> Sub]
  BY Records DEF Order
<1>1. /\ subs' = Produced(o, s) /\ NextSub(s)
      /\ delivered' = [delivered EXCEPT ![o] = @ \cup {s}]
      /\ orders[o].type = "upgrade" => Active(orders[o].from)
  BY DEF Complete, AdminDeliver, Deliver, Undeliverable
<1>2. CASE orders[o].type = "upgrade"
  <2>1. orders[o].from \in SubIds
    BY <1>1, <1>2 DEF Active
  <2> QED
    BY <1>0, <1>1, <1>2, <2>1, UpgradedActive DEF Produced, Production
<1>3. CASE orders[o].type # "upgrade"
  BY <1>0, <1>1, <1>3 DEF Produced, Created, Production
<1> QED
  BY <1>2, <1>3

(* Only one order produces a subscription in a step. *)
LEMMA Productions ==
  ASSUME TypeOK, Next
  PROVE  delivered' = delivered \/ \E o \in OrderIds, s \in SubIds : Production(o, s)
<1>1. CASE Requests
  BY <1>1 DEF Requests, AskEpay, RequestEpay, BeginUpgrade, RollBack
<1>2. CASE Upgrades
  BY <1>2, UpgradeProduces DEF Upgrades, CreateUpgradeOrder
<1>3. CASE Purchases
  BY <1>3, PurchaseProduces DEF Purchases
<1>4. CASE Payments
  BY <1>4, DeliveryProduces DEF Payments, Notify, Pay, AlreadyDone, Review
<1>5. CASE Administration
  BY <1>5, DeliveryProduces
  DEF Administration, Expire, AdminClose, AdminRefund, Settle, AdminInvalidate,
      SubEnds, AdminDeletePlan
<1> QED
  BY <1>1, <1>2, <1>3, <1>4, <1>5, Steps

(* Payments are not forgotten; what becomes paid was waiting for it; what  *)
(* becomes told is settled.                                                *)
LEMMA PaidAndTold ==
  ASSUME IInv, Next
  PROVE  /\ paid \subseteq paid'
         /\ \A q \in paid' \ paid : Status(q) \in {"pending", "expired"} /\ orders' = orders
         /\ \A q \in told' \ told : orders'[q].status \in {"success", "manual_review"}
<1>0. orders \in [OrderIds -> Order]
  BY Records DEF IInv
<1>1. CASE \E o \in OrderIds : Pay(o)
  BY <1>1 DEF Pay
<1>2. CASE \E o \in OrderIds : AlreadyDone(o)
  BY <1>2 DEF AlreadyDone, Callback, Status
<1>3. CASE \E o \in OrderIds : Review(o) \/ \E s \in SubIds : Complete(o, s)
  <2>1. PICK o \in OrderIds : Review(o) \/ \E s \in SubIds : Complete(o, s)
    BY <1>3
  <2>2. paid' = paid /\ told' \subseteq told \cup {o}
    BY <2>1 DEF Review, Complete, Callback
  <2>3. orders'[o].status \in {"success", "manual_review"}
    <3>1. orders[o] \in Order
      BY <1>0
    <3>2. CASE Review(o)
      <4>1. orders' = [orders EXCEPT ![o].status = "manual_review", ![o].worth = -1]
        BY <3>2 DEF Review
      <4> QED
        BY ONLY <1>0, <2>1, <3>1, <4>1 DEF Order
    <3>3. ASSUME NEW s \in SubIds, Complete(o, s)
          PROVE  orders'[o].status = "success"
      <4>1. orders' = [orders EXCEPT ![o].status = "success", ![o].sub = s, ![o].worth = -1]
        BY <3>3 DEF Complete
      <4> QED
        BY ONLY <1>0, <2>1, <3>1, <4>1 DEF Order
    <3> QED
      BY <2>1, <3>2, <3>3
  <2> QED
    BY <2>2, <2>3
<1>4. CASE UNCHANGED <<paid, told>>
  BY <1>4
<1>5. CASE Requests
  BY <1>4, <1>5 DEF Requests, AskEpay, RequestEpay, BeginUpgrade, RollBack
<1>6. CASE Upgrades
  BY <1>4, <1>6 DEF Upgrades, CreateUpgradeOrder, UpgradeWithBalance
<1>7. CASE Purchases
  BY <1>4, <1>7 DEF Purchases, PurchaseWithBalance, Redeem
<1>8. CASE Payments
  BY <1>1, <1>2, <1>3, <1>8 DEF Payments, Notify
<1>9. CASE Administration
  BY <1>4, <1>9 DEF Administration, Expire, AdminClose, AdminRefund, AdminDeliver,
                    AdminInvalidate, SubEnds, AdminDeletePlan
<1> QED
  BY <1>5, <1>6, <1>7, <1>8, <1>9, Steps
--------------------------------------------------------------------------------
(* One request moves at a time; it ends, or takes rows nobody holds. *)
SessionMove ==
  \E x \in Sessions :
    /\ \A y \in Sessions \ {x} : session'[y] = session[y]
    /\ \/ session'[x] = session[x]
       \/ session'[x].held = {}
       \/ /\ orders' = orders
          /\ \A o \in session'[x].held : Status(o) = "pending" /\ ~Locked(o)

(* No step does anything else to the requests. *)
LEMMA SessionMoves ==
  ASSUME TypeOK, Next
  PROVE  session' = session \/ SessionMove
<1>0. session \in [Sessions -> Request] /\ Idle.held = {}
  BY Records, RecordTypes
<1>1. ASSUME NEW x \in Sessions, NEW r, r.held = {}, session' = [session EXCEPT ![x] = r]
      PROVE  SessionMove
  BY <1>0, <1>1 DEF SessionMove
<1>2. ASSUME NEW x \in Sessions, NEW p \in Plans, AskEpay(x, p)
      PROVE  SessionMove
  <2>1. [Idle EXCEPT !.kind = "new", !.plan = p].held = {}
    BY DEF Idle
  <2> QED
    BY <1>1, <1>2, <2>1 DEF AskEpay
<1>3. ASSUME NEW x \in Sessions, session' = [session EXCEPT ![x] = Idle]
      PROVE  SessionMove
  BY <1>0, <1>1, <1>3
<1>4. ASSUME NEW x \in Sessions, NEW kind \in {"balance", "epay"}, NEW s \in SubIds,
             NEW p \in Plans, BeginUpgrade(x, kind, s, p)
      PROVE  SessionMove
  <2> DEFINE pending == {o \in OrderIds : /\ Status(o) = "pending"
                                          /\ orders[o].type = "upgrade"
                                          /\ orders[o].from = s}
             request == [kind |-> kind, from |-> s, plan |-> p, held |-> pending]
  <2>1. /\ session' = [session EXCEPT ![x] = request] /\ orders' = orders
        /\ \A o \in pending : ~Locked(o)
    BY <1>4 DEF BeginUpgrade
  <2>2. \A o \in request.held : Status(o) = "pending" /\ ~Locked(o)
    BY <2>1
  <2> HIDE DEF request
  <2> QED
    BY <1>0, <2>1, <2>2 DEF SessionMove
<1>5. \/ session' = session
      \/ \E x \in Sessions : session' = [session EXCEPT ![x] = Idle]
      \/ \E x \in Sessions, p \in Plans : AskEpay(x, p)
      \/ \E x \in Sessions, kind \in {"balance", "epay"}, s \in SubIds, p \in Plans :
           BeginUpgrade(x, kind, s, p)
  <2>1. CASE Requests
    BY <2>1 DEF Requests, RequestEpay, RollBack
  <2>2. CASE Upgrades
    BY <2>2 DEF Upgrades, CreateUpgradeOrder, UpgradeWithBalance
  <2>3. CASE Purchases
    BY <2>3 DEF Purchases, PurchaseWithBalance, Redeem
  <2>4. CASE Payments
    BY <2>4 DEF Payments, Notify, Pay, AlreadyDone, Review, Complete
  <2>5. CASE Administration
    BY <2>5 DEF Administration, Expire, AdminClose, AdminRefund, AdminDeliver,
                AdminInvalidate, SubEnds, AdminDeletePlan
  <2> QED
    BY <2>1, <2>2, <2>3, <2>4, <2>5, Steps
<1> QED
  BY <1>2, <1>3, <1>4, <1>5

(* An order another request has updated is touched by nobody else. *)
LEMMA LockedKept ==
  ASSUME IInv, Next, NEW x \in Sessions, session'[x] = session[x],
         NEW q \in session[x].held
  PROVE  orders'[q] = orders[q]
<1>0. /\ orders \in [OrderIds -> Order] /\ session \in [Sessions -> Request]
      /\ Status(q) = "pending" /\ q \in OrderIds /\ Locked(q)
  <2>1. session \in [Sessions -> Request] /\ orders \in [OrderIds -> Order]
    BY Records DEF IInv
  <2> QED
    BY <2>1 DEF IInv, Holding, Locked, Request
<1>1. ASSUME NEW o \in OrderIds \ {q}, \E r : orders' = [orders EXCEPT ![o] = r]
      PROVE  orders'[q] = orders[q]
  BY <1>0, <1>1
<1>2. CASE \E o \in OrderIds :
             \/ \E y \in Sessions : RequestEpay(y, o)
             \/ \E p \in Plans, s \in SubIds : PurchaseWithBalance(o, p, s) \/ Redeem(o, p, s)
  BY <1>0, <1>1, <1>2, ZenonT(60) DEF RequestEpay, PurchaseWithBalance, Redeem, NextOrder
<1>3. ASSUME NEW y \in Sessions, NEW w \in Worths, NEW o \in OrderIds,
             \/ CreateUpgradeOrder(y, w, o)
             \/ \E s \in SubIds : UpgradeWithBalance(y, w, o, s)
      PROVE  orders'[q] = orders[q]
  <2>1. /\ session' = [session EXCEPT ![y] = Idle] /\ session[y].kind # "none"
        /\ Status(o) = "none" /\ \E r : orders' = Replaced(y, o, r)
    BY <1>3 DEF CreateUpgradeOrder, UpgradeWithBalance, NextOrder
  <2>2. x # y
    BY <1>0, <2>1, RecordTypes
  <2>3. q \notin session[y].held /\ q # o
    BY <1>0, <2>1, <2>2 DEF IInv, Disjoint
  <2> QED
    BY <1>0, <2>1, <2>3 DEF Replaced
<1>4. CASE \E o \in OrderIds : Review(o) \/ \E s \in SubIds : Complete(o, s)
  <2>1. PICK o \in OrderIds : Review(o) \/ \E s \in SubIds : Complete(o, s)
    BY <1>4
  <2>2. o # q
    BY <1>0, <2>1 DEF Review, Complete, Callback
  <2> QED
    BY <1>0, <2>1, <2>2 DEF Review, Complete
<1>5. CASE \E o \in OrderIds : \/ Expire(o) \/ AdminClose(o) \/ AdminRefund(o)
                               \/ \E s \in SubIds : AdminDeliver(o, s)
  <2>1. PICK o \in OrderIds : \/ Expire(o) \/ AdminClose(o) \/ AdminRefund(o)
                              \/ \E s \in SubIds : AdminDeliver(o, s)
    BY <1>5
  <2>2. o # q
    BY <1>0, <2>1 DEF Expire, AdminClose, AdminRefund, AdminDeliver, Refundable
  <2> QED
    BY <1>0, <2>1, <2>2 DEF Expire, AdminClose, AdminRefund, AdminDeliver, Settle, Deliver
<1>6. CASE UNCHANGED orders
  BY <1>6
<1> QED
  BY <1>2, <1>3, <1>4, <1>5, <1>6
  DEF Next, Notify, AskEpay, BeginUpgrade, RollBack, Pay, AlreadyDone, AdminInvalidate,
      SubEnds, AdminDeletePlan
--------------------------------------------------------------------------------
(* A bill follows its order, whatever the step does to it. *)
LEMMA TracedStep ==
  ASSUME IInv, Next, NEW q \in OrderIds
  PROVE  Traced(q)'
<1>1. Traced(q) /\ OrderMove(q)
  BY OrderMoves DEF IInv
<1>2. /\ q \in paid => q \in paid'
      /\ q \in paid' /\ q \notin paid =>
           Status(q) \in {"pending", "expired"} /\ orders'[q] = orders[q]
      /\ q \in told' /\ q \notin told => orders'[q].status \in {"success", "manual_review"}
  BY PaidAndTold
<1> DEFINE Fine ==
      /\ mirror'[q] = MirrorOf(orders'[q].status)
      /\ q \in told' => orders'[q].status \in DOMAIN BillOf
      /\ q \in paid' => orders'[q].status # "none"
      /\ orders'[q].provider = "epay" /\ q \notin paid' =>
           orders'[q].status \in {"none", "pending", "expired"}
<1>3. SUFFICES Fine
  BY DEF Traced, Status, MirrorOf, BillOf
<1>4. CASE Same(q)
  BY <1>1, <1>2, <1>4, BillsAre DEF Same, Traced, Status
<1>5. CASE MadePending(q)
  BY <1>1, <1>2, <1>5, BillsAre DEF MadePending, Made, Traced
<1>6. CASE MadeDelivered(q)
  BY <1>1, <1>2, <1>6, BillsAre DEF MadeDelivered, Made, Delivers, Traced
<1>7. CASE Delivered(q)
  BY <1>1, <1>2, <1>7, BillsAre DEF Delivered, Moved, Delivers, Traced, Status
<1>8. CASE Changed(q)
  BY <1>1, <1>2, <1>8, BillsAre DEF Changed, Traced, Status
<1> QED
  BY <1>1, <1>4, <1>5, <1>6, <1>7, <1>8 DEF OrderMove

(* What an order has delivered is not delivered again. *)
LEMMA OnceStep ==
  ASSUME IInv, Next, NEW q \in OrderIds
  PROVE  Once(q)'
<1>1. /\ Once(q) /\ OrderMove(q) /\ Dearer(q)
      /\ orders[q] \in Order /\ \A s \in SubIds : Lasting(s)
  BY OrderMoves, SubsMoves, SubsLast, Records DEF IInv
<1> DEFINE Fine ==
      delivered'[q] # {} =>
        /\ orders'[q].status \in {"success", "refunded"}
        /\ \E s \in SubIds : delivered'[q] = {s}
        /\ orders'[q].type = "upgrade" =>
             subs'[orders'[q].from].status \in {"cancelled", "expired"}
<1>2. SUFFICES Fine
  BY DEF Once, Status
<1>3. delivered[q] # {} /\ orders[q].type = "upgrade" =>
        subs'[orders[q].from].status \in {"cancelled", "expired"}
  BY <1>1 DEF Once, Dearer, Lasting
<1>4. CASE Same(q)
  BY <1>1, <1>3, <1>4 DEF Same, Once, Status
<1>5. CASE MadePending(q)
  BY <1>1, <1>5 DEF MadePending, Made, Once
<1>6. CASE MadeDelivered(q)
  BY <1>1, <1>6 DEF MadeDelivered, Made, Delivers, Once
<1>7. CASE Delivered(q)
  BY <1>1, <1>7 DEF Delivered, Moved, Delivers, Once
<1>8. CASE Changed(q)
  BY <1>1, <1>3, <1>8 DEF Changed, Once
<1> QED
  BY <1>1, <1>4, <1>5, <1>6, <1>7, <1>8 DEF OrderMove

(* An upgrade stays dearer than its source. *)
LEMMA DearerStep ==
  ASSUME IInv, Next, NEW q \in OrderIds
  PROVE  Dearer(q)'
<1>1. Dearer(q) /\ OrderMove(q) /\ \A s \in SubIds : Lasting(s)
  BY OrderMoves, SubsMoves, SubsLast DEF IInv
<1> DEFINE Fine ==
      orders'[q].type = "upgrade" /\ orders'[q].status # "none" =>
        /\ orders'[q].from \in SubIds /\ subs'[orders'[q].from].status # "none"
        /\ Price[orders'[q].plan] > Price[subs'[orders'[q].from].plan]
<1>2. SUFFICES Fine
  BY DEF Dearer, Status
<1>3. CASE Same(q)
  BY <1>1, <1>3 DEF Same, Dearer, Lasting, Status
<1>4. CASE MadePending(q) \/ MadeDelivered(q)
  <2>1. Made(q, "pending") \/ Made(q, "success")
    BY <1>4 DEF MadePending, MadeDelivered
  <2> QED
    BY <1>1, <2>1 DEF Made, Active, Lasting
<1>5. CASE Delivered(q) \/ Changed(q)
  <2>1. /\ Status(q) # "none" /\ orders'[q].type = orders[q].type
        /\ orders'[q].plan = orders[q].plan /\ orders'[q].from = orders[q].from
    BY <1>5 DEF Delivered, Changed, Moved
  <2> QED
    BY <1>1, <2>1 DEF Dearer, Lasting
<1> QED
  BY <1>1, <1>3, <1>4, <1>5 DEF OrderMove

(* A row that is still to be made stays blank. *)
LEMMA BlankStep ==
  ASSUME IInv, Next, NEW q \in OrderIds
  PROVE  Blank(q)'
<1>1. OrderMove(q) /\ Blank(q)
  BY OrderMoves DEF IInv
<1> QED
  BY <1>1 DEF OrderMove, Same, MadePending, MadeDelivered, Made, Delivered, Moved, Changed,
              Blank, Status

(* A delivered subscription may end, and does not vanish. *)
LEMMA BornStep ==
  ASSUME IInv, Next, NEW q \in OrderIds
  PROVE  Born(q)'
<1>1. /\ delivered \in [OrderIds -> SUBSET SubIds] /\ Born(q)
      /\ \A s \in SubIds : Lasting(s)
  BY SubsMoves, SubsLast DEF IInv, TypeOK
<1>2. delivered' = delivered \/ \E o \in OrderIds, s \in SubIds : Production(o, s)
  BY Productions DEF IInv
<1>3. \A s \in delivered'[q] : s \in delivered[q] \/ subs'[s].status = "active"
  BY <1>1, <1>2 DEF Production
<1> QED
  BY <1>1, <1>3 DEF Born, Lasting

(* The rows of a request stay pending until it commits, and its own. *)
LEMMA HoldingStep ==
  ASSUME IInv, Next
  PROVE  /\ \A x \in Sessions : Holding(x)'
         /\ Disjoint'
<1>0. \A x \in Sessions : Holding(x)
  BY DEF IInv
<1>1. ASSUME NEW x \in Sessions, session'[x] = session[x]
      PROVE  Holding(x)'
  BY <1>0, <1>1, LockedKept DEF Holding, Status
<1>2. CASE session' = session
  BY <1>1, <1>2 DEF IInv, Disjoint
<1>3. CASE SessionMove
  <2>1. PICK x \in Sessions :
          /\ \A y \in Sessions \ {x} : session'[y] = session[y]
          /\ \/ session'[x] = session[x]
             \/ session'[x].held = {}
             \/ /\ orders' = orders
                /\ \A o \in session'[x].held : Status(o) = "pending" /\ ~Locked(o)
    BY <1>3 DEF SessionMove
  <2>2. Holding(x)'
    BY <1>1, <2>1 DEF Holding, Status
  <2>3. \A y \in Sessions \ {x} : session'[x].held \cap session'[y].held = {}
    BY <2>1 DEF IInv, Disjoint, Locked
  <2>4. \A y, z \in Sessions \ {x} : y # z => session'[y].held \cap session'[z].held = {}
    BY <2>1 DEF IInv, Disjoint
  <2> QED
    BY <1>1, <2>1, <2>2, <2>3, <2>4 DEF Disjoint
<1> QED
  BY <1>2, <1>3, SessionMoves DEF IInv

(* A second order of the same source finds it over when it would deliver. *)
LEMMA UniqueStep ==
  ASSUME IInv, Next
  PROVE  Unique'
<1>0. \A q \in OrderIds : Once(q) /\ Dearer(q) /\ OrderMove(q)
  BY OrderMoves DEF IInv
<1>1. ASSUME NEW q \in OrderIds, delivered'[q] = delivered[q], delivered'[q] # {}
      PROVE  /\ orders'[q].type = orders[q].type /\ orders'[q].from = orders[q].from
             /\ orders[q].type = "upgrade" => ~Active(orders[q].from)
  <2>1. Status(q) \in {"success", "refunded"}
    BY <1>0, <1>1 DEF Once
  <2>2. Same(q) \/ Changed(q)
    BY <1>0, <2>1 DEF OrderMove, MadePending, MadeDelivered, Made, Delivered
  <2>3. orders'[q].type = orders[q].type /\ orders'[q].from = orders[q].from
    BY <2>2 DEF Same, Changed
  <2> QED
    BY <1>0, <1>1, <2>3 DEF Once, Active
<1>2. ASSUME NEW q \in OrderIds, delivered'[q] # delivered[q], orders'[q].type = "upgrade"
      PROVE  Active(orders'[q].from)
  BY <1>0, <1>2 DEF OrderMove, Same, MadePending, MadeDelivered, Delivered, Changed, Delivers
<1>3. ASSUME NEW o \in OrderIds, NEW q \in OrderIds, o # q,
             orders'[o].type = "upgrade", delivered'[o] # {},
             orders'[q].type = "upgrade", delivered'[q] # {},
             orders'[q].from = orders'[o].from
      PROVE  FALSE
  <2>1. delivered'[o] = delivered[o] \/ delivered'[q] = delivered[q]
    <3>1. delivered \in [OrderIds -> SUBSET SubIds]
      BY DEF IInv, TypeOK
    <3>2. delivered' = delivered \/ \E u \in OrderIds, z \in SubIds : Production(u, z)
      BY <1>3, Productions DEF IInv
    <3> QED
      BY <1>3, <3>1, <3>2 DEF Production
  <2>2. CASE delivered'[o] = delivered[o] /\ delivered'[q] = delivered[q]
    <3>1. /\ orders[o].type = "upgrade" /\ orders[q].type = "upgrade"
          /\ orders[q].from = orders[o].from
      BY <1>1, <1>3, <2>2
    <3> QED
      BY <1>3, <2>2, <3>1 DEF IInv, Unique
  <2>3. CASE delivered'[o] # delivered[o]
    BY <1>1, <1>2, <1>3, <2>1, <2>3
  <2>4. CASE delivered'[q] # delivered[q]
    BY <1>1, <1>2, <1>3, <2>1, <2>4
  <2> QED
    BY <2>2, <2>3, <2>4
<1> QED
  BY <1>3 DEF Unique
--------------------------------------------------------------------------------
(* The first state satisfies the invariant: no order, no subscription. *)
LEMMA InitInv ==
  ASSUME Init
  PROVE  IInv
<1>1. TypeOK
  BY RecordTypes, OrdersAssumption DEF Init, TypeOK, Order, Sub, Request
<1>2. /\ \A o \in OrderIds : /\ Status(o) = "none" /\ orders[o].type = "new"
                            /\ mirror[o] = "none" /\ delivered[o] = {}
      /\ \A x \in Sessions : session[x].held = {}
      /\ \A s \in SubIds : subs[s].status = "none"
      /\ paid = {} /\ told = {}
  BY RecordTypes DEF Init, Status
<1>3. \A o \in OrderIds : Traced(o) /\ Once(o) /\ Dearer(o)
  BY <1>2, BillsAre DEF Traced, Once, Dearer
<1>4. LimitKept
  <2>1. \A p \in Plans : New(p) = {}
    BY <1>2 DEF New, Bought
  <2> QED
    BY <2>1, FS_EmptySet, OrdersAssumption DEF LimitKept
<1>5. \A o \in OrderIds : Blank(o) /\ Born(o)
  BY <1>2, RecordTypes DEF Init, Blank, Born
<1> QED
  BY <1>1, <1>2, <1>3, <1>4, <1>5 DEF IInv, Holding, Disjoint, Unique

(* Every step keeps the invariant. *)
LEMMA Inductive ==
  ASSUME IInv, [Next]_vars
  PROVE  IInv'
<1>1. CASE Next
  <2>1. TypeOK'
    BY <1>1, TypeStep DEF IInv
  <2>2. LimitKept'
    BY <1>1, SubsMoves, LimitStep DEF IInv
  <2>3. \A o \in OrderIds : Traced(o)' /\ Once(o)' /\ Dearer(o)'
    BY <1>1, TracedStep, OnceStep, DearerStep
  <2>4. \A o \in OrderIds : Blank(o)' /\ Born(o)'
    BY <1>1, BlankStep, BornStep
  <2> QED
    BY <1>1, <2>1, <2>2, <2>3, <2>4, HoldingStep, UniqueStep DEF IInv
<1>2. CASE UNCHANGED vars
  <2>1. TypeOK'
    BY <1>2 DEF vars, IInv, TypeOK
  <2>2. \A o \in OrderIds : Traced(o)' /\ Once(o)' /\ Dearer(o)'
    BY <1>2 DEF vars, IInv, Traced, Once, Dearer, Status
  <2>3. (\A x \in Sessions : Holding(x)') /\ Disjoint'
    BY <1>2 DEF vars, IInv, Holding, Disjoint, Status
  <2>4. Unique'
    BY <1>2 DEF vars, IInv, Unique
  <2>5. LimitKept'
    <3>1. LimitKept' = LimitKept
      BY <1>2 DEF vars, LimitKept, New, Bought
    <3> QED
      BY <3>1 DEF IInv
  <2>6. \A o \in OrderIds : Blank(o)' /\ Born(o)'
    BY <1>2 DEF vars, IInv, Blank, Born, Status
  <2> QED
    BY <2>1, <2>2, <2>3, <2>4, <2>5, <2>6 DEF IInv
<1> QED
  BY <1>1, <1>2

(* The invariant holds throughout. *)
LEMMA Invariant == Spec => []IInv
<1>1. Init => IInv
  BY InitInv
<1>2. IInv /\ [Next]_vars => IInv'
  BY Inductive
<1> QED
  BY <1>1, <1>2, PTL DEF Spec
--------------------------------------------------------------------------------
(* What an order's statuses mean to the promise. *)
LEMMA PhasesAre ==
  /\ PhaseOf["none"] = "open" /\ PhaseOf["pending"] = "open" /\ PhaseOf["expired"] = "open"
  /\ PhaseOf["success"] = "delivered" /\ PhaseOf["manual_review"] = "review"
  /\ PhaseOf["failed"] = "closed" /\ PhaseOf["refunded"] = "refunded"
BY DEF PhaseOf

(* A step that moves the order o from the status a to b, from the provider  *)
(* p to r, and of the others only pending ones, which expire.               *)
Goes(o, a, b, p, r) ==
  /\ Status(o) = a /\ orders'[o].status = b
  /\ orders[o].provider = p /\ orders'[o].provider = r
  /\ \A q \in OrderIds \ {o} :
       \/ orders'[q] = orders[q]
       \/ /\ Status(q) = "pending" /\ orders'[q].status = "expired"
          /\ orders'[q].provider = orders[q].provider

(* What it means for the promise. *)
LEMMA GoesPhase ==
  ASSUME NEW o \in OrderIds, NEW a, NEW b, NEW p, NEW r, Goes(o, a, b, p, r)
  PROVE  /\ Phases[o] = PhaseOf[a]
         /\ Phases' = [Phases EXCEPT ![o] = PhaseOf[b]]
         /\ p = r => (paid' = paid => PaidFor' = PaidFor)
         /\ p = "epay" /\ r # "epay" => (paid' = paid => PaidFor' = PaidFor \cup {o})
<1>1. \A q \in OrderIds \ {o} : /\ PhaseOf[orders'[q].status] = PhaseOf[Status(q)]
                              /\ orders'[q].provider = orders[q].provider
  BY PhasesAre DEF Goes, Status
<1>2. Phases' = [Phases EXCEPT ![o] = PhaseOf[b]]
  BY <1>1 DEF Goes, Phases, Status
<1> QED
  BY <1>1, <1>2 DEF Goes, Phases, PaidFor

(* A step that leaves every order as far as it was, as a request or the     *)
(* expiry of an order does.                                                 *)
LEMMA Stutters ==
  ASSUME NEW o \in OrderIds, NEW a, NEW b, NEW p, Goes(o, a, b, p, p),
         PhaseOf[a] = PhaseOf[b], UNCHANGED <<paid, delivered>>
  PROVE  UNCHANGED Promised!vars
<1>1. Phases' = [Phases EXCEPT ![o] = PhaseOf[b]] /\ Phases[o] = PhaseOf[b]
      /\ PaidFor' = PaidFor
  BY GoesPhase
<1>2. Phases' = Phases
  BY <1>1 DEF Phases
<1> QED
  BY <1>1, <1>2 DEF Promised!vars

(* What a production is, for an order that has produced nothing. *)
LEMMA ProductionIs ==
  ASSUME IInv, NEW o \in OrderIds, NEW s \in SubIds, Production(o, s),
         Status(o) \notin {"success", "refunded"}
  PROVE  Promised!Produce(o, s)
<1>1. delivered \in [OrderIds -> SUBSET SubIds] /\ delivered[o] = {}
  BY DEF IInv, TypeOK, Once
<1>2. \A q \in OrderIds : s \notin delivered[q]
  BY DEF IInv, Born, Production, NextSub
<1>3. delivered' = [delivered EXCEPT ![o] = {s}]
  BY <1>1 DEF Production
<1> QED
  BY <1>1, <1>2, <1>3 DEF Promised!Produce

(* A purchase or an upgrade from the balance, and a redeemed code. *)
LEMMA PurchaseIs ==
  ASSUME IInv, NEW o \in OrderIds, NEW s \in SubIds, NEW r, r # "epay",
         Goes(o, "none", "success", "epay", r), Production(o, s), UNCHANGED paid
  PROVE  Promised!Purchase(o, s)
<1>1. /\ Phases[o] = "open" /\ Phases' = [Phases EXCEPT ![o] = "delivered"]
      /\ PaidFor' = PaidFor \cup {o}
  BY GoesPhase, PhasesAre
<1>2. o \notin PaidFor
  BY DEF PaidFor, IInv, Traced, Goes
<1>3. Promised!Produce(o, s)
  BY ProductionIs DEF Goes
<1> QED
  BY <1>1, <1>2, <1>3 DEF Promised!Purchase, Promised!Advance

(* What has left the gateway for an administrator has been paid. *)
LEMMA ReviewedIsPaid ==
  ASSUME IInv, NEW o \in OrderIds, Status(o) = "manual_review"
  PROVE  o \in PaidFor
<1>1. Traced(o)
  BY DEF IInv
<1> QED
  BY <1>1 DEF PaidFor, Traced

(* Each step is one of the promise, or none. *)
LEMMA PromiseStep ==
  ASSUME IInv, Next
  PROVE  [Promised!Next]_(Promised!vars)
<1>0. /\ orders \in [OrderIds -> Order] /\ session \in [Sessions -> Request]
      /\ \A o \in OrderIds : orders[o] \in Order /\ Blank(o)
      /\ \A x \in Sessions : Holding(x)
  BY Records DEF IInv
<1>1. ASSUME NEW o \in OrderIds, NEW order, orders' = [orders EXCEPT ![o] = order]
      PROVE  Goes(o, Status(o), order.status, orders[o].provider, order.provider)
  BY <1>0, <1>1 DEF Goes, Status
<1>2. ASSUME NEW x \in Sessions, NEW o \in OrderIds, NEW order, orders' = Replaced(x, o, order)
      PROVE  Goes(o, Status(o), order.status, orders[o].provider, order.provider)
  <2>1. ASSUME NEW q \in OrderIds \ {o}
        PROVE  \/ orders'[q] = orders[q]
               \/ /\ Status(q) = "pending" /\ orders'[q].status = "expired"
                  /\ orders'[q].provider = orders[q].provider
    <3>1. orders'[q] = IF q \in session[x].held
                       THEN [orders[q] EXCEPT !.status = "expired"] ELSE orders[q]
      BY <1>2 DEF Replaced
    <3> QED
      BY <1>0, <3>1 DEF Holding, Order
  <2>2. orders'[o] = order
    BY <1>2 DEF Replaced
  <2> QED
    BY <2>1, <2>2 DEF Goes, Status
<1>3. ASSUME NEW o \in OrderIds, NextOrder(o)
      PROVE  Status(o) = "none" /\ orders[o].provider = "epay"
  BY <1>0, <1>3 DEF NextOrder, Blank
<1>4. ASSUME NEW o \in OrderIds, NEW st, NEW s,
             \/ orders' = [orders EXCEPT ![o].status = st]
             \/ orders' = [orders EXCEPT ![o].status = st, ![o].sub = s]
             \/ orders' = [orders EXCEPT ![o].status = st, ![o].worth = -1]
             \/ orders' = [orders EXCEPT ![o].status = st, ![o].sub = s, ![o].worth = -1]
      PROVE  Goes(o, Status(o), st, orders[o].provider, orders[o].provider)
  <2>1. /\ orders'[o].status = st /\ orders'[o].provider = orders[o].provider
        /\ \A q \in OrderIds \ {o} : orders'[q] = orders[q]
    BY ONLY <1>0, <1>4 DEF Order
  <2> QED
    BY <2>1 DEF Goes
<1>5. CASE UNCHANGED <<orders, paid, delivered>>
  BY <1>5 DEF Promised!vars, Phases, PaidFor, Status
<1>6. CASE Requests
  <2>1. ASSUME NEW x \in Sessions, NEW o \in OrderIds, RequestEpay(x, o)
        PROVE  UNCHANGED Promised!vars
    <3> DEFINE order == [Absent EXCEPT !.status = "pending", !.plan = session[x].plan]
    <3>1. order.status = "pending" /\ order.provider = "epay"
      BY DEF Absent
    <3>2. orders' = [orders EXCEPT ![o] = order] /\ NextOrder(o) /\ UNCHANGED <<paid, delivered>>
      BY <2>1 DEF RequestEpay
    <3> HIDE DEF order
    <3>3. Goes(o, "none", "pending", "epay", "epay")
      BY <1>1, <1>3, <3>1, <3>2
    <3> QED
      BY <3>2, <3>3, Stutters, PhasesAre
  <2> QED
    BY <1>5, <1>6, <2>1 DEF Requests, AskEpay, BeginUpgrade, RollBack
<1>7. CASE Upgrades
  <2>1. ASSUME NEW x \in Sessions, NEW w \in Worths, NEW o \in OrderIds,
               CreateUpgradeOrder(x, w, o)
        PROVE  UNCHANGED Promised!vars
    <3> DEFINE order == UpgradeOrder(x, w, "epay", "pending", 0, 0)
    <3>1. order.status = "pending" /\ order.provider = "epay"
      BY DEF UpgradeOrder
    <3>2. orders' = Replaced(x, o, order) /\ NextOrder(o) /\ UNCHANGED <<paid, delivered>>
      BY <2>1 DEF CreateUpgradeOrder
    <3> HIDE DEF order
    <3>3. Goes(o, "none", "pending", "epay", "epay")
      BY <1>2, <1>3, <3>1, <3>2
    <3> QED
      BY <3>2, <3>3, Stutters, PhasesAre
  <2>2. ASSUME NEW x \in Sessions, NEW w \in Worths, NEW o \in OrderIds, NEW s \in SubIds,
               UpgradeWithBalance(x, w, o, s), Production(o, s)
        PROVE  Promised!Purchase(o, s)
    <3> DEFINE order == UpgradeOrder(x, w, "balance", "success", Due(x, w), s)
    <3>1. order.status = "success" /\ order.provider = "balance"
      BY DEF UpgradeOrder
    <3>2. orders' = Replaced(x, o, order) /\ NextOrder(o) /\ UNCHANGED paid
      BY <2>2 DEF UpgradeWithBalance
    <3> HIDE DEF order
    <3>3. Goes(o, "none", "success", "epay", "balance")
      BY <1>2, <1>3, <3>1, <3>2
    <3> QED
      BY <2>2, <3>2, <3>3, PurchaseIs
  <2> QED
    BY <1>7, <2>1, <2>2, UpgradeProduces DEF Upgrades, Promised!Next, IInv
<1>8. CASE Purchases
  <2>1. PICK o \in OrderIds, p \in Plans, s \in SubIds :
          PurchaseWithBalance(o, p, s) \/ Redeem(o, p, s)
    BY <1>8 DEF Purchases
  <2> DEFINE bought == [Absent EXCEPT !.status = "success", !.provider = "balance",
                                      !.plan = p, !.charged = Price[p]]
             redeemed == [Absent EXCEPT !.status = "success", !.provider = "redemption",
                                        !.plan = p, !.sub = s]
  <2>2. /\ bought.status = "success" /\ bought.provider = "balance"
        /\ redeemed.status = "success" /\ redeemed.provider = "redemption"
    BY DEF Absent
  <2>3. /\ orders' = [orders EXCEPT ![o] = bought] \/ orders' = [orders EXCEPT ![o] = redeemed]
        /\ NextOrder(o) /\ UNCHANGED paid
    BY <2>1 DEF PurchaseWithBalance, Redeem
  <2> HIDE DEF bought, redeemed
  <2>4. \E r \in {"balance", "redemption"} : Goes(o, "none", "success", "epay", r)
    BY <1>1, <1>3, <2>2, <2>3
  <2>5. Production(o, s)
    BY <2>1, PurchaseProduces DEF IInv
  <2> QED
    BY <2>3, <2>4, <2>5, PurchaseIs DEF Promised!Next
<1>9. ASSUME NEW o \in OrderIds, NEW s \in SubIds, Complete(o, s) \/ AdminDeliver(o, s)
      PROVE  Promised!Deliver(o, s)
  <2>1. /\ Status(o) \in {"pending", "manual_review"} /\ o \in PaidFor
        /\ UNCHANGED paid /\ Production(o, s)
    BY <1>9, DeliveryProduces, ReviewedIsPaid
    DEF Complete, Callback, AdminDeliver, PaidFor, IInv
  <2>2. Goes(o, Status(o), "success", orders[o].provider, orders[o].provider)
    BY <1>4, <1>9 DEF Complete, AdminDeliver, Deliver
  <2>3. /\ Phases[o] = PhaseOf[Status(o)] /\ Phases' = [Phases EXCEPT ![o] = "delivered"]
        /\ PaidFor' = PaidFor
    BY <2>1, <2>2, GoesPhase, PhasesAre
  <2>4. Promised!Produce(o, s)
    BY <2>1, ProductionIs
  <2> QED
    BY <2>1, <2>3, <2>4, PhasesAre DEF Promised!Deliver, Promised!Advance
<1>10. CASE Payments
  <2>1. ASSUME NEW o \in OrderIds, Pay(o)
        PROVE  Promised!Pay(o)
    <3>1. Status(o) \in {"pending", "expired"} /\ orders[o].provider = "epay" /\ o \notin paid
      BY <2>1 DEF Pay
    <3>2. PaidFor' = PaidFor \cup {o} /\ Phases' = Phases /\ delivered' = delivered
      BY <2>1 DEF Pay, PaidFor, Phases, Status
    <3>3. Phases[o] = "open" /\ o \notin PaidFor
      BY <3>1, PhasesAre DEF Phases, PaidFor
    <3> QED
      BY <3>2, <3>3 DEF Promised!Pay
  <2>2. ASSUME NEW o \in OrderIds, Review(o)
        PROVE  Promised!Review(o)
    <3>1. /\ Status(o) \in {"pending", "expired"} /\ o \in PaidFor
          /\ UNCHANGED <<paid, delivered>>
      BY <2>2 DEF Review, Callback, PaidFor
    <3>2. Goes(o, Status(o), "manual_review", orders[o].provider, orders[o].provider)
      BY <1>4, <2>2 DEF Review
    <3>3. /\ Phases[o] = PhaseOf[Status(o)] /\ Phases' = [Phases EXCEPT ![o] = "review"]
          /\ PaidFor' = PaidFor
      BY <3>1, <3>2, GoesPhase, PhasesAre
    <3> QED
      BY <3>1, <3>3, PhasesAre DEF Promised!Review, Promised!Advance
  <2> QED
    BY <1>5, <1>9, <1>10, <2>1, <2>2 DEF Payments, Notify, AlreadyDone, Promised!Next
<1>11. CASE Administration
  <2>1. ASSUME NEW o \in OrderIds, Expire(o)
        PROVE  UNCHANGED Promised!vars
    <3>1. Status(o) = "pending" /\ UNCHANGED <<paid, delivered>>
      BY <2>1 DEF Expire
    <3>2. Goes(o, Status(o), "expired", orders[o].provider, orders[o].provider)
      BY <1>4, <2>1 DEF Expire
    <3> QED
      BY <3>1, <3>2, Stutters, PhasesAre
  <2>2. ASSUME NEW o \in OrderIds, AdminClose(o)
        PROVE  Promised!Close(o)
    <3>1. Status(o) = "manual_review" /\ UNCHANGED <<paid, delivered>>
      BY <2>2 DEF AdminClose
    <3>2. Goes(o, Status(o), "failed", orders[o].provider, orders[o].provider)
      BY <1>4, <2>2 DEF AdminClose, Settle
    <3>3. /\ Phases[o] = "review" /\ Phases' = [Phases EXCEPT ![o] = "closed"]
          /\ PaidFor' = PaidFor
      BY <3>1, <3>2, GoesPhase, PhasesAre
    <3> QED
      BY <3>1, <3>3 DEF Promised!Close, Promised!Advance
  <2>3. ASSUME NEW o \in OrderIds, AdminRefund(o)
        PROVE  Promised!Refund(o)
    <3>1. Status(o) = "success" /\ UNCHANGED <<paid, delivered>>
      BY <2>3 DEF AdminRefund, Refundable
    <3>2. Goes(o, Status(o), "refunded", orders[o].provider, orders[o].provider)
      BY <1>4, <2>3 DEF AdminRefund, Settle
    <3>3. /\ Phases[o] = "delivered" /\ Phases' = [Phases EXCEPT ![o] = "refunded"]
          /\ PaidFor' = PaidFor
      BY <3>1, <3>2, GoesPhase, PhasesAre
    <3> QED
      BY <3>1, <3>3 DEF Promised!Refund, Promised!Advance
  <2> QED
    BY <1>5, <1>9, <1>11, <2>1, <2>2, <2>3
    DEF Administration, AdminInvalidate, SubEnds, AdminDeletePlan, Promised!Next
<1> QED
  BY <1>6, <1>7, <1>8, <1>10, <1>11, Steps

--------------------------------------------------------------------------------
(* The variables keep their types: the balance never becomes negative,     *)
(* however purchases, upgrades and refunds interleave.                     *)
THEOREM TypeCorrect == Spec => []TypeOK
<1>1. IInv => TypeOK
  BY DEF IInv
<1> QED
  BY <1>1, Invariant, PTL

(* Every order, its repeated and late callbacks (CompleteSubscriptionOrder) *)
(* and the administrator's help (AdminDeliverSubscriptionOrder, ...) keep   *)
(* the promise of OrderDelivery: the initial states are its own, and each   *)
(* step is one of its steps or leaves it alone.                             *)
THEOREM PromiseKept == Spec => DeliversWhatWasPaid
<1>1. Init => Promised!Init
  <2> SUFFICES ASSUME Init PROVE Promised!Init
    OBVIOUS
  <2>1. \A o \in OrderIds : Status(o) = "none" /\ orders[o].provider = "epay"
    BY RecordTypes DEF Init, Status
  <2>2. Phases = [o \in OrderIds |-> "open"] /\ PaidFor = {}
    BY <2>1, PhasesAre DEF Init, Phases, PaidFor
  <2> QED
    BY <2>2 DEF Promised!Init, Init
<1>2. IInv /\ [Next]_vars => [Promised!Next]_(Promised!vars)
  <2>1. UNCHANGED vars => UNCHANGED Promised!vars
    BY DEF vars, Promised!vars, Phases, PaidFor, Status
  <2> QED
    BY <2>1, PromiseStep
<1> QED
  BY <1>1, <1>2, Invariant, PTL DEF Spec, DeliversWhatWasPaid, Promised!Spec

(* However a paid upgrade order and upgrades from the balance interleave   *)
(* (performUpgradeTx, expirePendingUpgradeOrdersTx), a subscription is     *)
(* traded in for one successor only.                                       *)
THEOREM TradedInOnceAlways == Spec => []TradedInOnce
<1>1. IInv => TradedInOnce
  BY DEF IInv, Once, Unique, TradedInOnce, Active
<1> QED
  BY <1>1, Invariant, PTL

(* What the gateway was told is done (CompleteSubscriptionOrder) stays on  *)
(* record in the order and in its bill; unpaid orders deliver nothing.     *)
THEOREM PaymentTracedAlways == Spec => []PaymentTraced
<1>1. IInv => PaymentTraced
  <2> SUFFICES ASSUME IInv, NEW o \in OrderIds
               PROVE  /\ o \in told => /\ Status(o) \in DOMAIN BillOf
                                       /\ mirror[o] = BillOf[Status(o)]
                      /\ orders[o].provider = "epay" /\ o \notin paid =>
                           delivered[o] = {} /\ mirror[o] = "none"
    BY DEF PaymentTraced
  <2>1. Traced(o) /\ Once(o)
    BY DEF IInv
  <2>2. o \in told => /\ Status(o) \in DOMAIN BillOf
                      /\ mirror[o] = BillOf[Status(o)]
    BY <2>1 DEF Traced, MirrorOf
  <2>3. ASSUME orders[o].provider = "epay", o \notin paid
        PROVE  delivered[o] = {} /\ mirror[o] = "none"
    BY <2>1, <2>3, BillsAre DEF Traced, Once
  <2> QED
    BY <2>2, <2>3
<1> QED
  BY <1>1, Invariant, PTL

(* Late payments and reviews respect the limit and the purchase guard      *)
(* (CreateUserSubscriptionFromPlanTx asks both again when it delivers): a  *)
(* plan is entered from nothing, or in trade for a cheaper one.            *)
THEOREM PurchaseRulesHold == Spec => PurchasesAsAllowed
<1>1. IInv => LimitKept
  BY DEF IInv
<1>2. IInv /\ [Next]_vars => [PlanEntered]_vars
  BY SubsMoves, EnteredStep DEF IInv
<1> QED
  BY <1>1, <1>2, Invariant, PTL DEF Spec, PurchasesAsAllowed
--------------------------------------------------------------------------------
(* What is left of an order's effect on the balance is kept: its row is     *)
(* kept, or what it was charged is and it is not refunded.                  *)
Unrefunded(q) ==
  /\ Status(q) # "refunded" /\ orders'[q].status # "refunded"
  /\ orders'[q].charged = orders[q].charged

Kept(q) == orders'[q] = orders[q] \/ Unrefunded(q)

LEMMA KeptBalance ==
  ASSUME NEW q \in OrderIds, Kept(q)
  PROVE  Balance(q)' = Balance(q)
BY DEF Kept, Unrefunded, Balance, Status

(* Only a charge or a refund moves the balance, by what it does to one      *)
(* order.                                                                   *)
Booked(o) ==
  /\ quota' = quota + Balance(o)' - Balance(o)
  /\ \A q \in OrderIds \ {o} : Kept(q)

Unmoved == quota' = quota /\ \A q \in OrderIds : Kept(q)

(* The rows an upgrade replaces were pending: nothing of them was refunded. *)
LEMMA ReplacedKept ==
  ASSUME IInv, NEW x \in Sessions, NEW o, NEW order, orders' = Replaced(x, o, order)
  PROVE  \A q \in OrderIds \ {o} : Kept(q)
<1> SUFFICES ASSUME NEW q \in OrderIds \ {o} PROVE Kept(q)
  OBVIOUS
<1>0. orders[q] \in Order
  BY Records DEF IInv
<1>1. orders'[q] = IF q \in session[x].held THEN [orders[q] EXCEPT !.status = "expired"]
                   ELSE orders[q]
  BY DEF Replaced
<1>2. CASE q \in session[x].held
  <2>1. Status(q) = "pending"
    BY <1>2 DEF IInv, Holding
  <2>2. orders'[q].status = "expired" /\ orders'[q].charged = orders[q].charged
    BY <1>0, <1>1, <1>2 DEF Order
  <2> QED
    BY <2>1, <2>2 DEF Kept, Unrefunded
<1>3. CASE q \notin session[x].held
  BY <1>1, <1>3 DEF Kept
<1> QED
  BY <1>2, <1>3

(* A charge: PurchaseSubscriptionWithBalance, UpgradeSubscriptionWithBalance. *)
LEMMA ChargeBooked ==
  ASSUME IInv, NEW o \in OrderIds, NextOrder(o), NEW c \in Nat,
         quota' = quota - c, orders'[o].status = "success", orders'[o].charged = c,
         \A q \in OrderIds \ {o} : Kept(q)
  PROVE  Booked(o)
<1>1. Status(o) = "none" /\ orders[o].charged = 0
  BY DEF NextOrder, IInv, Blank
<1>2. Balance(o) = 0 /\ Balance(o)' = -c
  <2>1. \A n \in Nat : -n = 0 - n
    OBVIOUS
  <2>2. orders[o].charged \in Nat
    BY DEF IInv, TypeOK
  <2>3. Balance(o) = 0 - orders[o].charged
    BY <1>1, <2>1, <2>2 DEF Balance
  <2>4. orders'[o].status # "refunded"
    OBVIOUS
  <2>5. Balance(o)' = -orders'[o].charged
    BY <2>4 DEF Balance, Status
  <2> QED
    BY <1>1, <2>3, <2>5
<1>3. quota \in Nat
  BY DEF IInv, TypeOK
<1> QED
  BY <1>2, <1>3 DEF Booked

(* A refund gives back what Balance says was taken. *)
LEMMA RefundBooked ==
  ASSUME IInv, NEW o \in OrderIds, AdminRefund(o)
  PROVE  Booked(o)
<1>0. /\ orders \in [OrderIds -> Order] /\ quota \in Nat
      /\ orders[o].charged \in Nat /\ orders[o].worth \in Nat \cup {-1}
      /\ orders[o] \in Order
  BY Records DEF IInv, TypeOK, Order
<1>1. orders' = [orders EXCEPT ![o].status = "refunded"] /\ quota' = quota + Credit(o)
  BY DEF AdminRefund, Settle
<1>2. /\ orders'[o].status = "refunded" /\ orders'[o].type = orders[o].type
      /\ orders'[o].worth = orders[o].worth
      /\ \A q \in OrderIds \ {o} : orders'[q] = orders[q]
  BY <1>0, <1>1 DEF Order
<1>3. Status(o) = "success"
  BY DEF AdminRefund, Refundable
<1>4. /\ Balance(o) = -orders[o].charged
      /\ Balance(o)' = IF orders[o].type = "upgrade" THEN orders[o].worth ELSE 0
  BY <1>2, <1>3 DEF Balance, Status
<1>5. quota' = quota + Balance(o)' - Balance(o)
  BY <1>0, <1>1, <1>4 DEF Credit
<1> QED
  BY <1>2, <1>5 DEF Booked, Kept

(* No step does anything else to the balance: a callback and a review give  *)
(* an order another status and another worth, an expiry another status.     *)
LEMMA WalletMoves ==
  ASSUME IInv, Next
  PROVE  Unmoved \/ \E o \in OrderIds : Booked(o)
<1>0. /\ orders \in [OrderIds -> Order] /\ session \in [Sessions -> Request]
      /\ Price \in [Plans -> Nat] /\ quota \in Nat
      /\ \A o \in OrderIds : Blank(o)
  BY Records DEF IInv, TypeOK
<1>1. ASSUME NEW x \in Sessions, NEW o \in OrderIds, RequestEpay(x, o)
      PROVE  Unmoved
  <2>1. orders' = [orders EXCEPT ![o] =
                    [Absent EXCEPT !.status = "pending", !.plan = session[x].plan]]
    BY <1>1 DEF RequestEpay
  <2>2. /\ orders'[o].status = "pending" /\ orders'[o].charged = 0
        /\ \A q \in OrderIds \ {o} : orders'[q] = orders[q]
    BY ONLY <1>0, <1>1, <2>1 DEF Absent
  <2>3. Status(o) = "none" /\ orders[o].charged = 0
    BY <1>0, <1>1 DEF RequestEpay, NextOrder, Blank
  <2> QED
    BY <1>1, <2>2, <2>3 DEF Unmoved, Kept, Unrefunded, RequestEpay
<1>2. ASSUME NEW o \in OrderIds, NEW p \in Plans, NEW s \in SubIds, Redeem(o, p, s)
      PROVE  Unmoved
  <2>1. orders' = [orders EXCEPT ![o] = [Absent EXCEPT !.status = "success",
                     !.provider = "redemption", !.plan = p, !.sub = s]]
    BY <1>2 DEF Redeem
  <2>2. /\ orders'[o].status = "success" /\ orders'[o].charged = 0
        /\ \A q \in OrderIds \ {o} : orders'[q] = orders[q]
    BY ONLY <1>0, <1>2, <2>1 DEF Absent
  <2>3. Status(o) = "none" /\ orders[o].charged = 0
    BY <1>0, <1>2 DEF Redeem, NextOrder, Blank
  <2> QED
    BY <1>2, <2>2, <2>3 DEF Unmoved, Kept, Unrefunded, Redeem
<1>3. ASSUME NEW o \in OrderIds, NEW p \in Plans, NEW s \in SubIds,
             PurchaseWithBalance(o, p, s)
      PROVE  Booked(o)
  <2>1. /\ orders' = [orders EXCEPT ![o] = [Absent EXCEPT !.status = "success",
                        !.provider = "balance", !.plan = p, !.charged = Price[p]]]
        /\ quota' = quota - Price[p] /\ NextOrder(o)
    BY <1>3 DEF PurchaseWithBalance
  <2>2. /\ orders'[o].status = "success" /\ orders'[o].charged = Price[p]
        /\ \A q \in OrderIds \ {o} : orders'[q] = orders[q]
    BY ONLY <1>0, <1>3, <2>1 DEF Absent
  <2>3. Price[p] \in Nat /\ \A q \in OrderIds \ {o} : Kept(q)
    BY <1>0, <2>2 DEF Kept
  <2> QED
    BY <2>1, <2>2, <2>3, ChargeBooked
<1>4. ASSUME NEW x \in Sessions, NEW w \in Worths, NEW o \in OrderIds, NEW s \in SubIds,
             UpgradeWithBalance(x, w, o, s)
      PROVE  Booked(o)
  <2> DEFINE order == UpgradeOrder(x, w, "balance", "success", Due(x, w), s)
  <2>1. orders' = Replaced(x, o, order) /\ quota' = quota - Due(x, w) /\ NextOrder(o)
    BY <1>4 DEF UpgradeWithBalance
  <2>2. orders'[o].status = "success" /\ orders'[o].charged = Due(x, w)
    BY <2>1 DEF Replaced, UpgradeOrder
  <2>3. Due(x, w) \in Nat
    <3>1. /\ session[x].plan \in Plans /\ w \in Nat
          /\ Price[subs[session[x].from].plan] \in Nat /\ Price[session[x].plan] \in Nat
      BY <1>0, <1>4, Records, OrdersAssumption
      DEF UpgradeWithBalance, Upgradable, Active, Request, Sub, IInv
    <3> QED
      BY <1>4, <3>1 DEF UpgradeWithBalance, Upgradable, Due
  <2>4. \A q \in OrderIds \ {o} : Kept(q)
    BY <2>1, ReplacedKept
  <2> QED
    BY <2>1, <2>2, <2>3, <2>4, ChargeBooked
<1>5. ASSUME NEW x \in Sessions, NEW w \in Worths, NEW o \in OrderIds,
             CreateUpgradeOrder(x, w, o)
      PROVE  Unmoved
  <2> DEFINE order == UpgradeOrder(x, w, "epay", "pending", 0, 0)
  <2>1. orders' = Replaced(x, o, order) /\ quota' = quota /\ NextOrder(o)
    BY <1>5 DEF CreateUpgradeOrder
  <2>2. orders'[o].status = "pending" /\ orders'[o].charged = 0
    BY <2>1 DEF Replaced, UpgradeOrder
  <2>3. Status(o) = "none" /\ orders[o].charged = 0
    BY <1>0, <2>1 DEF NextOrder, Blank
  <2>4. \A q \in OrderIds \ {o} : Kept(q)
    BY <2>1, ReplacedKept
  <2> QED
    BY <2>1, <2>2, <2>3, <2>4 DEF Unmoved, Kept, Unrefunded
<1>6. ASSUME NEW o \in OrderIds, NEW st \in Statuses \ {"refunded"}, NEW s,
             Status(o) # "refunded", quota' = quota,
             \/ orders' = [orders EXCEPT ![o].status = st]
             \/ orders' = [orders EXCEPT ![o].status = st, ![o].sub = s]
             \/ orders' = [orders EXCEPT ![o].status = st, ![o].worth = -1]
             \/ orders' = [orders EXCEPT ![o].status = st, ![o].sub = s, ![o].worth = -1]
      PROVE  Unmoved
  <2>1. /\ orders'[o].status = st /\ orders'[o].charged = orders[o].charged
        /\ \A q \in OrderIds \ {o} : orders'[q] = orders[q]
    BY ONLY <1>0, <1>6 DEF Order
  <2> QED
    BY <1>6, <2>1 DEF Unmoved, Kept, Unrefunded
<1>7. ASSUME NEW o \in OrderIds,
             \/ Review(o) \/ Expire(o) \/ AdminClose(o)
             \/ \E s \in SubIds : Complete(o, s) \/ AdminDeliver(o, s)
      PROVE  Unmoved
  <2>1. {"success", "manual_review", "expired", "failed"} \subseteq Statuses \ {"refunded"}
    BY DEF Statuses
  <2>2. CASE Review(o) \/ Expire(o) \/ AdminClose(o)
    <3>1. Status(o) # "refunded" /\ quota' = quota
      BY <2>2 DEF Review, Expire, AdminClose
    <3> QED
      BY <1>6, <2>1, <2>2, <3>1 DEF Review, Expire, AdminClose, Settle
  <2>3. ASSUME NEW s \in SubIds, Complete(o, s) \/ AdminDeliver(o, s)
        PROVE  Unmoved
    <3>1. Status(o) # "refunded" /\ quota' = quota
      BY <2>3 DEF Complete, AdminDeliver
    <3> QED
      BY <1>6, <2>1, <2>3, <3>1 DEF Complete, AdminDeliver, Deliver
  <2> QED
    BY <1>7, <2>2, <2>3
<1>8. CASE UNCHANGED <<orders, quota>>
  BY <1>8 DEF Unmoved, Kept
<1>9. CASE Requests
  BY <1>1, <1>8, <1>9 DEF Requests, AskEpay, BeginUpgrade, RollBack
<1>10. CASE Upgrades
  BY <1>4, <1>5, <1>10 DEF Upgrades
<1>11. CASE Purchases
  BY <1>2, <1>3, <1>11 DEF Purchases
<1>12. CASE Payments
  <2>1. PICK o \in OrderIds : Pay(o) \/ AlreadyDone(o) \/ Review(o)
                              \/ \E s \in SubIds : Complete(o, s)
    BY <1>12 DEF Payments, Notify
  <2> QED
    BY <1>7, <1>8, <2>1 DEF Pay, AlreadyDone
<1>13. CASE Administration
  BY <1>7, <1>8, <1>13, RefundBooked
  DEF Administration, AdminInvalidate, SubEnds, AdminDeletePlan
<1> QED
  BY <1>9, <1>10, <1>11, <1>12, <1>13, Steps

(* The sum over the orders moves with the balance. *)
LEMMA WalletStep ==
  ASSUME IInv, IInv', WalletAgrees, Unmoved \/ \E o \in OrderIds : Booked(o)
  PROVE  WalletAgrees'
<1> DEFINE f == [q \in OrderIds |-> Balance(q)]
           g == [q \in OrderIds |-> Balance(q)']
<1>0. IsFiniteSet(OrderIds)
  BY OrdersAssumption, FS_Interval DEF OrderIds
<1>1. quota \in Int /\ InitialQuota \in Int
  BY OrdersAssumption DEF IInv, TypeOK
<1>2. \A q \in OrderIds : Balance(q) \in Int /\ Balance(q)' \in Int
  <2> SUFFICES ASSUME NEW q \in OrderIds PROVE Balance(q) \in Int /\ Balance(q)' \in Int
    OBVIOUS
  <2>1. /\ orders[q].charged \in Nat /\ orders[q].worth \in Nat \cup {-1}
        /\ orders'[q].charged \in Nat /\ orders'[q].worth \in Nat \cup {-1}
    BY DEF IInv, TypeOK
  <2> QED
    BY <2>1 DEF Balance
<1>3. quota = InitialQuota + SumFunctionOnSet(f, OrderIds)
  BY DEF WalletAgrees
<1>4. SUFFICES quota' = InitialQuota + SumFunctionOnSet(g, OrderIds)
  BY DEF WalletAgrees
<1>5. \A q \in OrderIds : f[q] \in Int /\ g[q] \in Int
  BY <1>2
<1>6. SumFunctionOnSet(f, OrderIds) \in Int
  BY <1>0, <1>5, SumType
<1>7. CASE Unmoved
  <2>1. \A q \in OrderIds : g[q] = f[q]
    BY <1>7, KeptBalance DEF Unmoved
  <2>2. SumFunctionOnSet(g, OrderIds) = SumFunctionOnSet(f, OrderIds)
    BY ONLY <1>0, <2>1, SumSame
  <2> QED
    BY <1>3, <1>7, <2>2 DEF Unmoved
<1>8. ASSUME NEW o \in OrderIds, Booked(o)
      PROVE  quota' = InitialQuota + SumFunctionOnSet(g, OrderIds)
  <2>1. \A q \in OrderIds \ {o} : g[q] = f[q]
    BY <1>8, KeptBalance DEF Booked
  <2>2. SumFunctionOnSet(g, OrderIds) = SumFunctionOnSet(f, OrderIds) + g[o] - f[o]
    BY ONLY <1>0, <1>5, <1>8, <2>1, SumMoves
  <2>3. quota' = quota + g[o] - f[o]
    BY <1>8 DEF Booked
  <2> HIDE DEF f, g
  <2> QED
    BY <1>1, <1>3, <1>5, <1>6, <1>8, <2>2, <2>3
<1> QED
  BY <1>7, <1>8

WalletInv == IInv /\ WalletAgrees

LEMMA WalletInit ==
  ASSUME Init
  PROVE  WalletInv
<1>1. \A o \in OrderIds : Balance(o) = 0
  <2> SUFFICES ASSUME NEW o \in OrderIds PROVE Balance(o) = 0
    OBVIOUS
  <2>1. \A n \in Nat : -n = 0 - n
    OBVIOUS
  <2>2. Status(o) = "none" /\ orders[o].charged = 0 /\ orders[o].charged \in Nat
    BY RecordTypes DEF Init, Status
  <2>3. Balance(o) = 0 - orders[o].charged
    BY <2>1, <2>2 DEF Balance
  <2> QED
    BY <2>2, <2>3
<1>2. IsFiniteSet(OrderIds)
  BY OrdersAssumption, FS_Interval DEF OrderIds
<1>3. SumFunctionOnSet([o \in OrderIds |-> Balance(o)], OrderIds) = 0
  BY <1>1, <1>2, SumZero
<1>4. WalletAgrees
  BY <1>3, OrdersAssumption DEF WalletAgrees, Init
<1> QED
  BY <1>4, InitInv DEF WalletInv

LEMMA WalletInductive ==
  ASSUME WalletInv, [Next]_vars
  PROVE  WalletInv'
<1>1. IInv'
  BY Inductive DEF WalletInv
<1>2. CASE Next
  BY <1>1, <1>2, WalletMoves, WalletStep DEF WalletInv
<1>3. CASE UNCHANGED vars
  <2>1. Unmoved
    BY <1>3 DEF vars, Unmoved, Kept
  <2> QED
    BY <1>1, <2>1, WalletStep DEF WalletInv
<1> QED
  BY <1>2, <1>3

(* The balance is what was charged and given back, order by order, however *)
(* purchases, upgrades, callbacks and refunds follow one another           *)
(* (PurchaseSubscriptionWithBalance, AdminRefundSubscriptionOrder).        *)
THEOREM WalletAlwaysAgrees == Spec => []WalletAgrees
<1>1. Init => WalletInv
  BY WalletInit
<1>2. WalletInv /\ [Next]_vars => WalletInv'
  BY WalletInductive
<1>3. WalletInv => WalletAgrees
  BY DEF WalletInv
<1> QED
  BY <1>1, <1>2, <1>3, PTL DEF Spec
================================================================================
