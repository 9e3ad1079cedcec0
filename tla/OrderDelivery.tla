----------------------------- MODULE OrderDelivery -----------------------------
(***************************************************************************)
(* What the orders of a user promise, whatever requests, callbacks and     *)
(* administrators do: an order is delivered once and only for money that   *)
(* has come, and its subscription is no other order's; what cannot be      *)
(* delivered waits for an administrator, who delivers or closes it; a      *)
(* closed or refunded order stays so.                                      *)
(***************************************************************************)
CONSTANTS Orders, Subs

VARIABLES
  phase,    \* "open" until money was used: then what became of it
  paid,     \* orders whose money has come
  product   \* the subscriptions each order has produced

vars == <<phase, paid, product>>

Init ==
  /\ phase = [o \in Orders |-> "open"]
  /\ paid = {}
  /\ product = [o \in Orders |-> {}]

Advance(o, from, to) == phase[o] = from /\ phase' = [phase EXCEPT ![o] = to]

(* A subscription that nothing else has produced. *)
Produce(o, s) ==
  /\ product[o] = {}
  /\ \A q \in Orders : s \notin product[q]
  /\ product' = [product EXCEPT ![o] = {s}]

Pay(o) ==
  /\ o \notin paid /\ phase[o] = "open"
  /\ paid' = paid \cup {o}
  /\ UNCHANGED <<phase, product>>

(* Paid and delivered at once: from the balance, or with a code. *)
Purchase(o, s) ==
  /\ o \notin paid /\ paid' = paid \cup {o}
  /\ Advance(o, "open", "delivered") /\ Produce(o, s)

Deliver(o, s) ==
  /\ o \in paid /\ UNCHANGED paid
  /\ Advance(o, "open", "delivered") \/ Advance(o, "review", "delivered")
  /\ Produce(o, s)

Review(o) == o \in paid /\ Advance(o, "open", "review") /\ UNCHANGED <<paid, product>>
Close(o)  == Advance(o, "review", "closed") /\ UNCHANGED <<paid, product>>
Refund(o) == Advance(o, "delivered", "refunded") /\ UNCHANGED <<paid, product>>

Next == \E o \in Orders :
          \/ Pay(o) \/ Review(o) \/ Close(o) \/ Refund(o)
          \/ \E s \in Subs : Purchase(o, s) \/ Deliver(o, s)

Spec == Init /\ [][Next]_vars
===============================================================================
