------------------------- MODULE MCSubscriptionOrders -------------------------
(***************************************************************************)
(* A small instance of SubscriptionOrders: two plans, the dearer at less   *)
(* than twice the price of the other.                                      *)
(***************************************************************************)
EXTENDS SubscriptionOrders, TLC

CONSTANTS x1, x2

PriceList == [lite |-> 2, pro |-> 3]
Symmetry == Permutations(Sessions)
===============================================================================
