----------------------------- MODULE MCRelayRetry -----------------------------
(***************************************************************************)
(* Small instances of RelayRetry: how the channels form tiers and groups,  *)
(* and which of them have several keys.                                    *)
(***************************************************************************)
EXTENDS RelayRetry

CONSTANTS a1, a2, b

\* Two groups, whose tiers share channels
TwoPools == <<{a1, a2, b}, {a2, b}>>

\* a1 and a2 above b, or below
OneOverTwo == [c \in Channels |-> IF c = b THEN 10 ELSE 5]
TwoTiers == [c \in Channels |-> IF c = b THEN 5 ELSE 10]

\* A channel of each tier has several keys; two disablings empty a1
SomeMultiKeys == [c \in Channels |-> CASE c = a1 -> {0, 1}
                                       [] c = b  -> {0, 1, 2}
                                       [] OTHER  -> {}]
===============================================================================
