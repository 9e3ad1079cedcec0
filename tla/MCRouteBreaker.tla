---------------------------- MODULE MCRouteBreaker ----------------------------
(***************************************************************************)
(* A small instance of RouteBreaker: one multi-key channel, the scopes of  *)
(* one of its keys and of itself, and two configurations to change between.*)
(***************************************************************************)
EXTENDS RouteBreaker, TLC

CONSTANTS a1, a2, multi

KeyIndexes == [c \in Channels |-> {0}]

\* The second has no greatest cool-down, which Configure replaces, and cools
\* multi-key channels as a whole
TwoConfigs ==
  {[enabled |-> TRUE, keyLevel |-> TRUE, threshold |-> 3, window |-> 3,
    cooldown |-> 2, maxCooldown |-> 3],
   [enabled |-> TRUE, keyLevel |-> FALSE, threshold |-> 2, window |-> 4,
    cooldown |-> 2, maxCooldown |-> 0]}

Symmetry == Permutations(Attempts)
===============================================================================
