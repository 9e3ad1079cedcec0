---------------------------- MODULE BreakerStates -----------------------------
(***************************************************************************)
(* The state machine that docs/high-availability-routing.md gives for the  *)
(* circuit breaker: a scope (a channel or one of its keys) trips, cools    *)
(* down undisturbed, is probed, and recovers or trips again.               *)
(***************************************************************************)
CONSTANT Scopes

VARIABLE phase  \* "closed", "open" or "half_open" for each scope

Init == phase = [s \in Scopes |-> "closed"]

Move(s, from, to) == phase[s] = from /\ phase' = [phase EXCEPT ![s] = to]

Trip(s)    == Move(s, "closed", "open")
Recover(s) == Move(s, "half_open", "closed")
Retrip(s)  == Move(s, "half_open", "open")

\* Time passes: some of the scopes have cooled down
Elapse(S) ==
  /\ \A s \in S : phase[s] = "open"
  /\ phase' = [s \in Scopes |-> IF s \in S THEN "half_open" ELSE phase[s]]

Next == \/ \E s \in Scopes : Trip(s) \/ Recover(s) \/ Retrip(s)
        \/ \E S \in SUBSET Scopes : Elapse(S)

Spec == Init /\ [][Next]_phase
===============================================================================
