---------------------------- MODULE PrepaidCharge ----------------------------
(***************************************************************************)
(* What the billing of one request promises (the life cycle stated at the  *)
(* head of service/billing_session.go: pre-consume, then settle or refund, *)
(* never both): money is held at most once, and a charge that is closed is *)
(* never touched again.                                                    *)
(***************************************************************************)
EXTENDS Integers

CONSTANT Requests

VARIABLES
  phase,   \* "open" until the charge is closed, then how it was closed
  taken    \* what the funding source is down by for the request

vars == <<phase, taken>>

TypeOK ==
  /\ phase \in [Requests -> {"open", "charged", "released", "kept"}]
  /\ taken \in [Requests -> Nat]

Init ==
  /\ phase = [r \in Requests |-> "open"]
  /\ taken = [r \in Requests |-> 0]

Close(r, how) ==
  /\ phase[r] = "open"
  /\ phase' = [phase EXCEPT ![r] = how]

\* Only r's charge moves
Move(r) ==
  /\ taken' \in [Requests -> Nat]
  /\ \A s \in Requests \ {r} : taken'[s] = taken[s]

\* Pre-consumption
Hold(r) == phase[r] = "open" /\ taken[r] = 0 /\ Move(r) /\ UNCHANGED phase

\* Settlement: the hold becomes the price
Charge(r) == Close(r, "charged") /\ Move(r)

\* Rejection, or refund of the whole hold
Release(r) == Close(r, "released") /\ taken' = [taken EXCEPT ![r] = 0]

\* A settlement or refund failed, or the process died under some requests:
\* their holds stay
Keep ==
  /\ \E R \in SUBSET {r \in Requests : phase[r] = "open"} :
       phase' = [r \in Requests |-> IF r \in R THEN "kept" ELSE phase[r]]
  /\ UNCHANGED taken

Next == Keep \/ \E r \in Requests : Hold(r) \/ Charge(r) \/ Release(r)

Spec == Init /\ [][Next]_vars
=============================================================================
