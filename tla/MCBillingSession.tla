--------------------------- MODULE MCBillingSession ---------------------------
(***************************************************************************)
(* Small instances of BillingSession: which key a request presents, and    *)
(* which route its key and model give it.                                  *)
(***************************************************************************)
EXTENDS BillingSession, TLC

CONSTANTS r1, r2, r3, k1, k2

\* Wallet requests racing on one limited key
WalletKeyOf == [r \in Requests |-> k1]
WalletRoute == [r \in Requests |-> "wallet"]

\* One request on each route, the wallet's on a key of its own; subscription
\* keys are issued without a limit of their own
MixedKeyOf == [r \in Requests |-> IF r = r1 THEN k1 ELSE k2]
MixedRoute == [r \in Requests |->
                IF r = r1 THEN "wallet" ELSE IF r = r2 THEN "premium" ELSE "basic"]

SmallBuckets == [premium |-> 3, basic |-> 3]

Symmetry == Permutations(Requests)
===============================================================================
