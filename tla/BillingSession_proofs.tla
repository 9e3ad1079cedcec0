------------------------ MODULE BillingSession_proofs ------------------------
(***************************************************************************)
(* Proofs about BillingSession, for any finite number of requests, keys,   *)
(* amounts, faults, quota periods and crashes: types, what a session       *)
(* remembers of its request, and the books of the shared ledgers.          *)
(*                                                                         *)
(* Hardly any of the properties is inductive: a settlement or a refund moves *)
(* an amount computed from the session's fields, so it is right only if those *)
(* fields were right at every stage before.  StageInv says, stage by stage, *)
(* what the fields hold and what has moved on either ledger.  It speaks of *)
(* one request at a time: the steps of the others leave all it mentions alone *)
(* (Same), which is what sharing the wallet, the key and the bucket only   *)
(* through relative updates is worth.  Advance and Stays say what each step *)
(* does to the charge of a request, from which the refinement of PrepaidCharge *)
(* follows.  Ledgers says what the wallet, a key and a bucket hold in all, as *)
(* sums over the requests; MoneyStep and BucketStep are the few ways in which *)
(* a step moves them.                                                      *)
(***************************************************************************)
EXTENDS BillingSession, SumTheorems, TLAPS

-----------------------------------------------------------------------------
(***************************************************************************)
(* Type correctness                                                        *)
(***************************************************************************)

\* A reset is due only while the bound on periods leaves room for one
PeriodOK == subscription.due => subscription.period < MaxPeriods

TypeInv == TypeOK /\ PeriodOK

Stages == Live \union Finished

\* The updates the actions make to a session yield a session
LEMMA SessionFields ==
  ASSUME NEW s \in Session, NEW n \in Nat
  PROVE  /\ [s EXCEPT !.tokenConsumed = n] \in Session
         /\ [s EXCEPT !.fundConsumed = n, !.preConsumedQuota = n] \in Session
         /\ [s EXCEPT !.fundingSettled = TRUE] \in Session
         /\ [s EXCEPT !.settled = TRUE] \in Session
         /\ [s EXCEPT !.refunded = TRUE] \in Session
  BY DEF Session

\* An action that updates one request's session, or none, keeps the map typed
LEMMA SessionType ==
  ASSUME TypeOK, NEW r \in Requests, NEW s \in Session,
         UpdateSession(r, s) \/ UNCHANGED session
  PROVE  session' \in [Requests -> Session]
  BY DEF TypeOK, UpdateSession

\* So does one that moves the handler to another stage
LEMMA GotoType ==
  ASSUME TypeOK, NEW r \in Requests, NEW s \in Stages, Goto(r, s)
  PROVE  pc' \in [Requests -> Stages]
  BY DEF TypeOK, Goto, Stages

\* Quota moves between a ledger and the auditor's book
LEMMA LedgerType ==
  ASSUME TypeOK, NEW r \in Requests, NEW d \in Int
  PROVE  /\ AddToKey(r, d) => remain' \in [Keys -> Int] /\ tokenDrawn' \in [Requests -> Int]
         /\ AddToWallet(r, d) => wallet' \in Int /\ drawn' \in [Requests -> Int]
  BY ConstantsAssumption DEF TypeOK, AddToKey, AddToWallet

\* A failing statement stays within the bound on faults
LEMMA FaultType ==
  ASSUME TypeOK, StatementFails \/ UNCHANGED faults
  PROVE  faults' \in 0..MaxFaults
  BY ConstantsAssumption DEF TypeOK, StatementFails

\* A compensating statement that failed is noted for its request
LEMMA LostType ==
  ASSUME TypeOK, NEW r \in Requests, NEW c \in Compensations,
         lost' = [lost EXCEPT ![r] = @ \union {c}] \/ UNCHANGED lost
  PROVE  lost' \in [Requests -> SUBSET Compensations]
  BY DEF TypeOK

\* refundWithRetry counts its attempts up to three
LEMMA TryAgainType ==
  ASSUME TypeOK, NEW r \in Requests, TryAgain(r)
  PROVE  /\ refunder' \in [Requests -> {"idle", "funding", "token", "ended", "crashed"}]
         /\ attempts' \in [Requests -> 0..2]
         /\ lost' \in [Requests -> SUBSET Compensations]
  <1>1. /\ refunder \in [Requests -> {"idle", "funding", "token", "ended", "crashed"}]
        /\ attempts \in [Requests -> 0..2] /\ lost \in [Requests -> SUBSET Compensations]
    BY DEF TypeOK
  <1>2. CASE attempts[r] < 2
    <2>1. attempts[r] + 1 \in 0..2
      BY <1>1, <1>2
    <2> QED BY <1>1, <1>2, <2>1 DEF TryAgain
  <1>3. CASE ~(attempts[r] < 2)
    <2>1. lost' \in [Requests -> SUBSET Compensations]
      BY <1>3, LostType DEF TryAgain, Compensations
    <2> QED BY <1>1, <1>3, <2>1 DEF TryAgain
  <1> QED BY <1>2, <1>3

\* PostConsumeUserSubscriptionDelta floors the use of the bucket at zero
LEMMA PostConsumeType ==
  ASSUME TypeOK, NEW r \in Requests, OnBucket(r), NEW d \in Int, PostConsume(r, d)
  PROVE  /\ used' \in [Buckets -> Nat]
         /\ drawn' \in [Requests -> Int]
         /\ carried' \in [Buckets -> BOOLEAN]
  BY DEF TypeOK, OnBucket, PostConsume, AtLeastZero

\* Before the first request everything has its type and no reset is due
LEMMA TypeInit == Init => TypeInv
  BY ConstantsAssumption DEF Init, TypeInv, TypeOK, PeriodOK, NewSession, Session, Live,
     Finished, Buckets, Compensations

\* Admission, up to the hold
LEMMA TypeAdmission ==
  ASSUME TypeInv, NEW r \in Requests, TokenAuth(r) \/ PreConsumeStep(r)
  PROVE  TypeInv'
  <1> USE DEF TypeInv
  <1> DEFINE n == amount[r]
  <1>0. n \in Nat /\ -n \in Int /\ session[r] \in Session /\ session[r].tokenConsumed \in Nat
        /\ 0 \in Nat
    BY DEF TypeOK, Session
  <1>s. /\ [session[r] EXCEPT !.tokenConsumed = n] \in Session
        /\ [session[r] EXCEPT !.tokenConsumed = 0] \in Session
        /\ [session[r] EXCEPT !.fundConsumed = n, !.preConsumedQuota = n] \in Session
    BY <1>0, SessionFields
  <1>1. CASE TokenAuth(r)
    <2>1. pc' \in [Requests -> Stages]
      BY <1>1, GotoType DEF TokenAuth, Stages, Live, Finished
    <2>2. keyStatus' \in [Keys -> {"enabled", "exhausted", "disabled"}] /\ authQuota' \in [Requests -> Int]
      BY <1>1, ConstantsAssumption DEF TokenAuth, TypeOK
    <2> QED BY <1>1, <2>1, <2>2 DEF TokenAuth, TypeOK, PeriodOK, Stages, books
  <1>2. ASSUME NEW q \in Quotas, OpenOnWallet(r, q) \/ OpenOnSubscription(r, q)
        PROVE  TypeInv'
    <2>1. pc' \in [Requests -> Stages]
      BY <1>2, GotoType DEF OpenOnWallet, OpenOnSubscription, Stages, Live, Finished
    <2>2. amount' \in [Requests -> Nat]
      BY <1>2, ConstantsAssumption DEF OpenOnWallet, OpenOnSubscription, TypeOK
    <2> QED BY <1>2, <2>1, <2>2 DEF OpenOnWallet, OpenOnSubscription, TypeOK, PeriodOK,
              Stages, store, books
  <1>3. CASE CheckToken(r)
    <2>1. pc' \in [Requests -> Stages]
      BY <1>3, GotoType DEF CheckToken, Stages, Live, Finished
    <2> QED BY <1>3, <2>1 DEF CheckToken, TypeOK, PeriodOK, Stages, store, inputs, books
  <1>4. CASE TakeToken(r)
    <2>1. pc' \in [Requests -> Stages]
      BY <1>4, GotoType DEF TakeToken, Stages, Live, Finished
    <2>2. session' \in [Requests -> Session]
      BY <1>4, <1>s, SessionType DEF TakeToken
    <2>3. /\ remain' \in [Keys -> Int] /\ tokenDrawn' \in [Requests -> Int]
          /\ faults' \in 0..MaxFaults
      BY <1>4, <1>0, LedgerType, FaultType DEF TakeToken, TypeOK
    <2> QED BY <1>4, <2>1, <2>2, <2>3 DEF TakeToken, TypeOK, PeriodOK, Stages, inputs
  <1>5. CASE TakeFromWallet(r)
    <2>1. pc' \in [Requests -> Stages]
      BY <1>5, GotoType DEF TakeFromWallet, Hold, AbortHold, Stages, Live, Finished
    <2>2. session' \in [Requests -> Session]
      BY <1>5, <1>s, SessionType DEF TakeFromWallet, Hold, AbortHold
    <2>3. /\ wallet' \in Int /\ drawn' \in [Requests -> Int]
          /\ faults' \in 0..MaxFaults
      BY <1>5, <1>0, LedgerType, FaultType DEF TakeFromWallet, TypeOK
    <2> QED BY <1>5, <2>1, <2>2, <2>3 DEF TakeFromWallet, TypeOK, PeriodOK, Stages, inputs
  <1>6. CASE TakeFromBucket(r)
    <2>1. pc' \in [Requests -> Stages]
      BY <1>6, GotoType DEF TakeFromBucket, Hold, AbortHold, Stages, Live, Finished
    <2>2. session' \in [Requests -> Session]
      BY <1>6, <1>s, SessionType DEF TakeFromBucket, Hold, AbortHold
    <2>3. faults' \in 0..MaxFaults
      BY <1>6, FaultType DEF TakeFromBucket
    <2>4. /\ used' \in [Buckets -> Nat]
          /\ drawn' \in [Requests -> Int]
      BY <1>6, <1>0 DEF TakeFromBucket, OnBucket, TypeOK
    <2>5. /\ record' \in [Requests -> {"none", "consumed", "refunded"}]
          /\ carried' \in [Buckets -> BOOLEAN]
      <3>1. record' = record \/ record' = [record EXCEPT ![r] = "consumed"]
        BY <1>6, Zenon DEF TakeFromBucket
      <3>2. record' \in [Requests -> {"none", "consumed", "refunded"}]
        BY <3>1 DEF TypeOK
      <3>3. carried' = carried \/ carried' = [c \in Buckets |-> FALSE]
        BY <1>6, Zenon DEF TakeFromBucket
      <3>4. carried' \in [Buckets -> BOOLEAN]
        BY <3>3 DEF TypeOK
      <3> QED BY <3>2, <3>4
    <2>6. /\ subscription.due => Renewed \in [status : {"active", "expired", "deleted"},
                                           due : BOOLEAN, period : 0..MaxPeriods]
          /\ ~Renewed.due
      <3>1. subscription \in [status : {"active", "expired", "deleted"},
                              due : BOOLEAN, period : 0..MaxPeriods]
        BY DEF TypeOK
      <3>2. subscription.due => subscription.period + 1 \in 0..MaxPeriods
        BY <3>1, ConstantsAssumption DEF PeriodOK
      <3> QED BY <3>1, <3>2 DEF Renewed
    <2>7. /\ subscription' = subscription \/ (subscription.due /\ subscription' = Renewed)
          /\ heldIn' = heldIn \/ heldIn' = [heldIn EXCEPT ![r] = subscription'.period]
      BY <1>6, Zenon DEF TakeFromBucket
    <2>8. /\ subscription' \in [status : {"active", "expired", "deleted"},
                                due : BOOLEAN, period : 0..MaxPeriods]
          /\ PeriodOK'
      BY <2>6, <2>7 DEF TypeOK, PeriodOK
    <2>9. heldIn' \in [Requests -> 0..MaxPeriods]
      BY <2>7, <2>8 DEF TypeOK
    <2> QED BY <1>6, <2>1, <2>2, <2>3, <2>4, <2>5, <2>8, <2>9 DEF TakeFromBucket, TypeOK, Stages, inputs
  <1>7. CASE RollbackToken(r)
    <2>1. pc' \in [Requests -> Stages]
      BY <1>7, GotoType DEF RollbackToken, Stages, Live, Finished
    <2>2. session' \in [Requests -> Session]
      BY <1>7, <1>s, SessionType DEF RollbackToken
    <2>3. /\ remain' \in [Keys -> Int] /\ tokenDrawn' \in [Requests -> Int]
          /\ faults' \in 0..MaxFaults /\ lost' \in [Requests -> SUBSET Compensations]
      BY <1>7, <1>0, LedgerType, FaultType, LostType DEF RollbackToken, TypeOK, Compensations
    <2> QED BY <1>7, <2>1, <2>2, <2>3 DEF RollbackToken, TypeOK, PeriodOK, Stages, inputs
  <1> QED BY <1>1, <1>2, <1>3, <1>4, <1>5, <1>6, <1>7 DEF PreConsumeStep

\* The answer of the upstream, and the settlement
LEMMA TypeSettlement ==
  ASSUME TypeInv, NEW r \in Requests, UpstreamStep(r) \/ SettleStep(r)
  PROVE  TypeInv'
  <1> USE DEF TypeInv
  <1>0. /\ session[r] \in Session /\ session[r].preConsumedQuota \in Nat
        /\ session[r].fundConsumed \in Nat /\ actual[r] \in Nat /\ tokens[r] \in Nat
    BY DEF TypeOK, Session
  <1>d. Delta(r) \in Int /\ -Delta(r) \in Int /\ BucketDelta(r) \in Int
    BY <1>0 DEF Delta, BucketDelta
  <1>s. /\ [session[r] EXCEPT !.fundingSettled = TRUE] \in Session
        /\ [session[r] EXCEPT !.settled = TRUE] \in Session
        /\ [session[r] EXCEPT !.refunded = TRUE] \in Session
    BY <1>0, SessionFields
  <1>1. ASSUME NEW q \in Quotas, NEW n \in Quotas, Answered(r, q, n) PROVE TypeInv'
    <2>1. pc' \in [Requests -> Stages]
      BY <1>1, GotoType DEF Answered, Stages, Live, Finished
    <2>2. actual' \in [Requests -> Nat] /\ tokens' \in [Requests -> Nat]
      BY <1>1, ConstantsAssumption DEF Answered, TypeOK
    <2> QED BY <1>1, <2>1, <2>2 DEF Answered, TypeOK, PeriodOK, Stages, store, books
  <1>2. ASSUME NEW violation \in BOOLEAN, Failed(r, violation) PROVE TypeInv'
    <2>1. pc' \in [Requests -> Stages]
      BY <1>2, GotoType DEF Failed, Stages, Live, Finished
    <2>2. session' \in [Requests -> Session]
      BY <1>2, <1>s, SessionType DEF Failed
    <2>3. refunder' \in [Requests -> {"idle", "funding", "token", "ended", "crashed"}]
      BY <1>2 DEF Failed, TypeOK
    <2> QED BY <1>2, <2>1, <2>2, <2>3 DEF Failed, TypeOK, PeriodOK, Stages, store, inputs, books
  <1>3. CASE SettleNothing(r)
    <2>1. pc' \in [Requests -> Stages]
      BY <1>3, GotoType DEF SettleNothing, Stages, Live, Finished
    <2>2. session' \in [Requests -> Session]
      BY <1>3, <1>s, SessionType DEF SettleNothing
    <2> QED BY <1>3, <2>1, <2>2 DEF SettleNothing, TypeOK, PeriodOK, Stages, store, inputs, books
  <1>4. CASE SettleWallet(r)
    <2>1. pc' \in [Requests -> Stages]
      BY <1>4, GotoType DEF SettleWallet, FundingSettled, Stages, Live, Finished
    <2>2. session' \in [Requests -> Session]
      BY <1>4, <1>s, SessionType DEF SettleWallet, FundingSettled
    <2>3. wallet' \in Int /\ drawn' \in [Requests -> Int]
      BY <1>4, <1>d, LedgerType DEF SettleWallet
    <2> QED BY <1>4, <2>1, <2>2, <2>3 DEF SettleWallet, TypeOK, PeriodOK, Stages, inputs
  <1>5. CASE SettleBucket(r)
    <2>1. pc' \in [Requests -> Stages]
      BY <1>5, GotoType DEF SettleBucket, FundingSettled, Stages, Live, Finished
    <2>2. session' \in [Requests -> Session]
      BY <1>5, <1>s, SessionType DEF SettleBucket, FundingSettled
    <2>3. /\ used' \in [Buckets -> Nat] /\ drawn' \in [Requests -> Int]
          /\ carried' \in [Buckets -> BOOLEAN]
      BY <1>5, <1>d, PostConsumeType DEF SettleBucket
    <2> QED BY <1>5, <2>1, <2>2, <2>3 DEF SettleBucket, TypeOK, PeriodOK, Stages, inputs
  <1>6. CASE SettleFails(r)
    <2>1. pc' \in [Requests -> Stages]
      BY <1>6, GotoType DEF SettleFails, Stages, Live, Finished
    <2>2. faults' \in 0..MaxFaults
      BY <1>6, FaultType DEF SettleFails
    <2> QED BY <1>6, <2>1, <2>2 DEF SettleFails, TypeOK, PeriodOK, Stages, store, inputs, books
  <1>7. CASE SettleToken(r)
    <2>1. pc' \in [Requests -> Stages]
      BY <1>7, GotoType DEF SettleToken, Stages, Live, Finished
    <2>2. session' \in [Requests -> Session]
      BY <1>7, <1>s, SessionType DEF SettleToken
    <2>3. /\ remain' \in [Keys -> Int] /\ tokenDrawn' \in [Requests -> Int]
          /\ faults' \in 0..MaxFaults /\ lost' \in [Requests -> SUBSET Compensations]
      BY <1>7, <1>d, LedgerType, FaultType, LostType DEF SettleToken, TypeOK, Compensations
    <2> QED BY <1>7, <2>1, <2>2, <2>3 DEF SettleToken, TypeOK, PeriodOK, Stages, inputs
  <1> QED BY <1>1, <1>2, <1>3, <1>4, <1>5, <1>6, <1>7 DEF UpstreamStep, SettleStep

\* The refund goroutine and the violation fee
LEMMA TypeRefund ==
  ASSUME TypeInv, NEW r \in Requests, RefundStep(r) \/ FeeStep(r)
  PROVE  TypeInv'
  <1> USE DEF TypeInv
  <1>0. /\ session[r].tokenConsumed \in Int /\ session[r].fundConsumed \in Int
        /\ -session[r].fundConsumed \in Int
    BY DEF TypeOK, Session
  <1>1. CASE RefundWallet(r)
    <2>1. refunder' \in [Requests -> {"idle", "funding", "token", "ended", "crashed"}]
      BY <1>1 DEF RefundWallet, TypeOK
    <2>2. /\ wallet' \in Int /\ drawn' \in [Requests -> Int]
          /\ faults' \in 0..MaxFaults /\ lost' \in [Requests -> SUBSET Compensations]
      BY <1>1, <1>0, LedgerType, FaultType, LostType DEF RefundWallet, TypeOK, Compensations
    <2> QED BY <1>1, <2>1, <2>2 DEF RefundWallet, TypeOK, PeriodOK, inputs
  <1>2. CASE RefundBucket(r)
    <2>1. refunder' \in [Requests -> {"idle", "funding", "token", "ended", "crashed"}]
      BY <1>2 DEF RefundBucket, TypeOK
    <2>2. /\ used' \in [Buckets -> Nat] /\ drawn' \in [Requests -> Int]
          /\ carried' \in [Buckets -> BOOLEAN]
      BY <1>2, <1>0, PostConsumeType DEF RefundBucket, CreditBucket, TypeOK
    <2>3. record' \in [Requests -> {"none", "consumed", "refunded"}]
      BY <1>2 DEF RefundBucket, CreditBucket, TypeOK
    <2> QED BY <1>2, <2>1, <2>2, <2>3 DEF RefundBucket, TypeOK, PeriodOK, inputs
  <1>3. CASE RefundBucketFails(r)
    <2>1. faults' \in 0..MaxFaults
      BY <1>3, FaultType DEF RefundBucketFails
    <2> QED BY <1>3, <2>1, TryAgainType DEF RefundBucketFails, TypeOK, PeriodOK, inputs
  <1>7. CASE RefundBucketUnanswered(r)
    <2>1. /\ used' \in [Buckets -> Nat] /\ drawn' \in [Requests -> Int]
          /\ carried' \in [Buckets -> BOOLEAN]
      BY <1>7, <1>0, PostConsumeType DEF RefundBucketUnanswered, CreditBucket
    <2>2. record' \in [Requests -> {"none", "consumed", "refunded"}]
      BY <1>7 DEF RefundBucketUnanswered, CreditBucket, TypeOK
    <2>3. faults' \in 0..MaxFaults
      BY <1>7, FaultType DEF RefundBucketUnanswered
    <2> QED BY <1>7, <2>1, <2>2, <2>3, TryAgainType
        DEF RefundBucketUnanswered, TypeOK, PeriodOK, inputs
  <1>4. CASE RefundToken(r)
    <2>1. refunder' \in [Requests -> {"idle", "funding", "token", "ended", "crashed"}]
      BY <1>4 DEF RefundToken, TypeOK
    <2>2. /\ remain' \in [Keys -> Int] /\ tokenDrawn' \in [Requests -> Int]
          /\ faults' \in 0..MaxFaults /\ lost' \in [Requests -> SUBSET Compensations]
      BY <1>4, <1>0, LedgerType, FaultType, LostType DEF RefundToken, TypeOK, Compensations
    <2> QED BY <1>4, <2>1, <2>2 DEF RefundToken, TypeOK, PeriodOK, inputs
  <1>5. CASE ChargeFee(r)
    <2>1. pc' \in [Requests -> Stages]
      BY <1>5, GotoType DEF ChargeFee, Stages, Live, Finished
    <2>2. /\ wallet' \in Int /\ faults' \in 0..MaxFaults
          /\ penalty' \in [Requests -> SUBSET {"funding", "token"}]
      BY <1>5, FaultType, ConstantsAssumption DEF ChargeFee, TypeOK
    <2> QED BY <1>5, <2>1, <2>2 DEF ChargeFee, TypeOK, PeriodOK, Stages, inputs, books
  <1>6. CASE ChargeFeeToken(r)
    <2>1. pc' \in [Requests -> Stages]
      BY <1>6, GotoType DEF ChargeFeeToken, Stages, Live, Finished
    <2>2. /\ remain' \in [Keys -> Int] /\ faults' \in 0..MaxFaults
          /\ penalty' \in [Requests -> SUBSET {"funding", "token"}]
      BY <1>6, FaultType, ConstantsAssumption DEF ChargeFeeToken, TypeOK
    <2> QED BY <1>6, <2>1, <2>2 DEF ChargeFeeToken, TypeOK, PeriodOK, Stages, inputs, books
  <1> QED BY <1>1, <1>2, <1>3, <1>4, <1>5, <1>6, <1>7 DEF RefundStep, FeeStep

\* The subscription's periods and end, and crashes
LEMMA TypeEnvironment ==
  ASSUME TypeInv,
         PeriodEnds \/ ResetDueSubscriptions \/ Crash
           \/ \E how \in {"expired", "deleted"} : EndSubscription(how)
  PROVE  TypeInv'
  <1> USE DEF TypeInv
  <1> DEFINE Sub == [status : {"active", "expired", "deleted"},
                     due : BOOLEAN, period : 0..MaxPeriods]
  <1>0. subscription \in Sub
    BY DEF TypeOK
  <1>1. CASE PeriodEnds
    <2>1. subscription' \in Sub /\ PeriodOK'
      BY <1>1, <1>0 DEF PeriodEnds, PeriodOK
    <2> QED BY <1>1, <2>1 DEF PeriodEnds, NothingButSubscription, TypeOK, process, inputs
  <1>2. CASE ResetDueSubscriptions
    <2>1. subscription.period + 1 \in 0..MaxPeriods
      BY <1>2, <1>0, ConstantsAssumption DEF ResetDueSubscriptions, Renewed, PeriodOK
    <2>2. subscription' \in Sub /\ PeriodOK'
      BY <1>2, <2>1, <1>0 DEF ResetDueSubscriptions, Renewed, PeriodOK
    <2>3. used' \in [Buckets -> Nat] /\ carried' \in [Buckets -> BOOLEAN]
      BY <1>2 DEF ResetDueSubscriptions
    <2> QED BY <1>2, <2>2, <2>3 DEF ResetDueSubscriptions, NothingButSubscription, TypeOK,
              process, inputs
  <1>3. ASSUME NEW how \in {"expired", "deleted"}, EndSubscription(how) PROVE TypeInv'
    <2>1. subscription' \in Sub /\ PeriodOK'
      BY <1>3, <1>0 DEF EndSubscription, PeriodOK
    <2>2. keyStatus' \in [Keys -> {"enabled", "exhausted", "disabled"}]
      BY <1>3 DEF EndSubscription, TypeOK
    <2> QED BY <1>3, <2>1, <2>2 DEF EndSubscription, NothingButSubscription, TypeOK,
              process, inputs
  <1>4. CASE Crash
    <2>1. pc' \in [Requests -> Stages]
      BY <1>4 DEF Crash, TypeOK, Stages, Finished
    <2>2. refunder' \in [Requests -> {"idle", "funding", "token", "ended", "crashed"}]
      BY <1>4 DEF Crash, TypeOK
    <2>3. crashes' \in 0..MaxCrashes
      BY <1>4, ConstantsAssumption DEF Crash, TypeOK
    <2> QED BY <1>4, <2>1, <2>2, <2>3 DEF Crash, TypeOK, PeriodOK, Stages, store, inputs, books
  <1> QED BY <1>1, <1>2, <1>3, <1>4

\* Every step of Next, and a stutter, keeps the types
LEMMA TypeStep == TypeInv /\ [Next]_vars => TypeInv'
  <1> SUFFICES ASSUME TypeInv, [Next]_vars PROVE TypeInv'
    OBVIOUS
  <1>1. ASSUME NEW r \in Requests, RequestStep(r) PROVE TypeInv'
    BY <1>1, TypeAdmission, TypeSettlement, TypeRefund DEF RequestStep
  <1>2. CASE UNCHANGED vars
    BY <1>2 DEF TypeInv, TypeOK, PeriodOK, vars, store, process, inputs, books
  <1> QED BY <1>1, <1>2, TypeEnvironment DEF Next

\* Every variable keeps its type; in particular a bucket is never used below
\* zero, which the reset in between makes possible and the floor prevents.
THEOREM TypeCorrect == Spec => []TypeOK
  <1>1. Spec => []TypeInv
    BY TypeInit, TypeStep, PTL DEF Spec
  <1> QED BY <1>1, PTL DEF TypeInv

-----------------------------------------------------------------------------
(***************************************************************************)
(* What each request remembers and what has moved for it                   *)
(***************************************************************************)

\* What the session has on record, and what has moved
Paid(r, key, fund) ==
  /\ session[r].tokenConsumed = key
  /\ session[r].fundConsumed = fund
  /\ session[r].preConsumedQuota = fund

Moved(r, key, fund) == tokenDrawn[r] = key /\ drawn[r] = fund

Unsettled(r) == ~session[r].fundingSettled /\ ~session[r].settled

\* No refund yet, and nothing has gone wrong
Calm(r) ==
  /\ refunder[r] = "idle" /\ ~session[r].refunded
  /\ lost[r] = {} /\ record[r] # "refunded"

If(cond, n) == IF cond THEN n ELSE 0

\* Nothing taken yet
StageFresh(r) ==
  pc[r] \in {"auth", "open", "checkToken", "takeToken"} =>
    Calm(r) /\ Unsettled(r) /\ Paid(r, 0, 0) /\ Moved(r, 0, 0)

\* The key has paid, the funding source has not (or has refused)
StageKeyPaid(r) ==
  pc[r] \in {"takeFunding", "rollback"} =>
    Calm(r) /\ Unsettled(r) /\ Paid(r, amount[r], 0) /\ Moved(r, amount[r], 0)

\* Refused: the key has its quota back unless the rollback was lost
StageRejected(r) ==
  pc[r] = "rejected" =>
    /\ refunder[r] = "idle" /\ Unsettled(r) /\ Paid(r, 0, 0)
    /\ lost[r] \subseteq {"rollback"}
    /\ Moved(r, If("rollback" \in lost[r], amount[r]), 0)

\* Both hold the estimate until the upstream has answered
StageHeld(r) ==
  pc[r] \in {"serving", "settle"} =>
    Calm(r) /\ Unsettled(r) /\ Paid(r, amount[r], amount[r]) /\ Moved(r, amount[r], amount[r])

\* Between the two statements of Settle
StageFunded(r) ==
  pc[r] = "settleToken" =>
    /\ Calm(r) /\ session[r].fundingSettled /\ ~session[r].settled
    /\ Paid(r, amount[r], amount[r]) /\ Moved(r, amount[r], Price(r))

\* Settled, or left with its hold because the settlement was refused
StageServed(r) ==
  pc[r] = "served" =>
    /\ refunder[r] = "idle"
    /\ Paid(r, amount[r], amount[r])
    /\ lost[r] \subseteq {"settleToken"}
    /\ session[r].fundingSettled => session[r].settled /\ drawn[r] = Price(r)
    /\ ~session[r].fundingSettled => lost[r] = {} /\ Moved(r, amount[r], amount[r])
    /\ session[r].settled =>
         tokenDrawn[r] = IF "settleToken" \in lost[r] THEN amount[r] ELSE actual[r]
    /\ session[r].settled /\ ~session[r].fundingSettled => actual[r] = amount[r]

\* Failed: the two statements of the refund, each done, pending or lost
StageFailed(r) ==
  pc[r] \in {"fee", "feeToken", "failed"} =>
    /\ Unsettled(r) /\ Paid(r, amount[r], amount[r])
    /\ lost[r] \subseteq {"refundFunding", "refundToken"}
    /\ refunder[r] = "idle" => lost[r] = {} /\ amount[r] = 0 /\ Moved(r, 0, 0)
    /\ refunder[r] # "idle" => amount[r] > 0
    /\ refunder[r] = "funding" =>
         lost[r] = {} /\ Moved(r, amount[r], If(record[r] # "refunded", amount[r]))
    /\ refunder[r] = "token" =>
         /\ "refundToken" \notin lost[r]
         /\ Moved(r, amount[r], If("refundFunding" \in lost[r], amount[r]))
    /\ refunder[r] = "ended" =>
         Moved(r, If("refundToken" \in lost[r], amount[r]), If("refundFunding" \in lost[r], amount[r]))
    /\ refunder[r] = "crashed" =>
         drawn[r] \in {0, amount[r]} /\ tokenDrawn[r] \in {0, amount[r]}

\* Abandoned by a crash at any of these stages
StageCrashed(r) ==
  pc[r] = "crashed" =>
    /\ refunder[r] = "idle"
    /\ drawn[r] \in {0, amount[r], Price(r)}
    /\ tokenDrawn[r] \in {0, amount[r]}

\* The transaction of the refund has committed, known to the goroutine or not
StageRecord(r) ==
  record[r] = "refunded" =>
    /\ OnBucket(r)
    /\ pc[r] \in {"fee", "feeToken", "failed"} /\ refunder[r] # "idle"
    /\ drawn[r] = 0 /\ "refundFunding" \notin lost[r]

Stage(r) ==
  /\ StageRecord(r)
  /\ StageFresh(r) /\ StageKeyPaid(r) /\ StageRejected(r) /\ StageHeld(r)
  /\ StageFunded(r) /\ StageServed(r) /\ StageFailed(r) /\ StageCrashed(r)

StageInv == \A r \in Requests : Stage(r)

-----------------------------------------------------------------------------
(***************************************************************************)
(* Each step keeps it: the steps of the request itself, by its stages      *)
(***************************************************************************)

\* A step leaves alone all that the invariant says of q
Same(q) ==
  /\ pc'[q] = pc[q] /\ refunder'[q] = refunder[q] /\ session'[q] = session[q]
  /\ amount'[q] = amount[q] /\ actual'[q] = actual[q] /\ tokens'[q] = tokens[q]
  /\ drawn'[q] = drawn[q] /\ tokenDrawn'[q] = tokenDrawn[q]
  /\ lost'[q] = lost[q] /\ record'[q] = record[q]

\* What a step does to the charge of r: nothing, or the one of the moves of
\* PrepaidCharge that the phase of r allows
Advance(r) ==
  \/ Phase(r)' = Phase(r) /\ drawn'[r] = drawn[r]
  \/ /\ Phase(r) = "open"
     /\ \/ Phase(r)' = "open" /\ drawn[r] = 0
        \/ Phase(r)' = "charged"
        \/ Phase(r)' = "released" /\ drawn'[r] = 0
        \/ Phase(r)' = "kept" /\ drawn'[r] = drawn[r]

\* What a step of nobody's in particular does to it
Stays(r) ==
  /\ drawn'[r] = drawn[r]
  /\ Phase(r)' = Phase(r) \/ (Phase(r) = "open" /\ Phase(r)' = "kept")

\* Such a step keeps the invariant of q
LEMMA Frame ==
  ASSUME NEW q \in Requests, Stage(q), Same(q)
  PROVE  Stage(q)'
  BY SMTT(30) DEF Same, Stage, StageFresh, StageKeyPaid, StageRejected, StageHeld,
         StageFunded, StageServed, StageFailed, StageCrashed, StageRecord, Paid, Moved,
         Unsettled, Calm, If, Price

\* Authentication, the hold on the key and on the funding source, and the
\* rollback of the first when the second fails (preConsume)
LEMMA StageAdmission ==
  ASSUME TypeOK, NEW r \in Requests, Stage(r), TokenAuth(r) \/ PreConsumeStep(r)
  PROVE  Stage(r)' /\ Advance(r) /\ \A q \in Requests \ {r} : Same(q)
  <1> USE DEF Stage, StageFresh, StageKeyPaid, StageRejected, StageHeld,
         StageFunded, StageServed, StageFailed, StageCrashed, StageRecord, Paid, Moved,
         Unsettled, Calm, If, Price
  <1>0. session[r] \in Session /\ amount[r] \in Nat /\ actual[r] \in Nat /\ tokens[r] \in Nat
        /\ pc[r] \in Stages /\ Route[r] \in Buckets \union {"wallet"}
    BY ConstantsAssumption DEF TypeOK, Stages
  <1>1. CASE TokenAuth(r)
    <2>1. \A q \in Requests \ {r} : Same(q)
      BY <1>1 DEF TokenAuth, Goto, books, Same, TypeOK
    <2>2. /\ pc[r] = "auth" /\ pc'[r] \in {"open", "rejected"}
          /\ UNCHANGED <<refunder, session, amount, actual, tokens, drawn, tokenDrawn, lost, record>>
      BY <1>1, <1>0 DEF TokenAuth, At, Goto, books, TypeOK
    <2>3. Stage(r)'
      BY <2>2, <1>0 DEF Session, Stages
    <2>4. Advance(r)
      BY <2>2, <1>0, <2>3 DEF Advance, Phase, Session, Stages
    <2> QED BY <2>1, <2>3, <2>4
  <1>2. ASSUME NEW q \in Quotas, OpenOnWallet(r, q) \/ OpenOnSubscription(r, q)
        PROVE  Stage(r)' /\ Advance(r) /\ \A s \in Requests \ {r} : Same(s)
    <2>1. \A s \in Requests \ {r} : Same(s)
      BY <1>2 DEF OpenOnWallet, OpenOnSubscription, Goto, store, books, Same, TypeOK
    <2>2. /\ pc[r] = "open" /\ pc'[r] \in {"rejected", "checkToken", "takeFunding"}
          /\ pc'[r] = "takeFunding" => amount'[r] = 0
          /\ UNCHANGED <<refunder, session, actual, tokens, drawn, tokenDrawn, lost, record>>
      BY <1>2, <1>0, ConstantsAssumption DEF OpenOnWallet, OpenOnSubscription, At, Goto,
         store, books, TypeOK
    <2>3. Stage(r)'
      BY <2>2, <1>0 DEF Session, Stages
    <2>4. Advance(r)
      BY <2>2, <1>0, <2>3 DEF Advance, Phase, Session, Stages
    <2> QED BY <2>1, <2>3, <2>4
  <1>3. CASE CheckToken(r)
    <2>1. \A q \in Requests \ {r} : Same(q)
      BY <1>3 DEF CheckToken, Goto, store, inputs, books, Same, TypeOK
    <2>2. /\ pc[r] = "checkToken" /\ pc'[r] \in {"rejected", "takeToken"}
          /\ UNCHANGED <<refunder, session, amount, actual, tokens, drawn, tokenDrawn, lost, record>>
      BY <1>3, <1>0 DEF CheckToken, At, Goto, store, inputs, books, TypeOK
    <2>3. Stage(r)'
      BY <2>2, <1>0 DEF Session, Stages
    <2>4. Advance(r)
      BY <2>2, <1>0, <2>3 DEF Advance, Phase, Session, Stages
    <2> QED BY <2>1, <2>3, <2>4
  <1>4. CASE TakeToken(r)
    <2>1. \A q \in Requests \ {r} : Same(q)
      BY <1>4 DEF TakeToken, Goto, AddToKey, UpdateSession, inputs, Same, TypeOK
    <2>2. /\ pc[r] = "takeToken"
          /\ UNCHANGED <<refunder, amount, actual, tokens, drawn, lost, record>>
          /\ \/ /\ pc'[r] = "takeFunding"
                /\ session'[r] = [session[r] EXCEPT !.tokenConsumed = amount[r]]
                /\ tokenDrawn'[r] = tokenDrawn[r] + amount[r]
             \/ pc'[r] = "rejected" /\ UNCHANGED <<session, tokenDrawn>>
      BY <1>4, <1>0 DEF TakeToken, At, Goto, AddToKey, UpdateSession, inputs, TypeOK
    <2>3. Stage(r)'
      BY <2>2, <1>0 DEF Session, Stages
    <2>4. Advance(r)
      BY <2>2, <1>0, <2>3 DEF Advance, Phase, Session, Stages
    <2> QED BY <2>1, <2>3, <2>4
  <1>5. CASE TakeFromWallet(r)
    <2>1. \A q \in Requests \ {r} : Same(q)
      BY <1>5 DEF TakeFromWallet, Hold, AbortHold, Goto, AddToWallet, UpdateSession, inputs,
                  Same, TypeOK
    <2>2. pc[r] = "takeFunding" /\ UNCHANGED <<refunder, amount, actual, tokens, tokenDrawn, lost>>
      BY <1>5 DEF TakeFromWallet, At, inputs
    <2>3. \/ Hold(r) /\ AddToWallet(r, -amount[r]) /\ UNCHANGED record
          \/ AbortHold(r) /\ UNCHANGED <<drawn, record>>
      BY <1>5, Zenon DEF TakeFromWallet
    <2>4. CASE Hold(r) /\ AddToWallet(r, -amount[r]) /\ UNCHANGED record
      <3>1. /\ pc'[r] = "serving"
            /\ session'[r] = [session[r] EXCEPT !.fundConsumed = amount[r],
                                                !.preConsumedQuota = amount[r]]
            /\ drawn'[r] = amount[r] /\ record'[r] # "refunded"
        BY <2>4, <2>2, <1>0 DEF Hold, Goto, UpdateSession, AddToWallet, TypeOK
      <3>2. Stage(r)'
        BY <2>2, <3>1, <1>0 DEF Session, Stages
      <3>3. Advance(r)
        BY <2>2, <3>1, <1>0, <3>2 DEF Advance, Phase, Session, Stages
      <3> QED BY <2>1, <3>2, <3>3
    <2>5. CASE AbortHold(r) /\ UNCHANGED <<drawn, record>>
      <3>1. /\ pc'[r] \in {"rollback", "rejected"} /\ UNCHANGED <<session, drawn, record>>
            /\ pc'[r] = "rejected" => amount[r] = 0
        BY <2>5, <2>2, <1>0 DEF AbortHold, Goto, TypeOK, Session
      <3>2. Stage(r)'
        BY <2>2, <3>1, <1>0 DEF Session, Stages
      <3>3. Advance(r)
        BY <2>2, <3>1, <1>0, <3>2 DEF Advance, Phase, Session, Stages
      <3> QED BY <2>1, <3>2, <3>3
    <2> QED BY <2>1, <2>3, <2>4, <2>5
  <1>6. CASE TakeFromBucket(r)
    <2>1. \A q \in Requests \ {r} : Same(q)
      BY <1>6 DEF TakeFromBucket, Hold, AbortHold, Goto, UpdateSession, inputs, Same, TypeOK
    <2>2. pc[r] = "takeFunding" /\ UNCHANGED <<refunder, amount, actual, tokens, tokenDrawn, lost>>
      BY <1>6 DEF TakeFromBucket, At, inputs
    <2>3. \/ Hold(r) /\ drawn' = [drawn EXCEPT ![r] = amount[r]]
                /\ record' = [record EXCEPT ![r] = "consumed"]
          \/ AbortHold(r) /\ UNCHANGED <<drawn, record>>
      BY <1>6, Zenon DEF TakeFromBucket
    <2>4. CASE Hold(r) /\ drawn' = [drawn EXCEPT ![r] = amount[r]]
                /\ record' = [record EXCEPT ![r] = "consumed"]
      <3>1. /\ pc'[r] = "serving"
            /\ session'[r] = [session[r] EXCEPT !.fundConsumed = amount[r],
                                                !.preConsumedQuota = amount[r]]
            /\ drawn'[r] = amount[r] /\ record'[r] # "refunded"
        BY <2>4, <2>2 DEF Hold, Goto, UpdateSession, TypeOK
      <3>2. Stage(r)'
        BY <2>2, <3>1, <1>0 DEF Session, Stages
      <3>3. Advance(r)
        BY <2>2, <3>1, <1>0, <3>2 DEF Advance, Phase, Session, Stages
      <3> QED BY <2>1, <3>2, <3>3
    <2>5. CASE AbortHold(r) /\ UNCHANGED <<drawn, record>>
      <3>1. /\ pc'[r] \in {"rollback", "rejected"} /\ UNCHANGED <<session, drawn, record>>
            /\ pc'[r] = "rejected" => amount[r] = 0
        BY <2>5, <2>2, <1>0 DEF AbortHold, Goto, TypeOK, Session
      <3>2. Stage(r)'
        BY <2>2, <3>1, <1>0 DEF Session, Stages
      <3>3. Advance(r)
        BY <2>2, <3>1, <1>0, <3>2 DEF Advance, Phase, Session, Stages
      <3> QED BY <2>1, <3>2, <3>3
    <2> QED BY <2>1, <2>3, <2>4, <2>5
  <1>7. CASE RollbackToken(r)
    <2>1. \A q \in Requests \ {r} : Same(q)
      BY <1>7 DEF RollbackToken, Goto, AddToKey, UpdateSession, inputs, Same, TypeOK
    <2>2. /\ pc[r] = "rollback" /\ pc'[r] = "rejected"
          /\ UNCHANGED <<refunder, amount, actual, tokens, drawn, record>>
          /\ session'[r] = [session[r] EXCEPT !.tokenConsumed = 0]
          /\ \/ tokenDrawn'[r] = tokenDrawn[r] - session[r].tokenConsumed /\ lost' = lost
             \/ tokenDrawn' = tokenDrawn /\ lost'[r] = lost[r] \union {"rollback"}
      BY <1>7, <1>0 DEF RollbackToken, At, Goto, AddToKey, UpdateSession, inputs, Session,
                        TypeOK
    <2>3. Stage(r)'
      BY <2>2, <1>0 DEF Session, Stages
    <2>4. Advance(r)
      BY <2>2, <1>0, <2>3 DEF Advance, Phase, Session, Stages
    <2> QED BY <2>1, <2>3, <2>4
  <1> QED BY <1>1, <1>2, <1>3, <1>4, <1>5, <1>6, <1>7 DEF PreConsumeStep

\* The upstream's answer, and the two statements of Settle: the delta each
\* books is computed from what the session remembers of its hold
LEMMA StageSettlement ==
  ASSUME TypeOK, NEW r \in Requests, Stage(r), UpstreamStep(r) \/ SettleStep(r)
  PROVE  Stage(r)' /\ Advance(r) /\ \A q \in Requests \ {r} : Same(q)
  <1> USE DEF Stage, StageFresh, StageKeyPaid, StageRejected, StageHeld,
         StageFunded, StageServed, StageFailed, StageCrashed, StageRecord, Paid, Moved,
         Unsettled, Calm, If, Price
  <1>0. session[r] \in Session /\ amount[r] \in Nat /\ actual[r] \in Nat /\ tokens[r] \in Nat
        /\ pc[r] \in Stages /\ Route[r] \in Buckets \union {"wallet"}
    BY ConstantsAssumption DEF TypeOK, Stages
  <1>1. ASSUME NEW m \in Quotas, NEW n \in Quotas, Answered(r, m, n)
        PROVE  Stage(r)' /\ Advance(r) /\ \A q \in Requests \ {r} : Same(q)
    <2>1. \A q \in Requests \ {r} : Same(q)
      BY <1>1 DEF Answered, Goto, store, books, Same, TypeOK
    <2>2. /\ pc[r] = "serving" /\ pc'[r] = "settle"
          /\ UNCHANGED <<refunder, session, amount, drawn, tokenDrawn, lost, record>>
      BY <1>1, <1>0 DEF Answered, At, Goto, store, books, TypeOK
    <2>3. Stage(r)'
      BY <2>2, <1>0 DEF Session, Stages
    <2>4. Advance(r)
      BY <2>2, <1>0, <2>3 DEF Advance, Phase, Session, Stages
    <2> QED BY <2>1, <2>3, <2>4
  <1>2. ASSUME NEW violation \in BOOLEAN, Failed(r, violation)
        PROVE  Stage(r)' /\ Advance(r) /\ \A q \in Requests \ {r} : Same(q)
    <2>1. \A q \in Requests \ {r} : Same(q)
      BY <1>2 DEF Failed, UpdateSession, Goto, store, inputs, books, Same, TypeOK
    <2>2. pc[r] = "serving" /\ IF NeedsRefund(r) THEN amount[r] > 0 ELSE amount[r] = 0
      BY <1>2, <1>0 DEF Failed, At, NeedsRefund, Session
    <2>3. /\ pc'[r] \in {"fee", "failed"}
          /\ UNCHANGED <<amount, actual, tokens, drawn, tokenDrawn, lost, record>>
          /\ \/ /\ session'[r] = [session[r] EXCEPT !.refunded = TRUE]
                /\ refunder'[r] = "funding" /\ amount[r] > 0
             \/ amount[r] = 0 /\ UNCHANGED <<session, refunder>>
      <3>1. \/ /\ UpdateSession(r, [session[r] EXCEPT !.refunded = TRUE])
               /\ refunder' = [refunder EXCEPT ![r] = "funding"]
               /\ amount[r] > 0
            \/ amount[r] = 0 /\ UNCHANGED <<session, refunder>>
        BY <1>2, <2>2, Zenon DEF Failed
      <3>2. pc'[r] \in {"fee", "failed"}
        BY <1>2 DEF Failed, Goto, TypeOK
      <3>3. UNCHANGED <<amount, actual, tokens, drawn, tokenDrawn, lost, record>>
        BY <1>2 DEF Failed, store, inputs, books
      <3> QED BY <3>1, <3>2, <3>3 DEF UpdateSession, TypeOK
    <2>4. /\ session'[r].fundingSettled = FALSE /\ session'[r].settled = FALSE
          /\ session'[r].tokenConsumed = amount[r] /\ session'[r].fundConsumed = amount[r]
          /\ session'[r].preConsumedQuota = amount[r]
          /\ \/ refunder'[r] = "funding" /\ amount[r] > 0
             \/ refunder'[r] = "idle" /\ amount[r] = 0
      BY <2>2, <2>3, <1>0 DEF Session
    <2>5. Stage(r)'
      BY <2>2, <2>3, <2>4
    <2>6. Advance(r)
      BY <2>2, <2>3, <2>4, <2>5 DEF Advance, Phase, Session, Stages
    <2> QED BY <2>1, <2>5, <2>6
  <1>3. CASE SettleNothing(r)
    <2>1. \A q \in Requests \ {r} : Same(q)
      BY <1>3 DEF SettleNothing, Goto, UpdateSession, store, inputs, books, Same, TypeOK
    <2>2. /\ pc[r] = "settle" /\ pc'[r] = "served"
          /\ UNCHANGED <<refunder, amount, actual, tokens, drawn, tokenDrawn, lost, record>>
          /\ session'[r] = [session[r] EXCEPT !.settled = TRUE]
          /\ Delta(r) = 0
      BY <1>3, <1>0 DEF SettleNothing, At, Goto, UpdateSession, store, inputs, books, TypeOK
    <2>3. Stage(r)'
      BY <2>2, <1>0 DEF Session, Stages, Delta
    <2>4. Advance(r)
      BY <2>2, <1>0, <2>3 DEF Advance, Phase, Session, Stages
    <2> QED BY <2>1, <2>3, <2>4
  <1>4. CASE SettleWallet(r)
    <2>1. \A q \in Requests \ {r} : Same(q)
      BY <1>4 DEF SettleWallet, FundingSettled, Goto, UpdateSession, AddToWallet, inputs,
                  Same, TypeOK
    <2>2. /\ Route[r] = "wallet" /\ pc[r] = "settle" /\ pc'[r] = "settleToken"
          /\ UNCHANGED <<refunder, amount, actual, tokens, tokenDrawn, lost, record>>
          /\ session'[r] = [session[r] EXCEPT !.fundingSettled = TRUE]
          /\ drawn'[r] = drawn[r] + Delta(r)
      BY <1>4, <1>0 DEF SettleWallet, FundingSettled, OnWallet, At, Goto, UpdateSession,
                        AddToWallet, Delta, Session, inputs, TypeOK
    <2>3. Stage(r)'
      BY <2>2, <1>0 DEF Session, Stages, Delta
    <2>4. Advance(r)
      BY <2>2, <1>0, <2>3 DEF Advance, Phase, Session, Stages
    <2> QED BY <2>1, <2>3, <2>4
  <1>5. CASE SettleBucket(r)
    <2>1. \A q \in Requests \ {r} : Same(q)
      BY <1>5 DEF SettleBucket, PostConsume, FundingSettled, Goto, UpdateSession, inputs,
                  Same, TypeOK
    <2>2. /\ Route[r] \in Buckets /\ pc[r] = "settle" /\ pc'[r] = "settleToken"
          /\ UNCHANGED <<refunder, amount, actual, tokens, tokenDrawn, lost, record>>
          /\ session'[r] = [session[r] EXCEPT !.fundingSettled = TRUE]
          /\ drawn'[r] = drawn[r] + BucketDelta(r)
      BY <1>5, <1>0 DEF SettleBucket, PostConsume, FundingSettled, OnBucket, At, Goto,
                        UpdateSession, inputs, TypeOK
    <2>3. Stage(r)'
      BY <2>2, <1>0 DEF Session, Stages, Delta, BucketDelta, Buckets
    <2>4. Advance(r)
      BY <2>2, <1>0, <2>3 DEF Advance, Phase, Session, Stages
    <2> QED BY <2>1, <2>3, <2>4
  <1>6. CASE SettleFails(r)
    <2>1. \A q \in Requests \ {r} : Same(q)
      BY <1>6 DEF SettleFails, Goto, store, inputs, books, Same, TypeOK
    <2>2. /\ pc[r] = "settle" /\ pc'[r] = "served"
          /\ UNCHANGED <<refunder, session, amount, actual, tokens, drawn, tokenDrawn, lost, record>>
      BY <1>6, <1>0 DEF SettleFails, At, Goto, store, inputs, books, TypeOK
    <2>3. Stage(r)'
      BY <2>2, <1>0 DEF Session, Stages
    <2>4. Advance(r)
      BY <2>2, <1>0, <2>3 DEF Advance, Phase, Session, Stages
    <2> QED BY <2>1, <2>3, <2>4
  <1>7. CASE SettleToken(r)
    <2>1. \A q \in Requests \ {r} : Same(q)
      BY <1>7 DEF SettleToken, Goto, UpdateSession, AddToKey, inputs, Same, TypeOK
    <2>2. /\ pc[r] = "settleToken" /\ pc'[r] = "served"
          /\ UNCHANGED <<refunder, amount, actual, tokens, drawn, record>>
          /\ session'[r] = [session[r] EXCEPT !.settled = TRUE]
          /\ \/ tokenDrawn'[r] = tokenDrawn[r] + Delta(r) /\ lost' = lost
             \/ tokenDrawn' = tokenDrawn /\ lost'[r] = lost[r] \union {"settleToken"}
      BY <1>7, <1>0 DEF SettleToken, At, Goto, UpdateSession, AddToKey, Delta, Session,
                        inputs, TypeOK
    <2>3. Stage(r)'
      BY <2>2, <1>0 DEF Session, Stages, Delta
    <2>4. Advance(r)
      BY <2>2, <1>0, <2>3 DEF Advance, Phase, Session, Stages
    <2> QED BY <2>1, <2>3, <2>4
  <1> QED BY <1>1, <1>2, <1>3, <1>4, <1>5, <1>6, <1>7 DEF UpstreamStep, SettleStep

\* The statements of the refund goroutine, which give back what the session
\* remembers, and of the violation fee, which is booked apart
LEMMA StageRefund ==
  ASSUME TypeOK, NEW r \in Requests, Stage(r), RefundStep(r) \/ FeeStep(r)
  PROVE  Stage(r)' /\ Advance(r) /\ \A q \in Requests \ {r} : Same(q)
  <1> USE DEF Stage, StageFresh, StageKeyPaid, StageRejected, StageHeld,
         StageFunded, StageServed, StageFailed, StageCrashed, StageRecord, Paid, Moved,
         Unsettled, Calm, If, Price
  <1>0. session[r] \in Session /\ amount[r] \in Nat /\ actual[r] \in Nat /\ tokens[r] \in Nat
        /\ pc[r] \in Stages /\ Route[r] \in Buckets \union {"wallet"}
    BY ConstantsAssumption DEF TypeOK, Stages
  <1>1. CASE RefundWallet(r)
    <2>1. \A q \in Requests \ {r} : Same(q)
      BY <1>1 DEF RefundWallet, AddToWallet, inputs, Same, TypeOK
    <2>2. /\ refunder[r] = "funding" /\ refunder'[r] = "token" /\ pc' = pc /\ ~OnBucket(r)
          /\ UNCHANGED <<session, amount, actual, tokens, tokenDrawn, record>>
          /\ \/ drawn'[r] = drawn[r] - session[r].fundConsumed /\ lost' = lost
             \/ drawn' = drawn /\ lost'[r] = lost[r] \union {"refundFunding"}
      BY <1>1, <1>0 DEF RefundWallet, AddToWallet, OnWallet, OnBucket, Buckets, inputs,
                        Session, TypeOK
    <2>3. Stage(r)'
      BY <2>2, <1>0 DEF Session, Stages
    <2>4. /\ pc[r] \in {"fee", "feeToken", "failed"} /\ Unsettled(r)
          /\ lost[r] = {} /\ session[r].fundConsumed = amount[r]
          /\ record[r] # "refunded" /\ drawn[r] = amount[r]
      <3>1. pc[r] \in {"fee", "feeToken", "failed"}
        BY <2>2, <1>0 DEF Stages, Live, Finished
      <3> QED BY <2>2, <3>1
    <2>5. Advance(r)
      BY <2>2, <2>4, <1>0 DEF Advance, Phase
    <2> QED BY <2>1, <2>3, <2>5
  <1>2. ASSUME refunder[r] = "funding"
        PROVE  /\ pc[r] \in {"fee", "feeToken", "failed"} /\ Unsettled(r)
               /\ lost[r] = {} /\ session[r].fundConsumed = amount[r]
               /\ drawn[r] = If(record[r] # "refunded", amount[r])
    <2>1. pc[r] \in {"fee", "feeToken", "failed"}
      BY <1>2, <1>0 DEF Stages, Live, Finished
    <2> QED BY <1>2, <2>1
  <1>3. ASSUME RefundBucket(r) \/ RefundBucketFails(r) \/ RefundBucketUnanswered(r)
        PROVE  Stage(r)' /\ Advance(r) /\ \A q \in Requests \ {r} : Same(q)
    <2>1. \A q \in Requests \ {r} : Same(q)
      BY <1>3 DEF RefundBucket, RefundBucketFails, RefundBucketUnanswered, CreditBucket,
                  TryAgain, PostConsume, inputs, Same, TypeOK
    <2>2. /\ refunder[r] = "funding" /\ OnBucket(r) /\ pc' = pc
          /\ UNCHANGED <<session, amount, actual, tokens, tokenDrawn>>
      BY <1>3 DEF RefundBucket, RefundBucketFails, RefundBucketUnanswered, inputs
    <2>3. \/ record' = record /\ drawn' = drawn
          \/ /\ record[r] # "refunded" /\ record'[r] = "refunded"
             /\ drawn'[r] = drawn[r] - session[r].fundConsumed
      BY <1>3, <1>0 DEF RefundBucket, RefundBucketFails, RefundBucketUnanswered, CreditBucket,
                        PostConsume, Session, TypeOK
    <2>4. \/ UNCHANGED <<refunder, lost>>
          \/ refunder'[r] = "token" /\ lost' = lost /\ record'[r] = "refunded"
          \/ /\ refunder'[r] = "token" /\ lost'[r] = lost[r] \union {"refundFunding"}
             /\ record'[r] # "refunded"
      <3>1. CASE RefundBucket(r)
        BY <3>1 DEF RefundBucket, CreditBucket, TypeOK
      <3>2. CASE TryAgain(r)
        BY <3>2 DEF TryAgain, TypeOK
      <3> QED BY <1>3, <3>1, <3>2 DEF RefundBucketFails, RefundBucketUnanswered
    <2>5. /\ pc[r] \in {"fee", "feeToken", "failed"} /\ Unsettled(r)
          /\ lost[r] = {} /\ session[r].fundConsumed = amount[r]
          /\ drawn[r] = If(record[r] # "refunded", amount[r])
      BY <1>2, <2>2
    <2>6. drawn'[r] = If(record'[r] # "refunded", amount[r])
      BY <1>0, <2>3, <2>5
    <2>7. Stage(r)'
      <3>1. StageRecord(r)'
        BY <2>2, <2>3, <2>4, <2>5, <2>6, <1>0
      <3>2. StageFailed(r)'
        BY <2>2, <2>4, <2>5, <2>6, <1>0
      <3> QED BY <2>2, <2>5, <3>1, <3>2
    <2>8. Advance(r)
      BY <2>2, <2>3, <2>4, <2>5, <2>6, <1>0 DEF Advance, Phase
    <2> QED BY <2>1, <2>7, <2>8
  <1>4. CASE RefundToken(r)
    <2>1. \A q \in Requests \ {r} : Same(q)
      BY <1>4 DEF RefundToken, AddToKey, inputs, Same, TypeOK
    <2>2. /\ refunder[r] = "token" /\ refunder'[r] = "ended" /\ pc' = pc
          /\ UNCHANGED <<session, amount, actual, tokens, drawn, record>>
          /\ \/ tokenDrawn'[r] = tokenDrawn[r] - session[r].tokenConsumed /\ lost' = lost
             \/ tokenDrawn' = tokenDrawn /\ lost'[r] = lost[r] \union {"refundToken"}
      BY <1>4, <1>0 DEF RefundToken, AddToKey, inputs, Session, TypeOK
    <2>3. Stage(r)'
      BY <2>2, <1>0 DEF Session, Stages
    <2>4. Advance(r)
      BY <2>2, <1>0, <2>3 DEF Advance, Phase, Session, Stages
    <2> QED BY <2>1, <2>3, <2>4
  <1>5. CASE ChargeFee(r)
    <2>1. \A q \in Requests \ {r} : Same(q)
      BY <1>5 DEF ChargeFee, Goto, inputs, books, Same, TypeOK
    <2>2. /\ pc[r] = "fee" /\ pc'[r] \in {"feeToken", "failed"}
          /\ UNCHANGED <<refunder, session, amount, actual, tokens, drawn, tokenDrawn, lost, record>>
      BY <1>5, <1>0 DEF ChargeFee, At, Goto, inputs, books, TypeOK
    <2>3. Stage(r)'
      BY <2>2, <1>0 DEF Session, Stages
    <2>4. Advance(r)
      BY <2>2, <1>0, <2>3 DEF Advance, Phase, Session, Stages
    <2> QED BY <2>1, <2>3, <2>4
  <1>6. CASE ChargeFeeToken(r)
    <2>1. \A q \in Requests \ {r} : Same(q)
      BY <1>6 DEF ChargeFeeToken, Goto, inputs, books, Same, TypeOK
    <2>2. /\ pc[r] = "feeToken" /\ pc'[r] = "failed"
          /\ UNCHANGED <<refunder, session, amount, actual, tokens, drawn, tokenDrawn, lost, record>>
      BY <1>6, <1>0 DEF ChargeFeeToken, At, Goto, inputs, books, TypeOK
    <2>3. Stage(r)'
      BY <2>2, <1>0 DEF Session, Stages
    <2>4. Advance(r)
      BY <2>2, <1>0, <2>3 DEF Advance, Phase, Session, Stages
    <2> QED BY <2>1, <2>3, <2>4
  <1> QED BY <1>1, <1>3, <1>4, <1>5, <1>6 DEF RefundStep, FeeStep

\* A reset or the end of the subscription clears a bucket's use but no
\* session; a crash stops the request where it stands
LEMMA StageEnvironment ==
  ASSUME TypeOK, NEW r \in Requests, Stage(r),
         PeriodEnds \/ ResetDueSubscriptions \/ Crash
           \/ \E how \in {"expired", "deleted"} : EndSubscription(how)
  PROVE  Stage(r)' /\ Stays(r)
  <1> DEFINE Elsewhere == UNCHANGED <<process, inputs, drawn, tokenDrawn, lost, record>>
  <1>1. CASE PeriodEnds \/ ResetDueSubscriptions
               \/ \E how \in {"expired", "deleted"} : EndSubscription(how)
    <2>1. Elsewhere
      BY <1>1 DEF PeriodEnds, ResetDueSubscriptions, EndSubscription, NothingButSubscription
    <2>2. Same(r)
      BY <2>1 DEF Same, process, inputs
    <2>3. Stays(r)
      BY <2>2 DEF Same, Stays, Phase
    <2> QED BY <2>2, <2>3, Frame
  <1>2. CASE Crash
    <2>1. UNCHANGED <<session, amount, actual, tokens, drawn, tokenDrawn, lost, record>>
      BY <1>2 DEF Crash, store, inputs, books
    <2>2. pc'[r] = IF pc[r] \in {"fee", "feeToken"} THEN "failed"
                   ELSE IF pc[r] \in Live \ {"auth"} THEN "crashed" ELSE pc[r]
      BY <1>2 DEF Crash, TypeOK
    <2>3. refunder'[r] = IF refunder[r] \in {"funding", "token"} THEN "crashed" ELSE refunder[r]
      BY <1>2 DEF Crash, TypeOK
    <2>4. session[r] \in Session /\ amount[r] \in Nat /\ actual[r] \in Nat /\ tokens[r] \in Nat
          /\ pc[r] \in Stages
      BY DEF TypeOK, Stages
    <2>5. Stage(r)'
      BY <2>1, <2>2, <2>3, <2>4
      DEF Stages, Live, Finished, Session, Stage, StageFresh, StageKeyPaid, StageRejected,
          StageHeld, StageFunded, StageServed, StageFailed, StageCrashed, StageRecord, Paid, Moved,
          Unsettled, Calm, If, Price
    <2>6. Stays(r)
      BY <2>1, <2>2, <2>3, <2>4
      DEF Stages, Live, Finished, Session, Stage, StageFresh, StageKeyPaid, StageRejected,
          StageHeld, StageFunded, StageServed, StageFailed, StageCrashed, StageRecord, Paid, Moved,
          Unsettled, Calm, If, Price, Stays, Phase
    <2> QED BY <2>5, <2>6
  <1> QED BY <1>1, <1>2

\* Before a request arrives nothing is held
LEMMA StageInit == Init => StageInv
  BY DEF Init, NewSession, StageInv, Stage, StageFresh, StageKeyPaid, StageRejected, StageHeld,
     StageFunded, StageServed, StageFailed, StageCrashed, StageRecord, Paid, Moved, Unsettled,
     Calm

\* The invariant is inductive relative to the types: the request that takes
\* the step by the lemmas above, the others by Frame
LEMMA StageStep == TypeInv /\ StageInv /\ [Next]_vars => StageInv'
  <1> SUFFICES ASSUME TypeOK, StageInv, [Next]_vars, NEW q \in Requests
               PROVE  Stage(q)'
    BY DEF TypeInv, StageInv
  <1>1. ASSUME NEW r \in Requests, RequestStep(r)
        PROVE  Stage(q)'
    <2>1. Stage(r)' /\ \A s \in Requests \ {r} : Same(s)
      BY <1>1, StageAdmission, StageSettlement, StageRefund DEF RequestStep, StageInv
    <2> QED BY <2>1, Frame DEF StageInv
  <1>2. CASE UNCHANGED vars
    <2>1. Same(q)
      BY <1>2 DEF vars, store, process, inputs, books, Same
    <2> QED BY <2>1, Frame DEF StageInv
  <1> QED BY <1>1, <1>2, StageEnvironment DEF Next, StageInv

\* In every state the program reaches, every request is in one of the stages
LEMMA StagesHold == Spec => [](TypeOK /\ StageInv)
  <1>1. Init => TypeInv /\ StageInv
    BY TypeInit, StageInit
  <1>2. TypeInv /\ StageInv /\ [Next]_vars => (TypeInv /\ StageInv)'
    BY TypeStep, StageStep
  <1>3. Spec => [](TypeInv /\ StageInv)
    BY <1>1, <1>2, PTL DEF Spec
  <1>4. TypeInv /\ StageInv => TypeOK /\ StageInv
    BY DEF TypeInv
  <1> QED BY <1>3, <1>4, PTL

-----------------------------------------------------------------------------
(***************************************************************************)
(* What follows                                                            *)
(***************************************************************************)

\* Outside a crash, and whatever statements failed, the amounts the
\* BillingSession remembers are the amounts taken from the wallet or bucket
\* and from the key, so Settle and Refund compute from the truth.
THEOREM BooksAlwaysAgree == Spec => []BooksAgree
  <1>1. TypeOK /\ StageInv => BooksAgree
    <2> SUFFICES ASSUME TypeOK, StageInv, NEW r \in Requests, Unharmed(r)
                 PROVE  drawn[r] = FundingBooked(r) /\ tokenDrawn[r] = KeyBooked(r)
      BY DEF BooksAgree
    <2> USE DEF Stage, StageRecord, Unharmed, FundingBooked, KeyBooked, Paid, Moved, Unsettled,
              Calm, If
    <2>0. Stage(r) /\ pc[r] \in Stages \ {"crashed"}
      BY DEF StageInv, TypeOK, Stages
    <2>1. CASE pc[r] \in {"auth", "open", "checkToken", "takeToken"}
      BY <2>0, <2>1 DEF StageFresh
    <2>2. CASE pc[r] \in {"takeFunding", "rollback"}
      BY <2>0, <2>2 DEF StageKeyPaid
    <2>3. CASE pc[r] = "rejected"
      BY <2>0, <2>3 DEF StageRejected
    <2>4. CASE pc[r] \in {"serving", "settle"}
      BY <2>0, <2>4 DEF StageHeld
    <2>5. CASE pc[r] = "settleToken"
      BY <2>0, <2>5 DEF StageFunded
    <2>6. CASE pc[r] = "served"
      BY <2>0, <2>6 DEF StageServed
    <2>7. CASE pc[r] \in {"fee", "feeToken", "failed"}
      <3>1. refunder[r] \in {"idle", "funding", "token", "ended"}
        BY DEF TypeOK
      <3> QED BY <2>0, <2>7, <3>1 DEF StageFailed
    <2> QED BY <2>0, <2>1, <2>2, <2>3, <2>4, <2>5, <2>6, <2>7 DEF Stages, Live, Finished
  <1> QED BY <1>1, StagesHold, PTL

\* A request whose handler and refund are over, and none of whose compensating
\* statements was lost, has paid its price on both ledgers, its hold if Settle
\* was refused, or nothing.
THEOREM ChargedOnce == Spec => []ChargedOnceOrNotAtAll
  <1>1. TypeOK /\ StageInv => ChargedOnceOrNotAtAll
    <2>1. ASSUME TypeOK, StageInv, NEW r \in Requests, lost[r] = {}
          PROVE  /\ pc[r] = "rejected" => drawn[r] = 0 /\ tokenDrawn[r] = 0
                 /\ pc[r] = "failed" /\ refunder[r] \in {"idle", "ended"} =>
                      drawn[r] = 0 /\ tokenDrawn[r] = 0
      BY <2>1 DEF StageInv, Stage, StageRejected, StageFailed, Moved, If
    <2>2. ASSUME TypeOK, StageInv, NEW r \in Requests, lost[r] = {}, pc[r] = "served"
          PROVE  /\ session[r].settled =>
                      /\ tokenDrawn[r] = actual[r]
                      /\ drawn[r] = IF Route[r] = "basic" /\ ~session[r].fundingSettled
                                    THEN session[r].fundConsumed ELSE Price(r)
                 /\ ~session[r].settled =>
                      /\ drawn[r] = session[r].fundConsumed
                      /\ tokenDrawn[r] = session[r].tokenConsumed
      <3>1. StageServed(r)
        BY <2>2 DEF StageInv, Stage
      <3> QED BY <2>2, <3>1 DEF StageServed, Moved, Paid, Price
    <2> QED BY <2>1, <2>2 DEF ChargedOnceOrNotAtAll
  <1> QED BY <1>1, StagesHold, PTL

\* Crashes and lost statements included, a request is charged nothing, its
\* hold or its price on each ledger: never twice, and never credited more than
\* it paid.
THEOREM NothingOvercharged == Spec => []NeverOvercharged
  <1>1. TypeOK /\ StageInv => NeverOvercharged
    <2> SUFFICES ASSUME TypeOK, StageInv, NEW r \in Requests
                 PROVE  /\ drawn[r] \in {0, amount[r], Price(r)}
                        /\ tokenDrawn[r] \in {0, amount[r], actual[r]}
      BY DEF NeverOvercharged
    <2> USE DEF Stage, Paid, Moved, Unsettled, Calm, If
    <2>0. Stage(r) /\ pc[r] \in Stages
          /\ refunder[r] \in {"idle", "funding", "token", "ended", "crashed"}
      BY DEF StageInv, TypeOK, Stages
    <2> QED BY <2>0 DEF Stages, Live, Finished, StageFresh, StageKeyPaid, StageRejected,
              StageHeld, StageFunded, StageServed, StageFailed, StageCrashed
  <1> QED BY <1>1, StagesHold, PTL
-----------------------------------------------------------------------------
(***************************************************************************)
(* The charge of a request is a prepaid charge                             *)
(***************************************************************************)

\* What is drawn is never negative: nothing, the hold or the price
LEMMA DrawnNat == TypeOK /\ StageInv => drawn \in [Requests -> Nat]
  <1> SUFFICES ASSUME TypeOK, StageInv, NEW r \in Requests
               PROVE  drawn[r] \in Nat
    BY DEF TypeOK
  <1>1. Stage(r) /\ amount[r] \in Nat /\ actual[r] \in Nat /\ tokens[r] \in Nat
        /\ session[r] \in Session /\ Price(r) \in Nat
    BY DEF StageInv, TypeOK, Price, Session
  <1>2. drawn[r] \in {0, amount[r], Price(r)}
    <2>1. pc[r] \in Live \union Finished
          /\ refunder[r] \in {"idle", "funding", "token", "ended", "crashed"}
      BY DEF TypeOK
    <2> QED BY <1>1, <2>1
        DEF Live, Finished, Stage, StageFresh, StageKeyPaid, StageRejected, StageHeld,
            StageFunded, StageServed, StageFailed, StageCrashed, StageRecord, Moved, If
  <1> QED BY <1>1, <1>2

\* A step that moves the charge of one request only is a step of the ideal
LEMMA OneAdvances ==
  ASSUME TypeOK, NEW r \in Requests, Advance(r), drawn' \in [Requests -> Nat],
         \A q \in Requests \ {r} : Same(q)
  PROVE  [Ideal!Next]_(Ideal!vars)
  <1> DEFINE phase == [q \in Requests |-> Phase(q)]
  <1>1. \A q \in Requests \ {r} : Phase(q)' = Phase(q) /\ drawn'[q] = drawn[q]
    BY DEF Same, Phase
  <1>2. phase' = [phase EXCEPT ![r] = Phase(r)']
    BY <1>1
  <1>3. Ideal!Move(r)
    BY <1>1 DEF Ideal!Move
  <1>4. drawn \in [Requests -> Int]
    BY DEF TypeOK
  <1>5. CASE Phase(r)' = Phase(r) /\ drawn'[r] = drawn[r]
    <2>1. phase' = phase
      BY <1>1, <1>5
    <2>2. drawn' = drawn
      BY <1>1, <1>4, <1>5
    <2> QED BY <2>1, <2>2 DEF Ideal!vars
  <1>6. CASE Phase(r) = "open" /\ Phase(r)' = "open" /\ drawn[r] = 0
    <2>1. phase' = phase
      BY <1>1, <1>6
    <2>2. Ideal!Hold(r)
      BY <1>3, <1>6, <2>1 DEF Ideal!Hold
    <2> QED BY <2>2 DEF Ideal!Next
  <1>7. CASE Phase(r) = "open" /\ Phase(r)' = "charged"
    <2>1. Ideal!Charge(r)
      BY <1>2, <1>3, <1>7 DEF Ideal!Charge, Ideal!Close
    <2> QED BY <2>1 DEF Ideal!Next
  <1>8. CASE Phase(r) = "open" /\ Phase(r)' = "released" /\ drawn'[r] = 0
    <2>1. drawn' = [drawn EXCEPT ![r] = 0]
      BY <1>1, <1>4, <1>8
    <2>2. Ideal!Release(r)
      BY <1>2, <1>8, <2>1 DEF Ideal!Release, Ideal!Close
    <2> QED BY <2>2 DEF Ideal!Next
  <1>9. CASE Phase(r) = "open" /\ Phase(r)' = "kept" /\ drawn'[r] = drawn[r]
    <2>1. drawn' = drawn
      BY <1>1, <1>4, <1>9
    <2>2. phase' = [q \in Requests |-> IF q \in {r} THEN "kept" ELSE phase[q]]
      BY <1>2, <1>9
    <2>3. {r} \in SUBSET {q \in Requests : phase[q] = "open"}
      BY <1>9
    <2>4. Ideal!Keep
      BY <2>1, <2>2, <2>3 DEF Ideal!Keep
    <2> QED BY <2>4 DEF Ideal!Next
  <1> QED BY <1>5, <1>6, <1>7, <1>8, <1>9 DEF Advance

\* A step of the subscription or a crash keeps some of the open charges
LEMMA AllStay ==
  ASSUME TypeOK, drawn' \in [Requests -> Nat], \A r \in Requests : Stays(r)
  PROVE  [Ideal!Next]_(Ideal!vars)
  <1> DEFINE phase == [q \in Requests |-> Phase(q)]
             R == {q \in Requests : phase[q] = "open" /\ phase'[q] = "kept"}
  <1>1. drawn' = drawn
    BY DEF Stays, TypeOK
  <1>2. \A q \in Requests : phase'[q] = IF q \in R THEN "kept" ELSE phase[q]
    BY DEF Stays
  <1>3. phase' = [q \in Requests |-> IF q \in R THEN "kept" ELSE phase[q]]
    BY <1>2
  <1>4. R \in SUBSET {q \in Requests : phase[q] = "open"}
    OBVIOUS
  <1>5. Ideal!Keep
    BY <1>1, <1>3, <1>4 DEF Ideal!Keep
  <1> QED BY <1>5 DEF Ideal!Next

\* The billing of each request implements the prepaid charge: money is held at
\* most once, then settled, given back or kept, and a charge that is closed is
\* never touched again, whatever fails, crashes or runs beside it.
THEOREM ChargesArePrepaid == Spec => ImplementsPrepaidCharge
  <1>1. Init => Ideal!Init
    BY DEF Init, NewSession, Ideal!Init, Phase
  <1>2. (TypeOK /\ StageInv) /\ (TypeOK /\ StageInv)' /\ [Next]_vars
          => [Ideal!Next]_(Ideal!vars)
    <2> SUFFICES ASSUME TypeOK, StageInv, TypeOK', StageInv', [Next]_vars
                 PROVE  [Ideal!Next]_(Ideal!vars)
      OBVIOUS
    <2>1. drawn' \in [Requests -> Nat]
      <3>1. (TypeOK /\ StageInv => drawn \in [Requests -> Nat])'
        BY DrawnNat, PTL
      <3> QED BY <3>1
    <2>2. ASSUME NEW r \in Requests, RequestStep(r)
          PROVE  [Ideal!Next]_(Ideal!vars)
      <3>1. Advance(r) /\ \A s \in Requests \ {r} : Same(s)
        BY <2>2, StageAdmission, StageSettlement, StageRefund DEF RequestStep, StageInv
      <3> QED BY <2>1, <3>1, OneAdvances
    <2>3. CASE PeriodEnds \/ ResetDueSubscriptions \/ Crash
                 \/ \E how \in {"expired", "deleted"} : EndSubscription(how)
      <3>1. \A r \in Requests : Stays(r)
        BY <2>3, StageEnvironment DEF StageInv
      <3> QED BY <2>1, <3>1, AllStay
    <2>4. CASE UNCHANGED vars
      <3>1. \A r \in Requests : Stays(r)
        BY <2>4 DEF vars, store, process, inputs, books, Stays, Phase
      <3> QED BY <2>1, <3>1, AllStay
    <2> QED BY <2>2, <2>3, <2>4 DEF Next
  <1> QED BY <1>1, <1>2, StagesHold, PTL DEF Spec, ImplementsPrepaidCharge, Ideal!Spec

-----------------------------------------------------------------------------
(***************************************************************************)
(* The books of the shared ledgers                                         *)
(***************************************************************************)

Total(f) == SumFunctionOnSet(f, Requests)

\* The net amounts taken from the balance, from a key, and from a bucket in
\* the current period, by request
WalletDrawn    == [r \in Requests |-> IF OnWallet(r) THEN drawn[r] ELSE 0]
KeyDrawn(k)    == [r \in Requests |-> IF KeyOf[r] = k THEN tokenDrawn[r] ELSE 0]
BucketDrawn(b) == [r \in Requests |->
                     IF Route[r] = b /\ heldIn[r] = subscription.period THEN drawn[r] ELSE 0]

Fined    == {r \in Requests : "funding" \in penalty[r]}
KeyFined(k) == {r \in Requests : KeyOf[r] = k /\ "token" \in penalty[r]}

\* A fee is charged at the end of a request, once to each ledger
FeesOnce ==
  \A r \in Requests :
    /\ pc[r] \notin {"feeToken", "failed"} => penalty[r] = {}
    /\ pc[r] = "feeToken" => "token" \notin penalty[r]

\* Without a crash nobody is abandoned
NobodyHarmed == crashes = 0 => \A r \in Requests : Unharmed(r)

WalletBalanced == InitialWallet - wallet = Total(WalletDrawn) + Fee * Cardinality(Fined)

KeyBalanced(k) ==
  InitialRemain - remain[k] = Total(KeyDrawn(k)) + Fee * Cardinality(KeyFined(k))

\* Nobody holds from a period to come
HeldInPast == \A r \in Requests : heldIn[r] <= subscription.period

BucketBalanced(b) ==
  subscription.status # "deleted" /\ ~carried[b] => used[b] = Total(BucketDrawn(b))

Ledgers ==
  /\ FeesOnce /\ NobodyHarmed /\ HeldInPast
  /\ WalletBalanced
  /\ \A k \in Keys : KeyBalanced(k)
  /\ \A b \in Buckets : BucketBalanced(b)

-----------------------------------------------------------------------------
(***************************************************************************)
(* The moves of a request's step on them                                   *)
(***************************************************************************)

\* What the step of a request does to the balance and the keys
MoneyStep(r) ==
  \/ UNCHANGED <<wallet, remain, drawn, tokenDrawn, penalty>>
  \/ \E d \in Int : AddToKey(r, d) /\ UNCHANGED <<wallet, drawn, penalty>>
  \/ /\ OnWallet(r)
     /\ \E d \in Int : AddToWallet(r, d) /\ UNCHANGED <<remain, tokenDrawn, penalty>>
  \/ /\ OnBucket(r)
     /\ \A q \in Requests \ {r} : drawn'[q] = drawn[q]
     /\ UNCHANGED <<wallet, remain, tokenDrawn, penalty>>
  \/ /\ "funding" \notin penalty[r]
     /\ wallet' = wallet - Fee
     /\ penalty' = [penalty EXCEPT ![r] = @ \union {"funding"}]
     /\ UNCHANGED <<remain, drawn, tokenDrawn>>
  \/ /\ "token" \notin penalty[r]
     /\ remain' = [remain EXCEPT ![KeyOf[r]] = @ - Fee]
     /\ penalty' = [penalty EXCEPT ![r] = @ \union {"token"}]
     /\ UNCHANGED <<wallet, drawn, tokenDrawn>>

\* ... and to the buckets
BucketStep(r) ==
  \/ UNCHANGED <<used, subscription, drawn, heldIn, carried>>
  \/ /\ OnWallet(r)
     /\ \A q \in Requests \ {r} : drawn'[q] = drawn[q]
     /\ UNCHANGED <<used, subscription, heldIn, carried>>
  \/ /\ OnBucket(r)
     /\ \E d \in Int : PostConsume(r, d)
     /\ UNCHANGED <<subscription, heldIn>>
  \/ /\ TakeFromBucket(r) /\ drawn[r] = 0
     /\ pc'[r] = "serving"

\* A step makes at most one of these moves
LEMMA MoneyMoves ==
  ASSUME TypeOK, StageInv, FeesOnce, NEW r \in Requests, RequestStep(r)
  PROVE  MoneyStep(r) /\ BucketStep(r)
<1>0. /\ session[r] \in Session /\ amount[r] \in Nat /\ actual[r] \in Nat /\ tokens[r] \in Nat
      /\ Route[r] \in Buckets \union {"wallet"}
  BY ConstantsAssumption DEF TypeOK
<1>1. CASE TokenAuth(r)
  BY <1>1 DEF TokenAuth, MoneyStep, BucketStep, books
<1>2. ASSUME NEW q \in Quotas, OpenOnWallet(r, q) \/ OpenOnSubscription(r, q)
      PROVE  MoneyStep(r) /\ BucketStep(r)
  BY <1>2 DEF OpenOnWallet, OpenOnSubscription, MoneyStep, BucketStep, store, books
<1>3. CASE CheckToken(r)
  BY <1>3 DEF CheckToken, MoneyStep, BucketStep, store, books
<1>4. CASE TakeToken(r)
  <2>1. -amount[r] \in Int
    BY <1>0
  <2> QED  BY <1>4, <2>1 DEF TakeToken, MoneyStep, BucketStep
<1>5. CASE TakeFromWallet(r)
  <2>1. -amount[r] \in Int
    BY <1>0
  <2>2. MoneyStep(r)
    BY <1>5, <2>1 DEF TakeFromWallet, MoneyStep
  <2>3. BucketStep(r)
    BY <1>5 DEF TakeFromWallet, AddToWallet, BucketStep, TypeOK
  <2> QED  BY <2>2, <2>3
<1>6. CASE TakeFromBucket(r)
  <2>1. OnBucket(r) /\ pc[r] = "takeFunding"
    BY <1>6 DEF TakeFromBucket, At
  <2>2. drawn[r] = 0
    BY <2>1 DEF StageInv, Stage, StageKeyPaid, Moved
  <2>3. \A q \in Requests \ {r} : drawn'[q] = drawn[q]
    BY <1>6 DEF TakeFromBucket, TypeOK
  <2>4. MoneyStep(r)
    BY <1>6, <2>1, <2>3 DEF TakeFromBucket, MoneyStep
  <2>5. pc'[r] = "serving" \/ UNCHANGED <<used, subscription, drawn, heldIn, carried>>
    BY <1>6 DEF TakeFromBucket, Hold, Goto, TypeOK
  <2> QED  BY <1>6, <2>2, <2>4, <2>5 DEF BucketStep
<1>7. CASE RollbackToken(r)
  <2>1. session[r].tokenConsumed \in Int
    BY <1>0 DEF Session
  <2> QED  BY <1>7, <2>1 DEF RollbackToken, MoneyStep, BucketStep
<1>8. CASE UpstreamStep(r)
  BY <1>8 DEF UpstreamStep, Answered, Failed, MoneyStep, BucketStep, store, books
<1>9. CASE SettleNothing(r) \/ SettleFails(r)
  BY <1>9 DEF SettleNothing, SettleFails, MoneyStep, BucketStep, store, process, books
<1>10. Delta(r) \in Int /\ -Delta(r) \in Int /\ BucketDelta(r) \in Int
  BY <1>0 DEF Delta, BucketDelta, Session
<1>11. CASE SettleWallet(r)
  <2>1. MoneyStep(r)
    BY <1>10, <1>11 DEF SettleWallet, MoneyStep
  <2>2. BucketStep(r)
    BY <1>11 DEF SettleWallet, AddToWallet, BucketStep, TypeOK
  <2> QED  BY <2>1, <2>2
<1>12. CASE SettleBucket(r)
  <2>1. MoneyStep(r)
    BY <1>12 DEF SettleBucket, PostConsume, MoneyStep, TypeOK
  <2>2. BucketStep(r)
    BY <1>10, <1>12 DEF SettleBucket, BucketStep
  <2> QED  BY <2>1, <2>2
<1>13. CASE SettleToken(r)
  BY <1>10, <1>13 DEF SettleToken, MoneyStep, BucketStep
<1>14. CASE RefundWallet(r)
  <2>1. session[r].fundConsumed \in Int
    BY <1>0 DEF Session
  <2>2. MoneyStep(r)
    BY <1>14, <2>1 DEF RefundWallet, MoneyStep
  <2>3. BucketStep(r)
    BY <1>14 DEF RefundWallet, AddToWallet, BucketStep, TypeOK
  <2> QED  BY <2>2, <2>3
<1>15. CASE RefundBucket(r)
  <2>1. -session[r].fundConsumed \in Int
    BY <1>0 DEF Session
  <2>2. MoneyStep(r)
    BY <1>15 DEF RefundBucket, CreditBucket, PostConsume, MoneyStep, TypeOK
  <2>3. BucketStep(r)
    BY <1>15, <2>1 DEF RefundBucket, CreditBucket, BucketStep
  <2> QED  BY <2>2, <2>3
<1>16. CASE RefundBucketFails(r)
  BY <1>16 DEF RefundBucketFails, MoneyStep, BucketStep
<1>20. CASE RefundBucketUnanswered(r)
  <2>1. -session[r].fundConsumed \in Int
    BY <1>0 DEF Session
  <2>2. MoneyStep(r)
    BY <1>20 DEF RefundBucketUnanswered, CreditBucket, PostConsume, MoneyStep, TypeOK
  <2>3. BucketStep(r)
    BY <1>20, <2>1 DEF RefundBucketUnanswered, CreditBucket, BucketStep
  <2> QED  BY <2>2, <2>3
<1>17. CASE RefundToken(r)
  <2>1. session[r].tokenConsumed \in Int
    BY <1>0 DEF Session
  <2> QED  BY <1>17, <2>1 DEF RefundToken, MoneyStep, BucketStep
<1>18. CASE ChargeFee(r)
  <2>1. penalty[r] = {}
    BY <1>18 DEF ChargeFee, At, FeesOnce
  <2> QED  BY <1>18, <2>1 DEF ChargeFee, MoneyStep, BucketStep, books
<1>19. CASE ChargeFeeToken(r)
  <2>1. "token" \notin penalty[r]
    BY <1>19 DEF ChargeFeeToken, At, FeesOnce
  <2> QED  BY <1>19, <2>1 DEF ChargeFeeToken, MoneyStep, BucketStep, books
<1> QED
  BY <1>1, <1>2, <1>3, <1>4, <1>5, <1>6, <1>7, <1>8, <1>9, <1>11, <1>12, <1>13, <1>14, <1>15,
     <1>16, <1>17, <1>18, <1>19, <1>20 DEF RequestStep, PreConsumeStep, SettleStep, RefundStep, FeeStep

-----------------------------------------------------------------------------
(***************************************************************************)
(* Their totals over the requests                                          *)
(***************************************************************************)

\* A total moves with the one term that changes
LEMMA TotalMoves ==
  ASSUME NEW r \in Requests, NEW f \in [Requests -> Int], NEW g \in [Requests -> Int],
         \A q \in Requests \ {r} : g[q] = f[q]
  PROVE  Total(g) = Total(f) + g[r] - f[r] /\ Total(f) \in Int
  BY ConstantsAssumption, SumMoves, SumType DEF Total

\* Totals of the same terms are the same
LEMMA TotalSame ==
  ASSUME NEW f, NEW g, \A q \in Requests : g[q] = f[q]
  PROVE  Total(g) = Total(f)
  BY ConstantsAssumption, SumSame DEF Total

\* A total of zeros is zero
LEMMA TotalZero ==
  ASSUME NEW f, \A q \in Requests : f[q] = 0
  PROVE  Total(f) = 0
  BY ConstantsAssumption, SumZero DEF Total

\* The terms of the totals are integers
LEMMA DrawnTypes ==
  ASSUME TypeOK
  PROVE  /\ WalletDrawn \in [Requests -> Int]
         /\ \A k : KeyDrawn(k) \in [Requests -> Int]
         /\ \A b : BucketDrawn(b) \in [Requests -> Int]
  BY DEF TypeOK, WalletDrawn, KeyDrawn, BucketDrawn

\* One more request is charged the fee
LEMMA FinedMore ==
  ASSUME NEW P \in SUBSET Requests, NEW r \in Requests, r \notin P
  PROVE  /\ Cardinality(P) \in Nat
         /\ Cardinality(P \union {r}) = Cardinality(P) + 1
         /\ Fee * Cardinality(P \union {r}) = Fee * Cardinality(P) + Fee
<1>1. IsFiniteSet(P)
  BY ConstantsAssumption, FS_Subset
<1>2. Cardinality(P) \in Nat /\ Cardinality(P \union {r}) = Cardinality(P) + 1
  BY <1>1, FS_CardinalityType, FS_AddElement
<1>3. \A n \in Nat : Fee * (n + 1) = Fee * n + Fee
  BY ConstantsAssumption
<1> QED  BY <1>2, <1>3

\* The fees charged to a set of requests
LEMMA FeeNat ==
  ASSUME NEW P \in SUBSET Requests
  PROVE  Fee * Cardinality(P) \in Nat
<1>1. IsFiniteSet(P)
  BY ConstantsAssumption, FS_Subset
<1>2. Cardinality(P) \in Nat
  BY <1>1, FS_CardinalityType
<1> QED  BY <1>2, ConstantsAssumption

\* No step of a request upsets the balance of the wallet ...
LEMMA WalletStep ==
  ASSUME TypeOK, TypeOK', NEW r \in Requests, MoneyStep(r), WalletBalanced
  PROVE  WalletBalanced'
<1> USE ConstantsAssumption
<1>0. /\ wallet \in Int /\ Total(WalletDrawn) \in Int /\ Fee * Cardinality(Fined) \in Nat
      /\ WalletDrawn \in [Requests -> Int] /\ WalletDrawn' \in [Requests -> Int]
      /\ Fee \in Nat /\ InitialWallet \in Nat
  <2>1. Fined \subseteq Requests
    BY DEF Fined
  <2>2. WalletDrawn' \in [Requests -> Int]
    BY DEF TypeOK, WalletDrawn
  <2>3. WalletDrawn \in [Requests -> Int] /\ Total(WalletDrawn) \in Int
    BY DrawnTypes, TotalMoves
  <2> QED  BY <2>1, <2>2, <2>3, FeeNat DEF TypeOK
<1>1. UNCHANGED penalty => Fined' = Fined
  BY DEF Fined
<1>2. CASE UNCHANGED <<wallet, drawn, penalty>>
  <2>1. WalletDrawn' = WalletDrawn
    BY <1>2 DEF WalletDrawn
  <2> QED  BY <1>1, <1>2, <2>1 DEF WalletBalanced, Total
<1>3. ASSUME NEW d \in Int, OnWallet(r), AddToWallet(r, d), UNCHANGED penalty
      PROVE  WalletBalanced'
  <2>1. wallet' = wallet + d
    BY <1>3 DEF AddToWallet
  <2>2. /\ \A q \in Requests \ {r} : WalletDrawn'[q] = WalletDrawn[q]
        /\ WalletDrawn'[r] = WalletDrawn[r] - d
    BY <1>3 DEF AddToWallet, WalletDrawn, TypeOK
  <2>3. Total(WalletDrawn') = Total(WalletDrawn) + WalletDrawn'[r] - WalletDrawn[r]
    BY <1>0, <2>2, TotalMoves
  <2>4. WalletDrawn[r] \in Int
    BY <1>0
  <2>5. Total(WalletDrawn') = Total(WalletDrawn) - d
    BY <1>0, <2>2, <2>3, <2>4
  <2>6. Total(WalletDrawn)' = Total(WalletDrawn')
    BY DEF Total
  <2> QED  BY <1>0, <1>1, <1>3, <2>1, <2>5, <2>6 DEF WalletBalanced
<1>4. CASE /\ OnBucket(r) /\ \A q \in Requests \ {r} : drawn'[q] = drawn[q]
           /\ UNCHANGED <<wallet, penalty>>
  <2>1. ~OnWallet(r)
    BY <1>4 DEF OnBucket, OnWallet, Buckets
  <2>2. WalletDrawn' = WalletDrawn
    BY <1>4, <2>1 DEF WalletDrawn, OnWallet
  <2> QED  BY <1>1, <1>4, <2>2 DEF WalletBalanced, Total
<1>5. CASE /\ "funding" \notin penalty[r] /\ wallet' = wallet - Fee
           /\ penalty' = [penalty EXCEPT ![r] = @ \union {"funding"}] /\ UNCHANGED drawn
  <2>1. Fined' = Fined \union {r} /\ r \notin Fined
    BY <1>5 DEF Fined, TypeOK
  <2>2. Fee * Cardinality(Fined') = Fee * Cardinality(Fined) + Fee
    BY <2>1, FinedMore DEF Fined
  <2>3. WalletDrawn' = WalletDrawn
    BY <1>5 DEF WalletDrawn
  <2>4. wallet' = wallet - Fee
    BY <1>5
  <2>5. Total(WalletDrawn)' = Total(WalletDrawn)
    BY <2>3 DEF Total
  <2> QED  BY <1>0, <2>2, <2>4, <2>5 DEF WalletBalanced
<1>6. CASE /\ "token" \notin penalty[r]
           /\ penalty' = [penalty EXCEPT ![r] = @ \union {"token"}] /\ UNCHANGED <<wallet, drawn>>
  <2>1. Fined' = Fined
    BY <1>6 DEF Fined, TypeOK
  <2>2. WalletDrawn' = WalletDrawn
    BY <1>6 DEF WalletDrawn
  <2> QED  BY <1>6, <2>1, <2>2 DEF WalletBalanced, Total
<1> QED  BY <1>2, <1>3, <1>4, <1>5, <1>6 DEF MoneyStep

\* ... nor that of a key
LEMMA KeyStep ==
  ASSUME TypeOK, TypeOK', NEW r \in Requests, MoneyStep(r), NEW k \in Keys, KeyBalanced(k)
  PROVE  KeyBalanced(k)'
<1> USE ConstantsAssumption
<1>0. /\ remain[k] \in Int /\ Total(KeyDrawn(k)) \in Int /\ Fee * Cardinality(KeyFined(k)) \in Nat
      /\ KeyDrawn(k) \in [Requests -> Int] /\ KeyDrawn(k)' \in [Requests -> Int]
      /\ Fee \in Nat /\ InitialRemain \in Nat
  <2>1. KeyFined(k) \subseteq Requests
    BY DEF KeyFined
  <2>2. KeyDrawn(k)' \in [Requests -> Int]
    BY DEF TypeOK, KeyDrawn
  <2>3. KeyDrawn(k) \in [Requests -> Int] /\ Total(KeyDrawn(k)) \in Int
    BY DrawnTypes, TotalMoves
  <2> QED  BY <2>1, <2>2, <2>3, FeeNat DEF TypeOK
<1>1. UNCHANGED penalty => KeyFined(k)' = KeyFined(k)
  BY DEF KeyFined
<1>2. CASE UNCHANGED <<remain, tokenDrawn, penalty>>
  <2>1. KeyDrawn(k)' = KeyDrawn(k)
    BY <1>2 DEF KeyDrawn
  <2> QED  BY <1>1, <1>2, <2>1 DEF KeyBalanced, Total
<1>3. ASSUME NEW d \in Int, AddToKey(r, d), UNCHANGED penalty
      PROVE  KeyBalanced(k)'
  <2> DEFINE e == IF KeyOf[r] = k THEN d ELSE 0
  <2>1. remain'[k] = remain[k] + e
    BY <1>0, <1>3 DEF AddToKey, TypeOK
  <2>2. /\ \A q \in Requests \ {r} : KeyDrawn(k)'[q] = KeyDrawn(k)[q]
        /\ KeyDrawn(k)'[r] = KeyDrawn(k)[r] - e
    BY <1>3 DEF AddToKey, KeyDrawn, TypeOK
  <2>3. Total(KeyDrawn(k)') = Total(KeyDrawn(k)) + KeyDrawn(k)'[r] - KeyDrawn(k)[r]
    BY <1>0, <2>2, TotalMoves
  <2>4. KeyDrawn(k)[r] \in Int /\ e \in Int
    BY <1>0
  <2> HIDE DEF e
  <2>5. Total(KeyDrawn(k)') = Total(KeyDrawn(k)) - e
    BY <1>0, <2>2, <2>3, <2>4
  <2>6. Total(KeyDrawn(k))' = Total(KeyDrawn(k)')
    BY DEF Total
  <2> QED  BY <1>0, <1>1, <1>3, <2>1, <2>4, <2>5, <2>6 DEF KeyBalanced
<1>4. CASE /\ "funding" \notin penalty[r]
           /\ penalty' = [penalty EXCEPT ![r] = @ \union {"funding"}]
           /\ UNCHANGED <<remain, tokenDrawn>>
  <2>1. KeyFined(k)' = KeyFined(k)
    BY <1>4 DEF KeyFined, TypeOK
  <2>2. KeyDrawn(k)' = KeyDrawn(k)
    BY <1>4 DEF KeyDrawn
  <2> QED  BY <1>4, <2>1, <2>2 DEF KeyBalanced, Total
<1>5. CASE /\ "token" \notin penalty[r] /\ remain' = [remain EXCEPT ![KeyOf[r]] = @ - Fee]
           /\ penalty' = [penalty EXCEPT ![r] = @ \union {"token"}] /\ UNCHANGED tokenDrawn
  <2>1. KeyDrawn(k)' = KeyDrawn(k)
    BY <1>5 DEF KeyDrawn
  <2>2. Total(KeyDrawn(k))' = Total(KeyDrawn(k))
    BY <2>1 DEF Total
  <2>3. CASE KeyOf[r] = k
    <3>1. KeyFined(k)' = KeyFined(k) \union {r} /\ r \notin KeyFined(k)
      BY <1>5, <2>3 DEF KeyFined, TypeOK
    <3>2. Fee * Cardinality(KeyFined(k)') = Fee * Cardinality(KeyFined(k)) + Fee
      BY <3>1, FinedMore DEF KeyFined
    <3>3. remain'[k] = remain[k] - Fee
      BY <1>5, <2>3 DEF TypeOK
    <3> QED  BY <1>0, <2>2, <3>2, <3>3 DEF KeyBalanced
  <2>4. CASE KeyOf[r] # k
    <3>1. KeyFined(k)' = KeyFined(k) /\ remain'[k] = remain[k]
      BY <1>5, <2>4 DEF KeyFined, TypeOK
    <3> QED  BY <2>2, <3>1 DEF KeyBalanced
  <2> QED  BY <2>3, <2>4
<1> QED  BY <1>2, <1>3, <1>4, <1>5 DEF MoneyStep

\* ... nor that of a bucket: what is drawn of it in the period is never negative,
\* so the floor of PostConsumeUserSubscriptionDelta does not cut a booking of it
LEMMA UseStep ==
  ASSUME TypeOK, TypeOK', drawn' \in [Requests -> Nat], HeldInPast,
         NEW r \in Requests, BucketStep(r), NEW b \in Buckets, BucketBalanced(b)
  PROVE  BucketBalanced(b)'
<1> USE ConstantsAssumption
<1>0. /\ used[b] \in Nat /\ BucketDrawn(b) \in [Requests -> Int]
      /\ Total(BucketDrawn(b)) \in Int /\ BucketDrawn(b)' \in [Requests -> Int]
  <2>1. BucketDrawn(b)' \in [Requests -> Int]
    BY DEF TypeOK, BucketDrawn
  <2>2. BucketDrawn(b) \in [Requests -> Int] /\ Total(BucketDrawn(b)) \in Int
    BY DrawnTypes, TotalMoves
  <2> QED  BY <2>1, <2>2 DEF TypeOK
<1>1. Total(BucketDrawn(b))' = Total(BucketDrawn(b)')
  BY DEF Total
<1>2. CASE UNCHANGED <<used, subscription, drawn, heldIn, carried>>
  <2>1. BucketDrawn(b)' = BucketDrawn(b)
    BY <1>2 DEF BucketDrawn
  <2> QED  BY <1>2, <2>1 DEF BucketBalanced, Total
<1>3. CASE /\ OnWallet(r) /\ \A q \in Requests \ {r} : drawn'[q] = drawn[q]
           /\ UNCHANGED <<used, subscription, heldIn, carried>>
  <2>1. Route[r] # b
    BY <1>3 DEF OnWallet, Buckets
  <2>2. BucketDrawn(b)' = BucketDrawn(b)
    BY <1>3, <2>1 DEF BucketDrawn
  <2> QED  BY <1>3, <2>2 DEF BucketBalanced, Total
<1>4. ASSUME OnBucket(r), NEW d \in Int, PostConsume(r, d), UNCHANGED <<subscription, heldIn>>,
             subscription.status # "deleted", ~carried'[b]
      PROVE  used'[b] = Total(BucketDrawn(b)')
  <2>1. /\ used' = [used EXCEPT ![Route[r]] = AtLeastZero(@ + d)]
        /\ drawn' = [drawn EXCEPT ![r] = @ + d]
        /\ carried' = [carried EXCEPT ![Route[r]] =
                         @ \/ (d # 0 /\ heldIn[r] # subscription.period)]
    BY <1>4 DEF PostConsume
  <2>2. ~carried[b]
    BY <1>4, <2>1 DEF TypeOK
  <2>3. used[b] = Total(BucketDrawn(b))
    BY <1>4, <2>2 DEF BucketBalanced
  <2>4. CASE Route[r] = b /\ heldIn[r] = subscription.period
    <3>1. /\ \A q \in Requests \ {r} : BucketDrawn(b)'[q] = BucketDrawn(b)[q]
          /\ BucketDrawn(b)'[r] = BucketDrawn(b)[r] + d
      BY <1>4, <2>1, <2>4 DEF BucketDrawn, TypeOK
    <3>2. Total(BucketDrawn(b)') = Total(BucketDrawn(b)) + BucketDrawn(b)'[r] - BucketDrawn(b)[r]
      BY <1>0, <3>1, TotalMoves
    <3>3. BucketDrawn(b)[r] \in Int
      BY <1>0
    <3>4. Total(BucketDrawn(b)') = used[b] + d
      BY <1>0, <2>3, <3>1, <3>2, <3>3
    <3>5. Total(BucketDrawn(b)') \in Nat
      <4>1. \A q \in Requests : BucketDrawn(b)'[q] \in Nat
        BY DEF BucketDrawn
      <4> QED  BY <4>1, SumType DEF Total
    <3>6. used'[b] = AtLeastZero(used[b] + d)
      BY <2>1, <2>4 DEF TypeOK
    <3> QED  BY <1>0, <3>4, <3>5, <3>6 DEF AtLeastZero
  <2>5. CASE Route[r] = b /\ heldIn[r] # subscription.period
    <3>1. d = 0
      BY <1>4, <2>1, <2>5 DEF TypeOK
    <3>2. used'[b] = used[b]
      BY <1>0, <2>1, <2>5, <3>1 DEF AtLeastZero, TypeOK
    <3>3. BucketDrawn(b)' = BucketDrawn(b)
      BY <1>4, <2>1, <2>5 DEF BucketDrawn, TypeOK
    <3> QED  BY <2>3, <3>2, <3>3
  <2>6. CASE Route[r] # b
    <3>1. used'[b] = used[b]
      BY <2>1, <2>6 DEF TypeOK
    <3>2. BucketDrawn(b)' = BucketDrawn(b)
      BY <1>4, <2>1, <2>6 DEF BucketDrawn, TypeOK
    <3> QED  BY <2>3, <3>1, <3>2
  <2> QED  BY <2>4, <2>5, <2>6
<1>5. CASE TakeFromBucket(r) /\ drawn[r] = 0 /\ pc'[r] = "serving"
  <2> DEFINE base == IF subscription.due THEN [c \in Buckets |-> 0] ELSE used
             after == IF subscription.due THEN Renewed ELSE subscription
  <2>1. /\ used' = [base EXCEPT ![Route[r]] = @ + amount[r]]
        /\ subscription' = after
        /\ drawn' = [drawn EXCEPT ![r] = amount[r]]
        /\ heldIn' = [heldIn EXCEPT ![r] = after.period]
        /\ carried' = IF subscription.due THEN [c \in Buckets |-> FALSE] ELSE carried
        /\ subscription.status = "active" /\ OnBucket(r)
    <3>1. ~AbortHold(r)
      BY <1>5 DEF AbortHold, Goto, TypeOK
    <3> QED  BY <1>5, <3>1 DEF TakeFromBucket
  <2>2. after.period \in Int /\ amount[r] \in Nat /\ base \in [Buckets -> Nat]
    BY DEF TypeOK, Renewed
  <2>3. CASE subscription.due
    <3>1. \A q \in Requests \ {r} : BucketDrawn(b)'[q] = 0
      <4>1. \A q \in Requests \ {r} : heldIn'[q] = heldIn[q] /\ heldIn[q] <= subscription.period
        BY <2>1 DEF HeldInPast, TypeOK
      <4>2. subscription'.period = subscription.period + 1
        BY <2>1, <2>3 DEF Renewed, TypeOK
      <4>3. subscription.period \in Nat /\ \A q \in Requests : heldIn[q] \in Nat
        BY DEF TypeOK
      <4> QED  BY <4>1, <4>2, <4>3 DEF BucketDrawn
    <3>2. BucketDrawn(b)'[r] = IF Route[r] = b THEN amount[r] ELSE 0
      BY <2>1, <2>2 DEF BucketDrawn, TypeOK
    <3>3. used'[b] = IF Route[r] = b THEN amount[r] ELSE 0
      BY <2>1, <2>2, <2>3 DEF TypeOK
    <3> DEFINE zero == [q \in Requests |-> 0]
    <3>4. Total(zero) = 0 /\ zero \in [Requests -> Int]
      BY TotalZero
    <3>5. zero[r] = 0 /\ \A q \in Requests \ {r} : BucketDrawn(b)'[q] = zero[q]
      BY <3>1
    <3> HIDE DEF zero
    <3>6. Total(BucketDrawn(b)') = Total(zero) + BucketDrawn(b)'[r] - zero[r]
      BY <1>0, <3>4, <3>5, TotalMoves
    <3>7. Total(BucketDrawn(b)') = used'[b]
      BY <1>0, <2>2, <3>2, <3>3, <3>4, <3>5, <3>6
    <3> QED  BY <1>1, <3>7 DEF BucketBalanced
  <2>4. CASE ~subscription.due
    <3>1. used' = [used EXCEPT ![Route[r]] = @ + amount[r]] /\ UNCHANGED <<subscription, carried>>
          /\ heldIn' = [heldIn EXCEPT ![r] = subscription.period]
      BY <2>1, <2>4
    <3>2. \A q \in Requests \ {r} : BucketDrawn(b)'[q] = BucketDrawn(b)[q]
      BY <2>1, <3>1 DEF BucketDrawn, TypeOK
    <3>3. BucketDrawn(b)[r] = 0
      BY <1>5 DEF BucketDrawn
    <3>4. BucketDrawn(b)'[r] = IF Route[r] = b THEN amount[r] ELSE 0
      BY <2>1, <3>1 DEF BucketDrawn, TypeOK
    <3>5. used'[b] = IF Route[r] = b THEN used[b] + amount[r] ELSE used[b]
      BY <3>1 DEF TypeOK
    <3>6. Total(BucketDrawn(b)') = Total(BucketDrawn(b)) + BucketDrawn(b)'[r] - BucketDrawn(b)[r]
      BY <1>0, <3>2, TotalMoves
    <3>7. used[b] = Total(BucketDrawn(b)) => Total(BucketDrawn(b)') = used'[b]
      BY <1>0, <2>2, <3>3, <3>4, <3>5, <3>6
    <3> QED  BY <1>1, <3>1, <3>7 DEF BucketBalanced
  <2> QED  BY <2>3, <2>4
<1>6. CASE /\ OnBucket(r) /\ \E d \in Int : PostConsume(r, d)
           /\ UNCHANGED <<subscription, heldIn>>
  BY <1>1, <1>4, <1>6 DEF BucketBalanced
<1> QED  BY <1>2, <1>3, <1>5, <1>6 DEF BucketStep

-----------------------------------------------------------------------------
(***************************************************************************)
(* Each step keeps them                                                    *)
(***************************************************************************)

\* Before the first request nothing is drawn and no fee charged
LEMMA LedgersInit == Init => Ledgers
<1> SUFFICES ASSUME Init PROVE Ledgers
  OBVIOUS
<1> USE ConstantsAssumption
<1>1. FeesOnce /\ NobodyHarmed /\ HeldInPast
  BY DEF Init, FeesOnce, NobodyHarmed, Unharmed, HeldInPast
<1>2. Fee * Cardinality({}) = 0
  BY FS_EmptySet
<1>3. WalletBalanced
  <2>1. Fined = {} /\ \A r \in Requests : WalletDrawn[r] = 0
    BY DEF Init, Fined, WalletDrawn
  <2>2. Total(WalletDrawn) = 0 /\ wallet = InitialWallet
    BY <2>1, TotalZero DEF Init
  <2> QED  BY <1>2, <2>1, <2>2 DEF WalletBalanced
<1>4. ASSUME NEW k \in Keys PROVE KeyBalanced(k)
  <2>1. KeyFined(k) = {} /\ \A r \in Requests : KeyDrawn(k)[r] = 0
    BY DEF Init, KeyFined, KeyDrawn
  <2>2. Total(KeyDrawn(k)) = 0 /\ remain[k] = InitialRemain
    BY <2>1, TotalZero DEF Init
  <2> QED  BY <1>2, <2>1, <2>2 DEF KeyBalanced
<1>5. ASSUME NEW b \in Buckets PROVE BucketBalanced(b)
  <2>1. used[b] = 0 /\ \A r \in Requests : BucketDrawn(b)[r] = 0
    BY DEF Init, BucketDrawn
  <2> QED  BY <2>1, TotalZero DEF BucketBalanced
<1> QED  BY <1>1, <1>3, <1>4, <1>5 DEF Ledgers

\* Where a request's handler stands tells which fees it has paid
LEMMA FeesStep ==
  ASSUME TypeOK, FeesOnce, NEW r \in Requests, RequestStep(r)
  PROVE  FeesOnce'
<1>1. CASE FeeStep(r)
  BY <1>1 DEF FeeStep, ChargeFee, ChargeFeeToken, At, Goto, FeesOnce, TypeOK
<1>2. CASE ~FeeStep(r)
  <2>1. UNCHANGED penalty
    BY <1>2 DEF RequestStep, FeeStep, TokenAuth, PreConsumeStep, UpstreamStep, SettleStep,
       RefundStep, OpenOnWallet, OpenOnSubscription, CheckToken, TakeToken, TakeFromWallet,
       TakeFromBucket, RollbackToken, Answered, Failed, SettleNothing, SettleWallet,
       SettleBucket, SettleFails, SettleToken, RefundWallet, RefundBucket, RefundBucketFails,
       RefundBucketUnanswered, TryAgain, RefundToken
  <2>2. \A q \in Requests \ {r} : pc'[q] = pc[q]
    <3>1. UNCHANGED pc \/ \E s : Goto(r, s)
      BY <1>2 DEF RequestStep, FeeStep, TokenAuth, PreConsumeStep, UpstreamStep, SettleStep,
         RefundStep, OpenOnWallet, OpenOnSubscription, CheckToken, TakeToken, TakeFromWallet,
         TakeFromBucket, RollbackToken, Answered, Failed, SettleNothing, SettleWallet,
         SettleBucket, SettleFails, SettleToken, RefundWallet, RefundBucket, RefundBucketFails,
         RefundBucketUnanswered, TryAgain, RefundToken, Hold, AbortHold, FundingSettled
    <3> QED  BY <3>1 DEF Goto, TypeOK
  <2>3. pc'[r] = pc[r] \/ (pc[r] \notin {"feeToken", "failed"} /\ pc'[r] # "feeToken")
    BY <1>2 DEF RequestStep, FeeStep, TokenAuth, PreConsumeStep, UpstreamStep, SettleStep,
       RefundStep, OpenOnWallet, OpenOnSubscription, CheckToken, TakeToken, TakeFromWallet,
       TakeFromBucket, RollbackToken, Answered, Failed, SettleNothing, SettleWallet,
       SettleBucket, SettleFails, SettleToken, RefundWallet, RefundBucket, RefundBucketFails,
       RefundBucketUnanswered, TryAgain, RefundToken, Hold, AbortHold, FundingSettled,
       At, Goto, TypeOK
  <2> QED  BY <2>1, <2>2, <2>3 DEF FeesOnce
<1> QED  BY <1>1, <1>2

\* No step of a request leaves it crashed
LEMMA HarmStep ==
  ASSUME TypeOK, NobodyHarmed, NEW r \in Requests, RequestStep(r)
  PROVE  NobodyHarmed'
<1>1. UNCHANGED crashes
  BY DEF RequestStep, FeeStep, ChargeFee, ChargeFeeToken, TokenAuth, PreConsumeStep,
     UpstreamStep, SettleStep, RefundStep, OpenOnWallet, OpenOnSubscription, CheckToken,
     TakeToken, TakeFromWallet, TakeFromBucket, RollbackToken, Answered, Failed, SettleNothing,
     SettleWallet, SettleBucket, SettleFails, SettleToken, RefundWallet, RefundBucket,
     RefundBucketFails, RefundBucketUnanswered, TryAgain, RefundToken
<1>2. /\ UNCHANGED pc \/ \E s : Goto(r, s) /\ s # "crashed"
      /\ UNCHANGED refunder \/ \E s : refunder' = [refunder EXCEPT ![r] = s] /\ s # "crashed"
  BY DEF RequestStep, FeeStep, ChargeFee, ChargeFeeToken, TokenAuth, PreConsumeStep,
     UpstreamStep, SettleStep, RefundStep, OpenOnWallet, OpenOnSubscription, CheckToken,
     TakeToken, TakeFromWallet, TakeFromBucket, RollbackToken, Answered, Failed, SettleNothing,
     SettleWallet, SettleBucket, SettleFails, SettleToken, RefundWallet, RefundBucket,
     RefundBucketFails, RefundBucketUnanswered, TryAgain, RefundToken, Hold, AbortHold,
     FundingSettled
<1> QED  BY <1>1, <1>2 DEF NobodyHarmed, Unharmed, Goto, TypeOK

\* A hold is taken in the current period, or in the one its reset begins
LEMMA PastStep ==
  ASSUME TypeOK, TypeOK', HeldInPast, NEW r \in Requests, BucketStep(r)
  PROVE  HeldInPast'
<1>0. subscription.period \in Nat /\ \A q \in Requests : heldIn[q] \in Nat
  BY ConstantsAssumption DEF TypeOK
<1>1. CASE UNCHANGED <<subscription, heldIn>>
  BY <1>1 DEF HeldInPast
<1>2. CASE TakeFromBucket(r) /\ pc'[r] = "serving"
  <2> DEFINE after == IF subscription.due THEN Renewed ELSE subscription
  <2>1. subscription' = after /\ heldIn' = [heldIn EXCEPT ![r] = after.period]
    <3>1. ~AbortHold(r)
      BY <1>2 DEF AbortHold, Goto, TypeOK
    <3> QED  BY <1>2, <3>1 DEF TakeFromBucket
  <2>2. after.period \in Nat /\ after.period >= subscription.period
    BY <1>0 DEF Renewed, TypeOK
  <2> HIDE DEF after
  <2> QED  BY <1>0, <2>1, <2>2 DEF HeldInPast, TypeOK
<1> QED  BY <1>1, <1>2 DEF BucketStep

\* The task's reset, the end of a period or of the subscription, and a crash
LEMMA EnvironmentStep ==
  ASSUME TypeOK, TypeOK', Ledgers,
         PeriodEnds \/ ResetDueSubscriptions \/ Crash
           \/ \E how \in {"expired", "deleted"} : EndSubscription(how)
  PROVE  Ledgers'
<1> USE ConstantsAssumption
<1>0. UNCHANGED <<wallet, remain, drawn, tokenDrawn, penalty, heldIn>>
  BY DEF PeriodEnds, ResetDueSubscriptions, Crash, EndSubscription, NothingButSubscription,
     store, process, books
<1>1. WalletBalanced' /\ \A k \in Keys : KeyBalanced(k)'
  BY <1>0 DEF Ledgers, WalletBalanced, KeyBalanced, WalletDrawn, KeyDrawn, Fined, KeyFined, Total
<1>2. FeesOnce'
  <2>1. \A r \in Requests : pc'[r] = pc[r] \/ (pc[r] = "feeToken" /\ pc'[r] = "failed")
                              \/ (pc[r] # "failed" /\ pc[r] # "feeToken" /\ pc'[r] # "feeToken")
    <3>1. CASE Crash
      BY <3>1 DEF Crash, Live
    <3>2. CASE ~Crash
      BY <3>2 DEF PeriodEnds, ResetDueSubscriptions, EndSubscription, NothingButSubscription,
         process
    <3> QED  BY <3>1, <3>2
  <2> QED  BY <1>0, <2>1 DEF Ledgers, FeesOnce
<1>3. NobodyHarmed'
  <2>1. CASE Crash
    <3>1. crashes' # 0
      BY <2>1 DEF Crash, TypeOK
    <3> QED  BY <3>1 DEF NobodyHarmed
  <2>2. CASE ~Crash
    BY <2>2 DEF PeriodEnds, ResetDueSubscriptions, EndSubscription, NothingButSubscription,
       process, Ledgers, NobodyHarmed, Unharmed
  <2> QED  BY <2>1, <2>2
<1>4. CASE ResetDueSubscriptions
  <2>1. /\ subscription'.period = subscription.period + 1
        /\ used' = [b \in Buckets |-> 0]
    BY <1>4 DEF ResetDueSubscriptions, Renewed, TypeOK
  <2>2. subscription.period \in Nat /\ \A r \in Requests : heldIn[r] \in Nat
    BY DEF TypeOK
  <2>3. HeldInPast'
    BY <1>0, <2>1, <2>2 DEF Ledgers, HeldInPast
  <2>4. ASSUME NEW b \in Buckets PROVE BucketBalanced(b)'
    <3>1. \A r \in Requests : BucketDrawn(b)'[r] = 0
      BY <1>0, <2>1, <2>2 DEF Ledgers, HeldInPast, BucketDrawn
    <3>2. Total(BucketDrawn(b)') = 0 /\ used'[b] = 0
      BY <2>1, <3>1, TotalZero
    <3>3. Total(BucketDrawn(b))' = Total(BucketDrawn(b)')
      BY DEF Total
    <3> QED  BY <3>2, <3>3 DEF BucketBalanced
  <2> QED  BY <1>1, <1>2, <1>3, <2>3, <2>4 DEF Ledgers
<1>5. CASE ~ResetDueSubscriptions
  <2>1. /\ subscription'.period = subscription.period /\ UNCHANGED <<used, carried>>
        /\ subscription'.status # "deleted" => subscription.status # "deleted"
    BY <1>5 DEF PeriodEnds, Crash, EndSubscription, NothingButSubscription, store, books, TypeOK
  <2>2. HeldInPast'
    BY <1>0, <2>1 DEF Ledgers, HeldInPast
  <2>3. ASSUME NEW b \in Buckets PROVE BucketBalanced(b)'
    <3>1. BucketDrawn(b)' = BucketDrawn(b)
      BY <1>0, <2>1 DEF BucketDrawn
    <3> QED  BY <2>1, <3>1 DEF Ledgers, BucketBalanced, Total
  <2> QED  BY <1>1, <1>2, <1>3, <2>2, <2>3 DEF Ledgers
<1> QED  BY <1>4, <1>5

\* Every step keeps the books
LEMMA LedgersStep ==
  ASSUME TypeOK, StageInv, TypeOK', StageInv', Ledgers, [Next]_vars
  PROVE  Ledgers'
<1>1. ASSUME NEW r \in Requests, RequestStep(r) PROVE Ledgers'
  <2>1. MoneyStep(r) /\ BucketStep(r)
    BY <1>1, MoneyMoves DEF Ledgers
  <2>2. drawn' \in [Requests -> Nat]
    <3>1. (TypeOK /\ StageInv => drawn \in [Requests -> Nat])'
      BY DrawnNat, PTL
    <3> QED  BY <3>1
  <2>3. WalletBalanced'
    BY <2>1, WalletStep DEF Ledgers
  <2>4. \A k \in Keys : KeyBalanced(k)'
    BY <2>1, KeyStep DEF Ledgers
  <2>5. \A b \in Buckets : BucketBalanced(b)'
    BY <2>1, <2>2, UseStep DEF Ledgers
  <2>6. FeesOnce' /\ NobodyHarmed' /\ HeldInPast'
    BY <1>1, <2>1, FeesStep, HarmStep, PastStep DEF Ledgers
  <2> QED  BY <2>3, <2>4, <2>5, <2>6 DEF Ledgers
<1>2. CASE PeriodEnds \/ ResetDueSubscriptions \/ Crash
             \/ \E how \in {"expired", "deleted"} : EndSubscription(how)
  BY <1>2, EnvironmentStep
<1>3. CASE UNCHANGED vars
  BY <1>3 DEF vars, store, process, inputs, books, Ledgers, FeesOnce, NobodyHarmed, Unharmed,
     HeldInPast, WalletBalanced, KeyBalanced, BucketBalanced, WalletDrawn, KeyDrawn, BucketDrawn,
     Fined, KeyFined, Total
<1> QED  BY <1>1, <1>2, <1>3 DEF Next

\* The books are right in every state the program reaches
LEMMA LedgersHold == Spec => []Ledgers
<1>1. (TypeOK /\ StageInv) /\ (TypeOK /\ StageInv)' /\ Ledgers /\ [Next]_vars => Ledgers'
  BY LedgersStep
<1> QED  BY <1>1, LedgersInit, StagesHold, PTL DEF Spec

\* What is drawn in all is what is booked in all
LEMMA BookedTotal ==
  ASSUME NEW P \in SUBSET Requests, NEW f, NEW g,
         \A r \in Requests : f[r] \in Int,
         \A r \in Requests : g[r] = IF r \in P THEN f[r] ELSE 0
  PROVE  SumFunctionOnSet(f, P) = Total(g)
<1> DEFINE h == [r \in Requests |-> IF r \in P THEN f[r] ELSE 0]
<1>1. SumFunctionOnSet(f, P) = SumFunctionOnSet(h, Requests)
  BY ConstantsAssumption, SumPart
<1>2. \A r \in Requests : h[r] = g[r]
  OBVIOUS
<1> HIDE DEF h
<1> QED  BY <1>1, <1>2, ConstantsAssumption, SumSame DEF Total

\* Until a crash the balance and every key are down by exactly what the sessions
\* have booked and the fees, for any number of requests and keys, whichever
\* statements of Settle, Refund and the fee failed.
THEOREM StoreMatches == Spec => []StoreMatchesSessions
<1>1. ASSUME TypeOK, BooksAgree, Ledgers PROVE StoreMatchesSessions
  <2> SUFFICES ASSUME crashes = 0 PROVE StoreMatchesSessions
    BY DEF StoreMatchesSessions
  <2> DEFINE funding == [r \in Requests |-> FundingBooked(r)]
             keys    == [r \in Requests |-> KeyBooked(r)]
  <2>1. \A r \in Requests : funding[r] = drawn[r] /\ keys[r] = tokenDrawn[r]
                              /\ drawn[r] \in Int /\ tokenDrawn[r] \in Int
    BY <1>1 DEF Ledgers, NobodyHarmed, BooksAgree, TypeOK
  <2>2. SumFunctionOnSet(funding, {r \in Requests : OnWallet(r)}) = Total(WalletDrawn)
    <3>1. \A r \in Requests :
            WalletDrawn[r] = IF r \in {q \in Requests : OnWallet(q)} THEN funding[r] ELSE 0
      BY <2>1 DEF WalletDrawn
    <3> HIDE DEF funding
    <3> QED  BY <2>1, <3>1, BookedTotal
  <2>3. ASSUME NEW k \in Keys
        PROVE  SumFunctionOnSet(keys, {r \in Requests : KeyOf[r] = k}) = Total(KeyDrawn(k))
    <3>1. \A r \in Requests :
            KeyDrawn(k)[r] = IF r \in {q \in Requests : KeyOf[q] = k} THEN keys[r] ELSE 0
      BY <2>1 DEF KeyDrawn
    <3> HIDE DEF keys
    <3> QED  BY <2>1, <3>1, BookedTotal
  <2> QED
    BY <1>1, <2>2, <2>3
    DEF StoreMatchesSessions, Ledgers, WalletBalanced, KeyBalanced, Fined, KeyFined
<1> QED  BY <1>1, TypeCorrect, BooksAlwaysAgree, LedgersHold, PTL

\* A bucket's use is what the requests of the period hold or have used on it, for
\* any number of requests and periods, until one of an earlier period is booked.
THEOREM BucketMatches == Spec => []BucketMatchesSessions
<1>1. ASSUME TypeOK, BooksAgree, Ledgers PROVE BucketMatchesSessions
  <2> SUFFICES ASSUME crashes = 0, subscription.status # "deleted", NEW b \in Buckets, ~carried[b]
               PROVE  used[b] = SumFunctionOnSet([r \in Requests |-> FundingBooked(r)],
                        {r \in Requests : Route[r] = b /\ heldIn[r] = subscription.period})
    BY DEF BucketMatchesSessions
  <2> DEFINE funding == [r \in Requests |-> FundingBooked(r)]
             P == {r \in Requests : Route[r] = b /\ heldIn[r] = subscription.period}
  <2>1. \A r \in Requests : funding[r] = drawn[r] /\ drawn[r] \in Int
    BY <1>1 DEF Ledgers, NobodyHarmed, BooksAgree, TypeOK
  <2>2. \A r \in Requests : BucketDrawn(b)[r] = IF r \in P THEN funding[r] ELSE 0
    BY <2>1 DEF BucketDrawn
  <2>3. SumFunctionOnSet(funding, P) = Total(BucketDrawn(b))
    <3>1. P \in SUBSET Requests
      OBVIOUS
    <3> HIDE DEF funding, P
    <3> QED  BY <2>1, <2>2, <3>1, BookedTotal
  <2> QED  BY <1>1, <2>3 DEF Ledgers, BucketBalanced
<1> QED  BY <1>1, TypeCorrect, BooksAlwaysAgree, LedgersHold, PTL
=============================================================================
