--------------------------- MODULE BillingSession ---------------------------
(***************************************************************************)
(* The life of one relayed request's money: authentication of its key,     *)
(* pre-consumption from the key and from the funding source, settlement    *)
(* on success, asynchronous refund (and a violation fee) on failure        *)
(* (service/billing_session.go, service/funding_source.go and the          *)
(* subscription tables of model/subscription.go).                          *)
(*                                                                         *)
(* Many requests of one user run at once over the user's wallet, over one  *)
(* subscription with its premium and basic bucket, and over the user's     *)
(* keys.  Every database statement or transaction is one step; between two *)
(* steps of a request anything else may run, a statement may fail, and the *)
(* process may crash, which forgets every session.  The store is the       *)
(* database: the Redis copies in front of it are another component.        *)
(***************************************************************************)
EXTENDS Integers, FiniteSets, Functions

CONSTANTS
  Requests,       \* relayed requests
  Keys,           \* API keys (tokens) of the user
  KeyOf,          \* the key a request presents
  Route,          \* the funding route of a request, from its key and model
  UnlimitedKeys,  \* keys whose quota is not checked
  RedisEnabled,   \* with Redis an exhausted key is not written back as such
  TrustQuota,     \* balances above it skip pre-consumption
  InitialWallet,  \* the user's balance at the start
  InitialRemain,  \* each key's remaining quota at the start
  BucketTotal,    \* size of each bucket of the subscription
  Quotas,         \* amounts a request may be estimated at, or cost
  Fee,            \* the violation fee
  MaxFaults,      \* bound: failing database statements
  MaxPeriods,     \* bound: quota periods of the subscription
  MaxCrashes      \* bound: process crashes

Buckets == {"premium", "basic"}

\* Basic bucket only: the size that stands for "no limit"
BasicTokenUnlimited == -1

ASSUME ConstantsAssumption ==
  /\ IsFiniteSet(Requests)
  /\ KeyOf \in [Requests -> Keys]
  /\ Route \in [Requests -> Buckets \union {"wallet"}]
  /\ UnlimitedKeys \subseteq Keys
  /\ RedisEnabled \in BOOLEAN
  /\ TrustQuota \in Nat \ {0}
  /\ InitialWallet \in Nat
  /\ InitialRemain \in Nat
  /\ BucketTotal \in [Buckets -> Nat \union {BasicTokenUnlimited}]
  /\ Quotas \subseteq Nat
  /\ Fee \in Nat \ {0}
  /\ MaxFaults \in Nat
  /\ MaxPeriods \in Nat
  /\ MaxCrashes \in Nat

VARIABLES
  \* The database
  wallet,        \* users.quota
  remain,        \* tokens.remain_quota of each key
  keyStatus,     \* tokens.status of each key
  used,          \* amount_used and basic_token_used of the subscription
  subscription,  \* its status, whether a reset is due, and its quota period
  record,        \* subscription_pre_consume_records.status of each request
  \* The process
  pc,            \* where the request's handler stands
  refunder,      \* where the goroutine started by Refund stands
  attempts,      \* attempts refundWithRetry has made
  session,       \* the BillingSession (and FundingSource) of the request
  authQuota,     \* context token_quota: the key's quota at authentication
  amount,        \* quota (or basic tokens) to pre-consume
  actual,        \* actualQuota handed to Settle
  tokens,        \* relayInfo.SettledTotalTokens
  penalty,       \* ledgers the violation fee was charged to
  \* Auxiliary: the ledger an auditor would keep, read by no action
  drawn,         \* net amount taken from the funding source for the request
  tokenDrawn,    \* net amount taken from its key
  lost,          \* compensating statements that failed and were only logged
  heldIn,        \* the quota period the request pre-consumed in
  carried,       \* buckets a request of an earlier period was booked on
  faults, crashes

store   == <<wallet, remain, keyStatus, used, subscription, record>>
books   == <<drawn, tokenDrawn, lost, heldIn, carried>>
inputs  == <<authQuota, amount, actual, tokens>>
process == <<pc, refunder, attempts, session, penalty>>
vars    == <<store, process, inputs, books, faults, crashes>>

-----------------------------------------------------------------------------
Live     == {"auth", "open", "checkToken", "takeToken", "takeFunding",
             "rollback", "serving", "settle", "settleToken", "fee", "feeToken"}
Finished == {"served", "failed", "rejected", "crashed"}

NewSession ==
  [preConsumedQuota |-> 0, tokenConsumed |-> 0, fundConsumed |-> 0,
   fundingSettled |-> FALSE, settled |-> FALSE, refunded |-> FALSE]

Session ==
  [preConsumedQuota : Nat, tokenConsumed : Nat, fundConsumed : Nat,
   fundingSettled : BOOLEAN, settled : BOOLEAN, refunded : BOOLEAN]

\* What can go wrong after money has moved: the statement is logged, not retried
Compensations == {"rollback", "refundFunding", "refundToken", "settleToken"}

TypeOK ==
  /\ wallet \in Int
  /\ remain \in [Keys -> Int]
  /\ keyStatus \in [Keys -> {"enabled", "exhausted", "disabled"}]
  /\ used \in [Buckets -> Nat]
  /\ subscription \in [status : {"active", "expired", "deleted"},
                       due : BOOLEAN, period : 0..MaxPeriods]
  /\ record \in [Requests -> {"none", "consumed", "refunded"}]
  /\ pc \in [Requests -> Live \union Finished]
  /\ refunder \in [Requests -> {"idle", "funding", "token", "ended", "crashed"}]
  /\ attempts \in [Requests -> 0..2]
  /\ session \in [Requests -> Session]
  /\ authQuota \in [Requests -> Int]
  /\ amount \in [Requests -> Nat]
  /\ actual \in [Requests -> Nat]
  /\ tokens \in [Requests -> Nat]
  /\ penalty \in [Requests -> SUBSET {"funding", "token"}]
  /\ drawn \in [Requests -> Int]
  /\ tokenDrawn \in [Requests -> Int]
  /\ lost \in [Requests -> SUBSET Compensations]
  /\ heldIn \in [Requests -> 0..MaxPeriods]
  /\ carried \in [Buckets -> BOOLEAN]
  /\ faults \in 0..MaxFaults
  /\ crashes \in 0..MaxCrashes

Init ==
  /\ wallet = InitialWallet
  /\ remain = [k \in Keys |-> InitialRemain]
  /\ keyStatus = [k \in Keys |-> "enabled"]
  /\ used = [b \in Buckets |-> 0]
  /\ subscription = [status |-> "active", due |-> FALSE, period |-> 0]
  /\ record = [r \in Requests |-> "none"]
  /\ pc = [r \in Requests |-> "auth"]
  /\ refunder = [r \in Requests |-> "idle"]
  /\ attempts = [r \in Requests |-> 0]
  /\ session = [r \in Requests |-> NewSession]
  /\ authQuota = [r \in Requests |-> 0]
  /\ amount = [r \in Requests |-> 0]
  /\ actual = [r \in Requests |-> 0]
  /\ tokens = [r \in Requests |-> 0]
  /\ penalty = [r \in Requests |-> {}]
  /\ drawn = [r \in Requests |-> 0]
  /\ tokenDrawn = [r \in Requests |-> 0]
  /\ lost = [r \in Requests |-> {}]
  /\ heldIn = [r \in Requests |-> 0]
  /\ carried = [b \in Buckets |-> FALSE]
  /\ faults = 0
  /\ crashes = 0

At(r, s)   == pc[r] = s
Goto(r, s) == pc' = [pc EXCEPT ![r] = s]

UpdateSession(r, s) == session' = [session EXCEPT ![r] = s]

\* The code gets an error from a database statement, which has changed nothing.
\* One that has committed, its answer lost, is modelled where the code repeats
\* it (RefundBucketUnanswered).
StatementFails == faults < MaxFaults /\ faults' = faults + 1

Limited(r)     == KeyOf[r] \notin UnlimitedKeys
OnWallet(r)    == Route[r] = "wallet"
OnBucket(r)    == Route[r] \in Buckets

\* The keys bound to the subscription; they never pay from the wallet
SubscriptionKeys == {KeyOf[r] : r \in {q \in Requests : OnBucket(q)}}

\* tokens.remain_quota changes by d on behalf of r
AddToKey(r, d) ==
  /\ remain' = [remain EXCEPT ![KeyOf[r]] = @ + d]
  /\ tokenDrawn' = [tokenDrawn EXCEPT ![r] = @ - d]

\* users.quota changes by d on behalf of r
AddToWallet(r, d) ==
  /\ wallet' = wallet + d
  /\ drawn' = [drawn EXCEPT ![r] = @ - d]

\* bucketHasCapacity: 0 is "no limit" for premium and "no bucket" for basic
HasCapacity(b, inUse, n) ==
  \/ b = "basic" /\ BucketTotal[b] = BasicTokenUnlimited
  \/ b = "premium" /\ BucketTotal[b] <= 0
  \/ BucketTotal[b] > 0 /\ BucketTotal[b] - inUse >= n

\* Mutant: the use of a bucket may become negative
Unfloored(n) == n

AtLeastZero(n) == IF n < 0 THEN 0 ELSE n

\* PostConsumeUserSubscriptionDelta returns an error and changes nothing
PostConsumeRejects(b, d) ==
  /\ d # 0
  /\ \/ subscription.status = "deleted"
     \/ BucketTotal[b] > 0 /\ AtLeastZero(used[b] + d) > BucketTotal[b]

\* PostConsumeUserSubscriptionDelta: any status but deleted, never below zero
PostConsume(r, d) ==
  LET b == Route[r] IN
  /\ ~PostConsumeRejects(b, d)
  /\ used' = [used EXCEPT ![b] = AtLeastZero(@ + d)]
  /\ drawn' = [drawn EXCEPT ![r] = @ + d]
  /\ carried' = [carried EXCEPT ![b] = @ \/ (d # 0 /\ heldIn[r] # subscription.period)]

-----------------------------------------------------------------------------
(***************************************************************************)
(* Pre-consumption                                                         *)
(***************************************************************************)

\* ValidateUserToken, then SetupContextForToken keeps the quota it read.  A
\* limited key found empty is marked exhausted for good (without Redis).
TokenAuth(r) ==
  LET k == KeyOf[r]
      empty == Limited(r) /\ remain[k] <= 0
  IN
  /\ At(r, "auth")
  /\ IF keyStatus[k] # "enabled" \/ empty
     THEN /\ Goto(r, "rejected")
          /\ keyStatus' = IF empty /\ keyStatus[k] = "enabled" /\ ~RedisEnabled
                          THEN [keyStatus EXCEPT ![k] = "exhausted"]
                          ELSE keyStatus
          /\ UNCHANGED authQuota
     ELSE /\ Goto(r, "open")
          /\ authQuota' = [authQuota EXCEPT ![r] = remain[k]]
          /\ UNCHANGED keyStatus
  /\ UNCHANGED <<wallet, remain, used, subscription, record, refunder, attempts,
                 session, penalty, amount, actual, tokens, books, faults, crashes>>

\* shouldTrust: the key's quota at authentication, the balance read just now
Trusted(r) ==
  /\ Limited(r) => authQuota[r] > TrustQuota
  /\ wallet > TrustQuota

\* tryWallet of NewBillingSession, up to its first database write
OpenOnWallet(r, quota) ==
  /\ At(r, "open") /\ OnWallet(r)
  /\ IF wallet <= 0 \/ wallet < quota
     THEN Goto(r, "rejected") /\ UNCHANGED amount
     ELSE LET effective == IF Trusted(r) THEN 0 ELSE quota IN
          /\ amount' = [amount EXCEPT ![r] = effective]
          /\ Goto(r, IF effective > 0 THEN "checkToken" ELSE "takeFunding")
  /\ UNCHANGED <<store, refunder, attempts, session, penalty, authQuota, actual,
                 tokens, books, faults, crashes>>

\* The subscription branch of NewBillingSession: no trust, and at least 1
OpenOnSubscription(r, quota) ==
  /\ At(r, "open") /\ OnBucket(r)
  /\ amount' = [amount EXCEPT ![r] = IF quota > 0 THEN quota ELSE 1]
  /\ Goto(r, "checkToken")
  /\ UNCHANGED <<store, refunder, attempts, session, penalty, authQuota, actual,
                 tokens, books, faults, crashes>>

\* PreConsumeTokenQuota reads the key ...
CheckToken(r) ==
  /\ At(r, "checkToken")
  /\ Goto(r, IF Limited(r) /\ remain[KeyOf[r]] < amount[r]
             THEN "rejected" ELSE "takeToken")
  /\ UNCHANGED <<store, refunder, attempts, session, penalty, inputs, books,
                 faults, crashes>>

\* ... and then takes from it, whatever it holds by now
TakeToken(r) ==
  /\ At(r, "takeToken")
  /\ \/ /\ AddToKey(r, -amount[r])
        /\ UpdateSession(r, [session[r] EXCEPT !.tokenConsumed = amount[r]])
        /\ Goto(r, "takeFunding")
        /\ UNCHANGED faults
     \/ /\ StatementFails
        /\ Goto(r, "rejected")
        /\ UNCHANGED <<remain, session, tokenDrawn>>
  /\ UNCHANGED <<wallet, keyStatus, used, subscription, record, refunder, attempts,
                 penalty, inputs, drawn, lost, heldIn, carried, crashes>>

\* The pre-consumption succeeded: fundConsumed is WalletFunding.consumed or
\* SubscriptionFunding.preConsumed
Hold(r) ==
  /\ UpdateSession(r, [session[r] EXCEPT !.fundConsumed = amount[r],
                                         !.preConsumedQuota = amount[r]])
  /\ Goto(r, "serving")

\* Mutant: the key keeps paying for a request the funding source refused
AbortWithoutRollback(r) == Goto(r, "rejected") /\ UNCHANGED session

\* It failed: preConsume gives the key its quota back, if it took any
AbortHold(r) ==
  /\ Goto(r, IF session[r].tokenConsumed > 0 THEN "rollback" ELSE "rejected")
  /\ UNCHANGED session

\* WalletFunding.PreConsume: the balance is not checked again
TakeFromWallet(r) ==
  /\ At(r, "takeFunding") /\ OnWallet(r)
  /\ \/ /\ AddToWallet(r, -amount[r])
        /\ Hold(r)
        /\ UNCHANGED faults
     \/ /\ amount[r] > 0 /\ StatementFails
        /\ AbortHold(r)
        /\ UNCHANGED <<wallet, drawn>>
  /\ UNCHANGED <<remain, keyStatus, used, subscription, record, refunder, attempts,
                 penalty, inputs, tokenDrawn, lost, heldIn, carried, crashes>>

\* maybeResetUserSubscriptionWithPlanTx: the next reset is scheduled
Renewed == [subscription EXCEPT !.due = FALSE, !.period = @ + 1]

\* Mutant: the due reset clears only the bucket in use
TakeFromBucketResettingIt(r) ==
  LET b    == Route[r]
      base == IF subscription.due THEN [used EXCEPT ![b] = 0] ELSE used
      next == IF subscription.due THEN subscription.period + 1 ELSE subscription.period
  IN
  /\ At(r, "takeFunding") /\ OnBucket(r)
  /\ subscription.status = "active" /\ HasCapacity(b, base[b], amount[r])
  /\ used' = [base EXCEPT ![b] = @ + amount[r]]
  /\ subscription' = [subscription EXCEPT !.due = FALSE, !.period = next]
  /\ record' = [record EXCEPT ![r] = "consumed"]
  /\ drawn' = [drawn EXCEPT ![r] = amount[r]]
  /\ heldIn' = [heldIn EXCEPT ![r] = next]
  /\ carried' = IF subscription.due THEN [c \in Buckets |-> FALSE] ELSE carried
  /\ Hold(r)
  /\ UNCHANGED <<wallet, remain, keyStatus, refunder, attempts, penalty, inputs,
                 tokenDrawn, lost, faults, crashes>>

\* PreConsumeUserSubscription on the key's own subscription, one transaction:
\* a due reset of both buckets, the capacity check, the record, the use
TakeFromBucket(r) ==
  LET b     == Route[r]
      base  == IF subscription.due THEN [c \in Buckets |-> 0] ELSE used
      fits  == subscription.status = "active" /\ HasCapacity(b, base[b], amount[r])
      after == IF subscription.due THEN Renewed ELSE subscription
  IN
  /\ At(r, "takeFunding") /\ OnBucket(r)
  /\ \/ /\ fits
        /\ used' = [base EXCEPT ![b] = @ + amount[r]]
        /\ subscription' = after
        /\ record' = [record EXCEPT ![r] = "consumed"]
        /\ drawn' = [drawn EXCEPT ![r] = amount[r]]
        /\ heldIn' = [heldIn EXCEPT ![r] = after.period]
        /\ carried' = IF subscription.due THEN [c \in Buckets |-> FALSE] ELSE carried
        /\ Hold(r)
        /\ UNCHANGED faults
     \/ /\ \/ ~fits /\ UNCHANGED faults
           \/ StatementFails
        /\ AbortHold(r)
        /\ UNCHANGED <<used, subscription, record, drawn, heldIn, carried>>
  /\ UNCHANGED <<wallet, remain, keyStatus, refunder, attempts, penalty, inputs,
                 tokenDrawn, lost, crashes>>

\* preConsume returns the key's quota after the funding source refused
RollbackToken(r) ==
  /\ At(r, "rollback")
  /\ \/ /\ AddToKey(r, session[r].tokenConsumed)
        /\ UNCHANGED <<lost, faults>>
     \/ /\ StatementFails
        /\ lost' = [lost EXCEPT ![r] = @ \union {"rollback"}]
        /\ UNCHANGED <<remain, tokenDrawn>>
  /\ UpdateSession(r, [session[r] EXCEPT !.tokenConsumed = 0])
  /\ Goto(r, "rejected")
  /\ UNCHANGED <<wallet, keyStatus, used, subscription, record, refunder, attempts,
                 penalty, inputs, drawn, heldIn, carried, crashes>>

-----------------------------------------------------------------------------
(***************************************************************************)
(* Success: Settle                                                         *)
(***************************************************************************)

\* The upstream answered: the request cost q quota and n tokens.  Ratios give
\* no cost without tokens; a billing expression may, and may give the estimate.
Answered(r, q, n) ==
  /\ At(r, "serving")
  /\ actual' = [actual EXCEPT ![r] = q]
  /\ tokens' = [tokens EXCEPT ![r] = n]
  /\ Goto(r, "settle")
  /\ UNCHANGED <<store, refunder, attempts, session, penalty, authQuota, amount,
                 books, faults, crashes>>

\* Settle's delta, and what SubscriptionFunding.Settle makes of it: the basic
\* bucket counts tokens, and keeps the estimate when it does not know them
Delta(r) == actual[r] - session[r].preConsumedQuota

\* Mutant: without a token count the basic bucket takes the quota for tokens
BucketDeltaInQuota(r) ==
  IF Route[r] = "premium" \/ tokens[r] = 0 THEN Delta(r)
  ELSE tokens[r] - session[r].fundConsumed

BucketDelta(r) ==
  IF Route[r] = "premium" THEN Delta(r)
  ELSE IF tokens[r] = 0 THEN 0 ELSE tokens[r] - session[r].fundConsumed

\* Nothing to settle, by Settle's comparison of quotas
SettleNothing(r) ==
  /\ At(r, "settle") /\ Delta(r) = 0
  /\ UpdateSession(r, [session[r] EXCEPT !.settled = TRUE])
  /\ Goto(r, "served")
  /\ UNCHANGED <<store, refunder, attempts, penalty, inputs, books, faults, crashes>>

\* Mutant: the funding source is settled again on a second call of Settle
FundingSettledTwice(r) ==
  /\ UpdateSession(r, [session[r] EXCEPT !.fundingSettled = TRUE])
  /\ Goto(r, "settle")

FundingSettled(r) ==
  /\ UpdateSession(r, [session[r] EXCEPT !.fundingSettled = TRUE])
  /\ Goto(r, "settleToken")

\* Settle's first step: the funding source
SettleWallet(r) ==
  /\ At(r, "settle") /\ Delta(r) # 0 /\ OnWallet(r)
  /\ AddToWallet(r, -Delta(r))
  /\ FundingSettled(r)
  /\ UNCHANGED <<remain, keyStatus, used, subscription, record, refunder, attempts,
                 penalty, inputs, tokenDrawn, lost, heldIn, carried, faults, crashes>>

SettleBucket(r) ==
  /\ At(r, "settle") /\ Delta(r) # 0 /\ OnBucket(r)
  /\ PostConsume(r, BucketDelta(r))
  /\ FundingSettled(r)
  /\ UNCHANGED <<wallet, remain, keyStatus, subscription, record, refunder, attempts,
                 penalty, inputs, tokenDrawn, lost, heldIn, faults, crashes>>

\* Mutant: a settlement beyond the bucket's size waits until it fits
SettleWaits(r) ==
  /\ At(r, "settle") /\ Delta(r) # 0 /\ StatementFails
  /\ Goto(r, "served")
  /\ UNCHANGED <<store, refunder, attempts, session, penalty, inputs, books, crashes>>

\* ... which may refuse: SettleBilling's callers only log the error
SettleFails(r) ==
  /\ At(r, "settle") /\ Delta(r) # 0
  /\ \/ OnBucket(r) /\ PostConsumeRejects(Route[r], BucketDelta(r)) /\ UNCHANGED faults
     \/ StatementFails
  /\ Goto(r, "served")
  /\ UNCHANGED <<store, refunder, attempts, session, penalty, inputs, books, crashes>>

\* Mutant: settlement leaves the key alone
SettleTokenNever(r) ==
  /\ At(r, "settleToken")
  /\ UpdateSession(r, [session[r] EXCEPT !.settled = TRUE])
  /\ Goto(r, "served")
  /\ UNCHANGED <<store, refunder, attempts, penalty, inputs, books, faults, crashes>>

\* Settle's second step: the key.  It counts as settled even when it fails.
SettleToken(r) ==
  /\ At(r, "settleToken")
  /\ \/ AddToKey(r, -Delta(r)) /\ UNCHANGED <<lost, faults>>
     \/ /\ StatementFails
        /\ lost' = [lost EXCEPT ![r] = @ \union {"settleToken"}]
        /\ UNCHANGED <<remain, tokenDrawn>>
  /\ UpdateSession(r, [session[r] EXCEPT !.settled = TRUE])
  /\ Goto(r, "served")
  /\ UNCHANGED <<wallet, keyStatus, used, subscription, record, refunder, attempts,
                 penalty, inputs, drawn, heldIn, carried, crashes>>

-----------------------------------------------------------------------------
(***************************************************************************)
(* Failure: Refund and the violation fee                                   *)
(***************************************************************************)

\* needsRefundLocked
NeedsRefund(r) ==
  /\ ~session[r].settled /\ ~session[r].refunded /\ ~session[r].fundingSettled
  /\ session[r].tokenConsumed > 0 \/ (OnBucket(r) /\ session[r].fundConsumed > 0)

\* Every attempt failed.  The deferred function starts the refund, then
\* charges the fee if the upstream reported a violation.
Failed(r, violation) ==
  /\ At(r, "serving")
  /\ IF NeedsRefund(r)
     THEN /\ UpdateSession(r, [session[r] EXCEPT !.refunded = TRUE])
          /\ refunder' = [refunder EXCEPT ![r] = "funding"]
     ELSE UNCHANGED <<session, refunder>>
  /\ Goto(r, IF violation THEN "fee" ELSE "failed")
  /\ UNCHANGED <<store, attempts, penalty, inputs, books, faults, crashes>>

\* WalletFunding.Refund: quota += n is not idempotent, so it is tried once
RefundWallet(r) ==
  /\ refunder[r] = "funding" /\ OnWallet(r)
  /\ \/ AddToWallet(r, session[r].fundConsumed) /\ UNCHANGED <<lost, faults>>
     \/ /\ StatementFails
        /\ lost' = [lost EXCEPT ![r] = @ \union {"refundFunding"}]
        /\ UNCHANGED <<wallet, drawn>>
  /\ refunder' = [refunder EXCEPT ![r] = "token"]
  /\ UNCHANGED <<remain, keyStatus, used, subscription, record, pc, attempts, session,
                 penalty, inputs, tokenDrawn, heldIn, carried, crashes>>

\* RefundSubscriptionPreConsume on a record not refunded yet: the credit and
\* the record in one transaction
CreditBucket(r) ==
  /\ record[r] # "refunded"
  /\ PostConsume(r, -session[r].fundConsumed)
  /\ record' = [record EXCEPT ![r] = "refunded"]

\* Mutant: the record of an earlier attempt is not looked at
RefundBucketAgain(r) ==
  /\ refunder[r] = "funding" /\ OnBucket(r)
  /\ PostConsume(r, -session[r].fundConsumed)
  /\ record' = [record EXCEPT ![r] = "refunded"]
  /\ refunder' = [refunder EXCEPT ![r] = "token"]
  /\ UNCHANGED <<wallet, remain, keyStatus, subscription, pc, attempts, session,
                 penalty, inputs, tokenDrawn, lost, heldIn, faults, crashes>>

\* An attempt of refundWithRetry succeeds; one after a commit finds it done
RefundBucket(r) ==
  /\ refunder[r] = "funding" /\ OnBucket(r)
  /\ \/ CreditBucket(r)
     \/ record[r] = "refunded" /\ UNCHANGED <<used, drawn, carried, record>>
  /\ refunder' = [refunder EXCEPT ![r] = "token"]
  /\ UNCHANGED <<wallet, remain, keyStatus, subscription, pc, attempts, session,
                 penalty, inputs, tokenDrawn, lost, heldIn, faults, crashes>>

\* refundWithRetry tries again after an error, and gives up after the third.
\* The auditor calls the refund lost unless an attempt has committed.
TryAgain(r) ==
  IF attempts[r] < 2
  THEN /\ attempts' = [attempts EXCEPT ![r] = @ + 1]
       /\ UNCHANGED <<refunder, lost>>
  ELSE /\ refunder' = [refunder EXCEPT ![r] = "token"]
       /\ lost' = IF record'[r] = "refunded" THEN lost
                  ELSE [lost EXCEPT ![r] = @ \union {"refundFunding"}]
       /\ UNCHANGED attempts

\* Mutant: a refund that cannot succeed is retried for ever
RefundBucketRetries(r) ==
  /\ refunder[r] = "funding" /\ OnBucket(r)
  /\ PostConsumeRejects(Route[r], -session[r].fundConsumed)
  /\ attempts' = [attempts EXCEPT ![r] = 1 - @]
  /\ UNCHANGED <<store, pc, refunder, session, penalty, inputs, books, faults, crashes>>

\* An attempt fails and changes nothing
RefundBucketFails(r) ==
  /\ refunder[r] = "funding" /\ OnBucket(r)
  /\ \/ StatementFails
     \/ /\ record[r] # "refunded"
        /\ PostConsumeRejects(Route[r], -session[r].fundConsumed)
        /\ UNCHANGED faults
  /\ UNCHANGED record
  /\ TryAgain(r)
  /\ UNCHANGED <<wallet, remain, keyStatus, used, subscription, pc, session, penalty,
                 inputs, drawn, tokenDrawn, heldIn, carried, crashes>>

\* An attempt commits and its answer is lost: an error to refundWithRetry
RefundBucketUnanswered(r) ==
  /\ refunder[r] = "funding" /\ OnBucket(r)
  /\ StatementFails
  /\ CreditBucket(r)
  /\ TryAgain(r)
  /\ UNCHANGED <<wallet, remain, keyStatus, subscription, pc, session, penalty, inputs,
                 tokenDrawn, heldIn, crashes>>

\* The goroutine's last statement gives the key its quota back
RefundToken(r) ==
  /\ refunder[r] = "token"
  /\ \/ AddToKey(r, session[r].tokenConsumed) /\ UNCHANGED <<lost, faults>>
     \/ /\ StatementFails
        /\ lost' = [lost EXCEPT ![r] = @ \union {"refundToken"}]
        /\ UNCHANGED <<remain, tokenDrawn>>
  /\ refunder' = [refunder EXCEPT ![r] = "ended"]
  /\ UNCHANGED <<wallet, keyStatus, used, subscription, record, pc, attempts, session,
                 penalty, inputs, drawn, heldIn, carried, crashes>>

\* ChargeViolationFeeIfNeeded: always the balance, never a bucket
ChargeFee(r) ==
  /\ At(r, "fee")
  /\ \/ /\ wallet' = wallet - Fee
        /\ penalty' = [penalty EXCEPT ![r] = @ \union {"funding"}]
        /\ Goto(r, IF OnWallet(r) THEN "feeToken" ELSE "failed")
        /\ UNCHANGED faults
     \/ /\ StatementFails
        /\ Goto(r, "failed")
        /\ UNCHANGED <<wallet, penalty>>
  /\ UNCHANGED <<remain, keyStatus, used, subscription, record, refunder, attempts,
                 session, inputs, books, crashes>>

\* ... and on the wallet route, through PostConsumeQuota, the key as well
ChargeFeeToken(r) ==
  /\ At(r, "feeToken")
  /\ \/ /\ remain' = [remain EXCEPT ![KeyOf[r]] = @ - Fee]
        /\ penalty' = [penalty EXCEPT ![r] = @ \union {"token"}]
        /\ UNCHANGED faults
     \/ StatementFails /\ UNCHANGED <<remain, penalty>>
  /\ Goto(r, "failed")
  /\ UNCHANGED <<wallet, keyStatus, used, subscription, record, refunder, attempts,
                 session, inputs, books, crashes>>

-----------------------------------------------------------------------------
(***************************************************************************)
(* The subscription's own life, and the process's                          *)
(***************************************************************************)

NothingButSubscription ==
  UNCHANGED <<wallet, remain, record, process, inputs, drawn, tokenDrawn, lost,
              heldIn, faults, crashes>>

\* Time reaches next_reset_time
PeriodEnds ==
  /\ subscription.status = "active" /\ ~subscription.due
  /\ subscription.period < MaxPeriods
  /\ subscription' = [subscription EXCEPT !.due = TRUE]
  /\ NothingButSubscription /\ UNCHANGED <<used, carried, keyStatus>>

\* ResetDueSubscriptions: the reset the task makes when no request did.  It
\* listed the subscription while active, and locks it whatever it is by now.
ResetDueSubscriptions ==
  /\ subscription.status # "deleted" /\ subscription.due
  /\ used' = [b \in Buckets |-> 0]
  /\ subscription' = Renewed
  /\ carried' = [b \in Buckets |-> FALSE]
  /\ NothingButSubscription /\ UNCHANGED keyStatus

\* ExpireDueSubscriptions, or an administrator's invalidation or deletion: the
\* same transaction disables the subscription's keys
EndSubscription(how) ==
  /\ \/ how = "expired" /\ subscription.status = "active"
     \/ how = "deleted" /\ subscription.status # "deleted"
  /\ subscription' = [subscription EXCEPT !.status = how]
  /\ keyStatus' = [k \in Keys |-> IF k \in SubscriptionKeys THEN "disabled" ELSE keyStatus[k]]
  /\ NothingButSubscription /\ UNCHANGED <<used, carried>>

\* The process dies: requests and refunds in flight are gone, and nothing
\* looks for them after the restart.  A fee not charged yet never will be.
Crash ==
  /\ crashes < MaxCrashes
  /\ crashes' = crashes + 1
  /\ pc' = [r \in Requests |->
              IF pc[r] \in {"fee", "feeToken"} THEN "failed"
              ELSE IF pc[r] \in Live \ {"auth"} THEN "crashed" ELSE pc[r]]
  /\ refunder' = [r \in Requests |->
              IF refunder[r] \in {"funding", "token"} THEN "crashed" ELSE refunder[r]]
  /\ UNCHANGED <<store, attempts, session, penalty, inputs, books, faults>>

-----------------------------------------------------------------------------
\* The statements the process makes by itself once a request has arrived
PreConsumeStep(r) ==
  \/ \E q \in Quotas : OpenOnWallet(r, q) \/ OpenOnSubscription(r, q)
  \/ CheckToken(r) \/ TakeToken(r)
  \/ TakeFromWallet(r) \/ TakeFromBucket(r) \/ RollbackToken(r)

SettleStep(r) ==
  SettleNothing(r) \/ SettleWallet(r) \/ SettleBucket(r) \/ SettleFails(r) \/ SettleToken(r)

RefundStep(r) ==
  \/ RefundWallet(r)
  \/ RefundBucket(r) \/ RefundBucketFails(r) \/ RefundBucketUnanswered(r)
  \/ RefundToken(r)

FeeStep(r) == ChargeFee(r) \/ ChargeFeeToken(r)

UpstreamStep(r) ==
  \/ \E q, n \in Quotas : Answered(r, q, n)
  \/ \E violation \in BOOLEAN : Failed(r, violation)

RequestStep(r) ==
  TokenAuth(r) \/ PreConsumeStep(r) \/ UpstreamStep(r) \/ SettleStep(r)
    \/ RefundStep(r) \/ FeeStep(r)

Next ==
  \/ \E r \in Requests : RequestStep(r)
  \/ PeriodEnds
  \/ ResetDueSubscriptions
  \/ \E how \in {"expired", "deleted"} : EndSubscription(how)
  \/ Crash

Spec == Init /\ [][Next]_vars

\* The Go scheduler runs every goroutine that can run, and the reset task
\* ticks.  Nothing obliges a client to call or an upstream to answer.
Fairness ==
  /\ \A r \in Requests : /\ WF_vars(PreConsumeStep(r))
                         /\ WF_vars(SettleStep(r))
                         /\ WF_vars(RefundStep(r))
                         /\ WF_vars(FeeStep(r))
  /\ WF_vars(ResetDueSubscriptions)

FairSpec == Spec /\ Fairness

-----------------------------------------------------------------------------
(***************************************************************************)
(* Properties                                                              *)
(***************************************************************************)

\* What the request costs at its funding source: tokens on the basic bucket
\* (the estimate where the upstream reported none), quota elsewhere
Price(r) ==
  IF Route[r] # "basic" THEN actual[r]
  ELSE IF tokens[r] = 0 THEN session[r].fundConsumed ELSE tokens[r]

Unharmed(r) == pc[r] # "crashed" /\ refunder[r] # "crashed"

\* What the session, and its record, say it has taken from the funding source
FundingBooked(r) ==
  CASE record[r] = "refunded" -> 0
    [] refunder[r] \in {"token", "ended"} ->
         IF "refundFunding" \in lost[r] THEN session[r].fundConsumed ELSE 0
    [] session[r].fundingSettled -> Price(r)
    [] OTHER -> session[r].fundConsumed

\* ... and the session from the key
KeyBooked(r) ==
  CASE "rollback" \in lost[r] -> amount[r]
    [] refunder[r] = "ended" /\ "refundToken" \notin lost[r] -> 0
    [] session[r].settled /\ "settleToken" \notin lost[r] -> actual[r]
    [] OTHER -> session[r].tokenConsumed

\* At every moment, with every statement of every other request in between,
\* the amounts a session remembers are the amounts it has really taken: this
\* is what makes a later refund or settlement give back the right amount.
BooksAgree ==
  \A r \in Requests : Unharmed(r) =>
    drawn[r] = FundingBooked(r) /\ tokenDrawn[r] = KeyBooked(r)

\* A request that is over has been charged its price on both ledgers, or
\* nothing at all; one whose settlement was refused has been charged its
\* hold, and so has the basic bucket where the quota left nothing to settle.
\* Only a compensation the database refused leaves anything else.
ChargedOnceOrNotAtAll ==
  \A r \in Requests : lost[r] = {} =>
    /\ pc[r] = "rejected" => drawn[r] = 0 /\ tokenDrawn[r] = 0
    /\ pc[r] = "failed" /\ refunder[r] \in {"idle", "ended"} =>
         drawn[r] = 0 /\ tokenDrawn[r] = 0
    /\ pc[r] = "served" /\ session[r].settled =>
         /\ tokenDrawn[r] = actual[r]
         /\ drawn[r] = IF Route[r] = "basic" /\ ~session[r].fundingSettled
                       THEN session[r].fundConsumed ELSE Price(r)
    /\ pc[r] = "served" /\ ~session[r].settled =>
         /\ drawn[r] = session[r].fundConsumed
         /\ tokenDrawn[r] = session[r].tokenConsumed

\* Whatever fails and wherever the process dies, a request is never credited
\* more than it paid, nor charged anything but its hold or its price.
NeverOvercharged ==
  \A r \in Requests :
    /\ drawn[r] \in {0, amount[r], Price(r)}
    /\ tokenDrawn[r] \in {0, amount[r], actual[r]}

\* Until a crash the balance and the keys are down by exactly what the
\* sessions have booked, plus the fees.
StoreMatchesSessions ==
  crashes = 0 =>
    /\ InitialWallet - wallet =
         SumFunctionOnSet([r \in Requests |-> FundingBooked(r)], {r \in Requests : OnWallet(r)})
           + Fee * Cardinality({r \in Requests : "funding" \in penalty[r]})
    /\ \A k \in Keys :
         InitialRemain - remain[k] =
           SumFunctionOnSet([r \in Requests |-> KeyBooked(r)], {r \in Requests : KeyOf[r] = k})
             + Fee * Cardinality({r \in Requests : KeyOf[r] = k /\ "token" \in penalty[r]})

\* A bucket's use is what the requests of this period hold or have used,
\* until a request of an earlier period is settled or refunded on it.
BucketMatchesSessions ==
  crashes = 0 /\ subscription.status # "deleted" =>
    \A b \in Buckets : ~carried[b] =>
      used[b] = SumFunctionOnSet([r \in Requests |-> FundingBooked(r)],
                  {r \in Requests : Route[r] = b /\ heldIn[r] = subscription.period})

\* The goroutine Refund starts finishes, on both ledgers, whatever statements
\* fail: refundWithRetry is bounded.  Only the end of the process stops it.
RefundFinishes ==
  \A r \in Requests : session[r].refunded ~> refunder[r] \in {"ended", "crashed"}

\* Settle reaches an end (settled, or refused and logged) once the upstream
\* has answered, even when the bucket cannot take the difference.
SettlementFinishes ==
  \A r \in Requests : At(r, "settle") ~> pc[r] \in Finished

\* The ideal: a request's charge is opened once, closed once, and not touched
\* again
Phase(r) ==
  IF record[r] = "refunded" THEN "released"
  ELSE IF refunder[r] \in {"token", "ended"}
  THEN IF "refundFunding" \in lost[r] THEN "kept" ELSE "released"
  ELSE IF refunder[r] = "crashed"
  THEN IF drawn[r] = 0 THEN "released" ELSE "kept"
  ELSE IF session[r].fundingSettled \/ session[r].settled THEN "charged"
  ELSE IF pc[r] \in {"served", "crashed"} THEN "kept"
  ELSE IF pc[r] = "rejected" \/ (pc[r] \in {"fee", "feeToken", "failed"} /\ refunder[r] = "idle")
  THEN "released"
  ELSE "open"

Ideal == INSTANCE PrepaidCharge
           WITH phase <- [r \in Requests |-> Phase(r)], taken <- drawn

ImplementsPrepaidCharge == Ideal!Spec
====
