SPECIFICATION Spec
CONSTANTS
  r1 = r1  r2 = r2  r3 = r3  k1 = k1  k2 = k2
  Requests = {r1, r2}
  Keys = {k1}
  KeyOf <- WalletKeyOf
  Route <- WalletRoute
  UnlimitedKeys = {}
  RedisEnabled = FALSE
  TrustQuota = 3
  InitialWallet = 4
  InitialRemain = 4
  BucketTotal <- SmallBuckets
  Quotas = {0, 1, 3}
  Fee = 1
  MaxFaults = 1
  MaxPeriods = 0
  MaxCrashes = 1
SYMMETRY Symmetry
\* Every request ends, and the system then rests
CHECK_DEADLOCK FALSE
INVARIANTS StoreMatchesSessions
PROPERTIES ImplementsPrepaidCharge
