SPECIFICATION FairSpec
CONSTANTS
  r1 = r1  r2 = r2  r3 = r3  k1 = k1  k2 = k2
  Requests = {r1, r2}
  Keys = {k1, k2}
  KeyOf <- MixedKeyOf
  Route <- MixedRoute
  UnlimitedKeys = {k2}
  RedisEnabled = FALSE
  TrustQuota = 1
  InitialWallet = 2
  InitialRemain = 2
  BucketTotal <- SmallBuckets
  Quotas = {0, 1, 2}
  Fee = 1
  MaxFaults = 1
  MaxPeriods = 1
  MaxCrashes = 0
\* Every request ends, and the system then rests
CHECK_DEADLOCK FALSE
PROPERTIES RefundFinishes SettlementFinishes
