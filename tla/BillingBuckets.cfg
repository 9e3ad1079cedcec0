SPECIFICATION Spec
CONSTANTS
  r1 = r1  r2 = r2  r3 = r3  k1 = k1  k2 = k2
  Requests = {r2, r3}
  Keys = {k2}
  KeyOf <- MixedKeyOf
  Route <- MixedRoute
  UnlimitedKeys = {k2}
  RedisEnabled = TRUE
  TrustQuota = 1
  InitialWallet = 2
  InitialRemain = 0
  BucketTotal <- SmallBuckets
  Quotas = {0, 2, 4}
  Fee = 1
  MaxFaults = 1
  MaxPeriods = 1
  MaxCrashes = 1
\* Every request ends, and the system then rests
CHECK_DEADLOCK FALSE
INVARIANTS TypeOK BooksAgree ChargedOnceOrNotAtAll NeverOvercharged BucketMatchesSessions
