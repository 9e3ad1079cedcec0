SPECIFICATION Spec
CONSTANTS
  a1 = a1  a2 = a2  multi = multi
  Attempts = {a1, a2}
  Channels = {multi}
  KeysOf <- KeyIndexes
  Configs <- TwoConfigs
  PruneThreshold = 1
  IdleCutoff = 1
  MaxSkew = 1
  MaxClock = 7
  MaxConfigures = 1
SYMMETRY Symmetry
INVARIANTS TypeOK NeverWedged BurstTrips
PROPERTIES FollowsDocument CoolDownStands TripsOnRecentFailures
