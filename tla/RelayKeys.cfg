SPECIFICATION FairSpec
CONSTANTS
  a1 = a1  a2 = a2  b = b
  NoChannel = NoChannel
  Channels = {a1, a2, b}
  Groups = 2
  Pool <- TwoPools
  Priority <- OneOverTwo
  KeysOf <- SomeMultiKeys
  CrossGroup = TRUE
  RetryTimes = 2
  MaxRotations = 1
  MaxAttempts = 6
  MaxDisabled = 2
\* The request ends
CHECK_DEADLOCK FALSE
INVARIANTS TypeOK KeysTriedOnce RotationsAreFree RotationStays
PROPERTIES FailsOver EndsOrWaits
