SPECIFICATION Spec
CONSTANTS
  a1 = a1  a2 = a2  b = b
  NoChannel = NoChannel
  Channels = {a1, a2, b}
  Groups = 2
  Pool <- TwoPools
  Priority <- TwoTiers
  KeysOf <- SomeMultiKeys
  CrossGroup = TRUE
  RetryTimes = 1
  MaxRotations = 2
  MaxAttempts = 6
  MaxDisabled = 0
\* The request ends
CHECK_DEADLOCK FALSE
INVARIANTS GroupsBeginAtTop
