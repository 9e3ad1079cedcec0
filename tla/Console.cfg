CONSTANTS
  t1 = t1
  t2 = t2
  u1 = u1
  u2 = u2
  Tabs = {t1, t2}
  Users = {u1, u2}
  Owner = u1
  None = None
  MaxTroubles = 4
  MaxAmongTabs = 1
SPECIFICATION FairSpec
INVARIANTS TypeOK ShownUserWasVouchedFor ActsAsShown
PROPERTIES SignInWorks
