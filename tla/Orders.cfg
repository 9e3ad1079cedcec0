CONSTANTS
  x1 = x1
  x2 = x2
  Plans = {"lite", "pro"}
  Price <- PriceList
  Limit = 2
  InitialQuota = 4
  Worths = {1}
  Sessions = {x1, x2}
  MaxOrders = 3
  MaxSubs = 3
  MaxHelps = 1
SYMMETRY Symmetry
CHECK_DEADLOCK FALSE
SPECIFICATION Spec
INVARIANTS TypeOK TradedInOnce PaymentTraced WalletAgrees
PROPERTIES DeliversWhatWasPaid PurchasesAsAllowed
