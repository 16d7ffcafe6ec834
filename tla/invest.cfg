SPECIFICATION Spec
CONSTANTS
  Baskets = {rwa}
  Plans = {plan}
  Rwa = rwa
  Ids = {1, 2}
  Passes = {p1, p2}
  Withdrawers = {w1}
  Rates <- SmallRates
  BotRates = {1}
  NoRate = none
  Receipts = {2}
  Amounts = {1}
  Term = 1
  MaxDay = 2
  MaxRows = 3
  MaxPasses = 2
  PerformanceMonths = 2
INVARIANTS WalletExplained StatementReconciles YieldJournalled PortfolioExplained DayRateFinal
SYMMETRY AnyPass
CHECK_DEADLOCK FALSE
