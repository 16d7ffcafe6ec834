\* Card spending, repayment and the yield pass beside the deposits that open
\* positions.
SPECIFICATION Spec
CONSTANTS
  Requests = {1, 2}
  Positions = {1, 2}
  Amounts = {400}
  Deposits = {428}
  Withdrawals = {}
  Spends = {1400}
  Repayments = {560, 1400}
  Interests = {28}
  Prices = {100, 200, 400}
  Currencies = {"PAXG", "USDC"}
  Eligible = {"PAXG"}
  NoCurrency = "null"
  Tabs = {t1}
  Fulfillers = {f1}
  YieldRunners = {cron}
  Liquidators = {}
  MaxFunds = 900
  MaxUnmarked = 400
  Crashes = FALSE
  LinkFaults = FALSE
INVARIANTS
  TypeOK
  PledgeReconciles
  BooksBalance
  YieldWithinCap
  YieldCoveredByGain
  YieldRecorded
PROPERTIES
  AccountSpec
  RatchetHolds
\* A client may stop asking for anything.
CHECK_DEADLOCK FALSE
