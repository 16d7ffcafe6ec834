\* A repayment between the snapshot of a liquidation pass and its turn.
SPECIFICATION Spec
CONSTANTS
  Requests = {1, 2}
  Positions = {1, 2}
  Amounts = {400}
  Deposits = {428}
  Withdrawals = {}
  Spends = {1400}
  Repayments = {1400}
  Interests = {28}
  Prices = {100, 200}
  Currencies = {"PAXG"}
  Eligible = {"PAXG"}
  NoCurrency = "null"
  Tabs = {t1}
  Fulfillers = {f1}
  YieldRunners = {}
  Liquidators = {cron}
  MaxFunds = 900
  MaxUnmarked = 0
  Crashes = FALSE
  LinkFaults = FALSE
PROPERTY ClosedIsFinal
CHECK_DEADLOCK FALSE
