\* An issue that fails after the client has asked again.
SPECIFICATION Spec
CONSTANTS
  Requests = {1, 2}
  Positions = {1, 2}
  Amounts = {400}
  Deposits = {428}
  Withdrawals = {}
  Spends = {1400}
  Repayments = {}
  Interests = {28}
  Prices = {100}
  Currencies = {"PAXG"}
  Eligible = {"PAXG"}
  NoCurrency = "null"
  Tabs = {t1}
  Fulfillers = {f1}
  YieldRunners = {}
  Liquidators = {}
  MaxFunds = 900
  MaxUnmarked = 0
  Crashes = FALSE
  LinkFaults = FALSE
INVARIANT OneActiveRequest
CHECK_DEADLOCK FALSE
