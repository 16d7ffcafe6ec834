\* Racing calls and deposits, a liquidation pass and repayments kept apart in time.
SPECIFICATION ApartSpec
CONSTANTS
  Requests = {1, 2}
  Positions = {1, 2}
  Amounts = {300}
  Deposits = {107, 321}
  Withdrawals = {107}
  Spends = {1050}
  Repayments = {1050}
  Interests = {}
  Prices = {50, 60, 100}
  Currencies = {"PAXG"}
  Eligible = {"PAXG"}
  NoCurrency = "null"
  Tabs = {t1, t2}
  Fulfillers = {f1, f2}
  YieldRunners = {}
  Liquidators = {cron}
  MaxFunds = 642
  MaxUnmarked = 0
  Crashes = TRUE
  LinkFaults = FALSE
SYMMETRY Symmetry
INVARIANTS CreditIssuedOnce PledgeReconciles BooksBalance
PROPERTIES RequestLifecycle ClosedIsFinal AccountSpec
CHECK_DEADLOCK FALSE
