\* One position under everything at once: overlapping passes of both jobs,
\* restarts, failed links.
SPECIFICATION Spec
CONSTANTS
  Requests = {1}
  Positions = {1}
  Amounts = {400}
  Deposits = {428}
  Withdrawals = {}
  Spends = {1400}
  Repayments = {560, 1400}
  Interests = {28}
  Prices = {100, 200, 400}
  Currencies = {"PAXG"}
  Eligible = {"PAXG"}
  NoCurrency = "null"
  Tabs = {t1}
  Fulfillers = {f1}
  YieldRunners = {cron, admin}
  Liquidators = {cron}
  MaxFunds = 900
  MaxUnmarked = 1400
  Crashes = TRUE
  LinkFaults = TRUE
INVARIANTS JournalCovered UnsecuredOnlyByLiquidation
CHECK_DEADLOCK FALSE
