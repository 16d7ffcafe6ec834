\* Two deposits at a time race for the requests of one client.
SPECIFICATION FairSpec
CONSTANTS
  Requests = {1, 2}
  Positions = {1, 2}
  Amounts = {400}
  Deposits = {428}
  Withdrawals = {428}
  Spends = {}
  Repayments = {}
  Interests = {}
  Prices = {100}
  Currencies = {"PAXG", "USDC"}
  Eligible = {"PAXG"}
  NoCurrency = "null"
  Tabs = {t1}
  Fulfillers = {f1, f2}
  YieldRunners = {}
  Liquidators = {}
  MaxFunds = 900
  MaxUnmarked = 0
  Crashes = FALSE
  LinkFaults = FALSE
INVARIANT ClaimHasOwner
PROPERTY ClaimSettles
\* A client may stop asking for anything.
CHECK_DEADLOCK FALSE
