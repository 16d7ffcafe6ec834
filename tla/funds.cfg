\* All three channels, repeated and concurrent notifications; the bank reviews
\* one declaration at a time.
SPECIFICATION FairSpec
CONSTANTS
  Rows = {1, 2, 3}
  Hashes = {"hash"}
  Payments = {"tr1", "tr2"}
  NoRef = "null"
  Amounts = {1}
  Notifiers = {n1, n2}
  Hooks = {h1}
  Admins = {a1}
  Crashes = TRUE
INVARIANTS
  BalanceExplained
  CreditedOnce
  OneCreditPerReference
  PaidBeforeCredited
  OneCallPerCredit
PROPERTIES
  IntakeSpec
  CreditFollowedUp
\* A client may stop paying in.
CHECK_DEADLOCK FALSE
