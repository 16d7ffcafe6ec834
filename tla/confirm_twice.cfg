\* Two colleagues confirm the same declaration.
SPECIFICATION Spec
CONSTANTS
  Rows = {1}
  Hashes = {"hash"}
  Payments = {"tr1"}
  NoRef = "null"
  Amounts = {1, 2}
  Notifiers = {n1, n2}
  Hooks = {h1}
  Admins = {a1, a2}
  Crashes = FALSE
INVARIANT CreditedOnce
CHECK_DEADLOCK FALSE
