SPECIFICATION WizardSpec
CONSTANTS
  Pages = {b1}
  MaxPreviews = 1
  Emails = {e1}
  Codes = {c1, c2}
  Requests = {}
  Types = {personal, business}
  DossierSteps <- SmallSteps
  Dossiers = {d1, d2}
  Calls = {k1, k2}
  Approvers = {}
  MaxClients = 1
  None = none
  Bank = bank
  MaxChanges = 0
INVARIANTS ToldWhenOpen RecapHonest
SYMMETRY AnyName
CHECK_DEADLOCK FALSE
