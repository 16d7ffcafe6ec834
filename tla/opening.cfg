SPECIFICATION Spec
CONSTANTS
  Emails = {e1, e2}
  Codes = {c1}
  Requests = {q1, q2}
  Types = {personal}
  DossierSteps <- SmallSteps
  Dossiers = {d1}
  Calls = {k1, k2}
  Approvers = {a1}
  MaxClients = 1
  None = none
  Bank = bank
  MaxChanges = 2
INVARIANTS CodeOverlap CapacityOvershoot ApprovalHasAccount DecisionStands DossierComplete
SYMMETRY AnyName
CHECK_DEADLOCK FALSE
