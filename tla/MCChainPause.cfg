\* Two concurrent decisions, one retry task each.
SPECIFICATION Spec
CONSTANTS
  Runs = {"r1", "r2"}
  Seeds <- MCSeeds
  ManagedRoles = {"gather", "reviewer", "dispatch"}
  NoRun = "none"
  Malformed = "bad.id"
  q1 = q1
  q2 = q2
  Requests = {q1, q2}
  TaskIds <- MCTaskIds
SYMMETRY Symmetry
INVARIANTS
  AcceptedTookEffect
  RetryOfThisRun
  AuditedBeforeAction
CHECK_DEADLOCK FALSE
