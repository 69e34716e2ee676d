\* What an operator can do about a retried loop that fails again.
SPECIFICATION Spec
CONSTANTS
  Runs = {"r1", "r2"}
  Seeds <- MCSeeds
  ManagedRoles = {"gather", "reviewer", "dispatch"}
  NoRun = "none"
  Malformed = "bad.id"
  q1 = q1
  Requests = {q1}
  TaskIds <- MCTaskIds
INVARIANT RetriedLoopDecidable
CHECK_DEADLOCK FALSE
