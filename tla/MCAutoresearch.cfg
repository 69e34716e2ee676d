\* Two experiments, or one with a repeated baseline.
SPECIFICATION Spec
CONSTANTS
  Values = {1, 2, 3}
  Limits <- MCLimits
CHECK_DEADLOCK FALSE
INVARIANTS
  BudgetKept
  OneEditor
  BestNamesExperiment
PROPERTY UserTold
