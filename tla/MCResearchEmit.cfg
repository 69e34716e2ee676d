\* What happens to a plan that emits?
SPECIFICATION Spec
CONSTANTS
  MaxSubtopics = 1
  Restricted = {}
  MaxRounds = 1
PROPERTY PlanEmitReviewed
CHECK_DEADLOCK FALSE
