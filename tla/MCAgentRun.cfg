\* Two questions of one run may be unanswered at the same time.
SPECIFICATION Spec
CONSTANTS
  Run = "r1"
  Loops = {"c1", "c2"}
  LineageLoops = {"c2"}
  Gates = {"g1", "g2"}
  MaxOpenQuestions = 2
  MaxOutcomes = 2
INVARIANTS
  OnePausePerQuestion
PROPERTIES
  ClarificationPauseKept
  TerminalIsFinal
  RunMovesOn
  CausesPause
CHECK_DEADLOCK FALSE
