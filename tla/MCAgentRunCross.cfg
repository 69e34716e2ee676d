\* Does a clarification reply leave a tool-gate pause alone?
SPECIFICATION Spec
CONSTANTS
  Run = "r1"
  Loops = {"c1", "c2"}
  LineageLoops = {"c2"}
  Gates = {"g1", "g2"}
  MaxOpenQuestions = 1
  MaxOutcomes = 2
PROPERTY NeverCrossResume
CHECK_DEADLOCK FALSE
