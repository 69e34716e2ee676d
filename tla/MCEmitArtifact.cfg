SPECIFICATION Spec
CONSTANTS
  None = None
  Portfolio <- MCPortfolio
  Kinds = {"issues", "pull_requests"}
  Items = {"i1", "i2"}
  Loops = {"run", "plan1", "gather1", "synth1", "plan2", "gather2", "synth2", "other"}
  Anchor <- MCAnchor
  Limit = 1
  MaxVersion = 3
  Graph <- MCGraph
  IdPrefix <- MCIdPrefix
  Within <- MCWithin
  LongQuotes <- MCLongQuotes
  Scenarios <- MCScenarios
INVARIANTS
  PublishedIsDerived
  OkMeansWhole
  SeenWasPublished
  LostOnlyWithCall
PROPERTIES
  BlamedForCause
CHECK_DEADLOCK FALSE
