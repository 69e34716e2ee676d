\* Two gates, two concurrent handlers, two attempts per handler: a conflict with
\* another writer and one with the other handler exhaust them.
SPECIFICATION FairSpec
CONSTANTS
  r1 = r1
  rf = rf
  w1 = w1
  w2 = w2
  NoRun = NoRun
  NoWorker = NoWorker
  Runs = {r1}
  ForeignRuns = {rf}
  Loops <- MCLoops
  Gates = {"g1", "g2"}
  LoopOf <- MCLoopOf
  InheritAnchor <- MCInherit
  LineageAnchor <- MCLineage
  Decisions = {"approve"}
  Workers = {w1, w2}
  MaxAttempts = 2
  MaxRevision = 2
  MaxInFlight = 3
  MaxDeliveries = 2
INVARIANTS
  OutstandingMatches
  AckedRecorded
  NotCommittedIsDefinite
  AnswersTrue
PROPERTIES
  ImplementsLedger
  HandlersEnd
CHECK_DEADLOCK FALSE
