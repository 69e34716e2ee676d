\* Two plans of up to two subtopics each; changes with up to four calls, two at
\* a time, and two emissions.
SPECIFICATION PacksSpec
CONSTANTS
  MaxSubtopics = 2
  Restricted = {}
  MaxRounds = 2
  Worlds <- MCWorlds
  Slugified <- MCSlugified
  Suffixed <- MCSuffixed
  MaxInFlight = 2
  MaxEmissions = 2
INVARIANTS
  JoinExact
  OneVerdict
  PriorIsRejected
  ReadyIsProven
  PlanIsReviewed
PROPERTIES
  NoRunForgotten
  RequestHonoured
CHECK_DEADLOCK FALSE
