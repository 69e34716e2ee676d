\* Two requests at a time, at most two in all, two instants.
SPECIFICATION Spec
CONSTANTS
  None = None
  h1 = h1
  h2 = h2
  Handlers = {h1, h2}
  WellFormed <- MCWellFormed
  Kebab <- MCKebab
  Callers <- MCCallers
  Raw <- MCRaw
  Boots <- MCBoots
  ProbeOutputs = {"text"}
  Malformed = {}
  Second = 2
  DefaultTTL = 2
  Pace = 2
  MaxTime = 3
  MaxRequests = 2
SYMMETRY Symmetry
CHECK_DEADLOCK FALSE
INVARIANTS
  HostWithinPolicy
  TightestProfile
  RoutedIntoProven
  ArtifactWhereBashLooks
  LookupTrue
