\* Any sequence of requests, two at a time, with one restart; is each answered, if
\* the children of commands end?
SPECIFICATION SpecChildrenEnd
CONSTANTS
  h1 = h1
  h2 = h2
  f = f
  Handlers = {h1, h2}
  DirFiles = {f}
  RootFiles = {}
  Dir = d
  d = d
  Values = {1, 2}
  Absent = 0
  Free = free
  free = free
  MaxRestarts = 1
INVARIANTS
  SealedUnchanged
  
  UsableWorktree
PROPERTY RequestsEnd
