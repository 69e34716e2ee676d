\* Is an exec ended by its timeout?
SPECIFICATION Spec
CONSTANTS
  h1 = h1
  f = f
  Handlers = {h1}
  DirFiles = {f}
  RootFiles = {x}
  x = x
  Dir = d
  d = d
  Values = {1}
  Absent = 0
  Free = free
  free = free
  MaxRestarts = 1
PROPERTY ExecEndsAtTimeout
