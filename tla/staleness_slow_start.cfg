SPECIFICATION Spec
CONSTANTS
  app = app
  a = a
  b = b
  q1 = q1
  q2 = q2
  Units = {app}
  Contents = {a, b}
  Quadlets = {q1, q2}
  Builds = {app}
  Gone = Gone
  NoFile = NoFile
  Stopped = Stopped
  HistoryCap = 1
  Second = 3
  MaxClock = 10
SYMMETRY Permutable
CHECK_DEADLOCK FALSE
INVARIANT OldIsMarked
