CONSTANTS
  Rows = {rowA, rowB}
  Saves = {s1, s2}
  MaxTimers = 2
  People = {p1, p2}
  p1 = p1
  Tabs = {w1, w2}
  Owner <- MCOwner
  Presses = {m1, m2}
  NoPress = NoPress
  Edits = {e1, e2}
  Statuses = {"pending"}
  Pending = "pending"
  NoTask = NoTask
  Gone = Gone
  Backups = {a1, a2}
  k2 = k2
  Calls = {k1, k2}
  Values = {"v", "w"}
  Default = "v"
SPECIFICATION PagesSpec
SYMMETRY MCSymmetry
CONSTRAINT TwoOverlap
INVARIANT PagesTypeOK RightRow NoOrphanAssignees ListIsRight SheetIsInForce
PROPERTY InputKept TicksAreKept TickDoesWhatItShows
CHECK_DEADLOCK FALSE
