CONSTANTS
  b1 = b1
  c1 = c1
  c2 = c2
  t1 = t1
  t2 = t2
  t3 = t3
  r1 = r1
  r2 = r2
  None = None
  Boards = {b1}
  Columns = {c1, c2}
  Tasks = {t1, t2, t3}
  Requests = {r1, r2}
  Personal = {}
  Defaults = {c1, c2}
  BoardOf <- MCBoardOf
  Batches <- MCBatches
  Positions = {2}
  MaxOrder = 3
SPECIFICATION Spec
SYMMETRY MCSymmetry
PROPERTY ActiveTasksSurviveColumns
