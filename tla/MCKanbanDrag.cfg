CONSTANTS
  b1 = b1
  c1 = c1
  c2 = c2
  t1 = t1
  t2 = t2
  t3 = t3
  r1 = r1
  r2 = r2
  None = None
  Boards = {b1}
  Columns = {c1, c2}
  Tasks = {t1, t2, t3}
  Requests = {r1, r2}
  Dropped = {r1}
  Personal = {}
  Defaults = {c1, c2}
  BoardOf <- MCBoardOf
  Batches = {}
  Positions = {1, 3}
  MaxOrder = 3
SPECIFICATION DragSpec
SYMMETRY MCSymmetry
CONSTRAINT NoneArchived
PROPERTY DropLandsWhereReleased DenseColumnsStayDense
