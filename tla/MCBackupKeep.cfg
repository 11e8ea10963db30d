CONSTANTS
  loop = loop
  worker = worker
  client = client
  x1 = x1
  x2 = x2
  x3 = x3
  None = None
  Loops = {loop}
  Workers = {worker}
  Clients = {client}
  Ids = {x1, x2, x3}
  InitialSchedules <- MCSchedules
  DayLength = 2
  WeekLength = 2
  MaxTime = 3
  SpareIds = 1
SPECIFICATION Spec
SYMMETRY MCSymmetry
PROPERTY KeepsLastBackups
CHECK_DEADLOCK FALSE
