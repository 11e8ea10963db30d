CONSTANTS
  loop1 = loop1
  loop2 = loop2
  worker = worker
  notice = notice
  report = report
  reminder1 = reminder1
  reminder2 = reminder2
  x1 = x1
  x2 = x2
  x3 = x3
  None = None
  Loops = {loop1, loop2}
  Workers = {}
  Notices = {notice}
  Reports = {report}
  Reminders = {reminder1, reminder2}
  Hours <- MCHours
  Ids = {x1, x2, x3}
  DayLength = 3
  Offset = 1
  MaxTime = 4
SPECIFICATION Spec
SYMMETRY MCSymmetry
INVARIANT TypeOK NoDuplicates RemindersAtMostOnce
PROPERTY JournalIsKept
