CONSTANTS
  Values = {"v", "w"}
  Default = "v"
SPECIFICATION ScheduleSpec
INVARIANT ScheduleIsSaved
CHECK_DEADLOCK FALSE
