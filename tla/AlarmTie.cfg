SPECIFICATION Spec
CONSTANTS
  FirstLead = 4
  DeadlineLead = 0
  WindowSnooze = 2
  ManualSnooze = 1
  Snooze = 1
  MaxSnoozes = 1
  MaxRing = 2
  StaleLimit = 1
  WindowOn = TRUE
  DayLength = 6
  MaxTime = 7
  MaxEvents = 2
  Naps = {1, 4}
  Schedules <- WindowSchedules
PROPERTIES
  EligibleWindowOpens
CHECK_DEADLOCK FALSE
