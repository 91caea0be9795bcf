SPECIFICATION Spec
CONSTANTS
  FirstLead = 4
  DeadlineLead = 2
  WindowSnooze = 2
  ManualSnooze = 1
  Snooze = 1
  MaxSnoozes = 1
  MaxRing = 2
  StaleLimit = 1
  WindowOn = TRUE
  DayLength = 6
  MaxTime = 7
  MaxEvents = 3
  Naps = {1, 4}
  Schedules <- WindowSchedules
INVARIANTS
  TypeOK
  EndedStaysSilent
  SoundMatchesMode
  SnoozeWithinWindow
PROPERTIES
  FinalInsists
  WindowLocked
  RetiresOnlyEnded
  DismissalKept
CHECK_DEADLOCK FALSE
