SPECIFICATION Spec
CONSTANTS
  Day = 4
  SnoozeLen = 1
  None = None
  Failed = Failed
  Publishers = {p1, p2}
  p1 = p1
  p2 = p2
  Contracts = {"v1", "legacy"}
  Config <- MCConfig
  Calendars <- MCCalendars
  Intents <- MCIntents
  Attempts = 2
  MaxCount = 2
  Empty = Empty
  Garbage = Garbage
  MaxTime = 3
  MaxIssues = 2
  MaxEvents = 3
INVARIANTS TypeOK ConfirmedIsCommitted NoResurrection IntentNotOverslept
PROPERTIES IntentOutlivesOthers CommitsMoveForward
SYMMETRY PublisherSymmetry
CHECK_DEADLOCK FALSE
