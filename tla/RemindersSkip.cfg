CONSTANTS
  Ids = {i1, i2, i3, i4}
  None = None
  Offers <- TwoTrips
  MaxTime = 4
  Grace = 1
  MaxSendAttempts = 2
  Horizon = 2
  Window = 2
  MaxPad = 0
  QuietTimes = {}
  Presence = {FALSE}
  Commands = {"skip"}
  Shifts = {1}
  Keys = {}
  MaxEvents = 3
SPECIFICATION Spec
CHECK_DEADLOCK FALSE
INVARIANT SkipIsFinal
