CONSTANTS
  Ids = {i1, i2, i3, i4}
  None = None
  Offers <- JobOffers
  MaxTime = 4
  Grace = 1
  MaxSendAttempts = 2
  Horizon = 2
  Window = 2
  MaxPad = 1
  QuietTimes = {1}
  Presence = {FALSE, TRUE}
  Commands = {}
  Shifts = {1}
  Keys = {}
  MaxEvents = 2
SPECIFICATION FairSpec
CHECK_DEADLOCK FALSE
PROPERTY DueNeverPostponed
PROPERTY NoPrepAfterLeave
PROPERTY DepartureNotSwallowed
PROPERTY LeaveSettles
PROPERTY LifeCycle
