CONSTANTS
  Events = {1}
  Pollers = {p1}
  None = None
  Plans = {a, b}
  Start <- StartsLate
  Midnight = 2
  Quiet = {1}
  MaxAttempts = 2
  Grace = 2
  Lease = 1
  MaxTime = 3
  MaxChanges = 1
SPECIFICATION Spec
CHECK_DEADLOCK FALSE
PROPERTY MuteSuppresses
