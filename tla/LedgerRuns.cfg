CONSTANTS
  Events = {1, 2}
  Pollers = {p1, p2}
  None = None
  Plans = {a, b}
  Start <- StartsApart
  Midnight = 1
  Quiet = {}
  MaxAttempts = 2
  Grace = 2
  Lease = 1
  MaxTime = 1
  MaxChanges = 1
SPECIFICATION Spec
CHECK_DEADLOCK FALSE
CONSTRAINT FewRetries
SYMMETRY Interchangeable
INVARIANT TypeOK
INVARIANT PendingHasPlan
INVARIANT OneAnnouncement
PROPERTY LeaseEndsByOwner
PROPERTY SeenMeansVerified
