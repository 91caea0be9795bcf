SPECIFICATION Spec
CONSTANTS
  None = None
  Procs = {a, b}
  Full = 3
  MaxRetries = 3
  MaxFailures = 3
  MaxFaults = 5
INVARIANTS SnapshotKept NoStrayPlayer HealthyIsServed
PROPERTIES SilenceReported
