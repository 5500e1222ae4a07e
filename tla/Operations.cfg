CONSTANTS
  Requests = {r1, r2}
  Compiled = FALSE
  FollowupEnabled = FALSE
  MaxProcesses = 3
  MaxFaults = 2
SPECIFICATION Spec
SYMMETRY Interchangeable
INVARIANTS RecordedUrlIsRegistered OneConsumer OneRestart
PROPERTIES HealthyUnlessDisturbed
CHECK_DEADLOCK FALSE
