SPECIFICATION Spec
CONSTANTS
  Clerks = {k1, k2}
  MaxOrders = 2
  MaxVersions = 3
  MaxLost = 1
  MaxFaults = 1
SYMMETRY ClerkSymmetry
INVARIANTS TrackingSentOnce ToldIsRecordedUnlessRaced
PROPERTIES CancelledStays
