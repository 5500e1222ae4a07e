CONSTANTS
  Workers = {w1, w2}
  NoWorker = NoWorker
  Staff = {hide, show}
  Hides = {hide}
  LiveSend = TRUE
  MaxAttempts = 2
  MaxMoves = 1
  MaxFaults = 1
  MaxStalls = 1
SPECIFICATION Spec
SYMMETRY WorkerSymmetry
INVARIANTS PartsAreAccountedFor VerdictUnlessInterrupted PiiIsHidden VisibilityAgrees
CHECK_DEADLOCK FALSE
