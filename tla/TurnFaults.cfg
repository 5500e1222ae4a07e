CONSTANTS
  NEvents = 1
  Images = {}
  Receipts = {}
  Blank = {}
  Workers = {w1, w2}
  NoWorker = NoWorker
  LiveSend = TRUE
  NameKnown = TRUE
  MaxParts = 2
  MaxAttempts = 2
  MaxTakeovers = 1
  MaxFaults = 2
  MaxStalls = 1
  MaxLost = 0
SPECIFICATION Spec
CHECK_DEADLOCK FALSE
SYMMETRY Symmetry
INVARIANTS CursorMatchesMeta DuplicatesArePaidFor
PROPERTIES UnknownNeverResent
