CONSTANTS
  NEvents = 2
  Images = {}
  Receipts = {}
  Blank = {}
  Workers = {w1, w2}
  NoWorker = NoWorker
  LiveSend = TRUE
  NameKnown = TRUE
  MaxParts = 1
  MaxAttempts = 2
  MaxTakeovers = 1
  MaxFaults = 0
  MaxStalls = 0
  MaxLost = 0
SPECIFICATION Spec
CHECK_DEADLOCK FALSE
SYMMETRY Symmetry
INVARIANTS NoSilentAck OrderBeforeReply
PROPERTIES HumanKeepsConversation DeliversReplies
