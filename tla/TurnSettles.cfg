CONSTANTS
  NEvents = 3
  Images = {1}
  Receipts = {2}
  Blank = {}
  Workers = {w1}
  NoWorker = NoWorker
  LiveSend = TRUE
  NameKnown = FALSE
  MaxParts = 1
  MaxAttempts = 2
  MaxTakeovers = 1
  MaxFaults = 1
  MaxStalls = 0
  MaxLost = 1
SPECIFICATION FairSpec
CHECK_DEADLOCK FALSE
PROPERTIES LatestEventSettles
