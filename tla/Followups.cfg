SPECIFICATION FairSpec
CONSTANTS
  FollowupWorkers = {f1, f2}
  Inbound = Inbound
  NoOne = NoOne
  NStages = 1
  MaxMessages = 1
  MaxAttempts = 2
  MaxTakeovers = 1
  MaxFaults = 2
  MaxStalls = 2
CHECK_DEADLOCK FALSE
INVARIANTS CyclesAgree FollowupsArePaidFor
PROPERTIES EndIsFinal TurnExcludesFollowup DueJobSettles
