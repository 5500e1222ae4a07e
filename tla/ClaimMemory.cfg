SPECIFICATION Spec
CONSTANTS
  Workers = {w1}
  Messages = {1, 2}
  Followups = {f1}
  MaxFaults = 0
PROPERTIES FollowupStaysInHistory
CHECK_DEADLOCK FALSE
