SPECIFICATION Spec
CONSTANTS
  Fields <- MCFields
  Issues <- MCIssues
  Modes <- MCModes
  MaxTurns <- MCMaxTurns
INVARIANTS HandoffHasPapers ConfirmedIsFilled
PROPERTIES TotalIsQuoted PendingOrderIsKept
CHECK_DEADLOCK FALSE
