SPECIFICATION Spec
CONSTANTS
  Writings <- MCWritings
  Outcomes <- MCOutcomes
INVARIANTS ModelBudgetKept HistoryIsWhatWasSaid RefusedStaysUnsent PauseIsTold
CHECK_DEADLOCK FALSE
