CONSTANTS
  Calls = {c1, c2, c3}
  HasOpenAi = TRUE
  Cooldown = 2
  Temporary = 1
  MaxTime = 2
SPECIFICATION FairSpec
INVARIANTS OneFallback RejectsOnlyExhausted
PROPERTIES EveryCallSettles SkipsUnlessOverlapped
CHECK_DEADLOCK FALSE
