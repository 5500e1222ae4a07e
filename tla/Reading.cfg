SPECIFICATION Spec
CONSTANTS
  Messages <- MCMessages
  Texts <- MCTexts
  Readings <- MCReadings
  SemFacts <- MCSemFacts
  MaxFacts = 10
  FirstDay = 2
  MaxDay = 3
  MaxTurns = 2
  MaxRetries = 1
  MaxLate = 1
INVARIANTS SayableFactsAgree CareFollowsReaction LastWordDecides
PROPERTIES RetryIsIdempotent
CHECK_DEADLOCK FALSE
