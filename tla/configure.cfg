\* Two Configures and an Abort; refusals, retries and timeouts at any moment.
SPECIFICATION Safe
CONSTANTS
  c1 = c1
  c2 = c2
  a1 = a1
  a2 = a2
  Configures <- TwoConfigures
  Aborts <- OneAbort
  DishReaches <- DishStates
  MaxTries = 2
  QueueLimit = 1
INVARIANT TypeOK
INVARIANT CleanStartTracksOwnTarget
PROPERTY TablesInOrder
PROPERTY AbortHasDishToItself
