\* Two commands, of any family each, and two Aborts.
SPECIFICATION Spec
CHECK_DEADLOCK FALSE
CONSTANTS
  MaxCommands = 2
  MaxAborts = 2
  Kinds <- MCKinds
  DishReaches <- MCStates
INVARIANTS
  TypeOK
  NothingOutlivesAbort
PROPERTIES
  OKMeansDone
  ImplementsQueue
  EverythingEnds
