\* Three versions, one of them without a positive parameter; restarts at any step.
SPECIFICATION Spec
CONSTANTS
  Versions <- MCVersions
  NotPositive <- MCNotPositive
  QueueLimit = 1
INVARIANTS
  TypeOK
  OKIsTrue
  MemorisedIsRemembered
PROPERTIES
  BothEnd
