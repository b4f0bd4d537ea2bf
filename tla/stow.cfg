\* Two stows of AutoStow, one of a client and one Abort, all at once.
SPECIFICATION Spec
CONSTANTS
  AutoStows <- MCAutoStows
  ClientStows <- MCClientStows
  Aborts <- MCAborts
INVARIANT TypeOK
INVARIANT SomeStowGoesThrough
INVARIANT StartedMeansPending
PROPERTY StowEnds
