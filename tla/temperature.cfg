\* One station and the two pairs of threads a write may leave it with.
SPECIFICATION Spec
CHECK_DEADLOCK FALSE
CONSTANTS
  Stations = {ws1}
  HalfDeltas <- MCHalfDeltas
  Slots <- MCSlots
INVARIANTS
  TypeOK
  OneWatch
  WindowIsKept
PROPERTIES
  WriteEnds
  RateIsWatched
