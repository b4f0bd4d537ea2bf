\* Three Configures are enough.
SPECIFICATION Spec
CONSTANTS
  Bands = {"B1", "B2"}
  GpmBands = {"B1"}
  Results = {"OK", "FAILED"}
  Healths = {"OK", "FAILED"}
  MaxInputs = 5
INVARIANT GenerateFailureShows
