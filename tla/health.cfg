\* Two bands, one of them with a pointing model; any five events and commands.
SPECIFICATION Spec
CONSTANTS
  Bands = {"B1", "B2"}
  GpmBands = {"B1"}
  Results = {"OK", "FAILED"}
  Healths = {"OK", "FAILED"}
  MaxInputs = 5
INVARIANT TypeOK
INVARIANT StateFollowsIssues
INVARIANT BandReachesHealth
INVARIANT OnlyDirectWritesDiffer
