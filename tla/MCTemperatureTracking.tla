------------------------- MODULE MCTemperatureTracking -------------------------
(* For TLC: windows of two and a half and of three seconds.                  *)
EXTENDS TemperatureTrackingProperties

MCHalfDeltas == {5, 6}
MCSlots == {1, 2}
=============================================================================
