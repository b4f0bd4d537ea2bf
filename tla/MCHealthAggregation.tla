------------------------- MODULE MCHealthAggregation -------------------------
(* Bands and results are strings: they are compared with "NONE" and "OK".    *)
EXTENDS HealthAggregationProperties
=============================================================================
