--------------------------- MODULE MCPointingModels ---------------------------
(* For TLC: three versions, one of which has no positive parameter.          *)
EXTENDS PointingModelsProperties

MCVersions == {"v1", "v2", "v3"}
MCNotPositive == {"v3"}
=============================================================================
