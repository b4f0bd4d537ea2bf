--------------------------- MODULE MCPointingDevice ---------------------------
(***************************************************************************)
(* PointingDevice for TLC; the instances are in the cfg files.             *)
(***************************************************************************)
EXTENDS PointingDeviceProperties
=============================================================================
