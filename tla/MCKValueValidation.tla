-------------------------- MODULE MCKValueValidation --------------------------
(* For TLC: two values, one restart.                                         *)
EXTENDS KValueValidationProperties
=============================================================================
