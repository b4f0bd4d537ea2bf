---------------------------- MODULE MCStowControl ----------------------------
(***************************************************************************)
(* StowControl for TLC: two watching threads, a client's stow, an Abort.   *)
(***************************************************************************)
EXTENDS StowControlProperties

MCAutoStows == {"wind", "temperature"}
MCClientStows == {"client"}
MCAborts == {"abort"}
=============================================================================
