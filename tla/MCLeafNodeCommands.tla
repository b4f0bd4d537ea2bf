-------------------------- MODULE MCLeafNodeCommands --------------------------
(* For TLC: commands of every family, and the states that tell them apart;   *)
(* in STANDBY_FP the pointing state is still to follow.                      *)
EXTENDS LeafNodeCommandsProperties

MCKinds == {"Track", "TrackStop", "SetStandbyLPMode", "Off"}
MCStates == {[mode |-> "STANDBY_LP", tracking |-> FALSE],
             [mode |-> "STANDBY_FP", tracking |-> TRUE],
             [mode |-> "OPERATE", tracking |-> TRUE]}
=============================================================================
