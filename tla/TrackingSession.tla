--------------------------- MODULE TrackingSession ---------------------------
(***************************************************************************)
(* What the DishLN Pointing Device promises to whoever subscribes to       *)
(* pointingProgramTrackTable: tables come from one tracking session at a   *)
(* time; a session that was told to halt is never resumed, and once a new  *)
(* session has begun no table of an earlier one is shown again.            *)
(***************************************************************************)
EXTENDS Naturals

VARIABLES
  phase,    \* "off", "on" or "halting"
  session,  \* the session that began last, 0 at start
  shown     \* the session whose table is published, 0 for the empty table

sessionVars == <<phase, session, shown>>

Init ==
  /\ phase = "off"
  /\ session = 0
  /\ shown = 0

Begin ==
  /\ phase = "off"
  /\ phase' = "on"
  /\ session' \in Nat
  /\ session' > session
  /\ UNCHANGED shown

(* The session has no thread: it is over as soon as it has begun.            *)
BeginFails ==
  /\ phase = "off"
  /\ session' \in Nat
  /\ session' > session
  /\ UNCHANGED <<phase, shown>>

Halt ==
  /\ phase = "on"
  /\ phase' = "halting"
  /\ UNCHANGED <<session, shown>>

End ==
  /\ phase # "off"
  /\ phase' = "off"
  /\ UNCHANGED <<session, shown>>

Show ==
  /\ phase # "off"
  /\ shown' = session
  /\ UNCHANGED <<phase, session>>

Clear ==
  /\ phase # "on"
  /\ shown' = 0
  /\ UNCHANGED <<phase, session>>

Next == Begin \/ BeginFails \/ Halt \/ End \/ Show \/ Clear

Spec == Init /\ [][Next]_sessionVars
=============================================================================
