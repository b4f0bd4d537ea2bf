---------------------- MODULE KValueValidationProperties ----------------------
(***************************************************************************)
(* What the kValue validation promises.                                    *)
(***************************************************************************)
EXTENDS KValueValidation

Results == {"STARTED", "UNKNOWN", "OK", "FAILED", "NOT_ALLOWED"}

(* The values every variable may have.                                       *)
TypeOK ==
  /\ dish \in KValues \cup {0}
  /\ events \in Seq(KValues \cup {0})
  /\ kvalue \in KValues \cup {0}
  /\ memorised \in KValues \cup {0}
  /\ loaded \in BOOLEAN
  /\ validationResult \in Results
  /\ published \in Results
  /\ reported \in Results
  /\ initialized \in BOOLEAN
  /\ lock \in Threads \cup {"free"}
  /\ pc \in [Threads -> {"wait", "idle", "own", "lock", "set", "publish", "report", "giveUp", "publishGivenUp",
                         "reportGivenUp", "finish", "done"}]
  /\ seen \in [Threads -> KValues \cup {0}]
  /\ verdict \in [Threads -> {"none", "UNKNOWN", "OK", "FAILED"}]
  /\ setPc \in {"idle", "store", "result", "memorise", "publish", "report"}
  /\ argin \in KValues \cup {0}
  /\ disturbed \in {"none", "overlap", "database", "attribute"}

-----------------------------------------------------------------------------
(* Nothing is under way: every event has been compared, the timer is through *)
(* and no SetKValue is running.                                              *)
Settled ==
  /\ events = <<>>
  /\ pc["events"] = "idle"
  /\ pc["timer"] = "done"
  /\ setPc = "idle"

(* When nothing is under way the result is that of the values the dish and   *)
(* the leaf node have now, or says that the dish never answered: after any   *)
(* number of changes, refused and lost calls, and after a restart in the     *)
(* middle of SetKValue, which may have lost the new value.  The exceptions   *)
(* are the ones the code has: a SetKValue, or a change of the dish, that     *)
(* overlaps a comparison whose values were read before it (the values are    *)
(* read outside the lock), and a value that is compared with nothing: one    *)
(* written to the attribute, or a memorised one loaded after the timer has   *)
(* begun (dish_kvalue_validation_manager.py 69-96, set_kvalue.py 70-72,      *)
(* dish_leaf_node.py 583-590).                                               *)
ResultIsCurrent ==
  Settled /\ disturbed \in {"none", "database"} =>
    validationResult \in
      {"NOT_ALLOWED", Comparison(dish, kvalue)}

(* When nothing is under way, the attribute that clients read and the health *)
(* manager have the result the component manager holds.  An update is left   *)
(* out when the result does not change, so one that got lost would stay      *)
(* lost; that happens when an unlocked writer comes between the assignment   *)
(* and the publication of another, or when the database fails SetKValue      *)
(* between the two (dish_kvalue_validation_manager.py 115-152,               *)
(* dish_leaf_node.py 1766-1782).                                             *)
ResultIsPublished ==
  Settled /\ disturbed \in {"none", "attribute"} =>
    published = validationResult /\ reported = validationResult

(* After every start initialization_complete is set, whether the dish        *)
(* answers or not: the pointing model events wait for it without a timeout   *)
(* (component_manager.py 1303-1318, 2397-2414).  That is, unless the device  *)
(* is started over and over again.                                           *)
StartCompletes == []<><<Restart>>_vars \/ (~initialized ~> initialized)
=============================================================================
