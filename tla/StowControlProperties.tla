------------------------ MODULE StowControlProperties ------------------------
(***************************************************************************)
(* What must hold of StowControl.                                          *)
(***************************************************************************)
EXTENDS StowControl

(* Every variable keeps to its range, and the lock belongs to the Abort that *)
(* is inside its with block.                                                 *)
TypeOK ==
  /\ dishMode \in {"OPERATE", "STOW"}
  /\ leaving \in BOOLEAN
  /\ leaving => dishMode = "STOW"
  /\ stowStatus \in {"DISH_NOT_IN_STOW", "STOW_STARTED", "STOW_COMPLETED",
                     "STOW_FAILED"}
  /\ tangoLock \in Aborts \cup {"free"}
  /\ stowPc \in [Stows -> {"idle", "skipped", "status", "announce", "flag",
                           "abortTasks", "invoke", "stop", "wait", "conclude",
                           "done"}]
  /\ abortFlag \in [Stows -> BOOLEAN]
  /\ verdict \in [Stows -> {"none", "OK", "FAILED", "ABORTED"}]
  /\ told \in [Stows -> {"none", "OK", "FAILED"}]
  /\ abortPc \in [Aborts -> {"idle", "abortTasks", "lock", "do", "wait",
                             "done"}]
  /\ \A a \in Aborts : tangoLock = a <=> abortPc[a] \in {"do", "wait"}

Called(s) == stowPc[s] \notin {"idle", "skipped", "status", "announce"}
NoAbort == \A a \in Aborts : abortPc[a] = "idle"

(* A stow flags the others before its own object exists: however the watching *)
(* threads and the clients interleave, they cannot all abort each other and  *)
(* leave the dish unstowed in the wind; the last one to call goes through to *)
(* the dish (setstowmode, invoke_auto_stow).                                 *)
SomeStowGoesThrough ==
  /\ NoAbort
  /\ \E s \in Stows : Called(s)
  /\ \A s \in Stows : Called(s) => stowPc[s] = "done"
  => \E s \in Stows : stowPc[s] = "done" /\ verdict[s] # "ABORTED"

(* STOW_STARTED is what keeps AutoStow from acting.  Unless a client aborts, *)
(* it only lasts while a stow is in progress: whichever stow concludes last  *)
(* replaces it, a failed one included (update_task_status of SetStowMode).   *)
StartedMeansPending ==
  stowStatus = "STOW_STARTED" /\ NoAbort
    => \E s \in Stows : Called(s) /\ stowPc[s] # "done"

(* Every stow that was called comes to an end: neither the lock an Abort     *)
(* holds while it waits for the dish, nor a dish that does not move, keeps   *)
(* it for good (SetStowMode.do, invoke_abort).                               *)
StowEnds == \A s \in Stows : Called(s) ~> stowPc[s] = "done"
=============================================================================
