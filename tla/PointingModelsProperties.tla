----------------------- MODULE PointingModelsProperties -----------------------
(***************************************************************************)
(* What ApplyPointingModel and the validation of the pointing model        *)
(* promise.                                                                *)
(***************************************************************************)
EXTENDS PointingModels

(* The values every variable may have.                                       *)
TypeOK ==
  /\ dish \in Versions \cup {"none"}
  /\ events \in Seq(Versions \cup {"none"})
  /\ gpmVersion \in Versions \cup {"UNKNOWN"}
  /\ memorised \in Versions \cup {"UNKNOWN"}
  /\ initialized \in BOOLEAN
  /\ validation \in {"UNKNOWN", "OK", "FAILED"}
  /\ tangoLock \in {"free", "command", "events"}
  /\ cmdPc \in {"idle", "download", "lock", "call", "ok", "failed"}
  /\ argin \in Versions \cup {"none"}
  /\ previous \in Versions \cup {"UNKNOWN"}
  /\ evPc \in {"idle", "version", "compare", "previous", "download", "lock",
               "call", "restore"}
  /\ params \in Versions \cup {"none"}
  /\ found \in Versions \cup {"UNKNOWN"}
  /\ restore \in Versions \cup {"UNKNOWN"}
  /\ disturbed \subseteq {"overlap", "database", "unvalidated"}

-----------------------------------------------------------------------------
(* Nothing is under way.                                                     *)
Settled ==
  /\ initialized
  /\ events = <<>>
  /\ evPc = "idle"
  /\ cmdPc = "idle"

(* When nothing is under way and the validation says OK, the dish has the    *)
(* model the leaf node remembers for the band: whatever commands and         *)
(* parameter events came before, and whatever versions were taken back.  The *)
(* exceptions are those of the code: a command that the dish obeyed and did  *)
(* not confirm, after whose rollback nothing is validated, parameters that   *)
(* are not looked at (gpm_validator.py 292: none is above zero), writes of   *)
(* the attribute, and a command and an event that applied models over each   *)
(* other's take back (apply_pointing_model.py 78-86, gpm_validator.py 236).  *)
OKIsTrue ==
  Settled /\ validation = "OK"
      /\ disturbed \cap {"overlap", "unvalidated"} = {} =>
    dish = gpmVersion

(* When nothing is under way the database has the version the leaf node      *)
(* remembers, so that the first validation after a restart compares with the *)
(* model that was last in force; unless the database failed, or a command,   *)
(* the event thread or a write of the attribute changed the version while    *)
(* another was between its read and its take back of it                      *)
(* (apply_pointing_model.py 78-110, 318-330; gpm_validator.py 195-240).      *)
MemorisedIsRemembered ==
  Settled /\ disturbed \cap {"overlap", "database"} = {} =>
    memorised = gpmVersion

(* ApplyPointingModel ends and the event thread gets back to its queue,      *)
(* although each waits for the lock the other holds over a call of the dish. *)
BothEnd ==
  /\ cmdPc # "idle" ~> cmdPc = "idle"
  /\ evPc # "idle" ~> evPc = "idle"
=============================================================================
