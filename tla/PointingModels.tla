---------------------------- MODULE PointingModels ----------------------------
(***************************************************************************)
(* The global pointing model of one band: ApplyPointingModel, which runs   *)
(* on the worker of the task queue, and the validation of the parameters   *)
(* the dish reports, which runs on the event thread and applies the        *)
(* remembered model again when the dish has none.  Both download a model   *)
(* before they take tango_operation_execution_lock, both write the version *)
(* of the band, and both take it back, after the lock, when the dish does  *)
(* not accept the model.                                                   *)
(*                                                                         *)
(* A model is known by its version.  A dish whose parameters are all zero, *)
(* or missing, has the model "none".                                       *)
(***************************************************************************)
EXTENDS Naturals, Sequences

CONSTANTS
  Versions,    \* the versions of the model of the band
  NotPositive, \* those without a positive parameter
  QueueLimit   \* bound: parameter events waiting

ASSUME PointingModelAssumption ==
  /\ NotPositive \subseteq Versions
  /\ QueueLimit \in Nat \ {0}
  /\ Versions \cap {"none", "UNKNOWN"} = {}

VARIABLES
  dish,         \* the model the dish has
  events,       \* its parameter events waiting
  gpmVersion,   \* gpm_version of the band
  memorised,    \* gpmVersion in the Tango database
  initialized,  \* the memorised version is loaded, initialization_complete
  validation,   \* gpm_validation_result of the band
  tangoLock,
  cmdPc, argin, previous,       \* ApplyPointingModel
  evPc, params, found, restore, \* the event thread
  disturbed     \* history: what has come in the way since the start

dishVars == <<dish, events>>
cmdVars == <<cmdPc, argin, previous>>
evVars == <<evPc, params, found, restore>>
vars == <<dishVars, gpmVersion, memorised, initialized, validation, tangoLock,
          cmdVars, evVars, disturbed>>

Init ==
  /\ dish \in Versions \cup {"none"}
  /\ events = <<dish>>
  /\ gpmVersion = "UNKNOWN"
  /\ memorised \in Versions \cup {"UNKNOWN"}
  /\ initialized = FALSE
  /\ validation = "UNKNOWN"
  /\ tangoLock = "free"
  /\ cmdPc = "idle" /\ argin = "none" /\ previous = "UNKNOWN"
  /\ evPc = "idle" /\ params = "none"
  /\ found = "UNKNOWN" /\ restore = "UNKNOWN"
  /\ disturbed = {}

-----------------------------------------------------------------------------
(* The dish reports its parameters when they change.                         *)
Has(model) ==
  /\ dish' = model
  /\ IF model = dish THEN UNCHANGED events
     ELSE Len(events) < QueueLimit /\ events' = Append(events, model)

(* It is restarted without a model, or someone else gives it one.            *)
DishChanges ==
  /\ \E model \in (Versions \cup {"none"}) \ {dish} : Has(model)
  /\ UNCHANGED <<gpmVersion, memorised, initialized, validation, tangoLock,
                 cmdVars, evVars, disturbed>>

(* A call of its ApplyPointingModel: it has the model or not, and what it    *)
(* answers is OK only if it has; a call may time out afterwards.             *)
Applies(model, ok) ==
  \/ Has(model)
  \/ ~ok /\ UNCHANGED dishVars

(* History.  "overlap": the version was written while another was inside its *)
(* own read, write and take back of it; it covers the other two.             *)
(* "database": a version was not memorised.  "unvalidated": the model or the *)
(* version changed and nothing was compared.                                 *)
Mark(what) ==
  LET all == disturbed \cup what
  IN  disturbed' = IF "overlap" \in all THEN {"overlap"} ELSE all

OverlapWith(cond) == IF cond THEN {"overlap"} ELSE {}

(* Each side is inside its own read, write and take back of the version.     *)
CommandWrites == cmdPc \in {"call", "ok", "failed"}
EventWrites == evPc \in {"previous", "download", "lock", "call", "restore"}

-----------------------------------------------------------------------------
(* ApplyPointingModel: allowed whenever the dish answers.                    *)

CmdSteps(from, to) ==
  /\ cmdPc = from
  /\ cmdPc' = to
  /\ UNCHANGED <<initialized, validation, evVars>>

Submitted ==
  /\ initialized
  /\ CmdSteps("idle", "download")
  /\ argin' \in Versions
  /\ UNCHANGED <<dishVars, gpmVersion, memorised, tangoLock, previous,
                 disturbed>>

(* The argument is not valid, there is no adapter, or the model cannot be    *)
(* downloaded: no version has been written and none is taken back.           *)
CmdDownloadFails ==
  /\ CmdSteps("download", "idle")
  /\ argin' = "none"
  /\ UNCHANGED <<dishVars, gpmVersion, memorised, tangoLock, previous,
                 disturbed>>

CmdDownloaded ==
  /\ CmdSteps("download", "lock")
  /\ UNCHANGED <<dishVars, gpmVersion, memorised, tangoLock, argin, previous,
                 disturbed>>

(* The version is written before the dish is called, so that the event that  *)
(* the call causes is compared with it.                                      *)
CmdLocks ==
  /\ tangoLock = "free"
  /\ CmdSteps("lock", "call")
  /\ tangoLock' = "command"
  /\ previous' = gpmVersion
  /\ gpmVersion' = argin
  /\ Mark(OverlapWith(EventWrites))
  /\ UNCHANGED <<dishVars, memorised, argin>>

\* Mutant: the lock is kept when the dish does not accept the model.
CmdKeepsLock ==
  /\ \E ok \in BOOLEAN :
       /\ CmdSteps("call", IF ok THEN "ok" ELSE "failed")
       /\ Applies(argin, ok)
       /\ tangoLock' = IF ok THEN "free" ELSE tangoLock
  /\ UNCHANGED <<gpmVersion, memorised, argin, previous, disturbed>>

CmdCalls ==
  /\ \E ok \in BOOLEAN :
       CmdSteps("call", IF ok THEN "ok" ELSE "failed") /\ Applies(argin, ok)
  /\ tangoLock' = "free"
  /\ UNCHANGED <<gpmVersion, memorised, argin, previous, disturbed>>

CmdForgets == argin' = "none" /\ previous' = "UNKNOWN"

(* handle_gpm_version_callback memorises what gpm_version is by now; an      *)
(* error of the database is logged.                                          *)
CmdSucceeds ==
  /\ CmdSteps("ok", "idle")
  /\ \/ memorised' = gpmVersion /\ Mark(OverlapWith(EventWrites))
     \/ UNCHANGED memorised /\ Mark({"database"})
  /\ CmdForgets
  /\ UNCHANGED <<dishVars, gpmVersion, tangoLock>>

(* The version is taken back.  The dish may have the model all the same. *)
CmdTakesBack ==
  /\ CmdSteps("failed", "idle")
  /\ gpmVersion' = previous
  /\ CmdForgets
  /\ Mark((IF dish = argin /\ previous # argin THEN {"unvalidated"} ELSE {})
          \cup OverlapWith(EventWrites))
  /\ UNCHANGED <<dishVars, memorised, tangoLock>>

-----------------------------------------------------------------------------
(* The event thread: update_dish_params_and_validate_gpm.  It alone writes   *)
(* the result of the validation.                                             *)

EvSteps(from, to) ==
  /\ evPc = from
  /\ evPc' = to
  /\ UNCHANGED <<memorised, initialized, cmdVars>>

TakesEvent ==
  /\ initialized
  /\ events # <<>>
  /\ EvSteps("idle", "version")
  /\ params' = Head(events)
  /\ events' = Tail(events)
  /\ UNCHANGED <<dish, gpmVersion, validation, tangoLock, found, restore,
                 disturbed>>

(* What becomes of an event, once the version is read.                       *)
Reads(to) ==
  /\ EvSteps("version", to)
  /\ UNCHANGED <<dishVars, gpmVersion, tangoLock, restore>>

Concludes(result) ==
  /\ validation' = result
  /\ params' = "none"
  /\ found' = "UNKNOWN"

NothingKnown ==
  /\ gpmVersion = "UNKNOWN"
  /\ params \notin NotPositive
  /\ Reads("idle")
  /\ Concludes(IF params = "none" THEN "UNKNOWN" ELSE "FAILED")
  /\ UNCHANGED disturbed

(* Parameters none of which is positive and that are not all zero are        *)
(* neither validated nor replaced.                                           *)
NotValidated ==
  /\ params \in NotPositive
  /\ Reads("idle")
  /\ Concludes(validation)
  /\ Mark({"unvalidated"})

ToBeCompared ==
  /\ gpmVersion # "UNKNOWN"
  /\ params \notin NotPositive \cup {"none"}
  /\ Reads("compare")
  /\ found' = gpmVersion
  /\ UNCHANGED <<validation, params, disturbed>>

ToBeApplied ==
  /\ gpmVersion # "UNKNOWN"
  /\ params = "none"
  /\ Reads("previous")
  /\ found' = gpmVersion
  /\ UNCHANGED <<validation, params, disturbed>>

\* Mutant: any model that can be downloaded is taken for the dish's.
ComparesNothing ==
  /\ EvSteps("compare", "idle")
  /\ Concludes("OK")
  /\ UNCHANGED <<dishVars, gpmVersion, tangoLock, restore, disturbed>>

(* The model of the version found is downloaded and compared, or cannot be   *)
(* downloaded.                                                               *)
Compares ==
  /\ EvSteps("compare", "idle")
  /\ \/ Concludes(IF params = found THEN "OK" ELSE "FAILED")
     \/ Concludes("FAILED")
  /\ UNCHANGED <<dishVars, gpmVersion, tangoLock, restore, disturbed>>

\* Mutant: what is to be taken back is what the dish has.
RestoresParams ==
  /\ EvSteps("previous", "download")
  /\ restore' = params
  /\ UNCHANGED <<dishVars, gpmVersion, validation, tangoLock, params, found,
                 disturbed>>

(* invoke_apm_on_dish reads the version a second time.                       *)
ReadsPrevious ==
  /\ EvSteps("previous", "download")
  /\ restore' = gpmVersion
  /\ UNCHANGED <<dishVars, gpmVersion, validation, tangoLock, params, found,
                 disturbed>>

EvDownloaded ==
  /\ EvSteps("download", "lock")
  /\ UNCHANGED <<dishVars, gpmVersion, validation, tangoLock, params, found,
                 restore, disturbed>>

EvDownloadFails ==
  /\ EvSteps("download", "restore")
  /\ Concludes("FAILED")
  /\ UNCHANGED <<dishVars, gpmVersion, tangoLock, restore, disturbed>>

(* An exception before do() is called, which itself raises none: no version  *)
(* has been written and none is taken back.                                  *)
EvRaises ==
  /\ EvSteps("download", "idle")
  /\ Concludes("FAILED")
  /\ restore' = "UNKNOWN"
  /\ UNCHANGED <<dishVars, gpmVersion, tangoLock, disturbed>>

(* do() again: the version found before the lock is written under it.        *)
EvLocks ==
  /\ tangoLock = "free"
  /\ EvSteps("lock", "call")
  /\ tangoLock' = "events"
  /\ gpmVersion' = found
  /\ Mark(OverlapWith(CommandWrites))
  /\ UNCHANGED <<dishVars, validation, params, found, restore>>

EvCallSucceeds ==
  /\ EvSteps("call", "idle")
  /\ Applies(found, TRUE)
  /\ tangoLock' = "free"
  /\ Concludes("OK")
  /\ restore' = "UNKNOWN"
  /\ UNCHANGED <<gpmVersion, disturbed>>

EvCallFails ==
  /\ EvSteps("call", "restore")
  /\ Applies(found, FALSE)
  /\ tangoLock' = "free"
  /\ Concludes("FAILED")
  /\ UNCHANGED <<gpmVersion, restore, disturbed>>

\* Mutant: the band has no version any more after a model was not accepted.
EvDrops ==
  /\ EvSteps("restore", "idle")
  /\ gpmVersion' = "UNKNOWN"
  /\ restore' = "UNKNOWN"
  /\ Mark(OverlapWith(CommandWrites))
  /\ UNCHANGED <<dishVars, validation, tangoLock, params, found>>

EvRestores ==
  /\ EvSteps("restore", "idle")
  /\ gpmVersion' = restore
  /\ restore' = "UNKNOWN"
  /\ Mark(OverlapWith(CommandWrites))
  /\ UNCHANGED <<dishVars, validation, tangoLock, params, found>>

-----------------------------------------------------------------------------
(* A write of the gpmVersion attribute is memorised; nothing validates it.   *)
WritesAttribute ==
  /\ initialized
  /\ gpmVersion' \in Versions \ {gpmVersion}
  /\ memorised' = gpmVersion'
  /\ Mark({"unvalidated"}
          \cup OverlapWith(CommandWrites \/ EventWrites))
  /\ UNCHANGED <<dishVars, initialized, validation, tangoLock, cmdVars,
                 evVars>>

(* The device is started again: the subscription delivers the parameters     *)
(* the dish has, and their validation waits for the initialisation.          *)
Restart ==
  /\ events' = <<dish>>
  /\ gpmVersion' = "UNKNOWN"
  /\ initialized' = FALSE
  /\ validation' = "UNKNOWN"
  /\ tangoLock' = "free"
  /\ cmdPc' = "idle" /\ argin' = "none" /\ previous' = "UNKNOWN"
  /\ evPc' = "idle" /\ params' = "none"
  /\ found' = "UNKNOWN" /\ restore' = "UNKNOWN"
  /\ disturbed' = {}
  /\ UNCHANGED <<dish, memorised>>

InitializationCompletes ==
  /\ ~initialized
  /\ initialized' = TRUE
  /\ gpmVersion' = memorised
  /\ UNCHANGED <<dishVars, memorised, validation, tangoLock, cmdVars, evVars,
                 disturbed>>

-----------------------------------------------------------------------------
Command ==
  \/ CmdDownloadFails
  \/ CmdDownloaded
  \/ CmdLocks
  \/ CmdCalls
  \/ CmdSucceeds
  \/ CmdTakesBack

EventThread ==
  \/ TakesEvent
  \/ NothingKnown
  \/ NotValidated
  \/ ToBeCompared
  \/ ToBeApplied
  \/ Compares
  \/ ReadsPrevious
  \/ EvDownloaded
  \/ EvDownloadFails
  \/ EvRaises
  \/ EvLocks
  \/ EvCallSucceeds
  \/ EvCallFails
  \/ EvRestores

Next ==
  \/ DishChanges
  \/ Submitted
  \/ Command
  \/ EventThread
  \/ WritesAttribute
  \/ Restart
  \/ InitializationCompletes

(* Threads that can run do and get the lock in their turn; downloads and     *)
(* calls of the dish come to an end.                                         *)
Fairness ==
  /\ WF_vars(InitializationCompletes)
  /\ SF_vars(Command)
  /\ SF_vars(EventThread)

Spec == Init /\ [][Next]_vars /\ Fairness
=============================================================================
