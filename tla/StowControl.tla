----------------------------- MODULE StowControl -----------------------------
(***************************************************************************)
(* SetStowMode and Abort on the Dish Leaf Node.  A stow is started by a    *)
(* client or, behind two checks, by one of the threads of AutoStow that    *)
(* watch wind and temperature.  Neither command goes through the task      *)
(* queue: each flags the command objects in progress, has the queue        *)
(* aborted, and does its own work on the thread that aborted the queue, so *)
(* any number of them run side by side.  What orders them is the abort     *)
(* flag of each object and tango_operation_execution_lock.                 *)
(***************************************************************************)
CONSTANTS
  AutoStows,    \* bound: the times a watching thread finds a reason to stow
  ClientStows,  \* bound: calls of SetStowMode
  Aborts        \* bound: calls of Abort

ASSUME StowAssumption == AutoStows \cap ClientStows = {} /\ "free" \notin Aborts

Stows == AutoStows \cup ClientStows

VARIABLES
  dishMode,    \* the cached mode: OPERATE stands for all a stow may start from
  leaving,     \* the event thread is halfway through a change out of STOW
  stowStatus,
  tangoLock,   \* tango_operation_execution_lock: an Abort, or "free"
  stowPc,
  abortFlag,   \* abort_flag of the SetStowMode object of each stow
  verdict,     \* what do() returned
  told,        \* what the caller's task callback was told last
  abortPc

dishVars == <<dishMode, leaving>>
stowVars == <<stowPc, verdict, told>>
vars == <<dishVars, stowStatus, tangoLock, stowVars, abortFlag, abortPc>>

Init ==
  /\ dishMode = "OPERATE"
  /\ leaving = FALSE
  /\ stowStatus = "DISH_NOT_IN_STOW"
  /\ tangoLock = "free"
  /\ stowPc = [s \in Stows |-> "idle"]
  /\ abortFlag = [s \in Stows |-> FALSE]
  /\ verdict = [s \in Stows |-> "none"]
  /\ told = [s \in Stows |-> "none"]
  /\ abortPc = [a \in Aborts |-> "idle"]

-----------------------------------------------------------------------------
(* dishMode events, one at a time under dish_mode_lock.  The status is set   *)
(* before the mode, and no reader takes the lock.                            *)

DishStows ==
  /\ ~leaving
  /\ dishMode' = "STOW"
  /\ UNCHANGED <<leaving, stowStatus, tangoLock, stowVars, abortFlag, abortPc>>

LeaveIsNoticed ==
  /\ dishMode = "STOW" /\ ~leaving
  /\ leaving' = TRUE
  /\ stowStatus' = "DISH_NOT_IN_STOW"
  /\ UNCHANGED <<dishMode, tangoLock, stowVars, abortFlag, abortPc>>

DishLeaves ==
  /\ leaving
  /\ leaving' = FALSE
  /\ dishMode' = "OPERATE"
  /\ UNCHANGED <<stowStatus, tangoLock, stowVars, abortFlag, abortPc>>

-----------------------------------------------------------------------------
(* A stow.                                                                   *)

StowSteps(s, from, to) ==
  /\ stowPc[s] = from
  /\ stowPc' = [stowPc EXCEPT ![s] = to]

(* invoke_auto_stow: two reads, one after the other.                         *)
AutoReadsMode(s) ==
  /\ s \in AutoStows
  /\ StowSteps(s, "idle", IF dishMode = "STOW" THEN "skipped" ELSE "status")
  /\ UNCHANGED <<dishVars, stowStatus, tangoLock, verdict, told, abortFlag,
                 abortPc>>

AutoReadsStatus(s) ==
  /\ StowSteps(s, "status",
               IF stowStatus = "STOW_STARTED" THEN "skipped" ELSE "announce")
  /\ UNCHANGED <<dishVars, stowStatus, tangoLock, verdict, told, abortFlag,
                 abortPc>>

(* is_setstowmode_allowed                                                    *)
ClientCalls(s) ==
  /\ s \in ClientStows
  /\ StowSteps(s, "idle", "announce")
  /\ dishMode # "STOW"
  /\ UNCHANGED <<dishVars, stowStatus, tangoLock, verdict, told, abortFlag,
                 abortPc>>

Announce(s) ==
  /\ StowSteps(s, "announce", "flag")
  /\ stowStatus' = "STOW_STARTED"
  /\ UNCHANGED <<dishVars, tangoLock, verdict, told, abortFlag, abortPc>>

(* The SetStowMode object exists and is in the list of commands in progress. *)
InProgress(s) == stowPc[s] \in {"invoke", "stop", "wait", "conclude"}

\* Mutant: the flag of every stow called is set, of those without object too.
FlagAll == abortFlag' = [s \in Stows |-> abortFlag[s] \/ stowPc[s] # "idle"]

(* set_abort_flag_for_commands                                               *)
FlagInProgress == abortFlag' = [s \in Stows |-> abortFlag[s] \/ InProgress(s)]

FlagOthers(s) ==
  /\ StowSteps(s, "flag", "abortTasks")
  /\ FlagInProgress
  /\ UNCHANGED <<dishVars, stowStatus, tangoLock, verdict, told, abortPc>>

(* The queue has been aborted; its callback creates the object.              *)
TasksAborted(s) ==
  /\ StowSteps(s, "abortTasks", "invoke")
  /\ UNCHANGED <<dishVars, stowStatus, tangoLock, verdict, told, abortFlag,
                 abortPc>>

(* What _invoke_stow_callback makes of the end of a stow: it passes COMPLETED *)
(* and FAILED on and drops ABORTED.                                          *)
PassedOn(code) == code # "ABORTED"

(* do() returns and the caller is told; the status is still to change.       *)
Returns(s, code) ==
  /\ verdict' = [verdict EXCEPT ![s] = code]
  /\ told' = [told EXCEPT ![s] = IF PassedOn(code) THEN code ELSE @]
  /\ UNCHANGED <<dishVars, stowStatus, tangoLock, abortFlag, abortPc>>

(* init_adapter needs no lock.                                               *)
NoAdapter(s) ==
  /\ StowSteps(s, "invoke", "conclude")
  /\ Returns(s, "FAILED")

(* The dish is called under the lock, and nothing else happens under it.     *)
InvokeOnDish(s) ==
  /\ tangoLock = "free"
  /\ StowSteps(s, "invoke", "stop")
  /\ UNCHANGED <<dishVars, stowStatus, tangoLock, verdict, told, abortFlag,
                 abortPc>>

InvokeFails(s) ==
  /\ tangoLock = "free"
  /\ StowSteps(s, "invoke", "conclude")
  /\ Returns(s, "FAILED")

StopTable(s) ==
  /\ StowSteps(s, "stop", "wait")
  /\ UNCHANGED <<dishVars, stowStatus, tangoLock, verdict, told, abortFlag,
                 abortPc>>

StopTableFails(s) ==
  /\ StowSteps(s, "stop", "conclude")
  /\ Returns(s, "FAILED")

(* wait_for_completion: the dish mode, the abort flag or the timeout.        *)
Stowed(s) ==
  /\ dishMode = "STOW"
  /\ StowSteps(s, "wait", "conclude")
  /\ Returns(s, "OK")

StowAborted(s) ==
  /\ abortFlag[s]
  /\ StowSteps(s, "wait", "conclude")
  /\ Returns(s, "ABORTED")

\* Mutant: the wait has no timeout.
NeverTimesOut(s) == FALSE /\ UNCHANGED vars

StowTimesOut(s) ==
  /\ StowSteps(s, "wait", "conclude")
  /\ Returns(s, "FAILED")

(* Whether update_task_status sees a result next to the status ABORTED is up *)
(* to call_update_task_status; without one the status stays.                 *)
StatusAfter(code) ==
  IF code = "OK" THEN {"STOW_COMPLETED"}
  ELSE IF code = "FAILED" THEN {"STOW_FAILED"} ELSE {"STOW_COMPLETED", stowStatus}

\* Mutant: a failed stow leaves the status alone.
StatusStays(s) ==
  /\ StowSteps(s, "conclude", "done")
  /\ stowStatus' \in
       IF verdict[s] = "FAILED" THEN {stowStatus} ELSE StatusAfter(verdict[s])
  /\ abortFlag' = [abortFlag EXCEPT ![s] = FALSE]
  /\ UNCHANGED <<dishVars, tangoLock, verdict, told, abortPc>>

(* The object leaves the list of commands in progress, and its flag with it. *)
Conclude(s) ==
  /\ StowSteps(s, "conclude", "done")
  /\ stowStatus' \in StatusAfter(verdict[s])
  /\ abortFlag' = [abortFlag EXCEPT ![s] = FALSE]
  /\ UNCHANGED <<dishVars, tangoLock, verdict, told, abortPc>>

-----------------------------------------------------------------------------
(* Abort.                                                                    *)

AbortSteps(a, from, to) ==
  /\ abortPc[a] = from
  /\ abortPc' = [abortPc EXCEPT ![a] = to]

AbortFlags(a) ==
  /\ AbortSteps(a, "idle", "abortTasks")
  /\ FlagInProgress
  /\ UNCHANGED <<dishVars, stowStatus, tangoLock, stowVars>>

AbortTasksAborted(a) ==
  /\ AbortSteps(a, "abortTasks", "lock")
  /\ UNCHANGED <<dishVars, stowStatus, tangoLock, stowVars, abortFlag>>

(* invoke_abort holds the lock to the end of do(), the wait included.        *)
AbortLocks(a) ==
  /\ tangoLock = "free"
  /\ AbortSteps(a, "lock", "do")
  /\ tangoLock' = a
  /\ UNCHANGED <<dishVars, stowStatus, stowVars, abortFlag>>

AbortFlagsAgain(a) ==
  /\ AbortSteps(a, "do", "wait")
  /\ FlagInProgress
  /\ UNCHANGED <<dishVars, stowStatus, tangoLock, stowVars>>

\* Mutant: the lock is not released.
AbortKeepsLock(a) ==
  /\ AbortSteps(a, "wait", "done")
  /\ UNCHANGED <<dishVars, stowStatus, tangoLock, stowVars, abortFlag>>

(* A call fails, the dish reaches STANDBY_FP, or the wait times out.         *)
AbortEnds(a) ==
  /\ AbortSteps(a, "wait", "done")
  /\ tangoLock' = "free"
  /\ UNCHANGED <<dishVars, stowStatus, stowVars, abortFlag>>

-----------------------------------------------------------------------------

StowRuns(s) ==
  \/ AutoReadsStatus(s) \/ Announce(s) \/ FlagOthers(s) \/ TasksAborted(s)
  \/ InvokeOnDish(s) \/ StopTable(s)
  \/ Stowed(s) \/ StowAborted(s) \/ StowTimesOut(s) \/ Conclude(s)

StowFails(s) == NoAdapter(s) \/ InvokeFails(s) \/ StopTableFails(s)

AbortRuns(a) ==
  AbortTasksAborted(a) \/ AbortLocks(a) \/ AbortFlagsAgain(a) \/ AbortEnds(a)

Next ==
  \/ DishStows \/ LeaveIsNoticed \/ DishLeaves
  \/ \E s \in Stows :
       AutoReadsMode(s) \/ ClientCalls(s) \/ StowRuns(s) \/ StowFails(s)
  \/ \E a \in Aborts : AbortFlags(a) \/ AbortRuns(a)

Safe == Init /\ [][Next]_vars

(* Threads keep running and the queue gets aborted: the commands in it poll  *)
(* their abort event or time out.  No call has to fail.                      *)
Fairness ==
  /\ \A s \in Stows : WF_vars(StowRuns(s))
  /\ \A a \in Aborts : WF_vars(AbortRuns(a))

Spec == Safe /\ Fairness
=============================================================================
