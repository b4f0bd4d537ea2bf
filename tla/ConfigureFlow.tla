---------------------------- MODULE ConfigureFlow ----------------------------
(***************************************************************************)
(* Configure on the Dish Leaf Node: the command with the ConfigureBand and *)
(* Track it nests, the delivery of the track tables the pointing device    *)
(* generates for it, and Abort.  The task queue runs one Configure at a    *)
(* time; the event thread writes tables to the dish meanwhile, and an      *)
(* Abort works next to both.  They meet in tango_operation_execution_lock, *)
(* in the abort event and flags, in is_tracktable_provided and in the load *)
(* mode of the dish.                                                       *)
(*                                                                         *)
(* Each GenerateProgramTrackTable a Configure requests opens a session,    *)
(* numbered in the order of the requests; a table is known by its session. *)
(***************************************************************************)
EXTENDS Naturals, Sequences

CONSTANTS
  Configures,   \* bound: calls of Configure
  Aborts,       \* bound: calls of Abort
  DishReaches,  \* bound: the states the dish moves to after STANDBY_FP
  MaxTries,     \* max_track_table_retry
  QueueLimit    \* bound: tables waiting in the event queue

(* TRACKING is OPERATE with pointing state TRACK or SLEW; STANDBY_FP stands  *)
(* for STOW too, CONFIG for every mode a Configure may not start in.         *)
DishStates == {"STANDBY_FP", "CONFIG", "OPERATE", "TRACKING"}

ASSUME ConfigureAssumption ==
  /\ DishReaches \subseteq DishStates
  /\ MaxTries \in Nat \ {0}
  /\ QueueLimit \in Nat \ {0}
  /\ "free" \notin Aborts /\ "events" \notin Aborts

VARIABLES
  dish,         \* what the last dishMode and pointingState events said
  dishTable,    \* the sessions whose tables the dish has loaded
  loadMode,     \* its trackTableLoadMode
  \* shared fields of the component manager
  dishAdapter,  \* dish_adapter is not None
  tangoLock,    \* tango_operation_execution_lock
  isTracktableProvided,
  partialConfigure,
  abortEvent,   \* the object abort_event is: the task's, or Abort's dummy
  \* the pointing device and its tables
  generated,    \* sessions requested so far
  requested,    \* the sessions of the Generates in its queue
  tracking,     \* the session whose thread runs, 0 for none
  tables,       \* pointingProgramTrackTable events waiting
  eventPc, table, tries,
  \* the commands
  cfgPc, session, verdict, told, abortFlag,
  nestedFlag,   \* abort_flag of the nested command
  abortPc,
  \* history: full Configures that set the load mode while no table was
  \* coming or on its way
  clean

dishVars == <<dish, dishTable, loadMode>>
deviceVars == <<generated, requested, tracking>>
eventVars == <<tables, eventPc, table, tries>>
cfgVars == <<cfgPc, session, verdict, told>>
flagVars == <<abortFlag, nestedFlag>>
shared == <<dishAdapter, tangoLock, isTracktableProvided, partialConfigure,
            abortEvent>>
vars == <<dishVars, shared, deviceVars, eventVars, cfgVars, flagVars, abortPc,
          clean>>

Init ==
  /\ dish = "STANDBY_FP"
  /\ dishTable = {}
  /\ loadMode = "APPEND"
  /\ dishAdapter = FALSE
  /\ tangoLock = "free"
  /\ isTracktableProvided = FALSE
  /\ partialConfigure = FALSE
  /\ abortEvent = "task"
  /\ generated = 0 /\ requested = {} /\ tracking = 0
  /\ tables = <<>> /\ eventPc = "idle" /\ table = 0 /\ tries = 0
  /\ cfgPc = [c \in Configures |-> "idle"]
  /\ session = [c \in Configures |-> 0]
  /\ verdict = [c \in Configures |-> "none"]
  /\ told = [c \in Configures |-> "none"]
  /\ abortFlag = [c \in Configures |-> FALSE]
  /\ nestedFlag = FALSE
  /\ abortPc = [a \in Aborts |-> "idle"]
  /\ clean = {}

-----------------------------------------------------------------------------
(* The dish moves by itself and by what it is told; events report it.        *)

Operating == dish \in {"OPERATE", "TRACKING"}

DishMoves ==
  /\ dish' \in DishReaches \ {dish}
  /\ UNCHANGED <<dishTable, loadMode, shared, deviceVars, eventVars, cfgVars,
                 flagVars, abortPc, clean>>

-----------------------------------------------------------------------------
(* The pointing device as its clients see it: its own module is              *)
(* PointingDevice.  The Generate that was queued first starts a session in   *)
(* place of the one before, or fails.                                        *)

GenerateTaken(s) ==
  /\ s \in requested /\ \A t \in requested : s <= t
  /\ requested' = requested \ {s}
  /\ UNCHANGED <<dishVars, shared, generated, eventVars, cfgVars, flagVars,
                 abortPc, clean>>

SessionStarts ==
  \E s \in requested : GenerateTaken(s) /\ tracking' = s

SessionFails ==
  \E s \in requested : GenerateTaken(s) /\ tracking' \in {tracking, 0}

(* The thread ends: it has no more to calculate, or it was told to stop and  *)
(* whoever told it did not wait so long.                                     *)
SessionEnds ==
  /\ tracking # 0 /\ tracking' = 0
  /\ UNCHANGED <<dishVars, shared, generated, requested, eventVars, cfgVars,
                 flagVars, abortPc, clean>>

(* StopProgramTrackTable returns when the thread has ended, or when it has   *)
(* waited for it long enough; until it ends the thread publishes.            *)
Stopped == tracking' \in {tracking, 0}

TablePublished ==
  /\ tracking # 0
  /\ Len(tables) < QueueLimit
  /\ tables' = Append(tables, tracking)
  /\ UNCHANGED <<dishVars, shared, deviceVars, eventPc, table, tries, cfgVars,
                 flagVars, abortPc, clean>>

-----------------------------------------------------------------------------
(* The event thread: update_program_track_table.                             *)

EventSteps(from, to) ==
  /\ eventPc = from
  /\ eventPc' = to
  /\ UNCHANGED <<dish, partialConfigure, abortEvent, deviceVars, cfgVars,
                 flagVars, abortPc, clean>>

TakeTable ==
  /\ tables # <<>>
  /\ EventSteps("idle", "lock")
  /\ table' = Head(tables)
  /\ tables' = Tail(tables)
  /\ UNCHANGED <<dishTable, loadMode, dishAdapter, tangoLock,
                 isTracktableProvided, tries>>

\* Mutant: tables are written without the lock.
EventDoesNotLock ==
  /\ EventSteps("lock", "write")
  /\ tries' = 1
  /\ UNCHANGED <<dishTable, loadMode, dishAdapter, tangoLock, tables, table,
                 isTracktableProvided>>

EventLocks ==
  /\ tangoLock = "free"
  /\ EventSteps("lock", "write")
  /\ tangoLock' = "events"
  /\ tries' = 1
  /\ UNCHANGED <<dishTable, loadMode, dishAdapter, tables, table,
                 isTracktableProvided>>

(* NEW replaces what the dish has loaded, APPEND adds to it.                 *)
Loaded(t) == IF loadMode = "NEW" THEN {t} ELSE dishTable \cup {t}

TableWritten ==
  /\ dishAdapter
  /\ EventSteps("write", "mode")
  /\ dishTable' = Loaded(table)
  /\ isTracktableProvided' = TRUE
  /\ UNCHANGED <<loadMode, dishAdapter, tangoLock, tables, table, tries>>

Released ==
  /\ tangoLock' = "free"
  /\ table' = 0
  /\ tries' = 0

(* The load mode becomes APPEND, unless the setter fails: it swallows its    *)
(* errors.                                                                   *)
ModeAppended ==
  /\ EventSteps("mode", "idle")
  /\ loadMode' \in {loadMode} \cup IF dishAdapter THEN {"APPEND"} ELSE {}
  /\ Released
  /\ UNCHANGED <<dishTable, dishAdapter, tables, isTracktableProvided>>

\* Mutant: a table that fails is queued again.
TableRequeued ==
  /\ \E from \in {"write", "mode"} : EventSteps(from, "idle")
  /\ Released
  /\ tables' = Append(tables, table)
  /\ UNCHANGED <<dishTable, loadMode, dishAdapter, isTracktableProvided>>

(* The dish refuses the table, its load mode cannot be read, or there is no  *)
(* adapter.  The lock is kept for the retries; after the last the table is   *)
(* lost.                                                                     *)
TryFails ==
  /\ \E from \in {"write", "mode"} :
       EventSteps(from, IF tries < MaxTries THEN "write" ELSE "idle")
  /\ IF tries < MaxTries
       THEN tries' = tries + 1 /\ UNCHANGED <<tangoLock, table>>
       ELSE Released
  /\ UNCHANGED <<dishTable, loadMode, dishAdapter, tables,
                 isTracktableProvided>>

-----------------------------------------------------------------------------
(* Configure.  The worker of the task queue runs one at a time, and none     *)
(* while an abort of the queue is under way.                                 *)

Active(c) == cfgPc[c] \notin {"idle", "done"}
WorkerBusy == \E c \in Configures : Active(c)
QueueAborting == \E a \in Aborts : abortPc[a] = "tasks"

CfgSteps(c, from, to) ==
  /\ cfgPc[c] = from
  /\ cfgPc' = [cfgPc EXCEPT ![c] = to]

(* A step of c that leaves alone what is not the manager's or the device's.  *)
Locally(c, from, to) ==
  /\ CfgSteps(c, from, to)
  /\ UNCHANGED <<dish, dishTable, tracking, eventVars, abortPc>>

(* A step that only moves on.                                                *)
Proceeds(c, from, to) ==
  /\ Locally(c, from, to)
  /\ UNCHANGED <<loadMode, shared, generated, requested, session, verdict,
                 told, flagVars, clean>>

WorkerFree(c) == cfgPc[c] = "idle" /\ ~WorkerBusy /\ ~QueueAborting

NotAllowed(c) ==
  /\ WorkerFree(c)
  /\ dish = "CONFIG"
  /\ Locally(c, "idle", "done")
  /\ told' = [told EXCEPT ![c] = "REJECTED"]
  /\ UNCHANGED <<loadMode, shared, generated, requested, session, verdict,
                 flagVars, clean>>

(* The argument is not valid: the task returns.  If it is JSON the adapter   *)
(* of the new object, None as yet, has become the manager's.                 *)
InvalidArgument(c) ==
  /\ WorkerFree(c)
  /\ dish # "CONFIG"
  /\ Locally(c, "idle", "done")
  /\ dishAdapter' \in {dishAdapter, FALSE}
  /\ UNCHANGED <<loadMode, tangoLock, isTracktableProvided, partialConfigure,
                 abortEvent, generated, requested, session, verdict, told,
                 flagVars, clean>>

(* partial_configure is set for a partial Configure and never reset here.    *)
Begins(c) ==
  /\ WorkerFree(c)
  /\ dish # "CONFIG"
  /\ Locally(c, "idle", "adapter")
  /\ dishAdapter' = FALSE
  /\ partialConfigure' \in {partialConfigure, TRUE}
  /\ abortEvent' = "task"
  /\ UNCHANGED <<loadMode, tangoLock, isTracktableProvided, generated,
                 requested, session, verdict, told, flagVars, clean>>

(* init_adapter: the dish, then the pointing device.                         *)
AdaptersReady(c) ==
  /\ Locally(c, "adapter", IF partialConfigure THEN "generate" ELSE "mode")
  /\ dishAdapter' = TRUE
  /\ UNCHANGED <<loadMode, tangoLock, isTracktableProvided, partialConfigure,
                 abortEvent, generated, requested, session, verdict, told,
                 flagVars, clean>>

Decides(c, code) == verdict' = [verdict EXCEPT ![c] = code]

NoPointingAdapter(c) ==
  /\ Locally(c, "adapter", "conclude")
  /\ dishAdapter' \in BOOLEAN
  /\ Decides(c, "NO_ADAPTER")
  /\ UNCHANGED <<loadMode, tangoLock, isTracktableProvided, partialConfigure,
                 abortEvent, generated, requested, session, told, flagVars,
                 clean>>

NoTableComing ==
  /\ tracking = 0 /\ requested = {}
  /\ tables = <<>> /\ eventPc = "idle"

(* The setter swallows its errors here as well.                              *)
ModeRenewed(c) ==
  /\ Locally(c, "mode", "clear")
  /\ \/ /\ loadMode' = "NEW"
        /\ clean' = IF NoTableComing THEN clean \cup {c} ELSE clean
     \/ UNCHANGED <<loadMode, clean>>
  /\ UNCHANGED <<shared, generated, requested, session, verdict, told,
                 flagVars>>

\* Mutant: is_tracktable_provided keeps its value.
NothingCleared(c) == Proceeds(c, "clear", "generate")

ProvidedCleared(c) ==
  /\ Locally(c, "clear", "generate")
  /\ isTracktableProvided' = FALSE
  /\ UNCHANGED <<loadMode, dishAdapter, tangoLock, partialConfigure,
                 abortEvent, generated, requested, session, verdict, told,
                 flagVars, clean>>

(* The command is queued by the pointing device; what becomes of it is not   *)
(* waited for.                                                               *)
Requests(c) ==
  /\ generated' = generated + 1
  /\ requested' = requested \cup {generated + 1}
  /\ session' = [session EXCEPT ![c] = generated + 1]

Generate(c) ==
  /\ Locally(c, "generate", "band")
  /\ Requests(c)
  /\ UNCHANGED <<loadMode, shared, verdict, told, flagVars, clean>>

(* A step that decides what the Configure returns.                           *)
Returns(c, from, code) ==
  /\ Locally(c, from, "conclude")
  /\ Decides(c, code)
  /\ UNCHANGED <<loadMode, shared, generated, requested, session, told,
                 flagVars, clean>>

(* The call raises: before the command is queued, or after, as a call that   *)
(* times out does.                                                           *)
GenerateRaises(c) ==
  /\ Locally(c, "generate", "conclude")
  /\ Decides(c, "FAILED")
  /\ Requests(c) \/ UNCHANGED <<generated, requested, session>>
  /\ UNCHANGED <<loadMode, shared, told, flagVars, clean>>

(* invoke_configure_band_on_dish: ConfigureBand is skipped if the dish is in *)
(* OPERATE and reports the band asked for, which is left open.               *)
BandIsSet(c) == Operating /\ Proceeds(c, "band", "tracking")

BandNeeded(c) == Proceeds(c, "band", "callBand")

\* Mutant: the dish is called without the lock.
CallUnlocked(c, from, to) == Proceeds(c, from, to)

(* A nested command calls the dish under the lock.                           *)
CallDish(c, from, to) ==
  /\ tangoLock = "free"
  /\ Proceeds(c, from, to)

(* The end of a nested command takes its object, and its flag, away.         *)
NestedEnds(c, from, to) ==
  /\ Locally(c, from, to)
  /\ nestedFlag' = FALSE
  /\ UNCHANGED <<loadMode, shared, generated, requested, session, told,
                 abortFlag, clean>>

NestedCompletes(c, from, to) == NestedEnds(c, from, to) /\ UNCHANGED verdict

NestedAborted(c, from) ==
  /\ nestedFlag
  /\ NestedEnds(c, from, "conclude")
  /\ Decides(c, "ABORTED")

(* No adapter, the dish refuses or fails the command, or it times out.       *)
NestedFails(c, from) ==
  /\ NestedEnds(c, from, "conclude")
  /\ Decides(c, "FAILED")

BandCalled(c) == CallDish(c, "callBand", "waitBand")
BandConfigured(c) == Operating /\ NestedCompletes(c, "waitBand", "tracking")
BandAborted(c) == NestedAborted(c, "waitBand")
BandFails(c) == NestedFails(c, "waitBand")
BandNotCalled(c) == NestedFails(c, "callBand")

(* start_dish_tracking, invoke_track_command                                 *)
NoTrackNeeded(c) == dish # "OPERATE" /\ Proceeds(c, "tracking", "wait")

TrackNeeded(c) == dish = "OPERATE" /\ Proceeds(c, "tracking", "poll")

(* What the loop sees of the event abort_event refers to: the task's is set  *)
(* while the queue is aborted, any of them for a moment inside Abort.        *)
AbortEventSet ==
  \/ \E a \in Aborts : abortPc[a] \in {"raised", "raisedAgain"}
  \/ abortEvent = "task" /\ QueueAborting

PollAborted(c) == AbortEventSet /\ Returns(c, "poll", "ABORTED")

TableSeen(c) == isTracktableProvided /\ Proceeds(c, "poll", "callTrack")

\* Mutant: the loop goes on until the table is there.
PollsOn(c) == FALSE /\ UNCHANGED vars

PollTimesOut(c) == Returns(c, "poll", "FAILED")

TrackCalled(c) == CallDish(c, "callTrack", "waitTrack")
TrackCompletes(c) == NestedCompletes(c, "waitTrack", "wait")
TrackAborted(c) == NestedAborted(c, "waitTrack")
TrackFails(c) == NestedFails(c, "waitTrack")
TrackNotCalled(c) == NestedFails(c, "callTrack")

(* wait_for_completion of the Configure itself                               *)
Configured(c) == dish = "TRACKING" /\ Returns(c, "wait", "OK")
WaitAborted(c) == abortFlag[c] /\ Returns(c, "wait", "ABORTED")
WaitTimesOut(c) == Returns(c, "wait", "FAILED")

(* update_task_status.  A Configure that failed stops the tables first; if   *)
(* that raises (stopped or not), or there is no adapter to do it with, the   *)
(* rest is skipped.                                                          *)
Ends(c) ==
  /\ CfgSteps(c, "conclude", "done")
  /\ abortFlag' = [abortFlag EXCEPT ![c] = FALSE]
  /\ session' = [session EXCEPT ![c] = 0]
  /\ verdict' = [verdict EXCEPT ![c] = "none"]
  /\ clean' = clean \ {c}
  /\ UNCHANGED <<dishVars, dishAdapter, tangoLock, isTracktableProvided,
                 abortEvent, generated, requested, eventVars, nestedFlag,
                 abortPc>>

Concludes(c) ==
  /\ verdict[c] # "NO_ADAPTER"
  /\ Ends(c)
  /\ told' = [told EXCEPT ![c] = verdict[c]]
  /\ IF verdict[c] = "FAILED" THEN Stopped ELSE UNCHANGED tracking
  /\ partialConfigure' = FALSE

StopRaises(c) ==
  /\ verdict[c] \in {"FAILED", "NO_ADAPTER"}
  /\ Ends(c)
  /\ IF verdict[c] = "FAILED" THEN Stopped ELSE UNCHANGED tracking
  /\ UNCHANGED <<told, partialConfigure>>

-----------------------------------------------------------------------------
(* Abort.                                                                    *)

AbortSteps(a, from, to) ==
  /\ abortPc[a] = from
  /\ abortPc' = [abortPc EXCEPT ![a] = to]
  /\ UNCHANGED <<dishVars, isTracktableProvided, partialConfigure, generated,
                 requested, eventVars, cfgVars, clean>>

Nested(c) == cfgPc[c] \in {"callBand", "waitBand", "callTrack", "waitTrack"}

(* set_abort_flag_for_commands: every object in the list, nested ones too.   *)
FlagCommands ==
  /\ abortFlag' = [c \in Configures |-> abortFlag[c] \/ Active(c)]
  /\ nestedFlag' = (nestedFlag \/ \E c \in Configures : Nested(c))
  /\ UNCHANGED <<dishAdapter, tangoLock, abortEvent, tracking>>

AbortRaises(a) ==
  /\ AbortSteps(a, "idle", "raised")
  /\ UNCHANGED <<dishAdapter, tangoLock, abortEvent, tracking, flagVars>>

AbortFlags(a) == AbortSteps(a, "raised", "tasks") /\ FlagCommands

(* The worker has ended its task.  The Abort object brings its own event.    *)
QueueAborted(a) ==
  /\ ~WorkerBusy
  /\ AbortSteps(a, "tasks", "lock")
  /\ abortEvent' = "dummy"
  /\ UNCHANGED <<dishAdapter, tangoLock, tracking, flagVars>>

(* invoke_abort holds the lock to its end.                                   *)
AbortLocks(a) ==
  /\ tangoLock = "free"
  /\ AbortSteps(a, "lock", "raisedAgain")
  /\ tangoLock' = a
  /\ UNCHANGED <<dishAdapter, abortEvent, tracking, flagVars>>

AbortFlagsAgain(a) == AbortSteps(a, "raisedAgain", "do") /\ FlagCommands

(* The dish is told to abort and the pointing device to stop.                *)
AbortStops(a) ==
  /\ AbortSteps(a, "do", "wait")
  /\ dishAdapter' = TRUE
  /\ Stopped
  /\ UNCHANGED <<tangoLock, abortEvent, flagVars>>

(* The dish reaches STANDBY_FP, or the wait times out.                       *)
AbortEnds(a) ==
  /\ AbortSteps(a, "wait", "done")
  /\ tangoLock' = "free"
  /\ UNCHANGED <<dishAdapter, abortEvent, tracking, flagVars>>

(* No adapter, the dish refuses, or stopping the tables raises.              *)
AbortFails(a) ==
  /\ AbortSteps(a, "do", "done")
  /\ dishAdapter' \in {dishAdapter, TRUE}
  /\ tangoLock' = "free"
  /\ Stopped
  /\ UNCHANGED <<abortEvent, flagVars>>

-----------------------------------------------------------------------------

ConfigureRuns(c) ==
  \/ AdaptersReady(c) \/ ModeRenewed(c) \/ ProvidedCleared(c) \/ Generate(c)
  \/ BandIsSet(c) \/ BandNeeded(c)
  \/ BandConfigured(c) \/ BandAborted(c) \/ BandFails(c)
  \/ NoTrackNeeded(c) \/ TrackNeeded(c)
  \/ PollAborted(c) \/ TableSeen(c) \/ PollTimesOut(c)
  \/ TrackCompletes(c) \/ TrackAborted(c) \/ TrackFails(c)
  \/ Configured(c) \/ WaitAborted(c) \/ WaitTimesOut(c)
  \/ Concludes(c) \/ StopRaises(c)

ConfigureLocks(c) == BandCalled(c) \/ TrackCalled(c)

ConfigureGivesUp(c) ==
  \/ NotAllowed(c) \/ InvalidArgument(c) \/ NoPointingAdapter(c)
  \/ GenerateRaises(c) \/ BandNotCalled(c) \/ TrackNotCalled(c)

EventRuns == TakeTable \/ TableWritten \/ ModeAppended \/ TryFails

AbortRuns(a) ==
  \/ AbortFlags(a) \/ QueueAborted(a) \/ AbortFlagsAgain(a)
  \/ AbortStops(a) \/ AbortEnds(a)

Next ==
  \/ DishMoves
  \/ SessionStarts \/ SessionFails \/ SessionEnds \/ TablePublished
  \/ EventRuns \/ EventLocks
  \/ \E c \in Configures :
       Begins(c) \/ ConfigureRuns(c) \/ ConfigureLocks(c) \/ ConfigureGivesUp(c)
  \/ \E a \in Aborts :
       AbortRaises(a) \/ AbortRuns(a) \/ AbortLocks(a) \/ AbortFails(a)

Safe == Init /\ [][Next]_vars

(* Threads keep running and waits have timeouts.  A lock that is released    *)
(* again and again is not withheld from one thread for good.                 *)
Fairness ==
  /\ WF_vars(EventRuns) /\ SF_vars(EventLocks)
  /\ \A c \in Configures :
       WF_vars(ConfigureRuns(c)) /\ SF_vars(ConfigureLocks(c))
  /\ \A a \in Aborts : WF_vars(AbortRuns(a)) /\ SF_vars(AbortLocks(a))

Spec == Safe /\ Fairness
=============================================================================
