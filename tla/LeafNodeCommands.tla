--------------------------- MODULE LeafNodeCommands ---------------------------
(***************************************************************************)
(* The commands of the Dish Leaf Node that call the dish, the task queue   *)
(* that runs them one at a time, and Abort, which empties this queue, then *)
(* takes tango_operation_execution_lock and calls the dish itself.         *)
(*                                                                         *)
(* Three families: commands that call the dish under the lock and wait for *)
(* its result, TrackStop among them, which stops the track tables as well; *)
(* SetStandbyFPMode and SetStandbyLPMode, which call it and wait for       *)
(* nothing; and Off, which calls both and waits for the dish mode.         *)
(* Configure, whose nested commands are of the first family, has a module  *)
(* of its own, ConfigureFlow.                                              *)
(***************************************************************************)
EXTENDS Naturals, Sequences

CONSTANTS
  MaxCommands,  \* bound: the commands clients send
  MaxAborts,    \* bound: the Aborts they send
  Kinds,        \* which commands these may be
  DishReaches   \* bound: the states the dish goes to

(* The dish mode, and whether the pointing state is TRACK or SLEW: each has  *)
(* events of its own, so that one may be out of step with the other.         *)
DishModes == {"STANDBY_LP", "STANDBY_FP", "OPERATE", "STOW", "MAINTENANCE",
              "CONFIG"}
DishStates == [mode : DishModes, tracking : BOOLEAN]

Settled == {"OPERATE", "STOW", "MAINTENANCE"}
InMode(modes) == {s \in DishStates : s.mode \in modes}

-----------------------------------------------------------------------------
(* What is particular to a command: the states of the dish it is allowed in, *)
(* whether it may be refused in these too, as most are while the dish does   *)
(* not answer, whether its argument is looked at before it begins, whether   *)
(* it makes abort_event the queue's, and the first step of its do().         *)

Waiting(states, refusable, checked) ==
  [states |-> states, refusable |-> refusable, checked |-> checked,
   takesEvent |-> TRUE, first |-> "call"]

ScanStates == InMode(Settled \cup {"STANDBY_FP"})
Scan == Waiting(ScanStates, TRUE, FALSE)

EndScanStates == InMode(Settled \cup {"STANDBY_FP"})
EndScan == Waiting(EndScanStates, TRUE, FALSE)

TrackLoadStaticOff == Waiting(DishStates, TRUE, TRUE)

BandStates == InMode({"OPERATE", "STANDBY_FP"})
ConfigureBand == Waiting(BandStates, TRUE, FALSE)

(* Refused also while the pointing state is NONE or UNKNOWN.                 *)
TrackStates == InMode({"OPERATE"})
Track == Waiting(TrackStates, TRUE, TRUE)

(* Whatever the dish mode.                                                   *)
TrackStopStates == {s \in DishStates : s.tracking}
TrackStop ==
  [states |-> TrackStopStates, refusable |-> FALSE, checked |-> FALSE,
   takesEvent |-> TRUE, first |-> "callStop"]

FPStates == InMode(Settled \cup {"STANDBY_LP"})
SetStandbyFPMode ==
  [states |-> FPStates, refusable |-> TRUE, checked |-> FALSE,
   takesEvent |-> FALSE, first |-> "callStandby"]

LPStates == InMode({"STANDBY_FP", "STOW", "MAINTENANCE"})
SetStandbyLPMode ==
  [states |-> LPStates, refusable |-> TRUE, checked |-> FALSE,
   takesEvent |-> FALSE, first |-> "callStandby"]

(* The device asks is_Off_allowed, and what it has is is_off_allowed, with   *)
(* the states of the dish Off is for (component_manager.py 2156): whether    *)
(* the base class asks for these is left open.                               *)
OffStates == DishStates
Off ==
  [states |-> OffStates, refusable |-> TRUE, checked |-> FALSE,
   takesEvent |-> FALSE, first |-> "callFP"]

Command ==
  [Scan |-> Scan, EndScan |-> EndScan, Track |-> Track,
   TrackLoadStaticOff |-> TrackLoadStaticOff, ConfigureBand |-> ConfigureBand,
   TrackStop |-> TrackStop, Off |-> Off,
   SetStandbyFPMode |-> SetStandbyFPMode,
   SetStandbyLPMode |-> SetStandbyLPMode]

ASSUME CommandsAssumption ==
  /\ Kinds \subseteq DOMAIN Command
  /\ DishReaches \subseteq DishStates
  /\ MaxCommands \in Nat /\ MaxAborts \in Nat

(* Numbered in the order in which they are sent.                             *)
Commands == 1..MaxCommands
Aborts == 1..MaxAborts

VARIABLES
  dish,         \* what its last dishMode and pointingState events said
  generating,   \* the pointing device was not told to stop its track tables
  queue,        \* tasks that wait for the worker
  kind,         \* the command a client sent
  pc,           \* where it is
  verdict,      \* the result do() is about to return
  told,         \* the status or result the client was told last
  abortFlag,    \* abort_flag of the command object
  tangoLock,    \* tango_operation_execution_lock: the Abort that keeps it, or 0
  abortEvent,   \* the object abort_event is: the queue's, or Abort's dummy
  queueEvent,   \* the abort event of the queue is set
  abortPc,
  before,       \* history: the commands sent before an Abort and not over
  outcome       \* history: what Off saw of what it asked for

commandVars == <<queue, kind, pc, verdict, told>>
abortVars == <<tangoLock, abortEvent, queueEvent, abortPc, before>>
vars == <<dish, generating, commandVars, abortFlag, abortVars, outcome>>

Init ==
  /\ dish \in DishReaches
  /\ generating = TRUE
  /\ queue = <<>>
  /\ kind = [c \in Commands |-> "none"]
  /\ pc = [c \in Commands |-> "new"]
  /\ verdict = [c \in Commands |-> "none"]
  /\ told = [c \in Commands |-> "none"]
  /\ abortFlag = [c \in Commands |-> FALSE]
  /\ tangoLock = 0
  /\ abortEvent = "queue"
  /\ queueEvent = FALSE
  /\ abortPc = [a \in Aborts |-> "idle"]
  /\ before = [a \in Aborts |-> {}]
  /\ outcome = [c \in Commands |-> "none"]

-----------------------------------------------------------------------------
(* The dish does as it is told, or as it likes; its events say so.           *)

DishMoves ==
  /\ dish' \in DishReaches \ {dish}
  /\ UNCHANGED <<generating, commandVars, abortFlag, abortVars, outcome>>

-----------------------------------------------------------------------------
(* What abort_event is seen to be.  Abort sets and clears whatever event it  *)
(* is at that moment, its abort of the queue sets the queue's.               *)

Pulsing == \E a \in Aborts : abortPc[a] \in {"raised", "raisedAgain"}
QueueEventSet == queueEvent \/ (Pulsing /\ abortEvent = "queue")
AbortSeen == Pulsing \/ (queueEvent /\ abortEvent = "queue")
QueueAborting == \E a \in Aborts : abortPc[a] = "tasks"

-----------------------------------------------------------------------------
(* A command is checked when it is sent and again when its turn comes.       *)

Allowed(k) == dish \in Command[k].states
MayBeRefused(k) == ~Allowed(k) \/ Command[k].refusable

CommandSteps(c, from, to) ==
  /\ pc[c] = from
  /\ pc' = [pc EXCEPT ![c] = to]
  /\ UNCHANGED <<dish, tangoLock, queueEvent, abortPc>>

Tells(c, what) == told' = [told EXCEPT ![c] = what]

Turn(c) == \A d \in 1..(c - 1) : pc[d] # "new"

Sends(c, k) ==
  /\ Turn(c)
  /\ Allowed(k)
  /\ ~QueueAborting
  /\ CommandSteps(c, "new", "queued")
  /\ kind' = [kind EXCEPT ![c] = k]
  /\ queue' = Append(queue, c)
  /\ UNCHANGED <<generating, verdict, told, abortFlag, abortEvent, before,
                 outcome>>

SentInVain(c, k) ==
  /\ Turn(c)
  /\ MayBeRefused(k) \/ QueueAborting
  /\ CommandSteps(c, "new", "done")
  /\ Tells(c, "REJECTED")
  /\ UNCHANGED <<generating, queue, kind, verdict, abortFlag, abortEvent,
                 before, outcome>>

-----------------------------------------------------------------------------
(* The worker.                                                               *)

Active(c) == pc[c] \notin {"new", "queued", "dropped", "done"}
WorkerBusy == \E c \in Commands : Active(c)

\* Mutant: there are two workers.
TakenBeside(c, to) ==
  /\ queue # <<>> /\ c = Head(queue)
  /\ CommandSteps(c, "queued", to)
  /\ queue' = Tail(queue)
  /\ UNCHANGED <<generating, verdict, abortFlag, outcome>>

Taken(c, to) ==
  /\ ~WorkerBusy
  /\ queue # <<>> /\ c = Head(queue)
  /\ CommandSteps(c, "queued", to)
  /\ queue' = Tail(queue)
  /\ UNCHANGED <<generating, verdict, abortFlag, outcome>>

(* c is over.                                                                *)
Forgets(c) ==
  /\ kind' = [kind EXCEPT ![c] = "none"]
  /\ before' = [a \in Aborts |-> before[a] \ {c}]

TakenAborted(c) ==
  /\ QueueEventSet
  /\ Taken(c, "done")
  /\ Forgets(c)
  /\ Tells(c, "ABORTED")
  /\ UNCHANGED abortEvent

NotAllowedAnyMore(c) ==
  /\ ~QueueEventSet
  /\ Taken(c, "done")
  /\ MayBeRefused(kind[c])
  /\ Forgets(c)
  /\ Tells(c, "REJECTED")
  /\ UNCHANGED abortEvent

(* The task returns its complaint about the argument, and nobody is told.    *)
Dropped(c) ==
  /\ ~QueueEventSet
  /\ Taken(c, "dropped")
  /\ Allowed(kind[c])
  /\ Command[kind[c]].checked
  /\ Forgets(c)
  /\ UNCHANGED <<told, abortEvent>>

Begins(c) ==
  /\ ~QueueEventSet
  /\ Taken(c, "adapter")
  /\ Allowed(kind[c])
  /\ Tells(c, "IN_PROGRESS")
  /\ abortEvent' = IF Command[kind[c]].takesEvent THEN "queue" ELSE abortEvent
  /\ UNCHANGED <<kind, before>>

(* A step that only moves on.                                                *)
Proceeds(c, from, to) ==
  /\ CommandSteps(c, from, to)
  /\ UNCHANGED <<generating, queue, kind, verdict, told, abortFlag, abortEvent,
                 before, outcome>>

Decides(c, from, to, code) ==
  /\ CommandSteps(c, from, to)
  /\ verdict' = [verdict EXCEPT ![c] = code]
  /\ UNCHANGED <<generating, queue, kind, told, abortFlag, abortEvent,
                 before, outcome>>

(* init_adapter, and where do() goes from there.                             *)
FirstStep(c) ==
  IF kind[c] = "Off" /\ dish.mode \notin Settled
    THEN "callLP" ELSE Command[kind[c]].first

AdapterReady(c) == pc[c] = "adapter" /\ Proceeds(c, "adapter", FirstStep(c))

(* No adapter, or an argument do() cannot read.                              *)
NoAdapter(c) == Decides(c, "adapter", "conclude", "FAILED")

-----------------------------------------------------------------------------
(* Commands that wait for their result.                                      *)

DishCalled(c) ==
  /\ tangoLock = 0
  /\ Proceeds(c, "call", "wait") \/ Decides(c, "call", "conclude", "FAILED")

(* TrackStop goes on to the tables whatever the dish says.                   *)
TrackStopCalled(c) ==
  /\ tangoLock = 0
  /\ \E code \in {"OK", "FAILED"} : Decides(c, "callStop", "stopTables", code)

TablesStopped(c) ==
  /\ CommandSteps(c, "stopTables",
                  IF verdict[c] = "OK" THEN "wait" ELSE "conclude")
  /\ generating' = FALSE
  /\ UNCHANGED <<queue, kind, verdict, told, abortFlag, abortEvent, before,
                 outcome>>

\* Mutant: the result of the dish stands whatever becomes of the tables.
StopUnheeded(c) ==
  /\ CommandSteps(c, "stopTables", "conclude")
  /\ generating' \in {generating, FALSE}
  /\ UNCHANGED <<queue, kind, verdict, told, abortFlag, abortEvent, before,
                 outcome>>

(* The call raises, before or after the tables are stopped.                  *)
StopRaises(c) ==
  /\ CommandSteps(c, "stopTables", "conclude")
  /\ generating' \in {generating, FALSE}
  /\ verdict' = [verdict EXCEPT ![c] = "FAILED"]
  /\ UNCHANGED <<queue, kind, told, abortFlag, abortEvent, before,
                 outcome>>

(* wait_for_completion                                                       *)
Completes(c) == Decides(c, "wait", "conclude", "OK")

WaitAborted(c) ==
  abortFlag[c] /\ Decides(c, "wait", "conclude", "ABORTED")

(* The dish reports a failure, or nothing in time.                           *)
WaitFails(c) == Decides(c, "wait", "conclude", "FAILED")

-----------------------------------------------------------------------------
(* The standby commands and Off; the dish's result is FAILED, or anything    *)
(* else, a refusal included.                                                 *)

StandbyCalled(c) ==
  \E code \in {"OK", "FAILED"} : Decides(c, "callStandby", "conclude", code)

OffCallsFP(c) == Proceeds(c, "callFP", "waitFP")

OffCallsLP(c) ==
  \E code \in {"OK", "FAILED"} : Decides(c, "callLP", "waitLP", code)

(* set_wait_for_dishmode                                                     *)
ModeWaits(c, from, to, mode) ==
  /\ CommandSteps(c, from, to)
  /\ \/ AbortSeen /\ outcome' = [outcome EXCEPT ![c] = "ABORTED"]
     \/ /\ ~AbortSeen
        /\ dish.mode = mode
        /\ outcome' = [outcome EXCEPT ![c] = mode]
  /\ UNCHANGED <<generating, queue, kind, verdict, told, abortFlag,
                 abortEvent, before>>

FPReached(c) == ModeWaits(c, "waitFP", "callLP", "STANDBY_FP")
LPReached(c) == ModeWaits(c, "waitLP", "conclude", "STANDBY_LP")
FPNotReached(c) == Decides(c, "waitFP", "conclude", "FAILED")

\* Mutant: the wait for the mode has no timeout.
WaitsOn(c) == FALSE /\ UNCHANGED vars

LPNotReached(c) == Decides(c, "waitLP", "conclude", "FAILED")

-----------------------------------------------------------------------------
(* The client is told and the object taken from the list.                    *)
Concludes(c) ==
  /\ CommandSteps(c, "conclude", "done")
  /\ Tells(c, verdict[c])
  /\ verdict' = [verdict EXCEPT ![c] = "none"]
  /\ abortFlag' = [abortFlag EXCEPT ![c] = FALSE]
  /\ Forgets(c)
  /\ outcome' = [outcome EXCEPT ![c] = "none"]
  /\ UNCHANGED <<generating, queue, abortEvent>>

-----------------------------------------------------------------------------
(* Abort.                                                                    *)

AbortSteps(a, from, to) ==
  /\ abortPc[a] = from
  /\ abortPc' = [abortPc EXCEPT ![a] = to]
  /\ UNCHANGED <<dish, commandVars, outcome>>

(* set_abort_flag_for_commands: every object in the list.  The pulse ends.   *)
FlagsCommands ==
  /\ abortFlag' = [c \in Commands |-> abortFlag[c] \/ Active(c)]
  /\ queueEvent' = (queueEvent /\ abortEvent # "queue")

AbortRaises(a) ==
  /\ \A b \in 1..(a - 1) : abortPc[b] # "idle"
  /\ AbortSteps(a, "idle", "raised")
  /\ before' = [before EXCEPT ![a] =
                  {c \in Commands : pc[c] = "queued" \/ Active(c)}]
  /\ UNCHANGED <<generating, abortFlag, tangoLock, abortEvent, queueEvent>>

AbortFlags(a) ==
  /\ AbortSteps(a, "raised", "flagged")
  /\ FlagsCommands
  /\ UNCHANGED <<generating, tangoLock, abortEvent, before>>

AbortsQueue(a) ==
  /\ AbortSteps(a, "flagged", "tasks")
  /\ queueEvent' = TRUE
  /\ UNCHANGED <<generating, abortFlag, tangoLock, abortEvent, before>>

\* Mutant: the worker is not waited for.
QueueDrained(a) ==
  /\ queue = <<>>
  /\ AbortSteps(a, "tasks", "event")
  /\ queueEvent' = \E b \in Aborts \ {a} : queueEvent /\ abortPc[b] = "tasks"
  /\ UNCHANGED <<generating, abortFlag, tangoLock, abortEvent, before>>

(* The tasks in the queue are through.  The queue gets a new event and takes *)
(* commands again.                                                           *)
QueueAborted(a) ==
  /\ ~WorkerBusy /\ queue = <<>>
  /\ AbortSteps(a, "tasks", "event")
  /\ queueEvent' = \E b \in Aborts \ {a} : queueEvent /\ abortPc[b] = "tasks"
  /\ UNCHANGED <<generating, abortFlag, tangoLock, abortEvent, before>>

(* invoke_abort puts an event of its own in the place of the queue's, which  *)
(* a command may have begun with by now.                                     *)
AbortTakesEvent(a) ==
  /\ AbortSteps(a, "event", "lock")
  /\ abortEvent' = "dummy"
  /\ UNCHANGED <<generating, abortFlag, tangoLock, queueEvent, before>>

(* It holds the lock to its end.                                             *)
AbortLocks(a) ==
  /\ tangoLock = 0
  /\ AbortSteps(a, "lock", "raisedAgain")
  /\ tangoLock' = a
  /\ UNCHANGED <<generating, abortFlag, abortEvent, queueEvent, before>>

AbortFlagsAgain(a) ==
  /\ AbortSteps(a, "raisedAgain", "do")
  /\ FlagsCommands
  /\ UNCHANGED <<generating, tangoLock, abortEvent, before>>

(* The dish is called and the tables are stopped.                            *)
AbortStops(a) ==
  /\ AbortSteps(a, "do", "wait")
  /\ generating' = FALSE
  /\ UNCHANGED <<abortFlag, tangoLock, abortEvent, queueEvent, before>>

\* Mutant: an Abort that fails returns without releasing the lock.
AbortFailsLocked(a) ==
  /\ AbortSteps(a, "do", "done")
  /\ generating' \in {generating, FALSE}
  /\ UNCHANGED <<abortFlag, tangoLock, abortEvent, queueEvent, before>>

(* No adapter, the dish refuses, or stopping the tables raises.              *)
AbortFails(a) ==
  /\ AbortSteps(a, "do", "done")
  /\ generating' \in {generating, FALSE}
  /\ tangoLock' = 0
  /\ UNCHANGED <<abortFlag, abortEvent, queueEvent, before>>

(* The dish is in STANDBY_FP, or the wait has timed out.                     *)
AbortEnds(a) ==
  /\ AbortSteps(a, "wait", "done")
  /\ tangoLock' = 0
  /\ UNCHANGED <<generating, abortFlag, abortEvent, queueEvent, before>>

-----------------------------------------------------------------------------

WorkerRuns(c) ==
  \/ TakenAborted(c) \/ NotAllowedAnyMore(c) \/ Dropped(c) \/ Begins(c)
  \/ AdapterReady(c) \/ NoAdapter(c)
  \/ TablesStopped(c) \/ StopRaises(c)
  \/ Completes(c) \/ WaitAborted(c) \/ WaitFails(c)
  \/ StandbyCalled(c) \/ OffCallsFP(c) \/ OffCallsLP(c)
  \/ FPReached(c) \/ FPNotReached(c) \/ LPReached(c) \/ LPNotReached(c)
  \/ Concludes(c)

WorkerLocks(c) == DishCalled(c) \/ TrackStopCalled(c)

AbortRuns(a) ==
  \/ AbortFlags(a) \/ AbortsQueue(a) \/ QueueAborted(a) \/ AbortTakesEvent(a)
  \/ AbortFlagsAgain(a) \/ AbortStops(a) \/ AbortFails(a) \/ AbortEnds(a)

Next ==
  \/ DishMoves
  \/ \E c \in Commands :
       \/ \E k \in Kinds : Sends(c, k) \/ SentInVain(c, k)
       \/ WorkerRuns(c) \/ WorkerLocks(c)
  \/ \E a \in Aborts : AbortRaises(a) \/ AbortRuns(a) \/ AbortLocks(a)

(* The worker and each Abort's thread keep running, and waits have timeouts. *)
(* A lock that is released again and again is not withheld for good.         *)
Fairness ==
  /\ WF_vars(\E c \in Commands : WorkerRuns(c))
  /\ SF_vars(\E c \in Commands : WorkerLocks(c))
  /\ \A a \in Aborts : WF_vars(AbortRuns(a)) /\ SF_vars(AbortLocks(a))

Spec == Init /\ [][Next]_vars /\ Fairness
=============================================================================
