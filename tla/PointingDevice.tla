---------------------------- MODULE PointingDevice ----------------------------
(***************************************************************************)
(* The DishLN Pointing Device: the GenerateProgramTrackTable long running  *)
(* command (one task worker), the StopProgramTrackTable command and        *)
(* delete_device (Tango serialises these with attribute writes, so one     *)
(* client call is in progress at a time), and the track threads a          *)
(* TrajectoryMappingScan starts.  Worker, client call and threads          *)
(* interleave; track_thread_lock, mapping_scan_event and stop_track_called *)
(* are what synchronises them.                                             *)
(*                                                                         *)
(* Request g of GenerateProgramTrackTable owns the scan object, the        *)
(* scheduler and the thread it creates, so all three are indexed by g.     *)
(***************************************************************************)
EXTENDS Naturals, Sequences

CONSTANTS
  MaxGenerate,    \* bound: how many Generate requests clients make
  QueueLimit,     \* bound: tables waiting in one scan's scheduler
  JoinMayTimeOut, \* TRUE: Stop's join(timeout=2.8) can elapse
  PublishMayFail, \* TRUE: pushing an attribute event can raise
  StartMayFail    \* TRUE: Thread.start() can raise

ASSUME PointingAssumption ==
  /\ MaxGenerate \in Nat \ {0}
  /\ QueueLimit \in Nat \ {0}
  /\ JoinMayTimeOut \in BOOLEAN
  /\ PublishMayFail \in BOOLEAN
  /\ StartMayFail \in BOOLEAN

VARIABLES
  \* shared fields of the component manager
  targetData,        \* what the last targetData write holds
  projectionOwner,   \* request whose projection the manager holds, 0 at start
  lockOwner,         \* track_thread_lock
  mappingScanEvent,  \* TRUE: the running thread is told to stop
  stopTrackCalled,
  trackTableThread,  \* request whose thread the manager refers to, 0 at start
  publishedTable,    \* signal pointingProgramTrackTable
  tableError,        \* signal programTrackTableError is not ""
  \* the task worker
  submitted,         \* requests queued so far: request k waits while k > taken
  taken,             \* the request the worker took last
  workerPc,
  outcome,           \* what do() returned for a request
  result,            \* what the client is told
  \* the client call in progress
  clientPc,
  \* the track threads
  threadPc,
  building,          \* the table under calculation
  scheduled,         \* the scheduler's queue
  \* history: has a Stop returned and no Generate run since, and which
  \* requests had been queued when a Stop returned last
  quiet, stopped

managerVars == <<targetData, projectionOwner, lockOwner, mappingScanEvent,
                 stopTrackCalled, trackTableThread>>
signalVars  == <<publishedTable, tableError>>
workerVars  == <<submitted, taken, workerPc, outcome, result>>
threadVars  == <<threadPc, building, scheduled>>
historyVars == <<quiet, stopped>>
vars == <<managerVars, signalVars, workerVars, clientPc, threadVars,
          historyVars>>

Requests == 1..MaxGenerate

(* What targetData may hold: data a scan can be made from, data refused      *)
(* before the manager is touched (no target, unknown projection; also the    *)
(* initial {}), data refused once the projection has been stored.            *)
Targets == {"good", "badTarget", "badTrajectory"}

(* A table: is it the first of its scan, and was every entry computed while  *)
(* the manager held the projection of that scan.                             *)
Tables == [first : BOOLEAN, own : BOOLEAN]

(* The signal's value.  gen = 0 is the empty table "[]".                     *)
NoTable == [gen |-> 0, first |-> FALSE, own |-> TRUE]
Published(g, table) == [gen |-> g, first |-> table.first, own |-> table.own]

Returned == {"none", "OK", "FAILED"}

ThreadStates == {"new", "firstCalc", "firstRun", "loop", "calc", "add", "run",
                 "drain", "drainRun", "dead"}

(* Thread.is_alive(): started and not finished.                              *)
Alive(g) == threadPc[g] \notin {"new", "dead"}
AnyAlive == \E g \in Requests : Alive(g)

\* Mutant: the liveness check never sees the old thread.
CurrentAliveNever == FALSE

(* is_alive() of the thread the manager refers to; the one it starts with is *)
(* never started.                                                            *)
CurrentAlive == trackTableThread # 0 /\ Alive(trackTableThread)

Init ==
  /\ targetData = "badTarget"
  /\ projectionOwner = 0
  /\ lockOwner = "free"
  /\ mappingScanEvent = FALSE
  /\ stopTrackCalled = FALSE
  /\ trackTableThread = 0
  /\ publishedTable = NoTable
  /\ tableError = FALSE
  /\ submitted = 0
  /\ taken = 0
  /\ workerPc = "idle"
  /\ outcome = [g \in Requests |-> "none"]
  /\ result = [g \in Requests |-> "none"]
  /\ clientPc = "idle"
  /\ threadPc = [g \in Requests |-> "new"]
  /\ building = [g \in Requests |-> "none"]
  /\ scheduled = [g \in Requests |-> <<>>]
  /\ quiet = FALSE
  /\ stopped = 0

-----------------------------------------------------------------------------
(* The client.                                                               *)

WriteTargetData(t) ==
  /\ clientPc = "idle"
  /\ targetData' = t
  /\ UNCHANGED <<projectionOwner, lockOwner, mappingScanEvent, stopTrackCalled,
                 trackTableThread, signalVars, workerVars, clientPc, threadVars,
                 historyVars>>

(* The command only queues the task.                                         *)
SubmitGenerate ==
  /\ clientPc = "idle"
  /\ submitted < MaxGenerate
  /\ submitted' = submitted + 1
  /\ UNCHANGED <<managerVars, signalVars, taken, workerPc, outcome, result,
                 clientPc, threadVars, historyVars>>

ClientSteps(from, to) == clientPc = from /\ clientPc' = to

StopCalled ==
  /\ ClientSteps("idle", "stopLock")
  /\ UNCHANGED <<managerVars, signalVars, workerVars, threadVars, historyVars>>

\* Mutant: Stop joins the thread without telling it to stop.
StopSignalsNoEvent ==
  /\ ClientSteps("stopLock", "stopJoin")
  /\ lockOwner = "free"
  /\ lockOwner' = "client"
  /\ stopTrackCalled' = TRUE
  /\ UNCHANGED <<targetData, mappingScanEvent, projectionOwner,
                 trackTableThread, signalVars, workerVars, threadVars,
                 historyVars>>

StopSignals ==
  /\ ClientSteps("stopLock", "stopJoin")
  /\ lockOwner = "free"
  /\ lockOwner' = "client"
  /\ stopTrackCalled' = TRUE
  /\ mappingScanEvent' = TRUE
  /\ UNCHANGED <<targetData, projectionOwner, trackTableThread, signalVars,
                 workerVars, threadVars, historyVars>>

\* Mutant: Stop does not join.
NoJoin == TRUE

JoinReturns == ~CurrentAlive \/ JoinMayTimeOut

StopJoins ==
  /\ ClientSteps("stopJoin", "stopPublish")
  /\ JoinReturns
  /\ UNCHANGED <<managerVars, signalVars, workerVars, threadVars, historyVars>>

\* Mutant: the end of Stop forgets the flag.
KeepStopFlag == UNCHANGED stopTrackCalled

ClearStopFlag == stopTrackCalled' = FALSE

StopPublishes ==
  /\ ClientSteps("stopPublish", "idle")
  /\ publishedTable' = NoTable
  /\ ClearStopFlag
  /\ lockOwner' = "free"
  /\ quiet' = TRUE
  /\ stopped' = submitted
  /\ UNCHANGED <<targetData, projectionOwner, mappingScanEvent,
                 trackTableThread, tableError, workerVars, threadVars>>

(* The exception leaves the with block before the flag is cleared.           *)
StopRaises ==
  /\ PublishMayFail
  /\ ClientSteps("stopPublish", "idle")
  /\ lockOwner' = "free"
  /\ UNCHANGED <<targetData, projectionOwner, mappingScanEvent,
                 stopTrackCalled, trackTableThread, signalVars, workerVars,
                 threadVars, historyVars>>

(* delete_device: cleanup() of the component manager.                        *)
CleanupCalled ==
  /\ ClientSteps("idle", "cleanupLock")
  /\ UNCHANGED <<managerVars, signalVars, workerVars, threadVars, historyVars>>

CleanupSignals ==
  /\ ClientSteps("cleanupLock", "cleanupJoin")
  /\ lockOwner = "free"
  /\ lockOwner' = "client"
  /\ mappingScanEvent' = TRUE
  /\ UNCHANGED <<targetData, projectionOwner, stopTrackCalled,
                 trackTableThread, signalVars, workerVars, threadVars, historyVars>>

CleanupJoins ==
  /\ ClientSteps("cleanupJoin", "cleanupEvent")
  /\ ~CurrentAlive
  /\ lockOwner' = "free"
  /\ UNCHANGED <<targetData, projectionOwner, mappingScanEvent,
                 stopTrackCalled, trackTableThread, signalVars, workerVars,
                 threadVars, historyVars>>

(* Outside the lock; then the superclass shuts the task executor down.       *)
CleanupEnds ==
  /\ ClientSteps("cleanupEvent", "off")
  /\ mappingScanEvent' = TRUE
  /\ UNCHANGED <<targetData, projectionOwner, lockOwner, stopTrackCalled,
                 trackTableThread, signalVars, workerVars, threadVars, historyVars>>

(* The deleted device does nothing more.                                     *)
Deleted ==
  /\ clientPc = "off"
  /\ UNCHANGED vars

-----------------------------------------------------------------------------
(* The task worker: GenerateProgramTrackTable.                               *)

WorkerSteps(from, to) == workerPc = from /\ workerPc' = to

\* Mutant: the worker does not look whether a request is waiting.
GenerateTakenAnyway ==
  /\ WorkerSteps("idle", "lock")
  /\ clientPc # "off"
  /\ taken' = taken + 1
  /\ UNCHANGED <<managerVars, signalVars, submitted, outcome, result, clientPc,
                 threadVars, historyVars>>

GenerateTaken ==
  /\ WorkerSteps("idle", "lock")
  /\ clientPc # "off"
  /\ taken < submitted
  /\ taken' = taken + 1
  /\ UNCHANGED <<managerVars, signalVars, submitted, outcome, result, clientPc,
                 threadVars, historyVars>>

GenerateLocks ==
  /\ WorkerSteps("lock", "build")
  /\ lockOwner = "free"
  /\ lockOwner' = "worker"
  /\ mappingScanEvent' = TRUE
  /\ quiet' = FALSE
  /\ UNCHANGED <<targetData, projectionOwner, stopTrackCalled,
                 trackTableThread, signalVars, submitted, taken, outcome,
                 result, clientPc, threadVars, stopped>>

(* build_data_for_observation and set_projection_data.                       *)
BuildAndProject ==
  /\ WorkerSteps("build", "trajectory")
  /\ targetData # "badTarget"
  /\ projectionOwner' = taken
  /\ UNCHANGED <<targetData, lockOwner, mappingScanEvent, stopTrackCalled,
                 trackTableThread, signalVars, submitted, taken, outcome,
                 result, clientPc, threadVars, historyVars>>

\* Mutant: the new thread is started beside the old one.
StartAtOnce == "start"

JoinOrStart == IF CurrentAlive THEN "join" ELSE "start"

(* set_trajectory_data, then start_track_table_calculation up to is_alive(). *)
SetTrajectory ==
  /\ targetData # "badTrajectory"
  /\ WorkerSteps("trajectory", JoinOrStart)
  /\ mappingScanEvent' = TRUE
  /\ UNCHANGED <<targetData, projectionOwner, lockOwner, stopTrackCalled,
                 trackTableThread, signalVars, submitted, taken, outcome,
                 result, clientPc, threadVars, historyVars>>

JoinOldThread ==
  /\ WorkerSteps("join", "start")
  /\ ~CurrentAlive
  /\ stopTrackCalled' = FALSE
  /\ UNCHANGED <<targetData, projectionOwner, lockOwner, mappingScanEvent,
                 trackTableThread, signalVars, submitted, taken, outcome,
                 result, clientPc, threadVars, historyVars>>

GenerateReturns ==
  /\ lockOwner' = "free"
  /\ outcome' = [outcome EXCEPT ![taken] = "OK"]
  /\ UNCHANGED <<targetData, projectionOwner, submitted, taken, result,
                 publishedTable, clientPc, historyVars>>

StartThread ==
  /\ WorkerSteps("start", "report")
  /\ ~stopTrackCalled
  /\ mappingScanEvent' = FALSE
  /\ trackTableThread' = taken
  /\ threadPc' = [threadPc EXCEPT ![taken] = "firstCalc"]
  /\ GenerateReturns
  /\ UNCHANGED <<stopTrackCalled, tableError, building, scheduled>>

(* "can't start new thread": the exception is only logged, do() returns OK.   *)
(* The manager refers to the thread that was not started, and the event is   *)
(* clear.  (Neither creating a Thread nor joining one that runs raises.)     *)
StartRaises ==
  /\ StartMayFail
  /\ WorkerSteps("start", "report")
  /\ ~stopTrackCalled
  /\ mappingScanEvent' = FALSE
  /\ trackTableThread' = taken
  /\ GenerateReturns
  /\ UNCHANGED <<stopTrackCalled, tableError, threadVars>>

(* The flag a raising Stop left set: nothing starts, do() still returns OK.  *)
SkipThread ==
  /\ WorkerSteps("start", "report")
  /\ stopTrackCalled
  /\ GenerateReturns
  /\ UNCHANGED <<mappingScanEvent, stopTrackCalled, trackTableThread,
                 tableError, threadVars>>

RefusesTarget ==
  \/ workerPc = "build" /\ targetData = "badTarget"
  \/ workerPc = "trajectory" /\ targetData = "badTrajectory"

\* Mutant: the exception is only logged.
SwallowError == UNCHANGED tableError

PublishError == tableError' = TRUE

(* The exception leaves the with block before do() catches it.               *)
GenerateFails ==
  /\ RefusesTarget
  /\ workerPc' = "error"
  /\ lockOwner' = "free"
  /\ UNCHANGED <<targetData, projectionOwner, mappingScanEvent,
                 stopTrackCalled, trackTableThread, signalVars, submitted,
                 taken, outcome, result, clientPc, threadVars, historyVars>>

FailureReturned ==
  /\ outcome' = [outcome EXCEPT ![taken] = "FAILED"]
  /\ UNCHANGED <<managerVars, publishedTable, submitted, taken, result,
                 clientPc, threadVars, historyVars>>

(* Without the lock: do() publishes the error and returns FAILED.            *)
ErrorPublished ==
  /\ WorkerSteps("error", "report")
  /\ PublishError
  /\ FailureReturned

(* Publishing the error raises as well: the exception leaves do().           *)
ErrorRaises ==
  /\ PublishMayFail
  /\ WorkerSteps("error", "reportError")
  /\ UNCHANGED tableError
  /\ FailureReturned

(* The return code of do() is not looked at: a request that returned is      *)
(* reported as OK.                                                           *)
Report ==
  /\ workerPc \in {"report", "reportError"}
  /\ workerPc' = "idle"
  /\ result' = [result EXCEPT ![taken] =
                  IF workerPc = "report" THEN "OK" ELSE "FAILED"]
  /\ UNCHANGED <<managerVars, signalVars, submitted, taken, outcome, clientPc,
                 threadVars, historyVars>>

-----------------------------------------------------------------------------
(* The track threads: TrajectoryMappingScan.track_thread.                    *)

ThreadSteps(g, from, to) ==
  /\ threadPc[g] = from
  /\ threadPc' = [threadPc EXCEPT ![g] = to]

LeavesOthers ==
  UNCHANGED <<managerVars, workerVars, clientPc, historyVars>>

(* One entry of a table: it is computed with the projection the manager      *)
(* holds at that moment.                                                     *)
CalculateEntry(g) ==
  /\ threadPc[g] \in {"firstCalc", "calc"}
  /\ building' = [building EXCEPT ![g] =
       IF projectionOwner = g /\ @ # "mixed" THEN "own" ELSE "mixed"]
  /\ UNCHANGED <<threadPc, scheduled, signalVars>>
  /\ LeavesOthers

(* A limit of the dish ends the calculation and publishes an error; an       *)
(* exception ends it silently.                                               *)
CalculationStops ==
  /\ UNCHANGED publishedTable
  /\ \/ tableError' = TRUE
     \/ UNCHANGED tableError

Schedule(g, isFirst) ==
  scheduled' = [scheduled EXCEPT ![g] =
                  Append(@, [first |-> isFirst, own |-> building[g] = "own"])]

FirstTableReady(g) ==
  /\ ThreadSteps(g, "firstCalc", "firstRun")
  /\ building[g] # "none"
  /\ Schedule(g, TRUE)
  /\ building' = [building EXCEPT ![g] = "none"]
  /\ CalculationStops
  /\ LeavesOthers

FirstTableEmpty(g) ==
  /\ ThreadSteps(g, "firstCalc", "dead")
  /\ building[g] = "none"
  /\ CalculationStops
  /\ UNCHANGED <<building, scheduled>>
  /\ LeavesOthers

(* while not mapping_scan_event.is_set()                                     *)
TestEvent(g) ==
  /\ ThreadSteps(g, "loop", IF mappingScanEvent THEN "dead" ELSE "calc")
  /\ building' = [building EXCEPT ![g] = "none"]
  /\ UNCHANGED <<scheduled, signalVars>>
  /\ LeavesOthers

(* Tables become due as fast as they are computed once the scheduler is      *)
(* full, which is what QueueLimit stands for.                                *)
CalculationEnds(g) ==
  /\ ThreadSteps(g, "calc", IF building[g] = "none" THEN "drain" ELSE "add")
  /\ building[g] = "none" \/ Len(scheduled[g]) < QueueLimit \/ mappingScanEvent
  /\ CalculationStops
  /\ UNCHANGED <<building, scheduled>>
  /\ LeavesOthers

\* Mutant: the event is not looked at again after the calculation.
AlwaysWanted == TRUE

TableWanted == ~mappingScanEvent

AddTable(g) ==
  /\ ThreadSteps(g, "add", "run")
  /\ TableWanted
  /\ Schedule(g, FALSE)
  /\ UNCHANGED <<building, signalVars>>
  /\ LeavesOthers

AfterRun(g) == IF scheduled[g] = <<>> THEN "dead" ELSE "loop"

DropTable(g) ==
  /\ ThreadSteps(g, "add", AfterRun(g))
  /\ ~TableWanted
  /\ UNCHANGED <<building, scheduled, signalVars>>
  /\ LeavesOthers

RunEnds(g) ==
  /\ \/ ThreadSteps(g, "firstRun", "loop")
     \/ ThreadSteps(g, "run", AfterRun(g))
     \/ ThreadSteps(g, "drainRun", "drain")
  /\ UNCHANGED <<building, scheduled, signalVars>>
  /\ LeavesOthers

\* Mutant: while the queue is not empty.
DrainToTheEnd(g) ==
  /\ ThreadSteps(g, "drain",
                 IF scheduled[g] # <<>> THEN "drainRun" ELSE AfterRun(g))
  /\ UNCHANGED <<building, scheduled, signalVars>>
  /\ LeavesOthers

(* while not mapping_scan_event.is_set() and the queue is not empty          *)
Drain(g) ==
  /\ ThreadSteps(g, "drain",
                 IF ~mappingScanEvent /\ scheduled[g] # <<>>
                 THEN "drainRun" ELSE AfterRun(g))
  /\ UNCHANGED <<building, scheduled, signalVars>>
  /\ LeavesOthers

(* scheduler.run(blocking=False): the next table is due.  Calculation runs   *)
(* the scheduler after every entry.                                          *)
InRun(g) ==
  /\ \/ threadPc[g] \in {"firstRun", "run", "drainRun"}
     \/ threadPc[g] = "calc" /\ building[g] # "none"
  /\ scheduled[g] # <<>>
  /\ scheduled' = [scheduled EXCEPT ![g] = Tail(@)]

PublishTable(g) ==
  /\ InRun(g)
  /\ publishedTable' = Published(g, Head(scheduled[g]))
  /\ UNCHANGED <<tableError, threadPc, building>>
  /\ LeavesOthers

(* The table is lost.  calculate_program_track_table returns what it has;    *)
(* elsewhere the exception ends the thread.                                  *)
PublishRaises(g) ==
  /\ PublishMayFail
  /\ InRun(g)
  /\ threadPc' = [threadPc EXCEPT ![g] = IF @ = "calc" THEN "add" ELSE "dead"]
  /\ UNCHANGED <<building, signalVars>>
  /\ LeavesOthers

-----------------------------------------------------------------------------

ClientCall ==
  \/ StopSignals \/ StopJoins \/ StopPublishes \/ StopRaises
  \/ CleanupSignals \/ CleanupJoins \/ CleanupEnds

Client ==
  \/ \E t \in Targets : WriteTargetData(t)
  \/ SubmitGenerate
  \/ StopCalled
  \/ CleanupCalled
  \/ ClientCall

Generate ==
  \/ GenerateLocks \/ BuildAndProject \/ SetTrajectory \/ JoinOldThread
  \/ StartThread \/ StartRaises \/ SkipThread
  \/ GenerateFails \/ ErrorPublished \/ ErrorRaises \/ Report

TrackThread(g) ==
  \/ CalculateEntry(g) \/ FirstTableReady(g) \/ FirstTableEmpty(g)
  \/ TestEvent(g) \/ CalculationEnds(g) \/ AddTable(g) \/ DropTable(g)
  \/ RunEnds(g) \/ Drain(g) \/ PublishTable(g) \/ PublishRaises(g)

Next ==
  \/ Client
  \/ GenerateTaken
  \/ Generate
  \/ \E g \in Requests : TrackThread(g)
  \/ Deleted

Safe == Init /\ [][Next]_vars

(* A call in progress, the worker and every thread keep running.  The worker *)
(* gets the lock although Stop is called again and again: between two calls  *)
(* of a client the lock is free for a network round trip.                    *)
Fairness ==
  /\ WF_vars(ClientCall)
  /\ WF_vars(GenerateTaken)
  /\ WF_vars(Generate)
  /\ SF_vars(GenerateLocks)
  /\ \A g \in Requests : WF_vars(TrackThread(g))

Spec == Safe /\ Fairness
=============================================================================
