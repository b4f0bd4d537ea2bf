------------------------ MODULE PointingDeviceProofs ------------------------
(***************************************************************************)
(* Proofs about PointingDevice, for every number of requests, every queue  *)
(* limit and with or without failures.                                     *)
(***************************************************************************)
EXTENDS PointingDeviceProperties, TLAPS

USE PointingAssumption

TableSignal == [gen : 0..MaxGenerate, first : BOOLEAN, own : BOOLEAN]

(* The signal's values are records of that shape.                            *)
LEMMA SignalType ==
  /\ NoTable \in TableSignal
  /\ \A g \in Requests, table \in Tables : Published(g, table) \in TableSignal
  BY DEF NoTable, TableSignal, Published, Tables, Requests

(* What the worker holds is a request or, at start, 0.                       *)
LEMMA TakenType == TypeOK => taken \in 0..MaxGenerate
  BY DEF TypeOK

(* Adding to a queue of tables and taking its head off.                      *)
LEMMA QueueType ==
  ASSUME NEW T, NEW q \in Seq(T)
  PROVE  /\ \A t \in T : Append(q, t) \in Seq(T)
         /\ q # <<>> => Head(q) \in T /\ Tail(q) \in Seq(T)
  OBVIOUS

(* Every step keeps every variable in its range.                             *)
LEMMA TypeStep == TypeOK /\ [Next]_vars => TypeOK'
<1> SUFFICES ASSUME TypeOK, [Next]_vars PROVE TypeOK'
  OBVIOUS
<1> USE DEF TypeOK, Requests, managerVars, signalVars, workerVars, threadVars,
            historyVars
<1>1. ASSUME NEW t \in Targets, WriteTargetData(t) PROVE TypeOK'
  BY <1>1 DEF WriteTargetData
<1>2. CASE SubmitGenerate
  BY <1>2 DEF SubmitGenerate
<1>3. CASE StopCalled \/ CleanupCalled
  BY <1>3 DEF StopCalled, CleanupCalled, ClientSteps
<1>4. CASE ClientCall
  <2> USE DEF ClientSteps
  <2>1. CASE StopSignals \/ CleanupSignals
    BY <2>1 DEF StopSignals, CleanupSignals
  <2>2. CASE StopJoins \/ CleanupJoins
    BY <2>2 DEF StopJoins, CleanupJoins
  <2>3. CASE StopPublishes
    BY <2>3, SignalType DEF StopPublishes, ClearStopFlag, TableSignal
  <2>4. CASE StopRaises \/ CleanupEnds
    BY <2>4 DEF StopRaises, CleanupEnds
  <2>5. QED
    BY <1>4, <2>1, <2>2, <2>3, <2>4 DEF ClientCall
<1>5. CASE GenerateTaken
  BY <1>5 DEF GenerateTaken, WorkerSteps
<1>6. CASE Generate
  <2>1. CASE GenerateLocks \/ JoinOldThread
    BY <2>1 DEF GenerateLocks, JoinOldThread, WorkerSteps
  <2>2. CASE BuildAndProject \/ SetTrajectory
    <3>1. /\ projectionOwner' \in 0..MaxGenerate
          /\ mappingScanEvent' \in BOOLEAN
          /\ workerPc' \in {"trajectory", "join", "start"}
      BY <2>2, TakenType DEF BuildAndProject, SetTrajectory, JoinOrStart,
                             WorkerSteps
    <3>2. QED
      BY <2>2, <3>1 DEF BuildAndProject, SetTrajectory
  <2>5. CASE StartThread \/ StartRaises \/ SkipThread
    <3>1. /\ trackTableThread' \in 0..MaxGenerate
          /\ threadPc' \in [Requests -> ThreadStates]
      BY <2>5, TakenType DEF StartThread, StartRaises, SkipThread, ThreadStates
    <3>2. outcome' \in [Requests -> Returned]
      BY <2>5 DEF StartThread, StartRaises, SkipThread, GenerateReturns,
                  Returned
    <3>3. QED
      BY <2>5, <3>1, <3>2 DEF StartThread, StartRaises, SkipThread,
                              GenerateReturns, WorkerSteps
  <2>3. CASE GenerateFails \/ ErrorPublished \/ ErrorRaises
    BY <2>3 DEF GenerateFails, ErrorPublished, ErrorRaises, FailureReturned,
                PublishError, RefusesTarget, WorkerSteps, Returned
  <2>4. CASE Report
    BY <2>4 DEF Report, Returned
  <2>6. QED
    BY <1>6, <2>1, <2>2, <2>3, <2>4, <2>5 DEF Generate
<1>7. ASSUME NEW g \in Requests, TrackThread(g) PROVE TypeOK'
  <2> USE DEF LeavesOthers
  <2>1. threadPc' \in [Requests -> ThreadStates]
    <3> USE <1>7 DEF ThreadSteps, ThreadStates
    <3>1. CASE FirstTableReady(g) \/ FirstTableEmpty(g) \/ TestEvent(g)
      BY <3>1 DEF FirstTableReady, FirstTableEmpty, TestEvent
    <3>2. CASE CalculationEnds(g)
      BY <3>2 DEF CalculationEnds
    <3>3. CASE AddTable(g) \/ DropTable(g)
      BY <3>3 DEF AddTable, DropTable, AfterRun
    <3>4. CASE RunEnds(g) \/ Drain(g)
      BY <3>4 DEF RunEnds, Drain, AfterRun
    <3>5. CASE CalculateEntry(g) \/ PublishTable(g) \/ PublishRaises(g)
      BY <3>5 DEF CalculateEntry, PublishTable, PublishRaises
    <3>6. QED
      BY <3>1, <3>2, <3>3, <3>4, <3>5 DEF TrackThread
  <2>2. building' \in [Requests -> {"none", "own", "mixed"}]
    BY <1>7 DEF TrackThread, CalculateEntry, FirstTableReady, FirstTableEmpty,
                TestEvent, CalculationEnds, AddTable, DropTable, RunEnds, Drain,
                PublishTable, PublishRaises
  <2>3. scheduled' \in [Requests -> Seq(Tables)]
    <3>1. CASE FirstTableReady(g) \/ AddTable(g)
      <4>1. PICK t \in Tables :
              scheduled' = [scheduled EXCEPT ![g] = Append(@, t)]
        BY <3>1 DEF FirstTableReady, AddTable, Schedule, Tables
      <4>2. QED
        BY <4>1, QueueType
    <3>2. CASE PublishTable(g) \/ PublishRaises(g)
      <4>1. /\ scheduled[g] \in Seq(Tables) /\ scheduled[g] # <<>>
            /\ scheduled' = [scheduled EXCEPT ![g] = Tail(@)]
        BY <3>2 DEF PublishTable, PublishRaises, InRun
      <4>2. Tail(scheduled[g]) \in Seq(Tables)
        BY <4>1, QueueType
      <4>3. QED
        BY <4>1, <4>2
    <3>3. QED
      BY <1>7, <3>1, <3>2 DEF TrackThread, CalculateEntry, FirstTableEmpty,
           TestEvent, CalculationEnds, DropTable, RunEnds, Drain
  <2>4. publishedTable' \in TableSignal
    <3>1. CASE PublishTable(g)
      BY <3>1, QueueType, SignalType DEF PublishTable, InRun
    <3>2. QED
      BY <1>7, <3>1 DEF TrackThread, CalculateEntry, FirstTableReady,
           FirstTableEmpty, CalculationStops, TestEvent, CalculationEnds,
           AddTable, DropTable, RunEnds, Drain, PublishRaises, TableSignal
  <2>5. tableError' \in BOOLEAN /\ LeavesOthers
    BY <1>7 DEF TrackThread, CalculateEntry, FirstTableReady, FirstTableEmpty,
                CalculationStops, TestEvent, CalculationEnds, AddTable,
                DropTable, RunEnds, Drain, PublishTable, PublishRaises
  <2>6. QED
    BY <2>1, <2>2, <2>3, <2>4, <2>5 DEF TableSignal
<1>8. CASE UNCHANGED vars
  BY <1>8 DEF vars
<1>9. CASE Deleted
  BY <1>9 DEF Deleted, vars
<1>10. QED
  BY <1>1, <1>2, <1>3, <1>4, <1>5, <1>6, <1>7, <1>8, <1>9 DEF Next, Client

-----------------------------------------------------------------------------
(* What the three kinds of step leave alone.                                 *)

(* A track thread that steps is alive and touches nobody else's state.       *)
LEMMA ThreadEffect ==
  ASSUME TypeOK, NEW g \in Requests, TrackThread(g)
  PROVE  /\ Alive(g)
         /\ LeavesOthers
         /\ threadPc'[g] # "new"
         /\ \A h \in Requests \ {g} : /\ threadPc'[h] = threadPc[h]
                                      /\ building'[h] = building[h]
                                      /\ scheduled'[h] = scheduled[h]
<1> USE DEF TypeOK, Alive
<1>1. LeavesOthers
  BY DEF TrackThread, CalculateEntry, FirstTableReady, FirstTableEmpty,
         TestEvent, CalculationEnds, AddTable, DropTable, RunEnds, Drain,
         PublishTable, PublishRaises
<1>2. Alive(g)
  BY DEF TrackThread, CalculateEntry, FirstTableReady, FirstTableEmpty,
         TestEvent, CalculationEnds, AddTable, DropTable, RunEnds, Drain,
         PublishTable, PublishRaises, ThreadSteps, InRun
<1>3. /\ threadPc'[g] # "new"
      /\ \A h \in Requests \ {g} : threadPc'[h] = threadPc[h]
  <2>1. CASE \/ FirstTableReady(g) \/ FirstTableEmpty(g) \/ TestEvent(g)
             \/ CalculationEnds(g)
    BY <2>1 DEF FirstTableReady, FirstTableEmpty, TestEvent, CalculationEnds,
                ThreadSteps
  <2>2. CASE AddTable(g) \/ DropTable(g) \/ RunEnds(g) \/ Drain(g)
    BY <2>2 DEF AddTable, DropTable, RunEnds, Drain, ThreadSteps, AfterRun
  <2>3. CASE CalculateEntry(g) \/ PublishTable(g) \/ PublishRaises(g)
    BY <2>3, <1>2 DEF CalculateEntry, PublishTable, PublishRaises
  <2>4. QED
    BY <2>1, <2>2, <2>3 DEF TrackThread
<1>4. \A h \in Requests \ {g} : building'[h] = building[h]
  BY DEF TrackThread, CalculateEntry, FirstTableReady, FirstTableEmpty,
         TestEvent, CalculationEnds, AddTable, DropTable, RunEnds, Drain,
         PublishTable, PublishRaises
<1>5. \A h \in Requests \ {g} : scheduled'[h] = scheduled[h]
  BY DEF TrackThread, CalculateEntry, FirstTableReady, FirstTableEmpty,
         TestEvent, CalculationEnds, AddTable, DropTable, RunEnds, Drain,
         PublishTable, PublishRaises, InRun, Schedule
<1>6. QED
  BY <1>1, <1>2, <1>3, <1>4, <1>5

(* A client call starts no thread, stores no projection and never clears the *)
(* event; the only table it publishes is the empty one.                      *)
LEMMA ClientEffect ==
  ASSUME TypeOK, Client
  PROVE  /\ UNCHANGED <<projectionOwner, trackTableThread, taken, workerPc,
                        threadVars>>
         /\ mappingScanEvent' \in {mappingScanEvent, TRUE}
         /\ publishedTable' \in {publishedTable, NoTable}
BY DEF TypeOK, Client, ClientCall, WriteTargetData, SubmitGenerate, StopCalled,
       CleanupCalled, StopSignals, StopJoins, StopPublishes, StopRaises,
       CleanupSignals, CleanupJoins, CleanupEnds, managerVars, signalVars,
       workerVars, threadVars

-----------------------------------------------------------------------------
(* track_thread_lock belongs to the party inside its with block, and from    *)
(* there on the event is set.                                                *)
LEMMA LockStep ==
  TypeOK /\ LockInv /\ EventInv /\ [Next]_vars => LockInv' /\ EventInv'
<1> SUFFICES ASSUME TypeOK, LockInv, EventInv, [Next]_vars
             PROVE  LockInv' /\ EventInv'
  OBVIOUS
<1> USE DEF TypeOK, LockInv, EventInv, WorkerHoldsLock, ClientHoldsLock,
            managerVars, signalVars, workerVars
<1>1. CASE Client
  <2>1. CASE ClientCall
    BY <2>1 DEF ClientCall, StopSignals, StopJoins, StopPublishes, StopRaises,
                CleanupSignals, CleanupJoins, CleanupEnds, ClientSteps
  <2>2. QED
    BY <1>1, <2>1 DEF Client, WriteTargetData, SubmitGenerate, StopCalled,
                      CleanupCalled, ClientSteps
<1>2. CASE GenerateTaken
  BY <1>2 DEF GenerateTaken, WorkerSteps
<1>3. CASE Generate
  <2>1. CASE GenerateLocks \/ BuildAndProject \/ SetTrajectory \/ JoinOldThread
    BY <2>1 DEF GenerateLocks, BuildAndProject, SetTrajectory, JoinOldThread,
                WorkerSteps, JoinOrStart
  <2>2. CASE \/ StartThread \/ StartRaises \/ SkipThread \/ GenerateFails
             \/ ErrorPublished \/ ErrorRaises \/ Report
    BY <2>2 DEF StartThread, StartRaises, SkipThread, GenerateFails,
                ErrorPublished, ErrorRaises, Report, GenerateReturns,
                FailureReturned, RefusesTarget, WorkerSteps
  <2>3. QED
    BY <1>3, <2>1, <2>2 DEF Generate
<1>4. ASSUME NEW g \in Requests, TrackThread(g) PROVE LockInv' /\ EventInv'
  BY <1>4, ThreadEffect DEF LeavesOthers
<1>5. CASE UNCHANGED vars
  BY <1>5 DEF vars
<1>6. QED
  BY <1>1, <1>2, <1>3, <1>4, <1>5 DEF Next, Deleted

(* The request in progress has no thread, and the only thread that can be    *)
(* alive is the one the manager refers to.                                   *)
LEMMA WorkerStep ==
  TypeOK /\ WorkerInv /\ OneTrackThread /\ [Next]_vars
    => WorkerInv' /\ OneTrackThread'
<1> SUFFICES ASSUME TypeOK, WorkerInv, OneTrackThread, [Next]_vars
             PROVE  WorkerInv' /\ OneTrackThread'
  OBVIOUS
<1> USE DEF TypeOK, WorkerInv, OneTrackThread, WorkerHoldsLock, CurrentAlive,
            Alive, Requests, managerVars, workerVars, threadVars
<1>1. CASE Client
  BY <1>1, ClientEffect
<1>2. CASE GenerateTaken
  BY <1>2 DEF GenerateTaken, WorkerSteps
<1>3. CASE Generate
  <2>1. CASE GenerateLocks \/ BuildAndProject \/ SetTrajectory \/ JoinOldThread
    BY <2>1 DEF GenerateLocks, BuildAndProject, SetTrajectory, JoinOldThread,
                WorkerSteps, JoinOrStart
  <2>2. CASE StartThread
    <3>1. taken \in Requests /\ threadPc[taken] = "new"
      BY <2>2 DEF StartThread, WorkerSteps
    <3>2. \A h \in Requests : ~Alive(h)
      BY <2>2 DEF StartThread, WorkerSteps
    <3>3. /\ trackTableThread' = taken /\ taken' = taken
          /\ workerPc' = "report"
          /\ threadPc' = [threadPc EXCEPT ![taken] = "firstCalc"]
      BY <2>2 DEF StartThread, WorkerSteps, GenerateReturns
    <3>4. QED
      BY <3>1, <3>2, <3>3
  <2>5. CASE StartRaises
    <3>1. \A h \in Requests : ~Alive(h)
      BY <2>5 DEF StartRaises, WorkerSteps
    <3>2. /\ trackTableThread' = taken /\ taken' = taken
          /\ workerPc' = "report" /\ threadPc' = threadPc
      BY <2>5 DEF StartRaises, WorkerSteps, GenerateReturns
    <3>3. taken # 0 /\ \A g \in Requests : g > taken => threadPc[g] = "new"
      BY <2>5 DEF StartRaises, WorkerSteps
    <3>4. OneTrackThread'
      BY <3>1, <3>2
    <3>5. WorkerInv'
      BY <3>2, <3>3
    <3>6. QED
      BY <3>4, <3>5
  <2>3. CASE \/ SkipThread \/ GenerateFails \/ ErrorPublished \/ ErrorRaises
             \/ Report
    BY <2>3 DEF SkipThread, GenerateFails, ErrorPublished, ErrorRaises, Report,
                GenerateReturns, FailureReturned, RefusesTarget, WorkerSteps
  <2>4. QED
    BY <1>3, <2>1, <2>2, <2>3, <2>5 DEF Generate
<1>4. ASSUME NEW g \in Requests, TrackThread(g)
      PROVE  WorkerInv' /\ OneTrackThread'
  <2>1. g = trackTableThread /\ g <= taken /\ workerPc # "start"
    BY <1>4, ThreadEffect
  <2>2. /\ UNCHANGED <<trackTableThread, taken, workerPc>>
        /\ \A h \in Requests \ {g} : threadPc'[h] = threadPc[h]
    BY <1>4, ThreadEffect DEF LeavesOthers
  <2>3. OneTrackThread'
    BY <2>1, <2>2
  <2>4. \A h \in Requests : threadPc[h] = "new" => threadPc'[h] = "new"
    BY <1>4, <2>2, ThreadEffect
  <2>5. WorkerInv'
    BY <2>1, <2>2, <2>4
  <2>6. QED
    BY <2>3, <2>5
<1>5. CASE UNCHANGED vars
  BY <1>5 DEF vars
<1>6. QED
  BY <1>1, <1>2, <1>3, <1>4, <1>5 DEF Next, Deleted

(* A thread that calculates with another scan's projection has been told to  *)
(* stop.                                                                     *)
LEMMA ProjectionStep ==
  /\ TypeOK /\ EventInv /\ WorkerInv /\ OneTrackThread /\ ProjectionInv
  /\ [Next]_vars
  => ProjectionInv'
<1> SUFFICES ASSUME TypeOK, EventInv, WorkerInv, OneTrackThread, ProjectionInv,
                    [Next]_vars
             PROVE  ProjectionInv'
  OBVIOUS
<1> USE DEF TypeOK, ProjectionInv, Alive, Requests, managerVars, workerVars,
            threadVars
<1>1. CASE Client
  BY <1>1, ClientEffect
<1>2. CASE GenerateTaken
  BY <1>2 DEF GenerateTaken, WorkerSteps
<1>3. CASE Generate
  <2>1. CASE GenerateLocks \/ BuildAndProject \/ SetTrajectory \/ JoinOldThread
    BY <2>1 DEF GenerateLocks, BuildAndProject, SetTrajectory, JoinOldThread,
                WorkerSteps, JoinOrStart, EventInv, WorkerHoldsLock
  <2>2. CASE StartThread
    <3>1. taken \in Requests /\ projectionOwner' = taken
      BY <2>2 DEF StartThread, WorkerSteps, GenerateReturns, WorkerInv
    <3>2. \A h \in Requests : ~Alive(h)
      BY <2>2 DEF StartThread, WorkerSteps, WorkerInv, OneTrackThread,
                  CurrentAlive
    <3>3. /\ workerPc' = "report" /\ building' = building
          /\ threadPc' = [threadPc EXCEPT ![taken] = "firstCalc"]
      BY <2>2 DEF StartThread, WorkerSteps
    <3>4. QED
      BY <3>1, <3>2, <3>3
  <2>5. CASE StartRaises
    <3>1. \A h \in Requests : ~Alive(h)
      BY <2>5 DEF StartRaises, WorkerSteps, WorkerInv, OneTrackThread,
                  CurrentAlive
    <3>2. workerPc' = "report" /\ UNCHANGED <<building, threadPc>>
      BY <2>5 DEF StartRaises, WorkerSteps
    <3>3. QED
      BY <3>1, <3>2
  <2>3. CASE \/ SkipThread \/ GenerateFails \/ ErrorPublished \/ ErrorRaises
             \/ Report
    BY <2>3 DEF SkipThread, GenerateFails, ErrorPublished, ErrorRaises, Report,
                GenerateReturns, FailureReturned, RefusesTarget, WorkerSteps
  <2>4. QED
    BY <1>3, <2>1, <2>2, <2>3, <2>5 DEF Generate
<1>4. ASSUME NEW g \in Requests, TrackThread(g) PROVE ProjectionInv'
  <2>1. /\ UNCHANGED <<projectionOwner, mappingScanEvent, taken, workerPc>>
        /\ Alive(g)
        /\ \A h \in Requests \ {g} : /\ threadPc'[h] = threadPc[h]
                                     /\ building'[h] = building[h]
    BY <1>4, ThreadEffect DEF LeavesOthers
  <2>2. /\ threadPc'[g] = "add" => building'[g] # "none"
        /\ threadPc'[g] \in {"calc", "add"} /\ building'[g] = "mixed"
             => mappingScanEvent
    <3>1. CASE CalculateEntry(g)
      BY <2>1, <3>1 DEF CalculateEntry
    <3>2. CASE FirstTableReady(g) \/ FirstTableEmpty(g) \/ TestEvent(g)
      BY <3>2 DEF FirstTableReady, FirstTableEmpty, TestEvent, ThreadSteps
    <3>3. CASE CalculationEnds(g)
      BY <3>3 DEF CalculationEnds, ThreadSteps
    <3>4. CASE AddTable(g) \/ DropTable(g) \/ RunEnds(g) \/ Drain(g)
      BY <3>4 DEF AddTable, DropTable, RunEnds, Drain, ThreadSteps, AfterRun
    <3>5. CASE PublishTable(g) \/ PublishRaises(g)
      BY <3>5 DEF PublishTable, PublishRaises, InRun
    <3>6. QED
      BY <1>4, <3>1, <3>2, <3>3, <3>4, <3>5 DEF TrackThread
  <2>3. QED
    BY <2>1, <2>2
<1>5. CASE UNCHANGED vars
  BY <1>5 DEF vars
<1>6. QED
  BY <1>1, <1>2, <1>3, <1>4, <1>5 DEF Next, Deleted

(* So no table but a scan's first is scheduled, or published, with another   *)
(* scan's projection.                                                        *)
LEMMA ScheduledStep ==
  /\ TypeOK /\ ProjectionInv /\ ScheduledInv /\ LaterTablesUseOwnProjection
  /\ [Next]_vars
  => ScheduledInv' /\ LaterTablesUseOwnProjection'
<1> SUFFICES ASSUME TypeOK, ProjectionInv, ScheduledInv,
                    LaterTablesUseOwnProjection, [Next]_vars
             PROVE  ScheduledInv' /\ LaterTablesUseOwnProjection'
  OBVIOUS
<1> USE DEF ScheduledInv, LaterTablesUseOwnProjection, signalVars, threadVars
<1>1. CASE Client
  BY <1>1, ClientEffect DEF NoTable
<1>2. CASE GenerateTaken
  BY <1>2 DEF GenerateTaken
<1>3. CASE Generate
  BY <1>3 DEF Generate, GenerateLocks, BuildAndProject, SetTrajectory,
       JoinOldThread, StartThread, StartRaises, SkipThread, GenerateFails,
       ErrorPublished, ErrorRaises, Report, GenerateReturns, FailureReturned
<1>4. ASSUME NEW g \in Requests, TrackThread(g)
      PROVE  ScheduledInv' /\ LaterTablesUseOwnProjection'
  <2>1. CASE FirstTableReady(g) \/ AddTable(g)
    <3>1. PICK t \in OwnTables :
            scheduled' = [scheduled EXCEPT ![g] = Append(@, t)]
      <4>1. CASE FirstTableReady(g)
        <5>1. [first |-> TRUE, own |-> building[g] = "own"] \in OwnTables
          BY DEF OwnTables, Tables
        <5>2. QED
          BY <4>1, <5>1 DEF FirstTableReady, Schedule
      <4>2. CASE AddTable(g)
        <5>1. building[g] = "own"
          BY <4>2 DEF AddTable, ThreadSteps, TableWanted, ProjectionInv, TypeOK
        <5>2. QED
          BY <4>2, <5>1 DEF AddTable, Schedule, OwnTables, Tables
      <4>3. QED
        BY <2>1, <4>1, <4>2
    <3>2. UNCHANGED publishedTable
      BY <2>1 DEF FirstTableReady, AddTable, CalculationStops
    <3>3. Append(scheduled[g], t) \in Seq(OwnTables)
      BY QueueType
    <3>4. scheduled \in [Requests -> Seq(Tables)]
      BY DEF TypeOK
    <3>5. QED
      BY <3>1, <3>2, <3>3, <3>4
  <2>2. CASE PublishTable(g) \/ PublishRaises(g)
    <3>1. /\ Head(scheduled[g]) \in OwnTables
          /\ Tail(scheduled[g]) \in Seq(OwnTables)
      BY <2>2, QueueType DEF PublishTable, PublishRaises, InRun
    <3>2. ScheduledInv'
      BY <2>2, <3>1 DEF PublishTable, PublishRaises, InRun, TypeOK
    <3>3. LaterTablesUseOwnProjection'
      BY <2>2, <3>1 DEF PublishTable, PublishRaises, Published, OwnTables
    <3>4. QED
      BY <3>2, <3>3
  <2>3. QED
    BY <1>4, <2>1, <2>2 DEF TrackThread, CalculateEntry, FirstTableEmpty,
         CalculationStops, TestEvent, CalculationEnds, DropTable, RunEnds, Drain
<1>5. CASE UNCHANGED vars
  BY <1>5 DEF vars
<1>6. QED
  BY <1>1, <1>2, <1>3, <1>4, <1>5 DEF Next, Deleted

-----------------------------------------------------------------------------
(* The initial state satisfies the inductive invariant.                      *)
LEMMA InitInv == Init => IInv
<1> SUFFICES ASSUME Init PROVE IInv
  OBVIOUS
<1> USE DEF Init
<1>1. TypeOK
  <2>1. publishedTable \in TableSignal
    BY SignalType
  <2>2. scheduled \in [Requests -> Seq(Tables)]
    OBVIOUS
  <2>3. /\ outcome \in [Requests -> Returned]
        /\ result \in [Requests -> Returned]
        /\ threadPc \in [Requests -> ThreadStates]
        /\ building \in [Requests -> {"none", "own", "mixed"}]
    BY DEF Returned, ThreadStates
  <2>4. 0 \in 0..MaxGenerate /\ 0 \in 0..0
    OBVIOUS
  <2>5. QED
    BY <2>1, <2>2, <2>3, <2>4 DEF TypeOK, TableSignal, Targets
<1>2. LockInv /\ EventInv
  BY DEF LockInv, EventInv, WorkerHoldsLock, ClientHoldsLock
<1>3. WorkerInv /\ OneTrackThread /\ ProjectionInv
  BY DEF WorkerInv, OneTrackThread, ProjectionInv, WorkerHoldsLock, Alive
<1>4. ScheduledInv /\ LaterTablesUseOwnProjection
  BY DEF ScheduledInv, LaterTablesUseOwnProjection, NoTable
<1>5. QED
  BY <1>1, <1>2, <1>3, <1>4 DEF IInv

(* The invariant is inductive: it holds of the pointing device in every      *)
(* reachable state.                                                          *)
THEOREM Invariant == Safe => []IInv
<1>1. IInv /\ [Next]_vars => IInv'
  BY TypeStep, LockStep, WorkerStep, ProjectionStep, ScheduledStep DEF IInv
<1>2. QED
  BY InitInv, <1>1, PTL DEF Safe

(* Every variable keeps to its range, for every number of requests.          *)
THEOREM TypeCorrect == Safe => []TypeOK
<1>1. IInv => TypeOK
  BY DEF IInv
<1>2. QED
  BY Invariant, <1>1, PTL

(* However Stop, cleanup and Generate interleave, and even when Stop's join  *)
(* gives up, at most one track thread is alive and the manager refers to it. *)
THEOREM OneThread == Safe => []OneTrackThread
<1>1. IInv => OneTrackThread
  BY DEF IInv
<1>2. QED
  BY Invariant, <1>1, PTL

(* No table after a scan's first is published with another's projection.     *)
THEOREM OwnProjection == Safe => []LaterTablesUseOwnProjection
<1>1. IInv => LaterTablesUseOwnProjection
  BY DEF IInv
<1>2. QED
  BY Invariant, <1>1, PTL

-----------------------------------------------------------------------------
(* What a Stop leaves behind when its join runs to the end.  Whoever starts  *)
(* a thread has taken the lock before, and with it ended the quiet.          *)
QuietInv ==
  /\ clientPc = "stopPublish" => ~AnyAlive
  /\ quiet => publishedTable = NoTable /\ ~AnyAlive /\ ~WorkerHoldsLock

LEMMA QuietStep ==
  ASSUME ~JoinMayTimeOut, IInv, QuietInv, [Next]_vars
  PROVE  QuietInv'
<1> USE DEF QuietInv, WorkerHoldsLock
<1>1. CASE Client
  <2>1. AnyAlive' <=> AnyAlive
    BY <1>1, ClientEffect DEF AnyAlive, Alive, threadVars, IInv
  <2>2. CASE StopJoins
    <3>1. ~CurrentAlive /\ UNCHANGED <<quiet, publishedTable, workerPc>>
      BY <2>2 DEF StopJoins, JoinReturns, signalVars, workerVars, historyVars
    <3>2. ~AnyAlive
      BY <3>1 DEF AnyAlive, IInv, OneTrackThread, CurrentAlive, Requests
    <3> QED BY <2>1, <3>1, <3>2
  <2>3. CASE StopPublishes
    <3>1. clientPc = "stopPublish" /\ clientPc' = "idle" /\ publishedTable' = NoTable
          /\ UNCHANGED workerPc
      BY <2>3 DEF StopPublishes, ClientSteps, workerVars
    <3>2. ~WorkerHoldsLock
      BY <3>1 DEF IInv, LockInv, ClientHoldsLock
    <3> QED BY <2>1, <3>1, <3>2
  <2>4. CASE ~StopJoins /\ ~StopPublishes
    <3>1. UNCHANGED <<quiet, publishedTable, workerPc>>
          /\ (clientPc' = "stopPublish" => clientPc = "stopPublish")
      BY <1>1, <2>4
         DEF Client, ClientCall, WriteTargetData, SubmitGenerate, StopCalled, CleanupCalled, StopSignals,
             StopRaises, CleanupSignals, CleanupJoins, CleanupEnds, ClientSteps, signalVars, workerVars,
             historyVars
    <3> QED BY <2>1, <3>1
  <2> QED BY <2>2, <2>3, <2>4
<1>2. CASE GenerateTaken
  BY <1>2 DEF GenerateTaken, WorkerSteps, signalVars, threadVars, historyVars, AnyAlive, Alive
<1>3. CASE Generate
  <2>1. CASE GenerateLocks
    <3>1. /\ ~quiet' /\ UNCHANGED <<clientPc, threadPc>>
      BY <2>1 DEF GenerateLocks, threadVars
    <3> QED BY <3>1 DEF AnyAlive, Alive
  <2>2. CASE StartThread
    <3>1. workerPc = "start" /\ UNCHANGED <<clientPc, quiet>>
      BY <2>2 DEF StartThread, WorkerSteps, GenerateReturns, historyVars
    <3>2. ~quiet /\ clientPc # "stopPublish"
      BY <3>1 DEF IInv, LockInv, ClientHoldsLock
    <3> QED BY <3>1, <3>2
  <2>3. CASE ~GenerateLocks /\ ~StartThread
    <3>1. /\ UNCHANGED <<clientPc, quiet, publishedTable, threadPc>>
          /\ WorkerHoldsLock' => WorkerHoldsLock
      BY <1>3, <2>3
         DEF Generate, BuildAndProject, SetTrajectory, JoinOldThread, StartRaises, SkipThread,
             GenerateFails, ErrorPublished, ErrorRaises, Report, GenerateReturns, FailureReturned,
             WorkerSteps, RefusesTarget, signalVars, threadVars, historyVars
    <3> QED BY <3>1 DEF AnyAlive, Alive
  <2> QED BY <2>1, <2>2, <2>3
<1>4. ASSUME NEW g \in Requests, TrackThread(g) PROVE QuietInv'
  <2>1. AnyAlive /\ UNCHANGED <<clientPc, quiet>>
    BY <1>4, ThreadEffect DEF IInv, AnyAlive, LeavesOthers, historyVars
  <2> QED BY <2>1
<1>5. CASE UNCHANGED vars
  BY <1>5 DEF vars, signalVars, workerVars, threadVars, historyVars, AnyAlive, Alive
<1> QED BY <1>1, <1>2, <1>3, <1>4, <1>5 DEF Next, Deleted

(* Without join timeouts nothing replaces the empty table a Stop published,  *)
(* until Generate runs again.                                                *)
THEOREM StopIsFinal ==
  ASSUME ~JoinMayTimeOut
  PROVE  Safe => []StopQuiesces
<1>1. Init => QuietInv
  BY DEF Init, QuietInv
<1>2. IInv /\ QuietInv /\ [Next]_vars => QuietInv'
  BY QuietStep
<1>3. QuietInv => StopQuiesces
  BY DEF QuietInv, StopQuiesces
<1> QED BY Invariant, <1>1, <1>2, <1>3, PTL DEF Safe

-----------------------------------------------------------------------------
(* A request that has not been reported has no result; one whose do() failed *)
(* has published the error, or is about to be or was reported as FAILED.     *)
ReportInv ==
  /\ \A g \in Requests :
       g > taken \/ (g = taken /\ workerPc # "idle") => result[g] = "none"
  /\ \A g \in Requests : outcome[g] = "FAILED" =>
       \/ tableError
       \/ g = taken /\ workerPc = "reportError"
       \/ result[g] = "FAILED" /\ (g < taken \/ (g = taken /\ workerPc = "idle"))

LEMMA ReportStep ==
  ASSUME IInv, ReportInv, [Next]_vars
  PROVE  ReportInv'
<1> USE DEF ReportInv, workerVars, signalVars
<1>0. taken \in Nat /\ (workerPc # "idle" => taken \in Requests)
      /\ Requests \subseteq Nat
  BY DEF IInv, TypeOK, WorkerInv, Requests
<1>1. CASE Client
  BY <1>1
     DEF Client, ClientCall, WriteTargetData, SubmitGenerate, StopCalled, CleanupCalled, StopSignals,
         StopJoins, StopPublishes, StopRaises, CleanupSignals, CleanupJoins, CleanupEnds
<1>2. CASE GenerateTaken
  <2>1. workerPc = "idle" /\ workerPc' = "lock" /\ taken' = taken + 1
        /\ UNCHANGED <<result, outcome, tableError>>
    BY <1>2 DEF GenerateTaken, WorkerSteps
  <2> QED BY <1>0, <2>1
<1>3. CASE Generate
  <2>1. CASE GenerateLocks \/ BuildAndProject \/ SetTrajectory \/ JoinOldThread
    <3>1. /\ workerPc \notin {"idle", "reportError"} /\ workerPc' # "idle"
          /\ UNCHANGED <<taken, result, outcome, tableError>>
      BY <2>1 DEF GenerateLocks, BuildAndProject, SetTrajectory, JoinOldThread, WorkerSteps, JoinOrStart
    <3> QED BY <1>0, <3>1
  <2>2. CASE StartThread \/ StartRaises \/ SkipThread
    <3>1. /\ workerPc = "start" /\ workerPc' = "report" /\ outcome' = [outcome EXCEPT ![taken] = "OK"]
          /\ UNCHANGED <<taken, result, tableError>>
      BY <2>2 DEF StartThread, StartRaises, SkipThread, GenerateReturns, WorkerSteps
    <3> QED BY <1>0, <3>1 DEF IInv, TypeOK
  <2>6. CASE GenerateFails
    <3>1. /\ workerPc \notin {"idle", "reportError"} /\ workerPc' # "idle"
          /\ UNCHANGED <<taken, result, outcome, tableError>>
      BY <2>6 DEF GenerateFails, RefusesTarget
    <3> QED BY <1>0, <3>1
  <2>3. CASE ErrorPublished
    <3>1. /\ workerPc # "idle" /\ workerPc' # "idle" /\ tableError' = TRUE /\ UNCHANGED <<taken, result>>
      BY <2>3 DEF ErrorPublished, PublishError, FailureReturned, WorkerSteps
    <3> QED BY <3>1
  <2>4. CASE ErrorRaises
    <3>1. /\ workerPc = "error" /\ workerPc' = "reportError"
          /\ outcome' = [outcome EXCEPT ![taken] = "FAILED"]
          /\ UNCHANGED <<taken, result, tableError>>
      BY <2>4 DEF ErrorRaises, FailureReturned, WorkerSteps
    <3>2. \A g \in Requests \ {taken} : outcome'[g] = outcome[g]
      BY <3>1 DEF IInv, TypeOK
    <3> QED BY <1>0, <3>1, <3>2
  <2>5. CASE Report
    <3>1. /\ workerPc \in {"report", "reportError"} /\ workerPc' = "idle"
          /\ result' = [result EXCEPT ![taken] = IF workerPc = "report" THEN "OK" ELSE "FAILED"]
          /\ UNCHANGED <<taken, outcome, tableError>>
      BY <2>5 DEF Report
    <3>2. /\ \A g \in Requests \ {taken} : result'[g] = result[g]
          /\ workerPc = "reportError" => result'[taken] = "FAILED"
      BY <1>0, <3>1 DEF IInv, TypeOK
    <3> QED BY <1>0, <3>1, <3>2
  <2> QED BY <1>3, <2>1, <2>2, <2>3, <2>4, <2>5, <2>6 DEF Generate
<1>4. ASSUME NEW g \in Requests, TrackThread(g) PROVE ReportInv'
  <2>1. UNCHANGED tableError \/ tableError' = TRUE
    BY <1>4
       DEF TrackThread, CalculateEntry, FirstTableReady, FirstTableEmpty, CalculationStops, TestEvent,
           CalculationEnds, AddTable, DropTable, RunEnds, Drain, PublishTable, PublishRaises
  <2>2. UNCHANGED <<taken, workerPc, result, outcome>>
    BY <1>4, ThreadEffect DEF LeavesOthers, IInv
  <2>3. CASE UNCHANGED tableError
    BY <2>2, <2>3
  <2>4. CASE tableError' = TRUE
    BY <2>2, <2>4
  <2> QED BY <2>1, <2>3, <2>4
<1>5. CASE UNCHANGED vars
  BY <1>5 DEF vars
<1> QED BY <1>1, <1>2, <1>3, <1>4, <1>5 DEF Next, Deleted

(* A failure of do(), whose return code nobody looks at, is still visible:   *)
(* in the result or as programTrackTableError.                               *)
THEOREM FailureShows == Safe => []FailureIsVisible
<1>1. Init => ReportInv
  BY DEF Init, ReportInv, Requests
<1>2. IInv /\ ReportInv /\ [Next]_vars => ReportInv'
  BY ReportStep
<1>3. IInv /\ ReportInv => FailureIsVisible
  BY DEF ReportInv, FailureIsVisible, IInv, TypeOK
<1> QED BY Invariant, <1>1, <1>2, <1>3, PTL DEF Safe

-----------------------------------------------------------------------------
(* While publishing never fails, the flag is set only inside Stop's block,   *)
(* so the worker, inside its own, never finds it set.                        *)
StartedInv ==
  /\ stopTrackCalled => clientPc \in {"stopJoin", "stopPublish"}
  /\ OKMeansStarted

LEMMA StartedStep ==
  ASSUME ~PublishMayFail, ~StartMayFail, IInv, StartedInv, [Next]_vars
  PROVE  StartedInv'
<1> USE DEF StartedInv, OKMeansStarted, managerVars, workerVars, threadVars
<1>1. CASE Client
  BY <1>1
     DEF Client, ClientCall, WriteTargetData, SubmitGenerate, StopCalled, CleanupCalled, StopSignals,
         StopJoins, StopPublishes, StopRaises, CleanupSignals, CleanupJoins, CleanupEnds, ClientSteps,
         ClearStopFlag
<1>2. CASE GenerateTaken
  BY <1>2 DEF GenerateTaken
<1>3. CASE Generate
  <2>1. CASE GenerateLocks \/ BuildAndProject \/ SetTrajectory \/ JoinOldThread \/ GenerateFails
             \/ Report
    <3>1. UNCHANGED <<clientPc, outcome, threadPc>> /\ (stopTrackCalled' => stopTrackCalled)
      BY <2>1 DEF GenerateLocks, BuildAndProject, SetTrajectory, JoinOldThread, GenerateFails, Report
    <3> QED BY <3>1
  <2>2. CASE StartThread
    <3>1. /\ outcome' = [outcome EXCEPT ![taken] = "OK"]
          /\ threadPc' = [threadPc EXCEPT ![taken] = "firstCalc"]
          /\ UNCHANGED <<stopTrackCalled, clientPc>>
      BY <2>2 DEF StartThread, GenerateReturns
    <3> QED BY <3>1 DEF IInv, TypeOK
  <2>3. ~SkipThread
    BY DEF SkipThread, WorkerSteps, IInv, LockInv, WorkerHoldsLock, ClientHoldsLock
  <2>4. CASE ErrorPublished \/ ErrorRaises
    <3>1. /\ outcome' = [outcome EXCEPT ![taken] = "FAILED"]
          /\ UNCHANGED <<stopTrackCalled, clientPc, threadPc>>
      BY <2>4 DEF ErrorPublished, ErrorRaises, FailureReturned
    <3> QED BY <3>1 DEF IInv, TypeOK
  <2> QED BY <1>3, <2>1, <2>2, <2>3, <2>4 DEF Generate, StartRaises
<1>4. ASSUME NEW g \in Requests, TrackThread(g) PROVE StartedInv'
  <2>1. UNCHANGED <<stopTrackCalled, clientPc, outcome>>
        /\ \A h \in Requests : threadPc'[h] = "new" => threadPc[h] = "new"
    BY <1>4, ThreadEffect DEF LeavesOthers, IInv
  <2> QED BY <2>1
<1>5. CASE UNCHANGED vars
  BY <1>5 DEF vars
<1> QED BY <1>1, <1>2, <1>3, <1>4, <1>5 DEF Next, Deleted

(* While neither publishing nor starting a thread fails, a Generate that     *)
(* returned OK has started its thread.                                       *)
THEOREM OKHasStarted ==
  ASSUME ~PublishMayFail, ~StartMayFail
  PROVE  Safe => []OKMeansStarted
<1>1. Init => StartedInv
  BY DEF Init, StartedInv, OKMeansStarted
<1>2. IInv /\ StartedInv /\ [Next]_vars => StartedInv'
  BY StartedStep
<1>3. StartedInv => OKMeansStarted
  BY DEF StartedInv
<1> QED BY Invariant, <1>1, <1>2, <1>3, PTL DEF Safe

-----------------------------------------------------------------------------
(* The refinement: every step is a step of TrackingSession or a stutter.     *)

(* A client call halts the session, or clears the table of one that is not   *)
(* on.                                                                       *)
LEMMA ClientImplements ==
  IInv /\ Client => [Session!Next]_(Session!sessionVars)
<1> SUFFICES ASSUME IInv, Client
             PROVE  [Session!Next]_(Session!sessionVars)
  OBVIOUS
<1> USE DEF Session!sessionVars, Session!Next, SessionPhase
<1>1. CASE StopPublishes
  <2>1. SessionPhase # "on"
    BY <1>1 DEF IInv, EventInv, ClientHoldsLock, StopPublishes, ClientSteps
  <2>2. /\ UNCHANGED <<mappingScanEvent, trackTableThread, threadPc>>
        /\ publishedTable' = NoTable
    BY <1>1 DEF StopPublishes, threadVars
  <2>3. CurrentAlive' <=> CurrentAlive
    BY <2>2 DEF CurrentAlive, Alive
  <2>4. Session!Clear
    BY <2>1, <2>2, <2>3 DEF Session!Clear, NoTable
  <2>5. QED
    BY <2>4
<1>2. CASE ~StopPublishes
  <2>1. /\ UNCHANGED <<trackTableThread, threadPc, publishedTable>>
        /\ mappingScanEvent' \in {mappingScanEvent, TRUE}
    BY <1>2 DEF Client, ClientCall, WriteTargetData, SubmitGenerate, StopCalled,
         CleanupCalled, StopSignals, StopJoins, StopRaises, CleanupSignals,
         CleanupJoins, CleanupEnds, managerVars, signalVars, threadVars
  <2>2. CurrentAlive' <=> CurrentAlive
    BY <2>1 DEF CurrentAlive, Alive
  <2>3. CASE SessionPhase' = SessionPhase
    BY <2>1, <2>3
  <2>4. CASE SessionPhase' # SessionPhase
    <3>1. CurrentAlive /\ ~mappingScanEvent /\ mappingScanEvent' = TRUE
      <4>1. mappingScanEvent \in BOOLEAN /\ mappingScanEvent' \in BOOLEAN
        BY <2>1 DEF IInv, TypeOK
      <4>2. mappingScanEvent' # mappingScanEvent
        BY <2>2, <2>4
      <4>3. QED
        BY <2>1, <2>2, <2>4, <4>1, <4>2
    <3>2. Session!Halt
      BY <2>1, <2>2, <3>1 DEF Session!Halt
    <3>3. QED
      BY <3>2
  <2>5. QED
    BY <2>3, <2>4
<1>3. QED
  BY <1>1, <1>2

(* Generate halts the old session and begins the new one once the old thread *)
(* is gone.                                                                  *)
LEMMA GenerateImplements ==
  IInv /\ (GenerateTaken \/ Generate) => [Session!Next]_(Session!sessionVars)
<1> SUFFICES ASSUME IInv, GenerateTaken \/ Generate
             PROVE  [Session!Next]_(Session!sessionVars)
  OBVIOUS
<1> USE DEF Session!sessionVars, Session!Next, SessionPhase
<1>1. CASE StartThread
  <2>1. /\ ~CurrentAlive
        /\ taken \in Requests /\ trackTableThread \in Nat
        /\ trackTableThread < taken
    BY <1>1 DEF IInv, TypeOK, WorkerInv, WorkerHoldsLock, StartThread,
                WorkerSteps, Requests
  <2>2. /\ trackTableThread' = taken /\ mappingScanEvent' = FALSE
        /\ threadPc'[taken] = "firstCalc"
        /\ UNCHANGED publishedTable
    BY <1>1, <2>1 DEF StartThread, GenerateReturns, IInv, TypeOK
  <2>3. CurrentAlive' = TRUE
    BY <2>1, <2>2 DEF CurrentAlive, Alive, Requests
  <2>4. Session!Begin
    BY <2>1, <2>2, <2>3 DEF Session!Begin, Requests
  <2>5. QED
    BY <2>4
<1>4. CASE StartRaises
  <2>1. /\ ~CurrentAlive
        /\ trackTableThread \in Nat /\ taken \in Nat /\ trackTableThread < taken
        /\ threadPc[taken] = "new"
    BY <1>4 DEF IInv, TypeOK, WorkerInv, WorkerHoldsLock, StartRaises, WorkerSteps
  <2>2. trackTableThread' = taken /\ UNCHANGED <<threadPc, publishedTable>>
    BY <1>4 DEF StartRaises, GenerateReturns, threadVars
  <2>3. ~CurrentAlive'
    BY <2>1, <2>2 DEF CurrentAlive, Alive
  <2>4. Session!BeginFails
    BY <2>1, <2>2, <2>3 DEF Session!BeginFails
  <2>5. QED
    BY <2>4
<1>2. CASE ~StartThread /\ ~StartRaises
  <2>1. /\ UNCHANGED <<trackTableThread, threadPc, publishedTable>>
        /\ mappingScanEvent' \in {mappingScanEvent, TRUE}
    BY <1>2 DEF GenerateTaken, Generate, GenerateLocks, BuildAndProject,
         SetTrajectory, JoinOldThread, SkipThread, GenerateFails,
         ErrorPublished, ErrorRaises, Report, GenerateReturns, FailureReturned,
         managerVars, signalVars, threadVars
  <2>2. CurrentAlive' <=> CurrentAlive
    BY <2>1 DEF CurrentAlive, Alive
  <2>3. CASE SessionPhase' = SessionPhase
    BY <2>1, <2>3
  <2>4. CASE SessionPhase' # SessionPhase
    <3>1. CurrentAlive /\ ~mappingScanEvent /\ mappingScanEvent' = TRUE
      <4>1. mappingScanEvent \in BOOLEAN /\ mappingScanEvent' \in BOOLEAN
        BY <2>1 DEF IInv, TypeOK
      <4>2. mappingScanEvent' # mappingScanEvent
        BY <2>2, <2>4
      <4>3. QED
        BY <2>1, <2>2, <2>4, <4>1, <4>2
    <3>2. Session!Halt
      BY <2>1, <2>2, <3>1 DEF Session!Halt
    <3>3. QED
      BY <3>2
  <2>5. QED
    BY <2>3, <2>4
<1>3. QED
  BY <1>1, <1>2, <1>4

(* A thread shows a table of the session in progress, or ends it.            *)
LEMMA ThreadImplements ==
  ASSUME IInv, NEW g \in Requests, TrackThread(g)
  PROVE  [Session!Next]_(Session!sessionVars)
<1> USE DEF Session!sessionVars, Session!Next, SessionPhase
<1>1. /\ UNCHANGED <<trackTableThread, mappingScanEvent>>
      /\ g = trackTableThread /\ g # 0
      /\ CurrentAlive
  BY ThreadEffect DEF IInv, OneTrackThread, LeavesOthers, managerVars,
     CurrentAlive, Requests
<1>2. CASE PublishTable(g)
  <2>1. CurrentAlive' <=> CurrentAlive
    BY <1>1, <1>2 DEF CurrentAlive, Alive, PublishTable
  <2>2. publishedTable.gen' = trackTableThread
    BY <1>1, <1>2 DEF PublishTable, Published
  <2>3. Session!Show
    BY <1>1, <2>1, <2>2 DEF Session!Show
  <2>4. QED
    BY <2>3
<1>3. CASE ~PublishTable(g)
  <2>1. UNCHANGED publishedTable
    BY <1>3 DEF TrackThread, CalculateEntry, FirstTableReady, FirstTableEmpty,
         CalculationStops, TestEvent, CalculationEnds, AddTable, DropTable,
         RunEnds, Drain, PublishRaises, signalVars
  <2>2. CASE CurrentAlive'
    BY <1>1, <2>1, <2>2
  <2>3. CASE ~CurrentAlive'
    BY <1>1, <2>1, <2>3 DEF Session!End
  <2>4. QED
    BY <2>2, <2>3
<1>4. QED
  BY <1>2, <1>3

(* Every step is one of the abstract session, or none.                       *)
LEMMA SessionStep == IInv /\ [Next]_vars => [Session!Next]_(Session!sessionVars)
<1> SUFFICES ASSUME IInv, [Next]_vars
             PROVE  [Session!Next]_(Session!sessionVars)
  OBVIOUS
<1>1. CASE UNCHANGED vars
  BY <1>1 DEF vars, managerVars, signalVars, threadVars, SessionPhase,
              CurrentAlive, Alive, Session!sessionVars
<1>2. CASE Next
  BY <1>1, <1>2, ClientImplements, GenerateImplements, ThreadImplements DEF Next, Deleted
<1> QED BY <1>1, <1>2

(* The pointing device implements TrackingSession: sessions one after the    *)
(* other, none resumed once told to halt, no table of a superseded session.  *)
THEOREM Refinement == Safe => ImplementsSession
<1>1. Init => Session!Init
  BY DEF Init, Session!Init, SessionPhase, CurrentAlive, NoTable
<1>2. QED
  BY Invariant, <1>1, SessionStep, PTL DEF Safe, ImplementsSession, Session!Spec

-----------------------------------------------------------------------------
(* What subscribers and Stop may rely on, from the abstract session alone.   *)

(* A table that is newly shown is of the session that began last, and        *)
(* sessions only count up: no table of an earlier session is shown after one *)
(* of a later, whether the table was cleared in between or not.              *)
TablesMoveOn ==
  [][/\ trackTableThread' >= trackTableThread
     /\ publishedTable'.gen \in {0, publishedTable.gen, trackTableThread}]_vars

(* A session that was told to halt ends: mapping_scan_event is never cleared *)
(* under a thread that runs.                                                 *)
NeverResumed ==
  [][CurrentAlive /\ mappingScanEvent => ~CurrentAlive' \/ mappingScanEvent']_vars

(* What is shown never runs ahead of the sessions.                           *)
ShownIsPast ==
  trackTableThread \in Nat /\ publishedTable.gen \in Nat /\ publishedTable.gen <= trackTableThread

LEMMA ShownStays == ShownIsPast /\ [Session!Next]_(Session!sessionVars) => ShownIsPast'
  BY DEF ShownIsPast, Session!Next, Session!sessionVars, Session!Begin, Session!BeginFails, Session!Halt, Session!End,
         Session!Show, Session!Clear

LEMMA AlwaysPast == Safe => [](IInv /\ ShownIsPast)
<1>1. Init => ShownIsPast
  BY DEF Init, ShownIsPast, NoTable
<1> QED BY <1>1, Invariant, SessionStep, ShownStays, PTL DEF Safe

(* Tables are shown in the order of the Generates they belong to.            *)
THEOREM SessionsInOrder == Safe => TablesMoveOn
<1>1. ShownIsPast /\ [Session!Next]_(Session!sessionVars) =>
        /\ trackTableThread' >= trackTableThread
        /\ publishedTable'.gen \in {0, publishedTable.gen, trackTableThread}
  BY DEF ShownIsPast, Session!Next, Session!sessionVars, Session!Begin, Session!BeginFails, Session!Halt, Session!End,
         Session!Show, Session!Clear
<1>2. IInv /\ ShownIsPast /\ [Next]_vars =>
        [/\ trackTableThread' >= trackTableThread
         /\ publishedTable'.gen \in {0, publishedTable.gen, trackTableThread}]_vars
  BY <1>1, SessionStep
<1> QED BY <1>2, AlwaysPast, PTL DEF Safe, TablesMoveOn

(* A Generate that replaces a thread waits for its end before it clears the  *)
(* event: the old thread cannot miss it and run on.                          *)
THEOREM HaltIsFinal == Safe => NeverResumed
<1>1. [Session!Next]_(Session!sessionVars) /\ SessionPhase = "halting" => SessionPhase' \in {"halting", "off"}
  BY DEF Session!Next, Session!sessionVars, Session!Begin, Session!BeginFails, Session!Halt, Session!End,
         Session!Show, Session!Clear
<1>2. CurrentAlive /\ mappingScanEvent => SessionPhase = "halting"
  BY DEF SessionPhase
<1>3. SessionPhase' \in {"halting", "off"} => ~CurrentAlive' \/ mappingScanEvent'
  BY DEF SessionPhase
<1>4. IInv /\ [Next]_vars => [CurrentAlive /\ mappingScanEvent => ~CurrentAlive' \/ mappingScanEvent']_vars
  BY <1>1, <1>2, <1>3, SessionStep
<1> QED BY <1>4, Invariant, PTL DEF Safe, NeverResumed
=============================================================================
