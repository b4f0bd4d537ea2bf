---------------------- MODULE PointingDeviceProperties ----------------------
(***************************************************************************)
(* What must hold of PointingDevice.                                       *)
(***************************************************************************)
EXTENDS PointingDevice

(* Every variable keeps to its range, and the worker takes no request that   *)
(* was not queued.                                                           *)
TypeOK ==
  /\ targetData \in Targets
  /\ projectionOwner \in 0..MaxGenerate
  /\ lockOwner \in {"free", "client", "worker"}
  /\ mappingScanEvent \in BOOLEAN
  /\ stopTrackCalled \in BOOLEAN
  /\ trackTableThread \in 0..MaxGenerate
  /\ publishedTable \in [gen : 0..MaxGenerate, first : BOOLEAN, own : BOOLEAN]
  /\ tableError \in BOOLEAN
  /\ submitted \in 0..MaxGenerate
  /\ taken \in 0..submitted
  /\ workerPc \in {"idle", "lock", "build", "trajectory", "join", "start",
                   "error", "report", "reportError"}
  /\ outcome \in [Requests -> Returned]
  /\ result \in [Requests -> Returned]
  /\ clientPc \in {"idle", "stopLock", "stopJoin", "stopPublish",
                   "cleanupLock", "cleanupJoin", "cleanupEvent", "off"}
  /\ threadPc \in [Requests -> ThreadStates]
  /\ building \in [Requests -> {"none", "own", "mixed"}]
  /\ scheduled \in [Requests -> Seq(Tables)]
  /\ quiet \in BOOLEAN
  /\ stopped \in 0..MaxGenerate

(* At most one track thread runs, and it is the one the manager can still    *)
(* signal and join: Stop's join gives up after 2.8 s and Generate replaces   *)
(* the reference, yet no thread is ever left behind unreferenced             *)
(* (start_track_table_calculation, StopProgramTrackTable.do).                *)
OneTrackThread == \A g \in Requests : Alive(g) => g = trackTableThread

(* The projection lives in the component manager and a new Generate          *)
(* overwrites it while the old thread still calculates; the event check      *)
(* before a table is scheduled keeps every table but a scan's first from     *)
(* being published with another scan's projection (track_thread).            *)
LaterTablesUseOwnProjection == publishedTable.first \/ publishedTable.own

(* A Generate whose do() failed is not silent: either its result or          *)
(* programTrackTableError tells.                                             *)
FailureIsVisible ==
  \A g \in Requests :
    outcome[g] = "FAILED" /\ result[g] # "none"
      => result[g] = "FAILED" \/ tableError

(* The subscriber's view: sessions one after the other, no resumed session,  *)
(* no table of a superseded session.                                         *)
SessionPhase ==
  IF ~CurrentAlive THEN "off"
  ELSE IF mappingScanEvent THEN "halting" ELSE "on"

Session == INSTANCE TrackingSession WITH
  phase   <- SessionPhase,
  session <- trackTableThread,
  shown   <- publishedTable.gen

ImplementsSession == Session!Spec

(* Without join timeouts, a Stop that returned leaves the empty table        *)
(* published and no thread that could replace it, until Generate runs again  *)
(* (StopProgramTrackTable.do).                                               *)
StopQuiesces == quiet => publishedTable = NoTable /\ ~AnyAlive

(* stop_track_called is seen set only by the holder of the lock that set it, *)
(* so no Generate that returned OK left its thread unstarted, as long as     *)
(* neither publishing nor starting a thread raises: the latter do() swallows *)
(* (start_track_table_calculation).                                          *)
OKMeansStarted ==
  \A g \in Requests : outcome[g] = "OK" => threadPc[g] # "new"

(* A client that calls Stop or deletes the device gets an answer: neither    *)
(* the lock nor the join blocks it for good.                                 *)
ClientCallReturns == clientPc # "idle" ~> clientPc \in {"idle", "off"}

(* Every request that is queued is reported, unless the device is deleted.   *)
GenerateReported ==
  \A g \in Requests : submitted >= g ~> result[g] # "none" \/ clientPc = "off"

(* The check of stop_track_called is there for the "edge case where          *)
(* tracktable start and stop are running parallely": no thread starts for a  *)
(* request that was already queued when a Stop returned.                     *)
StopCoversQueuedGenerate ==
  [][\A g \in Requests : g <= stopped /\ threadPc[g] = "new"
                           => threadPc'[g] = "new"]_vars
-----------------------------------------------------------------------------
(* The inductive invariant behind OneTrackThread,                            *)
(* LaterTablesUseOwnProjection and ImplementsSession.                        *)

WorkerHoldsLock == workerPc \in {"build", "trajectory", "join", "start"}
ClientHoldsLock == clientPc \in {"stopJoin", "stopPublish", "cleanupJoin"}

(* track_thread_lock is held by whoever is inside a with block.              *)
LockInv ==
  /\ WorkerHoldsLock <=> lockOwner = "worker"
  /\ ClientHoldsLock <=> lockOwner = "client"

(* The event stays set from the moment a lock holder sets it.                *)
EventInv == WorkerHoldsLock \/ ClientHoldsLock => mappingScanEvent

(* The request in progress has no thread yet, later ones neither, and the    *)
(* new thread is only started when the old one is gone.                      *)
WorkerInv ==
  /\ trackTableThread <= taken
  /\ \A g \in Requests : g > taken => threadPc[g] = "new"
  /\ workerPc # "idle" => taken # 0
  /\ workerPc = "lock" \/ WorkerHoldsLock
       => trackTableThread < taken /\ threadPc[taken] = "new"
  /\ workerPc = "start" => ~CurrentAlive

(* The manager holds another scan's projection only once the running thread  *)
(* has been told to stop.                                                    *)
ProjectionInv ==
  /\ workerPc \in {"trajectory", "join", "start"} => projectionOwner = taken
  /\ \A g \in Requests :
       /\ Alive(g) /\ ~mappingScanEvent => projectionOwner = g
       /\ threadPc[g] = "add" => building[g] # "none"
       /\ threadPc[g] \in {"calc", "add"} /\ building[g] = "mixed"
            => mappingScanEvent

(* What a scheduler holds, and so what is published, after the first table.  *)
OwnTables == {t \in Tables : t.first \/ t.own}
ScheduledInv == \A g \in Requests : scheduled[g] \in Seq(OwnTables)

IInv ==
  /\ TypeOK
  /\ LockInv
  /\ EventInv
  /\ WorkerInv
  /\ OneTrackThread
  /\ ProjectionInv
  /\ ScheduledInv
  /\ LaterTablesUseOwnProjection
=============================================================================
