------------------------ MODULE LeafNodeCommandsProofs ------------------------
(* Theorems about LeafNodeCommands, for every number of commands and Aborts, *)
(* every choice of kinds and of the states the dish goes to.                 *)
EXTENDS LeafNodeCommandsProperties, TLAPS

(* The steps between a command's begin and its end.                          *)
ActiveSteps == {"adapter", "call", "callStop", "stopTables", "wait",
                "callStandby", "callFP", "waitFP", "callLP", "waitLP",
                "conclude"}

(* A command that waits or runs is of some kind.                             *)
KindKnown == \A c \in Commands : pc[c] \in ActiveSteps \cup {"queued"} => kind[c] \in Kinds

(* A command that waits for the worker is in the queue.                      *)
WaitsInQueue == \A c \in Commands : pc[c] = "queued" => \E i \in 1..Len(queue) : queue[i] = c

(* What an Abort found and what is not over waits or runs.                   *)
BeforePending == \A a \in Aborts : \A c \in before[a] : pc[c] \in ActiveSteps \cup {"queued"}

Inv == TypeOK /\ KindKnown /\ WaitsInQueue /\ BeforePending /\ NothingOutlivesAbort

(* All but the types.                                                        *)
Pending == KindKnown /\ WaitsInQueue /\ BeforePending /\ NothingOutlivesAbort

-----------------------------------------------------------------------------
LEMMA ActiveIs ==
  ASSUME TypeOK, NEW c \in Commands
  PROVE  Active(c) <=> pc[c] \in ActiveSteps
  BY DEF TypeOK, Active, ActiveSteps

(* Every do() begins with one of the calls.                                  *)
LEMMA FirstStepIs ==
  ASSUME KindKnown, NEW c \in Commands, pc[c] = "adapter"
  PROVE  FirstStep(c) \in {"call", "callStop", "callStandby", "callFP", "callLP"}
<1>1. kind[c] \in DOMAIN Command
  BY CommandsAssumption DEF KindKnown, ActiveSteps
<1>2. \A k \in DOMAIN Command : Command[k].first \in {"call", "callStop", "callStandby", "callFP"}
  BY DEF Command, Scan, EndScan, TrackLoadStaticOff, ConfigureBand, Track, TrackStop, Off,
         SetStandbyFPMode, SetStandbyLPMode, Waiting
<1> QED BY <1>1, <1>2 DEF FirstStep

-----------------------------------------------------------------------------
(* A step between two steps of do() ends nothing and queues nothing.         *)
LEMMA RunsOn ==
  ASSUME Inv, NEW c \in Commands, NEW from \in ActiveSteps, NEW to \in ActiveSteps,
         CommandSteps(c, from, to), UNCHANGED <<queue, kind, before>>
  PROVE  Pending'
<1> USE DEF CommandSteps
<1>1. \A d \in Commands : \/ pc'[d] = pc[d]
                          \/ d = c /\ pc[d] = from /\ pc'[d] = to
  BY DEF Inv, TypeOK
<1>2. KindKnown'
  BY <1>1 DEF Inv, KindKnown
<1>3. WaitsInQueue'
  BY <1>1 DEF Inv, WaitsInQueue, ActiveSteps
<1>4. BeforePending'
  BY <1>1 DEF Inv, TypeOK, BeforePending
<1>5. NothingOutlivesAbort'
  BY DEF Inv, NothingOutlivesAbort
<1> QED BY <1>2, <1>3, <1>4, <1>5 DEF Pending

(* The two commonest of them.                                                *)
LEMMA ProceedsInv ==
  ASSUME Inv, NEW c \in Commands, NEW from \in ActiveSteps, NEW to \in ActiveSteps,
         Proceeds(c, from, to)
  PROVE  Inv'
<1>1. Pending'
  BY RunsOn DEF Proceeds
<1>2. TypeOK'
  BY DEF Inv, TypeOK, Proceeds, CommandSteps, ActiveSteps
<1> QED BY <1>1, <1>2 DEF Inv, Pending

LEMMA DecidesInv ==
  ASSUME Inv, NEW c \in Commands, NEW from \in ActiveSteps, NEW to \in ActiveSteps,
         NEW code \in {"OK", "FAILED", "ABORTED"}, Decides(c, from, to, code)
  PROVE  Inv'
<1>1. Pending'
  BY RunsOn DEF Decides
<1>2. TypeOK'
  BY DEF Inv, TypeOK, Decides, CommandSteps, ActiveSteps
<1> QED BY <1>1, <1>2 DEF Inv, Pending

-----------------------------------------------------------------------------
(* What leaves the queue is its head; the others stay in it.                 *)
LEMMA TailKeeps ==
  ASSUME NEW q \in Seq(Commands), q # <<>>, NEW i \in 1..Len(q), q[i] # Head(q)
  PROVE  \E j \in 1..Len(Tail(q)) : Tail(q)[j] = q[i]
<1>1. i # 1
  OBVIOUS
<1>2. i - 1 \in 1..Len(Tail(q)) /\ Tail(q)[i - 1] = q[i]
  BY <1>1
<1> QED BY <1>2

LEMMA TakenQueue ==
  ASSUME Inv, NEW c \in Commands, NEW to \in ActiveSteps \cup {"done", "dropped"}, Taken(c, to)
  PROVE  /\ queue' \in Seq(Commands)
         /\ WaitsInQueue'
         /\ pc[c] = "queued"
         /\ \A d \in Commands : \/ d # c /\ pc'[d] = pc[d]
                                \/ d = c /\ pc'[d] = to
<1> USE DEF Taken, CommandSteps
<1>1. queue \in Seq(Commands) /\ queue # <<>> /\ queue' = Tail(queue)
  BY DEF Inv, TypeOK
<1>2. queue' \in Seq(Commands)
  BY <1>1
<1>3. pc[c] = "queued" /\ \A d \in Commands : \/ d # c /\ pc'[d] = pc[d]
                                              \/ d = c /\ pc'[d] = to
  BY DEF Inv, TypeOK
<1>4. WaitsInQueue'
  <2> SUFFICES ASSUME NEW d \in Commands, pc'[d] = "queued"
               PROVE  \E j \in 1..Len(queue') : queue'[j] = d
    BY DEF WaitsInQueue
  <2>1. d # c /\ pc[d] = "queued"
    BY <1>3 DEF ActiveSteps
  <2>2. PICK i \in 1..Len(queue) : queue[i] = d
    BY <2>1 DEF Inv, WaitsInQueue
  <2>3. queue[i] # Head(queue)
    BY <2>1, <2>2
  <2> QED BY <1>1, <2>2, <2>3, TailKeeps
<1> QED BY <1>2, <1>3, <1>4

(* A command that is over is forgotten by every Abort.                       *)
LEMMA ForgottenPending ==
  ASSUME Inv, NEW c \in Commands, Forgets(c), UNCHANGED abortPc,
         pc' \in [Commands -> {"dropped", "done"} \cup ActiveSteps \cup {"new", "queued"}],
         pc'[c] \in {"dropped", "done"},
         \A d \in Commands \ {c} : pc'[d] = pc[d]
  PROVE  KindKnown' /\ BeforePending' /\ NothingOutlivesAbort'
<1> USE DEF Forgets
<1>1. KindKnown'
  BY DEF Inv, TypeOK, KindKnown, ActiveSteps
<1>2. before' \in [Aborts -> SUBSET Commands] /\ \A a \in Aborts : before'[a] = before[a] \ {c}
  BY DEF Inv, TypeOK
<1>3. BeforePending'
  BY <1>2 DEF Inv, TypeOK, BeforePending
<1>4. NothingOutlivesAbort'
  BY <1>2 DEF Inv, NothingOutlivesAbort
<1> QED BY <1>1, <1>3, <1>4

-----------------------------------------------------------------------------
LEMMA SendingInv ==
  ASSUME Inv, NEW c \in Commands, NEW k \in Kinds, Sends(c, k) \/ SentInVain(c, k)
  PROVE  Inv'
<1> USE DEF CommandSteps
<1>1. CASE Sends(c, k)
  <2>1. queue \in Seq(Commands) /\ queue' = Append(queue, c)
    BY <1>1 DEF Sends, Inv, TypeOK
  <2>2. TypeOK'
    BY <1>1, <2>1 DEF Sends, Inv, TypeOK
  <2>3. pc[c] = "new" /\ \A d \in Commands : \/ d # c /\ pc'[d] = pc[d]
                                             \/ d = c /\ pc'[d] = "queued"
    BY <1>1 DEF Sends, Inv, TypeOK
  <2>4. KindKnown'
    BY <1>1, <2>3 DEF Sends, Inv, TypeOK, KindKnown
  <2>5. WaitsInQueue'
    <3> SUFFICES ASSUME NEW d \in Commands, pc'[d] = "queued"
                 PROVE  \E j \in 1..Len(queue') : queue'[j] = d
      BY DEF WaitsInQueue
    <3>1. CASE d = c
      BY <2>1, <3>1
    <3>2. CASE d # c
      <4>1. PICK i \in 1..Len(queue) : queue[i] = d
        BY <2>3, <3>2 DEF Inv, WaitsInQueue
      <4> QED BY <2>1, <4>1
    <3> QED BY <3>1, <3>2
  <2>6. BeforePending' /\ NothingOutlivesAbort'
    BY <1>1, <2>3 DEF Sends, Inv, TypeOK, BeforePending, NothingOutlivesAbort
  <2> QED BY <2>2, <2>4, <2>5, <2>6 DEF Inv
<1>2. CASE SentInVain(c, k)
  <2>1. TypeOK'
    BY <1>2 DEF SentInVain, Tells, Inv, TypeOK
  <2>2. pc[c] = "new" /\ \A d \in Commands : \/ d # c /\ pc'[d] = pc[d]
                                             \/ d = c /\ pc'[d] = "done"
    BY <1>2 DEF SentInVain, Inv, TypeOK
  <2>3. UNCHANGED <<queue, kind, before, abortPc>>
    BY <1>2 DEF SentInVain
  <2>4. KindKnown' /\ WaitsInQueue'
    BY <2>2, <2>3 DEF Inv, KindKnown, WaitsInQueue, ActiveSteps
  <2>5. BeforePending' /\ NothingOutlivesAbort'
    BY <2>2, <2>3 DEF Inv, TypeOK, BeforePending, NothingOutlivesAbort, ActiveSteps
  <2> QED BY <2>1, <2>4, <2>5 DEF Inv
<1> QED BY <1>1, <1>2

(* The steps that take a command from the queue, and the one that ends it.   *)
LEMMA TurnInv ==
  ASSUME Inv, NEW c \in Commands,
         TakenAborted(c) \/ NotAllowedAnyMore(c) \/ Dropped(c) \/ Begins(c) \/ Concludes(c)
  PROVE  Inv'
<1>1. CASE TakenAborted(c) \/ NotAllowedAnyMore(c)
  <2>1. Taken(c, "done") /\ Forgets(c)
    BY <1>1 DEF TakenAborted, NotAllowedAnyMore
  <2>2. TypeOK'
    BY <1>1, <2>1, TakenQueue
       DEF TakenAborted, NotAllowedAnyMore, Taken, CommandSteps, Forgets, Tells, Inv, TypeOK
  <2>3. Pending'
    BY <2>1, <2>2, TakenQueue, ForgottenPending DEF Taken, CommandSteps, Pending, TypeOK, ActiveSteps
  <2> QED BY <2>2, <2>3 DEF Inv, Pending
<1>2. CASE Dropped(c)
  <2>1. Taken(c, "dropped") /\ Forgets(c)
    BY <1>2 DEF Dropped
  <2>2. TypeOK'
    BY <1>2, <2>1, TakenQueue DEF Dropped, Taken, CommandSteps, Forgets, Inv, TypeOK
  <2>3. Pending'
    BY <2>1, <2>2, TakenQueue, ForgottenPending DEF Taken, CommandSteps, Pending, TypeOK, ActiveSteps
  <2> QED BY <2>2, <2>3 DEF Inv, Pending
<1>3. CASE Begins(c)
  <2>1. Taken(c, "adapter") /\ UNCHANGED <<kind, before, abortPc>> /\ "adapter" \in ActiveSteps
    BY <1>3 DEF Begins, Taken, CommandSteps, ActiveSteps
  <2>2. TypeOK'
    BY <1>3, <2>1, TakenQueue DEF Begins, Taken, CommandSteps, Tells, Inv, TypeOK
  <2>3. WaitsInQueue' /\ KindKnown'
    BY <2>1, TakenQueue DEF Inv, KindKnown
  <2>4. BeforePending' /\ NothingOutlivesAbort'
    BY <2>1, TakenQueue DEF Inv, TypeOK, BeforePending, NothingOutlivesAbort
  <2> QED BY <2>2, <2>3, <2>4 DEF Inv
<1>4. CASE Concludes(c)
  <2>1. CommandSteps(c, "conclude", "done") /\ Forgets(c) /\ UNCHANGED queue
    BY <1>4 DEF Concludes
  <2>2. TypeOK'
    BY <1>4 DEF Concludes, CommandSteps, Forgets, Tells, Inv, TypeOK
  <2>3. \A d \in Commands : \/ d # c /\ pc'[d] = pc[d]
                            \/ d = c /\ pc'[d] = "done"
    BY <2>1 DEF CommandSteps, Inv, TypeOK
  <2>4. WaitsInQueue'
    BY <2>1, <2>3 DEF Inv, WaitsInQueue
  <2>5. KindKnown' /\ BeforePending' /\ NothingOutlivesAbort'
    BY <2>1, <2>2, <2>3, ForgottenPending DEF CommandSteps, TypeOK, ActiveSteps
  <2> QED BY <2>2, <2>4, <2>5 DEF Inv
<1> QED BY <1>1, <1>2, <1>3, <1>4

(* The steps of do().                                                        *)
LEMMA DoInv ==
  ASSUME Inv, NEW c \in Commands,
         \/ AdapterReady(c) \/ NoAdapter(c) \/ DishCalled(c) \/ TrackStopCalled(c)
         \/ TablesStopped(c) \/ StopRaises(c)
         \/ Completes(c) \/ WaitAborted(c) \/ WaitFails(c)
         \/ StandbyCalled(c) \/ OffCallsFP(c) \/ OffCallsLP(c)
         \/ FPReached(c) \/ FPNotReached(c) \/ LPReached(c) \/ LPNotReached(c)
  PROVE  Inv'
<1>1. /\ {"adapter", "call", "callStop", "stopTables", "wait", "callStandby"} \subseteq ActiveSteps
      /\ {"callFP", "waitFP", "callLP", "waitLP", "conclude"} \subseteq ActiveSteps
  BY DEF ActiveSteps
<1>2. CASE AdapterReady(c)
  <2>1. FirstStep(c) \in ActiveSteps
    BY <1>2, FirstStepIs DEF AdapterReady, Inv, ActiveSteps
  <2> QED BY <1>1, <1>2, <2>1, ProceedsInv DEF AdapterReady
<1>3. CASE NoAdapter(c)
  BY <1>1, <1>3, DecidesInv DEF NoAdapter
<1>4. CASE DishCalled(c)
  BY <1>1, <1>4, ProceedsInv, DecidesInv DEF DishCalled
<1>5. CASE TrackStopCalled(c)
  BY <1>1, <1>5, DecidesInv DEF TrackStopCalled
<1>6. CASE TablesStopped(c)
  <2>1. PICK to \in {"wait", "conclude"} :
          /\ CommandSteps(c, "stopTables", to)
          /\ generating' = FALSE
          /\ UNCHANGED <<queue, kind, verdict, told, abortFlag, abortEvent, before, outcome>>
    BY <1>6 DEF TablesStopped
  <2>2. TypeOK'
    BY <2>1 DEF CommandSteps, Inv, TypeOK
  <2>3. Pending'
    BY <1>1, <2>1, RunsOn
  <2> QED BY <2>2, <2>3 DEF Inv, Pending
<1>7. CASE StopRaises(c)
  <2>1. TypeOK'
    BY <1>7 DEF StopRaises, CommandSteps, Inv, TypeOK
  <2>2. Pending'
    BY <1>1, <1>7, RunsOn DEF StopRaises
  <2> QED BY <2>1, <2>2 DEF Inv, Pending
<1>8. CASE Completes(c) \/ WaitAborted(c) \/ WaitFails(c)
  BY <1>1, <1>8, DecidesInv DEF Completes, WaitAborted, WaitFails
<1>9. CASE StandbyCalled(c) \/ OffCallsLP(c)
  BY <1>1, <1>9, DecidesInv DEF StandbyCalled, OffCallsLP
<1>10. CASE OffCallsFP(c)
  BY <1>1, <1>10, ProceedsInv DEF OffCallsFP
<1>11. ASSUME NEW from \in ActiveSteps, NEW to \in ActiveSteps,
              NEW mode \in {"STANDBY_FP", "STANDBY_LP"}, ModeWaits(c, from, to, mode)
       PROVE  Inv'
  <2>1. TypeOK'
    BY <1>11 DEF ModeWaits, CommandSteps, Inv, TypeOK, ActiveSteps
  <2>2. Pending'
    BY <1>11, RunsOn DEF ModeWaits
  <2> QED BY <2>1, <2>2 DEF Inv, Pending
<1>12. CASE FPReached(c) \/ LPReached(c)
  BY <1>1, <1>11, <1>12 DEF FPReached, LPReached
<1>13. CASE FPNotReached(c) \/ LPNotReached(c)
  BY <1>1, <1>13, DecidesInv DEF FPNotReached, LPNotReached
<1> QED BY <1>2, <1>3, <1>4, <1>5, <1>6, <1>7, <1>8, <1>9, <1>10, <1>12, <1>13

-----------------------------------------------------------------------------
(* A step of an Abort other than its first and the one that ends the wait    *)
(* for the queue moves on, and no command with it.                           *)
LEMMA AbortMovesPending ==
  ASSUME Inv, NEW a \in Aborts,
         NEW from \in {"raised", "flagged", "event", "lock", "raisedAgain", "do", "wait"},
         NEW to \in {"flagged", "tasks", "lock", "raisedAgain", "do", "wait", "done"},
         AbortSteps(a, from, to), UNCHANGED before,
         to \in {"flagged", "tasks"} \/ from \in {"event", "lock", "raisedAgain", "do", "wait"}
  PROVE  Pending'
<1> USE DEF AbortSteps, commandVars
<1>1. KindKnown' /\ WaitsInQueue'
  BY DEF Inv, KindKnown, WaitsInQueue
<1>2. BeforePending'
  BY DEF Inv, BeforePending
<1>3. abortPc[a] = from /\ \A b \in Aborts : \/ b # a /\ abortPc'[b] = abortPc[b]
                                             \/ b = a /\ abortPc'[b] = to
  BY DEF Inv, TypeOK
<1>4. NothingOutlivesAbort'
  BY <1>3 DEF Inv, NothingOutlivesAbort
<1> QED BY <1>1, <1>2, <1>4 DEF Pending

LEMMA AbortInv ==
  ASSUME Inv, NEW a \in Aborts, AbortRaises(a) \/ AbortRuns(a) \/ AbortLocks(a)
  PROVE  Inv'
<1> USE DEF AbortSteps, commandVars
<1>0. 0 \notin Aborts
  BY DEF Aborts
<1>1. CASE AbortRaises(a)
  <2>1. TypeOK'
    BY <1>1 DEF AbortRaises, Inv, TypeOK
  <2>2. before'[a] = {c \in Commands : pc[c] = "queued" \/ Active(c)}
        /\ abortPc'[a] = "raised"
        /\ \A b \in Aborts \ {a} : before'[b] = before[b] /\ abortPc'[b] = abortPc[b]
    BY <1>1 DEF AbortRaises, Inv, TypeOK
  <2>3. \A c \in before'[a] : c \in Commands /\ pc[c] \in ActiveSteps \cup {"queued"}
    BY <2>2, ActiveIs DEF Inv
  <2>4. BeforePending'
    BY <1>1, <2>2, <2>3 DEF AbortRaises, Inv, BeforePending
  <2>5. NothingOutlivesAbort'
    BY <2>2 DEF Inv, NothingOutlivesAbort
  <2>6. KindKnown' /\ WaitsInQueue'
    BY <1>1 DEF AbortRaises, Inv, KindKnown, WaitsInQueue
  <2> QED BY <2>1, <2>4, <2>5, <2>6 DEF Inv
<1>2. CASE AbortFlags(a) \/ AbortFlagsAgain(a)
  <2>1. TypeOK'
    <3>1. abortFlag' \in [Commands -> BOOLEAN] /\ queueEvent' \in BOOLEAN
      BY <1>2 DEF AbortFlags, AbortFlagsAgain, FlagsCommands
    <3> QED BY <1>2, <3>1 DEF AbortFlags, AbortFlagsAgain, Inv, TypeOK
  <2>2. Pending'
    BY <1>2, AbortMovesPending DEF AbortFlags, AbortFlagsAgain
  <2> QED BY <2>1, <2>2 DEF Inv, Pending
<1>3. CASE AbortsQueue(a)
  <2>1. TypeOK'
    BY <1>3 DEF AbortsQueue, Inv, TypeOK
  <2>2. Pending'
    BY <1>3, AbortMovesPending DEF AbortsQueue
  <2> QED BY <2>1, <2>2 DEF Inv, Pending
<1>4. CASE QueueAborted(a)
  <2>1. TypeOK'
    BY <1>4 DEF QueueAborted, Inv, TypeOK
  <2>2. \A c \in Commands : pc[c] \notin ActiveSteps \cup {"queued"}
    BY <1>4, ActiveIs DEF QueueAborted, WorkerBusy, Inv, WaitsInQueue
  <2>3. before[a] = {}
    BY <2>2 DEF Inv, TypeOK, BeforePending
  <2>4. NothingOutlivesAbort'
    BY <1>4, <2>3 DEF QueueAborted, Inv, TypeOK, NothingOutlivesAbort
  <2>5. KindKnown' /\ WaitsInQueue' /\ BeforePending'
    BY <1>4 DEF QueueAborted, Inv, KindKnown, WaitsInQueue, BeforePending
  <2> QED BY <2>1, <2>4, <2>5 DEF Inv
<1>8. CASE AbortTakesEvent(a)
  <2>1. TypeOK'
    BY <1>8 DEF AbortTakesEvent, Inv, TypeOK
  <2>2. Pending'
    BY <1>8, AbortMovesPending DEF AbortTakesEvent
  <2> QED BY <2>1, <2>2 DEF Inv, Pending
<1>5. CASE AbortLocks(a)
  <2>1. TypeOK'
    BY <1>0, <1>5 DEF AbortLocks, Inv, TypeOK
  <2>2. Pending'
    BY <1>5, AbortMovesPending DEF AbortLocks
  <2> QED BY <2>1, <2>2 DEF Inv, Pending
<1>6. CASE AbortStops(a)
  <2>1. TypeOK'
    BY <1>6 DEF AbortStops, Inv, TypeOK
  <2>2. Pending'
    BY <1>6, AbortMovesPending DEF AbortStops
  <2> QED BY <2>1, <2>2 DEF Inv, Pending
<1>7. CASE AbortFails(a) \/ AbortEnds(a)
  <2>1. TypeOK'
    <3>1. /\ tangoLock' = 0 /\ generating' \in {generating, FALSE}
          /\ abortPc[a] \in {"do", "wait"} /\ abortPc' = [abortPc EXCEPT ![a] = "done"]
          /\ UNCHANGED <<dish, commandVars, outcome, abortFlag, abortEvent, queueEvent, before>>
      BY <1>7 DEF AbortFails, AbortEnds
    <3>2. generating' \in BOOLEAN
      BY <3>1 DEF Inv, TypeOK
    <3>3. \A b \in Aborts \ {a} : abortPc'[b] = abortPc[b] /\ tangoLock # b
      BY <3>1 DEF Inv, TypeOK
    <3>4. \A b \in Aborts : tangoLock' = b <=> abortPc'[b] \in {"raisedAgain", "do", "wait"}
      BY <1>0, <3>1, <3>3 DEF Inv, TypeOK
    <3> QED BY <3>1, <3>2, <3>4 DEF Inv, TypeOK
  <2>2. Pending'
    BY <1>7, AbortMovesPending DEF AbortFails, AbortEnds
  <2> QED BY <2>1, <2>2 DEF Inv, Pending
<1> QED BY <1>1, <1>2, <1>3, <1>4, <1>5, <1>6, <1>7, <1>8 DEF AbortRuns

-----------------------------------------------------------------------------
LEMMA InitInv == Init => Inv
<1> SUFFICES ASSUME Init PROVE Inv
  OBVIOUS
<1>1. TypeOK
  <2>1. queue \in Seq(Commands)
    BY DEF Init
  <2>2. \A a \in Aborts : a # 0
    BY DEF Aborts
  <2> QED BY <2>1, <2>2, CommandsAssumption DEF Init, TypeOK
<1> QED BY <1>1 DEF Inv, Init, KindKnown, WaitsInQueue, BeforePending, NothingOutlivesAbort,
           ActiveSteps

LEMMA NextInv == Inv /\ [Next]_vars => Inv'
<1> SUFFICES ASSUME Inv, [Next]_vars PROVE Inv'
  OBVIOUS
<1>1. CASE DishMoves
  BY <1>1, CommandsAssumption
     DEF DishMoves, commandVars, abortVars, Inv, TypeOK, KindKnown, WaitsInQueue, BeforePending,
         NothingOutlivesAbort
<1>2. ASSUME NEW c \in Commands, NEW k \in Kinds, Sends(c, k) \/ SentInVain(c, k)
      PROVE  Inv'
  BY <1>2, SendingInv
<1>3. ASSUME NEW c \in Commands, WorkerRuns(c) \/ WorkerLocks(c)
      PROVE  Inv'
  BY <1>3, TurnInv, DoInv DEF WorkerRuns, WorkerLocks
<1>4. ASSUME NEW a \in Aborts, AbortRaises(a) \/ AbortRuns(a) \/ AbortLocks(a)
      PROVE  Inv'
  BY <1>4, AbortInv
<1>5. CASE UNCHANGED vars
  BY <1>5 DEF vars, commandVars, abortVars, Inv, TypeOK, KindKnown, WaitsInQueue, BeforePending,
              NothingOutlivesAbort
<1> QED BY <1>1, <1>2, <1>3, <1>4, <1>5 DEF Next

LEMMA AlwaysInv == Spec => []Inv
  BY InitInv, NextInv, PTL DEF Spec

(* Every variable keeps to its values, and tango_operation_execution_lock is *)
(* held over several steps by the Abort inside its with block alone.         *)
THEOREM TypeCorrect == Spec => []TypeOK
<1>1. Inv => TypeOK
  BY DEF Inv
<1> QED BY <1>1, AlwaysInv, PTL

(* When an Abort calls the dish, no command that was queued or running when  *)
(* it came is left to call it (abort, abort_tasks and invoke_abort).         *)
THEOREM AbortIsLast == Spec => []NothingOutlivesAbort
<1>1. Inv => NothingOutlivesAbort
  BY DEF Inv
<1> QED BY <1>1, AlwaysInv, PTL

(* Two Aborts are never both inside the with block of invoke_abort.          *)
InvokesAbort(a) == abortPc[a] \in {"raisedAgain", "do", "wait"}

THEOREM AbortsExclude ==
  Spec => [](\A a, b \in Aborts : InvokesAbort(a) /\ InvokesAbort(b) => a = b)
<1>1. TypeOK => \A a, b \in Aborts : InvokesAbort(a) /\ InvokesAbort(b) => a = b
  BY DEF TypeOK, InvokesAbort
<1> QED BY <1>1, TypeCorrect, PTL

-----------------------------------------------------------------------------
(* The steps of do() that only a command of another family takes, and what   *)
(* a verdict of OK says: Off has seen its mode or an Abort, TrackStop has    *)
(* stopped the tables.                                                       *)
KeptBy(c) ==
  /\ kind[c] = "Off" =>
       /\ pc[c] \notin {"call", "callStop", "stopTables", "wait", "callStandby"}
       /\ pc[c] = "conclude" /\ verdict[c] = "OK" => outcome[c] \in {"STANDBY_LP", "ABORTED"}
  /\ kind[c] = "TrackStop" =>
       /\ pc[c] \notin {"call", "callStandby", "callFP", "waitFP", "callLP", "waitLP"}
       /\ pc[c] = "wait" \/ (pc[c] = "conclude" /\ verdict[c] = "OK") => ~generating

Kept == \A c \in Commands : KeptBy(c)

(* A step of c changes nothing of another command and starts no generation.  *)
StepsAlone(c) ==
  /\ ~generating => ~generating'
  /\ \A d \in Commands \ {c} :
       kind'[d] = kind[d] /\ pc'[d] = pc[d] /\ verdict'[d] = verdict[d] /\ outcome'[d] = outcome[d]

LEMMA OneStepKeeps ==
  ASSUME Kept, NEW c \in Commands, StepsAlone(c), KeptBy(c)'
  PROVE  Kept'
  BY DEF Kept, KeptBy, StepsAlone

LEMMA FirstStepKeeps ==
  ASSUME NEW c \in Commands
  PROVE  /\ kind[c] = "Off" => FirstStep(c) \in {"callFP", "callLP"}
         /\ kind[c] = "TrackStop" => FirstStep(c) = "callStop"
  BY DEF FirstStep, Command, Off, TrackStop

(* c moves on and keeps to its kind, and the tables are as they were.        *)
MovesTo(c, from, to) ==
  /\ StepsAlone(c)
  /\ pc[c] = from /\ pc'[c] = to
  /\ kind'[c] = kind[c] /\ outcome'[c] = outcome[c]
  /\ ~generating => ~generating'

LEMMA ProceedsAlone ==
  ASSUME TypeOK, NEW c \in Commands, NEW from, NEW to, Proceeds(c, from, to)
  PROVE  MovesTo(c, from, to) /\ verdict'[c] = verdict[c]
<1>1. ~generating => ~generating'
  BY DEF Proceeds
<1>2. pc[c] = from /\ pc'[c] = to /\ \A d \in Commands \ {c} : pc'[d] = pc[d]
  BY DEF Proceeds, CommandSteps, TypeOK
<1> QED BY <1>1, <1>2 DEF Proceeds, MovesTo, StepsAlone

LEMMA DecidesAlone ==
  ASSUME TypeOK, NEW c \in Commands, NEW from, NEW to, NEW code, Decides(c, from, to, code)
  PROVE  MovesTo(c, from, to) /\ verdict'[c] = code
<1>1. ~generating => ~generating'
  BY DEF Decides
<1>2. pc[c] = from /\ pc'[c] = to /\ \A d \in Commands \ {c} : pc'[d] = pc[d]
  BY DEF Decides, CommandSteps, TypeOK
<1>3. verdict'[c] = code /\ \A d \in Commands \ {c} : verdict'[d] = verdict[d]
  BY DEF Decides, TypeOK
<1> QED BY <1>1, <1>2, <1>3 DEF Decides, MovesTo, StepsAlone

LEMMA WorkerKeeps ==
  ASSUME TypeOK, Kept, NEW c \in Commands, WorkerRuns(c) \/ WorkerLocks(c)
  PROVE  Kept'
<1> SUFFICES StepsAlone(c) /\ KeptBy(c)'
  BY OneStepKeeps
<1>0. KeptBy(c)
  BY DEF Kept
<1>1. CASE TakenAborted(c) \/ NotAllowedAnyMore(c) \/ Dropped(c) \/ Begins(c) \/ Concludes(c)
  BY <1>1 DEF TakenAborted, NotAllowedAnyMore, Dropped, Begins, Concludes, Taken, CommandSteps,
              Forgets, TypeOK, StepsAlone, KeptBy
<1>2. CASE AdapterReady(c)
  BY <1>0, <1>2, ProceedsAlone, DecidesAlone, FirstStepKeeps DEF MovesTo, AdapterReady, KeptBy
<1>3. CASE NoAdapter(c) \/ WaitAborted(c) \/ WaitFails(c) \/ FPNotReached(c) \/ LPNotReached(c)
  BY <1>0, <1>3, ProceedsAlone, DecidesAlone DEF MovesTo, NoAdapter, WaitAborted, WaitFails, FPNotReached, LPNotReached, KeptBy
<1>4. CASE DishCalled(c) \/ TrackStopCalled(c)
  BY <1>0, <1>4, ProceedsAlone, DecidesAlone DEF MovesTo, DishCalled, TrackStopCalled, KeptBy
<1>5. CASE TablesStopped(c)
  BY <1>0, <1>5 DEF TablesStopped, CommandSteps, TypeOK, StepsAlone, KeptBy
<1>6. CASE StopRaises(c)
  <2>1. generating' \in {generating, FALSE} /\ UNCHANGED <<kind, outcome>>
    BY <1>6 DEF StopRaises
  <2>2. ~generating => ~generating'
    BY <2>1 DEF TypeOK
  <2>3. /\ pc[c] = "stopTables" /\ pc'[c] = "conclude" /\ verdict'[c] = "FAILED"
        /\ \A d \in Commands \ {c} : pc'[d] = pc[d] /\ verdict'[d] = verdict[d]
    BY <1>6 DEF StopRaises, CommandSteps, TypeOK
  <2>4. StepsAlone(c)
    BY <2>1, <2>2, <2>3 DEF StepsAlone
  <2>5. KeptBy(c)'
    BY <1>0, <2>1, <2>3 DEF KeptBy
  <2> QED BY <2>4, <2>5
<1>7. CASE Completes(c)
  BY <1>0, <1>7, ProceedsAlone, DecidesAlone DEF MovesTo, Completes, KeptBy
<1>8. CASE StandbyCalled(c) \/ OffCallsFP(c) \/ OffCallsLP(c)
  BY <1>0, <1>8, ProceedsAlone, DecidesAlone DEF MovesTo, StandbyCalled, OffCallsFP, OffCallsLP, KeptBy
<1>9. CASE FPReached(c)
  BY <1>0, <1>9 DEF FPReached, ModeWaits, CommandSteps, TypeOK, StepsAlone, KeptBy
<1>10. CASE LPReached(c)
  BY <1>0, <1>10 DEF LPReached, ModeWaits, CommandSteps, TypeOK, StepsAlone, KeptBy
<1> QED BY <1>1, <1>2, <1>3, <1>4, <1>5, <1>6, <1>7, <1>8, <1>9, <1>10 DEF WorkerRuns, WorkerLocks

LEMMA NextKeeps == Inv /\ Kept /\ [Next]_vars => Kept'
<1> SUFFICES ASSUME Inv, Kept, [Next]_vars PROVE Kept'
  OBVIOUS
<1>1. ASSUME NEW c \in Commands, NEW k \in Kinds, Sends(c, k) \/ SentInVain(c, k)
      PROVE  Kept'
  <2>1. StepsAlone(c) /\ KeptBy(c)'
    BY <1>1 DEF Sends, SentInVain, CommandSteps, Inv, TypeOK, StepsAlone, KeptBy
  <2> QED BY <2>1, OneStepKeeps
<1>2. ASSUME NEW c \in Commands, WorkerRuns(c) \/ WorkerLocks(c)
      PROVE  Kept'
  BY <1>2, WorkerKeeps DEF Inv
<1>3. ASSUME NEW a \in Aborts, AbortRaises(a) \/ AbortRuns(a) \/ AbortLocks(a)
      PROVE  Kept'
  <2>1. UNCHANGED <<kind, pc, verdict, outcome>> /\ generating' \in {generating, FALSE}
    BY <1>3 DEF AbortRuns, AbortRaises, AbortLocks, AbortFlags, AbortsQueue, QueueAborted, AbortTakesEvent,
                AbortFlagsAgain, AbortStops, AbortFails, AbortEnds, AbortSteps, commandVars
  <2> QED BY <2>1 DEF Kept, KeptBy
<1>4. CASE DishMoves
  BY <1>4 DEF DishMoves, commandVars, Kept, KeptBy
<1>5. CASE UNCHANGED vars
  BY <1>5 DEF vars, commandVars, Kept, KeptBy
<1> QED BY <1>1, <1>2, <1>3, <1>4, <1>5 DEF Next

(* Only the end of a command tells its client OK.                            *)
LEMMA OnlyTheEndTellsOK ==
  ASSUME TypeOK, [Next]_vars, NEW c \in Commands, told'[c] = "OK", told[c] # "OK"
  PROVE  pc[c] = "conclude" /\ verdict[c] = "OK"
<1>1. ASSUME NEW d \in Commands, NEW what, Tells(d, what), told'[c] # told[c]
      PROVE  d = c /\ told'[c] = what
  BY <1>1 DEF Tells, TypeOK
<1>2. ASSUME NEW d \in Commands, NEW k \in Kinds, Sends(d, k) \/ SentInVain(d, k) PROVE FALSE
  BY <1>1, <1>2 DEF Sends, SentInVain
<1>3. ASSUME NEW d \in Commands, WorkerRuns(d) \/ WorkerLocks(d), ~Concludes(d) PROVE FALSE
  <2>1. CASE TakenAborted(d) \/ NotAllowedAnyMore(d) \/ Begins(d)
    BY <1>1, <2>1 DEF TakenAborted, NotAllowedAnyMore, Begins
  <2>2. CASE told' = told
    BY <2>2
  <2> QED BY <1>3, <2>1, <2>2
          DEF WorkerRuns, WorkerLocks, Dropped, AdapterReady, NoAdapter, DishCalled, TrackStopCalled,
              TablesStopped, StopRaises, Completes, WaitAborted, WaitFails, StandbyCalled, OffCallsFP,
              OffCallsLP, FPReached, FPNotReached, LPReached, LPNotReached, ModeWaits, Proceeds, Decides
<1>4. ASSUME NEW d \in Commands, Concludes(d)
      PROVE  pc[c] = "conclude" /\ verdict[c] = "OK"
  BY <1>1, <1>4 DEF Concludes, CommandSteps
<1>5. ASSUME NEW a \in Aborts, AbortRaises(a) \/ AbortRuns(a) \/ AbortLocks(a) PROVE FALSE
  BY <1>5 DEF AbortRuns, AbortRaises, AbortLocks, AbortFlags, AbortsQueue, QueueAborted, AbortTakesEvent,
              AbortFlagsAgain, AbortStops, AbortFails, AbortEnds, AbortSteps, commandVars
<1>6. CASE DishMoves \/ UNCHANGED vars
  BY <1>6 DEF DishMoves, vars, commandVars
<1> QED BY <1>2, <1>3, <1>4, <1>5, <1>6 DEF Next

(* An Off that reports OK has seen its mode or an Abort, and a TrackStop     *)
(* that reports OK has stopped the track tables.                             *)
THEOREM OKIsEarned == Spec => OKMeansDone
<1>1. Init => Kept
  BY DEF Init, Kept, KeptBy
<1>2. Spec => [](Inv /\ Kept)
  BY <1>1, InitInv, NextInv, NextKeeps, PTL DEF Spec
<1>3. Inv /\ Kept /\ [Next]_vars =>
        [\A c \in Commands :
           told'[c] = "OK" /\ told[c] # "OK" =>
             /\ kind[c] = "Off" => outcome[c] \in {"STANDBY_LP", "ABORTED"}
             /\ kind[c] = "TrackStop" => ~generating]_vars
  BY OnlyTheEndTellsOK DEF Inv, Kept, KeptBy
<1> QED BY <1>2, <1>3, PTL DEF Spec, OKMeansDone

-----------------------------------------------------------------------------
(* The queue that clients see.                                               *)
QueueInv == OrderInv /\ VerdictInv /\ EventInv

(* A step of do(): c goes from one active step to another, and what a client *)
(* or the queue has of it stays as it was.                                   *)
WorksOn(c) ==
  /\ pc[c] \in ActiveSteps
  /\ \E to \in ActiveSteps : pc' = [pc EXCEPT ![c] = to]
  /\ UNCHANGED <<queue, told, abortFlag, before, queueEvent, abortPc>>

LEMMA ProceedsWorks ==
  ASSUME VerdictInv, NEW c \in Commands, NEW from \in ActiveSteps, NEW to \in ActiveSteps,
         Proceeds(c, from, to), TypeOK, to \in {"stopTables", "waitLP", "conclude"} => verdict[c] # "none"
  PROVE  WorksOn(c) /\ VerdictInv'
<1>1. WorksOn(c)
  BY DEF Proceeds, CommandSteps, WorksOn
<1>2. VerdictInv'
  BY DEF Proceeds, CommandSteps, VerdictInv, TypeOK
<1> QED BY <1>1, <1>2

LEMMA DecidesWorks ==
  ASSUME VerdictInv, NEW c \in Commands, NEW from \in ActiveSteps, NEW to \in ActiveSteps,
         NEW code \in {"OK", "FAILED", "ABORTED"}, Decides(c, from, to, code), TypeOK,
         code = "ABORTED" => abortFlag[c]
  PROVE  WorksOn(c) /\ VerdictInv'
<1>1. WorksOn(c)
  BY DEF Decides, CommandSteps, WorksOn
<1>2. VerdictInv'
  BY DEF Decides, CommandSteps, VerdictInv, TypeOK
<1> QED BY <1>1, <1>2

LEMMA DoWorks ==
  ASSUME Inv, VerdictInv, NEW c \in Commands,
         \/ AdapterReady(c) \/ NoAdapter(c) \/ DishCalled(c) \/ TrackStopCalled(c)
         \/ TablesStopped(c) \/ StopRaises(c)
         \/ Completes(c) \/ WaitAborted(c) \/ WaitFails(c)
         \/ StandbyCalled(c) \/ OffCallsFP(c) \/ OffCallsLP(c)
         \/ FPReached(c) \/ FPNotReached(c) \/ LPReached(c) \/ LPNotReached(c)
  PROVE  WorksOn(c) /\ VerdictInv'
<1>0. TypeOK
  BY DEF Inv
<1>1. /\ {"adapter", "call", "callStop", "stopTables", "wait", "callStandby"} \subseteq ActiveSteps
      /\ {"callFP", "waitFP", "callLP", "waitLP", "conclude"} \subseteq ActiveSteps
  BY DEF ActiveSteps
<1>2. CASE AdapterReady(c)
  <2>1. FirstStep(c) \in {"call", "callStop", "callStandby", "callFP", "callLP"}
    BY <1>2, FirstStepIs DEF AdapterReady, Inv
  <2> QED BY <1>0, <1>1, <1>2, <2>1, ProceedsWorks DEF AdapterReady
<1>3. CASE NoAdapter(c) \/ DishCalled(c) \/ OffCallsFP(c)
  BY <1>0, <1>1, <1>3, ProceedsWorks, DecidesWorks DEF NoAdapter, DishCalled, OffCallsFP
<1>4. CASE TrackStopCalled(c) \/ StandbyCalled(c) \/ OffCallsLP(c)
  BY <1>0, <1>1, <1>4, DecidesWorks DEF TrackStopCalled, StandbyCalled, OffCallsLP
<1>5. CASE Completes(c) \/ WaitAborted(c) \/ WaitFails(c) \/ FPNotReached(c) \/ LPNotReached(c)
  BY <1>0, <1>1, <1>5, DecidesWorks DEF Completes, WaitAborted, WaitFails, FPNotReached, LPNotReached
<1>6. CASE TablesStopped(c)
  <2>1. PICK to \in {"wait", "conclude"} :
          CommandSteps(c, "stopTables", to) /\ UNCHANGED <<queue, verdict, told, abortFlag, before>>
    BY <1>6 DEF TablesStopped
  <2>2. WorksOn(c)
    BY <1>1, <2>1 DEF CommandSteps, WorksOn
  <2>3. VerdictInv'
    BY <1>0, <2>1 DEF CommandSteps, VerdictInv, TypeOK
  <2> QED BY <2>2, <2>3
<1>7. CASE StopRaises(c)
  <2>1. WorksOn(c)
    BY <1>1, <1>7 DEF StopRaises, CommandSteps, WorksOn
  <2>2. VerdictInv'
    BY <1>0, <1>7 DEF StopRaises, CommandSteps, VerdictInv, TypeOK
  <2> QED BY <2>1, <2>2
<1>8. CASE FPReached(c) \/ LPReached(c)
  <2>1. PICK from \in {"waitFP", "waitLP"}, to \in {"callLP", "conclude"} :
          /\ to = "conclude" => from = "waitLP"
          /\ CommandSteps(c, from, to) /\ UNCHANGED <<queue, verdict, told, abortFlag, before>>
    BY <1>8 DEF FPReached, LPReached, ModeWaits
  <2>2. WorksOn(c)
    BY <1>1, <2>1 DEF CommandSteps, WorksOn
  <2>3. VerdictInv'
    BY <1>0, <2>1 DEF CommandSteps, VerdictInv, TypeOK
  <2> QED BY <2>2, <2>3
<1> QED BY <1>2, <1>3, <1>4, <1>5, <1>6, <1>7, <1>8

(* It leaves the queue as it is and c in its place.                          *)
LEMMA WorksOrdered ==
  ASSUME Inv, OrderInv, EventInv, NEW c \in Commands, WorksOn(c)
  PROVE  OrderInv' /\ EventInv'
<1>0. TypeOK
  BY DEF Inv
<1>1. /\ pc[c] \in ActiveSteps /\ pc'[c] \in ActiveSteps
      /\ \A d \in Commands : d # c => pc'[d] = pc[d]
      /\ UNCHANGED <<queue, queueEvent, abortPc>>
  BY <1>0 DEF WorksOn, TypeOK
<1>2. \A d \in Commands : Active(d)' <=> Active(d)
  BY <1>1 DEF Active, ActiveSteps
<1>3. \A d \in Commands : /\ pc'[d] = "new" <=> pc[d] = "new"
                          /\ pc'[d] = "queued" <=> pc[d] = "queued"
                          /\ Over(d)' <=> Over(d)
  BY <1>1 DEF Over, ActiveSteps
<1>4. \A i \in 1..Len(queue) : queue[i] \in Commands
  BY <1>0 DEF TypeOK
<1>5. \A d \in Commands : 1..(d - 1) \subseteq Commands
  BY CommandsAssumption DEF Commands
<1>6. OrderInv'
  BY <1>1, <1>2, <1>3, <1>4, <1>5 DEF OrderInv
<1>7. EventInv'
  BY <1>1 DEF EventInv, QueueAborting
<1> QED BY <1>6, <1>7

LEMMA CommandsAre ==
  /\ Commands \subseteq Nat
  /\ \A c \in Commands : \A d \in 1..(c - 1) : d \in Commands /\ d < c
  /\ \A c, d \in Commands : d < c => d \in 1..(c - 1)
  /\ \A c, d \in Commands : c = d \/ c < d \/ d < c
  BY CommandsAssumption DEF Commands

(* A command is sent behind all that wait.                                   *)
LEMMA SendingOrdered ==
  ASSUME Inv, QueueInv, NEW c \in Commands, NEW k \in Kinds, Sends(c, k) \/ SentInVain(c, k)
  PROVE  QueueInv'
<1>0. TypeOK
  BY DEF Inv
<1>1. pc[c] = "new" /\ \A d \in 1..(c - 1) : pc[d] # "new"
  BY DEF Sends, SentInVain, Turn, CommandSteps
<1>2. VerdictInv' /\ EventInv'
  BY <1>0 DEF Sends, SentInVain, CommandSteps, TypeOK, QueueInv, VerdictInv, EventInv, QueueAborting
<1>3. PICK to \in {"queued", "done"} : /\ pc' = [pc EXCEPT ![c] = to]
                                       /\ to = "queued" => queue' = Append(queue, c)
                                       /\ to = "done" => queue' = queue
  BY DEF Sends, SentInVain, CommandSteps
<1>4. /\ pc'[c] = to
      /\ \A d \in Commands : d # c => pc'[d] = pc[d]
  BY <1>0, <1>3 DEF TypeOK
<1>5. /\ queue \in Seq(Commands)
      /\ \A i \in 1..Len(queue) : queue[i] \in Commands /\ pc[queue[i]] = "queued"
  BY <1>0 DEF TypeOK, QueueInv, OrderInv
<1>6. \A i \in 1..Len(queue) : queue[i] < c
  <2> SUFFICES ASSUME NEW i \in 1..Len(queue), c < queue[i] PROVE FALSE
    BY <1>1, <1>5, CommandsAre
  <2>1. c \in 1..(queue[i] - 1) /\ pc[queue[i]] # "new"
    BY <1>5, CommandsAre
  <2> QED BY <1>1, <1>5, <2>1 DEF QueueInv, OrderInv
<1>7. /\ \A i \in 1..Len(queue') : queue'[i] \in Commands /\ pc'[queue'[i]] = "queued"
      /\ \A i, j \in 1..Len(queue') : i < j => queue'[i] < queue'[j]
  <2>1. CASE to = "queued"
    <3>1. /\ Len(queue') = Len(queue) + 1 /\ queue'[Len(queue) + 1] = c
          /\ \A i \in 1..Len(queue) : queue'[i] = queue[i]
      BY <1>3, <1>5, <2>1
    <3>2. \A i \in 1..Len(queue') : queue'[i] \in Commands /\ pc'[queue'[i]] = "queued"
      BY <1>1, <1>4, <1>5, <2>1, <3>1
    <3>3. \A i, j \in 1..Len(queue') : i < j => queue'[i] < queue'[j]
      BY <1>5, <1>6, <3>1 DEF QueueInv, OrderInv
    <3> QED BY <3>2, <3>3
  <2>2. CASE to = "done"
    BY <1>1, <1>3, <1>4, <1>5, <2>2 DEF QueueInv, OrderInv
  <2> QED BY <2>1, <2>2
<1>8. \A d \in Commands : pc'[d] # "new" => \A e \in 1..(d - 1) : pc'[e] # "new"
  BY <1>1, <1>4, CommandsAre DEF QueueInv, OrderInv
<1>9. \A d \in Commands : Active(d)' => \A e \in 1..(d - 1) : Over(e)'
  BY <1>1, <1>4, CommandsAre DEF QueueInv, OrderInv, Active, Over
<1> QED BY <1>2, <1>7, <1>8, <1>9 DEF QueueInv, OrderInv

(* What the worker takes is the oldest command that waits, and all that were *)
(* sent before it are over.                                                  *)
LEMMA TakesOldest ==
  ASSUME Inv, OrderInv, NEW c \in Commands, NEW to \in ActiveSteps \cup {"done", "dropped"}, Taken(c, to)
  PROVE  /\ OrderInv'
         /\ pc[c] = "queued" /\ pc' = [pc EXCEPT ![c] = to]
         /\ \A d \in Commands : d < c => Over(d)
         /\ \A d \in Commands : ~Active(d)
<1>0. TypeOK /\ WaitsInQueue
  BY DEF Inv
<1>1. /\ queue \in Seq(Commands) /\ queue # <<>> /\ c = queue[1] /\ queue' = Tail(queue)
      /\ pc[c] = "queued" /\ pc' = [pc EXCEPT ![c] = to]
      /\ \A d \in Commands : ~Active(d)
  BY <1>0 DEF Taken, CommandSteps, WorkerBusy, TypeOK
<1>2. \A d \in Commands : d < c => Over(d)
  <2> SUFFICES ASSUME NEW d \in Commands, d < c PROVE Over(d)
    OBVIOUS
  <2>1. pc[d] # "new"
    BY <1>1, CommandsAre DEF OrderInv
  <2>2. ASSUME pc[d] = "queued" PROVE FALSE
    <3>1. PICK i \in 1..Len(queue) : queue[i] = d
      BY <1>0, <2>2 DEF WaitsInQueue
    <3>2. CASE i = 1
      BY <1>1, <3>1, <3>2, CommandsAre
    <3>3. CASE 1 < i
      <4>1. queue[1] < queue[i]
        BY <1>1, <3>3 DEF OrderInv
      <4> QED BY <1>1, <3>1, <4>1, CommandsAre
    <3> QED BY <1>1, <3>2, <3>3
  <2> QED BY <1>1, <2>1, <2>2 DEF Active, Over
<1>3. /\ pc'[c] = to
      /\ \A d \in Commands : d # c => pc'[d] = pc[d]
  BY <1>0, <1>1 DEF TypeOK
<1>4. /\ Len(queue') = Len(queue) - 1
      /\ \A i \in 1..Len(queue') : i + 1 \in 1..Len(queue) /\ queue'[i] = queue[i + 1]
  BY <1>1
<1>5. \A i \in 1..Len(queue') : /\ queue'[i] \in Commands /\ c < queue'[i]
                                /\ pc'[queue'[i]] = "queued"
  <2> SUFFICES ASSUME NEW i \in 1..Len(queue')
               PROVE  queue'[i] \in Commands /\ c < queue'[i] /\ pc'[queue'[i]] = "queued"
    OBVIOUS
  <2>1. i + 1 \in 1..Len(queue) /\ queue'[i] = queue[i + 1] /\ 1 \in 1..Len(queue) /\ 1 < i + 1
    BY <1>1, <1>4
  <2>2. queue[i + 1] \in Commands /\ c < queue[i + 1] /\ pc[queue[i + 1]] = "queued"
    BY <1>1, <2>1 DEF OrderInv
  <2>3. queue[i + 1] # c
    BY <2>2, CommandsAre
  <2>4. pc'[queue[i + 1]] = "queued"
    BY <1>3, <2>2, <2>3
  <2> QED BY <2>1, <2>2, <2>4
<1>6. \A i, j \in 1..Len(queue') : i < j => queue'[i] < queue'[j]
  BY <1>1, <1>4 DEF OrderInv
<1>7. \A d \in Commands : pc'[d] # "new" => \A e \in 1..(d - 1) : pc'[e] # "new"
  BY <1>1, <1>3, CommandsAre DEF OrderInv, ActiveSteps
<1>8. \A d \in Commands : Active(d)' => \A e \in 1..(d - 1) : Over(e)'
  BY <1>1, <1>2, <1>3, CommandsAre DEF Active, Over
<1>9. OrderInv'
  BY <1>5, <1>6, <1>7, <1>8 DEF OrderInv
<1> QED BY <1>1, <1>2, <1>9

LEMMA TurnOrdered ==
  ASSUME Inv, QueueInv, NEW c \in Commands,
         TakenAborted(c) \/ NotAllowedAnyMore(c) \/ Dropped(c) \/ Begins(c)
  PROVE  QueueInv'
<1>1. PICK to \in {"adapter", "done", "dropped"} : Taken(c, to)
  BY DEF TakenAborted, NotAllowedAnyMore, Dropped, Begins
<1>2. OrderInv'
  BY <1>1, TakesOldest DEF QueueInv, ActiveSteps
<1>3. VerdictInv' /\ EventInv'
  BY <1>1 DEF Taken, CommandSteps, Inv, TypeOK, QueueInv, VerdictInv, EventInv, QueueAborting
<1> QED BY <1>2, <1>3 DEF QueueInv

LEMMA ConcludesOrdered ==
  ASSUME Inv, QueueInv, NEW c \in Commands, Concludes(c)
  PROVE  QueueInv'
<1>0. TypeOK
  BY DEF Inv
<1>1. /\ pc[c] = "conclude" /\ pc'[c] = "done"
      /\ \A d \in Commands : d # c => pc'[d] = pc[d]
      /\ UNCHANGED <<queue, queueEvent, abortPc>>
  BY <1>0 DEF Concludes, CommandSteps, TypeOK
<1>2. \A i \in 1..Len(queue) : queue[i] \in Commands
  BY <1>0 DEF TypeOK
<1>3. OrderInv'
  BY <1>1, <1>2, CommandsAre DEF QueueInv, OrderInv, Active, Over
<1>4. VerdictInv' /\ EventInv'
  BY <1>0, <1>1 DEF Concludes, TypeOK, QueueInv, VerdictInv, EventInv, QueueAborting
<1> QED BY <1>3, <1>4 DEF QueueInv

LEMMA AbortOrdered ==
  ASSUME Inv, QueueInv, NEW a \in Aborts, AbortRaises(a) \/ AbortRuns(a) \/ AbortLocks(a)
  PROVE  QueueInv'
<1>0. TypeOK
  BY DEF Inv
<1>1. UNCHANGED commandVars
  BY DEF AbortRaises, AbortRuns, AbortLocks, AbortFlags, AbortsQueue, QueueAborted, AbortTakesEvent,
         AbortFlagsAgain, AbortStops, AbortFails, AbortEnds, AbortSteps
<1>2. \A c \in Commands : abortFlag[c] => abortFlag'[c]
  BY DEF AbortRaises, AbortRuns, AbortLocks, AbortFlags, AbortsQueue, QueueAborted, AbortTakesEvent,
         AbortFlagsAgain, AbortStops, AbortFails, AbortEnds, FlagsCommands
<1>3. OrderInv' /\ VerdictInv'
  BY <1>1, <1>2 DEF commandVars, QueueInv, OrderInv, VerdictInv, Active, Over
<1>4. EventInv'
  <2>1. CASE AbortsQueue(a)
    BY <1>0, <2>1 DEF AbortsQueue, AbortSteps, TypeOK, EventInv, QueueAborting
  <2>2. CASE QueueAborted(a)
    BY <1>0, <2>2 DEF QueueAborted, AbortSteps, TypeOK, EventInv, QueueAborting
  <2>3. ASSUME queueEvent' => queueEvent, abortPc[a] # "tasks",
               \A b \in Aborts \ {a} : abortPc'[b] = abortPc[b]
        PROVE  EventInv'
    BY <2>3 DEF QueueInv, EventInv, QueueAborting
  <2>4. CASE ~AbortsQueue(a) /\ ~QueueAborted(a)
    <3>1. abortPc[a] # "tasks" /\ \A b \in Aborts \ {a} : abortPc'[b] = abortPc[b]
      BY <1>0, <2>4 DEF AbortRaises, AbortRuns, AbortLocks, AbortTakesEvent, AbortFlags,
         AbortFlagsAgain, AbortStops, AbortFails, AbortEnds, AbortSteps, TypeOK
    <3>2. queueEvent' => queueEvent
      BY <2>4 DEF AbortRaises, AbortRuns, AbortLocks, AbortTakesEvent, AbortFlags,
         AbortFlagsAgain, AbortStops, AbortFails, AbortEnds, FlagsCommands
    <3> QED BY <2>3, <3>1, <3>2
  <2> QED BY <2>1, <2>2, <2>4
<1> QED BY <1>3, <1>4 DEF QueueInv

LEMMA NextOrdered == Inv /\ QueueInv /\ [Next]_vars => QueueInv'
<1> SUFFICES ASSUME Inv, QueueInv, [Next]_vars PROVE QueueInv'
  OBVIOUS
<1>1. ASSUME NEW c \in Commands, NEW k \in Kinds, Sends(c, k) \/ SentInVain(c, k)
      PROVE  QueueInv'
  BY <1>1, SendingOrdered
<1>2. ASSUME NEW c \in Commands, WorkerRuns(c) \/ WorkerLocks(c)
      PROVE  QueueInv'
  <2>1. CASE TakenAborted(c) \/ NotAllowedAnyMore(c) \/ Dropped(c) \/ Begins(c)
    BY <2>1, TurnOrdered
  <2>2. CASE Concludes(c)
    BY <2>2, ConcludesOrdered
  <2> QED BY <1>2, <2>1, <2>2, DoWorks, WorksOrdered DEF WorkerRuns, WorkerLocks, QueueInv
<1>3. ASSUME NEW a \in Aborts, AbortRaises(a) \/ AbortRuns(a) \/ AbortLocks(a)
      PROVE  QueueInv'
  BY <1>3, AbortOrdered
<1>4. CASE DishMoves \/ UNCHANGED vars
  BY <1>4 DEF DishMoves, vars, commandVars, abortVars, QueueInv, OrderInv, VerdictInv, EventInv,
              QueueAborting, Active, Over
<1> QED BY <1>1, <1>2, <1>3, <1>4 DEF Next

LEMMA AlwaysOrdered == Spec => [](Inv /\ QueueInv)
<1>1. Init => QueueInv
  BY DEF Init, QueueInv, OrderInv, VerdictInv, EventInv, Active
<1> QED BY <1>1, InitInv, NextInv, NextOrdered, PTL DEF Spec

(* What waits is the queue, each command in it once and in the order in      *)
(* which they were sent.                                                     *)
THEOREM QueueInOrder ==
  Spec => [](/\ \A c \in Commands : pc[c] = "queued" <=> \E i \in 1..Len(queue) : queue[i] = c
             /\ \A i, j \in 1..Len(queue) : i < j => queue[i] < queue[j])
<1>1. Inv /\ QueueInv =>
        /\ \A c \in Commands : pc[c] = "queued" <=> \E i \in 1..Len(queue) : queue[i] = c
        /\ \A i, j \in 1..Len(queue) : i < j => queue[i] < queue[j]
  BY DEF Inv, WaitsInQueue, QueueInv, OrderInv
<1> QED BY <1>1, AlwaysOrdered, PTL

(* Commands run in the order in which they were sent: when one runs, every   *)
(* one sent before it is over.                                               *)
THEOREM RunInOrder ==
  Spec => [](\A c, d \in Commands : Active(c) /\ d < c => Over(d))
<1>1. QueueInv => \A c, d \in Commands : Active(c) /\ d < c => Over(d)
  BY CommandsAre DEF QueueInv, OrderInv
<1> QED BY <1>1, AlwaysOrdered, PTL

-----------------------------------------------------------------------------
(* Every step is one of the queue that clients see, or none.                 *)

LEMMA PhaseMoves ==
  ASSUME TypeOK, NEW c \in Commands, NEW to, pc' = [pc EXCEPT ![c] = to]
  PROVE  phase' = [phase EXCEPT ![c] = PhaseOf(to)]
  BY DEF phase, TypeOK

LEMMA AbortPhaseMoves ==
  ASSUME TypeOK, NEW a \in Aborts, NEW to, abortPc' = [abortPc EXCEPT ![a] = to]
  PROVE  abort' = [abort EXCEPT ![a] = AbortPhaseOf(to)]
  BY DEF abort, TypeOK

LEMMA PhasesAre ==
  ASSUME TypeOK
  PROVE  /\ \A c \in Commands :
              /\ phase[c] = "new" <=> pc[c] = "new"
              /\ phase[c] = "waiting" <=> pc[c] = "queued"
              /\ phase[c] = "running" <=> Active(c)
              /\ phase[c] = "over" <=> Over(c)
         /\ \A a \in Aborts :
              /\ abort[a] = "idle" <=> abortPc[a] = "idle"
              /\ abort[a] = "waits" <=> abortPc[a] \in {"raised", "flagged", "tasks", "event", "lock"}
              /\ abort[a] = "acts" <=> abortPc[a] \in {"raisedAgain", "do", "wait"}
              /\ abort[a] = "ended" <=> abortPc[a] = "done"
<1>1. ASSUME NEW c \in Commands
      PROVE  /\ phase[c] = "new" <=> pc[c] = "new"
             /\ phase[c] = "waiting" <=> pc[c] = "queued"
             /\ phase[c] = "running" <=> Active(c)
             /\ phase[c] = "over" <=> Over(c)
  BY DEF phase, PhaseOf, Active, Over
<1>2. ASSUME NEW a \in Aborts
      PROVE  /\ abort[a] = "idle" <=> abortPc[a] = "idle"
             /\ abort[a] = "waits" <=> abortPc[a] \in {"raised", "flagged", "tasks", "event", "lock"}
             /\ abort[a] = "acts" <=> abortPc[a] \in {"raisedAgain", "do", "wait"}
             /\ abort[a] = "ended" <=> abortPc[a] = "done"
  BY DEF abort, AbortPhaseOf, TypeOK
<1> QED BY <1>1, <1>2

LEMMA InitMaps == Init => Clients!Init
  BY DEF Init, Clients!Init, phase, PhaseOf, abort, AbortPhaseOf

LEMMA SendingMaps ==
  ASSUME Inv, NEW c \in Commands, NEW k \in Kinds
  PROVE  /\ Sends(c, k) => Clients!Accept(c)
         /\ SentInVain(c, k) => Clients!Refuse(c)
<1>0. TypeOK
  BY DEF Inv
<1>1. abortPc' = abortPc => abort' = abort
  BY DEF abort
<1>2. ASSUME pc[c] = "new", Turn(c) PROVE Clients!Turn(c)
  BY <1>0, <1>2, PhasesAre, CommandsAre DEF Turn, Clients!Turn
<1>3. ASSUME Sends(c, k) PROVE Clients!Accept(c)
  <2>1. phase' = [phase EXCEPT ![c] = "waiting"]
    BY <1>0, <1>3, PhaseMoves DEF Sends, CommandSteps, PhaseOf
  <2> QED BY <1>1, <1>2, <1>3, <2>1 DEF Sends, CommandSteps, Clients!Accept, Clients!Becomes
<1>4. ASSUME SentInVain(c, k) PROVE Clients!Refuse(c)
  <2>1. phase' = [phase EXCEPT ![c] = "over"]
    BY <1>0, <1>4, PhaseMoves DEF SentInVain, CommandSteps, PhaseOf
  <2> QED BY <1>1, <1>2, <1>4, <2>1
          DEF SentInVain, CommandSteps, Tells, Clients!Refuse, Clients!Becomes, Clients!Told
<1> QED BY <1>3, <1>4

(* What the worker does with the command whose turn it is.                   *)
LEMMA TurnMaps ==
  ASSUME Inv, QueueInv, NEW c \in Commands
  PROVE  /\ TakenAborted(c) \/ NotAllowedAnyMore(c) \/ Dropped(c) => Clients!Skip(c)
         /\ Begins(c) => Clients!Start(c)
<1>0. TypeOK /\ OrderInv /\ EventInv
  BY DEF Inv, QueueInv
<1>1. ASSUME NEW to \in {"adapter", "done", "dropped"}, Taken(c, to)
      PROVE  /\ Clients!Oldest(c) /\ Clients!Free
             /\ phase' = [phase EXCEPT ![c] = PhaseOf(to)]
             /\ abort' = abort /\ abortFlag' = abortFlag
  <2>1. /\ pc[c] = "queued" /\ pc' = [pc EXCEPT ![c] = to]
        /\ \A d \in Commands : d < c => Over(d)
        /\ \A d \in Commands : ~Active(d)
    BY <1>0, <1>1, TakesOldest DEF ActiveSteps
  <2>2. Clients!Oldest(c) /\ Clients!Free
    BY <1>0, <2>1, PhasesAre DEF Clients!Oldest, Clients!Free, Over
  <2>3. abort' = abort /\ abortFlag' = abortFlag
    BY <1>1 DEF Taken, CommandSteps, abort
  <2> QED BY <1>0, <2>1, <2>2, <2>3, PhaseMoves
<1>2. QueueEventSet => Clients!Aborting
  BY <1>0, PhasesAre DEF QueueEventSet, Pulsing, EventInv, QueueAborting, Clients!Aborting
<1>3. ASSUME TakenAborted(c) \/ NotAllowedAnyMore(c) \/ Dropped(c) PROVE Clients!Skip(c)
  <2>1. PICK to \in {"done", "dropped"} : Taken(c, to)
    BY <1>3 DEF TakenAborted, NotAllowedAnyMore, Dropped
  <2>2. Clients!Leaves(c)
    <3>1. phase' = [phase EXCEPT ![c] = "over"]
      BY <1>1, <2>1 DEF PhaseOf
    <3> QED BY <1>3, <3>1
            DEF TakenAborted, NotAllowedAnyMore, Dropped, Forgets, Clients!Leaves, Clients!Becomes
  <2>3. \/ Clients!Told(c, "REJECTED")
        \/ Clients!Aborting /\ Clients!Told(c, "ABORTED")
        \/ UNCHANGED told
    BY <1>2, <1>3 DEF TakenAborted, NotAllowedAnyMore, Dropped, Tells, Clients!Told
  <2> QED BY <1>1, <2>1, <2>2, <2>3 DEF Clients!Skip
<1>4. ASSUME Begins(c) PROVE Clients!Start(c)
  <2>1. Taken(c, "adapter") /\ Tells(c, "IN_PROGRESS") /\ UNCHANGED before
    BY <1>4 DEF Begins
  <2>2. phase' = [phase EXCEPT ![c] = "running"]
    BY <1>1, <2>1 DEF PhaseOf
  <2> QED BY <1>1, <2>1, <2>2 DEF Tells, Clients!Start, Clients!Becomes, Clients!Told
<1> QED BY <1>3, <1>4

LEMMA ConcludesMaps ==
  ASSUME Inv, QueueInv, NEW c \in Commands, Concludes(c)
  PROVE  Clients!Finish(c)
<1>0. TypeOK /\ VerdictInv
  BY DEF Inv, QueueInv
<1>1. phase' = [phase EXCEPT ![c] = "over"]
  BY <1>0, PhaseMoves DEF Concludes, CommandSteps, PhaseOf
<1>2. phase[c] = "running" /\ abort' = abort
  BY <1>0, PhasesAre DEF Concludes, CommandSteps, Active, abort
<1>3. \/ Clients!Told(c, "OK") \/ Clients!Told(c, "FAILED")
      \/ abortFlag[c] /\ Clients!Told(c, "ABORTED")
  BY <1>0 DEF Concludes, CommandSteps, Tells, VerdictInv, TypeOK, Clients!Told
<1> QED BY <1>1, <1>2, <1>3 DEF Concludes, Forgets, Clients!Finish, Clients!Leaves, Clients!Becomes

LEMMA WorksMaps ==
  ASSUME TypeOK, NEW c \in Commands, WorksOn(c)
  PROVE  UNCHANGED Clients!queueVars
<1>1. PICK to \in ActiveSteps : pc' = [pc EXCEPT ![c] = to]
  BY DEF WorksOn
<1>2. \A d \in Commands : PhaseOf(pc'[d]) = PhaseOf(pc[d])
  BY <1>1 DEF WorksOn, ActiveSteps, PhaseOf, TypeOK
<1>3. phase' = phase /\ abort' = abort
  BY <1>2 DEF WorksOn, phase, abort
<1> QED BY <1>3 DEF WorksOn, Clients!queueVars

(* What Abort does between its first step and its last.                      *)
LEMMA AbortMaps ==
  ASSUME Inv, NEW a \in Aborts, AbortRaises(a) \/ AbortRuns(a) \/ AbortLocks(a)
  PROVE  [Clients!Next]_(Clients!queueVars)
<1>0. TypeOK /\ NothingOutlivesAbort
  BY DEF Inv
<1>1. phase' = phase /\ told' = told
  BY DEF AbortRaises, AbortRuns, AbortLocks, AbortFlags, AbortsQueue, QueueAborted, AbortTakesEvent,
         AbortFlagsAgain, AbortStops, AbortFails, AbortEnds, AbortSteps, commandVars, phase
<1>2. ASSUME NEW from, NEW to, AbortSteps(a, from, to)
      PROVE  /\ abortPc[a] = from
             /\ abort' = [abort EXCEPT ![a] = AbortPhaseOf(to)]
             /\ AbortPhaseOf(from) = AbortPhaseOf(to) => abort' = abort
  <2>1. abortPc[a] = from /\ abort' = [abort EXCEPT ![a] = AbortPhaseOf(to)]
    BY <1>0, <1>2, AbortPhaseMoves DEF AbortSteps
  <2>2. abort[a] = AbortPhaseOf(from)
    BY <2>1 DEF abort
  <2>3. abort \in [Aborts -> {"idle", "waits", "ended", "acts"}]
    BY DEF abort, AbortPhaseOf
  <2>4. [abort EXCEPT ![a] = abort[a]] = abort
    BY <2>3
  <2> QED BY <2>1, <2>2, <2>4
<1>3. CASE AbortRaises(a)
  <2>1. abortPc[a] = "idle" /\ abort' = [abort EXCEPT ![a] = "waits"]
    BY <1>2, <1>3 DEF AbortRaises, AbortPhaseOf
  <2>2. {c \in Commands : pc[c] = "queued" \/ Active(c)}
          = {c \in Commands : phase[c] \in {"waiting", "running"}}
    BY <1>0, PhasesAre
  <2>3. Clients!Raise(a)
    BY <1>0, <1>1, <1>3, <2>1, <2>2, PhasesAre DEF AbortRaises, Clients!Raise
  <2> QED BY <2>3 DEF Clients!Next
<1>4. CASE AbortFlags(a) \/ AbortFlagsAgain(a)
  <2>1. abortPc[a] \in {"raised", "raisedAgain"} /\ abort' = abort
    BY <1>2, <1>4 DEF AbortFlags, AbortFlagsAgain, AbortPhaseOf
  <2>2. Clients!Aborting
    BY <1>0, <2>1, PhasesAre DEF Clients!Aborting
  <2>3. abortFlag' = [c \in Commands |-> abortFlag[c] \/ phase[c] = "running"]
    <3>1. abortFlag' = [c \in Commands |-> abortFlag[c] \/ Active(c)]
      BY <1>4 DEF AbortFlags, AbortFlagsAgain, FlagsCommands
    <3>2. \A c \in Commands : Active(c) <=> phase[c] = "running"
      BY <1>0, PhasesAre
    <3> QED BY <3>1, <3>2, Zenon
  <2>4. Clients!Flag
    BY <1>1, <1>4, <2>1, <2>2, <2>3 DEF AbortFlags, AbortFlagsAgain, Clients!Flag
  <2> QED BY <2>4 DEF Clients!Next
<1>5. CASE AbortsQueue(a) \/ QueueAborted(a) \/ AbortTakesEvent(a) \/ AbortStops(a)
  <2>1. PICK from \in {"flagged", "tasks", "event", "do"}, to \in {"tasks", "event", "lock", "wait"} :
          AbortSteps(a, from, to) /\ (from = "do" <=> to = "wait")
    BY <1>5 DEF AbortsQueue, QueueAborted, AbortTakesEvent, AbortStops
  <2>2. AbortPhaseOf(from) = AbortPhaseOf(to)
    BY <2>1 DEF AbortPhaseOf
  <2>3. abort' = abort
    BY <1>2, <2>1, <2>2
  <2> QED BY <1>1, <1>5, <2>3 DEF AbortsQueue, QueueAborted, AbortTakesEvent, AbortStops, Clients!queueVars
<1>6. CASE AbortLocks(a)
  <2>1. abortPc[a] = "lock" /\ abort' = [abort EXCEPT ![a] = "acts"]
    BY <1>2, <1>6 DEF AbortLocks, AbortPhaseOf
  <2>2. before[a] = {}
    BY <1>0, <2>1 DEF NothingOutlivesAbort
  <2>3. \A b \in Aborts : abortPc[b] \notin {"raisedAgain", "do", "wait"}
    BY <1>0, <1>6 DEF AbortLocks, TypeOK, Aborts
  <2>4. Clients!Act(a)
    BY <1>0, <1>1, <1>6, <2>1, <2>2, <2>3, PhasesAre DEF AbortLocks, Clients!Act
  <2> QED BY <2>4 DEF Clients!Next
<1>7. CASE AbortFails(a) \/ AbortEnds(a)
  <2>1. abortPc[a] \in {"do", "wait"} /\ abort' = [abort EXCEPT ![a] = "ended"]
    BY <1>2, <1>7 DEF AbortFails, AbortEnds, AbortPhaseOf
  <2>2. Clients!End(a)
    BY <1>0, <1>1, <1>7, <2>1, PhasesAre DEF AbortFails, AbortEnds, Clients!End
  <2> QED BY <2>2 DEF Clients!Next
<1> QED BY <1>3, <1>4, <1>5, <1>6, <1>7 DEF AbortRuns

LEMMA NextMaps == Inv /\ QueueInv /\ [Next]_vars => [Clients!Next]_(Clients!queueVars)
<1> SUFFICES ASSUME Inv, QueueInv, [Next]_vars PROVE [Clients!Next]_(Clients!queueVars)
  OBVIOUS
<1>1. ASSUME NEW c \in Commands, NEW k \in Kinds, Sends(c, k) \/ SentInVain(c, k)
      PROVE  Clients!Next
  BY <1>1, SendingMaps DEF Clients!Next
<1>2. ASSUME NEW c \in Commands, WorkerRuns(c) \/ WorkerLocks(c)
      PROVE  [Clients!Next]_(Clients!queueVars)
  <2>1. CASE TakenAborted(c) \/ NotAllowedAnyMore(c) \/ Dropped(c) \/ Begins(c)
    BY <2>1, TurnMaps DEF Clients!Next
  <2>2. CASE Concludes(c)
    BY <2>2, ConcludesMaps DEF Clients!Next
  <2>3. WorksOn(c) => UNCHANGED Clients!queueVars
    BY WorksMaps DEF Inv
  <2> QED BY <1>2, <2>1, <2>2, <2>3, DoWorks DEF WorkerRuns, WorkerLocks, QueueInv
<1>3. ASSUME NEW a \in Aborts, AbortRaises(a) \/ AbortRuns(a) \/ AbortLocks(a)
      PROVE  [Clients!Next]_(Clients!queueVars)
  BY <1>3, AbortMaps
<1>4. CASE DishMoves \/ UNCHANGED vars
  BY <1>4 DEF DishMoves, vars, commandVars, abortVars, Clients!queueVars, phase, abort
<1> QED BY <1>1, <1>2, <1>3, <1>4 DEF Next

(* The leaf node keeps the promises of CommandQueue to its clients, for      *)
(* every number of commands and Aborts, every choice of kinds and whatever   *)
(* the dish does.                                                            *)
THEOREM Refinement == Spec => ImplementsQueue
  BY AlwaysOrdered, InitMaps, NextMaps, PTL DEF Spec, ImplementsQueue, Clients!Spec

-----------------------------------------------------------------------------
(* What clients may rely on, from the queue they see alone.                  *)

(* Once a command is over its client is told nothing more, whatever Aborts   *)
(* and the worker still do.                                                  *)
LastWord == [][\A c \in Commands : Over(c) => Over(c)' /\ told'[c] = told[c]]_vars

ClientTypes ==
  /\ phase = [c \in Commands |-> phase[c]]
  /\ abort = [a \in Aborts |-> abort[a]]
  /\ abortFlag \in [Commands -> BOOLEAN]
  /\ told = [c \in Commands |-> told[c]]

LEMMA ClientTypesAre == ASSUME TypeOK PROVE ClientTypes
  BY DEF TypeOK, ClientTypes, phase, abort

(* A step of the queue ends at most one command, tells at most one client,   *)
(* and only one that is not over.                                            *)
LEMMA TellsTheLiving ==
  ASSUME ClientTypes, [Clients!Next]_(Clients!queueVars), NEW c \in Commands, phase[c] = "over"
  PROVE  phase'[c] = "over" /\ told'[c] = told[c]
<1>1. ASSUME NEW d \in Commands, NEW to, Clients!Becomes(d, to), d # c PROVE phase'[c] = phase[c]
  BY <1>1 DEF Clients!Becomes, ClientTypes
<1>2. ASSUME NEW d \in Commands, NEW what, Clients!Told(d, what), d # c PROVE told'[c] = told[c]
  BY <1>2 DEF Clients!Told, ClientTypes
<1>3. ASSUME NEW d \in Commands, Clients!Accept(d) \/ Clients!Refuse(d)
      PROVE  phase'[c] = phase[c] /\ told'[c] = told[c]
  BY <1>1, <1>2, <1>3 DEF Clients!Accept, Clients!Refuse, Clients!Turn
<1>4. ASSUME NEW d \in Commands, Clients!Start(d) \/ Clients!Skip(d) \/ Clients!Finish(d)
      PROVE  phase'[c] = phase[c] /\ told'[c] = told[c]
  BY <1>1, <1>2, <1>4 DEF Clients!Start, Clients!Skip, Clients!Finish, Clients!Oldest, Clients!Leaves
<1>5. ASSUME \/ Clients!Flag \/ UNCHANGED Clients!queueVars
             \/ \E a \in Aborts : Clients!Raise(a) \/ Clients!Act(a) \/ Clients!End(a)
      PROVE  phase'[c] = phase[c] /\ told'[c] = told[c]
  BY <1>5 DEF Clients!Flag, Clients!Raise, Clients!Act, Clients!End, Clients!queueVars
<1> QED BY <1>3, <1>4, <1>5 DEF Clients!Next

(* The result of a command is the last its client hears of it.               *)
THEOREM NothingAfterTheEnd == Spec => LastWord
<1>1. Inv /\ QueueInv /\ Inv' /\ [Next]_vars =>
        [\A c \in Commands : Over(c) => Over(c)' /\ told'[c] = told[c]]_vars
  <2> SUFFICES ASSUME Inv, QueueInv, Inv', [Next]_vars, NEW c \in Commands, Over(c)
               PROVE  Over(c)' /\ told'[c] = told[c]
    OBVIOUS
  <2>1. TypeOK /\ TypeOK' /\ ClientTypes /\ [Clients!Next]_(Clients!queueVars)
    BY ClientTypesAre, NextMaps DEF Inv
  <2>2. phase[c] = "over"
    BY <2>1, PhasesAre
  <2>3. phase'[c] = "over" /\ told'[c] = told[c]
    BY <2>1, <2>2, TellsTheLiving
  <2>4. TypeOK' => (phase'[c] = "over" => Over(c)')
    BY DEF phase, PhaseOf, Over
  <2> QED BY <2>1, <2>3, <2>4
<1> QED BY <1>1, AlwaysOrdered, PTL DEF Spec, LastWord

-----------------------------------------------------------------------------
(* Where ABORTED comes from.                                                 *)

(* A flag goes down with its command: there is none left for later.          *)
NoStaleFlag == \A c \in Commands : abortFlag[c] => Active(c)

(* A step puts the flag of a command up only while the command runs and an   *)
(* Abort sets its flags, and tells its client ABORTED only when its flag is  *)
(* up or, of a command that still waits, while an Abort signals the queue or *)
(* empties it.                                                               *)
CausedByAbort(c) ==
  /\ abortFlag'[c] /\ ~abortFlag[c] => Active(c) /\ Pulsing
  /\ told'[c] = "ABORTED" /\ told[c] # "ABORTED" =>
       abortFlag[c] \/ (pc[c] = "queued" /\ (Pulsing \/ QueueAborting))

AbortedByAbort == [][\A c \in Commands : CausedByAbort(c)]_vars

LEMMA TurnCaused ==
  ASSUME Inv, QueueInv, NoStaleFlag, NEW c \in Commands,
         TakenAborted(c) \/ NotAllowedAnyMore(c) \/ Dropped(c) \/ Begins(c)
  PROVE  NoStaleFlag' /\ \A d \in Commands : CausedByAbort(d)
<1>0. TypeOK
  BY DEF Inv
<1>1. PICK to \in {"adapter", "done", "dropped"} : Taken(c, to)
  BY DEF TakenAborted, NotAllowedAnyMore, Dropped, Begins
<1>2. /\ pc[c] = "queued" /\ UNCHANGED abortFlag
      /\ \A d \in Commands : d # c => pc'[d] = pc[d]
  BY <1>0, <1>1 DEF Taken, CommandSteps, TypeOK
<1>3. ~abortFlag[c]
  BY <1>2 DEF NoStaleFlag, Active
<1>4. NoStaleFlag'
  BY <1>2, <1>3 DEF NoStaleFlag, Active
<1>5. \A d \in Commands : d # c => told'[d] = told[d]
  BY <1>0 DEF TakenAborted, NotAllowedAnyMore, Dropped, Begins, Tells, TypeOK
<1>6. told'[c] = "ABORTED" /\ told[c] # "ABORTED" => QueueEventSet
  BY <1>0 DEF TakenAborted, NotAllowedAnyMore, Dropped, Begins, Tells, TypeOK
<1>7. QueueEventSet => Pulsing \/ QueueAborting
  BY DEF QueueEventSet, QueueInv, EventInv
<1> QED BY <1>2, <1>4, <1>5, <1>6, <1>7 DEF CausedByAbort

LEMMA ConcludesCaused ==
  ASSUME Inv, QueueInv, NoStaleFlag, NEW c \in Commands, Concludes(c)
  PROVE  NoStaleFlag' /\ \A d \in Commands : CausedByAbort(d)
<1>0. TypeOK
  BY DEF Inv
<1>1. /\ told'[c] = verdict[c] /\ ~abortFlag'[c]
      /\ \A d \in Commands : d # c => /\ pc'[d] = pc[d] /\ told'[d] = told[d]
                                     /\ abortFlag'[d] = abortFlag[d]
  BY <1>0 DEF Concludes, CommandSteps, Tells, TypeOK
<1>2. verdict[c] = "ABORTED" => abortFlag[c]
  BY DEF QueueInv, VerdictInv
<1> QED BY <1>1, <1>2 DEF NoStaleFlag, CausedByAbort, Active

LEMMA AbortCaused ==
  ASSUME Inv, NoStaleFlag, NEW a \in Aborts, AbortRaises(a) \/ AbortRuns(a) \/ AbortLocks(a)
  PROVE  NoStaleFlag' /\ \A d \in Commands : CausedByAbort(d)
<1>1. UNCHANGED <<pc, told>>
  BY DEF AbortRaises, AbortRuns, AbortLocks, AbortFlags, AbortsQueue, QueueAborted, AbortTakesEvent,
         AbortFlagsAgain, AbortStops, AbortFails, AbortEnds, AbortSteps, commandVars
<1>2. CASE AbortFlags(a) \/ AbortFlagsAgain(a)
  <2>1. Pulsing /\ \A c \in Commands : abortFlag'[c] = (abortFlag[c] \/ Active(c))
    BY <1>2 DEF AbortFlags, AbortFlagsAgain, AbortSteps, FlagsCommands, Pulsing
  <2> QED BY <1>1, <2>1 DEF NoStaleFlag, CausedByAbort, Active
<1>3. CASE UNCHANGED abortFlag
  BY <1>1, <1>3 DEF NoStaleFlag, CausedByAbort, Active
<1> QED BY <1>2, <1>3 DEF AbortRaises, AbortRuns, AbortLocks, AbortsQueue, QueueAborted,
        AbortTakesEvent, AbortStops, AbortFails, AbortEnds

LEMMA NextCaused ==
  ASSUME Inv, QueueInv, NoStaleFlag, [Next]_vars
  PROVE  NoStaleFlag' /\ \A d \in Commands : CausedByAbort(d)
<1>0. TypeOK
  BY DEF Inv
<1>1. ASSUME NEW c \in Commands, NEW k \in Kinds, Sends(c, k) \/ SentInVain(c, k)
      PROVE  NoStaleFlag' /\ \A d \in Commands : CausedByAbort(d)
  <2>1. /\ pc[c] = "new" /\ UNCHANGED abortFlag
        /\ told'[c] \in {told[c], "REJECTED"}
        /\ \A d \in Commands : d # c => pc'[d] = pc[d] /\ told'[d] = told[d]
    BY <1>0, <1>1 DEF Sends, SentInVain, CommandSteps, Tells, TypeOK
  <2>2. ~abortFlag[c]
    BY <2>1 DEF NoStaleFlag, Active
  <2> QED BY <2>1, <2>2 DEF NoStaleFlag, CausedByAbort, Active
<1>2. ASSUME NEW c \in Commands, WorksOn(c)
      PROVE  NoStaleFlag' /\ \A d \in Commands : CausedByAbort(d)
  <2>1. /\ UNCHANGED <<abortFlag, told>>
        /\ \A d \in Commands : Active(d) => Active(d)'
    BY <1>0, <1>2 DEF WorksOn, TypeOK, Active, ActiveSteps
  <2> QED BY <2>1 DEF NoStaleFlag, CausedByAbort
<1>3. ASSUME NEW c \in Commands, WorkerRuns(c) \/ WorkerLocks(c)
      PROVE  NoStaleFlag' /\ \A d \in Commands : CausedByAbort(d)
  BY <1>2, <1>3, TurnCaused, ConcludesCaused, DoWorks DEF WorkerRuns, WorkerLocks, QueueInv
<1>4. ASSUME NEW a \in Aborts, AbortRaises(a) \/ AbortRuns(a) \/ AbortLocks(a)
      PROVE  NoStaleFlag' /\ \A d \in Commands : CausedByAbort(d)
  BY <1>4, AbortCaused
<1>5. CASE DishMoves \/ UNCHANGED vars
  BY <1>5 DEF DishMoves, vars, commandVars, NoStaleFlag, CausedByAbort, Active
<1> QED BY <1>1, <1>3, <1>4, <1>5 DEF Next

(* No flag outlives the command it was meant for, and no Abort that is past  *)
(* its flags and past the queue makes a command end as ABORTED: neither a    *)
(* stale flag nor an event that a finished Abort left set does.              *)
THEOREM AbortedHasCause == Spec => []NoStaleFlag /\ AbortedByAbort
<1>1. Init => NoStaleFlag
  BY DEF Init, NoStaleFlag
<1>2. Inv /\ QueueInv /\ NoStaleFlag /\ [Next]_vars => NoStaleFlag'
  BY NextCaused
<1>3. Inv /\ QueueInv /\ NoStaleFlag /\ [Next]_vars => [\A c \in Commands : CausedByAbort(c)]_vars
  BY NextCaused
<1> QED BY <1>1, <1>2, <1>3, AlwaysOrdered, PTL DEF Spec, AbortedByAbort
=============================================================================
