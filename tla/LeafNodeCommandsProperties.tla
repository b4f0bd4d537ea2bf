---------------------- MODULE LeafNodeCommandsProperties ----------------------
(***************************************************************************)
(* What the commands of the leaf node and its Abort promise.               *)
(***************************************************************************)
EXTENDS LeafNodeCommands

Over(c) == pc[c] \in {"dropped", "done"}

(* The values every variable may have; the lock is kept over several steps   *)
(* by the Abort that is inside its with block, and by nobody else.           *)
TypeOK ==
  /\ dish \in DishStates
  /\ generating \in BOOLEAN
  /\ queue \in Seq(Commands)
  /\ kind \in [Commands -> Kinds \cup {"none"}]
  /\ pc \in [Commands -> {"new", "queued", "adapter", "call", "callStop",
                          "stopTables", "wait", "callStandby", "callFP",
                          "waitFP", "callLP", "waitLP", "conclude", "dropped",
                          "done"}]
  /\ verdict \in [Commands -> {"none", "OK", "FAILED", "ABORTED"}]
  /\ told \in [Commands -> {"none", "REJECTED", "IN_PROGRESS", "OK", "FAILED",
                            "ABORTED"}]
  /\ abortFlag \in [Commands -> BOOLEAN]
  /\ tangoLock \in Aborts \cup {0}
  /\ \A a \in Aborts :
       tangoLock = a <=> abortPc[a] \in {"raisedAgain", "do", "wait"}
  /\ abortEvent \in {"queue", "dummy"}
  /\ queueEvent \in BOOLEAN
  /\ abortPc \in [Aborts -> {"idle", "raised", "flagged", "tasks", "event",
                             "lock", "raisedAgain", "do", "wait", "done"}]
  /\ before \in [Aborts -> SUBSET Commands]
  /\ outcome \in [Commands -> {"none", "ABORTED", "STANDBY_FP", "STANDBY_LP"}]

-----------------------------------------------------------------------------
(* An Abort is the last word on what was sent before it: when it calls the   *)
(* dish, every command that was running or queued when it came is over, so   *)
(* that none of them calls the dish any more; also when another Abort clears *)
(* the event by which this one empties the queue (abort, invoke_abort).      *)
NothingOutlivesAbort ==
  \A a \in Aborts :
    abortPc[a] \in {"event", "lock", "raisedAgain", "do", "wait", "done"} =>
      before[a] = {}

(* A command that reports OK has done what it is there for.  An Off has seen *)
(* the dish in STANDBY_LP, unless it saw an Abort, after which it reports OK *)
(* all the same; after a TrackStop the pointing device has been stopped       *)
(* (off_command.py 96-127, trackstop_command.py 108-140).                    *)
OKMeansDone ==
  [][\A c \in Commands :
       told'[c] = "OK" /\ told[c] # "OK" =>
         /\ kind[c] = "Off" => outcome[c] \in {"STANDBY_LP", "ABORTED"}
         /\ kind[c] = "TrackStop" => ~generating]_vars

(* What clients see of all this is a queue of commands that are run one at a *)
(* time in the order in which they were sent, and emptied by an Abort.       *)
PhaseOf(step) ==
  IF step = "new" THEN "new"
  ELSE IF step = "queued" THEN "waiting"
  ELSE IF step \in {"dropped", "done"} THEN "over"
  ELSE "running"

AbortPhaseOf(step) ==
  IF step = "idle" THEN "idle"
  ELSE IF step \in {"raised", "flagged", "tasks", "event", "lock"} THEN "waits"
  ELSE IF step = "done" THEN "ended"
  ELSE "acts"

phase == [c \in Commands |-> PhaseOf(pc[c])]
abort == [a \in Aborts |-> AbortPhaseOf(abortPc[a])]

Clients == INSTANCE CommandQueue WITH
             aborted <- abortFlag, report <- told, found <- before

(* The steps of do(), the adapters, the locks and the two events are details *)
(* of this queue: no interleaving of worker and Aborts reorders commands,    *)
(* starts one beside another, reports one twice or lets an Abort overtake    *)
(* what it found (submit_task, process_queue, abort_tasks, invoke_abort).    *)
ImplementsQueue == Clients!Spec

(* Why it holds: what waits is what is in the queue, oldest first, and a     *)
(* command runs when all that were sent before it are over; a verdict is     *)
(* there when one is told, and is ABORTED only while the flag is up; and the *)
(* queue's event is set only while an Abort waits for the queue.             *)
OrderInv ==
  /\ \A i \in 1..Len(queue) : pc[queue[i]] = "queued"
  /\ \A i, j \in 1..Len(queue) : i < j => queue[i] < queue[j]
  /\ \A c \in Commands : pc[c] # "new" => \A d \in 1..(c - 1) : pc[d] # "new"
  /\ \A c \in Commands : Active(c) => \A d \in 1..(c - 1) : Over(d)

VerdictInv ==
  \A c \in Commands :
    /\ pc[c] \in {"stopTables", "waitLP", "conclude"} => verdict[c] # "none"
    /\ verdict[c] = "ABORTED" => abortFlag[c]

EventInv == queueEvent => QueueAborting

(* All that was sent ends, Aborts as well: although an Abort waits for the   *)
(* worker, a command behind it for the lock it keeps while the dish moves,   *)
(* and another Abort for both (abort_tasks, invoke_abort).                   *)
Busy ==
  \/ \E c \in Commands : pc[c] # "new" /\ ~Over(c)
  \/ \E a \in Aborts : abortPc[a] \notin {"idle", "done"}

EverythingEnds == Busy ~> ~Busy
=============================================================================
