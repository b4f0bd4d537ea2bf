-------------------------- MODULE TemperatureTracking --------------------------
(***************************************************************************)
(* The rate of change of the temperature in AutoStow.  The first           *)
(* temperature event of a weather station starts a thread that compares    *)
(* the newest with the oldest sample of a window, and this thread starts a *)
(* poller that fills the window once a second.  A write of time_delta      *)
(* stops them all and leaves it to the next event to start new ones; it    *)
(* joins them under update_temp_lock, which they need for reading          *)
(* time_delta and temp_delta.                                              *)
(*                                                                         *)
(* The samples are counted, not valued.  time_delta is a float that is     *)
(* compared with their number: HalfDeltas are its values in halves.        *)
(***************************************************************************)
EXTENDS Naturals

CONSTANTS
  Stations,
  HalfDeltas,   \* the values time_delta may be given, in halves
  Slots         \* bound: the pairs of threads that run at a time

ASSUME TemperatureAssumption ==
  /\ HalfDeltas \subseteq Nat
  /\ Slots \subseteq Nat \ {0}

VARIABLES
  timeDelta,
  tracking,   \* temperature_tracking of each station
  mark,       \* initial_mark_achieved of each station
  update,     \* temp_update of each station
  samples,    \* the number of polled_temperatures of each station
  evPc,       \* the event thread of each station
  rocPc, pollPc, \* the two threads of each pair
  station,    \* which station a pair watches
  polled,     \* the length the poller has seen
  compared,   \* the length of the copy the other one compares
  pollThreads, \* pairs whose poller is in poll_threads
  started,    \* the pair a station's event thread is about to record, or 0
  tempThread, \* temp_threads: the pair of a station, 0 if it has none
  writePc,    \* where the write of time_delta is,
  toJoin,     \* the stations whose thread it has still to join
  joining,    \* and the pair whose thread it joins, 0 if none
  caught,     \* history: a write found a thread on its way to the lock
  failed      \* history: stations that have lost a thread of their pair to
              \* an exception it does not expect

flags == <<tracking, mark, update>>
pairs == <<rocPc, pollPc, station, polled, compared>>
lists == <<pollThreads, started, tempThread>>
writing == <<writePc, toJoin, joining>>
vars == <<timeDelta, flags, samples, evPc, pairs, lists, writing, caught,
          failed>>

None == [st \in Stations |-> FALSE]

Init ==
  /\ timeDelta \in HalfDeltas
  /\ tracking = None /\ mark = None /\ update = None
  /\ samples = [st \in Stations |-> 0]
  /\ evPc = [st \in Stations |-> "idle"]
  /\ rocPc = [k \in Slots |-> "ended"]
  /\ pollPc = [k \in Slots |-> "ended"]
  /\ station \in [Slots -> Stations]
  /\ polled = [k \in Slots |-> 0]
  /\ compared = [k \in Slots |-> 0]
  /\ pollThreads = {}
  /\ started = [st \in Stations |-> 0]
  /\ tempThread = [st \in Stations |-> 0]
  /\ writePc = "idle" /\ toJoin = {} /\ joining = 0
  /\ caught = FALSE /\ failed = {}

(* update_temp_lock is kept over several steps by the write alone.           *)
LockFree == writePc = "idle"

(* Bound: no event and no write is begun after a write that caught a thread. *)
Followed == ~caught

-----------------------------------------------------------------------------
(* The temperature events of a station.  The thresholds are read under the   *)
(* lock, and whether an event starts a stow does not matter here.            *)

EvSteps(st, from, to) ==
  /\ evPc[st] = from
  /\ evPc' = [evPc EXCEPT ![st] = to]
  /\ UNCHANGED <<timeDelta, mark, update, samples, writing, caught, failed>>

TakesTemperature(st) ==
  /\ Followed
  /\ LockFree
  /\ EvSteps(st, "idle", "decide")
  /\ UNCHANGED <<tracking, pairs, lists>>

AlreadyTracked(st) ==
  /\ tracking[st]
  /\ EvSteps(st, "decide", "idle")
  /\ UNCHANGED <<tracking, pairs, lists>>

(* A pair that has ended and is in no list any more.                         *)
Free ==
  {k \in Slots \ pollThreads :
     /\ rocPc[k] = "ended" /\ pollPc[k] = "ended"
     /\ \A st \in Stations : k # started[st] /\ k # tempThread[st]}

(* start_temp_tracking, in the first free pair: pairs are all alike.         *)
StartsTracking(st) ==
  /\ ~tracking[st]
  /\ EvSteps(st, "decide", "record")
  /\ tracking' = [tracking EXCEPT ![st] = TRUE]
  /\ \E k \in Free :
       /\ \A other \in Free : k <= other
       /\ rocPc' = [rocPc EXCEPT ![k] = "start"]
       /\ station' = [station EXCEPT ![k] = st]
       /\ started' = [started EXCEPT ![st] = k]
  /\ UNCHANGED <<pollPc, polled, compared, pollThreads, tempThread>>

RecordsThread(st) ==
  /\ EvSteps(st, "record", "idle")
  /\ tempThread' = [tempThread EXCEPT ![st] = started[st]]
  /\ started' = [started EXCEPT ![st] = 0]
  /\ UNCHANGED <<tracking, pairs, pollThreads>>

-----------------------------------------------------------------------------
(* _one_sec_poll                                                             *)

PollMoves(k, from, to) ==
  /\ pollPc[k] = from
  /\ pollPc' = [pollPc EXCEPT ![k] = to]
  /\ UNCHANGED <<timeDelta, tracking, evPc, rocPc, station, compared, lists,
                 writing, caught>>

PollSteps(k, from, to) == PollMoves(k, from, to) /\ UNCHANGED failed

PollChecks(k) ==
  /\ PollSteps(k, "check", IF tracking[station[k]] THEN "append" ELSE "ended")
  /\ UNCHANGED <<mark, update, samples, polled>>

PollAppends(k) ==
  /\ PollSteps(k, "append", "copy")
  /\ samples' = [samples EXCEPT ![station[k]] = @ + 1]
  /\ UNCHANGED <<mark, update, polled>>

PollCopies(k) ==
  /\ PollSteps(k, "copy", "compare")
  /\ polled' = [polled EXCEPT ![k] = samples[station[k]]]
  /\ UNCHANGED <<mark, update, samples>>

FullAtLast(k) == 2 * polled[k] = timeDelta /\ ~mark[station[k]]

\* Mutant: the window is full when it is longer than time_delta.
PollReachesMarkLate(k) ==
  /\ LockFree
  /\ 2 * polled[k] > timeDelta
  /\ ~mark[station[k]]
  /\ PollSteps(k, "compare", "notify")
  /\ mark' = [mark EXCEPT ![station[k]] = TRUE]
  /\ UNCHANGED <<update, samples, polled>>

(* The window has its length for the first time (time_delta is read twice,   *)
(* here at once) ...                                                         *)
PollReachesMark(k) ==
  /\ LockFree
  /\ FullAtLast(k)
  /\ PollSteps(k, "compare", "notify")
  /\ mark' = [mark EXCEPT ![station[k]] = TRUE]
  /\ UNCHANGED <<update, samples, polled>>

\* Mutant: a full window is trimmed, too.
TooLongOrFull(length) == 2 * length >= timeDelta
TooLong(length) == 2 * length > timeDelta

(* ... is shorter, or is not trimmed ...                                     *)
PollKeeps(k) ==
  /\ LockFree
  /\ ~FullAtLast(k) /\ ~TooLong(polled[k])
  /\ PollSteps(k, "compare", "notify")
  /\ UNCHANGED <<mark, update, samples, polled>>

(* ... or is too long: the oldest sample is removed.                         *)
PollTooLong(k) ==
  /\ LockFree
  /\ ~FullAtLast(k) /\ TooLong(polled[k])
  /\ PollSteps(k, "compare", "trim")
  /\ UNCHANGED <<mark, update, samples, polled>>

\* Mutant: a sample is taken off whether there is one or not.
TrimsBlindly(k) ==
  /\ PollSteps(k, "trim", "notify")
  /\ samples' = [samples EXCEPT ![station[k]] = @ - 1]
  /\ UNCHANGED <<mark, update, polled>>

(* pop(0) of an empty list raises, and the poller is gone.                   *)
PollTrims(k) ==
  /\ PollSteps(k, "trim", IF samples[station[k]] = 0 THEN "ended" ELSE "notify")
  /\ samples' = [samples EXCEPT ![station[k]] = IF @ = 0 THEN 0 ELSE @ - 1]
  /\ UNCHANGED <<mark, update, polled>>

PollNotifies(k) ==
  /\ PollSteps(k, "notify", "check")
  /\ update' = [update EXCEPT ![station[k]] = TRUE]
  /\ polled' = [polled EXCEPT ![k] = 0]
  /\ UNCHANGED <<mark, samples>>

(* A round that took more than a second leaves a negative pause, sleep       *)
(* raises, and the poller is gone.                                           *)
PollOverruns(k) ==
  /\ PollMoves(k, "notify", "ended")
  /\ update' = [update EXCEPT ![station[k]] = TRUE]
  /\ polled' = [polled EXCEPT ![k] = 0]
  /\ failed' = failed \cup {station[k]}
  /\ UNCHANGED <<mark, samples>>

-----------------------------------------------------------------------------
(* roc_temp                                                                  *)

RocMoves(k, from, to) ==
  /\ rocPc[k] = from
  /\ rocPc' = [rocPc EXCEPT ![k] = to]
  /\ UNCHANGED <<timeDelta, tracking, mark, evPc, station, polled, started,
                 tempThread, writing, caught>>

RocSteps(k, from, to) == RocMoves(k, from, to) /\ UNCHANGED failed

StartsPoller(k) ==
  /\ RocSteps(k, "start", "enlist")
  /\ pollPc' = [pollPc EXCEPT ![k] = "check"]
  /\ UNCHANGED <<update, samples, compared, pollThreads>>

EnlistsPoller(k) ==
  /\ RocSteps(k, "enlist", "mark")
  /\ pollThreads' = pollThreads \cup {k}
  /\ UNCHANGED <<update, samples, compared, pollPc>>

(* The wait for the mark has no timeout.                                     *)
SeesMark(k) ==
  /\ mark[station[k]]
  /\ RocSteps(k, "mark", "check")
  /\ UNCHANGED <<update, samples, compared, pollPc, pollThreads>>

RocChecks(k) ==
  /\ RocSteps(k, "check", IF tracking[station[k]] THEN "wait" ELSE "ended")
  /\ UNCHANGED <<update, samples, compared, pollPc, pollThreads>>

(* After 0.2 s without an update it looks at the flag again.                 *)
NoUpdate(k) ==
  /\ ~update[station[k]]
  /\ RocSteps(k, "wait", "check")
  /\ UNCHANGED <<update, samples, compared, pollPc, pollThreads>>

ClearsUpdate(k) ==
  /\ update[station[k]]
  /\ RocSteps(k, "wait", "copy")
  /\ update' = [update EXCEPT ![station[k]] = FALSE]
  /\ UNCHANGED <<samples, compared, pollPc, pollThreads>>

RocCopies(k) ==
  /\ RocSteps(k, "copy", "pop")
  /\ compared' = [compared EXCEPT ![k] = samples[station[k]]]
  /\ UNCHANGED <<update, samples, pollPc, pollThreads>>

(* Without a sample to remove, or to compare, the thread ends; tracking      *)
(* stays set.                                                                *)
RocPops(k) ==
  /\ RocSteps(k, "pop", IF samples[station[k]] = 0 \/ compared[k] = 0
                        THEN "ended" ELSE "delta")
  /\ samples' = [samples EXCEPT ![station[k]] = IF @ = 0 THEN 0 ELSE @ - 1]
  /\ compared' = [compared EXCEPT ![k] = 0]
  /\ UNCHANGED <<update, pollPc, pollThreads>>

(* temp_delta is read, and a stow started or not.                            *)
RocCompares(k) ==
  /\ LockFree
  /\ RocSteps(k, "delta", "check")
  /\ UNCHANGED <<update, samples, compared, pollPc, pollThreads>>

(* What publishes the rate raises: the thread reports it, and ends.          *)
RocFails(k) ==
  /\ LockFree
  /\ RocMoves(k, "delta", "ended")
  /\ failed' = failed \cup {station[k]}
  /\ UNCHANGED <<update, samples, compared, pollPc, pollThreads>>

-----------------------------------------------------------------------------
(* The write of time_delta.                                                  *)

WriteSteps(from, to) ==
  /\ writePc = from
  /\ writePc' = to
  /\ UNCHANGED <<evPc, pairs>>

(* A thread that does not look at tracking again before it reads time_delta  *)
(* or temp_delta, or that is about to set it.                                *)
OnItsWay ==
  \/ \E k \in Slots :
       \/ pollPc[k] \notin {"ended", "check"}
       \/ rocPc[k] \in {"start", "enlist", "copy", "pop", "delta"}
       \/ rocPc[k] = "wait" /\ update[station[k]]
  \/ \E st \in Stations : evPc[st] # "idle"

Tracked == {st \in Stations : tempThread[st] # 0}

WritesDelta(delta) ==
  /\ timeDelta' = delta
  /\ UNCHANGED <<flags, samples, lists, toJoin, joining, failed>>

WritesWithoutThreads ==
  /\ Followed
  /\ Tracked = {}
  /\ \E delta \in HalfDeltas \ {timeDelta} : WritesDelta(delta)
  /\ WriteSteps("idle", "idle")
  /\ caught' = (caught \/ OnItsWay)

WritesWithThreads ==
  /\ Followed
  /\ Tracked # {}
  /\ \E delta \in HalfDeltas : WritesDelta(delta)
  /\ WriteSteps("idle", "clear")
  /\ UNCHANGED caught

ClearsTracking ==
  /\ WriteSteps("clear", "pollers")
  /\ tracking' = None
  /\ caught' = (caught \/ OnItsWay)
  /\ UNCHANGED <<timeDelta, mark, update, samples, lists, toJoin, joining,
                 failed>>

\* Mutant: the pollers are not joined.
ForgetsPollers ==
  /\ WriteSteps("pollers", "stations")
  /\ pollThreads' = {}
  /\ toJoin' = Tracked
  /\ UNCHANGED <<timeDelta, flags, samples, started, tempThread, joining, caught,
                 failed>>

JoinsPollers ==
  /\ \A k \in pollThreads : pollPc[k] = "ended"
  /\ WriteSteps("pollers", "stations")
  /\ pollThreads' = {}
  /\ toJoin' = Tracked
  /\ UNCHANGED <<timeDelta, flags, samples, started, tempThread, joining, caught,
                 failed>>

(* One station after the other.                                              *)
TurnsTo(st) ==
  /\ st \in toJoin
  /\ toJoin' = toJoin \ {st}
  /\ joining' = tempThread[st]
  /\ UNCHANGED <<timeDelta, tracking, update, samples, lists, caught, failed>>

\* Mutant: a thread that waits for the mark is not woken up.
WakesNobody ==
  /\ WriteSteps("stations", "join")
  /\ \E st \in Stations : TurnsTo(st)
  /\ UNCHANGED mark

SetsMark ==
  /\ WriteSteps("stations", "join")
  /\ \E st \in Stations :
       TurnsTo(st) /\ mark' = [mark EXCEPT ![st] = TRUE]

JoinsThread ==
  /\ WriteSteps("join", "stations")
  /\ rocPc[joining] = "ended"
  /\ joining' = 0
  /\ UNCHANGED <<timeDelta, flags, samples, lists, toJoin, caught, failed>>

Cleans ==
  /\ toJoin = {}
  /\ WriteSteps("stations", "idle")
  /\ tempThread' = [st \in Stations |-> 0]
  /\ samples' = [st \in Stations |-> 0]
  /\ mark' = None /\ update' = None
  /\ failed' = {}
  /\ UNCHANGED <<timeDelta, tracking, pollThreads, started, toJoin, joining,
                 caught>>

-----------------------------------------------------------------------------
EventThread(st) ==
  \/ TakesTemperature(st)
  \/ AlreadyTracked(st)
  \/ StartsTracking(st)
  \/ RecordsThread(st)

Poller(k) ==
  \/ PollChecks(k)
  \/ PollAppends(k)
  \/ PollCopies(k)
  \/ PollReachesMark(k)
  \/ PollKeeps(k)
  \/ PollTooLong(k)
  \/ PollTrims(k)
  \/ PollNotifies(k)
  \/ PollOverruns(k)

RateOfChange(k) ==
  \/ StartsPoller(k)
  \/ EnlistsPoller(k)
  \/ SeesMark(k)
  \/ RocChecks(k)
  \/ NoUpdate(k)
  \/ ClearsUpdate(k)
  \/ RocCopies(k)
  \/ RocPops(k)
  \/ RocCompares(k)
  \/ RocFails(k)

Write ==
  \/ ClearsTracking
  \/ JoinsPollers
  \/ SetsMark
  \/ JoinsThread
  \/ Cleans

Next ==
  \/ \E st \in Stations : EventThread(st)
  \/ \E k \in Slots : Poller(k) \/ RateOfChange(k)
  \/ WritesWithoutThreads
  \/ WritesWithThreads
  \/ Write

(* Threads that can run do, and get the lock in their turn; a poller's pause *)
(* of a second comes to an end.  Events and writes of time_delta are the     *)
(* choice of others.                                                         *)
Fairness ==
  /\ WF_vars(Write)
  /\ \A k \in Slots : SF_vars(Poller(k)) /\ SF_vars(RateOfChange(k))

Spec == Init /\ [][Next]_vars /\ Fairness
=============================================================================
