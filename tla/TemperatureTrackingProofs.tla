----------------------- MODULE TemperatureTrackingProofs -----------------------
(* Theorems about TemperatureTracking, for every set of stations, every set  *)
(* of values of time_delta and every number of pairs of threads.             *)
EXTENDS TemperatureTrackingProperties, Integers, TLAPS

Live(k) == rocPc[k] # "ended" \/ pollPc[k] # "ended"

(* The write joins threads, and tracking is cleared.                         *)
Joining == writePc \in {"pollers", "stations", "join"}

(* Who knows of a thread: the event thread that has started it and has not   *)
(* yet recorded it, and a poller that is not in poll_threads yet.            *)
Known ==
  /\ \A st \in Stations : evPc[st] = "record" <=> started[st] # 0
  /\ \A k \in Slots : pollPc[k] # "ended" => k \in pollThreads \/ rocPc[k] = "enlist"

(* A pair that lives belongs to a station that is tracked, or is about to be *)
(* joined; its station knows it, and knows no other.                         *)
Watched ==
  /\ \A k \in Slots : Live(k) => tracking[station[k]] \/ Joining
  /\ \A k \in Slots : Live(k) => k \in {tempThread[station[k]], started[station[k]]}
  /\ \A st \in Stations, k \in Slots :
       started[st] # 0 /\ Live(k) /\ station[k] = st => k = started[st]
  /\ \A k, l \in Slots : k # l /\ station[k] = station[l] /\ Live(k) => ~Live(l)

(* While the write joins, nothing is started; the pollers are over first,    *)
(* and then the others, station by station.                                  *)
Joined ==
  /\ Joining =>
       /\ \A st \in Stations : evPc[st] = "idle"
       /\ \A k \in Slots : rocPc[k] \notin {"start", "enlist"}
  /\ writePc \in {"stations", "join"} =>
       \A k \in Slots :
         /\ pollPc[k] = "ended"
         /\ rocPc[k] # "ended" => station[k] \in toJoin \/ (writePc = "join" /\ k = joining)

Inv == TypeOK /\ Known /\ (~caught => Watched /\ Joined)

-----------------------------------------------------------------------------
LEMMA SlotsAreNotZero == 0 \notin Slots /\ Slots \subseteq Nat
  BY TemperatureAssumption

(* A step of one thread of a pair that lives.                                *)
LEMMA PairStep ==
  ASSUME Inv, NEW k \in Slots, Live(k),
         UNCHANGED <<tracking, evPc, station, started, tempThread, writePc, toJoin, joining, caught>>,
         pollThreads \subseteq pollThreads',
         \A l \in Slots \ {k} : rocPc'[l] = rocPc[l] /\ pollPc'[l] = pollPc[l],
         pollPc[k] = "ended" /\ pollPc'[k] # "ended" => rocPc[k] = "start" /\ rocPc'[k] = "enlist",
         rocPc'[k] # "start" \/ rocPc[k] = "start",
         rocPc'[k] = "enlist" => rocPc[k] \in {"start", "enlist"},
         rocPc[k] = "ended" => rocPc'[k] = "ended",
         rocPc[k] = "enlist" /\ rocPc'[k] # "enlist" => k \in pollThreads'
  PROVE  Known' /\ (~caught' => Watched' /\ Joined')
<1> USE DEF Inv
<1>1. Known'
  BY DEF Known
<1>2. \A l \in Slots : Live(l)' => Live(l)
  BY DEF Live
<1>3. ~caught' => Watched'
  BY <1>2 DEF Watched, Joining
<1>4. ~caught' => Joined'
  BY DEF Joined, Joining
<1> QED BY <1>1, <1>3, <1>4

LEMMA PollerInv ==
  ASSUME Inv, NEW k \in Slots, Poller(k)
  PROVE  Inv'
<1>1. PICK from \in {"check", "append", "copy", "compare", "trim", "notify"},
           to \in {"ended", "check", "append", "copy", "compare", "trim", "notify"} :
             PollMoves(k, from, to)
  BY DEF Poller, PollChecks, PollAppends, PollCopies, PollReachesMark, PollKeeps, PollTooLong, PollTrims,
         PollNotifies, PollOverruns, PollSteps
<1>2. /\ mark' \in [Stations -> BOOLEAN] /\ update' \in [Stations -> BOOLEAN]
      /\ samples' \in [Stations -> Nat] /\ polled' \in [Slots -> Nat]
  <2>1. CASE PollChecks(k) \/ PollKeeps(k) \/ PollTooLong(k)
    BY <2>1 DEF PollChecks, PollKeeps, PollTooLong, Inv, TypeOK
  <2>2. CASE PollAppends(k) \/ PollCopies(k)
    BY <2>2 DEF PollAppends, PollCopies, Inv, TypeOK
  <2>3. CASE PollReachesMark(k)
    BY <2>3 DEF PollReachesMark, Inv, TypeOK
  <2>5. CASE PollNotifies(k) \/ PollOverruns(k)
    <3>1. /\ update' = [update EXCEPT ![station[k]] = TRUE]
          /\ polled' = [polled EXCEPT ![k] = 0]
          /\ UNCHANGED <<mark, samples>>
      BY <2>5 DEF PollNotifies, PollOverruns
    <3> QED BY <3>1 DEF Inv, TypeOK
  <2>4. CASE PollTrims(k)
    BY <2>4 DEF PollTrims, Inv, TypeOK
  <2> QED BY <2>1, <2>2, <2>3, <2>4, <2>5 DEF Poller
<1>3. /\ pollPc' \in [Slots -> {"ended", "check", "append", "copy", "compare", "trim", "notify"}]
      /\ pollPc[k] # "ended" /\ \A l \in Slots \ {k} : pollPc'[l] = pollPc[l]
  BY <1>1 DEF PollMoves, Inv, TypeOK
<1>6. failed' \subseteq Stations
  <2>1. failed' \in {failed, failed \cup {station[k]}}
    BY DEF Poller, PollChecks, PollAppends, PollCopies, PollReachesMark, PollKeeps, PollTooLong, PollTrims,
           PollNotifies, PollOverruns, PollSteps
  <2> QED BY <2>1 DEF Inv, TypeOK
<1>4. TypeOK'
  BY <1>1, <1>2, <1>3, <1>6 DEF PollMoves, lists, writing, Inv, TypeOK
<1>5. Known' /\ (~caught' => Watched' /\ Joined')
  BY <1>1, <1>3, PairStep DEF PollMoves, lists, writing, Live
<1> QED BY <1>4, <1>5 DEF Inv

LEMMA RateOfChangeInv ==
  ASSUME Inv, NEW k \in Slots, RateOfChange(k)
  PROVE  Inv'
<1>1. PICK from \in {"start", "enlist", "mark", "check", "wait", "copy", "pop", "delta"},
           to \in {"ended", "enlist", "mark", "check", "wait", "copy", "pop", "delta"} :
             /\ RocMoves(k, from, to)
             /\ to = "enlist" => from = "start"
             /\ from = "start" => pollPc' = [pollPc EXCEPT ![k] = "check"] /\ to = "enlist"
             /\ from # "start" => UNCHANGED pollPc
             /\ from = "enlist" => pollThreads' = pollThreads \cup {k}
             /\ from # "enlist" => UNCHANGED pollThreads
  BY DEF RateOfChange, StartsPoller, EnlistsPoller, SeesMark, RocChecks, NoUpdate, ClearsUpdate, RocCopies,
         RocPops, RocCompares, RocFails, RocSteps
<1>2. /\ update' \in [Stations -> BOOLEAN]
      /\ samples' \in [Stations -> Nat] /\ compared' \in [Slots -> Nat]
  <2>1. CASE ClearsUpdate(k) \/ RocCopies(k)
    BY <2>1 DEF ClearsUpdate, RocCopies, Inv, TypeOK
  <2>2. CASE RocPops(k)
    BY <2>2 DEF RocPops, Inv, TypeOK
  <2>3. CASE UNCHANGED <<update, samples, compared>>
    BY <2>3 DEF Inv, TypeOK
  <2> QED BY <2>1, <2>2, <2>3
          DEF RateOfChange, StartsPoller, EnlistsPoller, SeesMark, RocChecks, NoUpdate, RocCompares, RocFails
<1>3. /\ rocPc' \in [Slots -> {"ended", "start", "enlist", "mark", "check", "wait", "copy", "pop", "delta"}]
      /\ rocPc[k] = from /\ rocPc'[k] = to /\ \A l \in Slots \ {k} : rocPc'[l] = rocPc[l]
  BY <1>1 DEF RocMoves, Inv, TypeOK
<1>4. /\ pollPc' \in [Slots -> {"ended", "check", "append", "copy", "compare", "trim", "notify"}]
      /\ \A l \in Slots \ {k} : pollPc'[l] = pollPc[l]
      /\ from # "start" => pollPc'[k] = pollPc[k]
      /\ pollThreads \subseteq pollThreads' /\ pollThreads' \subseteq Slots
      /\ from = "enlist" => k \in pollThreads'
  BY <1>1 DEF Inv, TypeOK
<1>8. failed' \subseteq Stations
  <2>1. failed' \in {failed, failed \cup {station[k]}}
    BY DEF RateOfChange, StartsPoller, EnlistsPoller, SeesMark, RocChecks, NoUpdate, ClearsUpdate, RocCopies,
           RocPops, RocCompares, RocFails, RocSteps
  <2> QED BY <2>1 DEF Inv, TypeOK
<1>5. TypeOK'
  BY <1>1, <1>2, <1>3, <1>4, <1>8 DEF RocMoves, writing, Inv, TypeOK
<1>6. UNCHANGED <<tracking, evPc, station, started, tempThread, writePc, toJoin, joining, caught>>
  BY <1>1 DEF RocMoves, writing
<1>7. Known' /\ (~caught' => Watched' /\ Joined')
  BY <1>1, <1>3, <1>4, <1>6, PairStep DEF Live
<1> QED BY <1>5, <1>7 DEF Inv

-----------------------------------------------------------------------------
LEMMA EventThreadInv ==
  ASSUME Inv, NEW st \in Stations, EventThread(st)
  PROVE  Inv'
<1> USE DEF Inv, EvSteps, writing, pairs, lists
<1>1. CASE TakesTemperature(st) \/ AlreadyTracked(st)
  <2>1. /\ UNCHANGED <<tracking, rocPc, pollPc, station, pollThreads, started, tempThread, writePc, toJoin,
                       joining, caught>>
        /\ evPc[st] # "record" /\ evPc'[st] # "record" /\ (evPc'[st] # "idle" => writePc = "idle")
        /\ \A s \in Stations \ {st} : evPc'[s] = evPc[s]
    BY <1>1 DEF TakesTemperature, AlreadyTracked, LockFree, TypeOK
  <2>2. TypeOK'
    BY <1>1 DEF TakesTemperature, AlreadyTracked, TypeOK
  <2>3. Known' /\ (Watched <=> Watched') /\ (Joined => Joined')
    BY <2>1 DEF Known, Watched, Joined, Joining, Live
  <2> QED BY <2>1, <2>2, <2>3
<1>2. CASE StartsTracking(st)
  <2>1. PICK k \in Free :
          /\ rocPc' = [rocPc EXCEPT ![k] = "start"]
          /\ station' = [station EXCEPT ![k] = st]
          /\ started' = [started EXCEPT ![st] = k]
    BY <1>2 DEF StartsTracking
  <2>2. /\ k \in Slots /\ k # 0 /\ rocPc[k] = "ended" /\ pollPc[k] = "ended" /\ k \notin pollThreads
        /\ \A s \in Stations : k # started[s] /\ k # tempThread[s]
    BY SlotsAreNotZero DEF Free
  <2>3. /\ ~tracking[st] /\ tracking' = [tracking EXCEPT ![st] = TRUE]
        /\ evPc[st] = "decide" /\ evPc' = [evPc EXCEPT ![st] = "record"]
        /\ UNCHANGED <<pollPc, pollThreads, tempThread, writePc, toJoin, joining, caught>>
    BY <1>2 DEF StartsTracking
  <2>4. TypeOK'
    BY <1>2, <2>1, <2>2 DEF StartsTracking, TypeOK
  <2>5. /\ evPc'[st] = "record" /\ started'[st] = k /\ tracking'[st]
        /\ rocPc'[k] = "start" /\ station'[k] = st
        /\ \A s \in Stations \ {st} : evPc'[s] = evPc[s] /\ started'[s] = started[s]
        /\ \A s \in Stations \ {st} : tracking'[s] = tracking[s]
        /\ \A l \in Slots \ {k} : rocPc'[l] = rocPc[l] /\ station'[l] = station[l]
    BY <2>1, <2>2, <2>3 DEF TypeOK
  <2>6. Known'
    BY <2>2, <2>3, <2>5 DEF Known
  <2>7. ASSUME ~caught' PROVE Watched' /\ Joined'
    <3>1. Watched /\ Joined /\ ~Joining
      BY <2>3, <2>7 DEF Joined
    <3>2. \A l \in Slots : Live(l) => station[l] # st
      BY <2>3, <3>1 DEF Watched
    <3>3. ~Live(k) /\ \A l \in Slots \ {k} : Live(l)' <=> Live(l)
      BY <2>2, <2>3, <2>5 DEF Live
    <3>4. station \in [Slots -> Stations]
      BY DEF TypeOK
    <3>5. Watched'
      BY <2>2, <2>3, <2>5, <3>1, <3>2, <3>3, <3>4 DEF Watched, Joining
    <3>6. Joined'
      BY <2>3, <3>1 DEF Joined, Joining
    <3> QED BY <3>5, <3>6
  <2> QED BY <2>4, <2>6, <2>7
<1>3. CASE RecordsThread(st)
  <2>1. /\ evPc[st] = "record" /\ evPc'[st] = "idle"
        /\ tempThread'[st] = started[st] /\ started'[st] = 0
        /\ \A s \in Stations \ {st} :
             evPc'[s] = evPc[s] /\ tempThread'[s] = tempThread[s] /\ started'[s] = started[s]
        /\ UNCHANGED <<tracking, rocPc, pollPc, station, pollThreads, writePc, toJoin, joining, caught>>
    BY <1>3 DEF RecordsThread, TypeOK
  <2>2. TypeOK'
    BY <1>3 DEF RecordsThread, TypeOK
  <2>3. Known'
    BY <2>1 DEF Known
  <2>4. ASSUME ~caught' PROVE Watched' /\ Joined'
    <3>1. Watched /\ Joined /\ started[st] # 0
      BY <2>1, <2>4 DEF Known
    <3>2. station \in [Slots -> Stations] /\ \A k \in Slots : Live(k)' <=> Live(k)
      BY <2>1 DEF TypeOK, Live
    <3>3. Watched'
      BY <2>1, <3>1, <3>2 DEF Watched, Joining
    <3>4. Joined'
      BY <2>1, <3>1 DEF Joined, Joining
    <3> QED BY <3>3, <3>4
  <2> QED BY <2>2, <2>3, <2>4
<1> QED BY <1>1, <1>2, <1>3 DEF EventThread

-----------------------------------------------------------------------------
LEMMA WriteInv ==
  ASSUME Inv, WritesWithoutThreads \/ WritesWithThreads \/ Write
  PROVE  Inv'
<1> USE DEF Inv, WriteSteps, pairs
<1>0. UNCHANGED <<evPc, rocPc, pollPc, station>> /\ \A k \in Slots : Live(k)' <=> Live(k)
  BY DEF WritesWithoutThreads, WritesWithThreads, Write, ClearsTracking, JoinsPollers, SetsMark, JoinsThread,
         Cleans, Live
<1>1. CASE WritesWithoutThreads
  <2>1. PICK delta \in HalfDeltas : WritesDelta(delta)
    BY <1>1 DEF WritesWithoutThreads
  <2>2. writePc = "idle" /\ writePc' = "idle" /\ caught' \in BOOLEAN /\ (~caught' => ~caught)
    BY <1>1 DEF WritesWithoutThreads, TypeOK
  <2>3. UNCHANGED <<tracking, mark, update, samples, pollThreads, started, tempThread, toJoin, joining, failed>>
        /\ timeDelta' \in HalfDeltas
    BY <2>1 DEF WritesDelta, flags, lists
  <2>4. TypeOK'
    BY <1>1, <2>2, <2>3 DEF WritesWithoutThreads, TypeOK
  <2>5. Known' /\ (Watched => Watched') /\ (Joined => Joined')
    BY <1>0, <2>2, <2>3 DEF Known, Watched, Joined, Joining
  <2> QED BY <2>2, <2>4, <2>5
<1>2. CASE WritesWithThreads
  <2>1. PICK delta \in HalfDeltas : WritesDelta(delta)
    BY <1>2 DEF WritesWithThreads
  <2>2. writePc = "idle" /\ writePc' = "clear" /\ UNCHANGED caught
    BY <1>2 DEF WritesWithThreads
  <2>3. UNCHANGED <<tracking, mark, update, samples, pollThreads, started, tempThread, toJoin, joining, failed>>
        /\ timeDelta' \in HalfDeltas
    BY <2>1 DEF WritesDelta, flags, lists
  <2>4. TypeOK'
    BY <1>2, <2>2, <2>3 DEF WritesWithThreads, TypeOK
  <2>5. Known' /\ (Watched => Watched') /\ (Joined => Joined')
    BY <1>0, <2>2, <2>3 DEF Known, Watched, Joined, Joining
  <2> QED BY <2>2, <2>4, <2>5
<1>3. CASE ClearsTracking
  <2>1. /\ writePc = "clear" /\ writePc' = "pollers" /\ tracking' = None
        /\ UNCHANGED <<timeDelta, mark, update, samples, pollThreads, started, tempThread, toJoin, joining>>
    BY <1>3 DEF ClearsTracking, lists
  <2>2. caught' \in BOOLEAN /\ (~caught' => ~caught /\ ~OnItsWay)
    BY <1>3 DEF ClearsTracking, TypeOK
  <2>3. TypeOK'
    BY <1>3, <2>1, <2>2 DEF ClearsTracking, None, TypeOK
  <2>4. Known'
    BY <1>0, <2>1 DEF Known
  <2>5. ASSUME ~caught' PROVE Watched' /\ Joined'
    <3>1. Watched /\ ~OnItsWay /\ Joining'
      BY <2>1, <2>2, <2>5 DEF Joining
    <3>2. Watched'
      BY <1>0, <2>1, <3>1 DEF Watched
    <3>3. Joined'
      BY <1>0, <2>1, <3>1 DEF Joined, OnItsWay
    <3> QED BY <3>2, <3>3
  <2> QED BY <2>3, <2>4, <2>5
<1>4. CASE JoinsPollers
  <2>1. /\ writePc = "pollers" /\ writePc' = "stations" /\ pollThreads' = {} /\ toJoin' = Tracked
        /\ UNCHANGED <<timeDelta, tracking, mark, update, samples, started, tempThread, joining, caught>>
        /\ \A k \in pollThreads : pollPc[k] = "ended"
    BY <1>4 DEF JoinsPollers, flags
  <2>2. TypeOK'
    BY <1>4, <2>1 DEF JoinsPollers, Tracked, TypeOK
  <2>3. Known'
    BY <1>0, <2>1 DEF Known
  <2>4. ASSUME ~caught' PROVE Watched' /\ Joined'
    <3>1. Watched /\ Joined /\ Joining /\ Joining'
      BY <2>1, <2>4 DEF Joining
    <3>2. Watched'
      BY <1>0, <2>1, <3>1 DEF Watched
    <3>3. \A k \in Slots : pollPc[k] = "ended"
      BY <2>1, <3>1 DEF Known, Joined
    <3>4. \A k \in Slots : rocPc[k] # "ended" => station[k] \in Tracked
      <4> SUFFICES ASSUME NEW k \in Slots, rocPc[k] # "ended" PROVE station[k] \in Tracked
        OBVIOUS
      <4>1. station[k] \in Stations /\ started[station[k]] = 0
        BY <3>1 DEF Known, Joined, TypeOK
      <4>2. tempThread[station[k]] = k
        BY <3>1, <4>1, SlotsAreNotZero DEF Watched, Live
      <4> QED BY <4>1, <4>2, SlotsAreNotZero DEF Tracked
    <3>5. Joined'
      BY <1>0, <2>1, <3>1, <3>3, <3>4 DEF Joined
    <3> QED BY <3>2, <3>5
  <2> QED BY <2>2, <2>3, <2>4
<1>5. CASE SetsMark
  <2>1. PICK st \in Stations : TurnsTo(st) /\ mark' = [mark EXCEPT ![st] = TRUE]
    BY <1>5 DEF SetsMark
  <2>2. /\ writePc = "stations" /\ writePc' = "join"
        /\ toJoin' = toJoin \ {st} /\ joining' = tempThread[st]
        /\ UNCHANGED <<timeDelta, tracking, update, samples, pollThreads, started, tempThread, caught, failed>>
    BY <1>5, <2>1 DEF SetsMark, TurnsTo, lists
  <2>3. TypeOK'
    BY <1>5, <2>1, <2>2 DEF SetsMark, TypeOK
  <2>4. Known'
    BY <1>0, <2>2 DEF Known
  <2>5. ASSUME ~caught' PROVE Watched' /\ Joined'
    <3>1. Watched /\ Joined /\ Joining /\ Joining'
      BY <2>2, <2>5 DEF Joining
    <3>2. Watched'
      BY <1>0, <2>2, <3>1 DEF Watched
    <3>3. ASSUME NEW k \in Slots, rocPc[k] # "ended", station[k] = st PROVE tempThread[st] = k
      <4>1. started[st] = 0
        BY <3>1 DEF Known, Joined
      <4> QED BY <3>1, <3>3, <4>1, SlotsAreNotZero DEF Watched, Live
    <3>4. Joined'
      BY <1>0, <2>2, <3>1, <3>3 DEF Joined
    <3> QED BY <3>2, <3>4
  <2> QED BY <2>3, <2>4, <2>5
<1>6. CASE JoinsThread
  <2>1. /\ writePc = "join" /\ writePc' = "stations" /\ rocPc[joining] = "ended" /\ joining' = 0
        /\ UNCHANGED <<timeDelta, tracking, mark, update, samples, pollThreads, started, tempThread, toJoin,
                       caught>>
    BY <1>6 DEF JoinsThread, flags, lists
  <2>2. TypeOK'
    BY <1>6, <2>1 DEF JoinsThread, TypeOK
  <2>3. Known' /\ (Watched => Watched') /\ (Joined => Joined')
    BY <1>0, <2>1 DEF Known, Watched, Joined, Joining
  <2> QED BY <2>1, <2>2, <2>3
<1>7. CASE Cleans
  <2>1. /\ toJoin = {} /\ writePc = "stations" /\ writePc' = "idle"
        /\ tempThread' = [s \in Stations |-> 0] /\ samples' = [s \in Stations |-> 0]
        /\ mark' = None /\ update' = None
        /\ UNCHANGED <<timeDelta, tracking, pollThreads, started, toJoin, joining, caught>>
    BY <1>7 DEF Cleans
  <2>2. TypeOK'
    BY <1>7, <2>1 DEF Cleans, None, TypeOK
  <2>3. Known'
    BY <1>0, <2>1 DEF Known
  <2>4. ASSUME ~caught' PROVE Watched' /\ Joined'
    <3>1. \A k \in Slots : ~Live(k)
      BY <2>1, <2>4 DEF Joined, Live
    <3> QED BY <1>0, <2>1, <3>1 DEF Watched, Joined, Joining
  <2> QED BY <2>2, <2>3, <2>4
<1> QED BY <1>1, <1>2, <1>3, <1>4, <1>5, <1>6, <1>7 DEF Write

-----------------------------------------------------------------------------
LEMMA InitInv == Init => Inv
<1> SUFFICES ASSUME Init PROVE Inv
  OBVIOUS
<1>1. TypeOK
  BY DEF Init, None, TypeOK
<1> QED BY <1>1 DEF Init, Inv, Known, Watched, Joined, Joining, Live

LEMMA NextInv == Inv /\ [Next]_vars => Inv'
<1> SUFFICES ASSUME Inv, [Next]_vars PROVE Inv'
  OBVIOUS
<1>1. CASE UNCHANGED vars
  BY <1>1 DEF vars, flags, pairs, lists, writing, Inv, TypeOK, Known, Watched, Joined, Joining, Live
<1> QED BY <1>1, EventThreadInv, PollerInv, RateOfChangeInv, WriteInv DEF Next

LEMMA AlwaysInv == Spec => []Inv
  BY InitInv, NextInv, PTL DEF Spec

(* Every variable keeps to its values; the number of samples is never        *)
(* negative, however late the two threads of a pair are.                     *)
THEOREM TypeCorrect == Spec => []TypeOK
<1>1. Inv => TypeOK
  BY DEF Inv
<1> QED BY <1>1, AlwaysInv, PTL

(* No station is watched by two pairs of threads, as long as no write of     *)
(* time_delta has caught a thread on its way to the lock.                    *)
THEOREM OneWatchOnly == Spec => []OneWatch
<1>1. Inv => OneWatch
  BY DEF Inv, Watched, Live, OneWatch
<1> QED BY <1>1, AlwaysInv, PTL

-----------------------------------------------------------------------------
(* The samples that the comparing thread will still remove without another   *)
(* update, and what is then left of the window, in halves as time_delta is.  *)
Owed(k) ==
  (IF update[station[k]] THEN 1 ELSE 0) + (IF rocPc[k] \in {"copy", "pop"} THEN 1 ELSE 0)

Left(k) == 2 * (samples[station[k]] - Owed(k))

(* Until the mark is reached nothing is removed behind the poller's back;    *)
(* from then on at most three samples are ever missing, and fewer where the  *)
(* poller is about to remove or announce one.                                *)
WindowOf(k) ==
  /\ rocPc[k] = "start" => ~mark[station[k]] /\ pollPc[k] = "ended"
  /\ ~mark[station[k]] =>
       /\ rocPc[k] \in {"start", "enlist", "mark"}
       /\ pollPc[k] = "compare" => polled[k] = samples[station[k]]
  /\ mark[station[k]] =>
       /\ \E n \in Nat : timeDelta = 2 * n
       /\ Left(k) >= timeDelta - 6
       /\ pollPc[k] \in {"copy", "compare", "notify"} => Left(k) >= timeDelta - 4
       /\ pollPc[k] = "trim" \/ (pollPc[k] = "compare" /\ 2 * polled[k] > timeDelta) =>
            Left(k) >= timeDelta - 2
  /\ rocPc[k] = "pop" => 2 * (compared[k] + 2) >= timeDelta

Windows ==
  ~caught /\ writePc = "idle" =>
    /\ \A st \in Stations : mark[st] => tracking[st]
    /\ \A k \in Slots : rocPc[k] # "ended" => WindowOf(k)

LEMMA OwedIs ==
  ASSUME NEW k \in Slots
  PROVE  Owed(k) \in 0..2
  BY DEF Owed

(* What a pair does leaves the window of another alone.                      *)
LEMMA OtherWindow ==
  ASSUME Inv, ~caught, NEW k \in Slots, NEW l \in Slots, k # l, Live(k), rocPc[l] # "ended", WindowOf(l),
         UNCHANGED <<timeDelta, station>>,
         rocPc'[l] = rocPc[l], pollPc'[l] = pollPc[l], polled'[l] = polled[l], compared'[l] = compared[l],
         \A st \in Stations \ {station[k]} :
           samples'[st] = samples[st] /\ mark'[st] = mark[st] /\ update'[st] = update[st]
  PROVE  WindowOf(l)'
<1>1. station[l] \in Stations /\ station[l] # station[k]
  BY DEF Inv, Watched, Live, TypeOK
<1>2. Left(l)' = Left(l)
  BY <1>1 DEF Left, Owed
<1> QED BY <1>1, <1>2 DEF WindowOf

LEMMA PollerWindows ==
  ASSUME Inv, Windows, ~caught, writePc = "idle", NEW k \in Slots, Poller(k)
  PROVE  Windows'
<1> DEFINE st == station[k]
<1>0. /\ st \in Stations /\ samples \in [Stations -> Nat] /\ polled \in [Slots -> Nat]
      /\ mark \in [Stations -> BOOLEAN] /\ update \in [Stations -> BOOLEAN] /\ timeDelta \in Nat
      /\ pollPc \in [Slots -> {"ended", "check", "append", "copy", "compare", "trim", "notify"}]
  BY TemperatureAssumption DEF Inv, TypeOK
<1>1. PICK from \in {"check", "append", "copy", "compare", "trim", "notify"},
           to \in {"ended", "check", "append", "copy", "compare", "trim", "notify"} :
             PollMoves(k, from, to)
  BY DEF Poller, PollChecks, PollAppends, PollCopies, PollReachesMark, PollKeeps, PollTooLong, PollTrims,
         PollNotifies, PollOverruns, PollSteps
<1>2. /\ UNCHANGED <<timeDelta, station, tracking, rocPc, compared, caught, writePc>>
      /\ pollPc[k] = from /\ pollPc'[k] = to /\ \A l \in Slots \ {k} : pollPc'[l] = pollPc[l]
  BY <1>0, <1>1 DEF PollMoves, writing
<1>3. /\ \A l \in Slots \ {k} : polled'[l] = polled[l]
      /\ \A other \in Stations \ {st} :
           samples'[other] = samples[other] /\ mark'[other] = mark[other] /\ update'[other] = update[other]
  <2>1. CASE PollChecks(k) \/ PollKeeps(k) \/ PollTooLong(k) \/ PollCopies(k)
    BY <1>0, <2>1 DEF PollChecks, PollKeeps, PollTooLong, PollCopies
  <2>2. CASE PollAppends(k)
    BY <1>0, <2>2 DEF PollAppends
  <2>3. CASE PollReachesMark(k)
    BY <1>0, <2>3 DEF PollReachesMark
  <2>4. CASE PollTrims(k)
    BY <1>0, <2>4 DEF PollTrims
  <2>5. CASE PollNotifies(k) \/ PollOverruns(k)
    BY <1>0, <2>5 DEF PollNotifies, PollOverruns
  <2> QED BY <2>1, <2>2, <2>3, <2>4, <2>5 DEF Poller
<1>4. tracking[st]
  BY <1>2 DEF Inv, Watched, Live, Joining
<1>5. ASSUME NEW l \in Slots \ {k}, rocPc'[l] # "ended" PROVE WindowOf(l)'
  <2>1. rocPc[l] # "ended" /\ WindowOf(l)
    BY <1>2, <1>5 DEF Windows
  <2>2. Live(k)
    BY <1>2 DEF Live
  <2> QED BY <1>2, <1>3, <2>1, <2>2, OtherWindow
<1>6. ASSUME rocPc[k] # "ended" PROVE WindowOf(k)'
  <2>1. WindowOf(k) /\ rocPc[k] # "start" /\ Owed(k) \in 0..2
    BY <1>2, <1>6, OwedIs DEF Windows, WindowOf
  <2>2. CASE PollChecks(k)
    BY <1>0, <1>2, <2>1, <2>2 DEF PollChecks, PollSteps, PollMoves, WindowOf, Left, Owed
  <2>3. CASE PollAppends(k)
    <3>1. pollPc'[k] = "copy" /\ samples'[st] = samples[st] + 1 /\ UNCHANGED <<mark, update, polled>>
      BY <1>0, <2>3 DEF PollAppends, PollSteps, PollMoves
    <3>2. Left(k)' = Left(k) + 2
      BY <1>0, <1>2, <2>1, <3>1 DEF Left, Owed
    <3>3. Left(k) \in Int
      BY <1>0, <2>1 DEF Left
    <3> QED BY <1>0, <1>2, <2>1, <3>1, <3>2, <3>3 DEF WindowOf
  <2>4. CASE PollCopies(k)
    <3>1. pollPc[k] = "copy" /\ pollPc'[k] = "compare" /\ polled'[k] = samples[st]
          /\ UNCHANGED <<mark, update, samples>>
      BY <1>0, <2>4 DEF PollCopies, PollSteps, PollMoves
    <3>2. Left(k)' = Left(k) /\ Left(k) = 2 * (samples[st] - Owed(k))
      BY <1>2, <3>1 DEF Left, Owed
    <3>3. ASSUME NEW n \in Nat, timeDelta = 2 * n, 2 * samples[st] > timeDelta
          PROVE  2 * (samples[st] - Owed(k)) >= timeDelta - 2
      BY <1>0, <2>1, <3>3
    <3> QED BY <1>0, <1>2, <2>1, <3>1, <3>2, <3>3 DEF WindowOf
  <2>5. CASE PollReachesMark(k)
    <3>1. pollPc[k] = "compare" /\ pollPc'[k] = "notify" /\ mark'[st] /\ ~mark[st]
          /\ 2 * polled[k] = timeDelta /\ UNCHANGED <<update, samples, polled>>
      BY <1>0, <2>5 DEF PollReachesMark, FullAtLast, PollSteps, PollMoves
    <3>2. rocPc[k] \in {"enlist", "mark"} /\ polled[k] = samples[st]
      BY <2>1, <3>1 DEF WindowOf
    <3>3. Left(k)' >= timeDelta - 2
      BY <1>0, <1>2, <3>1, <3>2 DEF Left, Owed
    <3>4. Left(k)' \in Int
      BY <1>0, <1>2, <3>1, <3>2 DEF Left, Owed
    <3>5. \E n \in Nat : timeDelta' = 2 * n
      BY <1>0, <1>2, <3>1
    <3> QED BY <1>0, <1>2, <3>1, <3>2, <3>3, <3>4, <3>5 DEF WindowOf
  <2>6. CASE PollKeeps(k) \/ PollTooLong(k)
    <3>1. /\ pollPc[k] = "compare" /\ UNCHANGED <<mark, update, samples, polled>>
          /\ pollPc'[k] = "notify" \/ (pollPc'[k] = "trim" /\ 2 * polled[k] > timeDelta)
      BY <1>0, <2>6 DEF PollKeeps, PollTooLong, TooLong, PollSteps, PollMoves
    <3>2. Left(k)' = Left(k)
      BY <1>2, <3>1 DEF Left, Owed
    <3> QED BY <1>2, <2>1, <3>1, <3>2 DEF WindowOf
  <2>7. CASE PollTrims(k)
    <3>1. /\ pollPc[k] = "trim" /\ UNCHANGED <<mark, update, polled>>
          /\ \/ samples[st] = 0 /\ samples'[st] = 0 /\ pollPc'[k] = "ended"
             \/ samples[st] > 0 /\ samples'[st] = samples[st] - 1 /\ pollPc'[k] = "notify"
      BY <1>0, <2>7 DEF PollTrims, PollSteps, PollMoves
    <3>2. Left(k)' >= Left(k) - 2 /\ Left(k) \in Int /\ Left(k)' \in Int
      BY <1>0, <1>2, <2>1, <3>1 DEF Left, Owed
    <3> QED BY <1>0, <1>2, <2>1, <3>1, <3>2 DEF WindowOf
  <2>8. CASE PollNotifies(k) \/ PollOverruns(k)
    <3>1. pollPc[k] = "notify" /\ pollPc'[k] \in {"check", "ended"} /\ UNCHANGED <<mark, samples>>
      BY <1>0, <2>8 DEF PollNotifies, PollOverruns, PollSteps, PollMoves
    <3>2. update'[st]
      BY <1>0, <2>8 DEF PollNotifies, PollOverruns
    <3>3. Left(k)' >= Left(k) - 2 /\ Left(k) \in Int /\ Left(k)' \in Int
      BY <1>0, <1>2, <2>1, <3>1, <3>2 DEF Left, Owed
    <3> QED BY <1>0, <1>2, <2>1, <3>1, <3>3 DEF WindowOf
  <2> QED BY <2>2, <2>3, <2>4, <2>5, <2>6, <2>7, <2>8 DEF Poller
<1>7. \A other \in Stations : mark'[other] => tracking'[other]
  BY <1>2, <1>3, <1>4 DEF Windows
<1> QED BY <1>2, <1>5, <1>6, <1>7 DEF Windows

LEMMA RateOfChangeWindows ==
  ASSUME Inv, Windows, ~caught, writePc = "idle", NEW k \in Slots, RateOfChange(k)
  PROVE  Windows'
<1> DEFINE st == station[k]
<1>0. /\ st \in Stations /\ samples \in [Stations -> Nat] /\ compared \in [Slots -> Nat]
      /\ mark \in [Stations -> BOOLEAN] /\ update \in [Stations -> BOOLEAN] /\ timeDelta \in Nat
      /\ rocPc \in [Slots -> {"ended", "start", "enlist", "mark", "check", "wait", "copy", "pop", "delta"}]
      /\ pollPc \in [Slots -> {"ended", "check", "append", "copy", "compare", "trim", "notify"}]
  BY TemperatureAssumption DEF Inv, TypeOK
<1>1. PICK from \in {"start", "enlist", "mark", "check", "wait", "copy", "pop", "delta"},
           to \in {"ended", "enlist", "mark", "check", "wait", "copy", "pop", "delta"} : RocMoves(k, from, to)
  BY DEF RateOfChange, StartsPoller, EnlistsPoller, SeesMark, RocChecks, NoUpdate, ClearsUpdate, RocCopies,
         RocPops, RocCompares, RocFails, RocSteps
<1>2. /\ UNCHANGED <<timeDelta, station, tracking, mark, polled, caught, writePc>>
      /\ rocPc[k] = from /\ rocPc'[k] = to /\ \A l \in Slots \ {k} : rocPc'[l] = rocPc[l]
  BY <1>0, <1>1 DEF RocMoves, writing
<1>3. /\ \A l \in Slots \ {k} : compared'[l] = compared[l] /\ pollPc'[l] = pollPc[l]
      /\ \A other \in Stations \ {st} : samples'[other] = samples[other] /\ update'[other] = update[other]
  <2>1. CASE EnlistsPoller(k) \/ SeesMark(k) \/ RocChecks(k) \/ NoUpdate(k) \/ RocCompares(k) \/ RocFails(k)
    BY <2>1 DEF EnlistsPoller, SeesMark, RocChecks, NoUpdate, RocCompares, RocFails
  <2>2. CASE StartsPoller(k)
    BY <1>0, <2>2 DEF StartsPoller
  <2>3. CASE ClearsUpdate(k)
    BY <1>0, <2>3 DEF ClearsUpdate
  <2>4. CASE RocCopies(k)
    BY <1>0, <2>4 DEF RocCopies
  <2>5. CASE RocPops(k)
    BY <1>0, <2>5 DEF RocPops
  <2> QED BY <2>1, <2>2, <2>3, <2>4, <2>5 DEF RateOfChange
<1>4. WindowOf(k) /\ Owed(k) \in 0..2 /\ Live(k)
  BY <1>2, OwedIs DEF Windows, Live
<1>5. ASSUME NEW l \in Slots \ {k}, rocPc'[l] # "ended" PROVE WindowOf(l)'
  <2>1. rocPc[l] # "ended" /\ WindowOf(l)
    BY <1>2, <1>5 DEF Windows
  <2> QED BY <1>2, <1>3, <1>4, <2>1, OtherWindow
<1>6. ASSUME rocPc'[k] # "ended" PROVE WindowOf(k)'
  <2>1. CASE StartsPoller(k)
    BY <1>0, <1>2, <1>4, <2>1 DEF StartsPoller, RocSteps, RocMoves, WindowOf
  <2>2. CASE EnlistsPoller(k) \/ SeesMark(k) \/ RocChecks(k) \/ NoUpdate(k) \/ RocCompares(k)
    <3>1. /\ UNCHANGED <<update, samples, compared, pollPc>>
          /\ rocPc[k] \notin {"start", "copy", "pop"} /\ rocPc'[k] \notin {"start", "copy", "pop"}
          /\ ~mark[st] => rocPc[k] = "enlist" /\ rocPc'[k] = "mark"
      BY <1>0, <1>2, <1>4, <1>6, <2>2
         DEF EnlistsPoller, SeesMark, RocChecks, NoUpdate, RocCompares, RocSteps, RocMoves, WindowOf
    <3>2. Left(k)' = Left(k)
      BY <1>2, <3>1 DEF Left, Owed
    <3> QED BY <1>2, <1>4, <3>1, <3>2 DEF WindowOf
  <2>3. CASE ClearsUpdate(k)
    <3>1. /\ UNCHANGED <<samples, compared, pollPc>> /\ rocPc[k] = "wait" /\ rocPc'[k] = "copy"
          /\ update[st] /\ ~update'[st]
      BY <1>0, <2>3 DEF ClearsUpdate, RocSteps, RocMoves
    <3>2. Left(k)' = Left(k)
      BY <1>2, <3>1 DEF Left, Owed
    <3> QED BY <1>2, <1>4, <3>1, <3>2 DEF WindowOf
  <2>4. CASE RocCopies(k)
    <3>1. /\ UNCHANGED <<update, samples, pollPc>> /\ rocPc[k] = "copy" /\ rocPc'[k] = "pop"
          /\ compared'[k] = samples[st]
      BY <1>0, <2>4 DEF RocCopies, RocSteps, RocMoves
    <3>2. Left(k)' = Left(k)
      BY <1>2, <3>1 DEF Left, Owed
    <3>3. mark[st] /\ Left(k) >= timeDelta - 6
      BY <1>4, <3>1 DEF WindowOf
    <3>4. Left(k) <= 2 * (samples[st] - 1)
      BY <1>0, <1>4, <3>1 DEF Left, Owed
    <3>5. Left(k) \in Int
      BY <1>0, <1>4 DEF Left
    <3>6. 2 * (samples[st] + 2) >= timeDelta
      BY <1>0, <3>3, <3>4, <3>5
    <3> QED BY <1>2, <1>4, <3>1, <3>2, <3>6 DEF WindowOf
  <2>5. CASE RocPops(k)
    <3>1. /\ UNCHANGED <<update, pollPc>> /\ rocPc[k] = "pop" /\ rocPc'[k] = "delta"
          /\ samples[st] > 0 /\ samples'[st] = samples[st] - 1
      BY <1>0, <1>6, <2>5 DEF RocPops, RocSteps, RocMoves
    <3>2. Left(k)' = Left(k)
      BY <1>0, <1>2, <3>1 DEF Left, Owed
    <3>3. mark[st]
      BY <1>4, <3>1 DEF WindowOf
    <3> QED BY <1>2, <1>4, <3>1, <3>2, <3>3 DEF WindowOf
  <2>6. ~RocFails(k)
    BY <1>0, <1>6 DEF RocFails, RocMoves
  <2> QED BY <2>1, <2>2, <2>3, <2>4, <2>5, <2>6 DEF RateOfChange
<1> QED BY <1>2, <1>5, <1>6 DEF Windows

LEMMA StartsWindows ==
  ASSUME Inv, Windows, ~caught, writePc = "idle", NEW st \in Stations, EventThread(st)
  PROVE  Windows'
<1> USE DEF EvSteps, writing
<1>1. CASE ~StartsTracking(st)
  <2>1. UNCHANGED <<timeDelta, tracking, mark, update, samples, rocPc, pollPc, station, polled, compared,
                    writePc, caught>>
    BY <1>1 DEF EventThread, TakesTemperature, AlreadyTracked, RecordsThread, pairs
  <2> QED BY <2>1 DEF Windows, WindowOf, Left, Owed
<1>2. CASE StartsTracking(st)
  <2>1. PICK k \in Slots :
          /\ rocPc[k] = "ended" /\ pollPc[k] = "ended"
          /\ rocPc' = [rocPc EXCEPT ![k] = "start"]
          /\ station' = [station EXCEPT ![k] = st]
    BY <1>2 DEF StartsTracking, Free
  <2>2. /\ ~tracking[st] /\ tracking' = [tracking EXCEPT ![st] = TRUE]
        /\ UNCHANGED <<timeDelta, mark, update, samples, pollPc, polled, compared, writePc, caught>>
    BY <1>2 DEF StartsTracking
  <2>3. /\ rocPc'[k] = "start" /\ station'[k] = st
        /\ \A l \in Slots \ {k} : rocPc'[l] = rocPc[l] /\ station'[l] = station[l]
        /\ tracking'[st] /\ \A s \in Stations \ {st} : tracking'[s] = tracking[s]
    BY <2>1, <2>2 DEF Inv, TypeOK
  <2>4. ~mark[st]
    BY <2>2 DEF Windows
  <2>5. WindowOf(k)'
    BY <2>1, <2>2, <2>3, <2>4 DEF WindowOf
  <2>6. ASSUME NEW l \in Slots \ {k}, rocPc'[l] # "ended" PROVE WindowOf(l)'
    <3>1. WindowOf(l)
      BY <2>3, <2>6 DEF Windows
    <3> QED BY <2>2, <2>3, <3>1 DEF WindowOf, Left, Owed
  <2>7. \A s \in Stations : mark'[s] => tracking'[s]
    BY <2>2, <2>3 DEF Windows
  <2> QED BY <2>5, <2>6, <2>7 DEF Windows
<1> QED BY <1>1, <1>2

LEMMA WriteWindows ==
  ASSUME Inv, Windows, ~caught', writePc' = "idle", WritesWithoutThreads \/ WritesWithThreads \/ Write
  PROVE  Windows'
<1> USE DEF WriteSteps, pairs
<1>1. CASE WritesWithoutThreads
  <2>1. PICK delta \in HalfDeltas : WritesDelta(delta)
    BY <1>1 DEF WritesWithoutThreads
  <2>2. writePc = "idle" /\ ~caught /\ ~OnItsWay /\ Tracked = {} /\ UNCHANGED <<rocPc, pollPc, station>>
    BY <1>1 DEF WritesWithoutThreads
  <2>3. UNCHANGED <<tracking, mark>>
    BY <2>1 DEF WritesDelta, flags
  <2>4. \A k \in Slots : rocPc[k] = "ended"
    <3> SUFFICES ASSUME NEW k \in Slots, rocPc[k] # "ended" PROVE FALSE
      OBVIOUS
    <3>1. station[k] \in Stations
      BY DEF Inv, TypeOK
    <3>2. started[station[k]] = 0
      BY <2>2, <3>1 DEF OnItsWay, Inv, Known
    <3>3. tempThread[station[k]] = 0
      BY <2>2, <3>1 DEF Tracked
    <3> QED BY <2>2, <3>1, <3>2, <3>3, SlotsAreNotZero DEF Inv, Watched, Live
  <2> QED BY <2>2, <2>3, <2>4 DEF Windows
<1>2. CASE Cleans
  <2>1. writePc = "stations" /\ toJoin = {} /\ ~caught /\ mark' = None /\ UNCHANGED rocPc
    BY <1>2 DEF Cleans
  <2>2. \A k \in Slots : rocPc[k] = "ended"
    BY <2>1 DEF Inv, Joined
  <2> QED BY <2>1, <2>2 DEF Windows, None
<1> QED BY <1>1, <1>2 DEF Write, WritesWithThreads, ClearsTracking, JoinsPollers, SetsMark, JoinsThread

LEMMA NextWindows == Inv /\ Windows /\ [Next]_vars => Windows'
<1> SUFFICES ASSUME Inv, Windows, [Next]_vars, ~caught', writePc' = "idle" PROVE Windows'
  BY DEF Windows
<1>1. CASE \E st \in Stations : EventThread(st)
  BY <1>1, StartsWindows
     DEF EventThread, TakesTemperature, AlreadyTracked, StartsTracking, RecordsThread, EvSteps, writing
<1>2. CASE \E k \in Slots : Poller(k) \/ RateOfChange(k)
  <2>1. UNCHANGED <<caught, writePc>>
    BY <1>2
       DEF Poller, PollChecks, PollAppends, PollCopies, PollReachesMark, PollKeeps, PollTooLong, PollTrims,
           PollNotifies, PollOverruns, PollSteps, PollMoves, RateOfChange, StartsPoller, EnlistsPoller,
           SeesMark, RocChecks, NoUpdate, ClearsUpdate, RocCopies, RocPops, RocCompares, RocFails, RocSteps,
           RocMoves,
           writing
  <2> QED BY <1>2, <2>1, PollerWindows, RateOfChangeWindows
<1>3. CASE WritesWithoutThreads \/ WritesWithThreads \/ Write
  BY <1>3, WriteWindows
<1>4. CASE UNCHANGED vars
  BY <1>4 DEF vars, flags, pairs, writing, Windows, WindowOf, Left, Owed
<1> QED BY <1>1, <1>2, <1>3, <1>4 DEF Next

(* The samples compared are at most two short of time_delta: an invariant    *)
(* that counts the samples the comparing thread will still remove.           *)
THEOREM WindowStaysFull == Spec => []WindowIsKept
<1>1. Init => Windows
  BY DEF Init, None, Windows
<1>2. Windows => WindowIsKept
  BY DEF Windows, WindowOf, WindowIsKept
<1>3. Spec => [](Inv /\ Windows)
  BY <1>1, InitInv, NextInv, NextWindows, PTL DEF Spec
<1> QED BY <1>2, <1>3, PTL
=============================================================================
