--------------------- MODULE TemperatureTrackingProperties ---------------------
(***************************************************************************)
(* What the temperature tracking of AutoStow promises.                     *)
(***************************************************************************)
EXTENDS TemperatureTracking

(* The values every variable may have.                                       *)
TypeOK ==
  /\ timeDelta \in HalfDeltas
  /\ tracking \in [Stations -> BOOLEAN]
  /\ mark \in [Stations -> BOOLEAN]
  /\ update \in [Stations -> BOOLEAN]
  /\ samples \in [Stations -> Nat]
  /\ evPc \in [Stations -> {"idle", "decide", "record"}]
  /\ rocPc \in [Slots -> {"ended", "start", "enlist", "mark", "check", "wait",
                          "copy", "pop", "delta"}]
  /\ pollPc \in [Slots -> {"ended", "check", "append", "copy", "compare",
                           "trim", "notify"}]
  /\ station \in [Slots -> Stations]
  /\ polled \in [Slots -> Nat]
  /\ compared \in [Slots -> Nat]
  /\ pollThreads \subseteq Slots
  /\ started \in [Stations -> Slots \cup {0}]
  /\ tempThread \in [Stations -> Slots \cup {0}]
  /\ writePc \in {"idle", "clear", "pollers", "stations", "join"}
  /\ toJoin \subseteq Stations
  /\ joining \in Slots \cup {0}
  /\ caught \in BOOLEAN
  /\ failed \subseteq Stations

-----------------------------------------------------------------------------
(* A write of time_delta ends unless it caught a thread on its way to the    *)
(* lock it holds, or about to set tracking again: it joins threads that it   *)
(* has told to stop, and wakes those that wait for their mark                *)
(* (auto_stow.py 353-376).                                                   *)
WriteEnds == writePc # "idle" ~> writePc = "idle" \/ caught

(* A station is watched by one pair of threads, so that each sample is taken *)
(* and removed once: a write is through with the old ones before an event    *)
(* can start new ones, unless it caught a thread as above.                   *)
OneWatch ==
  ~caught =>
    \A k, l \in Slots :
      /\ k # l /\ station[k] = station[l]
      /\ rocPc[k] # "ended" \/ pollPc[k] # "ended"
      => rocPc[l] = "ended" /\ pollPc[l] = "ended"

(* The samples compared are at most two short of time_delta, however late    *)
(* either thread is: an update that was left from the sample before, and a   *)
(* poller that has removed a sample and not yet announced it, let the other  *)
(* thread remove one sample each too many, and no more                       *)
(* (auto_stow.py 535-556, 575-585).                                          *)
WindowIsKept ==
  ~caught /\ writePc = "idle" =>
    \A k \in Slots : rocPc[k] = "pop" => 2 * (compared[k] + 2) >= timeDelta

(* The rate of change of a station that stays tracked is compared again and  *)
(* again, when time_delta is a whole number of seconds, of at least three: a *)
(* fraction is never the length of a list, and a window of two can run empty *)
(* under the thread that compares, which ends it (auto_stow.py 545,          *)
(* 577-579).  A station that loses a thread to a round of more than a second *)
(* (556), or to what publishes the rate (586-597), stays tracked and         *)
(* unwatched until time_delta is written: that write brings its watch back.  *)
RateIsWatched ==
  \A st \in Stations :
    <>[](tracking[st] /\ ~caught /\ st \notin failed /\ timeDelta % 2 = 0 /\ timeDelta >= 6) =>
      []<>(\E k \in Slots : station[k] = st /\ rocPc[k] = "delta")
=============================================================================
