-------------------------- MODULE HealthAggregation --------------------------
(***************************************************************************)
(* How the Dish Leaf Node makes its healthState and healthInfo.  Event     *)
(* threads, the worker of the task queue, Abort and SetKValue report to    *)
(* DishHealthStateAndInfoManager, which keeps the last report of every     *)
(* kind, the list of issues and what it published last, all under one      *)
(* lock, so that a report is one step.  Three writers go past it and set   *)
(* healthState themselves.                                                 *)
(*                                                                         *)
(* A capability is good or bad, and a GPM result FAILED or not: the rules  *)
(* tell no more apart.  An UNKNOWN capability that is suppressed because   *)
(* the dish does not operate is a report that changes nothing.             *)
(***************************************************************************)
EXTENDS Naturals

CONSTANTS
  Bands,     \* receiver bands with a capability and a pointing model
  GpmBands,  \* those whose pointing model is validated
  Results,   \* of kValue validation, as they are reported
  Healths,   \* of the dish manager or the pointing device, as they are reported
  MaxInputs  \* bound: events and commands

ASSUME BandAssumption == GpmBands \subseteq Bands /\ Bands \cap {"NONE", "unreadable"} = {}
ASSUME ResultAssumption == Results \subseteq {"OK", "FAILED", "UNKNOWN", "NOT_ALLOWED"}
ASSUME BoundAssumption == MaxInputs \in Nat

TableErrors == {"none", "Calculation_Error", "Track_Table_Generation_Error", "Track_Table_Stop_Error"}
HealthStates == {"OK", "DEGRADED", "FAILED", "UNKNOWN"}
ASSUME HealthAssumption == Healths \subseteq HealthStates

Enders == {"worker", "abort"} \* threads on which a command ends

VARIABLES
  data,          \* health_data: the last report of every kind
  issues,        \* _active_issues: what is listed, and in which order it was entered
  cachedState,   \* _cached_health_state, "none" before the first report
  healthInfo,    \* the published summary, which is also _cached_health_info
  healthState,   \* the published state
  receiverBand,  \* receiver_band: a band, none, or a text that names no member of Band
  cmd, pc, rx,   \* of each ender: its command, where it is, the band it read
  initialised,   \* initialization_complete: the start-up timer is through
  calcPc,        \* the event thread of programTrackTableError
  bandHeard,     \* history: band issues were worked out at least once
  direct,        \* history: healthState was set past the manager since it published
  inputs,        \* events and commands so far
  crossed        \* history: two commands overlapped, or one ended without a report

manager == <<data, issues, cachedState, healthInfo, bandHeard>>
commands == <<receiverBand, cmd, pc, rx>>
vars == <<manager, healthState, direct, commands, initialised, calcPc, inputs, crossed>>

(* A dictionary keeps its keys in the order of entry.  The order matters     *)
(* because the summary is compared with the one before: it is the set of     *)
(* pairs of kinds of which the first was entered before the second.          *)
NoIssues == [listed |-> {}, order |-> {}]

Init ==
  /\ data = [band |-> "NONE", down |-> Bands, gpm |-> {}, kvalue |-> "STARTED",
             dish |-> "UNKNOWN", table |-> "none"]
  /\ issues = NoIssues
  /\ cachedState = "none"
  /\ healthInfo = NoIssues
  /\ healthState = "DEGRADED"
  /\ receiverBand = "NONE"
  /\ cmd = [t \in Enders |-> "none"]
  /\ pc = [t \in Enders |-> "idle"]
  /\ rx = [t \in Enders |-> "NONE"]
  /\ initialised = FALSE
  /\ calcPc = "idle"
  /\ bandHeard = FALSE
  /\ direct = FALSE
  /\ inputs = 0
  /\ crossed = FALSE

-----------------------------------------------------------------------------
(* The rules, in the order in which they are tried.                          *)

Unfailed(d) == d.kvalue = "OK" /\ d.gpm = {}

\* Mutant: the rules for OK do not look at the track table.
OKRulesWithoutTable(d) ==
  /\ Unfailed(d)
  /\ IF d.band # "NONE" THEN d.band \notin d.down ELSE d.down = {}

OKRules(d) ==
  /\ Unfailed(d)
  /\ IF d.band # "NONE" THEN d.band \notin d.down ELSE d.down = {}
  /\ d.table = "none"

DegradedRules(d) ==
  \/ d.gpm # {}
  \/ Unfailed(d) /\ d.band = "NONE" /\ d.down # {} /\ d.down # Bands
  \/ d.table # "none"

FailedRules(d) ==
  \/ d.kvalue # "OK"
  \/ Unfailed(d) /\ d.band # "NONE" /\ d.band \in d.down
  \/ d.band = "NONE" /\ d.down = Bands

Evaluate(d) ==
  IF OKRules(d) THEN "OK"
  ELSE IF DegradedRules(d) THEN "DEGRADED"
  ELSE IF FailedRules(d) THEN "FAILED"
  ELSE "UNKNOWN"

(* The issues one kind of report leads to.  The issues of all bands whose    *)
(* GPM failed stand next to each other and count as one.                     *)

BandIssues(d) ==
  IF d.band # "NONE"
  THEN IF d.band \in d.down THEN {[kind |-> "band_requested", about |-> {d.band}]} ELSE {}
  ELSE IF d.down # {} THEN {[kind |-> "band_unavailable", about |-> d.down]} ELSE {}

GpmIssues(d) == IF d.gpm # {} THEN {[kind |-> "gpm", about |-> d.gpm]} ELSE {}
KValueIssues(d) == IF d.kvalue # "OK" THEN {[kind |-> "kvalue", about |-> {}]} ELSE {}
DishIssues(d) == IF d.dish # "OK" THEN {[kind |-> "dishmanager", about |-> {d.dish}]} ELSE {}
TableIssues(d) == IF d.table # "none" THEN {[kind |-> "table", about |-> {d.table}]} ELSE {}

(* What is listed once the issues of some kinds are taken out, and once what *)
(* was found is entered behind the rest.                                     *)
Without(kinds) ==
  [listed |-> {i \in issues.listed : i.kind \notin kinds},
   order |-> {p \in issues.order : p[1] \notin kinds /\ p[2] \notin kinds}]

Entered(rest, found) ==
  [listed |-> rest.listed \cup found,
   order |-> rest.order \cup {<<i.kind, j.kind>> : i \in rest.listed, j \in found}]

\* Mutant: only changed information is published.
PublishChangedInfo(d, kinds, found) ==
  LET state == Evaluate(d)
      info == Entered(Without(kinds), found)
      changed == info # healthInfo
  IN /\ data' = d
     /\ issues' = info
     /\ cachedState' = state
     /\ healthInfo' = info
     /\ healthState' = IF changed THEN state ELSE healthState
     /\ direct' = (direct /\ ~changed)

(* update_health_data_and_aggregate: the issues of one kind are taken out    *)
(* and entered again at the end, and what changed is published.              *)
Aggregate(d, kinds, found) ==
  LET state == Evaluate(d)
      info == Entered(Without(kinds), found)
      changed == state # cachedState \/ info # healthInfo
  IN /\ data' = d
     /\ issues' = info
     /\ cachedState' = state
     /\ healthInfo' = info
     /\ healthState' = IF changed THEN state ELSE healthState
     /\ direct' = (direct /\ ~changed)

ReportBand(d) ==
  /\ Aggregate(d, {"band_requested", "band_unavailable"}, BandIssues(d))
  /\ bandHeard' = TRUE

ReportTable(error) ==
  LET d == [data EXCEPT !.table = error]
  IN Aggregate(d, {"table"}, TableIssues(d)) /\ UNCHANGED bandHeard

SetDirectly(state) ==
  /\ healthState' = state
  /\ direct' = TRUE
  /\ UNCHANGED manager

NoReport == UNCHANGED <<manager, healthState, direct>>

-----------------------------------------------------------------------------
(* Events of the dish.                                                       *)

CapabilityEvent(b) ==
  /\ \E down \in {data.down \cup {b}, data.down \ {b}} : ReportBand([data EXCEPT !.down = down])
  /\ UNCHANGED <<commands, initialised, calcPc>>

(* healthState of the dish manager and of the pointing device come through   *)
(* one queue and are both taken for the dish manager's.                      *)
HealthEvent ==
  /\ \E state \in Healths :
       LET d == [data EXCEPT !.dish = state]
       IN Aggregate(d, {"dishmanager"}, DishIssues(d))
  /\ UNCHANGED <<bandHeard, commands, initialised, calcPc>>

(* The model of the band matches, or it does not, is missing, or cannot be   *)
(* applied.                                                                  *)
Validated(b) == {data.gpm \cup {b}, data.gpm \ {b}}

(* A GPM event waits until the start-up timer is through, and validates and  *)
(* reports under dish_pointing_lock.                                         *)
GpmEvent(b) ==
  /\ initialised
  /\ \E failed \in Validated(b) :
       LET d == [data EXCEPT !.gpm = failed]
       IN Aggregate(d, {"gpm"}, GpmIssues(d))
  /\ UNCHANGED <<bandHeard, commands, initialised, calcPc>>

CalculationError ==
  /\ calcPc = "idle"
  /\ SetDirectly("DEGRADED")
  /\ calcPc' = "told"
  /\ UNCHANGED <<commands, initialised>>

CalculationErrorReported ==
  /\ calcPc = "told"
  /\ ReportTable("Calculation_Error")
  /\ calcPc' = "idle"
  /\ UNCHANGED <<commands, initialised>>

(* The event thread, SetKValue and the start-up timer report what they find. *)
KValueReport ==
  /\ \E result \in Results :
       LET d == [data EXCEPT !.kvalue = result]
       IN Aggregate(d, {"kvalue"}, KValueIssues(d))
  /\ UNCHANGED <<bandHeard, commands, initialised, calcPc>>

(* The timer, with or without a report, lets the GPM events through.         *)
Initialised ==
  /\ ~initialised /\ initialised' = TRUE
  /\ NoReport /\ UNCHANGED <<commands, calcPc>>

-----------------------------------------------------------------------------
(* Commands.  The worker runs one Configure or TrackStop at a time, Abort    *)
(* works next to it.                                                         *)

Goto(t, to) == pc' = [pc EXCEPT ![t] = to]

(* The band of the request or, without one, what the dish is configured for. *)
(* "5a" and "5b" of a request are no numbers and not names of Band either.   *)
ConfigureStarts ==
  /\ pc["worker"] = "idle"
  /\ receiverBand' \in Bands \cup {"NONE", "unreadable"}
  /\ cmd' = [cmd EXCEPT !["worker"] = "Configure"]
  /\ Goto("worker", "configuring")
  /\ NoReport /\ UNCHANGED <<rx, calcPc, initialised>>

GenerateTold ==
  /\ pc["worker"] = "configuring"
  /\ SetDirectly("OK")
  /\ Goto("worker", "generated")
  /\ UNCHANGED <<receiverBand, cmd, rx, calcPc, initialised>>

GenerateRaises ==
  /\ pc["worker"] = "configuring"
  /\ ReportTable("Track_Table_Generation_Error")
  /\ Goto("worker", "raised")
  /\ UNCHANGED <<receiverBand, cmd, rx, calcPc, initialised>>

(* update_task_status of a failed Configure stops the table first, and is    *)
(* left when that raises.                                                    *)
ConfigureEndRaises ==
  /\ pc["worker"] \in {"configuring", "generated", "raised"}
  /\ cmd' = [cmd EXCEPT !["worker"] = "none"]
  /\ Goto("worker", "idle")
  /\ NoReport /\ UNCHANGED <<receiverBand, rx, calcPc, initialised>>

(* The stop of the track table is tried, and its failure reported at once.   *)
StopTable(t) ==
  /\ pc[t] = "idle"
  /\ cmd' = [cmd EXCEPT ![t] = IF t = "worker" THEN "TrackStop" ELSE "Abort"]
  /\ Goto(t, "stopped")
  /\ NoReport \/ ReportTable("Track_Table_Stop_Error")
  /\ UNCHANGED <<receiverBand, rx, calcPc, initialised>>

\* Mutant: the errors are cleared but the receiver band is not reported.
StopEndsUnreported(t) ==
  /\ pc[t] = "stopped"
  /\ receiverBand' = "NONE"
  /\ Goto(t, "clearing")
  /\ NoReport /\ UNCHANGED <<cmd, rx, calcPc, initialised>>

StopEnds(t) ==
  /\ pc[t] = "stopped"
  /\ receiverBand' = "NONE"
  /\ Goto(t, "ends")
  /\ NoReport /\ UNCHANGED <<cmd, rx, calcPc, initialised>>

StowStopRaises ==
  /\ SetDirectly("DEGRADED")
  /\ UNCHANGED <<commands, initialised, calcPc>>

(* update_rxband_health_aggregation: read, write back as a Band, report.     *)

\* Mutant: what names no band is passed on.
NormaliseNothing(b) == b

Normalise(b) == IF b = "unreadable" THEN "NONE" ELSE b

ReadBand(t) ==
  /\ pc[t] \in {"configuring", "generated", "raised", "ends"}
  /\ rx' = [rx EXCEPT ![t] = Normalise(receiverBand)]
  /\ Goto(t, "normalised")
  /\ NoReport /\ UNCHANGED <<receiverBand, cmd, calcPc, initialised>>

WriteBand(t) ==
  /\ pc[t] = "normalised"
  /\ receiverBand' = rx[t]
  /\ Goto(t, "written")
  /\ NoReport /\ UNCHANGED <<cmd, rx, calcPc, initialised>>

BandReported(t) ==
  /\ pc[t] = "written"
  /\ ReportBand([data EXCEPT !.band = rx[t]])
  /\ rx' = [rx EXCEPT ![t] = "NONE"]
  /\ Goto(t, IF cmd[t] = "Configure" THEN "idle" ELSE "clearing")
  /\ cmd' = [cmd EXCEPT ![t] = "none"]
  /\ UNCHANGED <<receiverBand, calcPc, initialised>>

ErrorsCleared(t) ==
  /\ pc[t] = "clearing"
  /\ ReportTable("none")
  /\ Goto(t, "idle")
  /\ UNCHANGED <<receiverBand, cmd, rx, calcPc, initialised>>

-----------------------------------------------------------------------------
(* What starts from outside; each counts.                                    *)
Input ==
  \/ \E b \in Bands : CapabilityEvent(b)
  \/ \E b \in GpmBands : GpmEvent(b)
  \/ HealthEvent \/ CalculationError \/ StowStopRaises
  \/ KValueReport
  \/ ConfigureStarts
  \/ \E t \in Enders : StopTable(t)

Progress ==
  \/ CalculationErrorReported
  \/ Initialised
  \/ GenerateTold \/ GenerateRaises \/ ConfigureEndRaises
  \/ \E t \in Enders :
       \/ StopEnds(t)
       \/ ReadBand(t) \/ WriteBand(t) \/ BandReported(t) \/ ErrorsCleared(t)

(* Two commands are under way on two threads, or one ends without a report.  *)
NoteCrossing ==
  crossed' = (crossed \/ ConfigureEndRaises \/ \A t \in Enders : pc'[t] # "idle")

(* The bound is used up.                                                     *)
Exhausted ==
  /\ inputs = MaxInputs /\ initialised
  /\ calcPc = "idle" /\ \A t \in Enders : pc[t] = "idle"
  /\ UNCHANGED vars

Next ==
  \/ Input /\ inputs < MaxInputs /\ inputs' = inputs + 1 /\ NoteCrossing
  \/ Progress /\ UNCHANGED inputs /\ NoteCrossing
  \/ Exhausted

Spec == Init /\ [][Next]_vars
=============================================================================
