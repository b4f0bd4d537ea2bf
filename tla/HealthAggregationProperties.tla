--------------------- MODULE HealthAggregationProperties ---------------------
(* What HealthAggregation promises.                                          *)
EXTENDS HealthAggregation

Positions == {"idle", "configuring", "generated", "raised", "stopped", "ends",
              "normalised", "written", "clearing"}

HealthData ==
  [band : Bands \cup {"NONE"}, down : SUBSET Bands, gpm : SUBSET Bands,
   kvalue : Results \cup {"STARTED"}, dish : HealthStates, table : TableErrors]

IssueKinds == {"band_requested", "band_unavailable", "gpm", "kvalue", "dishmanager", "table"}

(* A list of issues: at most one of a kind, and the order of entry is total. *)
IsList(list) ==
  /\ \A i \in list.listed : i.kind \in IssueKinds
  /\ \A i, j \in list.listed : i.kind = j.kind => i = j
  /\ \A i, j \in list.listed :
       i.kind # j.kind => (<<i.kind, j.kind>> \in list.order <=> <<j.kind, i.kind>> \notin list.order)
  /\ \A p \in list.order :
       p[1] # p[2] /\ \E i, j \in list.listed : p = <<i.kind, j.kind>>
  /\ \A i, j, l \in list.listed :
       <<i.kind, j.kind>> \in list.order /\ <<j.kind, l.kind>> \in list.order =>
         <<i.kind, l.kind>> \in list.order

TypeOK ==
  /\ data \in HealthData
  /\ IsList(issues) /\ healthInfo = issues
  /\ cachedState \in HealthStates \cup {"none"}
  /\ healthState \in HealthStates
  /\ receiverBand \in Bands \cup {"NONE", "unreadable"}
  /\ cmd \in [Enders -> {"none", "Configure", "TrackStop", "Abort"}]
  /\ pc \in [Enders -> Positions]
  /\ rx \in [Enders -> Bands \cup {"NONE"}]
  /\ initialised \in BOOLEAN
  /\ calcPc \in {"idle", "told"}
  /\ bandHeard \in BOOLEAN /\ direct \in BOOLEAN
  /\ inputs \in 0..MaxInputs /\ crossed \in BOOLEAN

Listed == {i.kind : i \in issues.listed}
UnavailableBands == UNION {i.about : i \in {j \in issues.listed : j.kind = "band_unavailable"}}

(* The state a reader of healthInfo would conclude from the listed issues.   *)
StateOfIssues ==
  IF Listed \cap {"gpm", "table"} # {} THEN "DEGRADED"
  ELSE IF Listed \subseteq {"dishmanager"} THEN "OK"
  ELSE IF Listed \subseteq {"dishmanager", "band_unavailable"} /\ UnavailableBands # Bands THEN "DEGRADED"
  ELSE "FAILED"

(* The rules and the issues are written down separately, in health_rules.py  *)
(* and health_data.py: once the bands and the kValue were reported, the      *)
(* aggregated state is the one the listed issues stand for, in particular OK *)
(* exactly when nothing but the dish manager's own health is listed, and     *)
(* never UNKNOWN.                                                            *)
StateFollowsIssues ==
  bandHeard /\ data.kvalue # "STARTED" => cachedState = StateOfIssues

(* Why it holds: what is listed is what each kind of report led to when it   *)
(* came last, and the state was worked out from the same reports.            *)
Of(kinds) == {i \in issues.listed : i.kind \in kinds}

ListInv ==
  /\ Of({"band_requested", "band_unavailable"}) = IF bandHeard THEN BandIssues(data) ELSE {}
  /\ Of({"gpm"}) = GpmIssues(data)
  /\ Of({"kvalue"}) = IF data.kvalue = "STARTED" THEN {} ELSE KValueIssues(data)
  /\ Of({"dishmanager"}) \subseteq DishIssues(data)
  /\ Of({"table"}) = TableIssues(data)
  /\ cachedState = Evaluate(data) \/ (cachedState = "none" /\ ~bandHeard)

(* When no command is under way, health was worked out from the receiver     *)
(* band the component manager has, unless two commands crossed or a          *)
(* Configure ended without its report.                                       *)
BandReachesHealth ==
  (\A t \in Enders : pc[t] = "idle") /\ ~crossed => data.band = Normalise(receiverBand)

(* Why it holds: while commands do not cross, at most one is under way, and  *)
(* between its read of the band and its report nobody writes the band.       *)
BandInv ==
  ~crossed =>
    /\ \E t \in Enders : pc[t] = "idle"
    /\ \A t \in Enders : pc[t] \in {"normalised", "written"} => rx[t] = Normalise(receiverBand)
    /\ (\A t \in Enders : pc[t] \in {"idle", "clearing"}) => data.band = Normalise(receiverBand)

(* The published state is the aggregated one, except after Configure,        *)
(* SetStowMode or a calculation error set it past the health manager.        *)
OnlyDirectWritesDiffer ==
  cachedState # "none" /\ healthState # cachedState => direct

(* docs/src/knowledge_base/commands/configure_command.rst:34: when the       *)
(* generation of the track table fails, Configure updates the health state   *)
(* to DEGRADED.  While that error is held, health is at least not OK.        *)
GenerateFailureShows ==
  pc["worker"] = "raised" /\ data.table # "none" => healthState # "OK"
=============================================================================
