----------------------- MODULE HealthAggregationProofs -----------------------
(* Theorems about HealthAggregation, for every set of bands.                 *)
EXTENDS HealthAggregationProperties, TLAPS

(* What the reported data evaluates to is a state.                           *)
LEMMA EvaluateType == \A d : Evaluate(d) \in HealthStates
  BY DEF Evaluate, HealthStates

(* health_rules.py against the issues of health_data.py: the rules give OK   *)
(* exactly when no report but the dish manager's leads to an issue.          *)
THEOREM OKMeansNoIssue ==
  ASSUME NEW d \in HealthData
  PROVE  Evaluate(d) = "OK" <=>
           BandIssues(d) = {} /\ GpmIssues(d) = {} /\ KValueIssues(d) = {} /\ TableIssues(d) = {}
<1>1. Evaluate(d) = "OK" <=> OKRules(d)
  BY DEF Evaluate
<1>2. \A x : {x} # {}
  OBVIOUS
<1>3. BandIssues(d) = {} <=> IF d.band # "NONE" THEN d.band \notin d.down ELSE d.down = {}
  BY <1>2 DEF BandIssues
<1>4. /\ GpmIssues(d) = {} <=> d.gpm = {}
      /\ KValueIssues(d) = {} <=> d.kvalue = "OK"
      /\ TableIssues(d) = {} <=> d.table = "none"
  BY <1>2 DEF GpmIssues, KValueIssues, TableIssues
<1> QED BY <1>1, <1>3, <1>4 DEF OKRules, Unfailed

(* The rules leave no case to the UNKNOWN fallback of evaluate_health_state. *)
THEOREM RulesDecide ==
  ASSUME NEW d \in HealthData
  PROVE  Evaluate(d) # "UNKNOWN"
<1>1. SUFFICES ASSUME ~OKRules(d), ~DegradedRules(d)
               PROVE  FailedRules(d)
  BY DEF Evaluate
<1>2. d.gpm = {} /\ d.table = "none"
  BY <1>1 DEF DegradedRules
<1>3. CASE d.kvalue # "OK"
  BY <1>3 DEF FailedRules
<1>4. CASE d.kvalue = "OK"
  <2>1. Unfailed(d)
    BY <1>2, <1>4 DEF Unfailed
  <2>2. CASE d.band # "NONE"
    BY <1>1, <1>2, <2>1, <2>2 DEF OKRules, FailedRules
  <2>3. CASE d.band = "NONE"
    BY <1>1, <1>2, <2>1, <2>3 DEF OKRules, DegradedRules, FailedRules
  <2> QED BY <2>2, <2>3
<1> QED BY <1>3, <1>4

-----------------------------------------------------------------------------
(* A report leaves the published and the aggregated state equal, or both as  *)
(* they were.                                                                *)
LEMMA AggregatePublishes ==
  ASSUME NEW d, NEW kinds, NEW found, Aggregate(d, kinds, found)
  PROVE  \/ healthState' = cachedState'
         \/ UNCHANGED <<healthState, cachedState>> /\ (direct => direct')
<1> DEFINE info == Entered(Without(kinds), found)
           changed == Evaluate(d) # cachedState \/ info # healthInfo
<1>1. /\ cachedState' = Evaluate(d)
      /\ healthState' = IF changed THEN Evaluate(d) ELSE healthState
      /\ direct' = (direct /\ ~changed)
  BY DEF Aggregate
<1> HIDE DEF info
<1> QED BY <1>1

(* What a step does to the published state.                                  *)
LEMMA StepPublishes ==
  ASSUME Next
  PROVE  \/ healthState' = cachedState'
         \/ UNCHANGED <<healthState, cachedState>> /\ (direct => direct')
         \/ direct' = TRUE
<1> DEFINE Goal == \/ healthState' = cachedState'
                   \/ UNCHANGED <<healthState, cachedState>> /\ (direct => direct')
                   \/ direct' = TRUE
<1>band. ASSUME NEW d, ReportBand(d) PROVE Goal
  BY <1>band, AggregatePublishes DEF ReportBand
<1>table. ASSUME NEW e, ReportTable(e) PROVE Goal
  BY <1>table, AggregatePublishes DEF ReportTable
<1>direct. ASSUME NEW s, SetDirectly(s) PROVE Goal
  BY <1>direct DEF SetDirectly
<1>silent. ASSUME NoReport PROVE Goal
  BY <1>silent DEF NoReport, manager
<1>1. ASSUME Input PROVE Goal
  <2>1. ASSUME NEW b \in Bands, CapabilityEvent(b) PROVE Goal
    BY <2>1, <1>band DEF CapabilityEvent
  <2>2. ASSUME NEW b \in GpmBands, GpmEvent(b) PROVE Goal
    BY <2>2, AggregatePublishes DEF GpmEvent
  <2>3. ASSUME HealthEvent PROVE Goal
    BY <2>3, AggregatePublishes DEF HealthEvent
  <2>4. ASSUME KValueReport PROVE Goal
    BY <2>4, AggregatePublishes DEF KValueReport
  <2>5. ASSUME CalculationError \/ StowStopRaises PROVE Goal
    BY <2>5, <1>direct DEF CalculationError, StowStopRaises
  <2>6. ASSUME ConfigureStarts PROVE Goal
    BY <2>6, <1>silent DEF ConfigureStarts
  <2>7. ASSUME NEW t \in Enders, StopTable(t) PROVE Goal
    BY <2>7, <1>silent, <1>table DEF StopTable
  <2> QED BY <1>1, <2>1, <2>2, <2>3, <2>4, <2>5, <2>6, <2>7 DEF Input
<1>2. ASSUME Progress PROVE Goal
  <2>1. ASSUME CalculationErrorReported \/ GenerateRaises PROVE Goal
    BY <2>1, <1>table DEF CalculationErrorReported, GenerateRaises
  <2>2. ASSUME GenerateTold PROVE Goal
    BY <2>2, <1>direct DEF GenerateTold
  <2>3. ASSUME Initialised \/ ConfigureEndRaises PROVE Goal
    BY <2>3, <1>silent DEF Initialised, ConfigureEndRaises
  <2>4. ASSUME NEW t \in Enders, StopEnds(t) \/ ReadBand(t) \/ WriteBand(t) PROVE Goal
    BY <2>4, <1>silent DEF StopEnds, ReadBand, WriteBand
  <2>5. ASSUME NEW t \in Enders, BandReported(t) PROVE Goal
    BY <2>5, <1>band DEF BandReported
  <2>6. ASSUME NEW t \in Enders, ErrorsCleared(t) PROVE Goal
    BY <2>6, <1>table DEF ErrorsCleared
  <2> QED BY <1>2, <2>1, <2>2, <2>3, <2>4, <2>5, <2>6 DEF Progress
<1>3. ASSUME Exhausted PROVE Goal
  BY <1>3 DEF Exhausted, vars, manager
<1> QED BY <1>1, <1>2, <1>3 DEF Next

(* The published state is the aggregated one unless it was set past the      *)
(* health manager since it was published last.                               *)
THEOREM PublishedIsAggregated == Spec => []OnlyDirectWritesDiffer
<1>1. Init => OnlyDirectWritesDiffer
  BY DEF Init, OnlyDirectWritesDiffer
<1>2. OnlyDirectWritesDiffer /\ [Next]_vars => OnlyDirectWritesDiffer'
  <2> SUFFICES ASSUME OnlyDirectWritesDiffer, [Next]_vars
               PROVE  OnlyDirectWritesDiffer'
    OBVIOUS
  <2>1. CASE Next
    BY <2>1, StepPublishes DEF OnlyDirectWritesDiffer
  <2>2. CASE UNCHANGED vars
    BY <2>2 DEF vars, manager, OnlyDirectWritesDiffer
  <2> QED BY <2>1, <2>2
<1> QED BY <1>1, <1>2, PTL DEF Spec

-----------------------------------------------------------------------------
(* What one report enters: at most one issue, of one of its kinds.           *)
IssuesOf(kinds, found) ==
  /\ kinds \subseteq IssueKinds
  /\ \A i \in found : i.kind \in kinds
  /\ \A i, j \in found : i = j

BandKinds == {"band_requested", "band_unavailable"}

LEMMA EveryReportIs ==
  ASSUME NEW d
  PROVE  /\ IssuesOf(BandKinds, BandIssues(d))
         /\ IssuesOf({"gpm"}, GpmIssues(d))
         /\ IssuesOf({"kvalue"}, KValueIssues(d))
         /\ IssuesOf({"dishmanager"}, DishIssues(d))
         /\ IssuesOf({"table"}, TableIssues(d))
<1> USE DEF IssuesOf, IssueKinds
<1>1. IssuesOf(BandKinds, BandIssues(d))
  BY DEF BandIssues, BandKinds
<1>2. IssuesOf({"gpm"}, GpmIssues(d)) /\ IssuesOf({"kvalue"}, KValueIssues(d))
  BY DEF GpmIssues, KValueIssues
<1>3. IssuesOf({"dishmanager"}, DishIssues(d)) /\ IssuesOf({"table"}, TableIssues(d))
  BY DEF DishIssues, TableIssues
<1> QED BY <1>1, <1>2, <1>3

(* Taking kinds out of a list leaves a list, and none of these kinds.        *)
LEMMA WithoutIsList ==
  ASSUME IsList(issues), NEW kinds
  PROVE  IsList(Without(kinds)) /\ \A i \in Without(kinds).listed : i.kind \notin kinds
<1> DEFINE rest == Without(kinds)
<1>1. /\ rest.listed = {i \in issues.listed : i.kind \notin kinds}
      /\ rest.order = {p \in issues.order : p[1] \notin kinds /\ p[2] \notin kinds}
  BY DEF Without
<1>2. \A k, l : <<k, l>> \in rest.order <=> <<k, l>> \in issues.order /\ k \notin kinds /\ l \notin kinds
  BY <1>1
<1> HIDE DEF rest
<1>3. \A p \in rest.order : p[1] # p[2] /\ \E i, j \in rest.listed : p = <<i.kind, j.kind>>
  <2> SUFFICES ASSUME NEW p \in rest.order
               PROVE  p[1] # p[2] /\ \E i, j \in rest.listed : p = <<i.kind, j.kind>>
    OBVIOUS
  <2>1. p \in issues.order /\ p[1] \notin kinds /\ p[2] \notin kinds
    BY <1>1
  <2>2. PICK i \in issues.listed, j \in issues.listed : p = <<i.kind, j.kind>>
    BY <2>1 DEF IsList
  <2>3. i \in rest.listed /\ j \in rest.listed
    BY <1>1, <2>1, <2>2
  <2>4. p[1] # p[2]
    BY <2>1 DEF IsList
  <2> QED BY <2>2, <2>3, <2>4
<1>4. \A i, j \in rest.listed :
        i.kind # j.kind => (<<i.kind, j.kind>> \in rest.order <=> <<j.kind, i.kind>> \notin rest.order)
  BY <1>1, <1>2 DEF IsList
<1>5. \A i \in rest.listed : i.kind \in IssueKinds /\ i.kind \notin kinds
  BY <1>1 DEF IsList
<1>6. \A i, j \in rest.listed : i.kind = j.kind => i = j
  BY <1>1 DEF IsList
<1>7. \A i, j, l \in rest.listed :
        <<i.kind, j.kind>> \in rest.order /\ <<j.kind, l.kind>> \in rest.order =>
          <<i.kind, l.kind>> \in rest.order
  BY <1>1, <1>2 DEF IsList
<1>8. IsList(rest)
  BY <1>3, <1>4, <1>5, <1>6, <1>7 DEF IsList
<1> QED BY <1>5, <1>8 DEF rest

(* Entering an issue of a new kind behind the rest leaves a list.            *)
LEMMA EnteredIsList ==
  ASSUME NEW rest, IsList(rest), NEW kinds, NEW found, IssuesOf(kinds, found),
         \A i \in rest.listed : i.kind \notin kinds
  PROVE  IsList(Entered(rest, found))
<1> DEFINE all == Entered(rest, found)
<1>1. /\ all.listed = rest.listed \cup found
      /\ all.order = rest.order \cup {<<i.kind, j.kind>> : i \in rest.listed, j \in found}
  BY DEF Entered
<1>2. \A k, l : <<k, l>> \in all.order <=>
                  \/ <<k, l>> \in rest.order
                  \/ (\E i \in rest.listed : i.kind = k) /\ (\E j \in found : j.kind = l)
  BY <1>1
<1> HIDE DEF all
<1>3. \A i \in found : i.kind \in kinds /\ i.kind \in IssueKinds
  BY DEF IssuesOf
<1>4. \A k, l : <<k, l>> \in rest.order =>
                  (\E i \in rest.listed : i.kind = k) /\ (\E j \in rest.listed : j.kind = l)
  <2> SUFFICES ASSUME NEW k, NEW l, <<k, l>> \in rest.order
               PROVE  (\E i \in rest.listed : i.kind = k) /\ (\E j \in rest.listed : j.kind = l)
    OBVIOUS
  <2>1. PICK i \in rest.listed, j \in rest.listed : <<k, l>> = <<i.kind, j.kind>>
    BY DEF IsList
  <2> QED BY <2>1
<1>5. \A i \in all.listed : i.kind \in IssueKinds
  BY <1>1, <1>3 DEF IsList
<1>6. \A i, j \in all.listed : i.kind = j.kind => i = j
  BY <1>1, <1>3 DEF IsList, IssuesOf
<1>7. \A i, j \in all.listed :
        i.kind # j.kind => (<<i.kind, j.kind>> \in all.order <=> <<j.kind, i.kind>> \notin all.order)
  <2> SUFFICES ASSUME NEW i \in all.listed, NEW j \in all.listed, i.kind # j.kind
               PROVE  <<i.kind, j.kind>> \in all.order <=> <<j.kind, i.kind>> \notin all.order
    OBVIOUS
  <2>1. CASE i \in rest.listed /\ j \in rest.listed
    <3>1. \A f \in found : f.kind # i.kind /\ f.kind # j.kind
      BY <1>3, <2>1
    <3> QED BY <1>2, <2>1, <3>1 DEF IsList
  <2>2. CASE i \in found \/ j \in found
    <3>1. \/ i \in found /\ j \in rest.listed
          \/ i \in rest.listed /\ j \in found
      BY <1>1, <2>2 DEF IssuesOf
    <3>2. \A r \in rest.listed, f \in found :
            <<r.kind, f.kind>> \in all.order /\ <<f.kind, r.kind>> \notin all.order
      BY <1>2, <1>3, <1>4
    <3> QED BY <3>1, <3>2
  <2> QED BY <1>1, <2>1, <2>2
<1>8. \A p \in all.order : p[1] # p[2] /\ \E i, j \in all.listed : p = <<i.kind, j.kind>>
  <2> SUFFICES ASSUME NEW p \in all.order
               PROVE  p[1] # p[2] /\ \E i, j \in all.listed : p = <<i.kind, j.kind>>
    OBVIOUS
  <2>1. CASE p \in rest.order
    BY <1>1, <2>1 DEF IsList
  <2>2. CASE p \notin rest.order
    <3>1. PICK i \in rest.listed, j \in found : p = <<i.kind, j.kind>>
      BY <1>1, <2>2
    <3> QED BY <1>1, <1>3, <3>1
  <2> QED BY <2>1, <2>2
<1>9. \A i, j, l \in all.listed :
        <<i.kind, j.kind>> \in all.order /\ <<j.kind, l.kind>> \in all.order =>
          <<i.kind, l.kind>> \in all.order
  <2> SUFFICES ASSUME NEW i \in all.listed, NEW j \in all.listed, NEW l \in all.listed,
                      <<i.kind, j.kind>> \in all.order, <<j.kind, l.kind>> \in all.order
               PROVE  <<i.kind, l.kind>> \in all.order
    OBVIOUS
  <2>1. <<i.kind, j.kind>> \in rest.order
    BY <1>2, <1>3, <1>4
  <2>2. i \in rest.listed /\ j \in rest.listed
    BY <1>1, <1>3, <1>4, <2>1
  <2>3. CASE <<j.kind, l.kind>> \in rest.order
    <3>1. l \in rest.listed
      BY <1>1, <1>3, <1>4, <2>3
    <3> QED BY <1>2, <2>1, <2>2, <2>3, <3>1 DEF IsList
  <2>4. CASE <<j.kind, l.kind>> \notin rest.order
    BY <1>2, <2>2, <2>4
  <2> QED BY <2>3, <2>4
<1>10. IsList(all)
  BY <1>5, <1>6, <1>7, <1>8, <1>9 DEF IsList
<1> QED BY <1>10 DEF all

(* A report of typed data leaves the manager typed.                          *)
LEMMA AggregateTypes ==
  ASSUME TypeOK, NEW d \in HealthData, NEW kinds, NEW found, IssuesOf(kinds, found),
         Aggregate(d, kinds, found)
  PROVE  /\ data' = d /\ data' \in HealthData
         /\ IsList(issues)' /\ healthInfo' = issues'
         /\ cachedState' \in HealthStates \cup {"none"}
         /\ healthState' \in HealthStates
         /\ direct' \in BOOLEAN
<1>1. issues' = Entered(Without(kinds), found) /\ healthInfo' = issues'
  BY DEF Aggregate
<1>2. IsList(Entered(Without(kinds), found))
  BY WithoutIsList, EnteredIsList DEF TypeOK
<1>3. IsList(issues)'
  BY <1>1, <1>2 DEF IsList
<1>4. /\ data' = d
      /\ cachedState' = Evaluate(d)
      /\ healthState' \in {Evaluate(d), healthState}
      /\ direct' \in BOOLEAN
  BY DEF Aggregate, TypeOK
<1> QED BY <1>1, <1>3, <1>4, EvaluateType DEF TypeOK

ManagerTyped ==
  /\ data \in HealthData
  /\ IsList(issues) /\ healthInfo = issues
  /\ cachedState \in HealthStates \cup {"none"}
  /\ healthState \in HealthStates
  /\ direct \in BOOLEAN
  /\ bandHeard \in BOOLEAN

(* Each way to report, or not to, keeps the manager typed, and only a report *)
(* of the bands can change the band.                                         *)
LEMMA ReportTypes ==
  ASSUME TypeOK
  PROVE  /\ \A d \in HealthData : ReportBand(d) => ManagerTyped' /\ data' = d
         /\ \A e \in TableErrors : ReportTable(e) => ManagerTyped' /\ data'.band = data.band
         /\ \A s \in HealthStates : SetDirectly(s) => ManagerTyped' /\ data' = data
         /\ NoReport => ManagerTyped' /\ data' = data
<1>1. ASSUME NEW d \in HealthData, ReportBand(d) PROVE ManagerTyped' /\ data' = d
  BY <1>1, AggregateTypes, EveryReportIs DEF ReportBand, BandKinds, ManagerTyped
<1>2. ASSUME NEW e \in TableErrors, ReportTable(e) PROVE ManagerTyped' /\ data'.band = data.band
  <2> DEFINE d == [data EXCEPT !.table = e]
  <2>1. d \in HealthData /\ d.band = data.band
    BY DEF TypeOK, HealthData
  <2>2. Aggregate(d, {"table"}, TableIssues(d)) /\ UNCHANGED bandHeard
    BY <1>2 DEF ReportTable
  <2> HIDE DEF d
  <2> QED BY <2>1, <2>2, AggregateTypes, EveryReportIs DEF ManagerTyped, TypeOK
<1>3. ASSUME NEW s \in HealthStates, SetDirectly(s) PROVE ManagerTyped' /\ data' = data
  BY <1>3 DEF SetDirectly, manager, ManagerTyped, TypeOK
<1>4. ASSUME NoReport PROVE ManagerTyped' /\ data' = data
  BY <1>4 DEF NoReport, manager, ManagerTyped, TypeOK
<1> QED BY <1>1, <1>2, <1>3, <1>4

(* The commands' part of TypeOK.                                             *)
CommandsTyped ==
  /\ receiverBand \in Bands \cup {"NONE", "unreadable"}
  /\ cmd \in [Enders -> {"none", "Configure", "TrackStop", "Abort"}]
  /\ pc \in [Enders -> Positions]
  /\ rx \in [Enders -> Bands \cup {"NONE"}]
  /\ initialised \in BOOLEAN
  /\ calcPc \in {"idle", "told"}

LEMMA TypeParts ==
  TypeOK <=> ManagerTyped /\ CommandsTyped /\ inputs \in 0..MaxInputs /\ crossed \in BOOLEAN
  BY DEF TypeOK, ManagerTyped, CommandsTyped

LEMMA CommandsKept ==
  ASSUME CommandsTyped, UNCHANGED commands, initialised' \in BOOLEAN, calcPc' \in {"idle", "told"}
  PROVE  CommandsTyped'
  BY DEF CommandsTyped, commands

(* An event or the start of a command keeps the types.                       *)
LEMMA InputTypes ==
  ASSUME TypeOK, Input
  PROVE  ManagerTyped' /\ CommandsTyped'
<1> USE TypeParts
<1>t. /\ initialised \in BOOLEAN /\ calcPc \in {"idle", "told"}
      /\ bandHeard \in BOOLEAN /\ data \in HealthData
  BY DEF CommandsTyped, ManagerTyped
<1>r. ASSUME NEW d \in HealthData, NEW kinds, NEW found, IssuesOf(kinds, found),
             Aggregate(d, kinds, found), UNCHANGED bandHeard
      PROVE  ManagerTyped'
  BY <1>r, <1>t, AggregateTypes DEF ManagerTyped
<1>1. ASSUME NEW b \in Bands, CapabilityEvent(b) PROVE ManagerTyped' /\ CommandsTyped'
  <2>1. PICK down \in {data.down \cup {b}, data.down \ {b}} : ReportBand([data EXCEPT !.down = down])
    BY <1>1 DEF CapabilityEvent
  <2>2. [data EXCEPT !.down = down] \in HealthData
    BY <1>t, <2>1 DEF HealthData
  <2> QED BY <1>1, <1>t, <2>1, <2>2, ReportTypes, CommandsKept DEF CapabilityEvent
<1>2. ASSUME NEW b \in GpmBands, GpmEvent(b) PROVE ManagerTyped' /\ CommandsTyped'
  <2>1. PICK failed \in Validated(b) :
          Aggregate([data EXCEPT !.gpm = failed], {"gpm"}, GpmIssues([data EXCEPT !.gpm = failed]))
    BY <1>2 DEF GpmEvent
  <2>2. [data EXCEPT !.gpm = failed] \in HealthData
    BY <1>t, <2>1, BandAssumption DEF HealthData, Validated
  <2>3. ManagerTyped'
    BY <1>2, <1>r, <2>1, <2>2, EveryReportIs DEF GpmEvent
  <2> QED BY <1>2, <1>t, <2>3, CommandsKept DEF GpmEvent
<1>3. ASSUME HealthEvent PROVE ManagerTyped' /\ CommandsTyped'
  <2>1. PICK state \in Healths :
          Aggregate([data EXCEPT !.dish = state], {"dishmanager"}, DishIssues([data EXCEPT !.dish = state]))
    BY <1>3 DEF HealthEvent
  <2>2. [data EXCEPT !.dish = state] \in HealthData
    BY <1>t, <2>1, HealthAssumption DEF HealthData
  <2>3. ManagerTyped'
    BY <1>3, <1>r, <2>1, <2>2, EveryReportIs DEF HealthEvent
  <2> QED BY <1>3, <1>t, <2>3, CommandsKept DEF HealthEvent
<1>4. ASSUME KValueReport PROVE ManagerTyped' /\ CommandsTyped'
  <2>1. PICK result \in Results :
          Aggregate([data EXCEPT !.kvalue = result], {"kvalue"}, KValueIssues([data EXCEPT !.kvalue = result]))
    BY <1>4 DEF KValueReport
  <2>2. [data EXCEPT !.kvalue = result] \in HealthData
    BY <1>t, <2>1 DEF HealthData
  <2>3. ManagerTyped'
    BY <1>4, <1>r, <2>1, <2>2, EveryReportIs DEF KValueReport
  <2> QED BY <1>4, <1>t, <2>3, CommandsKept DEF KValueReport
<1>5. ASSUME CalculationError \/ StowStopRaises PROVE ManagerTyped' /\ CommandsTyped'
  <2>1. "DEGRADED" \in HealthStates
    BY DEF HealthStates
  <2>2. ManagerTyped'
    BY <1>5, <2>1, ReportTypes DEF CalculationError, StowStopRaises
  <2> QED BY <1>5, <1>t, <2>2, CommandsKept DEF CalculationError, StowStopRaises
<1>6. ASSUME ConfigureStarts PROVE ManagerTyped' /\ CommandsTyped'
  <2>1. ManagerTyped'
    BY <1>6, ReportTypes DEF ConfigureStarts
  <2> QED BY <1>6, <2>1 DEF ConfigureStarts, Goto, CommandsTyped, Enders, Positions
<1>7. ASSUME NEW t \in Enders, StopTable(t) PROVE ManagerTyped' /\ CommandsTyped'
  <2>1. ManagerTyped'
    BY <1>7, ReportTypes DEF StopTable, TableErrors
  <2> QED BY <1>7, <2>1 DEF StopTable, Goto, CommandsTyped, Positions
<1> QED BY <1>1, <1>2, <1>3, <1>4, <1>5, <1>6, <1>7 DEF Input

(* So does each step of what is under way.                                   *)
LEMMA ProgressTypes ==
  ASSUME TypeOK, Progress
  PROVE  ManagerTyped' /\ CommandsTyped'
<1> USE TypeParts
<1>t. initialised \in BOOLEAN /\ calcPc \in {"idle", "told"}
  BY DEF CommandsTyped
<1>1. ASSUME CalculationErrorReported PROVE ManagerTyped' /\ CommandsTyped'
  <2>1. ManagerTyped'
    BY <1>1, ReportTypes DEF CalculationErrorReported, TableErrors
  <2> QED BY <1>1, <1>t, <2>1, CommandsKept DEF CalculationErrorReported
<1>2. ASSUME Initialised PROVE ManagerTyped' /\ CommandsTyped'
  <2>1. ManagerTyped'
    BY <1>2, ReportTypes DEF Initialised
  <2> QED BY <1>2, <1>t, <2>1, CommandsKept DEF Initialised
<1>3. ASSUME GenerateTold \/ GenerateRaises \/ ConfigureEndRaises PROVE ManagerTyped' /\ CommandsTyped'
  <2>1. ManagerTyped'
    BY <1>3, ReportTypes DEF GenerateTold, GenerateRaises, ConfigureEndRaises, TableErrors, HealthStates
  <2> QED BY <1>3, <2>1 DEF GenerateTold, GenerateRaises, ConfigureEndRaises, Goto, CommandsTyped, Enders, Positions
<1>4. ASSUME NEW t \in Enders, StopEnds(t) \/ ReadBand(t) \/ WriteBand(t) PROVE ManagerTyped' /\ CommandsTyped'
  <2>1. ManagerTyped'
    BY <1>4, ReportTypes DEF StopEnds, ReadBand, WriteBand
  <2>2. Normalise(receiverBand) \in Bands \cup {"NONE"}
    BY DEF Normalise, CommandsTyped
  <2>3. rx[t] \in Bands \cup {"NONE"}
    BY DEF CommandsTyped
  <2>4. CASE StopEnds(t)
    BY <2>1, <2>4 DEF StopEnds, Goto, CommandsTyped, Positions
  <2>5. CASE ReadBand(t)
    BY <2>1, <2>2, <2>5 DEF ReadBand, Goto, CommandsTyped, Positions
  <2>6. CASE WriteBand(t)
    BY <2>1, <2>3, <2>6 DEF WriteBand, Goto, CommandsTyped, Positions
  <2> QED BY <1>4, <2>4, <2>5, <2>6
<1>5. ASSUME NEW t \in Enders, BandReported(t) PROVE ManagerTyped' /\ CommandsTyped'
  <2>1. [data EXCEPT !.band = rx[t]] \in HealthData
    BY DEF CommandsTyped, ManagerTyped, HealthData
  <2>2. ManagerTyped'
    BY <1>5, <2>1, ReportTypes DEF BandReported
  <2> QED BY <1>5, <2>2 DEF BandReported, Goto, CommandsTyped, Positions
<1>6. ASSUME NEW t \in Enders, ErrorsCleared(t) PROVE ManagerTyped' /\ CommandsTyped'
  <2>1. ManagerTyped'
    BY <1>6, ReportTypes DEF ErrorsCleared, TableErrors
  <2> QED BY <1>6, <2>1 DEF ErrorsCleared, Goto, CommandsTyped, Positions
<1> QED BY <1>1, <1>2, <1>3, <1>4, <1>5, <1>6 DEF Progress

LEMMA TypeStep == TypeOK /\ [Next]_vars => TypeOK'
<1> USE TypeParts
<1> SUFFICES ASSUME TypeOK, [Next]_vars PROVE TypeOK'
  OBVIOUS
<1>c. inputs \in 0..MaxInputs /\ MaxInputs \in Nat
  BY BoundAssumption
<1>1. CASE Input /\ inputs < MaxInputs /\ inputs' = inputs + 1 /\ NoteCrossing
  <2>1. ManagerTyped' /\ CommandsTyped'
    BY <1>1, InputTypes
  <2>2. inputs' \in 0..MaxInputs
    BY <1>1, <1>c
  <2>3. crossed' \in BOOLEAN
    BY <1>1 DEF NoteCrossing
  <2> QED BY <2>1, <2>2, <2>3 DEF TypeOK, ManagerTyped, CommandsTyped
<1>2. CASE Progress /\ UNCHANGED inputs /\ NoteCrossing
  <2>1. ManagerTyped' /\ CommandsTyped'
    BY <1>2, ProgressTypes
  <2>2. inputs' \in 0..MaxInputs
    BY <1>2, <1>c
  <2>3. crossed' \in BOOLEAN
    BY <1>2 DEF NoteCrossing
  <2> QED BY <2>1, <2>2, <2>3 DEF TypeOK, ManagerTyped, CommandsTyped
<1>3. CASE UNCHANGED vars
  BY <1>3 DEF vars, manager, commands, TypeOK
<1> QED BY <1>1, <1>2, <1>3 DEF Next, Exhausted

(* Every variable keeps its type, for every set of bands and every bound.    *)
THEOREM TypeCorrect == Spec => []TypeOK
<1>1. Init => TypeOK
  <2> SUFFICES ASSUME Init PROVE TypeOK
    OBVIOUS
  <2>1. data \in HealthData
    BY DEF Init, HealthData, HealthStates, TableErrors
  <2>2. inputs \in 0..MaxInputs
    BY BoundAssumption DEF Init
  <2>3. CommandsTyped
    BY DEF Init, CommandsTyped, Positions
  <2>4. IsList(NoIssues)
    BY DEF NoIssues, IsList
  <2>5. IsList(issues) /\ healthInfo = issues
    BY <2>4 DEF Init
  <2> QED BY <2>1, <2>2, <2>3, <2>5 DEF Init, TypeOK, CommandsTyped, HealthStates
<1> QED BY <1>1, TypeStep, PTL DEF Spec

-----------------------------------------------------------------------------
(* A step that does not touch the band, on either side, and ends no command. *)
LEMMA BandUntouched ==
  ASSUME TypeOK, BandInv, ~crossed, UNCHANGED <<receiverBand, pc, rx>>, data'.band = data.band
  PROVE  BandInv'
  BY DEF BandInv, Normalise

(* While commands do not cross, the band on its way to the health manager is *)
(* the receiver band.                                                        *)
LEMMA BandStep ==
  ASSUME TypeOK, BandInv, Input \/ Progress, NoteCrossing, ~crossed'
  PROVE  BandInv'
<1>c. ~crossed /\ ~ConfigureEndRaises /\ \E t \in Enders : pc'[t] = "idle"
  BY DEF NoteCrossing
<1>t. /\ data \in HealthData
      /\ pc \in [Enders -> Positions] /\ rx \in [Enders -> Bands \cup {"NONE"}]
      /\ receiverBand \in Bands \cup {"NONE", "unreadable"}
  BY DEF TypeOK
<1>i. /\ \E t \in Enders : pc[t] = "idle"
      /\ \A t \in Enders : pc[t] \in {"normalised", "written"} => rx[t] = Normalise(receiverBand)
      /\ (\A t \in Enders : pc[t] \in {"idle", "clearing"}) => data.band = Normalise(receiverBand)
  BY <1>c DEF BandInv
<1>1. ASSUME NEW b \in Bands, CapabilityEvent(b) PROVE BandInv'
  <2>1. PICK down \in {data.down \cup {b}, data.down \ {b}} : ReportBand([data EXCEPT !.down = down])
    BY <1>1 DEF CapabilityEvent
  <2>2. data'.band = data.band
    BY <1>t, <2>1 DEF ReportBand, Aggregate, HealthData
  <2> QED BY <1>1, <1>c, <2>2, BandUntouched DEF CapabilityEvent, commands
<1>2. ASSUME NEW b \in GpmBands, GpmEvent(b) PROVE BandInv'
  <2>1. data'.band = data.band
    BY <1>2, <1>t DEF GpmEvent, Aggregate, HealthData
  <2> QED BY <1>2, <1>c, <2>1, BandUntouched DEF GpmEvent, commands
<1>3. ASSUME HealthEvent \/ KValueReport PROVE BandInv'
  <2>1. data'.band = data.band
    BY <1>3, <1>t DEF HealthEvent, KValueReport, Aggregate, HealthData
  <2> QED BY <1>3, <1>c, <2>1, BandUntouched DEF HealthEvent, KValueReport, commands
<1>4. ASSUME CalculationError \/ StowStopRaises \/ Initialised \/ CalculationErrorReported PROVE BandInv'
  <2>1. data'.band = data.band
    BY <1>4, ReportTypes DEF CalculationError, StowStopRaises, Initialised, CalculationErrorReported,
                             TableErrors, HealthStates
  <2> QED BY <1>4, <1>c, <2>1, BandUntouched
          DEF CalculationError, StowStopRaises, Initialised, CalculationErrorReported, commands
<1>5. ASSUME ConfigureStarts PROVE BandInv'
  <2>1. pc' = [pc EXCEPT !["worker"] = "configuring"]
    BY <1>5 DEF ConfigureStarts, Goto
  <2>2. pc'["worker"] = "configuring" /\ pc'["abort"] = "idle"
    BY <1>c, <1>t, <2>1 DEF Enders
  <2> QED BY <2>2 DEF BandInv, Enders
<1>6. ASSUME GenerateTold \/ GenerateRaises PROVE BandInv'
  <2>1. pc'["worker"] \in {"generated", "raised"} /\ pc'["abort"] = "idle"
    BY <1>6, <1>c, <1>t DEF GenerateTold, GenerateRaises, Goto, Enders
  <2> QED BY <2>1 DEF BandInv, Enders
<1>7. ASSUME NEW t \in Enders, StopTable(t) \/ StopEnds(t) PROVE BandInv'
  <2>1. pc'[t] \in {"stopped", "ends"} /\ \A o \in Enders \ {t} : pc'[o] = "idle"
    BY <1>7, <1>c, <1>t DEF StopTable, StopEnds, Goto, Enders
  <2> QED BY <2>1 DEF BandInv, Enders
<1>8. ASSUME NEW t \in Enders, ReadBand(t) PROVE BandInv'
  <2>1. /\ pc'[t] = "normalised" /\ \A o \in Enders \ {t} : pc'[o] = "idle"
        /\ rx'[t] = Normalise(receiverBand) /\ receiverBand' = receiverBand
    BY <1>8, <1>c, <1>t DEF ReadBand, Goto, Enders
  <2> QED BY <2>1 DEF BandInv, Enders, Normalise
<1>9. ASSUME NEW t \in Enders, WriteBand(t) PROVE BandInv'
  <2>1. /\ pc'[t] = "written" /\ \A o \in Enders \ {t} : pc'[o] = "idle"
        /\ rx'[t] = rx[t] /\ receiverBand' = rx[t]
    BY <1>9, <1>c, <1>t DEF WriteBand, Goto, Enders
  <2>2. Normalise(receiverBand') = rx[t]
    BY <1>t, <2>1, BandAssumption DEF Normalise
  <2> QED BY <2>1, <2>2 DEF BandInv, Enders, Normalise
<1>10. ASSUME NEW t \in Enders, BandReported(t) PROVE BandInv'
  <2>1. /\ pc'[t] \in {"idle", "clearing"} /\ receiverBand' = receiverBand
        /\ pc[t] = "written" /\ \A o \in Enders \ {t} : pc[o] = "idle" /\ pc'[o] = "idle"
    BY <1>10, <1>i, <1>t DEF BandReported, Goto, Enders
  <2>2. data'.band = rx[t]
    BY <1>10, <1>t DEF BandReported, ReportBand, Aggregate, HealthData
  <2>3. data'.band = Normalise(receiverBand')
    BY <1>i, <2>1, <2>2 DEF Normalise
  <2> QED BY <2>1, <2>3 DEF BandInv, Enders, Normalise
<1>11. ASSUME NEW t \in Enders, ErrorsCleared(t) PROVE BandInv'
  <2>1. /\ pc'[t] = "idle" /\ UNCHANGED <<receiverBand, rx>>
        /\ pc[t] = "clearing" /\ \A o \in Enders \ {t} : pc[o] = "idle" /\ pc'[o] = "idle"
    BY <1>11, <1>i, <1>t DEF ErrorsCleared, Goto, Enders
  <2>2. data'.band = data.band
    BY <1>11, ReportTypes DEF ErrorsCleared, TableErrors
  <2>3. data.band = Normalise(receiverBand)
    BY <1>i, <2>1
  <2> QED BY <2>1, <2>2, <2>3 DEF BandInv, Enders, Normalise
<1> QED BY <1>c, <1>1, <1>2, <1>3, <1>4, <1>5, <1>6, <1>7, <1>8, <1>9, <1>10, <1>11 DEF Input, Progress

(* The band health is worked out from is the receiver band whenever no       *)
(* command is under way and none crossed.                                    *)
THEOREM BandArrives == Spec => []BandReachesHealth
<1>1. Init => BandInv
  BY DEF Init, BandInv, Enders, Normalise
<1>2. TypeOK /\ BandInv /\ [Next]_vars => BandInv'
  <2> SUFFICES ASSUME TypeOK, BandInv, [Next]_vars PROVE BandInv'
    OBVIOUS
  <2>1. CASE (Input \/ Progress) /\ NoteCrossing /\ ~crossed'
    BY <2>1, BandStep
  <2>2. CASE crossed'
    BY <2>2 DEF BandInv
  <2>3. CASE UNCHANGED vars
    BY <2>3 DEF vars, manager, commands, BandInv, Normalise
  <2> QED BY <2>1, <2>2, <2>3 DEF Next, Exhausted
<1>3. BandInv => BandReachesHealth
  BY DEF BandInv, BandReachesHealth
<1> QED BY <1>1, <1>2, <1>3, TypeCorrect, PTL DEF Spec
-----------------------------------------------------------------------------
(* A report lists what it found in place of what its kinds had listed, and   *)
(* leaves the other kinds alone.                                             *)
LEMMA Relisted ==
  ASSUME NEW d, NEW kinds, NEW found, IssuesOf(kinds, found), Aggregate(d, kinds, found)
  PROVE  /\ data' = d /\ cachedState' = Evaluate(d)
         /\ Of(kinds)' = found
         /\ \A others : others \cap kinds = {} => Of(others)' = Of(others)
<1>1. /\ data' = d /\ cachedState' = Evaluate(d)
      /\ issues'.listed = {i \in issues.listed : i.kind \notin kinds} \cup found
  BY DEF Aggregate, Entered, Without
<1>2. \A i \in found : i.kind \in kinds
  BY DEF IssuesOf
<1>3. Of(kinds)' = found
  BY <1>1, <1>2 DEF Of
<1>4. ASSUME NEW others, others \cap kinds = {} PROVE Of(others)' = Of(others)
  BY <1>1, <1>2, <1>4 DEF Of
<1> QED BY <1>1, <1>3, <1>4

(* What the issues of a kind and the state depend on.                        *)
LEMMA IssuesDepend ==
  ASSUME NEW d, NEW e
  PROVE  /\ d.band = e.band /\ d.down = e.down => BandIssues(d) = BandIssues(e)
         /\ d.gpm = e.gpm => GpmIssues(d) = GpmIssues(e)
         /\ d.kvalue = e.kvalue => KValueIssues(d) = KValueIssues(e)
         /\ d.dish = e.dish => DishIssues(d) = DishIssues(e)
         /\ d.table = e.table => TableIssues(d) = TableIssues(e)
  BY DEF BandIssues, GpmIssues, KValueIssues, DishIssues, TableIssues

LEMMA BandLists ==
  ASSUME ListInv, NEW d, ReportBand(d),
         d.gpm = data.gpm, d.kvalue = data.kvalue, d.dish = data.dish, d.table = data.table
  PROVE  ListInv'
<1>1. Aggregate(d, BandKinds, BandIssues(d)) /\ bandHeard'
  BY DEF ReportBand, BandKinds
<1>2. /\ data' = d /\ cachedState' = Evaluate(d) /\ Of(BandKinds)' = BandIssues(d)
      /\ \A others : others \cap BandKinds = {} => Of(others)' = Of(others)
  BY <1>1, EveryReportIs, Relisted
<1>3. /\ Of({"gpm"})' = Of({"gpm"}) /\ Of({"kvalue"})' = Of({"kvalue"})
      /\ Of({"dishmanager"})' = Of({"dishmanager"}) /\ Of({"table"})' = Of({"table"})
  BY <1>2 DEF BandKinds
<1>4. /\ GpmIssues(d) = GpmIssues(data) /\ KValueIssues(d) = KValueIssues(data)
      /\ DishIssues(d) = DishIssues(data) /\ TableIssues(d) = TableIssues(data)
  BY IssuesDepend
<1> QED BY <1>1, <1>2, <1>3, <1>4 DEF ListInv, BandKinds

(* A report of another kind.                                                 *)
LEMMA OtherLists ==
  ASSUME ListInv, NEW d, d.band = data.band, d.down = data.down, UNCHANGED bandHeard,
         \/ /\ Aggregate(d, {"gpm"}, GpmIssues(d))
            /\ d.kvalue = data.kvalue /\ d.dish = data.dish /\ d.table = data.table
         \/ /\ Aggregate(d, {"kvalue"}, KValueIssues(d)) /\ d.kvalue # "STARTED"
            /\ d.gpm = data.gpm /\ d.dish = data.dish /\ d.table = data.table
         \/ /\ Aggregate(d, {"dishmanager"}, DishIssues(d))
            /\ d.gpm = data.gpm /\ d.kvalue = data.kvalue /\ d.table = data.table
         \/ /\ Aggregate(d, {"table"}, TableIssues(d))
            /\ d.gpm = data.gpm /\ d.kvalue = data.kvalue /\ d.dish = data.dish
  PROVE  ListInv'
<1>b. BandIssues(d) = BandIssues(data) /\ bandHeard' = bandHeard
  BY IssuesDepend
<1>k. /\ IssuesOf({"gpm"}, GpmIssues(d)) /\ IssuesOf({"kvalue"}, KValueIssues(d))
      /\ IssuesOf({"dishmanager"}, DishIssues(d)) /\ IssuesOf({"table"}, TableIssues(d))
  BY EveryReportIs
<1>1. CASE /\ Aggregate(d, {"gpm"}, GpmIssues(d))
           /\ d.kvalue = data.kvalue /\ d.dish = data.dish /\ d.table = data.table
  <2>1. /\ data' = d /\ cachedState' = Evaluate(d) /\ Of({"gpm"})' = GpmIssues(d)
        /\ Of({"kvalue"})' = Of({"kvalue"}) /\ Of({"dishmanager"})' = Of({"dishmanager"})
        /\ Of({"table"})' = Of({"table"}) /\ Of(BandKinds)' = Of(BandKinds)
    BY <1>1, <1>k, Relisted DEF BandKinds
  <2>2. /\ KValueIssues(d) = KValueIssues(data) /\ DishIssues(d) = DishIssues(data)
        /\ TableIssues(d) = TableIssues(data)
    BY <1>1, IssuesDepend
  <2> QED BY <1>b, <1>1, <2>1, <2>2 DEF ListInv, BandKinds
<1>2. CASE /\ Aggregate(d, {"kvalue"}, KValueIssues(d)) /\ d.kvalue # "STARTED"
           /\ d.gpm = data.gpm /\ d.dish = data.dish /\ d.table = data.table
  <2>1. /\ data' = d /\ cachedState' = Evaluate(d) /\ Of({"kvalue"})' = KValueIssues(d)
        /\ Of({"gpm"})' = Of({"gpm"}) /\ Of({"dishmanager"})' = Of({"dishmanager"})
        /\ Of({"table"})' = Of({"table"}) /\ Of(BandKinds)' = Of(BandKinds)
    BY <1>2, <1>k, Relisted DEF BandKinds
  <2>2. /\ GpmIssues(d) = GpmIssues(data) /\ DishIssues(d) = DishIssues(data)
        /\ TableIssues(d) = TableIssues(data)
    BY <1>2, IssuesDepend
  <2> QED BY <1>b, <1>2, <2>1, <2>2 DEF ListInv, BandKinds
<1>3. CASE /\ Aggregate(d, {"dishmanager"}, DishIssues(d))
           /\ d.gpm = data.gpm /\ d.kvalue = data.kvalue /\ d.table = data.table
  <2>1. /\ data' = d /\ cachedState' = Evaluate(d) /\ Of({"dishmanager"})' = DishIssues(d)
        /\ Of({"gpm"})' = Of({"gpm"}) /\ Of({"kvalue"})' = Of({"kvalue"})
        /\ Of({"table"})' = Of({"table"}) /\ Of(BandKinds)' = Of(BandKinds)
    BY <1>3, <1>k, Relisted DEF BandKinds
  <2>2. /\ GpmIssues(d) = GpmIssues(data) /\ KValueIssues(d) = KValueIssues(data)
        /\ TableIssues(d) = TableIssues(data)
    BY <1>3, IssuesDepend
  <2> QED BY <1>b, <1>3, <2>1, <2>2 DEF ListInv, BandKinds
<1>4. CASE /\ Aggregate(d, {"table"}, TableIssues(d))
           /\ d.gpm = data.gpm /\ d.kvalue = data.kvalue /\ d.dish = data.dish
  <2>1. /\ data' = d /\ cachedState' = Evaluate(d) /\ Of({"table"})' = TableIssues(d)
        /\ Of({"gpm"})' = Of({"gpm"}) /\ Of({"kvalue"})' = Of({"kvalue"})
        /\ Of({"dishmanager"})' = Of({"dishmanager"}) /\ Of(BandKinds)' = Of(BandKinds)
    BY <1>4, <1>k, Relisted DEF BandKinds
  <2>2. /\ GpmIssues(d) = GpmIssues(data) /\ KValueIssues(d) = KValueIssues(data)
        /\ DishIssues(d) = DishIssues(data)
    BY <1>4, IssuesDepend
  <2> QED BY <1>b, <1>4, <2>1, <2>2 DEF ListInv, BandKinds
<1> QED BY <1>1, <1>2, <1>3, <1>4

LEMMA ListsKept ==
  ASSUME ListInv, UNCHANGED <<data, issues, cachedState, bandHeard>>
  PROVE  ListInv'
  BY DEF ListInv, Of

(* Every step keeps the list true to the last reports.                       *)
LEMMA ListStep ==
  ASSUME TypeOK, ListInv, Next
  PROVE  ListInv'
<1>t. data \in HealthData /\ rx \in [Enders -> Bands \cup {"NONE"}]
  BY DEF TypeOK
<1>table. ASSUME NEW e, ReportTable(e) PROVE ListInv'
  <2> DEFINE d == [data EXCEPT !.table = e]
  <2>1. /\ d.band = data.band /\ d.down = data.down /\ d.gpm = data.gpm
        /\ d.kvalue = data.kvalue /\ d.dish = data.dish
    BY <1>t DEF HealthData
  <2>2. Aggregate(d, {"table"}, TableIssues(d)) /\ UNCHANGED bandHeard
    BY <1>table DEF ReportTable
  <2> HIDE DEF d
  <2> QED BY <2>1, <2>2, OtherLists
<1>direct. ASSUME NEW s, SetDirectly(s) PROVE ListInv'
  BY <1>direct, ListsKept DEF SetDirectly, manager
<1>silent. ASSUME NoReport PROVE ListInv'
  BY <1>silent, ListsKept DEF NoReport, manager
<1>1. ASSUME Input PROVE ListInv'
  <2>1. ASSUME NEW b \in Bands, CapabilityEvent(b) PROVE ListInv'
    <3>1. PICK down \in {data.down \cup {b}, data.down \ {b}} : ReportBand([data EXCEPT !.down = down])
      BY <2>1 DEF CapabilityEvent
    <3> DEFINE d == [data EXCEPT !.down = down]
    <3>2. d.gpm = data.gpm /\ d.kvalue = data.kvalue /\ d.dish = data.dish /\ d.table = data.table
      BY <1>t DEF HealthData
    <3>3. ReportBand(d)
      BY <3>1
    <3> HIDE DEF d
    <3> QED BY <3>2, <3>3, BandLists
  <2>2. ASSUME NEW b \in GpmBands, GpmEvent(b) PROVE ListInv'
    <3>1. PICK failed \in Validated(b) :
            Aggregate([data EXCEPT !.gpm = failed], {"gpm"}, GpmIssues([data EXCEPT !.gpm = failed]))
      BY <2>2 DEF GpmEvent
    <3> DEFINE d == [data EXCEPT !.gpm = failed]
    <3>2. /\ d.band = data.band /\ d.down = data.down
          /\ d.kvalue = data.kvalue /\ d.dish = data.dish /\ d.table = data.table
      BY <1>t DEF HealthData
    <3>3. Aggregate(d, {"gpm"}, GpmIssues(d)) /\ UNCHANGED bandHeard
      BY <2>2, <3>1 DEF GpmEvent
    <3> HIDE DEF d
    <3> QED BY <3>2, <3>3, OtherLists
  <2>3. ASSUME HealthEvent PROVE ListInv'
    <3>1. PICK state \in Healths :
            Aggregate([data EXCEPT !.dish = state], {"dishmanager"}, DishIssues([data EXCEPT !.dish = state]))
      BY <2>3 DEF HealthEvent
    <3> DEFINE d == [data EXCEPT !.dish = state]
    <3>2. /\ d.band = data.band /\ d.down = data.down
          /\ d.gpm = data.gpm /\ d.kvalue = data.kvalue /\ d.table = data.table
      BY <1>t DEF HealthData
    <3>3. Aggregate(d, {"dishmanager"}, DishIssues(d)) /\ UNCHANGED bandHeard
      BY <2>3, <3>1 DEF HealthEvent
    <3> HIDE DEF d
    <3> QED BY <3>2, <3>3, OtherLists
  <2>4. ASSUME KValueReport PROVE ListInv'
    <3>1. PICK result \in Results :
            Aggregate([data EXCEPT !.kvalue = result], {"kvalue"}, KValueIssues([data EXCEPT !.kvalue = result]))
      BY <2>4 DEF KValueReport
    <3> DEFINE d == [data EXCEPT !.kvalue = result]
    <3>2. /\ d.band = data.band /\ d.down = data.down /\ d.kvalue # "STARTED"
          /\ d.gpm = data.gpm /\ d.dish = data.dish /\ d.table = data.table
      BY <1>t, ResultAssumption DEF HealthData
    <3>3. Aggregate(d, {"kvalue"}, KValueIssues(d)) /\ UNCHANGED bandHeard
      BY <2>4, <3>1 DEF KValueReport
    <3> HIDE DEF d
    <3> QED BY <3>2, <3>3, OtherLists
  <2>5. ASSUME CalculationError \/ StowStopRaises PROVE ListInv'
    BY <2>5, <1>direct DEF CalculationError, StowStopRaises
  <2>6. ASSUME ConfigureStarts PROVE ListInv'
    BY <2>6, <1>silent DEF ConfigureStarts
  <2>7. ASSUME NEW t \in Enders, StopTable(t) PROVE ListInv'
    BY <2>7, <1>silent, <1>table DEF StopTable
  <2> QED BY <1>1, <2>1, <2>2, <2>3, <2>4, <2>5, <2>6, <2>7 DEF Input
<1>2. ASSUME Progress PROVE ListInv'
  <2>1. ASSUME CalculationErrorReported \/ GenerateRaises PROVE ListInv'
    BY <2>1, <1>table DEF CalculationErrorReported, GenerateRaises
  <2>2. ASSUME GenerateTold PROVE ListInv'
    BY <2>2, <1>direct DEF GenerateTold
  <2>3. ASSUME Initialised \/ ConfigureEndRaises PROVE ListInv'
    BY <2>3, <1>silent DEF Initialised, ConfigureEndRaises
  <2>4. ASSUME NEW t \in Enders, StopEnds(t) \/ ReadBand(t) \/ WriteBand(t) PROVE ListInv'
    BY <2>4, <1>silent DEF StopEnds, ReadBand, WriteBand
  <2>5. ASSUME NEW t \in Enders, BandReported(t) PROVE ListInv'
    <3> DEFINE d == [data EXCEPT !.band = rx[t]]
    <3>1. d.gpm = data.gpm /\ d.kvalue = data.kvalue /\ d.dish = data.dish /\ d.table = data.table
      BY <1>t DEF HealthData
    <3>2. ReportBand(d)
      BY <2>5 DEF BandReported
    <3> HIDE DEF d
    <3> QED BY <3>1, <3>2, BandLists
  <2>6. ASSUME NEW t \in Enders, ErrorsCleared(t) PROVE ListInv'
    BY <2>6, <1>table DEF ErrorsCleared
  <2> QED BY <1>2, <2>1, <2>2, <2>3, <2>4, <2>5, <2>6 DEF Progress
<1>3. ASSUME Exhausted PROVE ListInv'
  BY <1>3, ListsKept DEF Exhausted, vars, manager
<1> QED BY <1>1, <1>2, <1>3 DEF Next

(* What is listed decides between the rules as the reports do.               *)
LEMMA ListDecides ==
  ASSUME TypeOK, ListInv, bandHeard, data.kvalue # "STARTED"
  PROVE  Evaluate(data) = StateOfIssues
<1>t. data \in HealthData /\ "NONE" \notin Bands /\ data.down \subseteq Bands
  BY BandAssumption DEF TypeOK, HealthData
<1>k. \A i \in issues.listed : i.kind \in IssueKinds
  BY DEF TypeOK, IsList
<1>of. \A kind : kind \in Listed <=> Of({kind}) # {}
  BY DEF Listed, Of
<1>1. /\ "gpm" \in Listed <=> data.gpm # {}
      /\ "table" \in Listed <=> data.table # "none"
      /\ "kvalue" \in Listed <=> data.kvalue # "OK"
  <2>1. \A x : {x} # {}
    OBVIOUS
  <2> QED BY <1>of, <2>1 DEF ListInv, GpmIssues, TableIssues, KValueIssues
<1>2. Of(BandKinds) = BandIssues(data)
  BY DEF ListInv, BandKinds
<1>3. \A i \in issues.listed : i.kind \in BandKinds <=> i \in BandIssues(data)
  BY <1>2 DEF Of
<1>4. \A i \in BandIssues(data) : i \in issues.listed /\ i.kind \in BandKinds
  BY <1>2 DEF Of
<1>5. /\ "band_requested" \in Listed <=> data.band # "NONE" /\ data.band \in data.down
      /\ "band_unavailable" \in Listed <=> data.band = "NONE" /\ data.down # {}
  <2>1. CASE data.band # "NONE" /\ data.band \in data.down
    <3>1. BandIssues(data) = {[kind |-> "band_requested", about |-> {data.band}]}
      BY <2>1 DEF BandIssues
    <3> QED BY <1>3, <1>4, <2>1, <3>1 DEF Listed, BandKinds
  <2>2. CASE data.band = "NONE" /\ data.down # {}
    <3>1. BandIssues(data) = {[kind |-> "band_unavailable", about |-> data.down]}
      BY <2>2 DEF BandIssues
    <3> QED BY <1>3, <1>4, <2>2, <3>1 DEF Listed, BandKinds
  <2>3. CASE ~(data.band # "NONE" /\ data.band \in data.down) /\ ~(data.band = "NONE" /\ data.down # {})
    <3>1. BandIssues(data) = {}
      BY <2>3 DEF BandIssues
    <3> QED BY <1>3, <2>3, <3>1 DEF Listed, BandKinds
  <2> QED BY <2>1, <2>2, <2>3
<1>6. data.band = "NONE" /\ data.down # {} => UnavailableBands = data.down
  <2> SUFFICES ASSUME data.band = "NONE", data.down # {} PROVE UnavailableBands = data.down
    OBVIOUS
  <2>1. BandIssues(data) = {[kind |-> "band_unavailable", about |-> data.down]}
    BY DEF BandIssues
  <2>2. {j \in issues.listed : j.kind = "band_unavailable"} = BandIssues(data)
    BY <1>3, <1>4, <2>1 DEF BandKinds
  <2>3. \A b : b \in UnavailableBands <=> \E i \in BandIssues(data) : b \in i.about
    BY <2>2 DEF UnavailableBands
  <2>4. \A b : b \in UnavailableBands <=> b \in data.down
    BY <2>1, <2>3
  <2> QED BY <2>4
<1>7. Listed \subseteq IssueKinds
  BY <1>k DEF Listed
<1>8. /\ Listed \cap {"gpm", "table"} # {} <=> data.gpm # {} \/ data.table # "none"
      /\ Listed \subseteq {"dishmanager", "band_unavailable"} <=>
           /\ data.gpm = {} /\ data.table = "none" /\ data.kvalue = "OK"
           /\ ~(data.band # "NONE" /\ data.band \in data.down)
      /\ Listed \subseteq {"dishmanager"} <=>
           /\ data.gpm = {} /\ data.table = "none" /\ data.kvalue = "OK"
           /\ ~(data.band # "NONE" /\ data.band \in data.down)
           /\ ~(data.band = "NONE" /\ data.down # {})
  BY <1>1, <1>5, <1>7 DEF IssueKinds
<1> HIDE DEF Listed, UnavailableBands
<1>9. CASE data.gpm # {} \/ data.table # "none"
  BY <1>8, <1>9 DEF Evaluate, StateOfIssues, OKRules, Unfailed, DegradedRules
<1>10. CASE data.gpm = {} /\ data.table = "none"
  <2>1. CASE data.kvalue # "OK"
    BY <1>8, <1>10, <2>1 DEF Evaluate, StateOfIssues, OKRules, Unfailed, DegradedRules, FailedRules
  <2>2. CASE data.kvalue = "OK" /\ data.band # "NONE"
    BY <1>8, <1>10, <2>2 DEF Evaluate, StateOfIssues, OKRules, Unfailed, DegradedRules, FailedRules
  <2>3. CASE data.kvalue = "OK" /\ data.band = "NONE"
    BY <1>6, <1>8, <1>10, <2>3 DEF Evaluate, StateOfIssues, OKRules, Unfailed, DegradedRules, FailedRules
  <2> QED BY <2>1, <2>2, <2>3
<1> QED BY <1>9, <1>10

LEMMA AlwaysListed == Spec => []ListInv
<1>1. Init => ListInv
  <2> SUFFICES ASSUME Init PROVE ListInv
    OBVIOUS
  <2>1. \A kinds : Of(kinds) = {}
    BY DEF Init, NoIssues, Of
  <2> QED BY <2>1 DEF Init, ListInv, GpmIssues, TableIssues
<1>2. TypeOK /\ ListInv /\ [Next]_vars => ListInv'
  <2> SUFFICES ASSUME TypeOK, ListInv, [Next]_vars PROVE ListInv'
    OBVIOUS
  <2>1. CASE UNCHANGED vars
    BY <2>1, ListsKept DEF vars, manager
  <2> QED BY <2>1, ListStep
<1> QED BY <1>1, <1>2, TypeCorrect, PTL DEF Spec

(* health_rules.py and the issues of health_data.py agree: the aggregated    *)
(* state is the one that the listed issues stand for.                        *)
THEOREM StateAgrees == Spec => []StateFollowsIssues
<1>1. TypeOK /\ ListInv => StateFollowsIssues
  BY ListDecides DEF ListInv, StateFollowsIssues
<1> QED BY <1>1, AlwaysListed, TypeCorrect, PTL

(* What clients read agrees as well: healthState is what the published       *)
(* healthInfo stands for, unless Configure, SetStowMode or an error of the   *)
(* calculation set healthState past the health manager since.                *)
ShownTogether ==
  /\ healthInfo = issues
  /\ bandHeard /\ data.kvalue # "STARTED" /\ ~direct => healthState = StateOfIssues

(* healthState and healthInfo tell the same story, by way of StateAgrees.    *)
THEOREM ReadersAgree == Spec => []ShownTogether
<1>1. TypeOK /\ ListInv /\ StateFollowsIssues /\ OnlyDirectWritesDiffer => ShownTogether
  <2> SUFFICES ASSUME TypeOK, ListInv, StateFollowsIssues, OnlyDirectWritesDiffer
               PROVE  ShownTogether
    OBVIOUS
  <2>1. healthInfo = issues
    BY DEF TypeOK
  <2>2. ASSUME bandHeard, data.kvalue # "STARTED", ~direct PROVE healthState = StateOfIssues
    <3>1. cachedState # "none"
      BY <2>2, EvaluateType DEF ListInv, HealthStates
    <3>2. cachedState = StateOfIssues
      BY <2>2 DEF StateFollowsIssues
    <3> QED BY <2>2, <3>1, <3>2 DEF OnlyDirectWritesDiffer
  <2> QED BY <2>1, <2>2 DEF ShownTogether
<1> QED BY <1>1, TypeCorrect, AlwaysListed, StateAgrees, PublishedIsAggregated, PTL
=============================================================================
