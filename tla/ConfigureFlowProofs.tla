------------------------- MODULE ConfigureFlowProofs -------------------------
(***************************************************************************)
(* The safety properties of ConfigureFlow for every number of Configures   *)
(* and Aborts, every number of retries and every length of the queue.      *)
(***************************************************************************)
EXTENDS ConfigureFlowProperties, TLAPS

(* What is on its way to the dish, oldest first: what the dish has loaded,   *)
(* the table under way, the queue, the session that publishes, those asked   *)
(* for.  None is older than what is ahead of it.                             *)
Ordered ==
  /\ \A u \in dishTable :
       /\ table # 0 => u <= table
       /\ \A i \in 1..Len(tables) : u <= tables[i]
       /\ tracking # 0 => u <= tracking
       /\ \A r \in requested : u < r
  /\ \A i \in 1..Len(tables) :
       /\ table <= tables[i]
       /\ \A j \in i..Len(tables) : tables[i] <= tables[j]
       /\ tracking # 0 => tables[i] <= tracking
       /\ \A r \in requested : tables[i] < r
  /\ tracking # 0 => table <= tracking
  /\ \A r \in requested : table < r /\ tracking < r

(* The states of a Configure once it has asked for its tables.               *)
HasSession ==
  {"band", "callBand", "waitBand", "tracking", "poll", "callTrack",
   "waitTrack", "wait", "conclude"}

(* A clean Configure before it has asked for tables: none is coming, and the *)
(* next one to be written replaces what the dish has.                        *)
AwaitsNone(c) ==
  /\ NoTableComing
  /\ loadMode = "NEW"
  /\ cfgPc[c] = "generate" => ~isTracktableProvided

(* And after: every table on its way is its own, and until one is written    *)
(* the load mode stands.                                                     *)
AwaitsOwn(c) ==
  /\ requested \subseteq {session[c]}
  /\ tracking \in {0, session[c]}
  /\ table \in {0, session[c]}
  /\ \A i \in 1..Len(tables) : tables[i] = session[c]
  /\ IF isTracktableProvided
       THEN dishTable = {session[c]}
       ELSE loadMode = "NEW" /\ eventPc # "mode"

Clean(c) ==
  /\ cfgPc[c] \in {"clear", "generate"} \cup HasSession
  /\ cfgPc[c] \in {"clear", "generate"} => AwaitsNone(c)
  /\ cfgPc[c] \in HasSession \ {"conclude"} => AwaitsOwn(c)
  /\ cfgPc[c] \in {"callTrack", "waitTrack"} => isTracktableProvided

CleanInv == \A c \in clean : Clean(c)

-----------------------------------------------------------------------------
(* Sequences.                                                                *)

(* A sequence over a set is one over every larger set.                       *)
LEMMA LargerSeq ==
  ASSUME NEW S, NEW T, S \subseteq T, NEW q \in Seq(S)
  PROVE  q \in Seq(T)
  OBVIOUS

-----------------------------------------------------------------------------
(* What the steps of each actor leave alone, and what they do to the rest.   *)

CfgAction(c) ==
  Begins(c) \/ ConfigureRuns(c) \/ ConfigureLocks(c) \/ ConfigureGivesUp(c)

AbortAction(a) == AbortRaises(a) \/ AbortRuns(a) \/ AbortLocks(a) \/ AbortFails(a)

PointingAction == SessionStarts \/ SessionFails \/ SessionEnds \/ TablePublished

EventAction == EventRuns \/ EventLocks

(* Next, by actor.                                                           *)
LEMMA NextByActor ==
  [Next]_vars =>
    \/ DishMoves
    \/ PointingAction
    \/ EventAction
    \/ \E c \in Configures : CfgAction(c)
    \/ \E a \in Aborts : AbortAction(a)
    \/ UNCHANGED vars
  BY DEF Next, PointingAction, EventAction, CfgAction, AbortAction

USE DEF dishVars, deviceVars, eventVars, cfgVars, flagVars, shared

(* All that a step of a Configure may change, and how.                        *)
CfgMoves(c, to) ==
  /\ to # "idle"
  /\ cfgPc' = [cfgPc EXCEPT ![c] = to]
  /\ to \in {"waitBand", "waitTrack"} => tangoLock = "free"
  /\ Active(c) \/ WorkerFree(c)
  /\ clean' \subseteq clean \cup {c}
  /\ c \in clean' => to # "done" \/ (c \in clean /\ ~Active(c))

CfgCounts(c) ==
  \/ UNCHANGED <<generated, requested, session>>
  \/ /\ generated' = generated + 1
     /\ requested' = requested \cup {generated + 1}
     /\ session' = [session EXCEPT ![c] = generated + 1]
  \/ /\ UNCHANGED <<generated, requested>>
     /\ session' = [session EXCEPT ![c] = 0]

CfgAnswers(c) ==
  /\ \/ verdict' = verdict
     \/ \E v \in {"none", "OK", "FAILED", "ABORTED", "NO_ADAPTER"} : Decides(c, v)
  /\ \/ told' = told
     \/ told' = [told EXCEPT ![c] = "REJECTED"]
     \/ verdict[c] # "NO_ADAPTER" /\ told' = [told EXCEPT ![c] = verdict[c]]
  /\ abortFlag' = abortFlag \/ abortFlag' = [abortFlag EXCEPT ![c] = FALSE]

CfgFields ==
  /\ loadMode' = loadMode \/ loadMode' = "NEW"
  /\ dishAdapter' = dishAdapter \/ dishAdapter' \in BOOLEAN
  /\ isTracktableProvided' = isTracktableProvided \/ isTracktableProvided' = FALSE
  /\ partialConfigure' = partialConfigure \/ partialConfigure' \in BOOLEAN
  /\ abortEvent' = abortEvent \/ abortEvent' = "task"
  /\ nestedFlag' = nestedFlag \/ nestedFlag' = FALSE
  /\ tracking' = tracking \/ tracking' = 0

CfgStep(c) ==
  /\ UNCHANGED <<dish, dishTable, eventVars, abortPc, tangoLock>>
  /\ \E to \in ConfigureStates : CfgMoves(c, to)
  /\ CfgCounts(c)
  /\ CfgAnswers(c)
  /\ CfgFields

LEMMA CfgShape ==
  ASSUME NEW c \in Configures, CfgAction(c)
  PROVE  CfgStep(c)
<1> USE DEF CfgSteps, Locally, Proceeds, Decides, Returns, CallDish, NestedEnds,
            NestedCompletes, NestedAborted, NestedFails, ConfigureStates, Active,
            CfgMoves, CfgCounts, CfgAnswers, CfgFields, CfgStep
<1>1. CASE NotAllowed(c)
  BY <1>1 DEF NotAllowed, WorkerFree
<1>2. CASE InvalidArgument(c)
  BY <1>2 DEF InvalidArgument, WorkerFree
<1>3. CASE Begins(c)
  BY <1>3 DEF Begins, WorkerFree
<1>4. CASE AdaptersReady(c)
  BY <1>4 DEF AdaptersReady
<1>5. CASE NoPointingAdapter(c)
  BY <1>5 DEF NoPointingAdapter
<1>6. CASE ModeRenewed(c)
  BY <1>6 DEF ModeRenewed
<1>7. CASE ProvidedCleared(c)
  BY <1>7 DEF ProvidedCleared
<1>8. CASE Generate(c) \/ GenerateRaises(c)
  BY <1>8 DEF Generate, GenerateRaises, Requests
<1>9. CASE \/ PollAborted(c) \/ PollTimesOut(c)
           \/ Configured(c) \/ WaitAborted(c) \/ WaitTimesOut(c)
  <2>1. \E from \in {"poll", "wait"}, code \in {"OK", "FAILED", "ABORTED"} :
          Returns(c, from, code)
    BY <1>9, Zenon DEF PollAborted, PollTimesOut, Configured, WaitAborted, WaitTimesOut
  <2>2. QED
    BY <2>1
<1>10. CASE \/ BandIsSet(c) \/ BandNeeded(c) \/ NoTrackNeeded(c) \/ TrackNeeded(c)
            \/ TableSeen(c)
  <2>1. \E from \in ConfigureStates \ {"idle", "done"},
           to \in {"tracking", "callBand", "wait", "poll", "callTrack"} :
          Proceeds(c, from, to)
    BY <1>10 DEF BandIsSet, BandNeeded, NoTrackNeeded, TrackNeeded, TableSeen
  <2>2. QED
    BY <2>1
<1>16. CASE BandCalled(c) \/ TrackCalled(c)
  BY <1>16 DEF BandCalled, TrackCalled
<1>11. CASE BandConfigured(c) \/ TrackCompletes(c)
  BY <1>11 DEF BandConfigured, TrackCompletes
<1>12. CASE BandAborted(c) \/ TrackAborted(c)
  BY <1>12 DEF BandAborted, TrackAborted
<1>13. CASE BandFails(c) \/ BandNotCalled(c) \/ TrackFails(c) \/ TrackNotCalled(c)
  BY <1>13 DEF BandFails, BandNotCalled, TrackFails, TrackNotCalled
<1>14. CASE Concludes(c)
  BY <1>14 DEF Concludes, Ends, Stopped
<1>15. CASE StopRaises(c)
  BY <1>15 DEF StopRaises, Ends, Stopped
<1>17. QED
  BY <1>1, <1>2, <1>3, <1>4, <1>5, <1>6, <1>7, <1>8, <1>9, <1>10, <1>11, <1>12,
     <1>13, <1>14, <1>15, <1>16
     DEF CfgAction, ConfigureRuns, ConfigureLocks, ConfigureGivesUp

(* Every step keeps every variable in its range.                             *)
LEMMA TypeStep == TypeOK /\ [Next]_vars => TypeOK'
<1> SUFFICES ASSUME TypeOK, [Next]_vars PROVE TypeOK'
  OBVIOUS
<1> USE ConfigureAssumption DEF TypeOK, ManagerOK, TablesOK, CommandsOK, LockOK,
                            Active, HoldsLock
<1>1. CASE DishMoves
  BY <1>1 DEF DishMoves
<1>2. CASE PointingAction
  <2>1. CASE SessionStarts
    BY <2>1 DEF SessionStarts, GenerateTaken
  <2>2. CASE SessionFails
    BY <2>2 DEF SessionFails, GenerateTaken
  <2>3. CASE TablePublished
    BY <2>3 DEF TablePublished
  <2>4. CASE SessionEnds
    BY <2>4 DEF SessionEnds
  <2>5. QED
    BY <1>2, <2>1, <2>2, <2>3, <2>4 DEF PointingAction
<1>3. CASE EventAction
  <2> USE DEF EventSteps
  <2>1. CASE TakeTable
    BY <2>1 DEF TakeTable
  <2>2. CASE EventLocks
    BY <2>2 DEF EventLocks
  <2>3. CASE TableWritten
    BY <2>3 DEF TableWritten, Loaded
  <2>4. CASE ModeAppended
    BY <2>4 DEF ModeAppended, Released
  <2>5. CASE TryFails
    BY <2>5 DEF TryFails, Released
  <2>6. QED
    BY <1>3, <2>1, <2>2, <2>3, <2>4, <2>5 DEF EventAction, EventRuns
<1>4. ASSUME NEW c \in Configures, CfgAction(c) PROVE TypeOK'
  <2>1. CfgStep(c)
    BY <1>4, CfgShape
  <2>2. ManagerOK'
    BY <2>1 DEF CfgStep, CfgFields
  <2>3. TablesOK'
    <3>1. /\ generated' \in {generated, generated + 1}
          /\ requested' \subseteq requested \cup {generated'}
          /\ generated' = generated => requested' = requested
          /\ tracking' \in {tracking, 0}
          /\ UNCHANGED <<dishTable, eventVars>>
      BY <2>1 DEF CfgStep, CfgFields, CfgCounts
    <3>2. generated' \in Nat /\ generated <= generated'
      BY <3>1
    <3>3. requested' \subseteq 1..generated'
      BY <3>1, <3>2
    <3>4. tables' \in Seq(1..generated')
      BY <3>1, LargerSeq
    <3>5. QED
      BY <3>1, <3>2, <3>3, <3>4
  <2>4. CommandsOK'
    <3>1. PICK to \in ConfigureStates : CfgMoves(c, to)
      BY <2>1 DEF CfgStep
    <3>2. \A d, e \in Configures : (Active(d) /\ Active(e))' => d = e
      BY <3>1 DEF CfgMoves, WorkerFree, WorkerBusy
    <3>3. clean' \subseteq Configures
      BY <3>1 DEF CfgMoves
    <3> HIDE DEF Active
    <3>4. \A d \in clean' : Active(d)'
      BY <3>1, <3>3 DEF CfgMoves, Active
    <3>5. session' \in [Configures -> 0..generated']
      BY <2>1 DEF CfgStep, CfgCounts
    <3>6. cfgPc' \in [Configures -> ConfigureStates]
      BY <3>1 DEF CfgMoves
    <3>7. CfgAnswers(c)
      BY <2>1 DEF CfgStep
    <3>8. verdict' \in
             [Configures -> {"none", "OK", "FAILED", "ABORTED", "NO_ADAPTER"}]
      BY <3>7 DEF CfgAnswers, Decides
    <3>9. told' \in [Configures -> {"none", "OK", "FAILED", "ABORTED", "REJECTED"}]
      <4>1. verdict[c] \in {"none", "OK", "FAILED", "ABORTED", "NO_ADAPTER"}
        OBVIOUS
      <4>2. CASE told' = told
        BY <4>2
      <4>3. CASE told' = [told EXCEPT ![c] = "REJECTED"]
        BY <4>3
      <4>4. CASE verdict[c] # "NO_ADAPTER" /\ told' = [told EXCEPT ![c] = verdict[c]]
        BY <4>1, <4>4
      <4>5. QED
        BY <3>7, <4>2, <4>3, <4>4 DEF CfgAnswers
    <3>10. abortFlag' \in [Configures -> BOOLEAN]
      BY <3>7 DEF CfgAnswers
    <3>11. nestedFlag' \in BOOLEAN /\ abortPc' \in [Aborts -> AbortStates]
      BY <2>1 DEF CfgStep, CfgFields
    <3>12. QED
      BY <3>2, <3>3, <3>4, <3>5, <3>6, <3>8, <3>9, <3>10, <3>11
  <2>5. LockOK'
    BY <2>1 DEF CfgStep
  <2>6. QED
    BY <2>2, <2>3, <2>4, <2>5
<1>5. ASSUME NEW a \in Aborts, AbortAction(a) PROVE TypeOK'
  <2> USE DEF AbortSteps, AbortStates
  <2>1. CASE AbortRaises(a)
    BY <2>1 DEF AbortRaises
  <2>2. CASE AbortFlags(a) \/ AbortFlagsAgain(a)
    <3>1. /\ abortFlag' = [c \in Configures |-> abortFlag[c] \/ Active(c)]
          /\ nestedFlag' = (nestedFlag \/ \E c \in Configures : Nested(c))
      BY <2>2 DEF AbortFlags, AbortFlagsAgain, FlagCommands
    <3>2. abortFlag' \in [Configures -> BOOLEAN]
      BY <3>1
    <3>3. nestedFlag' \in BOOLEAN
      BY <3>1, Zenon
    <3>4. UNCHANGED <<dishVars, shared, deviceVars, eventVars, cfgVars, clean>>
      BY <2>2 DEF AbortFlags, AbortFlagsAgain, FlagCommands
    <3>5. abortPc' \in [Aborts -> AbortStates] /\ LockOK'
      <4>1. CASE AbortFlags(a)
        BY <3>4, <4>1 DEF AbortFlags
      <4>2. CASE AbortFlagsAgain(a)
        BY <3>4, <4>2 DEF AbortFlagsAgain
      <4>3. QED
        BY <2>2, <4>1, <4>2
    <3>6. QED
      BY <3>2, <3>3, <3>4, <3>5
  <2>3. CASE QueueAborted(a)
    BY <2>3 DEF QueueAborted
  <2>4. CASE AbortLocks(a)
    BY <2>4 DEF AbortLocks
  <2>5. CASE AbortStops(a)
    BY <2>5 DEF AbortStops, Stopped
  <2>6. CASE AbortEnds(a) \/ AbortFails(a)
    <3>1. HoldsLock(a) /\ tangoLock' = "free" /\ abortPc' = [abortPc EXCEPT ![a] = "done"]
      BY <2>6 DEF AbortEnds, AbortFails, Stopped
    <3>2. UNCHANGED <<dishVars, isTracktableProvided, partialConfigure, abortEvent,
                      generated, requested, eventVars, cfgVars, flagVars, clean>>
      BY <2>6 DEF AbortEnds, AbortFails, Stopped
    <3>3. dishAdapter' \in BOOLEAN /\ tracking' \in {tracking, 0}
      BY <2>6 DEF AbortEnds, AbortFails, Stopped
    <3>4. \A b \in Aborts : b # a => ~HoldsLock(b)
      BY <3>1
    <3>5. \A b \in Aborts : ~HoldsLock(b)'
      BY <3>1, <3>4
    <3>6. LockOK'
      BY <3>1, <3>2, <3>5
    <3>7. QED
      BY <3>1, <3>2, <3>3, <3>6
  <2>7. QED
    BY <1>5, <2>1, <2>2, <2>3, <2>4, <2>5, <2>6 DEF AbortAction, AbortRuns
<1>6. CASE UNCHANGED vars
  BY <1>6 DEF vars
<1>7. QED
  BY <1>1, <1>2, <1>3, <1>4, <1>5, <1>6, NextByActor

(* Whatever Configures, Aborts and tables do, each variable keeps to its     *)
(* range, one Configure runs at a time and the Tango lock has the owner its  *)
(* with blocks say.                                                          *)
THEOREM TypeCorrect == Safe => []TypeOK
<1>1. Init => TypeOK
  <2> SUFFICES ASSUME Init PROVE TypeOK
    OBVIOUS
  <2>1. ManagerOK
    BY DEF Init, ManagerOK, DishStates
  <2>2. TablesOK
    BY ConfigureAssumption DEF Init, TablesOK
  <2>3. CommandsOK
    <3>1. clean = {} /\ \A c \in Configures : ~Active(c)
      BY DEF Init, Active
    <3>2. /\ cfgPc \in [Configures -> ConfigureStates]
          /\ abortPc \in [Aborts -> AbortStates]
          /\ abortFlag \in [Configures -> BOOLEAN]
      BY DEF Init, ConfigureStates, AbortStates
    <3>3. /\ verdict \in
               [Configures -> {"none", "OK", "FAILED", "ABORTED", "NO_ADAPTER"}]
          /\ told \in [Configures -> {"none", "OK", "FAILED", "ABORTED", "REJECTED"}]
          /\ nestedFlag \in BOOLEAN
      BY DEF Init
    <3>4. session \in [Configures -> 0..generated]
      BY DEF Init
    <3>5. QED
      BY <3>1, <3>2, <3>3, <3>4 DEF CommandsOK
  <2>4. LockOK
    BY ConfigureAssumption DEF Init, LockOK, HoldsLock
  <2>5. QED
    BY <2>1, <2>2, <2>3, <2>4 DEF TypeOK
<1>2. QED
  BY <1>1, TypeStep, PTL DEF Safe

-----------------------------------------------------------------------------
(* Steps that leave the dish alone.                                          *)

LEMMA OnlyWriteLoads ==
  TypeOK /\ [Next]_vars /\ ~TableWritten => dishTable' = dishTable
<1> SUFFICES ASSUME TypeOK, [Next]_vars, ~TableWritten
             PROVE  dishTable' = dishTable
  OBVIOUS
<1>1. CASE DishMoves \/ PointingAction \/ UNCHANGED vars
  BY <1>1 DEF DishMoves, PointingAction, SessionStarts, SessionFails, GenerateTaken, SessionEnds, TablePublished,
              vars
<1>2. CASE EventAction
  BY <1>2 DEF EventAction, EventRuns, TakeTable, ModeAppended, TryFails, EventLocks
<1>3. ASSUME NEW c \in Configures, CfgAction(c) PROVE dishTable' = dishTable
  BY <1>3, CfgShape DEF CfgStep
<1>4. ASSUME NEW a \in Aborts, AbortAction(a) PROVE dishTable' = dishTable
  BY <1>4 DEF AbortAction, AbortRaises, AbortRuns, AbortFlags, QueueAborted,
              AbortFlagsAgain, AbortStops, AbortEnds, AbortLocks, AbortFails,
              AbortSteps
<1>5. QED
  BY <1>1, <1>2, <1>3, <1>4, NextByActor

LEMMA OnlyConfigureMoves ==
  TypeOK /\ [Next]_vars /\ cfgPc' # cfgPc => \E c \in Configures : CfgAction(c)
<1> SUFFICES ASSUME TypeOK, [Next]_vars, \A c \in Configures : ~CfgAction(c)
             PROVE  cfgPc' = cfgPc
  OBVIOUS
<1>1. CASE DishMoves \/ PointingAction \/ UNCHANGED vars
  BY <1>1 DEF DishMoves, PointingAction, SessionStarts, SessionFails, GenerateTaken, SessionEnds, TablePublished,
              vars
<1>2. CASE EventAction
  BY <1>2 DEF EventAction, EventRuns, TakeTable, TableWritten, ModeAppended, TryFails,
              EventLocks, EventSteps
<1>3. ASSUME NEW a \in Aborts, AbortAction(a) PROVE cfgPc' = cfgPc
  BY <1>3 DEF AbortAction, AbortRaises, AbortRuns, AbortFlags, QueueAborted,
              AbortFlagsAgain, AbortStops, AbortEnds, AbortLocks, AbortFails,
              AbortSteps
<1>4. QED
  BY <1>1, <1>2, <1>3, NextByActor

(* While an Abort is inside its with block nobody else calls the dish: the   *)
(* calls of a Configure and of the event thread take the lock it holds.      *)
THEOREM AbortExclusive == Safe => AbortHasDishToItself
<1> DEFINE Step == (\E a \in Aborts : HoldsLock(a)) =>
                     /\ dishTable' = dishTable
                     /\ \A c \in Configures : ~CallsDish(c)
<1>1. TypeOK /\ [Next]_vars => Step
  <2> SUFFICES ASSUME TypeOK, [Next]_vars, NEW a \in Aborts, HoldsLock(a)
               PROVE  /\ dishTable' = dishTable
                      /\ \A c \in Configures : ~CallsDish(c)
    OBVIOUS
  <2>1. tangoLock = a /\ tangoLock # "free" /\ eventPc # "write"
    BY ConfigureAssumption DEF TypeOK, LockOK
  <2>2. dishTable' = dishTable
    BY <2>1, OnlyWriteLoads DEF TableWritten, EventSteps
  <2>3. ASSUME NEW c \in Configures, CallsDish(c) PROVE FALSE
    <3>1. PICK d \in Configures : CfgAction(d)
      BY <2>3, OnlyConfigureMoves DEF CallsDish
    <3>2. PICK to \in ConfigureStates : CfgMoves(d, to)
      BY <3>1, CfgShape DEF CfgStep
    <3>3. cfgPc \in [Configures -> ConfigureStates]
      BY DEF TypeOK, CommandsOK
    <3>4. to \in {"waitBand", "waitTrack"}
      BY <2>3, <3>2, <3>3 DEF CallsDish, CfgMoves
    <3>5. QED
      BY <2>1, <3>2, <3>4 DEF CfgMoves
  <2>4. QED
    BY <2>2, <2>3
<1>2. QED
  BY <1>1, TypeCorrect, PTL DEF Safe, AbortHasDishToItself

-----------------------------------------------------------------------------
(* The order of the tables.                                                  *)

LEMMA OrderedStep == TypeOK /\ Ordered /\ [Next]_vars => Ordered'
<1> SUFFICES ASSUME TypeOK, Ordered, [Next]_vars PROVE Ordered'
  OBVIOUS
<1> USE DEF TypeOK, TablesOK, Ordered
<1>1. CASE DishMoves \/ UNCHANGED vars
  BY <1>1 DEF DishMoves, vars
<1>2. CASE PointingAction
  <2>1. CASE SessionStarts
    BY <2>1 DEF SessionStarts, GenerateTaken
  <2>2. CASE SessionFails
    BY <2>2 DEF SessionFails, GenerateTaken
  <2>3. CASE TablePublished
    <3>1. /\ tables' = Append(tables, tracking)
          /\ UNCHANGED <<dishTable, requested, tracking, table>>
          /\ tracking # 0
      BY <2>3 DEF TablePublished
    <3>2. /\ Len(tables') = Len(tables) + 1
          /\ tables'[Len(tables) + 1] = tracking
          /\ \A i \in 1..Len(tables) : tables'[i] = tables[i]
          /\ \A i \in 1..Len(tables) : tables[i] \in Nat
      BY <3>1
    <3>3. \A i \in 1..Len(tables') : tables'[i] <= tracking
      BY <3>1, <3>2
    <3>4. QED
      BY <3>1, <3>2, <3>3
  <2>4. CASE SessionEnds
    BY <2>4 DEF SessionEnds
  <2>5. QED
    BY <1>2, <2>1, <2>2, <2>3, <2>4 DEF PointingAction
<1>3. CASE EventAction
  <2>1. CASE TakeTable
    <3>1. /\ tables # <<>>
          /\ table' = tables[1]
          /\ tables' = Tail(tables)
          /\ UNCHANGED <<dishTable, requested, tracking>>
      BY <2>1 DEF TakeTable, EventSteps
    <3>2. /\ Len(tables') = Len(tables) - 1
          /\ \A i \in 1..Len(tables') : tables'[i] = tables[i + 1]
          /\ Len(tables) \in Nat \ {0}
      BY <3>1
    <3>3. QED
      BY <3>1, <3>2
  <2>2. CASE TableWritten
    <3>1. table \in Nat \ {0} /\ UNCHANGED <<tables, requested, tracking, table>>
      BY <2>2 DEF TableWritten, EventSteps
    <3>2. dishTable' \subseteq dishTable \cup {table}
      BY <2>2 DEF TableWritten, Loaded
    <3>3. QED
      BY <3>1, <3>2
  <2>3. CASE EventLocks
    BY <2>3 DEF EventLocks, EventSteps
  <2>4. CASE ModeAppended \/ TryFails
    <3>1. /\ UNCHANGED <<dishTable, tables, requested, tracking>>
          /\ table' \in {table, 0}
      BY <2>4 DEF ModeAppended, TryFails, EventSteps, Released
    <3>2. QED
      BY <3>1
  <2>5. QED
    BY <1>3, <2>1, <2>2, <2>3, <2>4 DEF EventAction, EventRuns
<1>4. ASSUME NEW c \in Configures, CfgAction(c) PROVE Ordered'
  <2>1. CfgStep(c)
    BY <1>4, CfgShape
  <2>2. /\ UNCHANGED <<dishTable, tables, table>>
        /\ tracking' \in {tracking, 0}
        /\ requested' = requested \/ requested' = requested \cup {generated + 1}
    BY <2>1 DEF CfgStep, CfgCounts, CfgFields
  <2>3. \A r \in requested' : r \in requested \/ r = generated + 1
    BY <2>2
  <2>4. /\ \A u \in dishTable : u <= generated
        /\ \A i \in 1..Len(tables) : tables[i] <= generated
        /\ table <= generated /\ tracking <= generated
    OBVIOUS
  <2>5. \A r \in requested' :
          /\ \A u \in dishTable : u < r
          /\ \A i \in 1..Len(tables) : tables[i] < r
          /\ table < r /\ tracking' < r
    <3> SUFFICES ASSUME NEW r \in requested'
                 PROVE  /\ \A u \in dishTable : u < r
                        /\ \A i \in 1..Len(tables) : tables[i] < r
                        /\ table < r /\ tracking' < r
      OBVIOUS
    <3>1. CASE r \in requested
      BY <2>2, <3>1
    <3>2. CASE r = generated + 1
      BY <2>2, <2>4, <3>2
    <3>3. QED
      BY <2>3, <3>1, <3>2
  <2>6. QED
    BY <2>2, <2>5
<1>5. ASSUME NEW a \in Aborts, AbortAction(a) PROVE Ordered'
  <2>1. /\ UNCHANGED <<dishTable, tables, table, requested>>
        /\ tracking' \in {tracking, 0}
    BY <1>5 DEF AbortAction, AbortRaises, AbortRuns, AbortFlags, QueueAborted,
                AbortFlagsAgain, AbortStops, AbortEnds, AbortLocks, AbortFails,
                AbortSteps, FlagCommands, Stopped
  <2>2. QED
    BY <2>1
<1>6. QED
  BY <1>1, <1>2, <1>3, <1>4, <1>5, NextByActor

(* No retry, no Abort and no delay of the queue lets a table of an earlier   *)
(* Configure reach the dish after one of a later.                            *)
THEOREM InOrder == Safe => TablesInOrder
<1> DEFINE Step == \A t \in dishTable' \ dishTable : \A u \in dishTable : u < t
<1>1. Init => Ordered
  BY DEF Init, Ordered
<1>2. TypeOK /\ Ordered /\ [Next]_vars => Step
  <2> SUFFICES ASSUME TypeOK, Ordered, [Next]_vars,
                      NEW t \in dishTable' \ dishTable, NEW u \in dishTable
               PROVE  u < t
    OBVIOUS
  <2>1. TableWritten
    BY OnlyWriteLoads
  <2>2. t = table /\ table # 0
    BY <2>1 DEF TableWritten, Loaded, EventSteps, TypeOK, TablesOK
  <2>3. u <= table /\ u # t
    BY <2>2 DEF Ordered
  <2>4. QED
    BY <2>2, <2>3 DEF TypeOK, TablesOK
<1>3. QED
  BY <1>1, <1>2, OrderedStep, TypeCorrect, PTL DEF Safe, TablesInOrder

-----------------------------------------------------------------------------
(* A clean start.                                                            *)

(* The steps of a Configure that touch no table, load mode or session: after *)
(* a session is asked for they go on to Track only once a table is provided. *)
CfgQuietMove(c, from, to) ==
  /\ cfgPc[c] = from
  /\ cfgPc' = [cfgPc EXCEPT ![c] = to]
  /\ \/ from \in {"idle", "adapter"}
     \/ /\ from \in HasSession \ {"conclude"} /\ to \in HasSession
        /\ to = "callTrack" => isTracktableProvided
        /\ to = "waitTrack" => from = "callTrack"

CfgQuiet(c) ==
  /\ UNCHANGED <<loadMode, isTracktableProvided, requested, session, tracking,
                 clean>>
  /\ \E from, to \in ConfigureStates : CfgQuietMove(c, from, to)

LEMMA CfgByTables ==
  ASSUME NEW c \in Configures, CfgAction(c)
  PROVE  \/ ModeRenewed(c) \/ ProvidedCleared(c)
         \/ Generate(c) \/ GenerateRaises(c)
         \/ Concludes(c) \/ StopRaises(c)
         \/ CfgQuiet(c)
<1> USE DEF CfgSteps, Locally, Proceeds, Decides, Returns, CallDish, NestedEnds,
            NestedCompletes, NestedAborted, NestedFails, ConfigureStates, HasSession,
            CfgQuiet, CfgQuietMove
<1>1. CASE NotAllowed(c)
  BY <1>1 DEF NotAllowed
<1>2. CASE InvalidArgument(c)
  BY <1>2 DEF InvalidArgument
<1>3. CASE Begins(c)
  BY <1>3 DEF Begins
<1>4. CASE AdaptersReady(c)
  BY <1>4 DEF AdaptersReady
<1>5. CASE NoPointingAdapter(c)
  BY <1>5 DEF NoPointingAdapter
<1>6. CASE \/ PollAborted(c) \/ PollTimesOut(c)
           \/ Configured(c) \/ WaitAborted(c) \/ WaitTimesOut(c)
  <2>1. \E from \in {"poll", "wait"}, code \in {"OK", "FAILED", "ABORTED"} :
          Returns(c, from, code)
    BY <1>6, Zenon DEF PollAborted, PollTimesOut, Configured, WaitAborted, WaitTimesOut
  <2>2. QED
    BY <2>1
<1>7. CASE \/ BandIsSet(c) \/ BandNeeded(c) \/ NoTrackNeeded(c) \/ TrackNeeded(c)
  BY <1>7 DEF BandIsSet, BandNeeded, NoTrackNeeded, TrackNeeded
<1>8. CASE TableSeen(c)
  BY <1>8 DEF TableSeen
<1>9. CASE BandCalled(c) \/ TrackCalled(c)
  BY <1>9 DEF BandCalled, TrackCalled
<1>10. CASE BandConfigured(c) \/ TrackCompletes(c)
  BY <1>10 DEF BandConfigured, TrackCompletes
<1>11. CASE BandAborted(c) \/ TrackAborted(c)
  BY <1>11 DEF BandAborted, TrackAborted
<1>12. CASE BandFails(c) \/ BandNotCalled(c) \/ TrackFails(c) \/ TrackNotCalled(c)
  BY <1>12 DEF BandFails, BandNotCalled, TrackFails, TrackNotCalled
<1>13. QED
  BY <1>1, <1>2, <1>3, <1>4, <1>5, <1>6, <1>7, <1>8, <1>9, <1>10, <1>11, <1>12
     DEF CfgAction, ConfigureRuns, ConfigureLocks, ConfigureGivesUp

LEMMA CleanStep == TypeOK /\ CleanInv /\ [Next]_vars => CleanInv'
<1> SUFFICES ASSUME TypeOK, CleanInv, [Next]_vars PROVE CleanInv'
  OBVIOUS
<1> USE DEF AwaitsNone, AwaitsOwn, NoTableComing
<1>1. CASE DishMoves \/ UNCHANGED vars
  BY <1>1 DEF DishMoves, vars, CleanInv, Clean
<1>2. CASE PointingAction \/ EventAction
  <2>1. UNCHANGED <<cfgPc, session, clean>>
    BY <1>2 DEF PointingAction, SessionStarts, SessionFails, GenerateTaken, SessionEnds, TablePublished,
                EventAction, EventRuns, TakeTable, TableWritten, ModeAppended,
                TryFails, EventLocks, EventSteps
  <2> SUFFICES ASSUME NEW c \in clean PROVE Clean(c)'
    BY <2>1 DEF CleanInv
  <2>2. Clean(c)
    BY DEF CleanInv
  <2> USE DEF Clean
  <2>3. CASE SessionStarts \/ SessionFails \/ SessionEnds
    BY <2>1, <2>2, <2>3 DEF SessionStarts, SessionFails, GenerateTaken, SessionEnds, TypeOK,
                            TablesOK
  <2>4. CASE TablePublished
    <3>1. /\ tables' = Append(tables, tracking) /\ tracking # 0
          /\ UNCHANGED <<loadMode, isTracktableProvided, requested, tracking, table,
                         eventPc, dishTable>>
      BY <2>4 DEF TablePublished
    <3>2. /\ Len(tables') = Len(tables) + 1
          /\ tables'[Len(tables) + 1] = tracking
          /\ \A i \in 1..Len(tables) : tables'[i] = tables[i]
          /\ Len(tables) \in Nat
      BY <3>1 DEF TypeOK, TablesOK
    <3>3. AwaitsOwn(c) => \A i \in 1..Len(tables') : tables'[i] = session[c]
      BY <3>1, <3>2
    <3>4. QED
      BY <2>1, <2>2, <3>1, <3>3
  <2>5. CASE TakeTable
    <3>1. /\ tables # <<>> /\ table' = tables[1] /\ tables' = Tail(tables)
          /\ eventPc' = "lock"
          /\ UNCHANGED <<loadMode, isTracktableProvided, requested, tracking, dishTable>>
      BY <2>5 DEF TakeTable, EventSteps
    <3>2. /\ Len(tables') = Len(tables) - 1
          /\ \A i \in 1..Len(tables') : tables'[i] = tables[i + 1]
          /\ Len(tables) \in Nat \ {0}
      BY <3>1 DEF TypeOK, TablesOK
    <3>3. QED
      BY <2>1, <2>2, <3>1, <3>2
  <2>6. CASE EventLocks
    BY <2>1, <2>2, <2>6 DEF EventLocks, EventSteps
  <2>7. CASE TableWritten
    <3>1. table # 0
      BY <2>7 DEF TableWritten, EventSteps, TypeOK, TablesOK
    <3>2. QED
      BY <2>1, <2>2, <2>7, <3>1 DEF TableWritten, EventSteps, Loaded
  <2>8. CASE ModeAppended
    BY <2>1, <2>2, <2>8 DEF ModeAppended, EventSteps, Released
  <2>9. CASE TryFails
    BY <2>1, <2>2, <2>9 DEF TryFails, EventSteps, Released
  <2>10. QED
    BY <1>2, <2>3, <2>4, <2>5, <2>6, <2>7, <2>8, <2>9
       DEF PointingAction, EventAction, EventRuns
<1>3. ASSUME NEW d \in Configures, CfgAction(d) PROVE CleanInv'
  <2>1. \A c \in clean' : c = d
    <3>1. PICK to \in ConfigureStates : CfgMoves(d, to)
      BY <1>3, CfgShape DEF CfgStep
    <3>2. QED
      BY <3>1 DEF CfgMoves, WorkerFree, WorkerBusy, TypeOK, CommandsOK
  <2> SUFFICES ASSUME d \in clean' PROVE Clean(d)'
    BY <2>1 DEF CleanInv
  <2>2. cfgPc \in [Configures -> ConfigureStates] /\ session \in [Configures -> 0..generated]
    BY DEF TypeOK, CommandsOK
  <2>3. CASE ModeRenewed(d)
    <3>1. /\ cfgPc[d] = "mode" /\ cfgPc'[d] = "clear"
          /\ UNCHANGED <<requested, tracking, tables, eventPc>>
      BY <2>2, <2>3 DEF ModeRenewed, CfgSteps, Locally
    <3>2. d \notin clean
      BY <3>1 DEF CleanInv, Clean, HasSession
    <3>3. loadMode' = "NEW" /\ NoTableComing
      BY <2>3, <3>2 DEF ModeRenewed
    <3>4. QED
      BY <3>1, <3>3 DEF Clean, HasSession
  <2>4. CASE ProvidedCleared(d)
    <3>1. /\ cfgPc[d] = "clear" /\ cfgPc'[d] = "generate"
          /\ UNCHANGED <<requested, tracking, tables, eventPc, loadMode, clean>>
          /\ isTracktableProvided' = FALSE
      BY <2>2, <2>4 DEF ProvidedCleared, CfgSteps, Locally
    <3>2. NoTableComing /\ loadMode = "NEW"
      BY <3>1 DEF CleanInv, Clean
    <3>3. QED
      BY <3>1, <3>2 DEF Clean, HasSession
  <2>5. CASE Generate(d)
    <3>1. /\ cfgPc[d] = "generate" /\ cfgPc'[d] = "band"
          /\ requested' = requested \cup {generated + 1} /\ session'[d] = generated + 1
          /\ UNCHANGED <<tracking, tables, table, eventPc, loadMode, clean,
                         isTracktableProvided>>
      BY <2>2, <2>5 DEF Generate, Requests, CfgSteps, Locally
    <3>2. NoTableComing /\ loadMode = "NEW" /\ ~isTracktableProvided
      BY <3>1 DEF CleanInv, Clean
    <3>3. table = 0
      BY <3>2 DEF TypeOK, TablesOK
    <3>4. QED
      BY <3>1, <3>2, <3>3 DEF Clean, HasSession
  <2>6. CASE Concludes(d) \/ StopRaises(d)
    BY <2>6 DEF Concludes, StopRaises, Ends, Stopped
  <2>7. CASE CfgQuiet(d)
    <3>1. PICK from \in ConfigureStates, to \in ConfigureStates :
            CfgQuietMove(d, from, to)
      BY <2>7 DEF CfgQuiet
    <3>2. /\ UNCHANGED <<loadMode, isTracktableProvided, requested, session, tracking,
                         clean, dishTable, tables, table, eventPc>>
          /\ cfgPc[d] = from /\ cfgPc'[d] = to
      BY <1>3, <2>2, <2>7, <3>1, CfgShape DEF CfgQuiet, CfgQuietMove, CfgStep
    <3>3. Clean(d)
      BY <3>2 DEF CleanInv
    <3>4. from \in HasSession \ {"conclude"}
      BY <3>1, <3>2, <3>3 DEF Clean, CfgQuietMove, HasSession
    <3>5. QED
      BY <3>1, <3>2, <3>3, <3>4 DEF Clean, CfgQuietMove, HasSession
  <2>8. CASE GenerateRaises(d)
    BY <2>2, <2>8 DEF GenerateRaises, CfgSteps, Locally, Clean, HasSession
  <2>9. QED
    BY <1>3, <2>3, <2>4, <2>5, <2>6, <2>7, <2>8, CfgByTables
<1>4. ASSUME NEW a \in Aborts, AbortAction(a) PROVE CleanInv'
  <2>1. /\ UNCHANGED <<dishVars, isTracktableProvided, requested, eventVars, cfgVars,
                       clean>>
        /\ tracking' \in {tracking, 0}
    BY <1>4 DEF AbortAction, AbortRaises, AbortRuns, AbortFlags, QueueAborted,
                AbortFlagsAgain, AbortStops, AbortEnds, AbortLocks, AbortFails,
                AbortSteps, FlagCommands, Stopped
  <2>2. QED
    BY <2>1 DEF CleanInv, Clean
<1>5. QED
  BY <1>1, <1>2, <1>3, <1>4, NextByActor

(* A Configure that began with nothing on its way and got its load mode      *)
(* through calls Track only when the dish has its own table and no other.    *)
THEOREM CleanStart == Safe => []CleanStartTracksOwnTarget
<1>1. Init => CleanInv
  BY DEF Init, CleanInv
<1>2. CleanInv => CleanStartTracksOwnTarget
  BY DEF CleanInv, Clean, AwaitsOwn, HasSession, CleanStartTracksOwnTarget
<1>3. QED
  BY <1>1, <1>2, CleanStep, TypeCorrect, PTL DEF Safe
=============================================================================
