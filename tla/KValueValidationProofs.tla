------------------------ MODULE KValueValidationProofs ------------------------
(* Theorems about KValueValidation, for every set of kValues and every       *)
(* length of the event queue.                                                *)
EXTENDS KValueValidationProperties, SequenceTheorems, TLAPS

Outcomes == {"UNKNOWN", "OK", "FAILED"}

(* A thread that is through with the comparison has its verdict.             *)
HasVerdict == \A t \in Threads : pc[t] \in {"lock", "set", "publish", "report"} => verdict[t] \in Outcomes

(* A thread that writes the result holds kvalue_validation_lock.             *)
HoldsLock == \A t \in Threads : pc[t] \in {"set", "publish", "report"} => lock = t

Inv == TypeOK /\ HasVerdict /\ HoldsLock

(* Somebody has still to publish, or to report, the result.                  *)
PublishPending ==
  \/ setPc \in {"memorise", "publish"}
  \/ pc["timer"] = "publishGivenUp"
  \/ \E t \in Threads : pc[t] = "publish"

ReportPending ==
  \/ PublishPending
  \/ setPc = "report"
  \/ pc["timer"] = "reportGivenUp"
  \/ \E t \in Threads : pc[t] = "report"

(* As long as no writer came between two steps of another, what is not still *)
(* to be published and reported is the result.                               *)
Consistent ==
  disturbed \in {"none", "attribute"} =>
    /\ \A t \in Threads : pc[t] \in {"publish", "report"} => validationResult = verdict[t]
    /\ ~PublishPending => published = validationResult
    /\ ~ReportPending => reported = validationResult

-----------------------------------------------------------------------------
LEMMA ComparisonType == \A theirs, ours : Comparison(theirs, ours) \in Outcomes
  BY DEF Comparison, Outcomes

LEMMA MarksType ==
  ASSUME TypeOK, NEW cond, NEW what \in {"overlap", "database", "attribute"}, Marks(cond, what)
  PROVE  /\ disturbed' \in {"none", "overlap", "database", "attribute"}
         /\ cond => disturbed' \in {what, "overlap"}
         /\ disturbed' \in {"none", "attribute"} => disturbed \in {"none", "attribute"}
  BY DEF Marks, TypeOK

(* A writer in the middle of another's steps is an overlap.                  *)
LEMMA WriteMarks ==
  ASSUME TypeOK
  PROVE  /\ UnlockedWrite \/ LockedWrite =>
              /\ disturbed' \in {"none", "overlap", "database", "attribute"}
              /\ disturbed' \in {"none", "attribute"} => disturbed \in {"none", "attribute"}
         /\ UnlockedWrite /\ disturbed' # "overlap" => \A t \in Threads : ~Comparing(t)
         /\ LockedWrite /\ disturbed' # "overlap" => ~WritesUnlocked
  BY DEF UnlockedWrite, LockedWrite, Marks, TypeOK

(* The dish announces a change to the queue.                                 *)
LEMMA AnnouncedType ==
  ASSUME TypeOK, NEW value \in KValues \cup {0}, Announced(value)
  PROVE  dish' \in KValues \cup {0} /\ events' \in Seq(KValues \cup {0})
<1>1. events \in Seq(KValues \cup {0})
  BY DEF TypeOK
<1>2. Append(events, value) \in Seq(KValues \cup {0})
  BY <1>1
<1> QED BY <1>1, <1>2 DEF Announced

(* A thread moves, and the other stays.                                      *)
LEMMA OneMoves ==
  ASSUME TypeOK, NEW t \in Threads, NEW from,
         NEW to \in {"idle", "own", "lock", "set", "publish", "report", "giveUp", "publishGivenUp",
                     "reportGivenUp", "finish", "done"},
         Moves(t, from, to)
  PROVE  /\ pc[t] = from /\ pc'[t] = to
         /\ \A u \in Threads \ {t} : pc'[u] = pc[u]
         /\ pc' \in [Threads -> {"wait", "idle", "own", "lock", "set", "publish", "report", "giveUp",
                                 "publishGivenUp", "reportGivenUp", "finish", "done"}]
         /\ UNCHANGED <<dish, kvalue, memorised, loaded, setPc, argin>>
  BY DEF TypeOK, Moves, setVars

-----------------------------------------------------------------------------
LEMMA ComparesInv ==
  ASSUME Inv, NEW t \in Threads, Compares(t)
  PROVE  Inv'
<1> USE DEF Inv
<1>0. AfterUpdate(t) \in {"finish", "idle"}
  BY DEF AfterUpdate
<1>1. CASE ReadsOwn(t)
  <2>1. verdict' \in [Threads -> {"none", "UNKNOWN", "OK", "FAILED"}] /\ verdict'[t] \in Outcomes
        /\ \A u \in Threads \ {t} : verdict'[u] = verdict[u]
    BY <1>1, ComparisonType DEF ReadsOwn, TypeOK, Outcomes
  <2>2. TypeOK'
    BY <1>1, <2>1, OneMoves DEF ReadsOwn, TypeOK, resultVars
  <2>3. HasVerdict' /\ HoldsLock'
    BY <1>1, <2>1, OneMoves DEF ReadsOwn, HasVerdict, HoldsLock
  <2> QED BY <2>2, <2>3
<1>2. CASE Differs(t)
  <2>1. TypeOK'
    BY <1>2, OneMoves DEF Differs, TypeOK, resultVars
  <2>2. HasVerdict' /\ HoldsLock'
    BY <1>2, OneMoves DEF Differs, HasVerdict, HoldsLock, Threads
  <2> QED BY <2>1, <2>2
<1>3. CASE Same(t)
  <2>1. TypeOK'
    BY <1>0, <1>3, OneMoves DEF Same, Forgets, TypeOK, resultVars
  <2>2. HasVerdict' /\ HoldsLock'
    BY <1>0, <1>3, OneMoves DEF Same, Forgets, TypeOK, HasVerdict, HoldsLock
  <2> QED BY <2>1, <2>2
<1>4. CASE SetsResult(t)
  <2>1. verdict[t] \in Results
    BY <1>4, OneMoves DEF SetsResult, HasVerdict, Outcomes, Results
  <2>2. TypeOK'
    BY <1>4, <2>1, OneMoves, MarksType DEF SetsResult, LockedWrite, TypeOK
  <2>3. HasVerdict' /\ HoldsLock'
    BY <1>4, OneMoves DEF SetsResult, HasVerdict, HoldsLock
  <2> QED BY <2>2, <2>3
<1>5. CASE Publishes(t)
  <2>1. verdict[t] \in Results
    BY <1>5, OneMoves DEF Publishes, HasVerdict, Outcomes, Results
  <2>2. TypeOK'
    BY <1>5, <2>1, OneMoves, MarksType DEF Publishes, LockedWrite, TypeOK
  <2>3. HasVerdict' /\ HoldsLock'
    BY <1>5, OneMoves DEF Publishes, HasVerdict, HoldsLock
  <2> QED BY <2>2, <2>3
<1>6. CASE Reports(t)
  <2>1. TypeOK'
    BY <1>0, <1>6, OneMoves, MarksType DEF Reports, Forgets, LockedWrite, TypeOK
  <2>2. HasVerdict' /\ HoldsLock'
    BY <1>0, <1>6, OneMoves DEF Reports, Forgets, TypeOK, HasVerdict, HoldsLock
  <2> QED BY <2>1, <2>2
<1> QED BY <1>1, <1>2, <1>3, <1>4, <1>5, <1>6 DEF Compares

LEMMA ThreadsInv ==
  ASSUME Inv, TakesEvent \/ TimerSteps
  PROVE  Inv'
<1> USE DEF Inv
<1>0. "timer" \in Threads /\ "events" \in Threads
  BY DEF Threads
<1>1. CASE TakesEvent
  <2>1. events \in Seq(KValues \cup {0}) /\ events # <<>>
    BY <1>1 DEF TakesEvent, TypeOK
  <2>2. Head(events) \in KValues \cup {0} /\ Tail(events) \in Seq(KValues \cup {0})
    BY <2>1
  <2>3. TypeOK'
    BY <1>0, <1>1, <2>2, OneMoves DEF TakesEvent, TypeOK, resultVars
  <2>4. HasVerdict' /\ HoldsLock'
    BY <1>0, <1>1, OneMoves DEF TakesEvent, HasVerdict, HoldsLock
  <2> QED BY <2>3, <2>4
<1>2. CASE TimerReadsDish
  <2>1. TypeOK'
    BY <1>0, <1>2, OneMoves DEF TimerReadsDish, TypeOK, resultVars
  <2>2. HasVerdict' /\ HoldsLock'
    BY <1>0, <1>2, OneMoves DEF TimerReadsDish, HasVerdict, HoldsLock
  <2> QED BY <2>1, <2>2
<1>3. CASE TimerGivesUp \/ InitializationCompletes
  <2>1. TypeOK'
    BY <1>0, <1>3, OneMoves DEF TimerGivesUp, InitializationCompletes, TypeOK, resultVars
  <2>2. HasVerdict' /\ HoldsLock'
    BY <1>0, <1>3, OneMoves DEF TimerGivesUp, InitializationCompletes, HasVerdict, HoldsLock
  <2> QED BY <2>1, <2>2
<1>4. CASE SetsNotAllowed \/ PublishesNotAllowed \/ ReportsNotAllowed
  <2>1. TypeOK'
    <3>1. UnlockedWrite
      BY <1>4 DEF SetsNotAllowed, PublishesNotAllowed, ReportsNotAllowed
    <3>2. /\ UNCHANGED <<events, initialized, lock, seen, verdict>>
          /\ {validationResult', published', reported'} \subseteq Results
      BY <1>4 DEF SetsNotAllowed, PublishesNotAllowed, ReportsNotAllowed, TypeOK, Results
    <3>3. \E from, to \in {"giveUp", "publishGivenUp", "reportGivenUp", "finish"} : Moves("timer", from, to)
      BY <1>4 DEF SetsNotAllowed, PublishesNotAllowed, ReportsNotAllowed
    <3> QED BY <1>0, <3>1, <3>2, <3>3, OneMoves, WriteMarks DEF TypeOK
  <2>2. HasVerdict' /\ HoldsLock'
    BY <1>0, <1>4, OneMoves
       DEF SetsNotAllowed, PublishesNotAllowed, ReportsNotAllowed, HasVerdict, HoldsLock
  <2> QED BY <2>1, <2>2
<1> QED BY <1>1, <1>2, <1>3, <1>4 DEF TimerSteps

LEMMA SetKValueInv ==
  ASSUME Inv, SetKValue \/ WritesAttribute \/ DishChanges \/ LoadsMemorised
  PROVE  Inv'
<1> USE DEF Inv, SetSteps, threadVars, resultVars, setVars
<1>1. HasVerdict' /\ HoldsLock'
  BY DEF SetKValue, DishAccepts, DishRefuses, StoresValue, SetsOK, Memorises, MemoriseFails, SetPublishes, SetReports,
         WritesAttribute, DishChanges, LoadsMemorised, HasVerdict, HoldsLock
<1>2. CASE DishAccepts \/ DishRefuses \/ DishChanges
  BY <1>1, <1>2, AnnouncedType, MarksType DEF DishAccepts, DishRefuses, DishChanges, TypeOK
<1>3. CASE StoresValue \/ SetsOK \/ Memorises \/ SetPublishes \/ SetReports \/ LoadsMemorised
  <2>1. UnlockedWrite \/ LoadsMemorised
    BY <1>3 DEF StoresValue, SetsOK, Memorises, SetPublishes, SetReports, LoadsMemorised
  <2>2. disturbed' \in {"none", "overlap", "database", "attribute"}
    BY <2>1, WriteMarks, MarksType DEF LoadsMemorised
  <2>3. /\ UNCHANGED <<dish, events, initialized, lock, threadVars>>
        /\ kvalue' \in {kvalue, argin, memorised} /\ memorised' \in {memorised, kvalue}
        /\ loaded' \in BOOLEAN
        /\ {validationResult', published', reported'} \subseteq {"OK", validationResult, published, reported}
        /\ setPc' \in {setPc, "idle", "result", "memorise", "publish", "report"}
        /\ argin' \in {argin, 0}
    BY <1>3 DEF StoresValue, SetsOK, Memorises, SetPublishes, SetReports, LoadsMemorised, TypeOK
  <2>4. TypeOK'
    BY <2>2, <2>3 DEF TypeOK, Results
  <2> QED BY <1>1, <2>4
<1>4. CASE MemoriseFails \/ WritesAttribute
  BY <1>1, <1>4, MarksType DEF MemoriseFails, WritesAttribute, TypeOK
<1> QED BY <1>2, <1>3, <1>4 DEF SetKValue

(* A start and a restart leave the same state but for the dish and the       *)
(* database.                                                                 *)
LEMMA StartTypes ==
  /\ Stopped \in [Threads -> {"wait", "idle"}]
  /\ NoValues \in [Threads -> {0}]
  /\ NoVerdicts \in [Threads -> {"none"}]
  BY DEF Stopped, NoValues, NoVerdicts

LEMMA InitInv == Init => Inv
<1> SUFFICES ASSUME Init PROVE Inv
  OBVIOUS
<1>1. dish \in KValues \cup {0} /\ events \in Seq(KValues \cup {0})
  BY DEF Init
<1>2. TypeOK
  BY <1>1, StartTypes DEF Init, TypeOK, Results
<1> QED BY <1>2, StartTypes DEF Inv, Init, HasVerdict, HoldsLock

LEMMA NextInv == Inv /\ [Next]_vars => Inv'
<1> SUFFICES ASSUME Inv, [Next]_vars PROVE Inv'
  OBVIOUS
<1>1. CASE Restart
  <2>1. dish' \in KValues \cup {0} /\ events' \in Seq(KValues \cup {0})
    BY <1>1 DEF Restart, Inv, TypeOK
  <2>2. TypeOK'
    BY <1>1, <2>1, StartTypes DEF Restart, Inv, TypeOK, Results
  <2> QED BY <1>1, <2>2, StartTypes DEF Inv, Restart, HasVerdict, HoldsLock
<1>2. CASE UNCHANGED vars
  BY <1>2 DEF vars, resultVars, threadVars, setVars, Inv, TypeOK, HasVerdict, HoldsLock
<1> QED BY <1>1, <1>2, ComparesInv, ThreadsInv, SetKValueInv DEF Next

LEMMA AlwaysInv == Spec => []Inv
  BY InitInv, NextInv, PTL DEF Spec

(* Every variable keeps to its values; in particular no thread writes a      *)
(* result it has not computed.                                               *)
THEOREM TypeCorrect == Spec => []TypeOK
<1>1. Inv => TypeOK
  BY DEF Inv
<1> QED BY <1>1, AlwaysInv, PTL

(* update_kvalue_validation_result is never in two threads at once, between  *)
(* its look at the result and its report to the health manager.              *)
Updating(t) == pc[t] \in {"set", "publish", "report"}

THEOREM UpdatesExclude == Spec => [](\A t, u \in Threads : Updating(t) /\ Updating(u) => t = u)
<1>1. Inv => \A t, u \in Threads : Updating(t) /\ Updating(u) => t = u
  BY DEF Inv, HoldsLock, Updating
<1> QED BY <1>1, AlwaysInv, PTL

-----------------------------------------------------------------------------
(* No other thread is past its look at the result while one writes it.       *)
LEMMA WriterAlone ==
  ASSUME Inv, NEW t \in Threads, Updating(t), NEW u \in Threads \ {t}
  PROVE  pc[u] \notin {"set", "publish", "report"}
  BY DEF Inv, HoldsLock, Updating

LEMMA ComparesConsistent ==
  ASSUME Inv, Consistent, NEW t \in Threads, Compares(t)
  PROVE  Consistent'
<1> USE DEF Inv
<1>0. AfterUpdate(t) \in {"finish", "idle"} /\ "timer" \in Threads
  BY DEF AfterUpdate, Threads
<1>1. CASE ReadsOwn(t)
  <2>1. \A u \in Threads \ {t} : verdict'[u] = verdict[u]
    BY <1>1 DEF ReadsOwn, TypeOK
  <2> QED BY <1>0, <1>1, <2>1, OneMoves DEF ReadsOwn, Consistent, PublishPending, ReportPending, resultVars
<1>2. CASE Differs(t)
  BY <1>0, <1>2, OneMoves DEF Differs, Consistent, PublishPending, ReportPending, resultVars
<1>3. CASE Same(t)
  <2>1. \A u \in Threads \ {t} : verdict'[u] = verdict[u]
    BY <1>3 DEF Same, Forgets, TypeOK
  <2> QED BY <1>0, <1>3, <2>1, OneMoves DEF Same, Consistent, PublishPending, ReportPending, resultVars
<1>4. CASE SetsResult(t)
  <2>1. /\ pc[t] = "set" /\ pc'[t] = "publish"
        /\ \A u \in Threads \ {t} : pc'[u] = pc[u] /\ pc[u] \notin {"publish", "report"}
    BY <1>4, OneMoves, WriterAlone DEF SetsResult, Updating
  <2>2. validationResult' = verdict'[t]
    BY <1>4 DEF SetsResult
  <2> QED BY <2>1, <2>2 DEF Consistent, PublishPending, ReportPending
<1>5. CASE Publishes(t)
  <2>1. /\ pc[t] = "publish" /\ pc'[t] = "report"
        /\ \A u \in Threads \ {t} : pc'[u] = pc[u] /\ pc[u] \notin {"publish", "report"}
    BY <1>5, OneMoves, WriterAlone DEF Publishes, Updating
  <2>2. disturbed' \in {"none", "attribute"} => disturbed \in {"none", "attribute"}
    BY <1>5, WriteMarks DEF Publishes
  <2>3. UNCHANGED <<validationResult, verdict>> /\ published' = verdict[t]
    BY <1>5 DEF Publishes
  <2> QED BY <2>1, <2>2, <2>3 DEF Consistent, PublishPending, ReportPending
<1>6. CASE Reports(t)
  <2>1. /\ pc[t] = "report" /\ pc'[t] \in {"finish", "idle"}
        /\ \A u \in Threads \ {t} : pc'[u] = pc[u] /\ pc[u] \notin {"publish", "report"}
        /\ UNCHANGED setPc
    BY <1>0, <1>6, OneMoves, WriterAlone DEF Reports, Updating
  <2>2. disturbed' \in {"none", "attribute"} => disturbed \in {"none", "attribute"}
    BY <1>6, WriteMarks DEF Reports
  <2>3. UNCHANGED <<validationResult, published>> /\ reported' = validationResult
    BY <1>6 DEF Reports
  <2> QED BY <1>0, <2>1, <2>2, <2>3 DEF Consistent, PublishPending, ReportPending
<1> QED BY <1>1, <1>2, <1>3, <1>4, <1>5, <1>6 DEF Compares

(* The writers that take no lock.                                            *)
LEMMA UnlockedConsistent ==
  ASSUME Inv, Consistent, UnlockedWrite, UNCHANGED verdict,
         \A t \in Threads : Comparing(t) \/ Comparing(t)' => pc'[t] = pc[t],
         \/ UNCHANGED <<validationResult, published, reported>>
            /\ (PublishPending => PublishPending') /\ (ReportPending => ReportPending')
         \/ PublishPending'
         \/ UNCHANGED validationResult /\ published' = validationResult /\ ReportPending'
         \/ /\ UNCHANGED <<validationResult, published>> /\ reported' = validationResult
            /\ PublishPending => PublishPending'
  PROVE  Consistent'
<1> SUFFICES ASSUME disturbed' \in {"none", "attribute"}
             PROVE  /\ \A t \in Threads : pc'[t] \in {"publish", "report"} => validationResult' = verdict'[t]
                    /\ ~PublishPending' => published' = validationResult'
                    /\ ~ReportPending' => reported' = validationResult'
  BY DEF Consistent
<1>1. disturbed \in {"none", "attribute"} /\ \A t \in Threads : ~Comparing(t)
  BY WriteMarks DEF Inv
<1>2. \A t \in Threads : pc'[t] \notin {"publish", "report"}
  BY <1>1 DEF Comparing
<1>3. PublishPending' => ReportPending'
  BY DEF ReportPending
<1> QED BY <1>1, <1>2, <1>3 DEF Consistent

LEMMA TimerConsistent ==
  ASSUME Inv, Consistent, TakesEvent \/ TimerSteps
  PROVE  Consistent'
<1> USE DEF Inv
<1>0. "timer" \in Threads /\ "events" \in Threads
  BY DEF Threads
<1>1. CASE TakesEvent \/ TimerReadsDish \/ TimerGivesUp \/ InitializationCompletes
  BY <1>0, <1>1, OneMoves
     DEF TakesEvent, TimerReadsDish, TimerGivesUp, InitializationCompletes, Consistent, PublishPending,
         ReportPending, resultVars
<1>2. CASE SetsNotAllowed
  BY <1>0, <1>2, OneMoves, UnlockedConsistent DEF SetsNotAllowed, Comparing, PublishPending
<1>3. CASE PublishesNotAllowed
  BY <1>0, <1>3, OneMoves, UnlockedConsistent DEF PublishesNotAllowed, Comparing, ReportPending
<1>4. CASE ReportsNotAllowed
  BY <1>0, <1>4, OneMoves, UnlockedConsistent DEF ReportsNotAllowed, Comparing, PublishPending
<1> QED BY <1>1, <1>2, <1>3, <1>4 DEF TimerSteps

LEMMA SetKValueConsistent ==
  ASSUME Inv, Consistent, SetKValue \/ WritesAttribute \/ DishChanges \/ LoadsMemorised
  PROVE  Consistent'
<1> USE DEF Inv, SetSteps, threadVars, resultVars, setVars
<1>1. CASE DishAccepts \/ DishRefuses \/ DishChanges
  <2>1. disturbed' \in {"none", "attribute"} => disturbed \in {"none", "attribute"}
    BY <1>1, MarksType DEF DishAccepts, DishRefuses, DishChanges
  <2>2. /\ UNCHANGED <<pc, verdict, validationResult, published, reported>>
        /\ setPc' = setPc \/ (setPc = "idle" /\ setPc' = "store")
    BY <1>1 DEF DishAccepts, DishRefuses, DishChanges
  <2> QED BY <2>1, <2>2 DEF Consistent, PublishPending, ReportPending
<1>2. CASE StoresValue \/ Memorises
  <2>1. UnlockedWrite /\ UNCHANGED <<pc, verdict, validationResult, published, reported>>
        /\ \/ setPc = "store" /\ setPc' = "result"
           \/ setPc = "memorise" /\ setPc' = "publish"
    <3>1. CASE StoresValue
      BY <3>1 DEF StoresValue
    <3>2. CASE Memorises
      BY <3>2 DEF Memorises
    <3> QED BY <1>2, <3>1, <3>2
  <2> QED BY <2>1, UnlockedConsistent DEF PublishPending, ReportPending
<1>3. CASE SetsOK
  BY <1>3, UnlockedConsistent DEF SetsOK, PublishPending
<1>4. CASE SetPublishes
  BY <1>4, UnlockedConsistent DEF SetPublishes, ReportPending
<1>5. CASE SetReports
  BY <1>5, UnlockedConsistent DEF SetReports, PublishPending
<1>6. CASE MemoriseFails
  BY <1>6, MarksType DEF MemoriseFails, Consistent
<1>7. CASE WritesAttribute
  BY <1>7, MarksType DEF WritesAttribute, Consistent, PublishPending, ReportPending
<1>8. CASE LoadsMemorised
  <2>1. disturbed' \in {"none", "attribute"} => disturbed \in {"none", "attribute"}
    BY <1>8, MarksType DEF LoadsMemorised
  <2> QED BY <1>8, <2>1 DEF LoadsMemorised, Consistent, PublishPending, ReportPending
<1> QED BY <1>1, <1>2, <1>3, <1>4, <1>5, <1>6, <1>7, <1>8 DEF SetKValue

LEMMA NextConsistent == Inv /\ Consistent /\ [Next]_vars => Consistent'
<1> SUFFICES ASSUME Inv, Consistent, [Next]_vars PROVE Consistent'
  OBVIOUS
<1>1. CASE Restart
  BY <1>1, StartTypes DEF Restart, Consistent
<1>2. CASE UNCHANGED vars
  BY <1>2 DEF vars, resultVars, threadVars, setVars, Consistent, PublishPending, ReportPending
<1> QED BY <1>1, <1>2, ComparesConsistent, TimerConsistent, SetKValueConsistent DEF Next

(* What clients read and what the health manager was given is the result the *)
(* component manager holds, as long as the writers did not overlap and the   *)
(* database did not fail SetKValue: an update that is left out because the   *)
(* result is the same loses nothing.                                         *)
THEOREM PublishedIsResult == Spec => []ResultIsPublished
<1>1. Init => Consistent
  BY StartTypes DEF Init, Consistent
<1>2. Consistent => ResultIsPublished
  <2> SUFFICES ASSUME Consistent, Settled, disturbed \in {"none", "attribute"}
               PROVE  published = validationResult /\ reported = validationResult
    BY DEF ResultIsPublished
  <2>1. ~PublishPending /\ ~ReportPending
    BY DEF Settled, PublishPending, ReportPending, Threads
  <2> QED BY <2>1 DEF Consistent
<1>3. Spec => [](Inv /\ Consistent)
  BY <1>1, InitInv, NextInv, NextConsistent, PTL DEF Spec
<1> QED BY <1>2, <1>3, PTL

-----------------------------------------------------------------------------
(* Why the result that is left in the end is the current one.  The last      *)
(* event in the queue is what the dish has.                                  *)
Underway ==
  /\ ~loaded => setPc = "idle"
  /\ setPc # "idle" => argin \in KValues
  /\ events # <<>> => events[Len(events)] = dish

(* SetKValue has brought the leaf node's value and the dish's together.      *)
SetsBoth ==
  /\ setPc # "idle" => dish = argin
  /\ setPc \in {"result", "memorise", "publish", "report"} => kvalue = argin

(* What a thread has read is what there is.                                  *)
ReadsCurrent(t) ==
  /\ pc[t] = "own" => seen[t] = dish
  /\ pc[t] \in {"lock", "set", "publish", "report"} => verdict[t] = Comparison(dish, kvalue)

(* Unless the timer, the event thread or SetKValue has still to write it.    *)
Decided ==
  /\ pc["events"] \in {"idle", "publish", "report"}
  /\ pc["timer"] \in {"publish", "report", "publishGivenUp", "reportGivenUp", "finish", "done"}
  /\ setPc \in {"idle", "memorise", "publish", "report"}

Unmixed == disturbed \in {"none", "database"}

Current ==
  Unmixed =>
    /\ SetsBoth
    /\ ReadsCurrent("timer")
    /\ events = <<>> => ReadsCurrent("events")
    /\ events = <<>> /\ Decided => validationResult \in {"NOT_ALLOWED", Comparison(dish, kvalue)}

LEMMA ThreadNames == "timer" \in Threads /\ "events" \in Threads /\ \A t \in Threads : t \in {"timer", "events"}
  BY DEF Threads

LEMMA UnmixedBefore ==
  ASSUME TypeOK
  PROVE  /\ \A what \in {"overlap", "attribute"} : Marks(TRUE, what) => ~Unmixed'
         /\ Marks(TRUE, "database") /\ Unmixed' => Unmixed
         /\ UnlockedWrite /\ Unmixed' => Unmixed /\ \A t \in Threads : ~Comparing(t)
         /\ LockedWrite /\ Unmixed' => Unmixed
  BY DEF Unmixed, UnlockedWrite, LockedWrite, Marks, TypeOK

(* What the dish announces is waiting in the queue.                          *)
LEMMA AnnouncedWaits ==
  ASSUME TypeOK, Underway, NEW value \in KValues \cup {0}, Announced(value)
  PROVE  /\ dish' = value
         /\ events' # <<>> => events'[Len(events')] = dish'
         /\ events' = <<>> => events = <<>> /\ dish' = dish
<1>1. events \in Seq(KValues \cup {0})
  BY DEF TypeOK
<1>2. CASE value = dish
  BY <1>2 DEF Announced, Underway
<1>3. CASE value # dish
  <2>1. events' = Append(events, value) /\ dish' = value
    BY <1>3 DEF Announced
  <2> QED BY <1>1, <2>1
<1> QED BY <1>2, <1>3

(* A thread moves from one step of a comparison to another, the values and   *)
(* SetKValue stay.                                                           *)
LEMMA MovesUnderway ==
  ASSUME Inv, Underway, NEW t \in Threads, NEW from, NEW to, Moves(t, from, to), UNCHANGED events
  PROVE  Underway'
  BY ThreadNames DEF Underway, Moves, setVars, Inv, TypeOK

LEMMA ComparesCurrent ==
  ASSUME Inv, Underway, Current, NEW t \in Threads, Compares(t)
  PROVE  Underway' /\ Current'
<1> USE DEF Inv
<1>0. AfterUpdate(t) = (IF t = "timer" THEN "finish" ELSE "idle")
  BY DEF AfterUpdate
<1>1. PICK from, to \in {"idle", "own", "lock", "set", "publish", "report", "finish"} :
        Moves(t, from, to) /\ from # "wait"
  BY <1>0 DEF Compares, ReadsOwn, Differs, Same, SetsResult, Publishes, Reports
<1>2. /\ pc[t] = from /\ pc'[t] = to /\ \A u \in Threads \ {t} : pc'[u] = pc[u]
      /\ UNCHANGED <<dish, kvalue, memorised, loaded, setPc, argin, events>>
  BY <1>1, OneMoves DEF Compares, ReadsOwn, Differs, Same, SetsResult, Publishes, Reports
<1>3. Underway'
  BY <1>1, <1>2, MovesUnderway DEF Underway
<1>4. Unmixed' => Unmixed
  BY UnmixedBefore DEF Compares, ReadsOwn, Differs, Same, SetsResult, Publishes, Reports, Unmixed
<1>5. /\ \A u \in Threads \ {t} : seen'[u] = seen[u] /\ verdict'[u] = verdict[u]
      /\ pc'[t] \in {"lock", "set", "publish", "report"} =>
           verdict'[t] = IF pc[t] = "own" THEN Comparison(seen[t], kvalue) ELSE verdict[t]
      /\ pc'[t] # "own" /\ (pc'[t] \in {"set", "publish", "report"} => pc[t] \in {"lock", "set", "publish"})
      /\ pc'[t] = "lock" => pc[t] = "own"
  BY <1>0, <1>2, OneMoves
     DEF Compares, ReadsOwn, Differs, Same, Forgets, SetsResult, Publishes, Reports, TypeOK
<1>6. \/ UNCHANGED validationResult /\ pc[t] \in {"publish", "report"}
      \/ pc'[t] \in {"lock", "set"}
      \/ validationResult' = verdict[t] /\ pc[t] \in {"lock", "set"}
  <2>1. CASE ReadsOwn(t) \/ Differs(t)
    BY <2>1, OneMoves DEF ReadsOwn, Differs
  <2>2. CASE Same(t)
    BY <2>2 DEF Same, Moves, resultVars
  <2>3. CASE SetsResult(t)
    BY <2>3 DEF SetsResult, Moves
  <2>4. CASE Publishes(t) \/ Reports(t)
    BY <2>4 DEF Publishes, Reports, Moves
  <2> QED BY <2>1, <2>2, <2>3, <2>4 DEF Compares
<1>7. ASSUME Unmixed' PROVE SetsBoth' /\ ReadsCurrent("timer")' /\ (events' = <<>> => ReadsCurrent("events")')
  BY <1>2, <1>4, <1>5, <1>7, ThreadNames DEF Current, SetsBoth, ReadsCurrent
<1>8. ASSUME Unmixed', events' = <<>>, Decided'
      PROVE  validationResult' \in {"NOT_ALLOWED", Comparison(dish', kvalue')}
  <2>1. ReadsCurrent(t)
    BY <1>2, <1>4, <1>8, ThreadNames DEF Current
  <2>2. pc'[t] \notin {"lock", "set"}
    BY <1>8, ThreadNames DEF Decided
  <2>3. CASE pc[t] \in {"publish", "report"} /\ UNCHANGED validationResult
    <3>1. Decided
      BY <1>2, <1>8, <2>3, ThreadNames DEF Decided
    <3> QED BY <1>2, <1>4, <1>8, <2>3, <3>1 DEF Current
  <2>4. CASE validationResult' = verdict[t] /\ pc[t] \in {"lock", "set"}
    BY <1>2, <2>1, <2>4 DEF ReadsCurrent
  <2> QED BY <1>6, <2>2, <2>3, <2>4
<1> QED BY <1>3, <1>7, <1>8 DEF Current

LEMMA ThreadsCurrent ==
  ASSUME Inv, Underway, Current, TakesEvent \/ TimerSteps
  PROVE  Underway' /\ Current'
<1> USE DEF Inv
<1>1. CASE TakesEvent
  <2>1. events \in Seq(KValues \cup {0}) /\ events # <<>> /\ events[Len(events)] = dish
    BY <1>1 DEF TakesEvent, TypeOK, Underway
  <2>2. /\ Tail(events) = <<>> => Head(events) = dish
        /\ Tail(events) # <<>> => Tail(events)[Len(Tail(events))] = dish
    <3>1. Len(events) \in Nat /\ Len(Tail(events)) = Len(events) - 1
      BY <2>1, HeadTailProperties
    <3>2. Head(events) = events[1] /\ \A i \in 1..Len(Tail(events)) : Tail(events)[i] = events[i + 1]
      BY <2>1, HeadTailProperties
    <3>3. Tail(events) = <<>> => Len(Tail(events)) = 0
      BY Zenon, EmptySeq
    <3>4. Tail(events) = <<>> => Len(events) = 1
      BY <3>1, <3>3
    <3>5. Tail(events) # <<>> => Len(Tail(events)) \in 1..Len(Tail(events))
      BY <2>1, <3>1, HeadTailProperties
    <3>6. Tail(events) = <<>> => Head(events) = dish
      BY <2>1, <3>2, <3>4
    <3>7. Tail(events) # <<>> => Tail(events)[Len(Tail(events))] = dish
      BY <2>1, <3>1, <3>2, <3>5
    <3> QED BY <3>6, <3>7
  <2>3. /\ pc'["events"] = "own" /\ pc'["timer"] = pc["timer"] /\ seen'["events"] = Head(events)
        /\ seen'["timer"] = seen["timer"] /\ events' = Tail(events)
        /\ UNCHANGED <<dish, kvalue, loaded, setPc, argin, validationResult, verdict, disturbed>>
    <3>1. Moves("events", "idle", "own") /\ seen' = [seen EXCEPT !["events"] = Head(events)]
          /\ events' = Tail(events) /\ UNCHANGED <<validationResult, verdict, disturbed>>
      BY <1>1 DEF TakesEvent, resultVars
    <3>2. seen'["events"] = Head(events) /\ seen'["timer"] = seen["timer"]
      BY <3>1, ThreadNames DEF TypeOK
    <3>3. /\ pc'["events"] = "own" /\ pc'["timer"] = pc["timer"]
          /\ UNCHANGED <<dish, kvalue, loaded, setPc, argin>>
      BY <3>1, OneMoves, ThreadNames
    <3> QED BY <3>1, <3>2, <3>3
  <2>4. Underway'
    BY <2>2, <2>3 DEF Underway
  <2>5. Current'
    BY <2>2, <2>3 DEF Current, SetsBoth, ReadsCurrent, Decided, Unmixed
  <2> QED BY <2>4, <2>5
<1>2. CASE TimerSteps
  <2>1. UNCHANGED events
    BY <1>2, ThreadNames, OneMoves
       DEF TimerSteps, TimerReadsDish, TimerGivesUp, SetsNotAllowed, PublishesNotAllowed, ReportsNotAllowed,
           InitializationCompletes
  <2>2. PICK from, to \in {"wait", "own", "giveUp", "publishGivenUp", "reportGivenUp", "finish", "done"} :
          /\ Moves("timer", from, to) /\ to # "wait"
          /\ to \in {"reportGivenUp", "finish", "done"} => from \in {"publishGivenUp", "reportGivenUp", "finish"}
          /\ to # "publishGivenUp" => UNCHANGED validationResult
          /\ to = "publishGivenUp" => validationResult' = "NOT_ALLOWED"
          /\ to = "own" => seen' = [seen EXCEPT !["timer"] = dish]
          /\ to # "own" => UNCHANGED seen
    BY <1>2
       DEF TimerSteps, TimerReadsDish, TimerGivesUp, SetsNotAllowed, PublishesNotAllowed, ReportsNotAllowed,
           InitializationCompletes, resultVars
  <2>3. Underway'
    BY <2>1, <2>2, MovesUnderway, ThreadNames
  <2>4. Unmixed' => Unmixed
    BY <1>2, UnmixedBefore
       DEF TimerSteps, TimerReadsDish, TimerGivesUp, SetsNotAllowed, PublishesNotAllowed, ReportsNotAllowed,
           InitializationCompletes, Unmixed
  <2>5. UNCHANGED verdict
    BY <1>2
       DEF TimerSteps, TimerReadsDish, TimerGivesUp, SetsNotAllowed, PublishesNotAllowed, ReportsNotAllowed,
           InitializationCompletes
  <2>6. /\ pc["timer"] = from /\ pc'["timer"] = to /\ pc'["events"] = pc["events"]
        /\ UNCHANGED <<dish, kvalue, setPc, argin>>
    BY <2>2, OneMoves, ThreadNames
  <2>7. seen'["events"] = seen["events"] /\ (to = "own" => seen'["timer"] = dish)
    BY <2>2, ThreadNames DEF TypeOK
  <2>8. Current'
    BY <2>1, <2>2, <2>4, <2>5, <2>6, <2>7 DEF Current, SetsBoth, ReadsCurrent, Decided
  <2> QED BY <2>3, <2>8
<1> QED BY <1>1, <1>2

LEMMA ValuesCurrent ==
  ASSUME Inv, Underway, Current, SetKValue \/ WritesAttribute \/ DishChanges \/ LoadsMemorised
  PROVE  Underway' /\ Current'
<1> USE DEF Inv, SetSteps, threadVars, resultVars, setVars
<1>1. CASE DishAccepts
  <2>1. /\ Announced(argin') /\ argin' \in KValues /\ loaded /\ setPc = "idle" /\ setPc' = "store"
        /\ Marks(Comparing("timer"), "overlap")
        /\ UNCHANGED <<loaded, pc, seen, verdict, kvalue>>
    BY <1>1 DEF DishAccepts
  <2>2. /\ dish' = argin' /\ (events' # <<>> => events'[Len(events')] = dish')
        /\ events' = <<>> => events = <<>> /\ dish' = dish
    BY <2>1, AnnouncedWaits
  <2>3. Unmixed' => Unmixed /\ ~Comparing("timer")
    BY <2>1 DEF Marks, Unmixed, TypeOK
  <2> QED BY <2>1, <2>2, <2>3 DEF Underway, Current, SetsBoth, ReadsCurrent, Decided, Comparing
<1>2. CASE DishRefuses
  <2>1. PICK value \in KValues \ {dish} :
          /\ Announced(value) /\ loaded /\ setPc = "idle" /\ setPc' = "idle"
          /\ Marks(Comparing("timer"), "overlap")
          /\ UNCHANGED <<loaded, pc, seen, verdict, kvalue, argin>>
    BY <1>2 DEF DishRefuses
  <2>2. dish' = value /\ events' # <<>> /\ events'[Len(events')] = dish'
    BY <2>1, AnnouncedWaits
  <2>3. Unmixed' => Unmixed /\ ~Comparing("timer")
    BY <2>1 DEF Marks, Unmixed, TypeOK
  <2> QED BY <2>1, <2>2, <2>3 DEF Underway, Current, SetsBoth, ReadsCurrent, Comparing
<1>3. CASE DishChanges
  <2>1. PICK value \in (KValues \cup {0}) \ {dish} :
          /\ Announced(value)
          /\ Marks(setPc # "idle" \/ Comparing("timer"), "overlap")
          /\ UNCHANGED <<loaded, pc, seen, verdict, kvalue, argin, setPc>>
    BY <1>3 DEF DishChanges
  <2>2. dish' = value /\ events' # <<>> /\ events'[Len(events')] = dish'
    BY <2>1, AnnouncedWaits
  <2>3. Unmixed' => Unmixed /\ ~Comparing("timer") /\ setPc = "idle"
    BY <2>1 DEF Marks, Unmixed, TypeOK
  <2> QED BY <2>1, <2>2, <2>3 DEF Underway, Current, SetsBoth, ReadsCurrent, Comparing
<1>4. CASE StoresValue \/ LoadsMemorised
  <2>1. /\ Unmixed' => Unmixed /\ \A t \in Threads : ~Comparing(t)
        /\ UNCHANGED <<dish, events, pc, seen, verdict, argin>>
        /\ \/ setPc = "store" /\ setPc' = "result" /\ kvalue' = argin /\ UNCHANGED loaded
           \/ ~loaded /\ loaded' = TRUE /\ UNCHANGED setPc /\ (Unmixed' => pc["timer"] = "wait")
    <3>1. CASE StoresValue
      BY <3>1, UnmixedBefore DEF StoresValue
    <3>2. CASE LoadsMemorised
      BY <3>2, UnmixedBefore DEF LoadsMemorised, Marks, Unmixed, TypeOK
    <3> QED BY <1>4, <3>1, <3>2
  <2>2. Underway'
    BY <2>1 DEF Underway
  <2>3. Unmixed' => SetsBoth' /\ ReadsCurrent("timer")' /\ ReadsCurrent("events")' /\ ~Decided'
    BY <2>1, ThreadNames DEF Underway, Current, SetsBoth, ReadsCurrent, Comparing, Decided
  <2> QED BY <2>2, <2>3 DEF Current
<1>5. CASE SetsOK
  <2>1. /\ Unmixed' => Unmixed
        /\ UNCHANGED <<dish, events, kvalue, pc, seen, verdict, argin, loaded>>
        /\ setPc = "result" /\ setPc' = "memorise" /\ validationResult' = "OK"
    BY <1>5, UnmixedBefore DEF SetsOK
  <2>2. Unmixed' => validationResult' = Comparison(dish', kvalue')
    <3>1. 0 \notin KValues
      BY KValueAssumption
    <3> QED BY <2>1, <3>1 DEF Underway, Current, SetsBoth, Comparison
  <2> QED BY <2>1, <2>2 DEF Underway, Current, SetsBoth, ReadsCurrent
<1>6. CASE Memorises \/ MemoriseFails \/ SetPublishes \/ SetReports
  <2>1. /\ Unmixed' => Unmixed
        /\ UNCHANGED <<dish, events, kvalue, pc, seen, verdict, loaded, validationResult>>
        /\ \/ setPc \in {"memorise", "publish"} /\ setPc' \in {"publish", "report"} /\ UNCHANGED argin
           \/ setPc \in {"memorise", "publish", "report"} /\ setPc' = "idle"
    BY <1>6, UnmixedBefore DEF Memorises, MemoriseFails, SetPublishes, SetReports
  <2> QED BY <2>1 DEF Underway, Current, SetsBoth, ReadsCurrent, Decided
<1>7. CASE WritesAttribute
  <2>1. ~Unmixed' /\ UNCHANGED <<dish, events, pc, argin, loaded>> /\ setPc' = "idle"
    BY <1>7, UnmixedBefore DEF WritesAttribute
  <2> QED BY <2>1 DEF Underway, Current
<1> QED BY <1>1, <1>2, <1>3, <1>4, <1>5, <1>6, <1>7 DEF SetKValue

LEMMA StartsCurrent ==
  /\ Init => Underway /\ Current
  /\ Restart => Underway' /\ Current'
<1>1. Stopped["timer"] = "wait" /\ Stopped["events"] = "idle"
  BY ThreadNames DEF Stopped
<1>2. \A d : <<d>>[Len(<<d>>)] = d
  OBVIOUS
<1>3. Init => Underway /\ Current
  BY <1>1, <1>2 DEF Init, Underway, Current, SetsBoth, ReadsCurrent, Decided
<1>4. Restart => Underway' /\ Current'
  BY <1>1, <1>2 DEF Restart, Underway, Current, SetsBoth, ReadsCurrent, Decided
<1> QED BY <1>3, <1>4

LEMMA NextCurrent == Inv /\ Underway /\ Current /\ [Next]_vars => Underway' /\ Current'
<1> SUFFICES ASSUME Inv, Underway, Current, [Next]_vars PROVE Underway' /\ Current'
  OBVIOUS
<1>1. CASE UNCHANGED vars
  BY <1>1 DEF vars, resultVars, threadVars, setVars, Underway, Current, SetsBoth, ReadsCurrent, Decided, Unmixed
<1> QED BY <1>1, ComparesCurrent, ThreadsCurrent, ValuesCurrent, StartsCurrent DEF Next

(* Once nothing is under way the result is that of the two values there are, *)
(* or says that the dish never answered, unless a writer overlapped another  *)
(* or the attribute was written.                                             *)
THEOREM ResultStaysCurrent == Spec => []ResultIsCurrent
<1>1. Current => ResultIsCurrent
  BY DEF Current, Unmixed, Decided, Settled, ResultIsCurrent
<1>2. Spec => [](Inv /\ Underway /\ Current)
  BY InitInv, NextInv, StartsCurrent, NextCurrent, PTL DEF Spec
<1> QED BY <1>1, <1>2, PTL
=============================================================================
