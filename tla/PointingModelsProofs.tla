------------------------- MODULE PointingModelsProofs -------------------------
(* Theorems about PointingModels, for every set of versions, every choice of *)
(* those without a positive parameter and every length of the event queue.   *)
EXTENDS PointingModelsProperties, SequenceTheorems, TLAPS

(* What is under way has its argument, and before the initialisation nothing *)
(* is; the last event in the queue is what the dish has.                     *)
Arguments ==
  /\ cmdPc # "idle" => argin \in Versions
  /\ evPc \in {"compare", "previous", "download", "lock", "call"} => found \in Versions
  /\ ~initialized => cmdPc = "idle" /\ evPc = "idle" /\ validation = "UNKNOWN"
  /\ evPc = "restore" => validation = "FAILED"
  /\ events # <<>> => events[Len(events)] = dish

(* As long as neither side wrote the version within the other's steps, each  *)
(* finds the version it has read or written.                                 *)
NoOverlap == "overlap" \notin disturbed

Undisturbed ==
  NoOverlap =>
    /\ CommandWrites => gpmVersion = argin
    /\ evPc \in {"previous", "download", "lock", "call"} => found = gpmVersion
    /\ evPc \in {"download", "lock", "call", "restore"} => restore = gpmVersion

(* The database has the version, or the one a command may take back to.      *)
Memory ==
  initialized /\ NoOverlap /\ "database" \notin disturbed =>
    memorised = IF CommandWrites THEN previous ELSE gpmVersion

(* The dish has the model of the version, or the one a command may take back *)
(* to.                                                                       *)
Right ==
  IF cmdPc \in {"call", "failed"} THEN dish \in {previous, gpmVersion} ELSE dish = gpmVersion

(* Without an event waiting, the one under way is about what the dish has;   *)
(* OK, or a comparison that is about to say so, is right.                    *)
Validated ==
  NoOverlap /\ "unvalidated" \notin disturbed /\ events = <<>> =>
    /\ evPc \notin {"idle", "restore"} => params = dish
    /\ evPc = "idle" /\ validation = "OK" => Right
    /\ evPc = "compare" /\ found = dish => Right

Inv == TypeOK /\ Arguments /\ Undisturbed /\ Memory /\ Validated

-----------------------------------------------------------------------------
(* What an action marks, and that an overlap once marked stays.              *)
LEMMA MarkKeeps ==
  ASSUME TypeOK, NEW what \in SUBSET {"overlap", "database", "unvalidated"}, Mark(what)
  PROVE  /\ disturbed' \subseteq {"overlap", "database", "unvalidated"}
         /\ NoOverlap' => disturbed' = disturbed \cup what /\ "overlap" \notin what /\ NoOverlap
  BY DEF Mark, TypeOK, NoOverlap

LEMMA OverlapMarks ==
  ASSUME TypeOK
  PROVE  /\ \A lost \in SUBSET {"database", "unvalidated"} :
              Mark(lost \cup OverlapWith(EventWrites)) =>
                /\ disturbed' \subseteq {"overlap", "database", "unvalidated"}
                /\ NoOverlap' => NoOverlap /\ disturbed' = disturbed \cup lost /\ ~EventWrites
         /\ Mark(OverlapWith(EventWrites)) =>
                /\ disturbed' \subseteq {"overlap", "database", "unvalidated"}
                /\ NoOverlap' => NoOverlap /\ disturbed' = disturbed /\ ~EventWrites
         /\ Mark(OverlapWith(CommandWrites)) =>
                /\ disturbed' \subseteq {"overlap", "database", "unvalidated"}
                /\ NoOverlap' => NoOverlap /\ disturbed' = disturbed /\ ~CommandWrites
<1>1. ASSUME NEW lost \in SUBSET {"database", "unvalidated"}, Mark(lost \cup OverlapWith(EventWrites))
      PROVE  /\ disturbed' \subseteq {"overlap", "database", "unvalidated"}
             /\ NoOverlap' => NoOverlap /\ disturbed' = disturbed \cup lost /\ ~EventWrites
  <2>1. CASE EventWrites
    BY <1>1, <2>1, MarkKeeps DEF OverlapWith
  <2>2. CASE ~EventWrites
    BY <1>1, <2>2, MarkKeeps DEF OverlapWith
  <2> QED BY <2>1, <2>2
<1>2. ASSUME Mark(OverlapWith(EventWrites))
      PROVE  /\ disturbed' \subseteq {"overlap", "database", "unvalidated"}
             /\ NoOverlap' => NoOverlap /\ disturbed' = disturbed /\ ~EventWrites
  <2>1. CASE EventWrites
    BY <1>2, <2>1, MarkKeeps DEF OverlapWith
  <2>2. CASE ~EventWrites
    BY <1>2, <2>2, MarkKeeps DEF OverlapWith
  <2> QED BY <2>1, <2>2
<1>3. ASSUME Mark(OverlapWith(CommandWrites))
      PROVE  /\ disturbed' \subseteq {"overlap", "database", "unvalidated"}
             /\ NoOverlap' => NoOverlap /\ disturbed' = disturbed /\ ~CommandWrites
  <2>1. CASE CommandWrites
    BY <1>3, <2>1, MarkKeeps DEF OverlapWith
  <2>2. CASE ~CommandWrites
    BY <1>3, <2>2, MarkKeeps DEF OverlapWith
  <2> QED BY <2>1, <2>2
<1> QED BY <1>1, <1>2, <1>3

(* The queue after the dish has got a model.                                 *)
LEMMA HasQueues ==
  ASSUME TypeOK, Arguments, NEW model \in Versions \cup {"none"}, Has(model)
  PROVE  /\ dish' = model
         /\ events' \in Seq(Versions \cup {"none"})
         /\ events' # <<>> => events'[Len(events')] = dish'
         /\ events' = <<>> => events = <<>> /\ dish' = dish
<1>1. events \in Seq(Versions \cup {"none"})
  BY DEF TypeOK
<1>2. CASE model = dish
  BY <1>1, <1>2 DEF Has, Arguments
<1>3. CASE model # dish
  <2>1. events' = Append(events, model) /\ dish' = model
    BY <1>3 DEF Has
  <2> QED BY <1>1, <2>1
<1> QED BY <1>2, <1>3

LEMMA AppliesQueues ==
  ASSUME TypeOK, Arguments, NEW model \in Versions, NEW ok \in BOOLEAN, Applies(model, ok)
  PROVE  /\ dish' \in {dish, model}
         /\ ok => dish' = model
         /\ events' \in Seq(Versions \cup {"none"})
         /\ events' # <<>> => events'[Len(events')] = dish'
         /\ events' = <<>> => events = <<>> /\ dish' = dish
  BY HasQueues DEF Applies, dishVars, TypeOK, Arguments

-----------------------------------------------------------------------------
LEMMA DishInv ==
  ASSUME Inv, DishChanges
  PROVE  Inv'
<1>1. PICK model \in (Versions \cup {"none"}) \ {dish} : Has(model)
  BY DEF DishChanges
<1>2. /\ dish' \in Versions \cup {"none"} /\ events' \in Seq(Versions \cup {"none"})
      /\ events' # <<>> /\ events'[Len(events')] = dish'
  BY <1>1, HasQueues DEF Inv
<1>3. UNCHANGED <<gpmVersion, memorised, initialized, validation, tangoLock, cmdPc, argin, previous,
                  evPc, params, found, restore, disturbed>>
  BY DEF DishChanges, cmdVars, evVars
<1>4. TypeOK'
  BY <1>2, <1>3 DEF Inv, TypeOK
<1>5. Arguments' /\ Undisturbed' /\ Memory' /\ Validated'
  BY <1>2, <1>3 DEF Inv, Arguments, Undisturbed, Memory, Validated, NoOverlap, CommandWrites
<1> QED BY <1>4, <1>5 DEF Inv

LEMMA CommandInv ==
  ASSUME Inv, Submitted \/ Command
  PROVE  Inv'
<1> USE DEF Inv, CmdSteps, evVars, dishVars
<1>1. CASE Submitted \/ CmdDownloadFails \/ CmdDownloaded
  <2>1. /\ UNCHANGED <<dish, events, gpmVersion, memorised, tangoLock, previous, disturbed, initialized,
                       validation, evPc, params, found, restore>>
        /\ cmdPc \in {"idle", "download"} /\ cmdPc' \in {"idle", "download", "lock"}
        /\ argin' \in Versions \cup {"none"}
        /\ cmdPc' # "idle" => argin' \in Versions
        /\ initialized
    BY <1>1 DEF Submitted, CmdDownloadFails, CmdDownloaded, TypeOK, Arguments
  <2>2. TypeOK' /\ Arguments'
    BY <2>1 DEF TypeOK, Arguments
  <2>3. ~CommandWrites /\ ~CommandWrites'
    BY <2>1 DEF CommandWrites
  <2>4. Undisturbed' /\ Memory'
    BY <2>1, <2>3 DEF Undisturbed, Memory, NoOverlap
  <2>5. Validated'
    BY <2>1 DEF Validated, NoOverlap, Right
  <2> QED BY <2>2, <2>4, <2>5
<1>2. CASE CmdLocks
  <2>1. /\ UNCHANGED <<dish, events, memorised, argin, initialized, validation, evPc, params, found, restore>>
        /\ cmdPc = "lock" /\ cmdPc' = "call" /\ tangoLock' = "command"
        /\ previous' = gpmVersion /\ gpmVersion' = argin
        /\ argin \in Versions /\ initialized
    BY <1>2 DEF CmdLocks, Arguments
  <2>2. /\ disturbed' \subseteq {"overlap", "database", "unvalidated"}
        /\ NoOverlap' => NoOverlap /\ disturbed \subseteq disturbed' /\ ~EventWrites
    BY <1>2, OverlapMarks DEF CmdLocks
  <2>3. TypeOK' /\ Arguments'
    BY <2>1, <2>2 DEF TypeOK, Arguments
  <2>4. ~CommandWrites /\ CommandWrites'
    BY <2>1 DEF CommandWrites
  <2>5. Undisturbed' /\ Memory'
    BY <2>1, <2>2, <2>4 DEF Undisturbed, Memory, EventWrites
  <2>6. Validated'
    BY <2>1, <2>2 DEF Validated, Right
  <2> QED BY <2>3, <2>5, <2>6
<1>3. CASE CmdCalls
  <2>1. PICK ok \in BOOLEAN : CmdSteps("call", IF ok THEN "ok" ELSE "failed") /\ Applies(argin, ok)
    BY <1>3 DEF CmdCalls
  <2>2. /\ UNCHANGED <<gpmVersion, memorised, argin, previous, disturbed, initialized, validation,
                       evPc, params, found, restore>>
        /\ cmdPc = "call" /\ cmdPc' \in {"ok", "failed"} /\ (cmdPc' = "ok" => ok)
        /\ tangoLock' = "free" /\ argin \in Versions /\ initialized
    BY <1>3, <2>1 DEF CmdCalls, Arguments
  <2>3. /\ dish' \in {dish, argin} /\ (ok => dish' = argin)
        /\ events' \in Seq(Versions \cup {"none"})
        /\ events' # <<>> => events'[Len(events')] = dish'
        /\ events' = <<>> => events = <<>> /\ dish' = dish
    BY <2>1, <2>2, AppliesQueues
  <2>4. TypeOK' /\ Arguments'
    BY <2>2, <2>3 DEF TypeOK, Arguments
  <2>5. CommandWrites /\ CommandWrites'
    BY <2>2 DEF CommandWrites
  <2>6. Undisturbed' /\ Memory'
    BY <2>2, <2>5 DEF Undisturbed, Memory, NoOverlap
  <2>7. Validated'
    BY <2>2, <2>3, <2>5 DEF Validated, Undisturbed, NoOverlap, Right
  <2> QED BY <2>4, <2>6, <2>7
<1>4. CASE CmdSucceeds
  <2>1. /\ UNCHANGED <<dish, events, gpmVersion, tangoLock, initialized, validation, evPc, params, found,
                       restore>>
        /\ cmdPc = "ok" /\ cmdPc' = "idle" /\ argin' = "none" /\ previous' = "UNKNOWN"
        /\ memorised' \in {memorised, gpmVersion} /\ initialized
    BY <1>4 DEF CmdSucceeds, CmdForgets, Arguments
  <2>2. /\ disturbed' \subseteq {"overlap", "database", "unvalidated"}
        /\ NoOverlap' => NoOverlap /\ disturbed \subseteq disturbed'
        /\ NoOverlap' /\ "database" \notin disturbed' => memorised' = gpmVersion
    <3>1. CASE memorised' = gpmVersion /\ Mark(OverlapWith(EventWrites))
      BY <3>1, OverlapMarks
    <3>2. CASE UNCHANGED memorised /\ Mark({"database"})
      BY <3>2, MarkKeeps
    <3> QED BY <1>4, <3>1, <3>2 DEF CmdSucceeds
  <2>3. TypeOK' /\ Arguments'
    BY <2>1, <2>2 DEF TypeOK, Arguments
  <2>4. ~CommandWrites'
    BY <2>1 DEF CommandWrites
  <2>5. Undisturbed' /\ Memory'
    BY <2>1, <2>2, <2>4 DEF Undisturbed, Memory
  <2>6. Validated'
    BY <2>1, <2>2 DEF Validated, Right
  <2> QED BY <2>3, <2>5, <2>6
<1>5. CASE CmdTakesBack
  <2>1. /\ UNCHANGED <<dish, events, memorised, tangoLock, initialized, validation, evPc, params, found,
                       restore>>
        /\ cmdPc = "failed" /\ cmdPc' = "idle" /\ argin' = "none" /\ previous' = "UNKNOWN"
        /\ gpmVersion' = previous /\ initialized
    BY <1>5 DEF CmdTakesBack, CmdForgets, Arguments
  <2>2. PICK lost \in {{}, {"unvalidated"}} :
          /\ dish = argin /\ previous # argin => lost = {"unvalidated"}
          /\ Mark(lost \cup OverlapWith(EventWrites))
    BY <1>5 DEF CmdTakesBack
  <2>3. /\ disturbed' \subseteq {"overlap", "database", "unvalidated"}
        /\ NoOverlap' => /\ NoOverlap /\ disturbed \subseteq disturbed' /\ ~EventWrites
                         /\ dish = argin /\ previous # argin => "unvalidated" \in disturbed'
    BY <2>2, OverlapMarks
  <2>4. TypeOK' /\ Arguments'
    BY <2>1, <2>3 DEF TypeOK, Arguments
  <2>5. CommandWrites /\ ~CommandWrites'
    BY <2>1 DEF CommandWrites
  <2>6. Undisturbed' /\ Memory'
    BY <2>1, <2>3, <2>5 DEF Undisturbed, Memory, EventWrites
  <2>7. Validated'
    BY <2>1, <2>3, <2>5 DEF Validated, Undisturbed, Right
  <2> QED BY <2>4, <2>6, <2>7
<1> QED BY <1>1, <1>2, <1>3, <1>4, <1>5 DEF Command

-----------------------------------------------------------------------------
(* A step of the event thread that writes no version, calls nobody and takes *)
(* no event.                                                                 *)
LEMMA EventStepInv ==
  ASSUME Inv, NEW from, NEW to \in {"idle", "compare", "previous", "download", "lock", "restore"},
         EvSteps(from, to), from # "idle",
         UNCHANGED <<dish, events, gpmVersion, tangoLock>>,
         validation' \in {"UNKNOWN", "OK", "FAILED"},
         params' \in Versions \cup {"none"}, found' \in Versions \cup {"UNKNOWN"},
         restore' \in Versions \cup {"UNKNOWN"},
         disturbed' \subseteq {"overlap", "database", "unvalidated"},
         NoOverlap' => NoOverlap /\ disturbed \subseteq disturbed',
         to \in {"compare", "previous", "download", "lock"} => found' \in Versions /\ params' = params,
         to = "restore" => validation' = "FAILED",
         NoOverlap' /\ to \in {"previous", "download", "lock"} => found' = gpmVersion,
         NoOverlap' /\ to \in {"download", "lock", "restore"} => restore' = gpmVersion,
         NoOverlap' /\ "unvalidated" \notin disturbed' /\ events = <<>> /\ from # "restore" =>
           /\ to = "idle" /\ validation' = "OK" => Right
           /\ to = "compare" /\ found' = dish => Right,
         from = "restore" => to = "idle" /\ validation' = validation
  PROVE  Inv'
<1> USE DEF Inv, EvSteps, cmdVars
<1>1. initialized /\ evPc = from /\ evPc' = to
  BY DEF Arguments
<1>2. TypeOK'
  BY DEF TypeOK
<1>3. Arguments'
  BY <1>1 DEF Arguments
<1>4. Undisturbed' /\ Memory'
  BY <1>1 DEF Undisturbed, Memory, NoOverlap, CommandWrites
<1>5. Validated'
  <2>1. Right <=> Right'
    BY DEF Right
  <2> QED BY <1>1, <2>1 DEF Validated, Arguments
<1> QED BY <1>2, <1>3, <1>4, <1>5

LEMMA EventInv ==
  ASSUME Inv, EventThread
  PROVE  Inv'
<1> USE DEF Inv, dishVars
<1>1. CASE TakesEvent
  <2>1. events \in Seq(Versions \cup {"none"}) /\ events # <<>> /\ events[Len(events)] = dish
    BY <1>1 DEF TakesEvent, TypeOK, Arguments
  <2>2. /\ Head(events) \in Versions \cup {"none"} /\ Tail(events) \in Seq(Versions \cup {"none"})
        /\ Tail(events) = <<>> => Head(events) = dish
        /\ Tail(events) # <<>> => Tail(events)[Len(Tail(events))] = dish
    <3>1. Len(events) \in Nat /\ Len(Tail(events)) = Len(events) - 1
      BY <2>1, HeadTailProperties
    <3>2. Head(events) = events[1] /\ \A i \in 1..Len(Tail(events)) : Tail(events)[i] = events[i + 1]
      BY <2>1, HeadTailProperties
    <3>3. Tail(events) = <<>> => Len(events) = 1
      <4>1. Tail(events) = <<>> => Len(Tail(events)) = 0
        BY Zenon, EmptySeq
      <4> QED BY <3>1, <4>1
    <3>4. Tail(events) # <<>> => Len(Tail(events)) \in 1..Len(Tail(events))
      BY <2>1, <3>1, HeadTailProperties
    <3>5. Head(events) \in Versions \cup {"none"} /\ Tail(events) \in Seq(Versions \cup {"none"})
      BY <2>1, HeadTailProperties
    <3>6. Tail(events) = <<>> => Head(events) = dish
      BY <2>1, <3>2, <3>3
    <3>7. Tail(events) # <<>> => Tail(events)[Len(Tail(events))] = dish
      BY <2>1, <3>1, <3>2, <3>4
    <3> QED BY <3>5, <3>6, <3>7
  <2>3. /\ UNCHANGED <<dish, gpmVersion, validation, tangoLock, found, restore, disturbed, memorised,
                       initialized, cmdPc, argin, previous>>
        /\ evPc = "idle" /\ evPc' = "version" /\ initialized
        /\ params' = Head(events) /\ events' = Tail(events)
    BY <1>1 DEF TakesEvent, EvSteps, cmdVars
  <2>4. TypeOK' /\ Arguments'
    BY <2>2, <2>3 DEF TypeOK, Arguments
  <2>5. Undisturbed' /\ Memory'
    BY <2>3 DEF Undisturbed, Memory, NoOverlap, CommandWrites
  <2>6. Validated'
    BY <2>2, <2>3 DEF Validated
  <2> QED BY <2>4, <2>5, <2>6
<1>2. CASE NothingKnown
  <2>1. /\ EvSteps("version", "idle") /\ UNCHANGED <<dish, events, gpmVersion, tangoLock, restore, disturbed>>
        /\ validation' \in {"UNKNOWN", "FAILED"} /\ params' = "none" /\ found' = "UNKNOWN"
    BY <1>2 DEF NothingKnown, Reads, Concludes
  <2> QED BY <2>1, EventStepInv DEF TypeOK, NoOverlap
<1>3. CASE NotValidated
  <2>1. /\ disturbed' \subseteq {"overlap", "database", "unvalidated"}
        /\ NoOverlap' => NoOverlap /\ disturbed \subseteq disturbed' /\ "unvalidated" \in disturbed'
    BY <1>3, MarkKeeps DEF NotValidated
  <2> QED BY <1>3, <2>1, EventStepInv DEF NotValidated, Reads, Concludes, TypeOK
<1>4. CASE ToBeCompared \/ ToBeApplied
  <2>1. Undisturbed => (NoOverlap /\ CommandWrites => gpmVersion = argin)
    BY DEF Undisturbed
  <2>2. ASSUME found' = gpmVersion, found' = dish PROVE Right
    BY <2>2 DEF Right
  <2>3. gpmVersion \in Versions
    BY <1>4 DEF ToBeCompared, ToBeApplied, TypeOK
  <2> QED BY <1>4, <2>2, <2>3, EventStepInv DEF ToBeCompared, ToBeApplied, Reads, TypeOK, NoOverlap
<1>5. CASE Compares
  <2>1. evPc = "compare" /\ UNCHANGED <<dish, events, gpmVersion, tangoLock, restore, disturbed>>
        /\ EvSteps("compare", "idle")
    BY <1>5 DEF Compares, EvSteps
  <2>2. /\ validation' \in {"OK", "FAILED"} /\ params' = "none" /\ found' = "UNKNOWN"
        /\ validation' = "OK" => params = found
    BY <1>5 DEF Compares, Concludes
  <2>3. NoOverlap /\ "unvalidated" \notin disturbed /\ events = <<>> /\ validation' = "OK" => Right
    BY <2>1, <2>2 DEF Validated
  <2> QED BY <2>1, <2>2, <2>3, EventStepInv DEF TypeOK, NoOverlap
<1>6. CASE ReadsPrevious \/ EvDownloaded
  BY <1>6, EventStepInv
     DEF ReadsPrevious, EvDownloaded, EvSteps, TypeOK, Arguments, Undisturbed, NoOverlap
<1>7. CASE EvDownloadFails
  BY <1>7, EventStepInv DEF EvDownloadFails, Concludes, EvSteps, TypeOK, Undisturbed, NoOverlap
<1>11. CASE EvRaises
  BY <1>11, EventStepInv DEF EvRaises, Concludes, EvSteps, TypeOK, Undisturbed, NoOverlap
<1>8. CASE EvLocks
  <2>1. /\ UNCHANGED <<dish, events, validation, params, found, restore, memorised, initialized, cmdPc,
                       argin, previous>>
        /\ evPc = "lock" /\ evPc' = "call" /\ tangoLock' = "events" /\ gpmVersion' = found
    BY <1>8 DEF EvLocks, EvSteps, cmdVars
  <2>2. /\ disturbed' \subseteq {"overlap", "database", "unvalidated"}
        /\ NoOverlap' => NoOverlap /\ disturbed \subseteq disturbed'
    BY <1>8, OverlapMarks DEF EvLocks
  <2>3. TypeOK' /\ Arguments'
    BY <2>1, <2>2 DEF TypeOK, Arguments
  <2>4. NoOverlap' => gpmVersion' = gpmVersion
    BY <2>1, <2>2 DEF Undisturbed
  <2>5. Undisturbed' /\ Memory'
    BY <2>1, <2>2, <2>4 DEF Undisturbed, Memory, CommandWrites
  <2>6. Validated'
    BY <2>1, <2>2 DEF Validated
  <2> QED BY <2>3, <2>5, <2>6
<1>9. CASE EvCallSucceeds \/ EvCallFails
  <2>1. PICK ok \in BOOLEAN :
          /\ Applies(found, ok)
          /\ validation' = (IF ok THEN "OK" ELSE "FAILED")
          /\ evPc' = (IF ok THEN "idle" ELSE "restore")
          /\ restore' = (IF ok THEN "UNKNOWN" ELSE restore)
    BY <1>9 DEF EvCallSucceeds, EvCallFails, Concludes, EvSteps
  <2>2. /\ UNCHANGED <<gpmVersion, disturbed, memorised, initialized, cmdPc, argin, previous>>
        /\ evPc = "call" /\ tangoLock' = "free" /\ params' = "none" /\ found' = "UNKNOWN"
        /\ found \in Versions /\ initialized
    BY <1>9 DEF EvCallSucceeds, EvCallFails, Concludes, EvSteps, cmdVars, Arguments
  <2>3. /\ dish' \in {dish, found} /\ (ok => dish' = found)
        /\ events' \in Seq(Versions \cup {"none"})
        /\ events' # <<>> => events'[Len(events')] = dish'
    BY <2>1, <2>2, AppliesQueues
  <2>4. TypeOK' /\ Arguments'
    BY <2>1, <2>2, <2>3 DEF TypeOK, Arguments
  <2>5. Undisturbed' /\ Memory'
    BY <2>1, <2>2 DEF Undisturbed, Memory, NoOverlap, CommandWrites
  <2>6. Validated'
    BY <2>1, <2>2, <2>3 DEF Validated, Undisturbed, NoOverlap, Right
  <2> QED BY <2>4, <2>5, <2>6
<1>10. CASE EvRestores
  <2>1. /\ UNCHANGED <<dish, events, validation, tangoLock, params, found, memorised, initialized, cmdPc,
                       argin, previous>>
        /\ evPc = "restore" /\ evPc' = "idle" /\ gpmVersion' = restore /\ restore' = "UNKNOWN"
    BY <1>10 DEF EvRestores, EvSteps, cmdVars
  <2>2. /\ disturbed' \subseteq {"overlap", "database", "unvalidated"}
        /\ NoOverlap' => NoOverlap /\ disturbed \subseteq disturbed'
    BY <1>10, OverlapMarks DEF EvRestores
  <2>3. TypeOK' /\ Arguments'
    BY <2>1, <2>2 DEF TypeOK, Arguments
  <2>4. NoOverlap' => gpmVersion' = gpmVersion
    BY <2>1, <2>2 DEF Undisturbed
  <2>5. Undisturbed' /\ Memory'
    BY <2>1, <2>2, <2>4 DEF Undisturbed, Memory, CommandWrites
  <2>6. Validated'
    BY <2>1, <2>2 DEF Validated, Arguments
  <2> QED BY <2>3, <2>5, <2>6
<1> QED BY <1>1, <1>2, <1>3, <1>4, <1>5, <1>6, <1>7, <1>8, <1>9, <1>10, <1>11 DEF EventThread

-----------------------------------------------------------------------------
LEMMA InitInv == Init => Inv
<1> SUFFICES ASSUME Init PROVE Inv
  OBVIOUS
<1>1. dish \in Versions \cup {"none"} /\ events = <<dish>>
  BY DEF Init
<1>2. events \in Seq(Versions \cup {"none"}) /\ events # <<>> /\ events[Len(events)] = dish
  BY <1>1
<1>3. TypeOK /\ Arguments
  BY <1>2 DEF Init, TypeOK, Arguments
<1>4. Undisturbed /\ Memory /\ Validated
  BY <1>2 DEF Init, Undisturbed, Memory, Validated, CommandWrites
<1> QED BY <1>3, <1>4 DEF Inv

LEMMA RestartInv ==
  ASSUME Inv, Restart
  PROVE  Inv'
<1>1. events' = <<dish>> /\ dish' = dish /\ dish \in Versions \cup {"none"}
  BY DEF Restart, Inv, TypeOK
<1>2. events' \in Seq(Versions \cup {"none"}) /\ events' # <<>> /\ events'[Len(events')] = dish'
  BY <1>1
<1>3. TypeOK' /\ Arguments'
  BY <1>2 DEF Restart, Inv, TypeOK, Arguments
<1>4. Undisturbed' /\ Memory' /\ Validated'
  BY <1>2 DEF Restart, Undisturbed, Memory, Validated, CommandWrites
<1> QED BY <1>3, <1>4 DEF Inv

LEMMA OthersInv ==
  ASSUME Inv, WritesAttribute \/ InitializationCompletes
  PROVE  Inv'
<1> USE DEF Inv, cmdVars, evVars, dishVars
<1>1. CASE WritesAttribute
  <2>1. /\ UNCHANGED <<dish, events, initialized, validation, cmdPc, argin, previous, evPc, params, found,
                       restore, tangoLock>>
        /\ gpmVersion' \in Versions /\ memorised' = gpmVersion'
    BY <1>1 DEF WritesAttribute
  <2>2. /\ disturbed' \subseteq {"overlap", "database", "unvalidated"}
        /\ NoOverlap' => "unvalidated" \in disturbed' /\ ~CommandWrites /\ ~EventWrites
    <3>1. CASE CommandWrites \/ EventWrites
      BY <1>1, <3>1, MarkKeeps DEF WritesAttribute, OverlapWith
    <3>2. CASE ~(CommandWrites \/ EventWrites)
      BY <1>1, <3>2, MarkKeeps DEF WritesAttribute, OverlapWith
    <3> QED BY <3>1, <3>2
  <2>3. TypeOK' /\ Arguments'
    BY <2>1, <2>2 DEF TypeOK, Arguments
  <2>4. Undisturbed' /\ Memory'
    BY <2>1, <2>2 DEF Undisturbed, Memory, CommandWrites, EventWrites
  <2>5. Validated'
    BY <2>2 DEF Validated
  <2> QED BY <2>3, <2>4, <2>5
<1>2. CASE InitializationCompletes
  BY <1>2 DEF InitializationCompletes, TypeOK, Arguments, Undisturbed, Memory, Validated, NoOverlap,
              CommandWrites
<1> QED BY <1>1, <1>2

LEMMA NextInv == Inv /\ [Next]_vars => Inv'
<1> SUFFICES ASSUME Inv, [Next]_vars PROVE Inv'
  OBVIOUS
<1>1. CASE UNCHANGED vars
  BY <1>1 DEF vars, dishVars, cmdVars, evVars, Inv, TypeOK, Arguments, Undisturbed, Memory, Validated,
              NoOverlap, CommandWrites, Right
<1> QED BY <1>1, DishInv, CommandInv, EventInv, RestartInv, OthersInv DEF Next

LEMMA AlwaysInv == Spec => []Inv
  BY InitInv, NextInv, PTL DEF Spec

(* Every variable keeps to its values.                                       *)
THEOREM TypeCorrect == Spec => []TypeOK
<1>1. Inv => TypeOK
  BY DEF Inv
<1> QED BY <1>1, AlwaysInv, PTL

(* Once nothing is under way, a validation that says OK is right: the dish   *)
(* has the model of the version that is remembered, whatever was applied and *)
(* taken back before.                                                        *)
THEOREM OKIsRight == Spec => []OKIsTrue
<1>1. Inv => OKIsTrue
  BY DEF Inv, Validated, Right, NoOverlap, Settled, OKIsTrue
<1> QED BY <1>1, AlwaysInv, PTL

(* Once nothing is under way, the database has the version that is           *)
(* remembered.                                                               *)
THEOREM MemoryIsCurrent == Spec => []MemorisedIsRemembered
<1>1. Inv => MemorisedIsRemembered
  BY DEF Inv, Memory, NoOverlap, CommandWrites, Settled, MemorisedIsRemembered
<1> QED BY <1>1, AlwaysInv, PTL
=============================================================================
