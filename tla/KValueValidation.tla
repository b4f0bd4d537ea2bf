--------------------------- MODULE KValueValidation ---------------------------
(***************************************************************************)
(* The kValue of the dish, the kValue the Dish Leaf Node remembers, and    *)
(* the comparison of the two.  A timer compares once after every start,    *)
(* the event thread compares at each kValue event of the dish, and both do *)
(* so under kvalue_validation_lock.  SetKValue, and the timer when it gets *)
(* no answer, write the result without the lock.  The leaf node may be     *)
(* restarted at any step: the memorised kValue is all that it keeps.       *)
(***************************************************************************)
EXTENDS Naturals, Sequences

CONSTANTS
  KValues,      \* the values a kValue may have; 0 is none
  QueueLimit    \* bound: kValue events waiting

ASSUME KValueAssumption ==
  /\ KValues \subseteq Nat \ {0}
  /\ QueueLimit \in Nat \ {0}

Threads == {"timer", "events"}

VARIABLES
  dish,         \* the kValue of the dish
  events,       \* its kValue events, in the queue of the event thread
  kvalue,       \* _kvalue of the component manager
  memorised,    \* the kValue in the Tango database
  loaded,       \* the memorised value has been written back after the start
  validationResult, \* _kValueValidationResult
  published,    \* the kValueValidationResult attribute
  reported,     \* the result the health manager was given last
  initialized,  \* initialization_complete
  lock,         \* kvalue_validation_lock
  pc, seen, verdict, \* per thread: where it is, the dish's value it has
                     \* got, what it makes of it
  setPc, argin, \* SetKValue
  disturbed     \* history: what has come in the way of the comparisons

resultVars == <<validationResult, published, reported>>
threadVars == <<pc, seen, verdict>>
setVars == <<setPc, argin>>
vars == <<dish, events, kvalue, memorised, loaded, resultVars, initialized,
          lock, threadVars, setVars, disturbed>>

Stopped == [t \in Threads |-> IF t = "timer" THEN "wait" ELSE "idle"]
NoValues == [t \in Threads |-> 0]
NoVerdicts == [t \in Threads |-> "none"]

Init ==
  /\ dish \in KValues \cup {0}
  /\ memorised \in KValues \cup {0}
  /\ events = <<dish>>
  /\ kvalue = 0 /\ loaded = FALSE
  /\ validationResult = "STARTED"
  /\ published = "STARTED"
  /\ reported = "STARTED"
  /\ initialized = FALSE
  /\ lock = "free"
  /\ pc = Stopped /\ seen = NoValues /\ verdict = NoVerdicts
  /\ setPc = "idle" /\ argin = 0
  /\ disturbed = "none"

-----------------------------------------------------------------------------
(* History.  A thread compares from the time it has the dish's value until   *)
(* its verdict is reported; the writers that take no lock are SetKValue from *)
(* its first assignment on and a timer that has given up; the value loaded   *)
(* after the start is written without it too.                                *)

Comparing(t) == pc[t] \in {"own", "lock", "set", "publish", "report"}
GivingUp == pc["timer"] \in {"giveUp", "publishGivenUp", "reportGivenUp"}
WritesUnlocked == setPc \notin {"idle", "store"} \/ GivingUp

(* What has happened since the start: nothing, one of the three, or several  *)
(* of them, which counts as an overlap.                                      *)
Marks(cond, what) ==
  disturbed' = IF ~cond THEN disturbed
               ELSE IF disturbed \in {"none", what} THEN what ELSE "overlap"

UnlockedWrite == Marks(\E t \in Threads : Comparing(t), "overlap")
LockedWrite == Marks(WritesUnlocked, "overlap")

-----------------------------------------------------------------------------
(* Someone else, or a restart of the dish, changes its kValue.               *)
Announced(value) ==
  /\ dish' = value
  /\ IF value = dish THEN UNCHANGED events
     ELSE /\ Len(events) < QueueLimit
          /\ events' = Append(events, value)

DishChanges ==
  /\ \E value \in (KValues \cup {0}) \ {dish} : Announced(value)
  /\ Marks(setPc # "idle" \/ Comparing("timer"), "overlap")
  /\ UNCHANGED <<kvalue, memorised, loaded, resultVars, initialized, lock,
                 threadVars, setVars>>

-----------------------------------------------------------------------------
(* A comparison: kvalue is read before the lock is taken, and the result     *)
(* updated under it unless it is the one already there.                      *)

(* The result for a value of the dish and the leaf node's.                   *)
Comparison(theirs, ours) ==
  IF theirs = 0 \/ ours = 0 THEN "UNKNOWN"
  ELSE IF theirs = ours THEN "OK" ELSE "FAILED"

AfterUpdate(t) == IF t = "timer" THEN "finish" ELSE "idle"

Moves(t, from, to) ==
  /\ pc[t] = from
  /\ pc' = [pc EXCEPT ![t] = to]
  /\ UNCHANGED <<dish, kvalue, memorised, loaded, setVars>>

\* Mutant: the values are not compared.
ReadsNothing(t) ==
  /\ Moves(t, "own", "lock")
  /\ UNCHANGED <<events, resultVars, initialized, lock, seen, verdict,
                 disturbed>>

ReadsOwn(t) ==
  /\ Moves(t, "own", "lock")
  /\ verdict' = [verdict EXCEPT ![t] = Comparison(seen[t], kvalue)]
  /\ seen' = [seen EXCEPT ![t] = 0]
  /\ UNCHANGED <<events, resultVars, initialized, lock, disturbed>>

(* With the lock the result is looked at: it differs, and the lock is kept,  *)
(* or it does not.                                                           *)
Differs(t) ==
  /\ lock = "free"
  /\ validationResult # verdict[t]
  /\ Moves(t, "lock", "set")
  /\ lock' = t
  /\ UNCHANGED <<events, resultVars, initialized, seen, verdict, disturbed>>

Forgets(t) ==
  /\ verdict' = [verdict EXCEPT ![t] = "none"]
  /\ UNCHANGED seen

Same(t) ==
  /\ lock = "free"
  /\ validationResult = verdict[t]
  /\ Moves(t, "lock", AfterUpdate(t))
  /\ Forgets(t)
  /\ UNCHANGED <<events, resultVars, initialized, lock, disturbed>>

SetsResult(t) ==
  /\ Moves(t, "set", "publish")
  /\ validationResult' = verdict[t]
  /\ LockedWrite
  /\ UNCHANGED <<events, published, reported, initialized, lock, seen, verdict>>

Publishes(t) ==
  /\ Moves(t, "publish", "report")
  /\ published' = verdict[t]
  /\ LockedWrite
  /\ UNCHANGED <<events, validationResult, reported, initialized, lock, seen,
                 verdict>>

\* Mutant: the health manager is not told of the result of an event.
NotReported(t) ==
  /\ Moves(t, "report", AfterUpdate(t))
  /\ lock' = "free"
  /\ Forgets(t)
  /\ UNCHANGED <<events, resultVars, initialized, disturbed>>

Reports(t) ==
  /\ Moves(t, "report", AfterUpdate(t))
  /\ reported' = validationResult
  /\ lock' = "free"
  /\ Forgets(t)
  /\ LockedWrite
  /\ UNCHANGED <<events, validationResult, published, initialized>>

-----------------------------------------------------------------------------
(* The event thread.                                                         *)

TakesEvent ==
  /\ events # <<>>
  /\ Moves("events", "idle", "own")
  /\ seen' = [seen EXCEPT !["events"] = Head(events)]
  /\ events' = Tail(events)
  /\ UNCHANGED <<resultVars, initialized, lock, verdict, disturbed>>

-----------------------------------------------------------------------------
(* The timer, five seconds after the start, asks the dish for its kValue for *)
(* a while.  Nothing waits for the memorised value to be loaded before it.   *)

TimerReadsDish ==
  /\ Moves("timer", "wait", "own")
  /\ seen' = [seen EXCEPT !["timer"] = dish]
  /\ UNCHANGED <<events, resultVars, initialized, lock, verdict, disturbed>>

TimerGivesUp ==
  /\ Moves("timer", "wait", "giveUp")
  /\ UNCHANGED <<events, resultVars, initialized, lock, seen, verdict, disturbed>>

SetsNotAllowed ==
  /\ Moves("timer", "giveUp", "publishGivenUp")
  /\ validationResult' = "NOT_ALLOWED"
  /\ UnlockedWrite
  /\ UNCHANGED <<events, published, reported, initialized, lock, seen, verdict>>

PublishesNotAllowed ==
  /\ Moves("timer", "publishGivenUp", "reportGivenUp")
  /\ published' = validationResult
  /\ UnlockedWrite
  /\ UNCHANGED <<events, validationResult, reported, initialized, lock, seen,
                 verdict>>

\* Mutant: initialization_complete is set only when the dish has answered.
LeavesIncomplete ==
  /\ Moves("timer", "reportGivenUp", "done")
  /\ reported' = validationResult
  /\ UnlockedWrite
  /\ UNCHANGED <<events, validationResult, published, initialized, lock, seen,
                 verdict>>

ReportsNotAllowed ==
  /\ Moves("timer", "reportGivenUp", "finish")
  /\ reported' = validationResult
  /\ UnlockedWrite
  /\ UNCHANGED <<events, validationResult, published, initialized, lock, seen,
                 verdict>>

InitializationCompletes ==
  /\ Moves("timer", "finish", "done")
  /\ initialized' = TRUE
  /\ UNCHANGED <<events, resultVars, lock, seen, verdict, disturbed>>

-----------------------------------------------------------------------------
(* SetKValue and the writes of the kValue attribute: one at a time, as Tango *)
(* serialises what clients ask of a device.                                  *)

SetSteps(from, to) ==
  /\ setPc = from
  /\ setPc' = to
  /\ UNCHANGED <<loaded, initialized, lock, threadVars>>

DishAccepts ==
  /\ loaded
  /\ SetSteps("idle", "store")
  /\ argin' \in KValues
  /\ Announced(argin')
  /\ Marks(Comparing("timer"), "overlap")
  /\ UNCHANGED <<kvalue, memorised, resultVars>>

(* The dish refuses, or takes the value and its answer does not arrive.      *)
DishRefuses ==
  /\ loaded
  /\ SetSteps("idle", "idle")
  /\ \E value \in KValues \ {dish} : Announced(value)
  /\ Marks(Comparing("timer"), "overlap")
  /\ UNCHANGED <<kvalue, memorised, resultVars, argin>>

StoresValue ==
  /\ SetSteps("store", "result")
  /\ kvalue' = argin
  /\ UnlockedWrite
  /\ UNCHANGED <<dish, events, memorised, resultVars, argin>>

\* Mutant: the result is left to the event of the dish.
LeavesResult ==
  /\ SetSteps("result", "memorise")
  /\ UNCHANGED <<dish, events, kvalue, memorised, resultVars, argin, disturbed>>

SetsOK ==
  /\ SetSteps("result", "memorise")
  /\ validationResult' = "OK"
  /\ UnlockedWrite
  /\ UNCHANGED <<dish, events, kvalue, memorised, published, reported, argin>>

Memorises ==
  /\ SetSteps("memorise", "publish")
  /\ memorised' = kvalue
  /\ UnlockedWrite
  /\ UNCHANGED <<dish, events, kvalue, resultVars, argin>>

(* The database raises, when the value is put or when it is read back: the   *)
(* client gets the exception and nothing more is done.                       *)
MemoriseFails ==
  /\ \E from \in {"memorise", "publish"} : SetSteps(from, "idle")
  /\ memorised' \in {memorised, kvalue}
  /\ Marks(TRUE, "database")
  /\ argin' = 0
  /\ UNCHANGED <<dish, events, kvalue, resultVars>>

SetPublishes ==
  /\ SetSteps("publish", "report")
  /\ published' = validationResult
  /\ UnlockedWrite
  /\ UNCHANGED <<dish, events, kvalue, memorised, validationResult, reported, argin>>

SetReports ==
  /\ SetSteps("report", "idle")
  /\ reported' = validationResult
  /\ UnlockedWrite
  /\ argin' = 0
  /\ UNCHANGED <<dish, events, kvalue, memorised, validationResult, published>>

(* A write of the attribute is memorised and compared with nothing.          *)
WritesAttribute ==
  /\ loaded
  /\ SetSteps("idle", "idle")
  /\ kvalue' \in KValues \ {kvalue}
  /\ memorised' = kvalue'
  /\ Marks(TRUE, "attribute")
  /\ UNCHANGED <<dish, events, resultVars, argin>>

-----------------------------------------------------------------------------
(* The device is started again.  Tango writes the memorised value back after *)
(* the initialisation: a value that comes after the timer is, like any write *)
(* of the attribute, compared with nothing.  The subscription delivers the   *)
(* dish's value.                                                             *)

Restart ==
  /\ events' = <<dish>>
  /\ kvalue' = 0 /\ loaded' = FALSE
  /\ validationResult' = "STARTED"
  /\ published' = "STARTED"
  /\ reported' = "STARTED"
  /\ initialized' = FALSE
  /\ lock' = "free"
  /\ pc' = Stopped /\ seen' = NoValues /\ verdict' = NoVerdicts
  /\ setPc' = "idle" /\ argin' = 0
  /\ disturbed' = "none"
  /\ UNCHANGED <<dish, memorised>>

LoadsMemorised ==
  /\ ~loaded
  /\ loaded' = TRUE
  /\ kvalue' = memorised
  /\ IF \E t \in Threads : Comparing(t) THEN Marks(TRUE, "overlap")
     ELSE Marks(pc["timer"] # "wait", "attribute")
  /\ UNCHANGED <<dish, events, memorised, resultVars, initialized, lock,
                 threadVars, setVars>>

-----------------------------------------------------------------------------
Compares(t) ==
  \/ ReadsOwn(t)
  \/ Differs(t)
  \/ Same(t)
  \/ SetsResult(t)
  \/ Publishes(t)
  \/ Reports(t)

TimerSteps ==
  \/ TimerReadsDish
  \/ TimerGivesUp
  \/ SetsNotAllowed
  \/ PublishesNotAllowed
  \/ ReportsNotAllowed
  \/ InitializationCompletes

SetKValue ==
  \/ DishAccepts
  \/ DishRefuses
  \/ StoresValue
  \/ SetsOK
  \/ Memorises
  \/ MemoriseFails
  \/ SetPublishes
  \/ SetReports

Next ==
  \/ DishChanges
  \/ \E t \in Threads : Compares(t)
  \/ TakesEvent
  \/ TimerSteps
  \/ SetKValue
  \/ WritesAttribute
  \/ Restart
  \/ LoadsMemorised

(* Threads that can run do, and a start comes to its end; what clients and   *)
(* the dish do is their choice.                                              *)
Fairness ==
  /\ WF_vars(LoadsMemorised)
  /\ WF_vars(TimerSteps)
  /\ \A t \in Threads : SF_vars(Compares(t))

Spec == Init /\ [][Next]_vars /\ Fairness
=============================================================================
