-------------------------- MODULE StowControlProofs --------------------------
(* Theorems about StowControl, for any number of watching threads, of        *)
(* clients' stows and of Aborts.                                             *)
EXTENDS StowControlProperties, TLAPS

(* A flag belongs to a command object, and a verdict to an end.              *)
Flagged == \A s \in Stows : abortFlag[s] => InProgress(s)
Judged == \A s \in Stows : verdict[s] # "none" <=> stowPc[s] \in {"conclude", "done"}

(* A called stow that nothing has aborted: the last one to flag the others   *)
(* is one, for its own object did not exist when it did.                     *)
GoesOn(s) == Called(s) /\ ~abortFlag[s] /\ verdict[s] # "ABORTED"

LastGoesOn == NoAbort /\ (\E s \in Stows : Called(s)) => \E s \in Stows : GoesOn(s)

(* While the status reads STOW_STARTED such a stow is still on its way.      *)
StartedGoesOn ==
  stowStatus = "STOW_STARTED" /\ NoAbort => \E s \in Stows : GoesOn(s) /\ stowPc[s] # "done"

Inv == TypeOK /\ Flagged /\ Judged /\ LastGoesOn /\ StartedGoesOn

-----------------------------------------------------------------------------
LEMMA InitInv == Init => Inv
<1> SUFFICES ASSUME Init PROVE Inv
  OBVIOUS
<1>1. TypeOK
  BY StowAssumption DEF Init, TypeOK
<1>2. Flagged /\ Judged
  BY DEF Init, Flagged, Judged
<1>3. LastGoesOn /\ StartedGoesOn
  BY DEF Init, LastGoesOn, StartedGoesOn, Called
<1> QED BY <1>1, <1>2, <1>3 DEF Inv

(* The dish moves: no stow does, and no status becomes STOW_STARTED.         *)
LEMMA DishInv ==
  ASSUME Inv, DishStows \/ LeaveIsNoticed \/ DishLeaves
  PROVE  Inv'
<1>1. /\ UNCHANGED <<stowPc, abortFlag, verdict, told, abortPc, tangoLock>>
      /\ stowStatus' \in {stowStatus, "DISH_NOT_IN_STOW"}
  BY DEF DishStows, LeaveIsNoticed, DishLeaves, stowVars
<1>2. TypeOK'
  BY <1>1 DEF Inv, TypeOK, DishStows, LeaveIsNoticed, DishLeaves
<1>3. (Flagged /\ Judged /\ LastGoesOn /\ StartedGoesOn)'
  BY <1>1 DEF Inv, Flagged, Judged, LastGoesOn, StartedGoesOn, GoesOn, Called, InProgress, NoAbort
<1> QED BY <1>2, <1>3 DEF Inv

(* A step of a stow before its object exists, or of its object, that neither *)
(* announces, flags, returns nor concludes.                                  *)
LEMMA QuietStep ==
  ASSUME Inv, NEW s \in Stows,
         AutoReadsMode(s) \/ AutoReadsStatus(s) \/ ClientCalls(s) \/ TasksAborted(s)
           \/ InvokeOnDish(s) \/ StopTable(s)
  PROVE  Inv'
<1>1. PICK from \in {"idle", "status", "abortTasks", "invoke", "stop"},
           to \in {"skipped", "status", "announce", "invoke", "stop", "wait"} : StowSteps(s, from, to)
               /\ (from \in {"idle", "status"} <=> to \in {"skipped", "status", "announce"})
               /\ (from \in {"invoke", "stop"} => to \in {"stop", "wait"})
  BY DEF AutoReadsMode, AutoReadsStatus, ClientCalls, TasksAborted, InvokeOnDish, StopTable, StowSteps
<1>2. UNCHANGED <<dishMode, leaving, stowStatus, tangoLock, verdict, told, abortFlag, abortPc>>
  BY DEF AutoReadsMode, AutoReadsStatus, ClientCalls, TasksAborted, InvokeOnDish, StopTable, dishVars
<1>3. /\ stowPc[s] = from /\ stowPc'[s] = to
      /\ \A r \in Stows \ {s} : stowPc'[r] = stowPc[r]
  BY <1>1 DEF StowSteps, Inv, TypeOK
<1>4. TypeOK'
  BY <1>1, <1>2 DEF StowSteps, Inv, TypeOK
<1>5. Flagged' /\ Judged'
  BY <1>1, <1>2, <1>3 DEF Inv, Flagged, Judged, InProgress
<1>6. \A r \in Stows : (Called(r) <=> Called(r)') /\ (GoesOn(r) <=> GoesOn(r)')
                       /\ (stowPc[r] = "done" <=> stowPc'[r] = "done")
  BY <1>1, <1>2, <1>3 DEF Called, GoesOn
<1>7. LastGoesOn' /\ StartedGoesOn'
  BY <1>2, <1>6 DEF Inv, LastGoesOn, StartedGoesOn, NoAbort
<1> QED BY <1>4, <1>5, <1>7 DEF Inv

LEMMA AnnounceInv ==
  ASSUME Inv, NEW s \in Stows, Announce(s)
  PROVE  Inv'
<1>1. /\ stowPc[s] = "announce" /\ stowPc'[s] = "flag"
      /\ \A r \in Stows \ {s} : stowPc'[r] = stowPc[r]
      /\ UNCHANGED <<verdict, abortFlag, abortPc>>
  BY DEF Announce, StowSteps, Inv, TypeOK
<1>2. TypeOK'
  BY DEF Announce, StowSteps, dishVars, Inv, TypeOK
<1>3. Flagged' /\ Judged'
  BY <1>1 DEF Inv, Flagged, Judged, InProgress
<1>4. GoesOn(s)' /\ stowPc'[s] # "done"
  BY <1>1 DEF Inv, Flagged, Judged, InProgress, GoesOn, Called
<1> QED BY <1>2, <1>3, <1>4 DEF Inv, LastGoesOn, StartedGoesOn

LEMMA FlagOthersInv ==
  ASSUME Inv, NEW s \in Stows, FlagOthers(s)
  PROVE  Inv'
<1>1. /\ stowPc[s] = "flag" /\ stowPc'[s] = "abortTasks"
      /\ \A r \in Stows \ {s} : stowPc'[r] = stowPc[r]
      /\ UNCHANGED <<verdict, abortPc>>
  BY DEF FlagOthers, StowSteps, Inv, TypeOK
<1>2. abortFlag' \in [Stows -> BOOLEAN] /\ \A r \in Stows : abortFlag'[r] => InProgress(r)
  BY DEF FlagOthers, FlagInProgress, Inv, Flagged, TypeOK, InProgress
<1>3. TypeOK'
  BY <1>2 DEF FlagOthers, StowSteps, dishVars, Inv, TypeOK
<1>4. Flagged' /\ Judged'
  BY <1>1, <1>2 DEF Inv, Judged, Flagged, InProgress
<1>5. GoesOn(s)' /\ stowPc'[s] # "done"
  BY <1>1, <1>2 DEF Inv, Judged, InProgress, GoesOn, Called
<1> QED BY <1>3, <1>4, <1>5 DEF Inv, LastGoesOn, StartedGoesOn

(* Only a flagged stow returns ABORTED.                                      *)
LEMMA ReturnInv ==
  ASSUME Inv, NEW s \in Stows,
         NoAdapter(s) \/ InvokeFails(s) \/ StopTableFails(s) \/ Stowed(s) \/ StowAborted(s)
           \/ StowTimesOut(s)
  PROVE  Inv'
<1>1. PICK code \in {"OK", "FAILED", "ABORTED"}, from \in {"invoke", "stop", "wait"} :
        /\ StowSteps(s, from, "conclude") /\ Returns(s, code)
        /\ code = "ABORTED" => abortFlag[s]
  BY DEF NoAdapter, InvokeFails, StopTableFails, Stowed, StowAborted, StowTimesOut
<1>2. /\ stowPc[s] \in {"invoke", "stop", "wait"} /\ stowPc'[s] = "conclude"
      /\ \A r \in Stows \ {s} : stowPc'[r] = stowPc[r] /\ verdict'[r] = verdict[r]
      /\ verdict'[s] = code
      /\ UNCHANGED <<stowStatus, abortFlag, abortPc>>
  BY <1>1 DEF StowSteps, Returns, Inv, TypeOK
<1>3. told' \in [Stows -> {"none", "OK", "FAILED"}]
  BY <1>1 DEF Returns, PassedOn, Inv, TypeOK
<1>4. TypeOK'
  BY <1>1, <1>3 DEF StowSteps, Returns, dishVars, Inv, TypeOK
<1>5. Flagged' /\ Judged'
  BY <1>1, <1>2 DEF Inv, Flagged, Judged, InProgress
<1>6. \A r \in Stows : (Called(r) <=> Called(r)') /\ (GoesOn(r) => GoesOn(r)')
                       /\ (stowPc'[r] = "done" => stowPc[r] = "done")
  BY <1>1, <1>2 DEF Called, GoesOn
<1>7. LastGoesOn' /\ StartedGoesOn'
  BY <1>2, <1>6 DEF Inv, LastGoesOn, StartedGoesOn, NoAbort
<1> QED BY <1>4, <1>5, <1>7 DEF Inv

LEMMA ConcludeInv ==
  ASSUME Inv, NEW s \in Stows, Conclude(s)
  PROVE  Inv'
<1>1. /\ stowPc[s] = "conclude" /\ stowPc'[s] = "done"
      /\ \A r \in Stows \ {s} : stowPc'[r] = stowPc[r] /\ abortFlag'[r] = abortFlag[r]
      /\ ~abortFlag'[s]
      /\ UNCHANGED <<verdict, abortPc>>
  BY DEF Conclude, StowSteps, Inv, TypeOK
<1>2. stowStatus' \in StatusAfter(verdict[s])
  BY DEF Conclude
<1>3. TypeOK'
  BY <1>2 DEF Conclude, StowSteps, StatusAfter, dishVars, Inv, TypeOK
<1>4. Flagged' /\ Judged'
  BY <1>1 DEF Inv, Flagged, Judged, InProgress
<1>5. \A r \in Stows : (Called(r) <=> Called(r)') /\ (GoesOn(r) => GoesOn(r)')
  BY <1>1 DEF Called, GoesOn
<1>6. LastGoesOn'
  BY <1>1, <1>5 DEF Inv, LastGoesOn, NoAbort
<1>7. StartedGoesOn'
  <2> SUFFICES ASSUME stowStatus' = "STOW_STARTED", NoAbort'
               PROVE  \E r \in Stows : GoesOn(r)' /\ stowPc'[r] # "done"
    BY DEF StartedGoesOn
  <2>1. verdict[s] = "ABORTED" /\ stowStatus = "STOW_STARTED"
    BY <1>1, <1>2 DEF StatusAfter, Inv, Judged, TypeOK
  <2>2. PICK r \in Stows : GoesOn(r) /\ stowPc[r] # "done"
    BY <1>1, <2>1 DEF Inv, StartedGoesOn, NoAbort
  <2>3. r # s
    BY <2>1, <2>2 DEF GoesOn
  <2> QED BY <1>1, <1>5, <2>2, <2>3
<1> QED BY <1>3, <1>4, <1>6, <1>7 DEF Inv

(* Once an Abort has begun, nothing is claimed of the stows.                 *)
LEMMA AbortInv ==
  ASSUME Inv, NEW a \in Aborts, AbortFlags(a) \/ AbortRuns(a)
  PROVE  Inv'
<1> USE DEF AbortRuns, AbortFlags, AbortTasksAborted, AbortLocks, AbortFlagsAgain, AbortEnds
<1>1. abortPc'[a] # "idle" /\ ~NoAbort'
  BY DEF AbortSteps, Inv, TypeOK, NoAbort
<1>2. /\ abortFlag' \in [Stows -> BOOLEAN] /\ UNCHANGED <<stowPc, verdict>>
      /\ \A s \in Stows : abortFlag'[s] => abortFlag[s] \/ InProgress(s)
  BY DEF FlagInProgress, Inv, TypeOK, stowVars
<1>3. TypeOK'
  BY <1>2, StowAssumption DEF AbortSteps, dishVars, stowVars, Inv, TypeOK
<1>4. Flagged' /\ Judged'
  BY <1>2 DEF Inv, Flagged, Judged, InProgress
<1> QED BY <1>1, <1>3, <1>4 DEF Inv, LastGoesOn, StartedGoesOn

LEMMA NextInv == Inv /\ [Next]_vars => Inv'
<1> SUFFICES ASSUME Inv, [Next]_vars PROVE Inv'
  OBVIOUS
<1>1. CASE DishStows \/ LeaveIsNoticed \/ DishLeaves
  BY <1>1, DishInv
<1>2. CASE \E s \in Stows : AutoReadsMode(s) \/ ClientCalls(s) \/ StowRuns(s) \/ StowFails(s)
  BY <1>2, QuietStep, AnnounceInv, FlagOthersInv, ReturnInv, ConcludeInv DEF StowRuns, StowFails
<1>3. CASE \E a \in Aborts : AbortFlags(a) \/ AbortRuns(a)
  BY <1>3, AbortInv
<1>4. CASE UNCHANGED vars
  BY <1>4
     DEF vars, dishVars, stowVars, Inv, TypeOK, Flagged, Judged, LastGoesOn, StartedGoesOn, GoesOn, Called,
         InProgress, NoAbort
<1> QED BY <1>1, <1>2, <1>3, <1>4 DEF Next

LEMMA SpecInv == Spec => []Inv
  BY InitInv, NextInv, PTL DEF Spec, Safe

-----------------------------------------------------------------------------
(* Every variable stays in its range and the lock with its Abort.            *)
THEOREM TypeCorrect == Spec => []TypeOK
  BY SpecInv, PTL DEF Inv

(* However many threads and clients call SetStowMode at once, they cannot    *)
(* all abort each other: without an Abort one of them goes through to the    *)
(* dish (set_abort_flag_for_commands before the object exists).              *)
THEOREM OneGoesThrough == Spec => []SomeStowGoesThrough
<1>1. Inv => SomeStowGoesThrough
  BY DEF Inv, LastGoesOn, GoesOn, SomeStowGoesThrough
<1> QED BY <1>1, SpecInv, PTL

(* Without an Abort, the status STOW_STARTED, which makes AutoStow skip, is  *)
(* never left behind by stows that are over (update_task_status).            *)
THEOREM StartedIsPending == Spec => []StartedMeansPending
<1>1. Inv => StartedMeansPending
  BY DEF Inv, StartedGoesOn, GoesOn, StartedMeansPending
<1> QED BY <1>1, SpecInv, PTL

-----------------------------------------------------------------------------
(* What holds whether a client aborts or not.                                *)

(* No stow aborts itself: one whose flag is up, or that ended ABORTED, owes  *)
(* it to an Abort or to another stow that has flagged what it found.         *)
HasFlagged(s) == Called(s) /\ stowPc[s] # "flag"

FlagsHaveCause ==
  \A s \in Stows :
    abortFlag[s] \/ verdict[s] = "ABORTED" => ~NoAbort \/ \E r \in Stows \ {s} : HasFlagged(r)

(* STOW_STARTED, which keeps AutoStow from acting, outlives the stows only   *)
(* when one of them was aborted (update_task_status of SetStowMode).         *)
StartedHasCause ==
  stowStatus = "STOW_STARTED" =>
    \E s \in Stows : Called(s) /\ (stowPc[s] # "done" \/ verdict[s] = "ABORTED")

(* A step of a stow that flags nobody takes no flag from another, nor the    *)
(* fact that it has flagged.                                                 *)
LEMMA CausesStay ==
  ASSUME FlagsHaveCause, UNCHANGED abortPc,
         \A s \in Stows : HasFlagged(s) => HasFlagged(s)',
         \A s \in Stows : abortFlag'[s] \/ verdict'[s] = "ABORTED" => abortFlag[s] \/ verdict[s] = "ABORTED"
  PROVE  FlagsHaveCause'
  BY DEF FlagsHaveCause, NoAbort

LEMMA CauseStep ==
  ASSUME Inv, FlagsHaveCause, [Next]_vars
  PROVE  FlagsHaveCause'
<1>0. TypeOK
  BY DEF Inv
<1>1. ASSUME NEW s \in Stows,
             \/ AutoReadsMode(s) \/ AutoReadsStatus(s) \/ ClientCalls(s) \/ Announce(s) \/ TasksAborted(s)
             \/ InvokeOnDish(s) \/ StopTable(s)
      PROVE  FlagsHaveCause'
  <2>1. /\ UNCHANGED <<abortFlag, verdict, abortPc>>
        /\ \A r \in Stows : r # s => stowPc'[r] = stowPc[r]
        /\ stowPc[s] \in {"idle", "status", "announce"}
             \/ stowPc'[s] \in {"invoke", "stop", "wait"}
    BY <1>0, <1>1 DEF AutoReadsMode, AutoReadsStatus, ClientCalls, Announce, TasksAborted, InvokeOnDish,
       StopTable, StowSteps, TypeOK
  <2>2. \A r \in Stows : HasFlagged(r) => HasFlagged(r)'
    BY <2>1 DEF HasFlagged, Called
  <2> QED BY <2>1, <2>2, CausesStay
<1>2. ASSUME NEW s \in Stows, FlagOthers(s)
      PROVE  FlagsHaveCause'
  <2>1. /\ stowPc[s] = "flag" /\ stowPc'[s] = "abortTasks"
        /\ \A r \in Stows : r # s => stowPc'[r] = stowPc[r]
        /\ UNCHANGED <<verdict, abortPc>>
        /\ \A r \in Stows : abortFlag'[r] => abortFlag[r] \/ InProgress(r)
    BY <1>0, <1>2 DEF FlagOthers, FlagInProgress, StowSteps, TypeOK
  <2>2. HasFlagged(s)'
    BY <2>1 DEF HasFlagged, Called
  <2>3. \A r \in Stows : HasFlagged(r) => HasFlagged(r)'
    BY <2>1 DEF HasFlagged, Called
  <2>4. ASSUME NEW r \in Stows, abortFlag'[r] \/ verdict'[r] = "ABORTED"
        PROVE  ~NoAbort' \/ \E q \in Stows \ {r} : HasFlagged(q)'
    <3>1. CASE r = s
      <4>1. abortFlag[r] \/ verdict[r] = "ABORTED"
        BY <2>1, <2>4, <3>1 DEF InProgress
      <4> QED BY <2>1, <2>3, <4>1 DEF FlagsHaveCause, NoAbort
    <3>2. CASE r # s
      BY <2>2, <3>2
    <3> QED BY <3>1, <3>2
  <2> QED BY <2>4 DEF FlagsHaveCause
<1>3. ASSUME NEW s \in Stows,
             \/ NoAdapter(s) \/ InvokeFails(s) \/ StopTableFails(s) \/ Stowed(s) \/ StowAborted(s)
             \/ StowTimesOut(s)
      PROVE  FlagsHaveCause'
  <2>1. PICK code \in {"OK", "FAILED", "ABORTED"}, from \in {"invoke", "stop", "wait"} :
          /\ StowSteps(s, from, "conclude") /\ Returns(s, code)
          /\ code = "ABORTED" => abortFlag[s]
    BY <1>3 DEF NoAdapter, InvokeFails, StopTableFails, Stowed, StowAborted, StowTimesOut
  <2>2. /\ stowPc'[s] = "conclude" /\ verdict'[s] = code
        /\ \A r \in Stows : r # s => stowPc'[r] = stowPc[r] /\ verdict'[r] = verdict[r]
        /\ UNCHANGED <<abortFlag, abortPc>>
    BY <1>0, <2>1 DEF StowSteps, Returns, TypeOK
  <2>3. \A r \in Stows : HasFlagged(r) => HasFlagged(r)'
    BY <2>2 DEF HasFlagged, Called
  <2>4. \A r \in Stows : abortFlag'[r] \/ verdict'[r] = "ABORTED" => abortFlag[r] \/ verdict[r] = "ABORTED"
    BY <2>1, <2>2
  <2> QED BY <2>2, <2>3, <2>4, CausesStay
<1>4. ASSUME NEW s \in Stows, Conclude(s)
      PROVE  FlagsHaveCause'
  <2>1. /\ stowPc'[s] = "done" /\ ~abortFlag'[s]
        /\ \A r \in Stows : r # s => stowPc'[r] = stowPc[r] /\ abortFlag'[r] = abortFlag[r]
        /\ UNCHANGED <<verdict, abortPc>>
    BY <1>0, <1>4 DEF Conclude, StowSteps, TypeOK
  <2>2. \A r \in Stows : HasFlagged(r) => HasFlagged(r)'
    BY <2>1 DEF HasFlagged, Called
  <2> QED BY <2>1, <2>2, CausesStay
<1>5. ASSUME NEW a \in Aborts, AbortFlags(a) \/ AbortRuns(a)
      PROVE  FlagsHaveCause'
  <2>1. abortPc'[a] # "idle"
    BY <1>0, <1>5 DEF AbortFlags, AbortRuns, AbortTasksAborted, AbortLocks, AbortFlagsAgain, AbortEnds,
       AbortSteps, TypeOK
  <2> QED BY <2>1 DEF FlagsHaveCause, NoAbort
<1>6. CASE DishStows \/ LeaveIsNoticed \/ DishLeaves \/ UNCHANGED vars
  <2>1. UNCHANGED <<stowPc, abortFlag, verdict, abortPc>>
    BY <1>6 DEF DishStows, LeaveIsNoticed, DishLeaves, vars, stowVars
  <2> QED BY <2>1 DEF FlagsHaveCause, NoAbort, HasFlagged, Called
<1> QED BY <1>1, <1>2, <1>3, <1>4, <1>5, <1>6 DEF Next, StowRuns, StowFails

(* A stow is aborted by an Abort or by another stow, never by itself.        *)
THEOREM NobodyAbortsItself == Spec => []FlagsHaveCause
<1>1. Init => FlagsHaveCause
  BY DEF Init, FlagsHaveCause
<1> QED BY <1>1, CauseStep, SpecInv, PTL DEF Spec, Safe

(* The status STOW_STARTED is left behind by an aborted stow or by none.     *)
THEOREM OnlyAbortsLeaveStarted == Spec => []StartedHasCause
<1>1. Init => StartedHasCause
  BY DEF Init, StartedHasCause
<1>2. Inv /\ StartedHasCause /\ [Next]_vars => StartedHasCause'
  <2> SUFFICES ASSUME Inv, StartedHasCause, [Next]_vars, stowStatus' = "STOW_STARTED"
               PROVE  \E s \in Stows : Called(s)' /\ (stowPc'[s] # "done" \/ verdict'[s] = "ABORTED")
    BY DEF StartedHasCause
  <2>0. TypeOK /\ Judged
    BY DEF Inv
  <2>1. ASSUME NEW s \in Stows, Announce(s)
        PROVE  Called(s)' /\ stowPc'[s] # "done"
    BY <2>0, <2>1 DEF Announce, StowSteps, TypeOK, Called
  <2>2. ASSUME NEW s \in Stows, Conclude(s)
        PROVE  Called(s)' /\ verdict'[s] = "ABORTED"
    BY <2>0, <2>2 DEF Conclude, StowSteps, StatusAfter, Judged, TypeOK, Called
  <2>3. ASSUME \A s \in Stows : ~Announce(s) /\ ~Conclude(s)
        PROVE  \E s \in Stows : Called(s)' /\ (stowPc'[s] # "done" \/ verdict'[s] = "ABORTED")
    <3>1. stowStatus = "STOW_STARTED"
      BY <2>3 DEF Next, StowRuns, StowFails, AbortRuns, AutoReadsMode, AutoReadsStatus, ClientCalls, FlagOthers,
         TasksAborted, InvokeOnDish, StopTable, NoAdapter, InvokeFails, StopTableFails, Stowed, StowAborted,
         StowTimesOut, Returns, AbortFlags, AbortTasksAborted, AbortLocks, AbortFlagsAgain, AbortEnds,
         DishStows, LeaveIsNoticed, DishLeaves, vars
    <3>2. PICK s \in Stows : Called(s) /\ (stowPc[s] # "done" \/ verdict[s] = "ABORTED")
      BY <3>1 DEF StartedHasCause
    <3>3. /\ stowPc[s] # "done" => Called(s)' /\ stowPc'[s] # "done"
          /\ stowPc[s] = "done" => stowPc'[s] = "done" /\ verdict'[s] = verdict[s]
      BY <2>0, <2>3, <3>2 DEF Next, StowRuns, StowFails, AbortRuns, AutoReadsMode, AutoReadsStatus, ClientCalls,
         FlagOthers, TasksAborted, InvokeOnDish, StopTable, NoAdapter, InvokeFails, StopTableFails, Stowed,
         StowAborted, StowTimesOut, Returns, AbortFlags, AbortTasksAborted, AbortLocks, AbortFlagsAgain,
         AbortEnds, DishStows, LeaveIsNoticed, DishLeaves, vars, stowVars, StowSteps, TypeOK, Called
    <3> QED BY <3>2, <3>3 DEF Called
  <2> QED BY <2>1, <2>2, <2>3
<1> QED BY <1>1, <1>2, SpecInv, PTL DEF Spec, Safe
=============================================================================
