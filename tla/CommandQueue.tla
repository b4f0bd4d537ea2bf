---------------------------- MODULE CommandQueue ----------------------------
(***************************************************************************)
(* What the Dish Leaf Node promises to whoever sends it commands: they run *)
(* one at a time, in the order in which they were sent; the client is told *)
(* that its command was refused, has begun, has ended, and nothing after   *)
(* that; a command is reported as aborted only when an Abort was there     *)
(* while it waited or ran; and an Abort calls the dish only when nothing   *)
(* it found is left, and no other Abort does.                              *)
(***************************************************************************)
EXTENDS Naturals

CONSTANTS
  Commands,  \* numbers, in the order in which they are sent
  Aborts

VARIABLES
  phase,    \* of a command: "new", "waiting", "running" or "over"
  aborted,  \* an Abort told the running command to stop
  report,   \* what its client was told last
  abort,    \* of an Abort: "idle", "waits", "acts" or "ended"
  found     \* what waited or ran when the Abort came, and is not over yet

queueVars == <<phase, aborted, report, abort, found>>

Init ==
  /\ phase = [c \in Commands |-> "new"]
  /\ aborted = [c \in Commands |-> FALSE]
  /\ report = [c \in Commands |-> "none"]
  /\ abort = [a \in Aborts |-> "idle"]
  /\ found = [a \in Aborts |-> {}]

-----------------------------------------------------------------------------

Turn(c) == phase[c] = "new" /\ \A d \in Commands : d < c => phase[d] # "new"

Oldest(c) == phase[c] = "waiting" /\ \A d \in Commands : d < c => phase[d] # "waiting"

Free == \A c \in Commands : phase[c] # "running"

Aborting == \E a \in Aborts : abort[a] \in {"waits", "acts"}

Becomes(c, to) == phase' = [phase EXCEPT ![c] = to]
Told(c, what) == report' = [report EXCEPT ![c] = what]
Leaves(c) == Becomes(c, "over") /\ found' = [a \in Aborts |-> found[a] \ {c}]

Accept(c) ==
  /\ Turn(c)
  /\ Becomes(c, "waiting")
  /\ UNCHANGED <<aborted, report, abort, found>>

Refuse(c) ==
  /\ Turn(c)
  /\ Becomes(c, "over")
  /\ Told(c, "REJECTED")
  /\ UNCHANGED <<aborted, abort, found>>

Start(c) ==
  /\ Oldest(c) /\ Free
  /\ Becomes(c, "running")
  /\ Told(c, "IN_PROGRESS")
  /\ UNCHANGED <<aborted, abort, found>>

(* Not started after all: refused, thrown out, or dropped without a word.    *)
Skip(c) ==
  /\ Oldest(c) /\ Free
  /\ Leaves(c)
  /\ \/ Told(c, "REJECTED")
     \/ Aborting /\ Told(c, "ABORTED")
     \/ UNCHANGED report
  /\ UNCHANGED <<aborted, abort>>

Finish(c) ==
  /\ phase[c] = "running"
  /\ Leaves(c)
  /\ \/ Told(c, "OK") \/ Told(c, "FAILED")
     \/ aborted[c] /\ Told(c, "ABORTED")
  /\ aborted' = [aborted EXCEPT ![c] = FALSE]
  /\ UNCHANGED abort

-----------------------------------------------------------------------------

Raise(a) ==
  /\ abort[a] = "idle"
  /\ abort' = [abort EXCEPT ![a] = "waits"]
  /\ found' = [found EXCEPT ![a] = {c \in Commands : phase[c] \in {"waiting", "running"}}]
  /\ UNCHANGED <<phase, aborted, report>>

(* Whatever runs is told to stop.                                            *)
Flag ==
  /\ Aborting
  /\ aborted' = [c \in Commands |-> aborted[c] \/ phase[c] = "running"]
  /\ UNCHANGED <<phase, report, abort, found>>

Act(a) ==
  /\ abort[a] = "waits" /\ found[a] = {}
  /\ \A b \in Aborts : abort[b] # "acts"
  /\ abort' = [abort EXCEPT ![a] = "acts"]
  /\ UNCHANGED <<phase, aborted, report, found>>

End(a) ==
  /\ abort[a] = "acts"
  /\ abort' = [abort EXCEPT ![a] = "ended"]
  /\ UNCHANGED <<phase, aborted, report, found>>

-----------------------------------------------------------------------------

Next ==
  \/ \E c \in Commands : Accept(c) \/ Refuse(c) \/ Start(c) \/ Skip(c) \/ Finish(c)
  \/ Flag
  \/ \E a \in Aborts : Raise(a) \/ Act(a) \/ End(a)

Spec == Init /\ [][Next]_queueVars
=============================================================================
