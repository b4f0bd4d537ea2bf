----------------------- MODULE ConfigureFlowProperties -----------------------
(***************************************************************************)
(* What must hold of ConfigureFlow.                                        *)
(***************************************************************************)
EXTENDS ConfigureFlow

ConfigureStates ==
  {"idle", "adapter", "mode", "clear", "generate", "band", "callBand",
   "waitBand", "tracking", "poll", "callTrack", "waitTrack", "wait",
   "conclude", "done"}

AbortStates ==
  {"idle", "raised", "tasks", "lock", "raisedAgain", "do", "wait", "done"}

(* An Abort that is inside its with block.                                   *)
HoldsLock(a) == abortPc[a] \in {"raisedAgain", "do", "wait"}

(* The dish, the fields of the manager, and the tables on their way.         *)
ManagerOK ==
  /\ dish \in DishStates
  /\ loadMode \in {"NEW", "APPEND"}
  /\ dishAdapter \in BOOLEAN
  /\ isTracktableProvided \in BOOLEAN
  /\ partialConfigure \in BOOLEAN
  /\ abortEvent \in {"task", "dummy"}

TablesOK ==
  /\ generated \in Nat
  /\ requested \subseteq 1..generated
  /\ tracking \in 0..generated
  /\ tables \in Seq(1..generated)
  /\ table \in 0..generated
  /\ dishTable \subseteq 1..generated
  /\ eventPc \in {"idle", "lock", "write", "mode"}
  /\ table = 0 <=> eventPc = "idle"
  /\ tries \in 0..MaxTries

CommandsOK ==
  /\ cfgPc \in [Configures -> ConfigureStates]
  /\ session \in [Configures -> 0..generated]
  /\ verdict \in
       [Configures -> {"none", "OK", "FAILED", "ABORTED", "NO_ADAPTER"}]
  /\ told \in
       [Configures -> {"none", "OK", "FAILED", "ABORTED", "REJECTED"}]
  /\ abortFlag \in [Configures -> BOOLEAN]
  /\ nestedFlag \in BOOLEAN
  /\ abortPc \in [Aborts -> AbortStates]
  /\ clean \subseteq Configures
  /\ \A c \in clean : Active(c)
  /\ \A c, d \in Configures : Active(c) /\ Active(d) => c = d

LockOK ==
  /\ tangoLock \in Aborts \cup {"free", "events"}
  /\ tangoLock = "events" <=> eventPc \in {"write", "mode"}
  /\ \A a \in Aborts : tangoLock = a <=> HoldsLock(a)

(* Every variable keeps to its range, one Configure runs at a time, and the  *)
(* Tango lock belongs to whoever is inside its with block.                   *)
TypeOK == ManagerOK /\ TablesOK /\ CommandsOK /\ LockOK

(* A full Configure that begins while no track table is coming or under way  *)
(* and that got its load mode through tells the dish to track only with its  *)
(* own table loaded, and nothing of an earlier target (do, is_tracktable_    *)
(* provided, update_program_track_table).                                    *)
CleanStartTracksOwnTarget ==
  \A c \in clean :
    cfgPc[c] \in {"callTrack", "waitTrack"} => dishTable = {session[c]}

(* Tables reach the dish in the order of the Configures that asked for them: *)
(* none of an earlier target after one of a later, whatever the retries.     *)
TablesInOrder ==
  [][\A t \in dishTable' \ dishTable : \A u \in dishTable : u < t]_vars

(* From the moment it holds the lock to its end an Abort has the dish to     *)
(* itself: no table is loaded, and no ConfigureBand or Track of a Configure  *)
(* is sent, not even of one that was started behind it (invoke_abort).       *)
CallsDish(c) ==
  \/ cfgPc[c] = "callBand" /\ cfgPc'[c] = "waitBand"
  \/ cfgPc[c] = "callTrack" /\ cfgPc'[c] = "waitTrack"

AbortHasDishToItself ==
  [][(\E a \in Aborts : HoldsLock(a)) =>
       /\ dishTable' = dishTable
       /\ \A c \in Configures : ~CallsDish(c)]_vars

(* Every Configure that begins and every Abort comes to its end, whatever    *)
(* the dish does: although an Abort waits for the Configure and keeps the    *)
(* lock its successor needs, Configures, tables and Aborts contend for that  *)
(* lock, and no table need ever come (abort, is_tracktable_provided).        *)
NothingHangs ==
  /\ \A c \in Configures : Active(c) ~> ~Active(c)
  /\ \A a \in Aborts : abortPc[a] = "raised" ~> abortPc[a] = "done"
=============================================================================
