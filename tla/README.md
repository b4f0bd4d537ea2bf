# TLA+ models of the SKA TMC Dish Leaf Node

The repository holds two Tango devices. **MidTmcLeafNodeDish** (the Dish Leaf
Node, `src/src/ska_tmc_dishleafnode`) takes commands from the telescope
monitoring and control system and drives one dish through its Dish Manager.
The **DishLN Pointing Device** (`src/src/ska_dishln_pointing_device`) computes
program track tables in a thread of its own and publishes them; the leaf node
subscribes to them and writes each to the dish. The libraries they are built on
(`ska_tango_base`: task executor, long running commands, `abort_tasks`;
`ska_tmc_common`: completion tracker, adapters, event manager, liveness probe)
are not part of the repository. They are modelled from how the code uses them.

## Inventory

| Component | State | Operations | What is hard | Correct means |
|---|---|---|---|---|
| Pointing device: generation (`commands/*`, `mapping_scan/*`, its component manager) | `track_thread_lock`, `mapping_scan_event`, `stop_track_called`, `track_table_thread`, projection data, the scan's scheduler, two published attributes | `targetData` write, `GenerateProgramTrackTable` (task queue), `StopProgramTrackTable`, `delete_device`, `track_thread` | a command that is queued against one that is not; a join with a timeout; a thread that reads what the next command overwrites; publications that raise | one thread, of the latest request; no table of a superseded target; failures are seen; every call returns |
| Stow and abort (`auto_stow.py`, `setstowmode.py`, `abort_command.py`, component manager) | dish mode, `stow_status`, `abort_event`, abort flag of each command object, `tango_operation_execution_lock` | `SetStowMode`, `Abort`, `invoke_auto_stow` from four wind timers, one thread per weather station and two event threads, `dishMode` events | unqueued commands that abort each other; check and act on two shared fields; a lock held over a wait | a stow gets through, ends, and is reported; AutoStow is armed again afterwards |
| Temperature tracking (`auto_stow.py` 100-124, 347-376, 535-597) | samples per station, events per station, thread tables, `update_temp_lock` | temperature events, pollers, rate of change threads, `timeDelta` write | joins under a lock the joined threads need; an event set again before the old thread saw it cleared | writes return; one poller per station; the window has the configured length |
| Configure and its nested commands (`configure_command.py`, `configure_band_command.py`, `track_command.py`) | `is_configure_command`, `command_in_progress`, `is_tracktable_provided`, load mode, primary configuration, result dictionaries | `Configure` (partial too), nested `ConfigureBand` and `Track`, waits, abort, failure | shared flags reset by nested commands; two ways to abort; a failure while handling a failure | a Configure ends once, is reported, and leaves nothing running when it failed |
| Track table delivery (component manager 2558-2648) | load mode, table error, `is_tracktable_provided` | table events with retries under the Tango lock | tables of an old target; tables after an Abort | the dish gets tables of the current target only |
| Health (`health_data.py`, `health_rules.py`) | six inputs, active issues, cached state and info | events of band capability, dish manager health, GPM, kValue, table errors | writers that bypass the cache | what is published is what the rules give |
| kValue validation (`dish_kvalue_validation_manager.py`, `set_kvalue.py`) | kValue of leaf node and dish, validation result | start-up timer, kValue event, `SetKValue` | reads before the lock | the last result compares the current values |
| Global pointing model (`gpm_validator.py`, `apply_pointing_model.py`) | model applied per band, result per band | `ApplyPointingModel`, pointing model events | event before the command has stored what it applied | result per band compares event and applied model |
| Availability (component manager 2673-2711) | `unresponsive` per device, published availability | liveness probe results | one flag for several devices | available means the dish answers |
| Event dispatch (`event_manager.py`, component manager 3389-3445) | one queue and thread per attribute | subscription, error events, stop | order across attributes | no event is lost, threads end |
| Actual pointing (component manager 1352-1452, `az_el_converter.py`) | queue to a child process, `layout_updated`, array layout | achieved pointing events, layout writes | lost layout update between processes | the observer is that of the last layout |
| Queue connector (component manager 2713-2880) | subscribed device, last offsets | FQDN writes, calibration events | resubscription | offsets reach the pointing device once |
| Remaining commands | none of their own | `Scan`, `EndScan`, `TrackStop`, `Off`, standby modes | allowed modes, completion wait | end and are reported |

`temp_src` (copies nothing imports), charts, generated `pogo` files, data and
build files have no behaviour to model. `PROJECT.json` lists every part with
what is modelled of it, and the hazards of the code at their lines.

## Modules

Each part is a module with the state and the actions, `...Properties` with what
must hold of it, `...Proofs` with the theorems, and `MC...` with the values TLC
takes for the constants.

| Module | What it models | TLC | Theorems |
|---|---|---|---|
| `PointingDevice` | the pointing device: task worker, client calls, track threads | `pd_safety.cfg`, `pd_progress.cfg`, `pd_overtaken.cfg` | `PointingDeviceProofs` |
| `TrackingSession` | abstract: what a subscriber of `pointingProgramTrackTable` sees | as a property of `pd_safety.cfg` | that `PointingDevice` implements it |
| `StowControl` | SetStowMode, Abort, and the stows of AutoStow | `stow.cfg` | `StowControlProofs` |
| `TemperatureTracking` | the threads of AutoStow that watch the temperature, and the write of `time_delta` | `temperature.cfg` | `TemperatureTrackingProofs` |
| `ConfigureFlow` | Configure with its nested commands, the delivery of track tables to the dish, Abort | `configure.cfg`, `configure_progress.cfg` | `ConfigureFlowProofs` |
| `LeafNodeCommands` | the other commands that call the dish, the task queue, several Aborts | `commands.cfg` | `LeafNodeCommandsProofs` |
| `CommandQueue` | abstract: what clients see of the commands they send | as a property of `commands.cfg` | that `LeafNodeCommands` implements it |
| `HealthAggregation` | the health manager, everything that reports to it, the writers that go past it, the receiver band at the ends of commands | `health.cfg`, `health_generation.cfg` | `HealthAggregationProofs` |
| `KValueValidation` | the comparison of the kValues, SetKValue, restarts | `kvalue.cfg` | `KValueValidationProofs` |
| `PointingModels` | ApplyPointingModel and the validation of the parameter events, restarts | `pointing_models.cfg` | `PointingModelsProofs` |

The modules meet at what they abstract from each other. `ConfigureFlow` sees of
the pointing device what `PointingDevice` shows its clients; `LeafNodeCommands`
takes Configure for a command like the others, `ConfigureFlow` has its inside;
the results of `KValueValidation` and `PointingModels` are reports to
`HealthAggregation`; what makes the threads of `TemperatureTracking` and of the
wind call `invoke_auto_stow` is left open in `StowControl`. The abort event, the
abort flags and `tango_operation_execution_lock` are in each module that has
commands.

### PointingDevice

Three kinds of process interleave. The *client* makes one call at a time, since
Tango serialises commands and attribute writes of a device: `WriteTargetData`,
`SubmitGenerate` (which only queues), Stop (`StopCalled`, `StopSignals`,
`StopJoins`, `StopPublishes` or `StopRaises`) and `delete_device` (`Cleanup...`).
The *worker* is the one thread of the task executor: `GenerateTaken`,
`GenerateLocks`, `BuildAndProject`, `SetTrajectory`, `JoinOldThread`,
`StartThread`, `StartRaises` or `SkipThread`, `GenerateReturns`, `Report`. A refused
target (`GenerateFails`) leaves the lock first and publishes its error after it
(`ErrorPublished`, or `ErrorRaises` when publishing fails). A *track thread* per request runs
`track_thread` of `TrajectoryMappingScan`: the first table, then the loop of
calculating entries, adding the table to the scheduler, running the scheduler,
and the drain when the calculation gives no more. Every variable is a field of
the component manager or of one scan object; a request owns its scan object,
scheduler and thread, so these are indexed by the request.

A table is abstracted to two booleans: is it the first of its scan, and was
every entry computed with the projection of that scan. `targetData` is
abstracted to accepted, refused before the projection is stored, refused after.
`quiet` and `stopped` are history variables of the properties.

`JoinMayTimeOut` lets Stop's `join(timeout=2.8)` elapse. That happens in the
program: the thread may need the monitor of the Tango device, which Stop holds,
to push an event. `PublishMayFail` lets pushing an event raise. `StartMayFail` lets
`start()` of the new thread raise: `trajectory_mapping_scan.py` (132-149) logs it,
`do()` returns OK, and the reference is to a thread that never ran.

### StowControl

A stow is one call of `setstowmode`, by a client (`ClientCalls`, the allowed
mode) or by a watching thread of AutoStow (`AutoReadsMode`, `AutoReadsStatus`:
the two reads of `invoke_auto_stow` are two steps). Then `Announce` sets
`STOW_STARTED`, `FlagOthers` sets the abort flag of every command object in
progress, and the callback of `abort_tasks` creates the SetStowMode object
(`TasksAborted`), which calls the dish under the Tango lock, stops the track
table and waits for the mode. `Returns` is the end of `do()` and what the caller
is told, `Conclude` the status. Abort flags twice and holds the lock over its
wait. `dishMode` events set the status before the mode (`LeaveIsNoticed`,
`DishLeaves`), and no reader takes the lock.

`OPERATE` stands for the four modes a client's stow may start from. When the
queue has been aborted, whether `update_task_status` sees a result next to the
status ABORTED, and which of its conditions a completion wait notices first are
decided by the libraries: these are nondeterministic. Commands in the task queue
are represented by the time `abort_tasks` takes.

### ConfigureFlow

Three kinds of thread meet in the component manager. The *worker* of the task
queue runs one Configure at a time: `Begins` (the new command object, whose
adapter is None as yet), `AdaptersReady`, the load mode (`ModeRenewed`),
`ProvidedCleared`, `Generate` on the pointing device, the nested ConfigureBand
(`BandNeeded` to `BandFails`), `start_dish_tracking` with the nested Track
(`TrackNeeded` to `TrackFails`), the wait for the dish (`Configured`,
`WaitAborted`, `WaitTimesOut`) and `update_task_status` (`Concludes`,
`StopRaises`). A partial Configure goes from the adapters straight to
`Generate`. The *event thread* is `update_program_track_table`: `TakeTable`,
`EventLocks`, then `TableWritten` and `ModeAppended`, or `TryFails` with the
retries under the lock. An *Abort* raises the abort event and every abort flag
(`AbortRaises`, `AbortFlags`), waits until the worker has ended its task
(`QueueAborted`), and does the same again under the Tango lock before it stops
the dish and the tables (`AbortLocks` to `AbortEnds`). `dishAdapter`,
`abortEvent`, `isTracktableProvided` and `partialConfigure` are the fields of
the manager through which they reach each other; each command object that is
made replaces the first two.

The pointing device is what its clients see of it: of the Generates in its queue the
first is taken and starts a session in place of the one before (`SessionStarts`) or
fails (`SessionFails`), and a session publishes tables until it ends
(`SessionEnds`). A Stop returns when the session has ended or its join has timed out
(`Stopped`), so a session may publish after it was stopped. A table is known by the
number of its session, the dish by the state its last events said (which may change
at any time, so that it need not do what it was told) and by what it has loaded.
Abstracted: whether the band asked for is the one reported is left open;
`SetStowMode` is `StowControl`; the result dictionaries and the health values are
not kept. `clean` is a history variable.

### HealthAggregation

`data` is `DishHealthData`, `issues` the dictionary `_active_issues`, kept as what
is listed and as which kinds were entered before which, `cachedState` and
`healthInfo` what the manager published last, `healthState` what the device shows.
`update_health_data_and_aggregate` holds one lock from the update to the
publication, so a report is one step (`Aggregate`): the issues of its kind are
removed and entered again at the end, the rules are tried in order (`OKRules`,
`DegradedRules`, `FailedRules`), and the state is published if state or information
differ from the cache. The reports are the capability and health events, the
validated pointing models (which wait for the start-up timer, `Initialised`), the
kValue results, and the errors of the track table. `SetDirectly` is what Configure
(`GenerateTold`), a calculation error (`CalculationError`, reported in a second
step) and SetStowMode (`StowStopRaises`) do past the manager.

Commands end on two threads, the worker and that of Abort (`Enders`): a
Configure stores the band of its request, generates, and reports the band; a
TrackStop or an Abort tries to stop the table, clears the band (`StopEnds`),
reports it and clears the errors. `update_rxband_health_aggregation` is three
steps, `ReadBand`, `WriteBand`, `BandReported`, since nothing locks the band.

Abstracted: a capability is good or bad and a model FAILED or not, as the rules
see them; the issues of all bands with a failed model stand next to each other
and are one; the kValue comparison is the result it reports. The order of the
issues is kept, because the health information is compared with it and so
decides what is published. `bandHeard`, `direct` and `crossed` are history
variables.

### LeafNodeCommands

A *client* sends commands one after the other (`Sends`, or `SentInVain` when the
check of the dish state or of its liveness refuses). The *worker* takes them from
the queue (`Taken`): it reports those ABORTED that it finds while the queue's event
is set, checks the others again (`NotAllowedAnyMore`), drops one whose argument is
not valid without telling anybody (`Dropped`), and begins the rest. `Command`
holds what is particular to a command: its states, whether it may be refused in
these, and the first step of its `do()`. From there, commands of the first family
call the dish under the Tango lock and wait (`DishCalled`, `Completes`,
`WaitAborted`, `WaitFails`), TrackStop with the tables in between
(`TrackStopCalled`, `TablesStopped`, `StopRaises`); the standby commands call and
report (`StandbyCalled`); Off goes through both modes with
`set_wait_for_dishmode` behind each call (`OffCallsFP` to `LPNotReached`).
`Concludes` is `update_task_status`.

An *Abort* raises the abort event and flags the commands (`AbortRaises`,
`AbortFlags`), aborts the queue and waits until it is empty (`AbortsQueue`,
`QueueAborted`), replaces the event (`AbortTakesEvent`; a command that was sent
meanwhile may have begun), and goes through `invoke_abort` under the lock
(`AbortLocks` to `AbortEnds`). `abortEvent` tells which object `abort_event` of the component
manager is: a command that begins makes it the queue's own event, an Abort object
replaces it by one of its own. So the `set` and `clear` of one Abort reach the
event by which another empties the queue.

`CommandQueue` says what clients see of this: commands are accepted or refused in
the order in which they are sent, start one at a time in that order, end with OK or
FAILED, or with ABORTED if an Abort flagged them, and nothing is reported of a
command that is over; an Abort acts when all that it found is over, and no two act
at once. `Clients` in `LeafNodeCommandsProperties` maps the positions of a command
to `phase` and those of an Abort to `abort`; `abortFlag`, `told` and `before` are the
abstract variables as they are. The dish, the adapters, the events and the Tango
lock are details of this queue.

Abstracted: arguments are valid or not; the answers of the dish are OK or FAILED.
The dish is its mode and whether its pointing state is TRACK or SLEW, two events
that need not agree: TrackStop looks only at the second, the others at the first.
Off may be sent in any
state of the dish: the device would have to call its check `is_Off_allowed`, and
calls it `is_off_allowed`. `before` (what was sent before an Abort and is not over)
and `outcome` (what Off saw of what it asked for) are history variables.

### KValueValidation

Two *threads* compare, the start-up timer and the event thread: with the value of
the dish in hand (`TakesEvent`, `TimerReadsDish`) each reads its own (`ReadsOwn`,
before the lock is taken), takes the lock, and assigns, publishes and reports the
result unless it is the one there already (`Differs` to `Reports`, or `Same`). A
timer that gets no answer writes NOT_ALLOWED without the lock (`TimerGivesUp` to
`ReportsNotAllowed`), and in any case ends the initialisation. *SetKValue*
(`DishAccepts` to `SetReports`) stores the value, sets the result OK, memorises
and reports, all without the lock; the database may raise, when the value is put
or when it is read back (`MemoriseFails`).
`WritesAttribute` is a write of the kValue attribute. `Restart` may come at any
step: only the memorised value survives, and Tango writes it back
(`LoadsMemorised`). The timer is five seconds from the start and does not wait for
that: a value loaded later is compared with nothing, as one that is written.

`disturbed` is a history variable. The code reads both values outside the lock, so
a result may be that of values which have changed since; `disturbed` says since
the start whether that can have happened ("overlap"), whether the database failed
SetKValue halfway, or whether the attribute was written (also by Tango, after the
timer has begun). The premises of the two
properties name which of these they do without. The read of the kValue and of the
dish's is one step, since SetKValue in between counts as an overlap either way. A
comparison is taken not to raise: it reads, compares and assigns attributes.

### PointingModels

The model of one band, known by its version. ApplyPointingModel (*worker*)
downloads a model, takes the Tango lock, writes the version, calls the dish, and
memorises the version or takes it back (`Submitted` to `CmdTakesBack`). The *event
thread* reads the version when parameters arrive: it concludes at once
(`NothingKnown`, `NotValidated`), downloads the model and compares (`Compares`), or,
when the dish has none, reads the version a second time (`ReadsPrevious`), applies
the model again under the lock and takes the version back if that fails
(`EvLocks` to `EvRestores`). An exception before its `do()`, which raises none
itself, leaves the version alone (`EvRaises`). A dish that does not confirm may have obeyed
(`Applies`). `Restart` may come at any step; the memorised version is loaded when
the initialisation completes.

`disturbed` is a history variable: a command and an event, or an event and a write
of the attribute, that were inside each other's read, write and take back of the
version ("overlap"); a version the database did not take; a model or version that
changed and was not compared. `NotPositive` are the versions none of whose
parameters is above zero, which the validation passes over. `apply_pointing_model.py`
joins a thread without a timeout after ten seconds (line 237): calls are assumed to
end.

### TemperatureTracking

An *event thread* per weather station starts tracking at the first temperature
(`StartsTracking`), in three steps: it decides, starts the thread, records it.
`roc_temp` (`StartsPoller` to `RocFails`) starts a poller and waits without a
timeout for the first full window, then compares the newest with the oldest sample
whenever there is an update. `_one_sec_poll` (`PollChecks` to `PollOverruns`)
appends, trims what is too long and announces the sample. Either thread may end by
an exception: the poller when a round took more than a second and its pause is
negative (`PollOverruns`, `auto_stow.py` 556; a wait for the lock is enough), the
other when publishing the rate raises (`RocFails`). The *write* of
`time_delta` clears tracking, joins the pollers and then, station by station, the
other threads, all under `update_temp_lock` (`ClearsTracking` to `Cleans`), which
the threads take to read `time_delta` and `temp_delta`.

The samples are counted: their values only decide whether a stow is started, which
is `StowControl`. `time_delta` is a float compared with a length, so it is kept in
halves; 2.5 stands for all fractions. A pair of threads is a slot; a slot is used
again when both threads have ended and no list holds it. `caught` is a history
variable: a write found a thread that will not look at `tracking` again before it
needs the lock the write holds, or one that is about to set it. That write hangs, or
leaves a second pair; after it nothing is claimed, and no further event or write is
begun. `failed` is another: the stations that have lost a thread to an exception,
until a write starts them again. The rate itself and `__del__` are not modelled.

## Runs

| Run | Question | Instance |
|---|---|---|
| `pd_safety` | types; one referenced thread; later tables computed with their own projection; no silent failure; refinement of `TrackingSession` | two requests, scheduler of two tables, joins time out, publications and thread starts raise |
| `pd_progress` | Stop leaves quiet; OK means started; calls return, requests are reported | two requests, one waiting table, no timeouts, no raising publication or start |
| `pd_overtaken` (violated) | does a Stop cover a queued Generate? | as `pd_progress` |
| `stow` | types and lock; a stow goes through; `STOW_STARTED` does not outlive the stows; stows end | two watching threads, one client stow, one Abort |
| `configure` | types and lock; a clean start tracks its own target only; tables reach the dish in order; an Abort has the dish to itself | two Configures, one Abort, two tries per table, one table waiting |
| `configure_progress` | every Configure and every Abort ends | one Configure, two Aborts, a dish that stays operational |
| `commands` | types and lock; an Abort outlives what was sent before it; OK means done; refinement of `CommandQueue`; everything ends | two commands of four kinds, two Aborts, three dish states |
| `health` | types; rules and listed issues agree; the receiver band reaches the manager; only direct writers make published and aggregated state differ | two bands, one with a pointing model, any five events and commands |
| `health_generation` (violated) | does a failed generation show in the health state? | as `health` |
| `kvalue` | types; the result is that of the present values; what is published and reported is the result; the initialisation completes | two values, one waiting event, restarts |
| `pointing_models` | types; OK means that the dish has the version remembered; the database has it too; command and event thread end | three versions, one without a positive parameter, one waiting event, restarts |
| `temperature` | types; a station has one pair of threads; the window keeps its length; a write ends; the rate is compared again and again | one station, two pairs of threads, `time_delta` 2.5 and 3 |

Bounds. `MaxGenerate = 2` is the smallest number with an old and a new thread;
three requests were also tried and give nothing new, since the lock admits one
replacement at a time. `QueueLimit` caps the tables waiting in a scheduler; in
the program the schedule time of the tables paces the calculation. Two watching
threads and a client are enough for every pair and for a cycle of three among
those that flag each other; one Abort, because a second would only wait for the
lock longer. Stop and attribute writes are not bounded.

In `ConfigureFlow` the second Configure meets what the first has left: its
session, its tables and its flags. `MaxTries = 2` has a retry and a last try.
One waiting table, one under way and one in the pointing device's hands are
three of one session, enough for tables of both sessions to be on their way
together. In `configure` the dish may be in any state at any time;
`configure_progress` keeps it in OPERATE and TRACKING, between which a Configure
goes all its way, and takes one Configure, one try per table and two Aborts, since
it is the Aborts that keep the lock from a Configure and from each other.

In `LeafNodeCommands` one command runs and one waits, and two Aborts meet in the
event. Track stands for the commands that wait for a result, SetStandbyLPMode for
the standby modes; TrackStop and Off are themselves. `DishReaches` are STANDBY_LP
without tracking, STANDBY_FP whose pointing state still says TRACK, and OPERATE with
tracking: the two modes Off asks for, one in which Track is allowed, and TrackStop
allowed in two of them.

In `HealthAggregation` `MaxInputs = 5` counts events and the starts of commands.
Six kinds of reports exist; five cover every combination of the reports the rules
look at (band, capability, pointing model, kValue, track table), with two bands
some, none or all are good, and a Configure, a TrackStop and an Abort fit with two
events between their steps. The module has safety properties only and no fairness.

In `KValueValidation` two values are equal or differ, 0 is no value; commands,
events and restarts are not bounded, only one event waits behind the one under
comparison. In `PointingModels` a version is the one in force, the one before or
the one that is passed over. In `TemperatureTracking` the stations share the lock
and the write but no samples; one station, with the pair a write ends and the pair
the next event starts, has every meeting of threads. 3 is the smallest `time_delta`
whose window cannot run empty under the comparing thread, and 2.5 is never the
length of a list. The proofs are for every number of each.

Fairness. Threads that can run keep running: `WF` for a call in progress, for
the worker, for each track thread, each stow and each Abort. The worker of the
pointing device needs `SF` for the lock, since calls of Stop may come one after the
other; between two of them the lock is free for a network round trip. Nothing
obliges a client to call, a dish to move or a call to fail. In `StowControl` the
steps that wait for the aborted queue are fair: commands in the queue poll their
abort event or time out. In `ConfigureFlow` and `LeafNodeCommands` every wait of a
command has a timeout, so its steps are weakly fair; taking the Tango lock is
strongly fair (`EventLocks`, `ConfigureLocks`, `AbortLocks`, `WorkerLocks`), since
the lock is contended by threads that release it again and again and by no spinning
one. Locks are strongly fair for the same reason in `KValueValidation` (`Compares`),
`PointingModels` (where downloads and calls of the dish are also taken to end) and
`TemperatureTracking` (where a poller's pause of a second ends). The timer of
`KValueValidation` runs, and the memorised values are loaded after a start, in
either order. Events,
tables, the dish, the pointing device, restarts and the clients are not fair: none
of them owes anybody a step.

Deadlock is checked except in two runs. In `commands` everything is over when all
commands and Aborts have ended and the dish need not move. In `temperature` a write
that caught a thread hangs, and with it everything behind its lock: this is what
`caught` marks. A deleted device stutters (`Deleted`), as does `HealthAggregation`
when its inputs are used up (`Exhausted`); in the others dish and events never stop.

## What the runs show

The pointing device keeps one track thread, referenced, whatever fails. Tables
after the first of a scan never mix projections; the *first* one may, if Stop's
join timed out. Without timeouts Stop leaves quiet.

A Configure that starts while nothing is coming tracks its own target only, and
no table overtakes one of a later Configure, whatever is retried, and also when
the session of an earlier one publishes on after its Stop. From the
moment an Abort holds the Tango lock nothing else reaches the dish: a Configure
started behind it waits for the lock, and the tables that were waiting are
written after it. Configures and Aborts end although they wait for each other in
a circle of abort event, worker and lock, because every poll has a timeout.

An Abort has outlived what was sent before it when it calls the dish, although a
second Abort clears the event by which the first empties the queue: each waits for
the worker and the queue itself. OK of TrackStop means that the pointing device was
stopped (what a Stop is worth is in `PointingDevice`). OK of Off means that
STANDBY_LP was seen, or that an Abort was: an Off that is aborted goes on and
reports what its call returned.

The write of `time_delta` joins threads under the lock they need. It ends unless it
caught one of them past its look at `tracking`, and then the stations have one pair
of threads each. The comparing thread and the poller each may remove one sample too
many: the window is at most two samples short. With a fraction in `time_delta`, or
a window of two samples, the rate is not watched for good; `RateIsWatched` says so
in its premise. Nor is it after a thread has ended by an exception: the station stays
tracked, so no event starts new threads, until `time_delta` is written.

Undisturbed, the kValue result is that of the present values after any number of
changes, refused and lost calls and restarts. The pointing model result OK means
that the dish has the version remembered, and the database has it too; a command
the dish obeyed and did not confirm, parameters that are passed over, and a command
and an event that take back each other's version are the exceptions, in the
premises.

Two disagreements between code and documentation are kept as runs:

- `pd_overtaken`: `stop_track_called` is set and cleared inside the section of
  the lock under which Generate reads it, so a Generate queued before a Stop
  starts its thread after the Stop.
- `health_generation`: a Configure whose generation fails is to make the health
  state DEGRADED. If the error of an earlier Configure is still held, and one in
  between has published OK past the manager, the manager sees nothing new to
  publish and the health state stays OK.

Others are visible in the models without a run of their own: `do()` of
GenerateProgramTrackTable returns FAILED for a refused target and the command
reports OK (`Report`; `FailureIsVisible` says what is left); a SetStowMode that is
aborted never tells its caller (`PassedOn`); a Configure whose argument is not valid
or that finds no adapter ends without its task callback being called, as does any
command with an argument that is refused late (`Dropped`); what becomes of the
Generate a Configure has queued is not looked at, so a Configure may report OK while
no tables are generated for it (`SessionFails`).

The rules, written in one file, and the issues, written in another, agree: the
aggregated state is OK exactly when nothing but the dish manager's own health is
listed, which no rule looks at, and no combination of reports falls through to
UNKNOWN. `BandReachesHealth` holds while commands do not cross on the two threads
and every Configure gets to its report; its premise says so.

`StartedMeansPending` holds while no client aborts. With an Abort it does not:
the aborted stow leaves `STOW_STARTED`, which keeps AutoStow from acting until
the dish has been stowed by other means. The property says so in its premise.

## Proofs

All theorems are for every value of the constants; the assumptions are the named
ones on the constants. `PointingDeviceProofs`, for every number of requests and
every scheduler bound, with all failures enabled unless said otherwise:

- `Invariant`: `IInv` holds always. `TypeCorrect`, `OneThread` and `OwnProjection`
  follow: the type invariant, `OneTrackThread`, `LaterTablesUseOwnProjection`.
- `Refinement`: the device implements `TrackingSession` under the mapping in
  `PointingDeviceProperties`.
- `FailureShows`: `FailureIsVisible`, from where a failed outcome can be
  (`ReportInv`): in the error signal, about to be reported, or reported.
- `StopIsFinal`: `StopQuiesces`, if joins do not time out. `QuietInv` adds that the
  worker is outside its lock while it is quiet, and GenerateLocks ends the quiet.
- `SessionsInOrder`: the request whose thread is referenced never goes back, and what is
  published is of that request, of the one published before, or nothing. `HaltIsFinal`:
  a session that was told to halt publishes until it ends or another replaces it, but
  is never taken up again. Both follow from `TrackingSession`.
- `OKHasStarted`: `OKMeansStarted`, if neither publishing nor starting a thread fails: the flag is only
  set while the client holds the lock (`StartedInv`).

None of the properties is inductive. That a new thread does not join an old one
needs to know that the worker at `start` found the referenced thread dead
(`WorkerInv`) and that the referenced thread is the only one alive. That a later
table uses its own projection needs the event: it is set from the moment a lock
holder asks the thread to stop until the new thread starts (`EventInv`, which
needs the lock ownership of `LockInv`), the projection is foreign only while it
is set (`ProjectionInv`), and a table is added only while it is not, so what
waits in the scheduler is either a first table or its own (`ScheduledInv`). The
step lemmas are grouped by who moves: `ClientEffect`, `WorkerStep`,
`ThreadEffect`.

`ConfigureFlowProofs` proves for every set of Configures and Aborts, every number
of retries, every queue and every dish, from `ConfigureAssumption` only:

- `TypeCorrect`: the type invariant, with one Configure at a time (`CommandsOK`)
  and the ownership of the Tango lock (`LockOK`). It is inductive.
- `AbortExclusive`: `AbortHasDishToItself`. It rests on `LockOK`: while an Abort
  is inside its with block the event thread is not at `write` and the calls of a
  Configure are not enabled. `OnlyWriteLoads` and `OnlyConfigureMoves` say which
  steps could do it.
- `InOrder`: `TablesInOrder`. A table that is written is only seen to be newer than
  what the dish has if all that is on its way is in order: the loaded tables, the
  one under way, the queue, the publishing session, the requested ones (`Ordered`).
- `CleanStart`: `CleanStartTracksOwnTarget`. `CleanInv` follows a clean Configure:
  until it has asked for tables none is coming (`AwaitsNone`), after that all
  that come are its own, and the load mode stays NEW until the first is written
  (`AwaitsOwn`), which is what `is_tracktable_provided` then means.

The step of a Configure is described once (`CfgShape`, `CfgByTables`), so that
each proof reasons about what it changes and not about its thirty actions.

`HealthAggregationProofs` proves for every set of bands, results and any bound,
from the assumptions on the constants:

- `TypeCorrect`: the type invariant, inductive as it stands (`InputTypes` and
  `ProgressTypes`, one step per action).
- `PublishedIsAggregated`: `OnlyDirectWritesDiffer`, from what a report does to the
  two states (`AggregatePublishes`), lifted to every action (`StepPublishes`).
- `BandArrives`: `BandReachesHealth`. `BandInv` adds where the band is while a
  command ends: what was read is still the receiver band, since no other command
  is under way.
- `StateAgrees`: `StateFollowsIssues`. `ListInv` says of each kind of issue that what
  is listed is what the kind's last report led to, and that the state was worked out
  from the same reports; the lemma `ListDecides` compares the rules with the list.
  That a report takes out its kind and nothing else, and leaves the order of entry an
  order, is in `WithoutIsList` and `EnteredIsList`.
- `ReadersAgree`: what `healthState` shows is what the issues in `healthInfo` stand for,
  unless it was set past the manager. It combines the two properties above.
- `OKMeansNoIssue`, `RulesDecide`: about the rules themselves, for all data.

`StowControlProofs` proves for every number of stows and Aborts the type invariant
and, while no client aborts, two properties that need the same idea: among the
called stows there is always one that is not flagged and not aborted (`LastGoesOn`),
since the last one to flag the others did so before its own object existed; and
while the status reads STOW_STARTED such a one is still on its way
(`StartedGoesOn`). `OneGoesThrough` is `SomeStowGoesThrough`, `StartedIsPending` is
`StartedMeansPending`.

Whether clients abort or not: `NobodyAbortsItself` (a stow is flagged only by another
one or by an Abort) and `OnlyAbortsLeaveStarted` (while the status reads STOW_STARTED,
a stow is on its way or one has ended as aborted, so nothing else leaves it behind).

`TemperatureTrackingProofs`, for every set of stations and values of `time_delta`:

- `OneWatchOnly`: `OneWatch`. A pair that lives belongs to a station that is tracked,
  or is about to be joined, and the station knows it (`Known`, `Watched`); while the
  write joins, nothing starts, pollers are over before the others are joined
  (`Joined`). So nothing is left when the write is through.
- `WindowStaysFull`: `WindowIsKept`. `WindowOf` counts what will be left when the
  comparing thread has removed all that it owes (`Owed`, at most two: an update that
  is set, and one it has begun), and bounds this by `time_delta` for each position of
  the poller.
- `TypeCorrect`.

`LeafNodeCommandsProofs`, for every number of commands and Aborts, and any kinds:

- `AbortIsLast`: `NothingOutlivesAbort`. `BeforePending` and `WaitsInQueue` place
  every command that an Abort has still to outlive in the queue or on the worker, so
  none is left when both are empty.
- `OKIsEarned`: the action property `OKMeansDone`. `Kept` says for each position of a
  command what it has done so far.
- `AbortsExclude`: no two Aborts call the dish at once. `TypeCorrect`.
- `Refinement`: `ImplementsQueue`. Every action is mapped to a step of `CommandQueue`
  or to none, one step of the proof for each. That a command which begins is the
  oldest that waits needs `OrderInv` (what waits is the queue, oldest first); that one
  ends with a verdict, and with ABORTED only if flagged, needs `VerdictInv`; that one is
  thrown out only while an Abort waits needs `EventInv`. `QueueInv` is their conjunction;
  it is inductive together with `Inv`, which has the types and what Aborts wait for.
- `RunInOrder`: a command that runs was sent after everything that is over, and before
  everything that waits.
- `QueueInOrder`: the queue holds the commands that wait, each once, in the order in
  which they were sent (from `OrderInv`).
- `NothingAfterTheEnd`: a command that is over stays over and its client is told
  nothing more. It follows from the abstract queue.
- `AbortedHasCause`: no flag outlives the command it was meant for; a flag goes up
  only for a command that runs, by an Abort that sets flags at that moment; and
  ABORTED is told only to a command that is flagged, or waits while an Abort signals
  or empties the queue. So no flag and no event that an Abort left behind when it was
  through aborts anything.

`KValueValidationProofs`, for every set of values and every queue:

- `PublishedIsResult`: `ResultIsPublished`. `Consistent` says where published,
  reported and held result may differ: while the holder of the lock, SetKValue or the
  timer is between its writes (`HoldsLock`, `HasVerdict`).
- `ResultStaysCurrent`: `ResultIsCurrent`. `Current` follows the newest value of the
  dish from the queue to the verdict of the thread that compares it: whatever is
  under way will decide for the present values, or nothing is and the result is theirs.
- `UpdatesExclude`: whoever updates the result is alone. `TypeCorrect`.

`PointingModelsProofs`, for every set of versions and every queue:

- `OKIsRight`: `OKIsTrue`. `Validated` says that a result OK stands for the version
  remembered or that an event which will correct it is waiting or under way;
  `Undisturbed` and `Arguments` say what each side holds while it works.
- `MemoryIsCurrent`: `MemorisedIsRemembered`, from `Memory`: the version that will be
  taken back is the memorised one. `TypeCorrect`.

Only model-checked are the liveness properties (`ClientCallReturns`,
`GenerateReported`, `StowEnds`, `NothingHangs`, `EverythingEnds`, `StartCompletes`,
`BothEnd`, `WriteEnds`, `RateIsWatched`), which rest on fairness and are out of the
prover's reach. Every safety property of a passing run has a theorem.

## Not modelled

- *Wind means and percentiles of AutoStow*: arithmetic over a list of samples in one
  thread; what it leads to is the call of `invoke_auto_stow`, in `StowControl`.
- *Table arithmetic* (`program_track_table_calculator.py`, azimuth range, coordinate
  transforms): floating point computed by katpoint and astropy; the models keep whose
  projection a table was computed with.
- *Actual pointing*: a child process that transforms coordinates; its only shared state
  is a queue and one flag, whose lost update is listed as a hazard.
- *Queue connector*: one subscription that is replaced and one call per event.
- *Event subscription and dispatch*: the subscriptions, their retries and error events
  are `ska_tmc_common`'s. The order within an attribute's queue is modelled where a
  property depends on it.
- *Availability*: the liveness probe is `ska_tmc_common`'s and its callbacks set one
  flag; for the commands it means that they may be refused at any time.
- *Nested ConfigureBand and Track of a Configure in the list of commands in progress*
  beyond their flags, offsets, and the contents of configurations.
- `temp_src`, charts, build files, data, generated `pogo` files.

A later extension would take the order of events across attributes first, then the
layout update of the actual pointing process.
