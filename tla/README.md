# A verification development of OVCS

OVCS (Open Vehicle Control System) turns a car, or a scale model of one, into a
vehicle driven by software: an Elixir application, the VMS, runs one process per
component of the vehicle, the processes exchange messages on a bus and CAN frames
with the hardware, and Arduino *generic controllers* switch relays and drive
actuators as the VMS's frames ask. Beside it run the Rust programs of the stereo
vision, each behind an Elixir server, and a command line from which an operator
attaches to the nodes. These modules state what the parts that decide who drives, in
which gear, and what is connected to the battery must do, what the vision programs
compute and answer, and what an operator may rely on; they check it with TLC and prove
part of it with TLAPS.

Paths below are relative to the repository's root; `vms/core/lib/vms_core` is
written `vms_core`.

## Inventory

| Component | State | Operations | Talks to |
|---|---|---|---|
| `vms_core/managers/control_level.ex` | level, forced level, commander, sources in force; last requests, brakes, rotation health, readiness, speed | eight messages, a 10 ms loop | hears switches, pedals, fusion, vehicle; tells Gear and the actuators whom to obey |
| `vms_core/managers/gear.ex` | selected and requested gear, request sources, throttle, speed, readiness, contact | nine messages, a 10 ms loop | hears ControlLevel and the source in force; tells inverter and VESC |
| `vms_core/components/ovcs/high_voltage_contactors.ex` | phase, contact, voltage, deadline, readiness | two messages, a 10 ms loop that calls the driver | ignition lock, inverter, generic controller driver |
| `vms_core/components/ovcs/generic_controller.ex` | pins requested, pins read back, controller's status | calls that set a pin, CAN frames, a loop | CAN emitters, the components on its pins |
| `controllers/generic_controller` (firmware) | status, outputs, heartbeat's age, configuration, adoption, I2C retries | `setup()`, `loop()` | CAN, EEPROM, button, I2C boards |
| `vms_core/components/nissan/leaf_aze0/inverter.ex` | enabled, contact, gear, torque, voltage | messages, CAN frames, a loop | contactors (voltage), its power relay |
| `vms_core/components/volkswagen/polo_9n/ignition_lock.ex` | contact | messages, a loop | everyone who hears `:contact` |
| `vms_core/status.ex` | status emitted, resetting | messages, boot and dashboard resets, a loop | every generic controller, by its heartbeat and its command frame |
| `vehicles/ovcs1`, `vehicles/ovcs_mini` | vehicle status (latched), readiness | messages, a loop | Status, ControlLevel, Gear |
| `vms_core/components/vesc/motor_controller.ex` | source, throttle, gear, command | messages, CAN frames, a loop | ControlLevel, Gear |
| `ros_command/freshness.ex`, `bridges/ros_bridge` | sequence, ages, stale | frames, ticks | the commanders of `:ros` |
| `rotation_fusion.ex`, `vehicle_motion.ex` | readings, sign, mismatch, fault | messages, ticks | ControlLevel (health, fault), speed |
| `libraries/ovcs_bus`, `ovcs_bus_gateway` | pending, sent, republished; forwarders, presence, cached values, staleness | messages, ticks, connections, a link that may refuse | dashboards |
| `vision/rust/stereo_match` | images, path states, worker pool, segments configured | records on its input; threads that share an image without a lock | `stereo/matcher.ex`, which owns its Port, one pipeline per segment |
| `vision/rust/hailo_detect` | the accelerator's streams, a frame in flight | records on its input | `detection/backend/hailo.ex` |
| `vision/rust/v4l2_capture`, `camera_capture` | buffers, the newest frames, blanking, controls | frames, lines from the host | `camera/v4l2.ex`, `camera/lib_camera.ex`, the kernel, libcamera |
| `vision/rust/jpeg_codec`, `framing` | | records | the vision servers |
| `cli/src/commands/attach.rs` | a supervisor per node, its session, lines typed, handles to abort | threads, tasks, polls, the user's quitting | the nodes' shells, `run_ui.rs` |
| `cli/src/commands/run_ui.rs` | buffers, scroll positions, filters, the input, a selection | messages of the nodes, keys, mouse | the terminal |
| other drivers, API, dashboards, infotainment, rest of the CLI | | decoding, display, packaging | |

What is hard in this code, and what makes each part correct:

* **Processes that only see the past.** A GenServer runs one callback at a time,
  but what it knows of the others arrived in messages at different moments. The
  level must be right for what the manager knows, whatever the order in which it
  came to know it; the gear must not engage on the request of one hand and the
  throttle of another.
* **Latches.** A forced level outlives its cause, and must neither be lost nor
  impossible to lift.
* **Requests that live on.** The emitters repeat the last frame for ever, the
  driver keeps what was requested of it, the firmware obeys whatever comes when it
  is READY. Shutting down and resetting a controller in the middle of a session
  replays a request made in another situation.
* **Silence.** A heartbeat, a health flag, a throttle, a voltage that stop coming
  leave their last value behind.
* **Sharing without a lock.** The matcher's threads write one image, and keep apart by
  the rows and chunks they have claimed; a pool hands them work whose lifetime was
  erased, so that a call must outlast every worker it employs, also while unwinding.
* **Answers by order.** A Port's replies carry no name. A refusal, a timeout, an exit or
  a process given up that still answers shifts the order for all that follows.
* **Two clocks and two threads.** A blanking in force a frame after it was set, a
  control that comes while a request is under way, a buffer overwritten while it is read,
  a line typed while a session is replaced, a handle sent after the user quit.
* **Failure in the middle.** A torn configuration, an I2C error, a controller shut
  down between two steps of the precharge.

`PROJECT.json` lists every hazard at its line, with the properties that cover it.

## Modules

| Module | Models | Kind |
|---|---|---|
| `Authority` | what the control level promises: climb one rung at a standstill, fall at once, latch | abstract specification |
| `ControlLevel` | `managers/control_level.ex` | detailed; implements `Authority` |
| `Gear` | `managers/gear.ex` | detailed |
| `Controller` | `controllers/generic_controller`, `setup()` and `loop()` | detailed |
| `HighVoltageContactors` | `high_voltage_contactors.ex` and the pins of `generic_controller.ex` | component |
| `HighVoltage` | the chain key, contactors, driver, bus, firmware, inverter, link | composition of `HighVoltageContactors` and `Controller` |
| `VmsHealth` | `status.ex`, the vehicle's failure latch (`vehicles/ovcs1`, `vehicles/ovcs_mini`), the alive frames and statuses of the controllers | composition of the health loop |
| `PlannerDrive` | a planner's velocity from the ROS bridge over the bus and the VMS to `vesc/motor_controller.ex`, or a hand's request | component chain |
| `RotationFusion` | `rotation_fusion.ex` | component |
| `BusGateway` | `forwarder.ex`, `collector.ex`, `cache.ex` | composition over the mesh |
| `OnThreads` | what `parallel::on_threads` promises | abstract specification |
| `Pool` | `parallel.rs`'s workers, mutexes and condition variables | detailed; implements `OnThreads` |
| `Chunks`, `Sweep`, `ThreePaths`, `RowJobs` | the matcher's threaded jobs (`parallel.rs`, `paths.rs`, `lib.rs`) | detailed |
| `Matching` | `census.rs`, the path recurrence, `select.rs`, `check.rs`, and `reference.rs` beside them | algorithms and their reference |
| `Stages` | rectification, filters, measures, depth, and a segment that runs them | algorithms |
| `Protocol` | the records between the vision programs and their servers; letterbox, boxes and their suppression | algorithms |
| `CaptureData` | images, settings and requests of the captures and the JPEG codec | algorithms |
| `VisionCases` | what `Stages`, `Protocol` and `CaptureData` have to compute | reference definitions |
| `StereoPort` | `stereo_match/main.rs` and `stereo/matcher.ex` | composition |
| `Detector` | `hailo_detect` and `detection/backend/hailo.ex` | composition |
| `PhaseLock`, `PairCapture` | `v4l2_capture`: `lock.rs` around the sensors; the loop with its buffers | detailed |
| `LibCapture` | `camera_capture`'s two threads | detailed |
| `CaptureStart` | the start of both capture programs | detailed |
| `AttachPanes`, `AttachUi` | the panes of `./ovcs attach`; its keys and mouse (`run_ui.rs`) | detailed |
| `LocalAttach`, `DeviceAttach` | the supervisors of `attach.rs`, of local nodes and over SSH | detailed |
| `MCControlLevel`, `MCGear`, `MCController`, `MCVmsHealth` | values of the constants | for TLC |
| `MCMatcher`, `MCVision`, `MCLinks` | the modules above on small instances, one chosen at the start | for TLC |
| `ManagersProofs`, `ControllerProofs`, `HighVoltageProofs`, `VmsHealthProofs` | theorems about `ControlLevel` and `Gear`, `Controller`, `HighVoltage`, `VmsHealth` | for TLAPS |
| `MatcherProofs`, `VisionProofs`, `PanesProofs`, `LinksProofs` | theorems about the parts of `MCMatcher`, of `MCVision`, and of `MCLinks` (two modules) | for TLAPS |

Each message a process handles is an action `Handle...`, its periodic loop is `Loop`, and
a test inside the loop is an operator named for the branch of the `cond` it stands for.
`Gear` prefixes its `Init`, `Loop` and the like with its name, so that one module can
prove about it and about `ControlLevel`. Operators named in a comment `Mutation:`, or `As
X, were ...`, are plausible slips of the definition beside them; no specification uses
them.

**ControlLevel.** The state is the GenServer's state; `healthAge` is the age of
`rotation_health_at_ms`, counted in ticks up to one past the timeout. `Fitted` is
the set of optional sources the vehicle wires: a message from a source that is not
fitted matches no clause. Speeds are `unknown` (nil), `zero`, `moving`: no test
tells more. `Loop` is select_control_level, select_ros_commander, select_sources in
their order, each on the result of the one before. The refusal log is left out.

**Gear.** As above. A throttle is `pressed` or `released`, a brake included; a
speed near zero or above the shift limit. `NextGear` keeps the order of the
`cond` in `next_gear/1`. What the components request is free: any gear, direction or
throttle at any time.

**Controller.** One pass of `loop()` is one action, `LoopOn`, with the frame in the
FIFO, the button's level and the board's last error as inputs. `writeDigitalPins`
and its siblings are `Requested`; `watchVms` then `watchExpansionBoards` are
`Watch`, which has the last word on the outputs of the pass. `heartbeatAge` is the
age of `_latestVmsAliveTimestamp`. `PowerCycle` is a reboot in any state; while an
adoption is awaited it may fall inside `Configuration::store` and leave the EEPROM
with a CRC that does not match. Two kinds of undefined behaviour are choices:
`ExpansionBoard::lastError` has no return statement (any error is possible at any
time), and without a configuration the request ids are uninitialized (a request may
be taken or not). Only one board is modelled: the in-use flag of the second is
never set (`Configuration.cpp:84-85`). `VMS_LATENCY_ERROR` cannot be reached:
`loop()` stamps an alive frame before `watchVms` measures its age.

**HighVoltageContactors and HighVoltage.** A callback is not atomic here: each
`set_digital_value` is a step, and the driver's frames and the bus run in between;
the process itself handles no other message meanwhile (`Idle`). `HighVoltage` adds
the key, the inverter's component (its power relay, its last voltage), the link's
real voltage, and one controller, which *is* the `Controller` module, instantiated:
`FirmwareLoop` is its `LoopOn` on the frame received. Frames may be lost (they are
simply not received), and are repeated with the pins requested by then. Failures
and resets from the VMS come at any time. `excuses` is a history variable that no
guard reads. What is simplified: the three readings of `check_ready_to_drive` are
one step; the controller is adopted and past its boot time; a lost heartbeat is
represented by a FAILURE, which does the same to the outputs; a position of the key
lasts longer than its 10 ms rebroadcast.

**VmsHealth.** The loop through which a failure spreads and heals: controller, alive
frame, driver, bus, vehicle, bus, Status, heartbeat and command frames, controller.
Each hop is an action and reads what the hop before last said, so that stale reports
and stale FAILUREs meet a reset in every order. A controller is `ready`, in `error` or
`off`: `Controller` has the rest. A boot without power returns to `ready` (an adopted
controller); a FAILURE heard takes `ready` to `error`, a reset command back. A
controller's status and `is_alive` are one boolean, since `compute_vms_status` only
takes their conjunction. `stops` are the pending ends of the reset: the boot's timer
and the sleeps of the dashboard's requests. What is left out is readiness: the
ignition latch and the conjunction that `vms_status` enters.

Time in `VmsHealth` passes in ticks of half a second. A tick waits for what is due
(`InTime`) and for every hop to have caught up (`Settled`): loops run every 10 ms and
frames go out every 10 or 100 ms, so that half a second is longer than a round trip.
This is a synchrony assumption about the Erlang scheduler and the CAN bus, and it is
the only one: between two ticks the hops run in any order and any number of times.
It does not hide the alternation of RESETTING and the vehicle's status: `emitted` is
unconstrained while resetting, save that a FAILURE on the wire has done its work.
`calm` is a history variable that no guard reads: the ticks of one uninterrupted
reset, back to zero when a controller fails or its power changes.

**PlannerDrive.** The chain of a velocity: sample, the bridge's input watchdog, the
emitter that repeats the last frame, a bus that may lose it (a frame is simply not
observed), the VMS's freshness, the request, the motor's command. What is followed
through it is a velocity's sign, its source and its age. Every loop runs once between
two ticks, in any order: the synchrony assumption of this module, as in `VmsHealth`, and
the reason why `Bound` is both watchdogs plus three periods. What outlives what is the
point of the crashes: a bridge that dies leaves its emitter repeating the last frame,
which only the VMS's watchdog ends (`orphaned` counts those ticks; the frame a restarted
freshness takes for new is counted again, since it cannot know better); a motor
controller that restarts leaves its own emitters on, `enabled` being what the new
process believes. A request of one commander is held for two periods at most after a
switch to another. Of the hand's control modes the duty is modelled, with the braking
current of a negative request. `Planner` and `Switch` in `MCLinks` are the two uses: a
planner alone with crashes, and changes of the control level.

**RotationFusion.** The state is the GenServer's, with times as ticks of its freshness
check. `Read` is a message of a source: sign, expiry of the others, active source,
publication and health in the code's order, on the readings after the expiry. `outAgo`
and `apart` are history variables. Readings are those of the output shaft: the ratio of
each source is applied already.

**BusGateway.** One signal per node: a batch is taken or refused as a whole, so signals
do not interact. `mail` is what a node and its connection have told the collector, in
order, which is what Erlang guarantees of two processes and no more. A respawn and the
`nodeup` of the same node race, and the model shows what comes of it: a node that is
there may be shown as gone until something else happens, which is why `GatewaySettled`
claims the converse only. The envelope's times and the count of skipped ticks are left
out.

**The matcher.** `Pool` has a critical section of the job mutex as one step, and a
  condition variable as the set of its waiters, so that a notification may be lost; a work
  may panic, as `Finish` allows for. A worker counted but not spawned
  (`parallel.rs:266-273`) is left out: the `expect` that fails there ends the program,
  which is built with `panic = "abort"`. Around it, `Chunks` is claims and published
  progress, `Sweep` one direction of the paths, `ThreePaths` the pass with the ring,
  `RowJobs` the queues. Acquire loads and Release stores are steps of one interleaving; no
  decision rests on a Relaxed one. Parity and ring slots hold the row they belong to, so
  that a read of a stale or an early one is seen. `Matching` follows the code's order of
  computation (running minima, sums that accumulate, candidates replaced as they come),
  and its reference takes each definition apart per pixel, as `reference.rs` does; bytes
  and u16 wrap, the rounding of f32 and the SIMD forms are left out.

**The vision servers.** `StereoPort` and `Detector` have both ends: the Rust process
that reads, computes and answers, and the GenServer that owns its Port, whose messages
(replies, the exit, data of a Port since closed) are in one mailbox. A reply carries
what it was computed from for the properties' sake; the server never looks. A process
given up goes on until it notices, and may hold the accelerator when its successor
opens it. `Protocol` is the records of both languages, byte by byte where the two ends
were written by hand.

**The captures.** `PhaseLock` is the lock around sensors that apply a blanking a frame
or two later and may be late themselves; `PairCapture` the loop with its buffers, which
the driver overwrites once they are queued; `LibCapture` the two threads of
`camera_capture`; `CaptureStart` how both start, with devices not there yet, held by
an earlier process, or a host that has left. `CaptureData`, `Stages` and `Protocol` are
checked against `VisionCases`, which states results without steps.

**Attach.** `LocalAttach` has the three remshes of a session, the channel of typed lines,
  and the user's quitting; a remsh whose input ends halts its node, so that closing and
  killing in the wrong order is visible as a halted node. `DeviceAttach` has a task per
  device, which an abort can only end where it awaits, and the handles that reach the main
  thread after it began to quit. `AttachPanes` is what is kept and drawn, `AttachUi` the
  keys and the mouse; what a user presses, clicks and drags and what the nodes send
  meanwhile is a *use* of them, `Uses`. A signal of a CAN row is a pair, and a row a
  sequence of them of different names, in the order in which they came.

A pane's lines are drawn by ratatui, which wraps them at words (`WrappedRows`), while the
program works out from their width alone where the pane starts (`Estimated`, `Taken`) and
what a selection covers (`VisibleLines`). So a line is a sequence of words, each with the
blanks before it, and the two numbers of rows are kept apart: `CopiesWhatIsHighlighted`
holds down to the first line whose two numbers differ, `FollowsTheNewest` up to the rows
in excess of the estimate (the CAN pane's view of both forms, estimated a column short at
`run_ui.rs:1567-1572`, is such a case too), and a line that fits takes one row in both.
What the comments promise beyond that does not hold: a line of 5, 15 and 15 letters takes
three rows of 20 columns and is counted as two. A selection of its third row copies
nothing, or the line after it, where `run_ui.rs:824` has the lines "laid out as `render_*`
lays them"; and the newest line falls below a pane of three rows that draws it after such
a line, where `run_ui.rs:1590` has the newest lines fill the rows. TLC reaches both in the
`mouse` use of `MCLinks`, with one and with two lines, once `Agreeing` or the excess is
taken out of the properties. Simplified are the texts: a byte is a column; a line ends in
a letter, a text begins with one, and the key of a row and the names and values of signals
are one word each in what is enumerated; a rate is the number of letters it is written in;
a filter or an input has no blanks.

In two cases more the code falls short of what the panes otherwise keep; the models do as
the code does, and the properties leave these cases out:

* a selection in the Shell pane, whose rows are laid out for one line fewer than the
  selection's rectangle (`run_ui.rs:1631-1652` against `825-970`), and a drag in a pane
  of fewer than three rows (`run_ui.rs:774`);
* lines typed while a device connects, which go to the session that follows, where an
  old line may come first (`run_ui.rs:2009`, `attach.rs:1032-1033`).

A spawn of the three remshes that fails half-way (`attach.rs:791-838`) is modelled: what
it leaves behind halts the node when its input ends, although the comment at
`attach.rs:757` has inputs close only after the children were killed. `LocalIsTrue`
allows a halted node for that reason and no other.

## Runs

| Run | Shows |
|---|---|
| `control_level` | `RoutedAsDecided`, `JustifiedAfterLoop`, refinement of `Authority`, and the liveness of brake, lowered switch and silent fusion |
| `control_level_latch` (violation) | the force is not always lifted by returning the switch to the forced level |
| `gear` | no engagement on a moving vehicle, no wrong direction after a loop, parking with the contact off, servable requests served |
| `controller` | outputs off unless READY, loop by loop; silence shuts down; reset recovers |
| `controller_adoption` (violation) | a reset makes an unadopted controller READY |
| `high_voltage` | requests follow the phase; a key off opens everything; the precharge relay is dropped; three and only three causes of an inrush |
| `hv_inrush` (violation) | an inrush does happen |
| `vms_health` | a reset held for its duration restores vehicle and controllers; a controller left in error takes the others down; the vehicle's FAILURE stands until a reset |
| `vms_health_reset` (violation) | the end of the boot's reset cuts a dashboard's reset short |
| `stereo_matcher` | threads that share an image keep apart (`ThreadsDisjoint`), each pixel is done once, jobs return; a work outlives its use, and `Pool` implements `OnThreads`; rows and pixels are computed as the reference does |
| `vision_programs` | a reply is that of its own run, detections are of their frame, captured pairs, buffers and controls are true; callers and devices do not wait for ever; the phase locks; computations and records are as defined |
| `links` | the panes show, mark and copy what arrived and is drawn (`PanesAreTrue`); what one end of a link takes for true of the other (`LinksAreTrue`): sessions and lines of attach, the gateway's signals and nodes, the motor's command, the rotation; and that it becomes so once undisturbed (`LinksSettle`) |

The last three runs choose one of several small
systems at the start (`part`); the others stand still. What a property says of each is a
conjunct of it, named for the module that states it.

### Bounds, and why they are enough

* `HealthTimeout = 1`, `HeartbeatTimeout = 1`: ages are compared with a threshold
  only, so "within", "at" and "past" the timeout are all there is.
* The source map of the OVCS Mini (with the OVCS1's brake pedal, so that all
  optional sources are fitted): every pair of routes differs for some actuator,
  which is what `RoutedAsDecided` needs.
* Two possible sources in `Gear`: the one in force and another.
* Two digital outputs: one request can differ from another in part. `MaxRetries =
  1`: one error forgiven, the next one reported.
* `HighVoltage` has no constants: the three relays, the three contacts, two voltages.
* `VmsHealth`: two controllers, the one that fails and one that is told of it; one
  dashboard request at once, which overlaps with the boot's reset and with nothing. The
  delay of 3 s, the reset of 1 s and the boot period of 5 s are 6, 2 and 10 ticks: the
  reset needs two to have a middle, the others keep their proportions.
* `MCMatcher`: two threads on three chunks and four rows, in claims of two: a thread
  meets a chunk held by the other, a neighbour behind and one ahead, and a parity used
  again. Rings and takes of two rows: the ring is full and is reused. Two callers, two
  workers and three calls: a pool that grows, a caller that waits for another, a worker
  that is not of the job in one generation and of it in the next. The inputs of the
  computations are constants too, of which `MatcherAssumption` asks what the code's words
  and settings imply: here every image of two rows and two grey levels, every cost of a
  row of three pixels and four disparities, every sum of four disparities.
* `MCVision`: two segments share a Port, three runs, one reload, a version the process
  refuses, two Ports; three frames and three processes on the accelerator; two
  buffers a side and three exposures, so that a buffer is refilled; two requests and
  two controls with one sent twice; two captures that want the same device, and one try
  of patience. The lock's period, blankings and windows are small numbers in the
  proportions of the code's.
* `MCLinks`: one local node, two devices, one node of the gateway: they share nothing
  else than the user, who is there. The backoff doubles twice before its cap; three
  disruptions and two lines typed to the local node, one loss and one line among the
  devices, two values of a signal. The watchdogs of `PlannerDrive` are one tick each,
  since an age is within, at or past its timeout; two sequence numbers in the place of
  256, the fewest with which one can look like a repetition after a wrap; one crash, or
  two switches. Five uses of the panes, one per pane and kind of interaction, each with
  the keys, clicks and rows that concern it: buffers of three rows, so that one is pushed
  out while two of its key remain, and rectangles in which lines wrap and do not fit. Of
  the lines of the Log, one fits, one takes as many rows wrapped at words as its width
  would, and one takes a row more; in the Bus and CAN panes values and keys do both too.
* No counter is unbounded and no state constraint is used.

### Fairness

Each loop runs on `:timer.send_interval` (Elixir) or is the Arduino's `loop()`:
weak fairness of the loop. The monotonic clock goes on: weak fairness of the ticks.
Messages have no fairness of their own, except in `HighVoltage`: the ignition lock
broadcasts the contact on every loop and the driver's emitter repeats its frame, so
hearing the contact and receiving a request are weakly fair. `ResetRecovers` states
its own hypothesis: a reset command keeps being heard (strong fairness of `Reset`,
as the premise of the implication, since a frame may be lost any number of times).

In `VmsHealth` each hop, each timer and the clock are weakly fair: loops and repeated
frames again, and `Process.send_after`. Failures, power cycles and dashboard requests
have no fairness. `FailureSpreads` supposes that, from some point on, no controller is
powered on: one that boots again and again is READY for an instant each time.

In `stereo_matcher` every thread, caller and worker is weakly fair (a thread that can go
on is scheduled in the end, and waits are on events, not polls). In `vision_programs` it
is the servers' handlers and their deadlines (`Process.send_after`), the sensors, and
the steps of a capture; the Rust process behind a Port has none, as it may hang. In
`links` it is the supervisors' threads and tasks, the panes that take in their messages,
the collector's mail and its respawns, the fusion's timer, and quitting once it has begun;
an input that has ended is noticed by the node. Disturbances and the user have no
fairness, and are bounded in number; that is what "once undisturbed" means.

### Violations

* `ForceLiftedBySwitch`: the documentation of the control level says the force is
  lifted by the switch returning to the forced level or below. The code compares
  the requested level with the *selected* one. Forced to `:radio`, a switch that
  passes through `:manual` makes the level fall to `:manual` with the force still
  standing, and then coming to rest on `:radio` lifts nothing. The vehicle stays in
  `:manual`, which is safe, but the operator must stop longer in `:manual` to get out.
* `ReadyOnlyAdopted`: see `Controller.cpp:195-201`; a reset is obeyed in
  `ADOPTION_REQUIRED` too.
* `NoInrush`: two counterexample families, both explained at `InrushExcused`: a
  controller shut down and reset within a session closes at once what the driver
  still requests, and a voltage left over from the last session ends the precharge
  of the next.
* `ResetHeld`: the documentation of the dashboard's action (`status.ex:184-187`) says
  it holds the reset mode for its duration. The mode is one boolean, and the first stop
  ends it for all: a request made during the boot's reset is cut short by the end of it,
  and keeps sleeping. This is why `ResetRestores` counts the ticks the *mode* was held.

`Gear`'s `ContactOffParks` has `~vehicleReady` in its premise for a reason: with the
contact off but readiness still true, a held request near standstill engages again
on the loop after the one that parked (`gear.ex:199` against `gear.ex:214`).

## Proofs

`tlapm` checks every proof below for all values of the constants, from the named
assumptions of the modules and nothing else.

* `ManagersProofs`. Of the control level: `TypeOK` and `RoutedAsDecided` are inductive
  together: every message leaves the decision alone and `Loop` routes by what it has just
  decided. `JustifiedAfterLoop` is proved branch by branch from `TypeOK`. For
  `ImplementsAuthority`, each message is an `Observe` or a stutter, and the loop is taken
  apart as select_control_level has branches: forced falls map to `ForceTo`,
  `MayTakeManual` to `GiveUp`, the climbs to `Step`, the lift to `Acknowledge`, and a loop
  that keeps the level to `Arm`, `Disarm` or a stutter. The mapping needs
  `RoutedAsDecided`'s second conjunct (planner only in `:ros`). `NoHandoverWhileMoving` is
  then a theorem of the abstract specification carried to the code. Of the gear:
  `GearTypeOK` first, which no run repeats; `EngagedOnlyNearStandstill` is an action
  property and `LoopEndsSafe` a state invariant of what the next loop would select, both
  proved by the cases of `NextGear`. `UncommandedThrottleIsReleased` is the invariant the
  liveness property `RequestServed` rests on.
* `ControllerProofs`. `OffUnlessReady` is inductive with `TypeOK`: every way out of
  READY is a `Shutdown` or an adoption, and outside READY only board resets touch an
  output, downwards. `GuardedLoop` follows, case by case on `Watch`.
* `HighVoltageProofs`. `RequestsAsDecided` speaks of the idle process only and is not
  inductive. `Outstanding` is: what is requested now, once the calls left over are
  made, is what the phase calls for. Each branch of the toggle establishes it, each
  call preserves it, and with no call left it is the property. The types need
  `BoardQuiet`: the variables of `Controller` this composition never moves stay put.
  `InrushExcused` follows a session without an excuse (`Protected`): its controller was
  never shut down, so the relays are those requested now or earlier in the session, and
  from the end of the precharge to the first relay taken back the link is fed and charged;
  `CallsOfPhase` says which calls a phase may still have to make.
* `VmsHealthProofs`. `ResetRestores` is not inductive: a controller READY in an OK
  vehicle falls if an old FAILURE is still on the wire, and the vehicle falls if an old
  report is still on the bus. `Recovered` asks for every hop to be clean (`Clean`), for
  as long as the reset's effect lasts: the tick that completes a reset is a settled
  one with the latch held open, hence clean, and every later step keeps it clean or
  resets `calm`.
* `MatcherProofs`. Of the pool: `WorkOutlivesItsUse` is not inductive: that no worker runs
  the work of a call that is over rests on `pending` being the number of workers that
  still owe their part (`Counted`, with `Cardinality`), on a worker that runs being one of
  them (`Running`), and on one holder of the job mutex. `PoolKeepsPromise`, the refinement
  of `OnThreads`, follows from the same invariant, step by step: publishing starts a call,
  the caller's own work and a worker's report run a part, the end of the wait returns. Of
  the jobs, for any number of threads, chunks and rows, and any ring: a chunk is one
  thread's from its claim to its release (`Claims`), the progress of neighbours differs by
  one at most (`Close`), and the two parities hold the states of the last two rows
  (`StatesKept`); no row is taken more than the ring ahead of the last chunk (`Window`),
  so a slot is filled again only after every chunk has passed it (`RingInTurn`, `Filled`);
  a row is in one thread's hand or written, once (`OneHand`, `WrittenOnce`), and what the
  median reads is done (`Phased`). So `ThreadsDisjoint` and `EveryPixelOnce` hold of every
  job. Of the computations, `ComputesReference`: for any image, window, penalties, sums,
  threads and 4 to 128 disparities. The heart is the recurrence of a path, whose bytes are
  shown to hold the least energy of a choice of disparities along the pixels so far, less
  the least energy up to the pixel before (`StateOf`): the best choice that ends at a
  disparity goes on from a best one before it (`LeastStep`), the two penalties make the
  disparity, its neighbours and the lowest of all enough (`NextCostIs`), and nothing
  wraps, since P2 and a cost fit in seven bits. By rows it gives the paths from both
  borders (`RowIs`); of a swept image, each row goes on from the one before along rays
  (`NextRowIs`), so that the eight paths are the reference's eight directions. The rest is
  arithmetic on fractions: the winner and its refinement (`SelectedIs`), the match kept of
  a right pixel, which the code finds in one pass and the reference by search (`KeptIs`).
* `VisionProofs`. Each part has an invariant of its own, over queues. Of the detector:
  between requests the streams of a live process are empty, since one that leaves a frame
  there exits (`DetectorInv`). Of the pairs: a buffer is in one place (`OnePlace`), so what
  is converted is what was taken (`StillThere`), and frames of a side pass in the order
  they were taken (`InOrder`), so none is in two pairs. Of libcamera: a request is in one
  place (`OneOwner`), so its frame is not overwritten while it is held (`HoldsFrame`);
  what a control comes to is the last value sent, wherever it waits (`LastControlIs`). Of
  the matcher's Port: replies carry no name, so the proof lays end to end the replies under
  way and the requests not computed yet, and shows that they are those the server waits
  for, in order (`RepliesMatch`, `WorkMatches`), messages of earlier Ports before them; a
  run comes after the configuration it was sent with (`RunsConfigured`), and what the
  server thinks configured is the last the Port is asked for, or a refusal is under way
  (`ServerKnows`). `AnswersOwnRun` is what is left when everything has been answered.
* `LinksProofs`. `LinksAreTrue`, from `LinksAssumption`. A behaviour moves one of the
  links, so each has an invariant of its own and `LinksIInv` is their conjunction.
  *Local attach*, for any nodes, backoff, disruptions and lines: the channel of a session
  holds its own lines alone (`Fresh`), open remshes are a session's (`Attended`), and a
  node is halted by the leavings of a failed spawn alone (`Orphans`).
  *The gateway*, for any nodes, values, mailbox and staleness: the collector's signal is
  what the last batch of its mail will make of it, so that batch must be what was sent
  last (`CarriesNewest`); a process the mail still tells of is an earlier one, or the
  connection is back (`KnowsForwarder`), which needs identifiers that nobody holds
  (`NewPid`); and what was published each second is in the cache, on its way, or noted
  for the next refresh (`AgesRightly`).
  *The drive*, for any timeouts, grace and numbering of the sequence: a velocity is no
  older than the clocks of the loops it passed make it (`Sampled`, `Followed`,
  `PassedOn`), so it ages by one timeout after the other; a bridge that is down has been
  so no longer than its frame has been followed (`Orphaned`).
  *The rotation*, for any sensors, noise, readings, tolerance and hold: it is as old as
  the reading of the first sensor that lives (`OfTheActive`), and a gap is timed from
  when the sources came apart (`TimedApart`).

* `PanesProofs`. `PanesAreTrue`, from `PanesAssumption`: caps are not zero, a character
  takes a byte at least, the keys that end or edit a text type none, each pane has a row
  and a column within its borders (a narrower terminal shows nothing of it), columns have
  caps, texts are words and the signals of a frame different names. Most of what it claims
  holds of every state of the right types (`Screen`), by arithmetic on sums: the row on
  which a line starts is the sum of what the lines before it take, and the sums of the
  rows drawn and of those counted run alike as far as the two agree (`SumsRunAlike`), so
  that so far what a selection copies is what it highlights (`RowsAre`,
  `LinesAreHighlighted`). The pane starts where the estimates fill it (`VisibleStartIs`),
  so what is cut of the newest line is the excess of the rows drawn (`NewestIsDrawn`).
  Wrapping is shown word by word to leave a line that fits on one row and to take a row at
  least (`WithWordIs`, `WrappedIs`). Of the
  history, `PanesIInv` keeps two things. `Arrived`: a row marks what differs from the last
  one of its key before it, and the last one kept of a key is its latest (`Marked`,
  `LastOf`); a push that drops the oldest keeps both (`FeedGrows`). `Typing`: the cursor
  stands at the sum of the bytes of some of the first characters, whatever is inserted or
  removed there (`InsertKeeps`, `RemoveKeeps`) or recalled. The sums and the filtered rows
  are recursive functions, like the paths and the energies of the matcher. The induction
  theorems of the library take an operator and cannot be used, so that an induction in
  these two modules is one over a *set*, that of the numbers for which the claim holds:
  were there another number, there would be a least one (`LeastExists`, from the
  well-foundedness of `<`), which is not 0 and whose predecessor is in the set (`UpTo`).
  That the functions exist is shown in the same way (`RecursionExists`).

`SweepIsDisjoint`, `SweepIsComplete` and `LocalAttachIsTrue` are the parts of
`ThreadsDisjoint`, `EveryPixelOnce` and `LinksAreTrue` that concern one system alone.

Every safety property of the passing runs is thus proved but one, which stays with TLC:
`ComputesAsDefined` compares the stages between the frames and the matcher, the records of
the protocols and the captured data with their definitions, on the inputs `VisionCases`
enumerates. These take sequences of bytes, rows and boxes apart and put them together
again with the folds of the community modules, of which no library theorem says anything
that does not take an operator; each fold would need an induction over a set as above. All
liveness does too: it needs fairness and ENABLED, out of the prover's reach (`BrakeWins`,
`SwitchDownUnlatches`, `SilentFusionEndsRos`, `ContactOffParks`, `RequestServed`,
`SilenceShutsDown`, `ResetRecovers`, `KeyOffOpens`, `PrechargeDropped`, `FailureSpreads`,
`FailureStands`, `JobsReturn`, `RequestsEnd`, `PhaseLocks`, `LinksSettle`).

## Not modelled, and what comes next

Parts of components that are modelled otherwise, in the order in which they would come:

1. `Driving`: `ControlLevel` and `Gear` composed with `PlannerDrive`, where the control
   level and the gear are free inputs now.
2. Readiness: the ignition latch and `compute_ready_to_drive`, between `HighVoltage`,
   `VmsHealth` and `Gear`.
3. Restarts of single processes by their `one_for_one` supervisor: the contactors'
   process comes back `:off` while the driver still requests its relays; the vehicle's
   comes back OK and booting, so that a FAILURE no longer stands.
4. The 32-bit `millis()` wrap of the firmware.
5. The motion of the vehicle and the pulse sensor, from which the fusion's readings come.

Theorems to come: `KeyOffOpens`'s safety half (relays open once requests are open and
obeyed), and the safety half of the other liveness properties where it is an invariant of
its own.

Left out for good: decoding and scaling of frames in the remaining drivers; the APIs,
dashboards and infotainment, which do not control the vehicle, and the gateway's adapters,
which pass on what the cache holds; firmware images, systems and deployment; the rest of
the command line, which runs other programs; the SSH handshake, HailoRT, libcamera and
the kernel, which appear as what the code here sees of them; f32 rounding and SIMD.
