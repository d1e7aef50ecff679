# A TLA+ model of kuka_iiqka_ros

The repository drives a KUKA iiQKA robot from ROS: small Cartesian corrections go
out over RSI in every robot cycle, a management channel (EKI) starts and stops the
program on the robot controller (KRC), a force/torque sensor (SRI) feeds a
compliance controller, and a manager decides when the robot may serve or calibrate
its payload. This directory models the parts that carry that logic, checks them
with TLC on small instances and proves with TLAPS, for every value of the
constants, each safety property that the runs check. Paths below are relative to
`ros_ws/src/` of the repository; "the design document" is
`docs/superpowers/specs/2026-07-02-kuka-rsi-ros-control-design.md`.

## 1. Inventory

| component | state | operations | talks to |
|---|---|---|---|
| `SystemStateCore` (`soft_force_control_manager`) | the system state, two request flags | `update`, `requestStart/Stop/Calibration/Reset`, `calibrationFinished` | called by the manager under its mutex |
| `CalibrationSequencer` (same package) | phase, pose index, sample count, pending goal, fit | `start`, `tick`, `onMotionResult`, `onWrench`, `cancel`, `onStreamLost` | manager's worker, motion client, wrench topic |
| `ManagerRuntime` and `manager_node` | last feeds with their ages, mode, active controller, both cores above | worker loop; `startServo`, `stopServo`, `resetFault`, `zeroSensor`, `beginCalibration`; feeds; calibration action server | EKI bridge and RSI node by services and topics, `controller_manager`, motion action server |
| EKI bridge (`kuka_eki_bridge`) | link, request slot, one command in flight, view of the KRC and its age | `execute`, `connectNow`, io thread | KRL program over TCP, manager over ROS |
| KRL program (`kuka/krl/ROS_RSI_SERVO.SRC`) | RSI active, fault latch | one command per cycle, heartbeat, blocking correction motion | EKI bridge, RSI |
| RSI hardware interface (`kuka_rsi_hw_interface`) | session monitor, command buffer, clear flag | `read`, `write`, reset service, control loop | KRC over UDP, hosts the controllers |
| Correction controller, mode gate, motion core (`soft_robot_controllers`, `soft_force_control_core`) | gate, goal buffer, motion status and its published copies | `update`, `starting`, `stopping`, action server, topic callbacks | command buffer of the RSI node, mode topic |
| Compliance controller and core, with the force control classes it is made of | gate, latest-value buffers, profile, filter, bias, ramp, deadband, rate limiter, re-tare | `update`, `starting`, `stopping`, topic callbacks; `configure`, `activate`, `update` of the core | the same, wrench topic |
| Sensor driver (`sri_force_torque_driver`) | connection, frame assembler, zero capture, bias, filter | receiving thread, `requestZero`, `setFilterCutoff` | sensor over TCP, manager over a service |
| Payload estimator, frame rotations, RSI and EKI texts, other transports | numbers, buffers | pure or I/O | their hosts |
| Mock servers, MuJoCo simulation, web interface, bringup, messages | - | test doubles, front end, launch files | - |

What is hard: requests take effect only at the next tick of the worker; every
side effect of the manager runs outside its mutex, so that the state may have
changed by the time it returns; three clocks (feeds, ticks, service
calls) race; a fault cuts across whatever runs; the link to the KRC is silent
exactly while the robot moves; commands and answers can be lost, late or left
in a FIFO by a broken connection; the real-time loop shares latest-value buffers
and separate atomics with two other threads. The hazards of `PROJECT.json`
list each of these at its line, with the property that watches it.

What makes a component correct, in a line each: the state machine latches
faults and reports SERVOING only on sound health; the sequencer averages only
at reached poses and always ends; the manager never drives a controller it has
forgotten and lets calibration and servo overlap in no case but those of section 6;
the bridge reports the
controller's verdict about the very command and nothing of a lost connection;
the RSI node sends only what the engaged controller wrote; the action server
reports only its own goal's result; a zero request reports its own capture; the
compliance controller moves the robot only after a measured ramp, by a deadband
of its own session, and rests when it says so.

## 2. Modules

| module | models | checked by |
|---|---|---|
| `SystemStateCore` | every method of the class over every health snapshot `healthLocked` can build | through the two below |
| `SupervisedCore` | the core with its callers: worker and operator | run `SupervisedCore`, proofs |
| `ServoContract` | abstract: what the operator is promised | refined by `SupervisedCore` and `Manager` |
| `CalibrationSequencer` | every method of the sequencer | through `CalibrationRun`, `Manager` |
| `CalibrationRun` | the sequencer with the motion client's goal tracking | runs, proofs |
| `CalibrationPlan` | abstract: pose after pose, averaged once, then done or failed | refined by `CalibrationRun` |
| `Manager` | `ManagerRuntime` and the node; composes `SystemStateCore` and `CalibrationSequencer` by INSTANCE | runs through `MCManager`, proofs |
| `KrcProgram` | the KRL program seen from the EKI channel, and the TCP connection | through `EkiBridge` |
| `EkiBridge` | `EkiBridgeRuntime`, `EkiSessionCore` and the services; composed with `KrcProgram` | runs, proofs |
| `RsiLink` | `KukaRsiRobotHW` and `RsiSessionMonitor` | through `RsiNode` |
| `ModeGate` | `ControllerModeGate` with its `ModeManagerCore`, as an operator on mode and profile | through `RsiNode`, `ForceCompliance` |
| `RsiNode` | control loop, spinner and action server of the RSI process, with the two controllers and their gates | runs through `MCRsiNode`, proofs |
| `ForceCompliance` | `ForceComplianceController` and `ForceComplianceCore` with filter, deadband ramp, re-tare, law and limiter | runs through `MCForceCompliance`, proofs |
| `SriFrame` | `SriFrameAssembler` byte by byte, and the frames that feed it | through `SriDriver` |
| `SriDriver` | `SriDriverRuntime`, `SriStreamSession`, the node's services, the connection and the sensor | run through `MCSriDriver`, proofs |
| `SupervisedCoreProofs`, `CalibrationRunProofs`, `ManagerProofs`, `EkiBridgeProofs`, `RsiNodeProofs`, `ForceComplianceProofs`, `SriDriverProofs` | theorems about the module of that name | TLAPS |

How state and actions correspond to the code:

- *State machine.* A health snapshot is the set of the fields of
  `HealthInputs` that are true. `Update(in)` is the cascade of `update()`;
  each `Request...` is enabled with either verdict.
- *Manager.* A section under `mutex_` is one action. The worker's `Tick` leaves
  a list of side effects (`worker.todo`) that are worked off one at a time; a
  command is a program counter `cmd.at` that walks through the method's
  sections. `switchFiltered` is two steps, the query and the request, because
  they are two service calls. Ages are flags that fall at any moment. A command
  returns before a tick takes its request up; the code accepts another one in this
  gap. `Hasty` names the commands for which the operator uses it; for the others
  he waits until a tick that began after the last return has published. Two
  history variables tell the cases apart that the properties except by name:
  `rushed`, the command in progress was issued in that gap; `entangled`, a reset or
  a calibration was accepted before the run before it was torn down.
- *EKI bridge.* `io` is the place of the io thread between two sections.
  `execute()` and `connectNow()` share the node's one service thread (`call`).
  A broken connection keeps any prefix of what is on its way, in both
  directions; the FIFO of the channel survives it.
- *RSI node.* One action per call in the loop of the node (`read`, `update`,
  the switch inside the `controller_manager`'s update, `write`). `stopping()`
  of the correction controller and the end of its `update()` are split where
  another thread can see the difference: between the taking and the posting of
  a number, and between the stores of status and number. A mode request's
  number only tells whether it has been applied, so that `mode_new` holds the
  controllers that have not.
- *Compliance controller.* `update()` is one of four actions by the return it
  takes: disengaged or faulted, stale wrench, ramp, law. Each first applies the
  mode request, and configures and activates the core when that enters the mode
  (`CoreBefore`). A mode request, a fault flag and a start or stop come at any
  time between two cycles; the wrench of a cycle is any force. `RsiNode` keeps its
  own, coarser view of this controller: who wrote the correction, and for which
  profile the core is configured.
- *Sensor driver.* `io` is the place of the receiving thread; a section under
  `mutex_` is one action, a buffer is fed byte by byte. `request` is the place of
  `requestZero()`, whose deadline is a choice, and whose last look after the
  deadline is a section of its own. A connection breaks anywhere and leaves any
  prefix of what had been sent.

## 3. Runs

| run | what it shows | bounds |
|---|---|---|
| `SupervisedCore` | FAULT latches until a reset; SERVOING and masked faults agree with the snapshot under any caller; a disciplined operator gets the servo contract | none: every snapshot, any order of calls |
| `CalibrationRun` | type, samples at reached poses, fit before return, refinement of the plan, every run ends | the eight poses of the shipped configuration, three samples each (last pose, last sample and MinPoses are all crossed) |
| `ManagerServo` | servo drives exactly its controller and none is forgotten, whatever fails; a tare meets a request only in the gap before its tick; a run meets a servo session only when it is entangled; no supervised calibration is orphaned; servo contract | one pose and one sample; COMPLIANCE; a switch, a query and each service may fail; two EKI and two RSI messages, a silent RSI topic; tares and resets at any moment (`Hasty`), under a run and its teardown too |
| `ManagerCalibration` | the payload is handed to `applyPayload` exactly when the goal is reported as a success; every run gets a result, is torn down, and every command returns (`NothingHangs`) | two poses, one sample, both needed for a fit; cancellation, EKI faults, stream loss, a failing switch, query and `applyPayload`; servo sessions in DIRECT between the runs |
| `EkiBridge` | verdicts belong to their commands, a refusal is final, a lost link leaves nothing, a fresh view is current, the link recovers | two commands, two frames on their way, three actions (one refused under a fault, one that clears it, one without effect on the channel), `auto_reconnect` on and off |
| `RsiGoals` | a reported convergence is the goal's own; a waiting goal is answered without the deadline | correction controller only; at most two numbered requests when a new goal or stop begins (cancels come on top); one miss latches |
| `RsiHandover` | what is sent comes from the engaged controller that runs; the compliance core has its gate's profile | both controllers, mode messages with both profiles of COMPLIANCE, two misses latch, one numbered request |
| `SriDriver` | a capture holds samples of one connection after its request; its verdict is its own; an intact frame is decoded unless other data has been taken for a header; the filter mixes neither two biases nor two connections; the stream comes back | captures of two samples, payloads of three bytes (no sync byte, one at the end, a whole sync at the end), damage in the sync, in the length and in the sum, one frame on its way |
| `ForceCompliance` | motion in DRAG only after a whole measured window of this session; the deadband is this session's; the rate limiter rests when the robot does; bias and output keep their ranges | forces 0 to 4 around deadband, margin and ceiling, two cycles of ramp, a rate limit that takes two cycles; IDLE, COMPLIANCE with both profiles and DIRECT requests |
| `CalibrationRunStale` | violation, see section 6 | |
| `ManagerFaultedServo` | violation, see section 6 | |
| `ComplianceResume` | violation, see section 6 | |

`ManagerServo` reaches both cases that its properties except. A tare is accepted
right after `start_servo` has returned, and the sensor is zeroed under a standing
request. An EKI fault comes between the request of a calibration and the start of
its sequencer; `reset_fault` and `start_servo` follow, and SERVOING is reported over
an active sequencer. Under such a run the worker's teardown and the commands of the
next session interleave. One servo mode per run keeps the runs small;
`ManagerCalibration` has the other, and the theorems hold for both together.

The bounds are the smallest at which the hazards occur: two commands for an
abandoned command and its heir, two poses for a last pose that is not the first,
two requests for a goal and a stop that race, two misses for a miss that does not
latch, two samples and two ramp cycles for an interruption in the middle. Each
property has a mutant, defined next to what it mutates ("Mutant: ..."), that
breaks it: a dropped guard, a swapped order, a missing reset.

Every run checks deadlock: no reachable state of any component is one in which
all threads wait for one another.

## 4. Fairness

- `CalibrationRun`: the worker ticks for ever; the motion server answers every
  goal, since its controller times a motion out; wrenches arrive while the
  sensor streams, and a silent sensor is reported by `StreamLost`.
- `Manager`: worker, command and action server are threads whose calls are
  bounded by service timeouts (weak fairness). The tick that finds the settle
  time over and the wrench that finds the sequencer sampling are enabled again
  and again rather than continuously (strong fairness).
- `EkiBridge`: the io thread never stops (weak); the controller accepts a
  connection that is tried again and again (strong) - without it no bridge could
  recover. Nothing is assumed of the operator or of the KRL program.
- `RsiNode`: the control loop and the poll of the action server run (weak); a
  motion that is updated for ever times out (strong, from `elapsed_ >
  timeout_s`). Clients need not cancel, and the deadline of the action server is
  not relied upon.
- `SriDriver`: the receiving thread never stops, and the sensor serves the start
  command it has received (both weak). `StreamRestarts` speaks of behaviours in
  which the connection breaks only finitely often.

## 5. Proofs

Every safety invariant and every action property of the passing runs is stated by
a theorem, for every value of the constants that the module's assumption admits.
The assumptions are the ranges of the constants; what a theorem needs beyond them
is its hypothesis, in the theorem itself. Proofs are invariance proofs: an
inductive invariant, checked with TLC before it was proved, one lemma per handler
that disturbs it, and the property as its consequence.

`SupervisedCoreProofs`, for any sequence of calls and snapshots:

- `TypeCorrect`, the type invariant.
- `FaultLatchesAlways`: only `requestReset()` leaves FAULT, to OFFLINE. From the
  type invariant, one case per branch of `update()` and per request.
- `SnapshotHolds` and `MaskedFaultAlwaysResidue`: SERVOING and the masking of
  faults agree with the last snapshot. The lemma `UpdateAgreesWithSnapshot` shows
  that an update establishes it whatever came before; requests other than a reset
  do not touch the state, and a reset leads to OFFLINE, of which nothing is said.
- `FaultAlwaysDemandsRestart` and `ImplementsContract` rest on `DisciplineInv`:
  with a disciplined operator at most one request stands, the state that goes
  with a request is one that its update can have set, and under FAULT none
  stands. `FaultDemandsRestart` alone is not inductive: two requests accepted
  between two updates would leave one behind when a calibration loses its link.
  `ImplementsContract` maps the flags to the contract's duty, step by step.

`CalibrationRunProofs`, for every number of poses and samples that satisfies the
module's assumptions:

- `RunTypeCorrect`, `NoGoalEverWaits`, `FitAlwaysBeforeReturn` from `RunInv`,
  which adds to the types how index, sample count, pending goal and fit go with
  each phase. One lemma per handler.
- `SamplesAlwaysAtGoal` and `ImplementsPlan` under `StaleResults = FALSE`: every
  result belongs to the run in progress. `OwnInv` adds that the goal tracked by
  the client is the one last emitted. Without the assumption the claim is
  false, which `CalibrationRunStale` shows.

`ForceComplianceProofs`, for every range of forces, every deadband, margin,
ceiling, limit and length of the ramp:

- `ComplianceTypeCorrect`, `LawAlwaysRestsWithOutput`, `RampAlwaysBeforeMotion`
  and `DeadbandAlwaysOwn` from `ComplianceInv`. `DeadbandIsOwn` speaks of an
  engaged gate and a whole window only; `CoreGoesWith` adds what holds before: the
  ramp's cycles and the measured ones make up the window, the peak is the largest
  measured force, and a ramping core has its rate limiter at rest. One lemma per
  operator of the core (`RampedGoes`, `RetaredGoes`, `VelocityBounds`) and one
  per action. That the absorbed bias stays within the measured forces needs that
  the compensated force is a filtered force minus the bias.

`SriDriverProofs`, for every stream, every payload and every length of a
capture:

- `VerdictAlwaysOwn` and `CaptureAlwaysOfOneConnection` from `ZeroInv`: a capture
  in progress has a request that waits for it and no fate yet, and while a
  request waits on a finished capture, `last_zero_ok_` says whether that capture
  replaced the bias. What the assembler makes of the bytes does not matter.
- `FilterNeverSmeared`, inductive as it stands: the bias is replaced within the
  section that resets the filter, and a new connection resets the session before
  it receives.
- `IntactFrameAlwaysDecoded` from `StreamInv`. `PipeInv`: what is on its way are
  consecutive bytes of one frame. `OrderInv`: the session is reset before the
  first byte of a frame arrives. `SyncInv`: unless misled, the assembler has
  followed every byte of an intact frame so far; in a damaged one it is at the
  same place or back at the hunt for a sync. It holds for every payload, a whole
  sync pattern inside one included; that is why `SriFrame` assumes of payloads no
  more than their length.
- `SriTypesHold`, from the two before.

`ManagerProofs`, for every stream of feeds, order of commands, failure of a side
effect and calibration. The invariants build on one another:

| invariant | says | gives |
|---|---|---|
| `StructInv` | types; the step at which a command stands is one of its method's; the worker's side effects come in one order, and a teardown that has begun is still whole from its next step on | `ManagerTypesHold` |
| `OrphanInv`, `BegunInv` | an active sequencer is torn down later; a supervised calibration has a command, a run or a last side effect that ends it | `NoCalibrationOrphaned` |
| `FlagInv` | which requests can stand in which state and under which command, for a patient operator | `ManagerKeepsContract` |
| `TareInv` | in a state that allows a tare, a request stands only until the next tick, so that a tare that is not rushed meets none | `TareMeetsOnlyFresh` |
| `RestInv`, `SoleInv` | while nothing is entangled, a run or its teardown is supervised or the state is FAULT, and no calibration begins under it; SERVOING excludes supervision | `ServesOverEntangledOnly` |
| `ClearInv` | no start, stop or begin of a calibration by a patient operator is under way during a run or its teardown | the next two |
| `DriveInv` | what a command aims at and has reached at each of its steps; controllers are switched under IDLE only | `ServoAlwaysDriven`, `ControllerAlwaysKnown` |
| `PayloadInv` | the payload has been or will be handed over exactly if the verdict that the action server has read, or will read, is a success | `PayloadAlwaysMatches` |
| `LoadInv`, `RunInv` | both controllers stay loaded but for the reload of the teardown; the correction controller and no other runs until the teardown's switch | `PayloadTaken` |

None of the properties is inductive as it stands. `PayloadMatchesVerdict`, for one,
speaks of the moment when all is over, while the verdict is read by the action
server from the sequencer and the payload is applied by the worker some side
effects later: the invariant must say what the server will read while it still
polls. From `RestInv` on the invariants hold while nothing is entangled; the step
that ends an entanglement is a calibration that begins from rest.

The hypotheses, and why they are not weaker:

- None for types, `NoCalibrationOrphaned`, `TareMeetsOnlyFresh`,
  `ServesOverEntangledOnly` and `PayloadAlwaysMatches`: they hold for an operator
  who is hasty in every command, and for every set of failing calls.
- `Patient` for the contract and the controllers: the operator waits for a tick
  before a start, a stop or a calibration, and not before a tare or a reset. The
  code enforces neither. Two requests between two ticks break `FlagInv`
  (section 6).
- That and `"apply" \notin Failing` for `PayloadTaken` only, which says that
  `applyPayload` fails by a call of its own and by nothing that the manager did
  before: the worker ignores its verdict (section 6), so that `PayloadAlwaysMatches`
  promises that the payload was handed over and not that it has been taken.

The exceptions are part of the properties, not hypotheses: `rushed` and `entangled`
(section 2), and `SamplesPerPose = 0` in `NoForgottenController`: a sequencer that
refuses to start leaves its controller running (section 6). No run has this value;
the theorem covers it.

`DrivesStateMachine`, without hypotheses: every behaviour of the manager is one of
`SystemStateCore`, with snapshots of the form that module assumes. It is what makes
the caller of `SupervisedCore`, any order of calls over any such snapshot, an
abstraction of the manager.

`EkiBridgeProofs`, for any number of commands, of frames on their way and any
actions:

- `EkiTypesHold`, and `OfflineAlwaysQuiet` with it: the types include which places
  of the io thread go with a link that is down.
- `FreshViewAlwaysCurrent` from `ViewInv`: while the program corrects it sends
  nothing, so that the last frame on its way, or the view if there is none, tells
  of the correction.
- `RefusedNeverSent` from `DeliveryInv`: numbers are given out in order, a number
  is sent by one step only, and a caller waits for no number that has been answered.
- `VerdictAlwaysControllers` from `VerdictInv` over it: a caller that waits behind
  another's command is an heir (section 6), and every frame on its way that
  acknowledges something carries what the program has decided.

`RsiNodeProofs`, for any number of goals and misses:

- `NodeTypesHold`.
- `CorrectionAlwaysOwned` from `OwnerInv`, which speaks of every step of the loop
  and not only of `write()`: without a connection a command outlives the cycle
  in which it was written, and the switch must clear it.
- `CoreAlwaysMatchesProfile`, inductive with the types.
- `ConvergedAlwaysOwn` from `GoalInv`. Two threads number a request before they post
  it, so that the buffer may go back to an older number; the invariant says that
  no request older than the server's goal is applied once one as late as the goal
  has been, that a motion which converged is the one applied last, and that no
  goal is later than the current one.

Only model-checked, since TLAPS does not reach liveness here: `RunEnds`,
`NothingHangs`, `LinkRecovers`, `GoalAnswered` and `StreamRestarts`; and the three
runs that end in a counterexample.

## 6. Where the code and its documents disagree

Each of the first three has a run whose counterexample shows it.

1. `CalibrationRunStale`: `onMotionResult()` takes any result during MOVING
   for the arrival. A result of the aborted run that comes after the next
   `start()` and before its first goal is sent begins sampling at the wrong
   pose (design document, line 717).
2. `ManagerFaultedServo`: SERVOING, fault, reset lead to READY with the
   controller of the session still running in its mode (line 778: output is
   zero).
3. `ComplianceResume`: a fault in mid-motion zeroes the output and returns before
   the core (`force_compliance_controller.cpp`, lines 264-269), whose rate limiter
   keeps the velocity. When the fault clears with the mode still engaged, the
   robot moves on from that velocity without a force. The core's own early
   returns do reset it: "never resume with stale rate-limiter state"
   (`force_compliance_core.cpp`, line 50; also lines 585-586 of the design
   document).

Seen while modelling, without a run of their own:

- Calibration must not run while SERVOING (design document, line 732). A fault ends
  the supervision of a calibration, not its sequencer (`system_state_core.cpp`,
  line 36): after `reset_fault` and `start_servo` the robot serves while the
  sequencer emits goals, and the teardown of that run stops the controller of the
  session. `ManagerServo` reaches this, and `CalibrationMeetsServoEntangled` says
  that there is no other way: a reset, or a hasty calibration, that overtakes a
  teardown.
- `zero_sensor` is accepted between the return of `start_servo` and the next tick,
  READY still being reported (`system_state_core.cpp`, line 76), and zeroes the
  sensor under a standing servo request. `ManagerServo` reaches this too, and
  `ZeroMeetsOnlyFreshRequests` says that there is no other way.
- `connectNow()` on a live link leaves its request set; after the next loss the
  bridge retries in the background although `auto_reconnect` is off
  (`eki_bridge_runtime.cpp`, lines 51-56: "single-shot").
- A reconnect between the end of a capture and the next poll of `requestZero()`
  takes the verdict back: the request fails although the bias was replaced
  (`sri_driver_runtime.h`, lines 49-50: false means "old bias kept" or a
  rejection). `VerdictIsOwn` excepts it with the fate "unheard".
- "A corrupted frame costs at most one frame" (`sri_frame.h`, line 31) does not
  hold when the data ends in a sync pattern: the assembler takes the header of
  the next frame for its length. `IntactFrameDecoded` excepts what follows a
  false header.
- A wrench timeout resets the rate limiter but not the low-pass filter, which
  goes on from a force of before the gap (`force_compliance_core.cpp`, lines
  48-52).
- An IDLE and a COMPLIANCE request within one cycle leave only the latter in the
  buffer; the mode is the same, so that a new profile in it is not applied
  (`controller_mode_gate.cpp`, lines 34-42).
- What a re-tare absorbed is forgotten at the next entry of the mode, which loads
  the payload anew (`force_compliance_core.cpp`, line 12).
- A `zero_sample_count` of 0 makes every zero request fail.
- A command that `execute()` abandoned while in flight resolves the request that
  waits behind it (`eki_bridge_runtime.cpp`, lines 69-98 and 189). It takes a
  request that waited more than a second for its connection.
  `VerdictIsControllers` excepts exactly these heirs.
- The worker ignores the failure of `applyPayload`: the goal is reported as a success,
  and when `load_controller` fails after `unload_controller` the manager reports
  READY without the controller (`manager_runtime.cpp`, line 183; `manager_node.cpp`,
  line 247).
- A goal cancelled before the first tick is reported before its teardown
  (`manager_node.cpp`, lines 374-375), so that a hasty start or calibration
  can overtake it.
- A sequencer that refuses to start leaves CALIBRATION published and the
  controller running (`manager_runtime.cpp`, lines 360-363);
  `NoForgottenController` excepts it.
- Two requests between two ticks, a start and a calibration, leave the servo
  request standing under FAULT (`system_state_core.cpp`, lines 35 and 47). This is
  why start, stop and calibrate are not among the `Hasty` commands of `ManagerServo`,
  whose properties include the servo contract.
- A cycle without a frame still sends a correction with the last IPOC
  (`kuka_rsi_robot_hw.cpp`, lines 67-71 and 93-105; the design document, line
  474, asks for zero output).
- `engaged_flag_` stays raised after `stopping()`: a goal accepted or posted
  after the stop waits in the buffer and runs after a restart
  (`cartesian_correction_controller.cpp`, line 228: "a goal must not survive a
  controller stop"). For the same reason the cancel of a stop may be posted
  before a goal with an older number.

## 7. Abstractions

Time is a flag or a choice: ages fall, timeouts fire and intervals elapse at any
moment the code admits. Numbers (poses, wrenches, corrections, errors) are
reduced to the decisions taken on them: a solvable fit or not, a correction or
none and who wrote it. In `RsiNode` the delay of the fault topic is taken as a
longer publishing period, stream commands are part of the choice of output, and
the goals that are refused for their content are left out. In `KrcProgram` the
fault latch rises as the mock server's does, since the template leaves that to
the site's own code; the setup calls of RSI succeed. External behaviour, taken
from how the code uses it: the STRICT switch of the `controller_manager`, with
one owner of the correction resource; a TCP connection that loses what is on
its way.

`ForceCompliance` has one axis, in whole units; gain, speed scale and cycle time
are 1, gravity is taken as compensated, so that the force measured is what is
left of it, and the orientation of the TCP counts by its distance from the
reference (at it, near it, beyond the re-arm distance, which the factor of at
least 1 puts outside the tolerance). The low-pass is any value between its state
and the sample. Adaptive deadband and re-tare belong to DRAG, the defaults of
`loadProfile`. The tool frame, the published mode state and the orientation
motion, which this controller never starts, are left out. In `SriDriver`, bias
and connection are told from their successors by one bit; package numbers, gaps,
counters and time stamps are left out; the sum is a byte that fits an intact
frame and may fit any other by chance. The end of the processes is left out
everywhere.

Not modelled: frame rotations, gravity terms and the payload fit (floating
point), the command limiter, RSI and EKI texts and their sockets, parameter
loading, diagnostics, the RSI mock, the simulation, the web interface.

## 8. Plan

Done: state machine, sequencer, manager, EKI bridge with the KRL program, RSI
node with its controllers, sensor driver and compliance controller, each with its
proofs.

Next, most important first:

1. `ManagerLink`: the manager's view of the bridge composed with `KrcProgram`;
   the tool synchronisation across short reconnects (`tool_synced_`), restarts of
   the bridge with a surviving FIFO, a START_RSI executed after its timeout.
2. The stream command and its age in `RsiNode`; runs for the goal that survives a
   stop and for the stale IPOC, in the place of runs that a composition makes
   redundant.
3. The age of the wrench as a number of cycles, which ties `SriDriver` to
   `ForceCompliance`.

Theorems planned: that `Manager` composes the sequencer the way `CalibrationRun`
does, which would carry `ImplementsPlan` over to it; the contract with an operator
who is hasty in every command, promised up to the first request that met another
(a history variable as `rushed` is for tares); for `ManagerLink`, that the manager's
side of it implements `Manager`'s feeds.
