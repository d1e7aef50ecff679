------------------------------ MODULE Manager ------------------------------
(***************************************************************************)
(* soft_force_control_manager: ManagerRuntime and the node that hosts it.  *)
(*                                                                         *)
(* Threads: the worker (run(): health, state machine, tool sync, sequencer *)
(* and the teardown of a calibration), one command at a time (the command  *)
(* methods hold command_mutex_ from begin to end), the execution thread of *)
(* the calibration action server, and the topic callbacks of the spinner.  *)
(* A section under mutex_ is one action.  The side effects (ops_) run      *)
(* outside mutex_, so each of them is an action of its own between which   *)
(* the other threads move.                                                 *)
(*                                                                         *)
(* Time is abstracted: a topic that has aged beyond its threshold is a     *)
(* flag that falls at any moment and rises with the next message; retry    *)
(* and settle intervals have elapsed, or not, at any tick.                 *)
(***************************************************************************)
EXTENDS Naturals, Sequences, FiniteSets

CONSTANTS
  NPoses, SamplesPerPose, MinPoses,   (* see CalibrationSequencer           *)
  EkiFeeds,     (* the /kuka/eki/state messages that may arrive             *)
  RsiFeeds,     (* the /kuka/rsi/state messages that may arrive             *)
  SriFeeds,     (* the values of connected && streaming in /sri_ft/status   *)
  Silent,       (* the topics that may fall silent                          *)
  Commands,     (* the commands that the operator uses                      *)
  ServoModes,   (* the modes the operator starts                            *)
  Failing,      (* the side effects that may fail                           *)
  Hasty         (* the commands for which the operator does not wait until  *)
                (* a tick that began after the last command returned has    *)
                (* published its state; a patient operator has none         *)

EkiFields == {"connected", "state_fresh", "program_ready", "rsi_active", "fault"}
RsiFields == {"connected", "fault"}
Controllers == {"compliance", "correction"}
None == "none"
Modes == {"IDLE", "DIRECT", "COMPLIANCE", "CALIBRATION"}

ASSUME ManagerAssumption ==
  /\ NPoses \in Nat \ {0}      (* the node exits on an empty list of poses   *)
  /\ SamplesPerPose \in Nat /\ MinPoses \in Nat
  /\ EkiFeeds \subseteq SUBSET EkiFields
  /\ RsiFeeds \subseteq SUBSET RsiFields
  /\ SriFeeds \subseteq BOOLEAN
  /\ ServoModes \subseteq {"DIRECT", "COMPLIANCE"}
  /\ Hasty \subseteq Commands

VARIABLES
  state, servo_requested, calibrating,                      (* core_        *)
  phase, failure, idx, goal_pending, sample_count,          (* seq_         *)
  return_ok, fit_ok,
  eki, eki_fresh,       (* last EkiFeed (a set of its true fields), not aged *)
  rsi, rsi_fresh,       (* last RsiState, not aged                          *)
  sri,                  (* last SriStatus says streaming, and has not aged  *)
  tool_synced, controllers_loaded,
  mode, active, teardown_done,   (* mode_, active_controller_, cal_...      *)
  worker,               (* side effects left in this pass of run()          *)
  cmd,                  (* the command in progress                          *)
  server,               (* action server: "idle", "calling" or "polling"    *)
  result,               (* outcome of its last goal                         *)
  loaded, running,      (* controllers in the controller_manager            *)
  topic,                (* last mode published on /soft_robot/mode_command  *)
  tracked,              (* the motion client waits for a result             *)
  applied,              (* applyPayload for the last goal: not called "no", *)
                        (* "yes", or "failed" when one of its calls did     *)
  awaiting,             (* what the next tick and its publishState have yet *)
                        (* to take up: "tick", "publish" or "nothing"       *)
  rushed,               (* history: the command in progress was issued      *)
                        (* before a tick had seen what the last one did     *)
  entangled             (* history: a reset, or a calibration, was accepted *)
                        (* while a run or its teardown was not over, and no *)
                        (* calibration has begun from rest since            *)

coreVars == <<state, servo_requested, calibrating>>
seqVars == <<phase, failure, idx, goal_pending, sample_count, return_ok, fit_ok>>
feedVars == <<eki, eki_fresh, rsi, rsi_fresh, sri>>
ownVars == <<tool_synced, controllers_loaded, mode, active, teardown_done>>
threadVars == <<worker, cmd, server, result, awaiting>>
worldVars == <<loaded, running, topic, tracked, applied>>
historyVars == <<rushed, entangled>>
vars == <<coreVars, seqVars, feedVars, ownVars, threadVars, worldVars, historyVars>>

Core == INSTANCE SystemStateCore
Sequencer == INSTANCE CalibrationSequencer

-----------------------------------------------------------------------------
(* healthLocked().                                                          *)

Health ==
  LET heartbeat == eki_fresh /\ "state_fresh" \in eki
      tcp == "connected" \in eki
      alive == rsi_fresh /\ "connected" \in rsi
      holds == [eki_link |-> heartbeat /\ tcp,
                eki_tcp_connected |-> tcp,
                eki_heartbeat_fresh |-> heartbeat,
                eki_rsi_active |-> "rsi_active" \in eki,
                eki_program_ready |-> "program_ready" \in eki /\ tcp /\ (heartbeat \/ alive),
                eki_fault |-> eki_fresh /\ "fault" \in eki,
                rsi_topic_fresh |-> rsi_fresh,
                rsi_connected |-> alive,
                rsi_fault |-> rsi_fresh /\ "fault" \in rsi,
                sri_streaming |-> sri,
                tool_synced |-> tool_synced,
                controllers_loaded |-> controllers_loaded]
  IN  {f \in DOMAIN holds : holds[f]}

(* switchFiltered(start, stop): the running set is queried, the entries     *)
(* that would change nothing are dropped, and what is left is one STRICT    *)
(* request.  t is the record of a thread with its two entries.              *)
Filtered(t) ==
  [t EXCEPT !.start = IF @ \in running THEN None ELSE @,
            !.stop = IF @ \in running THEN @ ELSE None]

NothingToSwitch(t) == t.start = None /\ t.stop = None

(* Mutant: the empty name goes into the request like any other.             *)
SwitchedByEmptyName(t) == (running \ {t.stop}) \cup {t.start}

Switched(t) == (running \ {t.stop}) \cup ({t.start} \ {None})

(* The controller_manager refuses to start a controller that runs or is not *)
(* loaded, to stop one that is not running, and to let two claim RKorr.     *)
StrictAccepts(t) ==
  /\ t.start \in (loaded \ running) \cup {None}
  /\ t.stop \in running \cup {None}
  /\ Cardinality(Switched(t)) <= 1

SwitchSucceeds(t) ==
  \/ /\ NothingToSwitch(t)
     /\ UNCHANGED running
  \/ /\ ~NothingToSwitch(t)
     /\ StrictAccepts(t)
     /\ running' = Switched(t)

SwitchFails(t) ==
  /\ ~NothingToSwitch(t)
  /\ StrictAccepts(t) => "switch" \in Failing
  /\ UNCHANGED running

Target(m) == IF m = "COMPLIANCE" THEN "compliance" ELSE "correction"
Other(m) == IF m = "COMPLIANCE" THEN "correction" ELSE "compliance"

-----------------------------------------------------------------------------
(* The worker.  worker.todo lists the side effects left in this pass.       *)

Unless(op, old) == IF op \in Failing THEN {old} ELSE {}

WorkerIdle == worker.todo = <<>>

StepsOf(todo) == {todo[i] : i \in 1 .. Len(todo)}

Todo == StepsOf(worker.todo)

AtWorker(step) == ~WorkerIdle /\ Head(worker.todo) = step

(* The pass ends with publishState.                                         *)
Publishes == IF Tail(worker.todo) = <<>> /\ awaiting = "publish" THEN "nothing" ELSE awaiting

WorkerStepDone ==
  /\ worker' = [worker EXCEPT !.todo = Tail(@)]
  /\ awaiting' = Publishes

CalibrationSupervised(in, elapsed) ==
  IF Sequencer!Active /\ "sri_streaming" \notin in
  THEN Sequencer!OnStreamLost
  ELSE Sequencer!Tick(elapsed)

(* The locked section of a pass.                                            *)
Tick(elapsed, retry_due) ==
  LET in == Health
      gone == ~Core!EkiLinkLayered(in)
      want_tool_sync == /\ "eki_link" \in in
                        /\ "program_ready" \in eki
                        /\ ~tool_synced
                        /\ retry_due
      sends_goal == goal_pending /\ "sri_streaming" \in in
      finished == phase' \in {"DONE", "FAILED"} /\ ~teardown_done
      success == finished /\ phase' = "DONE" /\ fit_ok'
      todo == (IF want_tool_sync THEN <<"tool">> ELSE <<>>)
              \o (IF sends_goal THEN <<"goal">> ELSE <<>>)
              \o (IF success THEN <<"unload", "reload">> ELSE <<>>)
              \o (IF finished THEN <<"idle", "query", "switch", "finish">> ELSE <<>>)
  IN  /\ WorkerIdle
      /\ tool_synced' = (tool_synced /\ ~gone)
      /\ Core!Update(in)
      /\ CalibrationSupervised(in, elapsed)
      /\ teardown_done' = (teardown_done \/ finished)
      /\ worker' = [todo |-> todo, start |-> None, stop |-> "correction"]
      /\ awaiting' = IF awaiting = "tick"
                     THEN IF todo = <<>> THEN "nothing" ELSE "publish"
                     ELSE awaiting
      /\ UNCHANGED <<feedVars, controllers_loaded, mode, active, cmd, server, result, worldVars,
                     historyVars>>

SyncTool ==
  /\ AtWorker("tool")
  /\ tool_synced' \in {TRUE} \cup Unless("get_tool", tool_synced)
  /\ WorkerStepDone
  /\ UNCHANGED <<coreVars, seqVars, feedVars, controllers_loaded, mode, active,
                 teardown_done, cmd, server, result, worldVars, historyVars>>

SendGoal ==
  /\ AtWorker("goal")
  /\ tracked' = TRUE
  /\ WorkerStepDone
  /\ UNCHANGED <<coreVars, seqVars, feedVars, ownVars, cmd, server, result, loaded,
                 running, topic, applied, historyVars>>

(* applyPayload writes the file and the parameters, then unloads and loads  *)
(* the compliance controller; the worker ignores its verdict.  It gives up  *)
(* when the file cannot be written or the unload is refused.                *)
UnloadCompliance ==
  /\ AtWorker("unload")
  /\ \/ /\ "compliance" \in loaded \ running
        /\ loaded' = loaded \ {"compliance"}
        /\ worker' = [worker EXCEPT !.todo = Tail(@)]
        /\ UNCHANGED applied
     \/ /\ "compliance" \notin loaded \ running \/ "apply" \in Failing
        /\ worker' = [worker EXCEPT !.todo = Tail(Tail(@))]
        /\ applied' = "failed"
        /\ UNCHANGED loaded
  /\ UNCHANGED <<coreVars, seqVars, feedVars, ownVars, cmd, server, result, awaiting,
                 running, topic, tracked, historyVars>>

ReloadCompliance ==
  /\ AtWorker("reload")
  /\ \/ /\ loaded' = loaded \cup {"compliance"}
        /\ applied' = "yes"
     \/ /\ "apply" \in Failing
        /\ applied' = "failed"
        /\ UNCHANGED loaded
  /\ WorkerStepDone
  /\ UNCHANGED <<coreVars, seqVars, feedVars, ownVars, cmd, server, result, running,
                 topic, tracked, historyVars>>

TeardownIdle ==
  /\ AtWorker("idle")
  /\ topic' = "IDLE"
  /\ WorkerStepDone
  /\ UNCHANGED <<coreVars, seqVars, feedVars, ownVars, cmd, server, result, loaded,
                 running, tracked, applied, historyVars>>

(* A failed query refuses the switch; the teardown ignores the refusal.     *)
TeardownQuery ==
  /\ AtWorker("query")
  /\ \/ worker' = [Filtered(worker) EXCEPT !.todo = Tail(@)]
     \/ "list" \in Failing /\ worker' = [worker EXCEPT !.todo = Tail(Tail(@))]
  /\ UNCHANGED <<coreVars, seqVars, feedVars, ownVars, cmd, server, result, awaiting,
                 worldVars, historyVars>>

TeardownSwitch ==
  /\ AtWorker("switch")
  /\ SwitchSucceeds(worker) \/ SwitchFails(worker)
  /\ WorkerStepDone
  /\ UNCHANGED <<coreVars, seqVars, feedVars, ownVars, cmd, server, result, loaded,
                 topic, tracked, applied, historyVars>>

TeardownFinish ==
  /\ AtWorker("finish")
  /\ Core!CalibrationFinished
  /\ active' = None
  /\ mode' = "IDLE"
  /\ WorkerStepDone
  /\ UNCHANGED <<seqVars, feedVars, tool_synced, controllers_loaded, teardown_done, cmd,
                 server, result, worldVars, historyVars>>

WorkerStep ==
  \/ SyncTool
  \/ SendGoal
  \/ UnloadCompliance
  \/ ReloadCompliance
  \/ TeardownIdle
  \/ TeardownQuery
  \/ TeardownSwitch
  \/ TeardownFinish

-----------------------------------------------------------------------------
(* Commands.  cmd.op is the method, cmd.at its next step; startServo's      *)
(* roll back is the method "undo".                                          *)

NoCommand == [op |-> None, at |-> None, mode |-> "IDLE", start |-> None, stop |-> None]

Returns ==
  /\ cmd' = NoCommand
  /\ awaiting' = "tick"
  /\ rushed' = FALSE

At(op, step) == cmd.op = op /\ cmd.at = step

Goto(step) == cmd' = [cmd EXCEPT !.at = step] /\ UNCHANGED <<awaiting, rushed>>

MayIssue(op) ==
  /\ op \in Commands
  /\ cmd = NoCommand
  /\ op \in Hasty \/ awaiting = "nothing"

Issue(op, step, m, start, stop) ==
  /\ MayIssue(op)
  /\ cmd' = [op |-> op, at |-> step, mode |-> m, start |-> start, stop |-> stop]
  /\ rushed' = (awaiting = "tick")
  /\ UNCHANGED awaiting

(* A run goes on, or its teardown does.                                     *)
Busy == ~teardown_done \/ "finish" \in Todo

(* What the steps of a command leave alone but for the variables of `those`. *)
QuietSeq == UNCHANGED <<seqVars, feedVars, tool_synced, controllers_loaded, worker, result,
                        loaded, tracked, applied, entangled>>
QuietOwn == UNCHANGED <<mode, active, teardown_done>>
QuietWorld == UNCHANGED <<running, topic>>

(* startServo: a command refused because of the state changes nothing.      *)
StartBegin(m) ==
  /\ state = "READY"
  /\ Issue("start", "residue", m, Target(m), Other(m))
  /\ UNCHANGED <<coreVars, server>> /\ QuietSeq /\ QuietOwn /\ QuietWorld

(* R3: the fault flag counts even when its topic has aged.                  *)
ResidueFault ==
  /\ "fault" \in rsi
  /\ "eki_heartbeat_fresh" \in Health
  /\ "rsi_active" \notin eki

CheckResidue ==
  /\ At("start", "residue")
  /\ Goto(IF ResidueFault THEN "clear" ELSE "rsi")
  /\ UNCHANGED <<coreVars, server>> /\ QuietSeq /\ QuietOwn /\ QuietWorld

ClearResidue ==
  /\ At("start", "clear")
  /\ \/ Goto("rsi")
     \/ "rsi_reset" \in Failing /\ Returns
  /\ UNCHANGED <<coreVars, server>> /\ QuietSeq /\ QuietOwn /\ QuietWorld

CheckRsi ==
  /\ At("start", "rsi")
  /\ Goto(IF "rsi_active" \in eki THEN "wait" ELSE "start_rsi")
  /\ UNCHANGED <<coreVars, server>> /\ QuietSeq /\ QuietOwn /\ QuietWorld

StartRsi ==
  /\ At("start", "start_rsi")
  /\ \/ Goto("wait")
     \/ "start_rsi" \in Failing /\ Returns
  /\ UNCHANGED <<coreVars, server>> /\ QuietSeq /\ QuietOwn /\ QuietWorld

(* The wait for RSI frames ends with a frame or with its deadline.          *)
AwaitFrames ==
  /\ At("start", "wait")
  /\ \/ Core!RsiAlive(Health) /\ Goto("idle")
     \/ ~Core!RsiAlive(Health) /\ Returns
  /\ UNCHANGED <<coreVars, server>> /\ QuietSeq /\ QuietOwn /\ QuietWorld

(* The steps that startServo, its roll back, stopServo and beginCalibration *)
(* share: publish IDLE, then switch controllers.                            *)
PublishIdle ==
  /\ cmd.at = "idle"
  /\ topic' = "IDLE"
  /\ Goto("query")
  /\ UNCHANGED <<coreVars, server, running>> /\ QuietSeq /\ QuietOwn

SwitchDone ==
  CASE cmd.op \in {"start", "calibrate"} -> Goto("mode")
    [] cmd.op = "stop" -> Goto("verdict")
    [] cmd.op = "undo" -> Returns

(* Mutant: startServo ignores a refused switch too.                         *)
RefusalIgnored ==
  CASE cmd.op \in {"start", "calibrate"} -> Goto("mode")
    [] cmd.op = "stop" -> Goto("verdict")
    [] cmd.op = "undo" -> Returns

(* stopServo and the roll back ignore a refused switch.                     *)
SwitchRefused ==
  CASE cmd.op = "start" -> Returns
    [] cmd.op = "calibrate" -> Goto("abort")
    [] cmd.op = "stop" -> Goto("verdict")
    [] cmd.op = "undo" -> Returns

QueryRunning ==
  /\ cmd.at = "query"
  /\ \/ cmd' = [Filtered(cmd) EXCEPT !.at = "switch"] /\ UNCHANGED <<awaiting, rushed>>
     \/ "list" \in Failing /\ SwitchRefused
  /\ UNCHANGED <<coreVars, server>> /\ QuietSeq /\ QuietOwn /\ QuietWorld

SwitchControllers ==
  /\ cmd.at = "switch"
  /\ \/ SwitchSucceeds(cmd) /\ SwitchDone
     \/ SwitchFails(cmd) /\ SwitchRefused
  /\ UNCHANGED <<coreVars, server, topic>> /\ QuietSeq /\ QuietOwn

PublishMode ==
  /\ cmd.at = "mode"
  /\ topic' = cmd.mode
  /\ Goto("verdict")
  /\ UNCHANGED <<coreVars, server, running>> /\ QuietSeq /\ QuietOwn

(* The final verdict of startServo, under mutex_.                           *)
StartVerdict ==
  /\ At("start", "verdict")
  /\ Core!RequestStart(Health)
  /\ mode' = cmd.mode
  /\ active' = Target(cmd.mode)
  /\ Returns
  /\ UNCHANGED <<server, teardown_done>> /\ QuietSeq /\ QuietWorld

(* Mutant: no roll back.                                                    *)
StartRejectedArmed ==
  /\ At("start", "verdict")
  /\ ~Core!StartAccepts(Health)
  /\ Returns
  /\ UNCHANGED <<coreVars, server>> /\ QuietSeq /\ QuietOwn /\ QuietWorld

(* I-2: rejected after the world was armed; undo in reverse order.          *)
StartRejected ==
  /\ At("start", "verdict")
  /\ ~Core!StartAccepts(Health)
  /\ cmd' = [cmd EXCEPT !.op = "undo", !.at = "idle", !.start = None,
                        !.stop = Target(cmd.mode)]
  /\ UNCHANGED <<coreVars, server, awaiting, rushed>> /\ QuietSeq /\ QuietOwn /\ QuietWorld

StopBegin ==
  /\ Core!StopAccepts
  /\ Issue("stop", "idle", "IDLE", None, active)
  /\ UNCHANGED <<coreVars, server>> /\ QuietSeq /\ QuietOwn /\ QuietWorld

StopVerdict ==
  /\ At("stop", "verdict")
  /\ \/ /\ Core!RequestStop
        /\ mode' = "IDLE"
        /\ active' = None
     \/ /\ ~Core!StopAccepts
        /\ UNCHANGED <<coreVars, mode, active>>
  /\ Returns
  /\ UNCHANGED <<server, teardown_done>> /\ QuietSeq /\ QuietWorld

(* resetFault: the two reset services run between its locked sections, and  *)
(* their failure is only reported.                                          *)
ResetBegin ==
  /\ Core!ResetAccepts
  /\ Issue("reset", "verdict", "IDLE", None, None)
  /\ UNCHANGED <<coreVars, server>> /\ QuietSeq /\ QuietOwn /\ QuietWorld

ResetVerdict ==
  /\ At("reset", "verdict")
  /\ \/ Core!RequestReset /\ entangled' = (entangled \/ Busy)
     \/ ~Core!ResetAccepts /\ UNCHANGED <<coreVars, entangled>>
  /\ Returns
  /\ UNCHANGED <<seqVars, feedVars, tool_synced, controllers_loaded, worker, server, result,
                 loaded, tracked, applied>>
  /\ QuietOwn /\ QuietWorld

(* zeroSensor: the sensor is zeroed while the command is at "zeroing".      *)
ZeroBegin ==
  /\ Core!AllowZeroSensor
  /\ Issue("zero", "zeroing", "IDLE", None, None)
  /\ UNCHANGED <<coreVars, server>> /\ QuietSeq /\ QuietOwn /\ QuietWorld

ZeroDone ==
  /\ At("zero", "zeroing")
  /\ Returns
  /\ UNCHANGED <<coreVars, server>> /\ QuietSeq /\ QuietOwn /\ QuietWorld

-----------------------------------------------------------------------------
(* Calibration: beginCalibration runs in the action server's thread, which  *)
(* then polls the snapshot until the run has ended.                         *)

CalibrateBegin ==
  /\ server = "idle"
  /\ Core!RequestCalibration(Health)
  /\ Issue("calibrate", "idle", "CALIBRATION", "correction", "compliance")
  /\ server' = "calling"
  /\ result' = None
  /\ applied' = "no"
  /\ entangled' = Busy
  /\ UNCHANGED <<seqVars, feedVars, tool_synced, controllers_loaded, worker, loaded,
                 tracked>>
  /\ QuietOwn /\ QuietWorld

(* Mutant: a failed begin does not take the request back.                   *)
GoalAbortedOnly ==
  /\ server' = "idle"
  /\ result' = "aborted"
  /\ Returns
  /\ UNCHANGED <<coreVars, seqVars, feedVars, ownVars, worker, worldVars, entangled>>

GoalAborted ==
  /\ Core!CalibrationFinished
  /\ server' = "idle"
  /\ result' = "aborted"
  /\ Returns
  /\ UNCHANGED <<seqVars, feedVars, ownVars, worker, worldVars, entangled>>

(* With no samples to take: no run can be active when a goal begins.        *)
SequencerRefuses == At("calibrate", "verdict") /\ ~Sequencer!StartAccepts

CalibrateAbort ==
  /\ At("calibrate", "abort") \/ SequencerRefuses
  /\ GoalAborted

(* Mutant: the teardown of the run before is taken for this one's.          *)
StartedWithoutTeardown ==
  /\ At("calibrate", "verdict")
  /\ Sequencer!Start
  /\ mode' = "CALIBRATION"
  /\ active' = "correction"
  /\ server' = "polling"
  /\ Returns
  /\ UNCHANGED <<coreVars, feedVars, tool_synced, controllers_loaded, teardown_done,
                 worker, result, worldVars, entangled>>

SequencerStarted ==
  /\ At("calibrate", "verdict")
  /\ Sequencer!Start
  /\ teardown_done' = FALSE
  /\ mode' = "CALIBRATION"
  /\ active' = "correction"
  /\ server' = "polling"
  /\ Returns
  /\ UNCHANGED <<coreVars, feedVars, tool_synced, controllers_loaded, worker, result, worldVars,
                 entangled>>

(* A preempted goal cancels the sequencer; the worker tears down.           *)
CancelCalibration ==
  /\ "cancel" \in Commands
  /\ server = "polling"
  /\ Sequencer!Cancel
  /\ UNCHANGED <<coreVars, feedVars, ownVars, threadVars, worldVars, historyVars>>

(* Mutant: a solved fit is reported as success whatever ended the run.      *)
ServerReportsFit ==
  /\ server = "polling"
  /\ phase \in {"DONE", "FAILED"}
  /\ state # "CALIBRATING"
  /\ server' = "idle"
  /\ result' = IF fit_ok THEN "succeeded"
               ELSE IF failure = "CANCELLED" THEN "preempted" ELSE "aborted"
  /\ UNCHANGED <<coreVars, seqVars, feedVars, ownVars, worker, cmd, awaiting, worldVars,
                 historyVars>>

ServerReports ==
  /\ server = "polling"
  /\ phase \in {"DONE", "FAILED"}
  /\ state # "CALIBRATING"
  /\ server' = "idle"
  /\ result' = IF phase = "DONE" /\ fit_ok THEN "succeeded"
               ELSE IF failure = "CANCELLED" THEN "preempted" ELSE "aborted"
  /\ UNCHANGED <<coreVars, seqVars, feedVars, ownVars, worker, cmd, awaiting, worldVars,
                 historyVars>>

CommandStep ==
  \/ CheckResidue
  \/ ClearResidue
  \/ CheckRsi
  \/ StartRsi
  \/ AwaitFrames
  \/ PublishIdle
  \/ QueryRunning
  \/ SwitchControllers
  \/ PublishMode
  \/ StartVerdict
  \/ StartRejected
  \/ StopVerdict
  \/ ResetVerdict
  \/ ZeroDone
  \/ CalibrateAbort
  \/ SequencerStarted

Operator ==
  \/ \E m \in ServoModes : StartBegin(m)
  \/ StopBegin
  \/ ResetBegin
  \/ ZeroBegin
  \/ CalibrateBegin
  \/ CancelCalibration

-----------------------------------------------------------------------------
(* Callbacks.                                                               *)

NotFeeds == UNCHANGED <<coreVars, ownVars, threadVars, worldVars, historyVars>>

FeedEki ==
  /\ eki' \in EkiFeeds
  /\ eki_fresh' = TRUE
  /\ UNCHANGED <<rsi, rsi_fresh, sri, seqVars>> /\ NotFeeds

FeedRsi ==
  /\ rsi' \in RsiFeeds
  /\ rsi_fresh' = TRUE
  /\ UNCHANGED <<eki, eki_fresh, sri, seqVars>> /\ NotFeeds

FeedSri ==
  /\ sri' \in SriFeeds
  /\ UNCHANGED <<eki, eki_fresh, rsi, rsi_fresh, seqVars>> /\ NotFeeds

FallSilent ==
  /\ \/ "eki" \in Silent /\ eki_fresh' = FALSE /\ UNCHANGED <<rsi_fresh, sri>>
     \/ "rsi" \in Silent /\ rsi_fresh' = FALSE /\ UNCHANGED <<eki_fresh, sri>>
     \/ "sri" \in Silent /\ sri' = FALSE /\ UNCHANGED <<eki_fresh, rsi_fresh>>
  /\ UNCHANGED <<eki, rsi, seqVars>> /\ NotFeeds

FeedWrench ==
  /\ Sequencer!OnWrench
  /\ UNCHANGED feedVars /\ NotFeeds

OnMotionResult(success) ==
  /\ tracked
  /\ Sequencer!OnMotionResult(success)
  /\ tracked' = FALSE
  /\ UNCHANGED <<coreVars, feedVars, ownVars, threadVars, loaded, running,
                 topic, applied, historyVars>>

(* The preload thread, which ends when it has found or loaded both.         *)
SetControllersLoaded ==
  /\ ~controllers_loaded
  /\ controllers_loaded' = TRUE
  /\ loaded' = Controllers
  /\ UNCHANGED <<coreVars, seqVars, feedVars, tool_synced, mode, active, teardown_done,
                 threadVars, running, topic, tracked, applied, historyVars>>

Callback ==
  \/ FeedEki
  \/ FeedRsi
  \/ FeedSri
  \/ FallSilent
  \/ FeedWrench
  \/ \E success \in BOOLEAN : OnMotionResult(success)
  \/ SetControllersLoaded

-----------------------------------------------------------------------------

Init ==
  /\ Core!Init
  /\ Sequencer!Init
  /\ eki = {} /\ eki_fresh = FALSE
  /\ rsi = {} /\ rsi_fresh = FALSE
  /\ sri = FALSE
  /\ tool_synced = FALSE
  /\ controllers_loaded = FALSE
  /\ mode = "IDLE"
  /\ active = None
  /\ teardown_done = TRUE
  /\ worker = [todo |-> <<>>, start |-> None, stop |-> None]
  /\ cmd = NoCommand
  /\ server = "idle"
  /\ result = None
  /\ loaded = {}
  /\ running = {}
  /\ topic = "IDLE"
  /\ tracked = FALSE
  /\ applied = "no"
  /\ awaiting = "nothing"
  /\ rushed = FALSE
  /\ entangled = FALSE

Next ==
  \/ \E elapsed, retry_due \in BOOLEAN : Tick(elapsed, retry_due)
  \/ WorkerStep
  \/ Operator
  \/ CommandStep
  \/ ServerReports
  \/ Callback

Spec == Init /\ [][Next]_vars

(* The worker loops for ever and its side effects return, with a verdict or *)
(* a refusal (bounded service calls); an accepted command and the polling   *)
(* loop of the action server run in threads of their own; the motion server *)
(* answers every goal (its controller times a move out), wrenches keep      *)
(* coming, and the settle time passes between one tick and a later one.     *)
Fairness ==
  /\ SF_vars(\E retry_due \in BOOLEAN : Tick(TRUE, retry_due))
  /\ WF_vars(WorkerStep)
  /\ WF_vars(CommandStep)
  /\ WF_vars(ServerReports)
  /\ WF_vars(\E success \in BOOLEAN : OnMotionResult(success))
  /\ SF_vars(FeedWrench)

FairSpec == Spec /\ Fairness

-----------------------------------------------------------------------------
(* Properties.                                                              *)

Steps == {None, "residue", "clear", "rsi", "start_rsi", "wait", "idle", "query", "switch",
          "mode", "verdict", "abort", "zeroing"}

WorkerSteps == {"tool", "goal", "unload", "reload", "idle", "query", "switch", "finish"}

TypeOK ==
  /\ Core!TypeOK
  /\ Sequencer!TypeOK
  /\ eki \subseteq EkiFields /\ rsi \subseteq RsiFields
  /\ {eki_fresh, rsi_fresh, sri, tool_synced, controllers_loaded, teardown_done, tracked,
      rushed, entangled} \subseteq BOOLEAN
  /\ {mode, topic} \subseteq Modes
  /\ active \in Controllers \cup {None}
  /\ running \subseteq loaded /\ loaded \subseteq Controllers
  /\ worker \in [todo : Seq(WorkerSteps), start : {None}, stop : {None, "correction"}]
  /\ cmd \in [op : {None, "start", "undo", "stop", "reset", "zero", "calibrate"},
              at : Steps, mode : Modes,
              start : Controllers \cup {None}, stop : Controllers \cup {None}]
  /\ server \in {"idle", "calling", "polling"}
  /\ result \in {None, "succeeded", "preempted", "aborted"}
  /\ applied \in {"no", "yes", "failed"}
  /\ awaiting \in {"nothing", "tick", "publish"}

(* While a servo request stands and no stop is under way, exactly the       *)
(* controller of the reported mode runs, and the last mode command that was *)
(* published tells it so, unless a calibration was entangled with a reset   *)
(* or with the next one: its late teardown would stop the controller of the *)
(* session after it.                                                        *)
ServoDrivesItsController ==
  servo_requested /\ cmd.op # "stop" /\ ~entangled =>
    running = {Target(mode)} /\ topic = mode /\ active = Target(mode)

(* A controller that runs under a mode other than IDLE is known to the      *)
(* manager, whatever became of the command that armed it: stopServo can     *)
(* find it.  The exceptions are an entangled calibration and one that the   *)
(* sequencer refused, which needs samples_per_pose 0: its controller runs   *)
(* on unclaimed.                                                            *)
NoForgottenController ==
  cmd = NoCommand /\ topic # "IDLE" /\ running # {} /\ ~entangled =>
    \/ running = {active} /\ topic = mode
    \/ SamplesPerPose = 0 /\ topic = "CALIBRATION"

(* Decision 11 forbids to zero the sensor of a robot that is driven.  The   *)
(* verdict looks at the state only, and is older than the zeroing, which    *)
(* runs outside mutex_.  A tare meets a servo request or a calibration only *)
(* if it was asked for before the first tick after that request: no tick,   *)
(* fault, reset or teardown later can bring the two together.               *)
ZeroMeetsOnlyFreshRequests ==
  cmd.op = "zero" /\ (servo_requested \/ calibrating) => rushed

(* READY: output is zero (design spec, section 11).  When no servo is       *)
(* requested, no controller is left running in the mode that it served.     *)
ReadyOutputsZero ==
  state = "READY" /\ ~servo_requested /\ cmd = NoCommand => topic = "IDLE" \/ running = {}

(* Calibration must not run while SERVOING (design spec, section 9).  The   *)
(* code lets a run meet a servo session only if a fault was reset, or the   *)
(* next calibration accepted, before the run before was torn down.          *)
CalibrationMeetsServoEntangled ==
  state = "SERVOING" /\ Sequencer!Active => entangled

(* A calibration that the state machine still supervises has a command, a   *)
(* sequencer, a run whose end the next tick finds, or the last call of a    *)
(* teardown that will end it, whatever is reset, cancelled or begun anew.   *)
NoOrphanCalibration ==
  calibrating =>
    \/ cmd.op = "calibrate"
    \/ Sequencer!Active
    \/ phase \in {"DONE", "FAILED"} /\ ~teardown_done
    \/ "finish" \in Todo

(* Once the teardown is over, a goal was reported as a success exactly when *)
(* its payload was handed to applyPayload, unless the run was entangled     *)
(* with the one before.  The verdict of applyPayload itself is ignored.     *)
PayloadMatchesVerdict ==
  server = "idle" /\ teardown_done /\ WorkerIdle /\ ~entangled =>
    (result = "succeeded" <=> applied # "no")

(* Nothing hangs, whichever calls fail and whichever feed falls silent:     *)
(* every command returns, every goal of the action server ends with a       *)
(* result, and every run that ended is torn down and leaves the supervision.*)
NothingHangs ==
  /\ cmd # NoCommand ~> cmd = NoCommand
  /\ server # "idle" ~> server = "idle"
  /\ phase \in {"DONE", "FAILED"} /\ calibrating ~> ~calibrating

Duty ==
  IF state = "FAULT" THEN "latched"
  ELSE IF calibrating THEN "calibration"
  ELSE IF servo_requested THEN "servo" ELSE "stopped"

Contract == INSTANCE ServoContract WITH duty <- Duty

(* The manager keeps the contract with its operator.                        *)
KeepsContract == Contract!Spec

=============================================================================
