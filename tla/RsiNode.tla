------------------------------- MODULE RsiNode -------------------------------
(***************************************************************************)
(* The process kuka_rsi_hw_interface with the two controllers that the     *)
(* controller_manager hosts in it.  Threads: the control loop (read,       *)
(* update, switch, write), the one spinner thread (topics and services)    *)
(* and the execution thread of the action server of the correction         *)
(* controller.  They share latest-value buffers and atomics.               *)
(*                                                                         *)
(* Only the running controller reads its mode and fault buffers, and a     *)
(* switch needs the spinner thread: the two subscriptions of a topic are    *)
(* one buffer here, with the set of controllers that have not applied the   *)
(* mode in it.  The numbers of goals and cancels are compared by size and   *)
(* stay numbers.  Corrections are reduced to who wrote them; the arithmetic *)
(* of the cores is a choice between some and none.                          *)
(***************************************************************************)
EXTENDS RsiLink, ModeGate

CONSTANTS
  MaxRequests,  (* bound: no new goal or stop once so many goals and        *)
                (* cancels have been numbered                               *)
  ModeRequests, (* the [mode, profile] messages that may arrive             *)
  ManagerSwitches   (* the [start, stop] pairs that may be requested        *)

ASSUME NodeAssumption ==
  /\ MaxRequests \in Nat
  /\ ModeRequests \subseteq ModeRecords
  /\ ManagerSwitches \subseteq [start : Controllers \cup {None}, stop : Controllers \cup {None}]

VARIABLES
  loop,               (* where the control loop is                          *)
  running,            (* the controller that runs; the resource admits one  *)
  switch,             (* the switch that the spinner waits for, or NoSwitch *)
  mode_buf,           (* the last mode request                              *)
  mode_new,           (* the controllers whose gate has not seen it         *)
  gate,               (* per controller: mode and profile of its gate       *)
  configured,         (* the profile the compliance core was configured for *)
  fault_buf,          (* the fault flag last published and delivered        *)
  goal_buf,           (* the last goal or cancel request                    *)
  goal_seq,           (* the last number given to one                       *)
  applied,            (* applied_goal_seq_, and its published copy          *)
  applied_pub,
  status,             (* of the motion core, and its published copy         *)
  status_pub,
  engaged_flag,
  late_cancel,        (* the number of the cancel that stopping() has yet   *)
                      (* to post, or 0                                      *)
  server,             (* the action server's execution thread               *)
  converged           (* history: the number of the last goal that converged*)

gateVars == <<mode_buf, mode_new, gate, configured, fault_buf>>
goalVars == <<goal_buf, goal_seq, applied, applied_pub, status, status_pub, engaged_flag,
              late_cancel, converged>>
vars == <<linkVars, loop, running, switch, gateVars, goalVars, server>>

NoSwitch == [start |-> None, stop |-> None]
NoRequest == [seq |-> 0, cancel |-> TRUE]
IdleServer == [at |-> "idle", seq |-> 0, post |-> 0, cancelled |-> FALSE]

Init ==
  /\ LinkInit
  /\ loop = "read"
  /\ running = None
  /\ switch = NoSwitch
  /\ mode_buf = IdleMode
  /\ mode_new = {}
  /\ gate = [c \in Controllers |-> IdleMode]
  /\ configured = "PRECISION"
  /\ fault_buf = FALSE
  /\ goal_buf = NoRequest
  /\ goal_seq = 0
  /\ applied = 0 /\ applied_pub = 0
  /\ status = "INACTIVE" /\ status_pub = "INACTIVE"
  /\ engaged_flag = FALSE
  /\ late_cancel = 0
  /\ server = IdleServer
  /\ converged = 0

-----------------------------------------------------------------------------
(* ControllerModeGate.                                                      *)

EngagedModes(c) == IF c = "compliance" THEN {"COMPLIANCE"} ELSE {"DIRECT", "CALIBRATION"}

GateAfter(c) == IF c \in mode_new THEN Applied(gate[c], mode_buf) ELSE gate[c]

Entered(c) == gate[c].mode \notin EngagedModes(c) /\ GateAfter(c).mode \in EngagedModes(c)

EngagedAfter(c) == GateAfter(c).mode \in EngagedModes(c) /\ ~fault_buf

ApplyMode(c) ==
  /\ gate' = [gate EXCEPT ![c] = GateAfter(c)]
  /\ mode_new' = mode_new \ {c}
  /\ UNCHANGED <<mode_buf, fault_buf>>

-----------------------------------------------------------------------------
(* The control loop.                                                        *)

Read ==
  /\ loop = "read"
  /\ loop' = "update"
  /\ \E reception \in Receptions : ReadFrame(reception)
  /\ UNCHANGED <<running, switch, gateVars, goalVars, server>>

Output(author) ==
  /\ cart_cmd' = author
  /\ UNCHANGED <<connected, fault, misses, clear_requested>>

UpdateNobody ==
  /\ loop = "update"
  /\ running = None
  /\ loop' = "switch"
  /\ UNCHANGED <<linkVars, running, switch, gateVars, goalVars, server>>

(* A disengaged or faulted controller outputs zero.  The core outputs zero  *)
(* on an aged wrench, during the ramp and on a hard cutoff.                 *)
UpdateCompliance ==
  /\ loop = "update"
  /\ running = "compliance"
  /\ loop' = "switch"
  /\ ApplyMode(running)
  /\ configured' = IF Entered(running) THEN GateAfter(running).profile ELSE configured
  /\ \/ Output(None)
     \/ EngagedAfter(running) /\ Output(running)
  /\ UNCHANGED <<running, switch, goalVars, server>>

(* What the request buffer and the mode entry make of the motion.           *)
StatusBefore ==
  IF goal_buf.seq # applied THEN IF goal_buf.cancel THEN "INACTIVE" ELSE "RUNNING"
  ELSE IF Entered("correction") THEN "INACTIVE" ELSE status

(* Mutant: a disengaged controller leaves its goal alone.                   *)
MotionIgnoresGate ==
  \/ ~EngagedAfter("correction") /\ status' = StatusBefore /\ Output(None)
  \/ /\ EngagedAfter("correction")
     /\ status' \in IF StatusBefore = "RUNNING" THEN {"RUNNING", "CONVERGED", "TIMEOUT"}
                    ELSE {StatusBefore}
     /\ Output("correction") \/ Output(None)

(* Disengaging cancels a running goal.  A running goal moves the robot or   *)
(* ends; without one a fresh stream command passes.                         *)
Motion ==
  \/ /\ ~EngagedAfter("correction")
     /\ status' = IF StatusBefore = "RUNNING" THEN "INACTIVE" ELSE StatusBefore
     /\ Output(None)
  \/ /\ EngagedAfter("correction")
     /\ status' \in IF StatusBefore = "RUNNING" THEN {"RUNNING", "CONVERGED", "TIMEOUT"}
                    ELSE {StatusBefore}
     /\ Output("correction") \/ Output(None)

(* Mutant: the number of the applied request is published before its status.*)
PublishNumber == applied_pub' = goal_buf.seq /\ UNCHANGED status_pub

PublishStatus == status_pub' = status' /\ UNCHANGED applied_pub

UpdateCorrection ==
  /\ loop = "update"
  /\ running = "correction"
  /\ loop' = "stored"
  /\ ApplyMode(running)
  /\ engaged_flag' = EngagedAfter(running)
  /\ applied' = goal_buf.seq
  /\ Motion
  /\ converged' = IF status' = "CONVERGED" THEN goal_buf.seq ELSE converged
  /\ PublishStatus
  /\ UNCHANGED <<running, switch, configured, goal_buf, goal_seq, late_cancel, server>>

(* The end of update(): what PublishStatus has left is stored.              *)
StoreApplied ==
  /\ loop = "stored"
  /\ loop' = "switch"
  /\ applied_pub' = applied
  /\ status_pub' = status
  /\ UNCHANGED <<linkVars, running, switch, gateVars, goal_buf, goal_seq, applied, status,
                 engaged_flag, late_cancel, converged, server>>

NoSwitchPending ==
  /\ loop = "switch"
  /\ switch = NoSwitch
  /\ loop' = "write"
  /\ UNCHANGED <<linkVars, running, switch, gateVars, goalVars, server>>

(* starting() of the two controllers.  The compliance controller would      *)
(* activate its core again if its gate were engaged; no stopped gate is.    *)
StartedStatus(c) == IF c = "correction" THEN "INACTIVE" ELSE status

(* Mutant: stopping() leaves the command of the last update().              *)
ZeroAtStart ==
  /\ cart_cmd' = IF switch.start = None THEN cart_cmd ELSE None
  /\ UNCHANGED <<connected, fault, misses, clear_requested>>

(* Both starting() and stopping() begin with setZero().                     *)
ZeroAtSwitch ==
  /\ cart_cmd' = None
  /\ UNCHANGED <<connected, fault, misses, clear_requested>>

(* The stops of a switch, then its starts.  stopping() puts the gate to     *)
(* IDLE, and that of the correction controller takes a number for a cancel. *)
SwitchControllers ==
  /\ loop = "switch"
  /\ switch # NoSwitch
  /\ ZeroAtSwitch
  /\ running' = IF switch.start # None THEN switch.start
                ELSE IF switch.stop # None THEN None ELSE running
  /\ gate' = [c \in Controllers |->
                IF c = switch.stop THEN [gate[c] EXCEPT !.mode = "IDLE"] ELSE gate[c]]
  /\ status' = StartedStatus(switch.start)
  /\ IF switch.stop = "correction"
     THEN /\ goal_seq' = goal_seq + 1
          /\ late_cancel' = goal_seq + 1
          /\ loop' = "stopping"
     ELSE /\ loop' = "write"
          /\ UNCHANGED <<goal_seq, late_cancel>>
  /\ switch' = NoSwitch
  /\ UNCHANGED <<mode_buf, mode_new, configured, fault_buf, goal_buf, applied,
                 applied_pub, status_pub, engaged_flag, converged, server>>

(* The write of that cancel to the buffer, which the server may have        *)
(* written since the number was taken.                                      *)
PostLateCancel ==
  /\ loop = "stopping"
  /\ loop' = "write"
  /\ goal_buf' = [seq |-> late_cancel, cancel |-> TRUE]
  /\ late_cancel' = 0
  /\ UNCHANGED <<linkVars, running, switch, gateVars, goal_seq, applied, applied_pub, status,
                 status_pub, engaged_flag, converged, server>>

(* The node publishes the state of the link at most every 20 ms; the delay  *)
(* of the topic is taken as a longer period.                                *)
Write ==
  /\ loop = "write"
  /\ loop' = "read"
  /\ WriteFrame
  /\ fault_buf' \in {fault_buf, fault}
  /\ UNCHANGED <<running, switch, mode_buf, mode_new, gate, configured, goalVars, server>>

ControlLoop ==
  \/ Read
  \/ UpdateNobody
  \/ UpdateCompliance
  \/ UpdateCorrection
  \/ StoreApplied
  \/ NoSwitchPending
  \/ SwitchControllers
  \/ PostLateCancel
  \/ Write

-----------------------------------------------------------------------------
(* The spinner thread.  The callback of a switch blocks it until the        *)
(* control loop has made the switch.                                        *)

DeliverMode(r) ==
  /\ switch = NoSwitch
  /\ mode_buf' = r
  /\ mode_new' = Controllers
  /\ UNCHANGED <<linkVars, loop, running, switch, gate, configured, fault_buf,
                 goalVars, server>>

ResetFaultService ==
  /\ switch = NoSwitch
  /\ RequestFaultClear
  /\ UNCHANGED <<loop, running, switch, gateVars, goalVars, server>>

(* A strict switch: it stops what runs and starts what does not, and the    *)
(* claimed resource is free after its stops.                                *)
RequestSwitch(s) ==
  /\ switch = NoSwitch
  /\ s # NoSwitch
  /\ s.stop \in {None, running}
  /\ s.start # running \/ s.start = None
  /\ s.start = None \/ running = s.stop
  /\ s.stop = "correction" => goal_seq < MaxRequests
  /\ switch' = s
  /\ UNCHANGED <<linkVars, loop, running, gateVars, goalVars, server>>

Spinner ==
  \/ \E r \in ModeRequests : DeliverMode(r)
  \/ ResetFaultService
  \/ \E s \in ManagerSwitches : RequestSwitch(s)

-----------------------------------------------------------------------------
(* The execution thread of the action server.  A request takes a number and *)
(* is posted in two steps.                                                  *)

ServerStep(from, to) ==
  /\ server.at = from
  /\ server' = [server EXCEPT !.at = to]
  /\ UNCHANGED <<linkVars, loop, running, switch, gateVars, goalVars>>

(* A goal is accepted only while engaged; the flag is that of the last      *)
(* update(), which stopping() does not lower.                               *)
AcceptGoal ==
  /\ engaged_flag
  /\ goal_seq < MaxRequests
  /\ ServerStep("idle", "accepted")

(* Mutant: the number of a request is used without being counted.           *)
TakeNumberUncounted(from, to) ==
  /\ server.at = from
  /\ server' = [server EXCEPT !.at = to, !.post = goal_seq + 1]
  /\ UNCHANGED <<linkVars, loop, running, switch, gateVars, goalVars>>

TakeNumber(from, to) ==
  /\ server.at = from
  /\ goal_seq' = goal_seq + 1
  /\ server' = [server EXCEPT !.at = to, !.post = goal_seq + 1]
  /\ UNCHANGED <<linkVars, loop, running, switch, gateVars, goal_buf, applied, applied_pub,
                 status, status_pub, engaged_flag, late_cancel, converged>>

Post(from, cancel, after) ==
  /\ server.at = from
  /\ goal_buf' = [seq |-> server.post, cancel |-> cancel]
  /\ server' = after
  /\ UNCHANGED <<linkVars, loop, running, switch, gateVars, goal_seq, applied, applied_pub,
                 status, status_pub, engaged_flag, late_cancel, converged>>

PostGoal ==
  Post("posting", FALSE, [server EXCEPT !.at = "polling", !.seq = server.post, !.post = 0])

PostCancel ==
  Post("cancelling", TRUE, [server EXCEPT !.at = "polling", !.post = 0, !.cancelled = TRUE])

(* After the deadline the goal is cancelled and reported as aborted.        *)
PostAbandon == Post("abandoning", TRUE, IdleServer)

SubmitGoal ==
  \/ TakeNumber("accepted", "posting")
  \/ PostGoal

Preempt ==
  \/ ~server.cancelled /\ TakeNumber("polling", "cancelling")
  \/ PostCancel

Deadline ==
  \/ TakeNumber("polling", "abandoning")
  \/ PostAbandon

(* The poll reads the number of the applied request, then the status.       *)
SeeApplied ==
  /\ applied_pub >= server.seq
  /\ ServerStep("polling", "applied")

ReadStatus ==
  /\ server.at = "applied"
  /\ server' = IF status_pub = "RUNNING" THEN [server EXCEPT !.at = "polling"] ELSE IdleServer
  /\ UNCHANGED <<linkVars, loop, running, switch, gateVars, goalVars>>

Poll == SeeApplied \/ ReadStatus

ActionServer ==
  \/ AcceptGoal
  \/ SubmitGoal
  \/ Preempt
  \/ Deadline
  \/ Poll

Next == ControlLoop \/ Spinner \/ ActionServer

Spec == Init /\ [][Next]_vars

(* The control loop runs, and a motion that is updated for ever times out.  *)
(* The server submits what it has accepted, posts what it has numbered and  *)
(* polls.  Nothing makes a client cancel; the deadline is not relied upon.  *)
MotionEnds == UpdateCorrection /\ status' # "RUNNING"

FairSpec ==
  /\ Spec
  /\ WF_vars(ControlLoop)
  /\ SF_vars(MotionEnds)
  /\ WF_vars(SubmitGoal)
  /\ WF_vars(PostCancel)
  /\ WF_vars(PostAbandon)
  /\ WF_vars(Poll)

-----------------------------------------------------------------------------
(* Properties.                                                              *)

RsiTypeOK ==
  /\ LinkTypeOK
  /\ loop \in {"read", "update", "stored", "switch", "stopping", "write"}
  /\ running \in Controllers \cup {None}
  /\ switch \in [start : Controllers \cup {None}, stop : Controllers \cup {None}]
  /\ mode_buf \in ModeRecords
  /\ mode_new \subseteq Controllers
  /\ gate \in [Controllers -> ModeRecords]
  /\ configured \in Profiles
  /\ {fault_buf, engaged_flag} \subseteq BOOLEAN
  /\ goal_buf.seq \in 0 .. goal_seq
  /\ applied \in 0 .. goal_seq /\ applied_pub \in 0 .. goal_seq
  /\ {status, status_pub} \subseteq {"INACTIVE", "RUNNING", "CONVERGED", "TIMEOUT"}
  /\ server.at \in {"idle", "accepted", "posting", "polling", "applied", "cancelling",
                    "abandoning"}

(* A correction that goes to the robot was written in the same cycle by the *)
(* controller that still runs, with its gate open: neither a switch nor a   *)
(* fault lets the command of an earlier owner through                       *)
(* (kuka_rsi_robot_hw.cpp, write(); setZero() in starting() and stopping()).*)
CorrectionHasOwner ==
  loop = "write" /\ Answer \in Controllers =>
    Answer = running /\ gate[running].mode \in EngagedModes(running)

(* A goal is reported as converged only if its own motion converged, though *)
(* status and number travel back through two atomics                        *)
(* (cartesian_correction_controller.cpp, the end of update() and the poll). *)
ConvergedIsOwn == [][ReadStatus /\ status_pub = "CONVERGED" => converged = server.seq]_vars

(* While the compliance controller is engaged its core is configured for    *)
(* the profile that its gate reports (the core is configured on the entering*)
(* edge only, force_compliance_controller.cpp, update()).                   *)
CoreMatchesProfile ==
  gate["compliance"].mode \in EngagedModes("compliance") =>
    configured = gate["compliance"].profile

Waiting == server.at \in {"polling", "applied", "cancelling"}

(* A goal that waits is answered without the help of the deadline while the *)
(* correction controller runs, unless its request was overwritten by an     *)
(* older one: the cancel of a stop that took its number before.             *)
GoalAnswered ==
  Waiting ~>
    \/ ~Waiting
    \/ running # "correction"
    \/ goal_buf.seq < server.seq

=============================================================================
