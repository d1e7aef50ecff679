---------------------------- MODULE RsiNodeProofs ----------------------------
(***************************************************************************)
(* The node of the RSI hardware interface, for every set of mode messages  *)
(* and switches, any number of requests and any tolerance of misses: who   *)
(* moves the robot, for which profile, and whose goal has converged.       *)
(***************************************************************************)
EXTENDS RsiNode, TLAPS

ServerStates ==
  {"idle", "accepted", "posting", "polling", "applied", "cancelling", "abandoning"}

ServerRecords == [at : ServerStates, seq : Nat, post : Nat, cancelled : BOOLEAN]

ServerTypeOK ==
  /\ server \in ServerRecords
  /\ server.seq \in 0 .. goal_seq
  /\ server.post \in 0 .. goal_seq

(* Every number in use has been taken.                                      *)
NumbersOK ==
  /\ goal_seq \in Nat
  /\ goal_buf \in [seq : 0 .. goal_seq, cancel : BOOLEAN]
  /\ applied \in 0 .. goal_seq
  /\ applied_pub \in 0 .. goal_seq
  /\ late_cancel \in 0 .. goal_seq
  /\ converged \in 0 .. goal_seq

LoopTypeOK ==
  /\ loop \in {"read", "update", "stored", "switch", "stopping", "write"}
  /\ running \in Controllers \cup {None}
  /\ switch \in [start : Controllers \cup {None}, stop : Controllers \cup {None}]

GateTypeOK ==
  /\ mode_buf \in ModeRecords
  /\ mode_new \subseteq Controllers
  /\ gate \in [Controllers -> ModeRecords]
  /\ configured \in Profiles
  /\ fault_buf \in BOOLEAN

MotionTypeOK ==
  /\ engaged_flag \in BOOLEAN
  /\ {status, status_pub} \subseteq {"INACTIVE", "RUNNING", "CONVERGED", "TIMEOUT"}

NodeTypeInv ==
  /\ LinkTypeOK
  /\ LoopTypeOK
  /\ GateTypeOK
  /\ MotionTypeOK
  /\ NumbersOK
  /\ ServerTypeOK

-----------------------------------------------------------------------------
(* Types.                                                                   *)

(* The steps of the node on its link, whichever thread makes them.          *)
LinkStep ==
  \/ UNCHANGED linkVars
  \/ \E reception \in Receptions : ReadFrame(reception)
  \/ WriteFrame
  \/ RequestFaultClear
  \/ \E author \in Controllers \cup {None} : Output(author)

LEMMA LinkStepOfNext ==
  ASSUME Next, LoopTypeOK
  PROVE  LinkStep
<1>1. CASE ControlLoop
  <2>1. CASE Read
    BY <2>1 DEF Read, LinkStep
  <2>2. CASE UpdateCompliance
    <3>1. Output(None) \/ Output("compliance")
      BY <2>2 DEF UpdateCompliance
    <3> QED
      BY <3>1 DEF LinkStep, Controllers
  <2>3. CASE UpdateCorrection
    <3>1. Output(None) \/ Output("correction")
      BY <2>3 DEF UpdateCorrection, Motion
    <3> QED
      BY <3>1 DEF LinkStep, Controllers
  <2>4. CASE SwitchControllers
    <3>1. Output(None)
      BY <2>4 DEF SwitchControllers, ZeroAtSwitch, Output
    <3> QED
      BY <3>1 DEF LinkStep
  <2>5. CASE Write
    BY <2>5 DEF Write, LinkStep
  <2>6. CASE UpdateNobody \/ StoreApplied \/ NoSwitchPending \/ PostLateCancel
    BY <2>6 DEF UpdateNobody, StoreApplied, NoSwitchPending, PostLateCancel, LinkStep
  <2> QED
    BY <1>1, <2>1, <2>2, <2>3, <2>4, <2>5, <2>6 DEF ControlLoop
<1>2. CASE Spinner
  BY <1>2 DEF Spinner, DeliverMode, ResetFaultService, RequestSwitch, LinkStep
<1>3. CASE ActionServer
  BY <1>3 DEF ActionServer, AcceptGoal, SubmitGoal, Preempt, Deadline, Poll, ServerStep,
              TakeNumber, PostGoal, PostCancel, PostAbandon, Post, SeeApplied, ReadStatus,
              LinkStep
<1> QED
  BY <1>1, <1>2, <1>3 DEF Next

LEMMA LinkStepKeepsType ==
  ASSUME LinkTypeOK, LinkStep
  PROVE  LinkTypeOK'
<1> USE LinkAssumption
<1>1. CASE UNCHANGED linkVars
  BY <1>1 DEF linkVars, LinkTypeOK
<1>2. ASSUME NEW reception \in Receptions, ReadFrame(reception)
      PROVE  LinkTypeOK'
  <2>1. clear_requested' \in BOOLEAN /\ cart_cmd' \in Controllers \cup {None}
    BY <1>2 DEF ReadFrame, LinkTypeOK
  <2>2. connected' \in BOOLEAN /\ fault' \in BOOLEAN
    BY <1>2 DEF ReadFrame, OnFrame, OnMiss, FaultBefore, LinkTypeOK
  <2>3. misses' \in 0 .. MaxMisses
    BY <1>2 DEF ReadFrame, OnFrame, OnMiss, MissesBefore, LinkTypeOK
  <2> QED
    BY <2>1, <2>2, <2>3 DEF LinkTypeOK
<1>3. CASE WriteFrame
  BY <1>3 DEF WriteFrame, LinkTypeOK
<1>4. CASE RequestFaultClear
  BY <1>4 DEF RequestFaultClear, LinkTypeOK
<1>5. CASE \E author \in Controllers \cup {None} : Output(author)
  BY <1>5 DEF Output, LinkTypeOK
<1> QED
  BY <1>1, <1>2, <1>3, <1>4, <1>5 DEF LinkStep

(* What a request makes of a gate is again the state of a gate.             *)
LEMMA AppliedType ==
  ASSUME NEW g \in ModeRecords, NEW r \in ModeRecords
  PROVE  Applied(g, r) \in ModeRecords
BY DEF Applied, ModeRecords

LEMMA GateAfterType ==
  ASSUME GateTypeOK, NEW c \in Controllers
  PROVE  GateAfter(c) \in ModeRecords
BY AppliedType DEF GateAfter, GateTypeOK

LEMMA LoopTypeStep ==
  ASSUME LoopTypeOK, Next
  PROVE  LoopTypeOK'
<1>1. CASE Read \/ UpdateNobody \/ UpdateCompliance \/ UpdateCorrection \/ StoreApplied
             \/ NoSwitchPending \/ PostLateCancel \/ Write
  BY <1>1 DEF Read, UpdateNobody, UpdateCompliance, UpdateCorrection, StoreApplied,
              NoSwitchPending, PostLateCancel, Write, LoopTypeOK
<1>2. CASE SwitchControllers
  BY <1>2 DEF SwitchControllers, NoSwitch, LoopTypeOK
<1>3. CASE Spinner
  BY <1>3, NodeAssumption DEF Spinner, DeliverMode, ResetFaultService, RequestSwitch, LoopTypeOK
<1>4. CASE ActionServer
  BY <1>4 DEF ActionServer, AcceptGoal, SubmitGoal, Preempt, Deadline, Poll, ServerStep,
              TakeNumber, PostGoal, PostCancel, PostAbandon, Post, SeeApplied, ReadStatus,
              LoopTypeOK
<1> QED
  BY <1>1, <1>2, <1>3, <1>4 DEF Next, ControlLoop

(* An update gives the gate of the running controller its new mode, a       *)
(* switch idles that of the stopped one, and nothing else moves a gate.     *)
GateStep ==
  \/ UNCHANGED gate
  \/ running \in Controllers /\ ApplyMode(running)
  \/ /\ SwitchControllers
     /\ gate' = [c \in Controllers |->
                   IF c = switch.stop THEN [gate[c] EXCEPT !.mode = "IDLE"] ELSE gate[c]]

LEMMA GateStepOfNext ==
  ASSUME Next
  PROVE  GateStep
<1>1. CASE UpdateCompliance \/ UpdateCorrection
  BY <1>1 DEF UpdateCompliance, UpdateCorrection, Controllers, GateStep
<1>2. CASE SwitchControllers
  BY <1>2 DEF SwitchControllers, GateStep
<1>3. CASE Read \/ UpdateNobody \/ StoreApplied \/ NoSwitchPending \/ PostLateCancel \/ Write
  BY <1>3 DEF Read, UpdateNobody, StoreApplied, NoSwitchPending, PostLateCancel, Write,
              gateVars, GateStep
<1>4. CASE Spinner
  BY <1>4 DEF Spinner, DeliverMode, ResetFaultService, RequestSwitch, gateVars, GateStep
<1>5. CASE ActionServer
  BY <1>5 DEF ActionServer, AcceptGoal, SubmitGoal, Preempt, Deadline, Poll, ServerStep,
              TakeNumber, PostGoal, PostCancel, PostAbandon, Post, SeeApplied, ReadStatus,
              gateVars, GateStep
<1> QED
  BY <1>1, <1>2, <1>3, <1>4, <1>5 DEF Next, ControlLoop

LEMMA GateTypeStep ==
  ASSUME GateTypeOK, LinkTypeOK, Next
  PROVE  GateTypeOK'
<1>1. gate' \in [Controllers -> ModeRecords]
  <2>1. CASE UNCHANGED gate
    BY <2>1 DEF GateTypeOK
  <2>2. CASE running \in Controllers /\ ApplyMode(running)
    BY <2>2, GateAfterType DEF ApplyMode, GateTypeOK
  <2>3. CASE SwitchControllers
    <3>1. \A c \in Controllers : [gate[c] EXCEPT !.mode = "IDLE"] \in ModeRecords
      BY DEF GateTypeOK, ModeRecords, Modes
    <3>2. gate' = [c \in Controllers |->
                     IF c = switch.stop THEN [gate[c] EXCEPT !.mode = "IDLE"] ELSE gate[c]]
      BY <2>3 DEF SwitchControllers
    <3> QED
      BY <3>1, <3>2 DEF GateTypeOK
  <2> QED
    BY GateStepOfNext, <2>1, <2>2, <2>3 DEF GateStep
<1>2. mode_buf' \in ModeRecords /\ mode_new' \subseteq Controllers /\ configured' \in Profiles
      /\ fault_buf' \in BOOLEAN
  <2>1. CASE UpdateCompliance
    <3>1. GateAfter(running) \in ModeRecords
      BY <2>1, GateAfterType DEF UpdateCompliance, Controllers
    <3> QED
      BY <2>1, <3>1 DEF UpdateCompliance, ApplyMode, GateTypeOK, ModeRecords
  <2>2. CASE UpdateCorrection
    BY <2>2 DEF UpdateCorrection, ApplyMode, GateTypeOK
  <2>3. CASE Write
    BY <2>3 DEF Write, GateTypeOK, LinkTypeOK
  <2>4. CASE Read \/ UpdateNobody \/ StoreApplied \/ NoSwitchPending \/ PostLateCancel
               \/ SwitchControllers
    BY <2>4 DEF Read, UpdateNobody, StoreApplied, NoSwitchPending, PostLateCancel,
                SwitchControllers, gateVars, GateTypeOK
  <2>5. CASE Spinner
    BY <2>5, NodeAssumption
       DEF Spinner, DeliverMode, ResetFaultService, RequestSwitch, gateVars, GateTypeOK
  <2>6. CASE ActionServer
    BY <2>6 DEF ActionServer, AcceptGoal, SubmitGoal, Preempt, Deadline, Poll, ServerStep,
                TakeNumber, PostGoal, PostCancel, PostAbandon, Post, SeeApplied, ReadStatus,
                gateVars, GateTypeOK
  <2> QED
    BY <2>1, <2>2, <2>3, <2>4, <2>5, <2>6 DEF Next, ControlLoop
<1> QED
  BY <1>1, <1>2 DEF GateTypeOK

LEMMA MotionTypeStep ==
  ASSUME MotionTypeOK, GateTypeOK, LinkTypeOK, Next
  PROVE  MotionTypeOK'
<1>1. CASE UpdateCorrection
  <2>1. StatusBefore \in {"INACTIVE", "RUNNING", "CONVERGED", "TIMEOUT"}
    BY DEF StatusBefore, MotionTypeOK
  <2>2. status' \in {"INACTIVE", "RUNNING", "CONVERGED", "TIMEOUT"}
    BY <1>1, <2>1 DEF UpdateCorrection, Motion
  <2>3. status_pub' = status' /\ engaged_flag' \in BOOLEAN
    BY <1>1 DEF UpdateCorrection, PublishStatus, EngagedAfter
  <2> QED
    BY <2>2, <2>3 DEF MotionTypeOK
<1>2. CASE SwitchControllers
  BY <1>2 DEF SwitchControllers, StartedStatus, MotionTypeOK
<1>3. CASE Read \/ UpdateNobody \/ UpdateCompliance \/ StoreApplied \/ NoSwitchPending
             \/ PostLateCancel \/ Write
  BY <1>3 DEF Read, UpdateNobody, UpdateCompliance, StoreApplied, NoSwitchPending,
              PostLateCancel, Write, goalVars, MotionTypeOK
<1>4. CASE Spinner
  BY <1>4 DEF Spinner, DeliverMode, ResetFaultService, RequestSwitch, goalVars, MotionTypeOK
<1>5. CASE ActionServer
  BY <1>5 DEF ActionServer, AcceptGoal, SubmitGoal, Preempt, Deadline, Poll, ServerStep,
              TakeNumber, PostGoal, PostCancel, PostAbandon, Post, SeeApplied, ReadStatus,
              goalVars, MotionTypeOK
<1> QED
  BY <1>1, <1>2, <1>3, <1>4, <1>5 DEF Next, ControlLoop

(* The records that the server's steps make of its state.                   *)
LEMMA ServerRecordSteps ==
  ASSUME NEW s \in ServerRecords, NEW at \in ServerStates, NEW n \in Nat
  PROVE  /\ [s EXCEPT !.at = at] \in ServerRecords
         /\ [s EXCEPT !.at = at, !.post = n] \in ServerRecords
         /\ [s EXCEPT !.at = at, !.seq = s.post, !.post = n] \in ServerRecords
         /\ [s EXCEPT !.at = at, !.post = n, !.cancelled = TRUE] \in ServerRecords
         /\ IdleServer \in ServerRecords
<1>1. IdleServer \in ServerRecords
  BY DEF IdleServer, ServerRecords, ServerStates
<1>2. /\ [s EXCEPT !.at = at] \in ServerRecords
      /\ [s EXCEPT !.at = at, !.post = n] \in ServerRecords
  BY DEF ServerRecords
<1>3. [s EXCEPT !.at = at, !.seq = s.post, !.post = n] \in ServerRecords
  BY DEF ServerRecords
<1>4. [s EXCEPT !.at = at, !.post = n, !.cancelled = TRUE] \in ServerRecords
  BY DEF ServerRecords
<1> QED
  BY <1>1, <1>2, <1>3, <1>4

(* A step of the server that takes no number and posts none.                *)
LEMMA ServerMoveKeepsTypes ==
  ASSUME NumbersOK, ServerTypeOK, AcceptGoal \/ SeeApplied \/ ReadStatus
  PROVE  NumbersOK' /\ ServerTypeOK'
<1>1. UNCHANGED goalVars
  BY DEF AcceptGoal, SeeApplied, ReadStatus, ServerStep
<1>2. NumbersOK'
  BY <1>1 DEF goalVars, NumbersOK
<1>3. \/ server' = [server EXCEPT !.at = "accepted"]
      \/ server' = [server EXCEPT !.at = "polling"]
      \/ server' = [server EXCEPT !.at = "applied"]
      \/ server' = IdleServer
  BY DEF AcceptGoal, SeeApplied, ReadStatus, ServerStep
<1>4. goal_seq' = goal_seq /\ goal_seq \in Nat
  BY <1>1 DEF goalVars, NumbersOK
<1>5. ASSUME NEW at \in {"accepted", "polling", "applied"}, server' = [server EXCEPT !.at = at]
      PROVE  ServerTypeOK'
  <2>1. server' \in ServerRecords
    BY <1>5, ServerRecordSteps DEF ServerTypeOK, ServerStates
  <2>2. server'.seq = server.seq /\ server'.post = server.post
    BY <1>5 DEF ServerTypeOK, ServerRecords
  <2>3. server'.seq \in 0 .. goal_seq' /\ server'.post \in 0 .. goal_seq'
    BY <1>4, <2>2 DEF ServerTypeOK
  <2> QED
    BY <2>1, <2>3 DEF ServerTypeOK
<1>6. CASE server' = IdleServer
  <2>1. server' \in ServerRecords
    BY <1>6, ServerRecordSteps DEF ServerTypeOK, ServerStates
  <2>2. server'.seq = 0 /\ server'.post = 0
    BY <1>6 DEF IdleServer
  <2>3. server'.seq \in 0 .. goal_seq' /\ server'.post \in 0 .. goal_seq'
    BY <1>4, <2>2
  <2> QED
    BY <1>2, <2>1, <2>3 DEF ServerTypeOK
<1> QED
  BY <1>2, <1>3, <1>5, <1>6

LEMMA TakeNumberKeepsTypes ==
  ASSUME NumbersOK, ServerTypeOK, NEW from,
         NEW to \in {"posting", "cancelling", "abandoning"}, TakeNumber(from, to)
  PROVE  NumbersOK' /\ ServerTypeOK'
<1>1. /\ goal_seq' = goal_seq + 1
      /\ server' = [server EXCEPT !.at = to, !.post = goal_seq + 1]
      /\ UNCHANGED <<goal_buf, applied, applied_pub, late_cancel, converged>>
  BY DEF TakeNumber
<1>2. NumbersOK'
  BY <1>1 DEF NumbersOK
<1>3. server' \in ServerRecords
  <2>1. goal_seq + 1 \in Nat /\ to \in ServerStates
    BY DEF NumbersOK, ServerStates
  <2> QED
    BY <1>1, <2>1, ServerRecordSteps DEF ServerTypeOK
<1>4. server'.seq = server.seq /\ server'.post = goal_seq + 1
  BY <1>1 DEF ServerTypeOK, ServerRecords
<1> QED
  BY <1>1, <1>2, <1>3, <1>4 DEF NumbersOK, ServerTypeOK

LEMMA PostKeepsTypes ==
  ASSUME NumbersOK, ServerTypeOK, PostGoal \/ PostCancel \/ PostAbandon
  PROVE  NumbersOK' /\ ServerTypeOK'
<1>1. /\ UNCHANGED <<goal_seq, applied, applied_pub, late_cancel, converged>>
      /\ \/ goal_buf' = [seq |-> server.post, cancel |-> FALSE]
         \/ goal_buf' = [seq |-> server.post, cancel |-> TRUE]
      /\ \/ server' = [server EXCEPT !.at = "polling", !.seq = server.post, !.post = 0]
         \/ server' = [server EXCEPT !.at = "polling", !.post = 0, !.cancelled = TRUE]
         \/ server' = IdleServer
  BY DEF PostGoal, PostCancel, PostAbandon, Post
<1>2. NumbersOK'
  <2>1. server.post \in 0 .. goal_seq
    BY DEF ServerTypeOK
  <2>2. goal_buf' \in [seq : 0 .. goal_seq, cancel : BOOLEAN]
    <3>1. ASSUME NEW n \in 0 .. goal_seq, NEW b \in BOOLEAN
          PROVE  [seq |-> n, cancel |-> b] \in [seq : 0 .. goal_seq, cancel : BOOLEAN]
      OBVIOUS
    <3> QED
      BY <1>1, <2>1, <3>1
  <2> QED
    BY <1>1, <2>2 DEF NumbersOK
<1>3. goal_seq' = goal_seq /\ goal_seq \in Nat
  BY <1>1 DEF NumbersOK
<1>4. server \in ServerRecords /\ 0 \in Nat /\ "polling" \in ServerStates
  BY DEF ServerTypeOK, ServerStates
<1>5. server' \in ServerRecords
  <2>1. /\ [server EXCEPT !.at = "polling", !.seq = server.post, !.post = 0] \in ServerRecords
        /\ [server EXCEPT !.at = "polling", !.post = 0, !.cancelled = TRUE] \in ServerRecords
        /\ IdleServer \in ServerRecords
    BY <1>4, ServerRecordSteps, Zenon
  <2> QED
    BY <1>1, <2>1
<1>6. server'.seq \in {server.seq, server.post, 0} /\ server'.post = 0
  <2>1. CASE server' = [server EXCEPT !.at = "polling", !.seq = server.post, !.post = 0]
    BY <1>4, <2>1 DEF ServerRecords
  <2>2. CASE server' = [server EXCEPT !.at = "polling", !.post = 0, !.cancelled = TRUE]
    BY <1>4, <2>2 DEF ServerRecords
  <2>3. CASE server' = IdleServer
    BY <2>3 DEF IdleServer
  <2> QED
    BY <1>1, <2>1, <2>2, <2>3
<1>7. server'.seq \in 0 .. goal_seq' /\ server'.post \in 0 .. goal_seq'
  BY <1>3, <1>6 DEF ServerTypeOK
<1> QED
  BY <1>2, <1>5, <1>7 DEF ServerTypeOK

LEMMA LoopKeepsNumbers ==
  ASSUME NumbersOK, ServerTypeOK, ControlLoop
  PROVE  NumbersOK' /\ ServerTypeOK'
<1>1. CASE UpdateCorrection
  <2>1. /\ applied' = goal_buf.seq /\ converged' \in {goal_buf.seq, converged}
        /\ UNCHANGED <<goal_buf, goal_seq, applied_pub, late_cancel, server>>
    BY <1>1 DEF UpdateCorrection, PublishStatus
  <2> QED
    BY <2>1 DEF NumbersOK, ServerTypeOK
<1>2. CASE StoreApplied
  BY <1>2 DEF StoreApplied, NumbersOK, ServerTypeOK
<1>3. CASE SwitchControllers
  <2>1. /\ \/ goal_seq' = goal_seq + 1 /\ late_cancel' = goal_seq + 1
           \/ UNCHANGED <<goal_seq, late_cancel>>
        /\ UNCHANGED <<goal_buf, applied, applied_pub, converged, server>>
    BY <1>3 DEF SwitchControllers
  <2> QED
    BY <2>1 DEF NumbersOK, ServerTypeOK
<1>4. CASE PostLateCancel
  BY <1>4 DEF PostLateCancel, NumbersOK, ServerTypeOK
<1>5. CASE Read \/ UpdateNobody \/ UpdateCompliance \/ NoSwitchPending \/ Write
  BY <1>5 DEF Read, UpdateNobody, UpdateCompliance, NoSwitchPending, Write, goalVars,
              NumbersOK, ServerTypeOK
<1> QED
  BY <1>1, <1>2, <1>3, <1>4, <1>5 DEF ControlLoop

LEMMA NumbersStep ==
  ASSUME NumbersOK, ServerTypeOK, Next
  PROVE  NumbersOK' /\ ServerTypeOK'
<1>1. CASE Spinner
  BY <1>1 DEF Spinner, DeliverMode, ResetFaultService, RequestSwitch, goalVars, NumbersOK,
              ServerTypeOK
<1>2. CASE ActionServer
  <2>1. CASE AcceptGoal \/ Poll
    BY <2>1, ServerMoveKeepsTypes DEF Poll
  <2>2. CASE SubmitGoal \/ Preempt \/ Deadline
    BY <2>2, TakeNumberKeepsTypes, PostKeepsTypes DEF SubmitGoal, Preempt, Deadline
  <2> QED
    BY <1>2, <2>1, <2>2 DEF ActionServer
<1> QED
  BY <1>1, <1>2, LoopKeepsNumbers DEF Next

LEMMA TypesInit ==
  ASSUME Init
  PROVE  NodeTypeInv
<1> USE LinkAssumption DEF Init
<1>1. LinkTypeOK
  <2>1. {connected, fault, clear_requested} \subseteq BOOLEAN
    BY DEF LinkInit
  <2> QED
    BY <2>1 DEF LinkInit, LinkTypeOK
<1>2. LoopTypeOK /\ MotionTypeOK
  BY DEF LoopTypeOK, MotionTypeOK, NoSwitch
<1>3. GateTypeOK
  BY DEF GateTypeOK, IdleMode, ModeRecords, Modes, Profiles
<1>4. NumbersOK /\ ServerTypeOK
  BY DEF NumbersOK, ServerTypeOK, ServerRecords, ServerStates, NoRequest, IdleServer
<1> QED
  BY <1>1, <1>2, <1>3, <1>4 DEF NodeTypeInv

LEMMA TypesStutter ==
  ASSUME NodeTypeInv, UNCHANGED vars
  PROVE  NodeTypeInv'
BY DEF NodeTypeInv, LinkTypeOK, LoopTypeOK, GateTypeOK, MotionTypeOK, NumbersOK, ServerTypeOK,
       vars, linkVars, gateVars, goalVars

LEMMA TypesInvariant == Spec => []NodeTypeInv
<1>1. Init => NodeTypeInv
  BY TypesInit
<1>2. NodeTypeInv /\ [Next]_vars => NodeTypeInv'
  <2> SUFFICES ASSUME NodeTypeInv, [Next]_vars
               PROVE  NodeTypeInv'
    OBVIOUS
  <2>1. CASE Next
    BY <2>1, LinkStepOfNext, LinkStepKeepsType, LoopTypeStep, GateTypeStep, MotionTypeStep,
       NumbersStep DEF NodeTypeInv
  <2> QED
    BY <2>1, TypesStutter
<1> QED
  BY <1>1, <1>2, PTL DEF Spec

(* Everything in the process keeps its type, and no buffer or thread holds  *)
(* the number of a request that was not counted                             *)
(* (cartesian_correction_controller.cpp, goal_seq_).                        *)
THEOREM NodeTypesHold == Spec => []RsiTypeOK
<1>1. NodeTypeInv => RsiTypeOK
  BY DEF NodeTypeInv, LoopTypeOK, GateTypeOK, MotionTypeOK, NumbersOK, ServerTypeOK,
         ServerRecords, ServerStates, RsiTypeOK
<1> QED
  BY <1>1, TypesInvariant, PTL

-----------------------------------------------------------------------------
(* The owner of the correction.  A command outlives the cycle in which it   *)
(* was written while there is no connection, so that the invariant speaks   *)
(* of every step of the loop and not of write() alone.                      *)

OwnerInv ==
  cart_cmd # None => cart_cmd = running /\ gate[running].mode \in EngagedModes(running)

LEMMA UpdateKeepsOwner ==
  ASSUME NodeTypeInv, OwnerInv, UpdateCompliance \/ UpdateCorrection
  PROVE  OwnerInv'
<1>1. running \in Controllers /\ running' = running /\ ApplyMode(running)
  BY DEF UpdateCompliance, UpdateCorrection, Controllers
<1>2. \/ cart_cmd' = None
      \/ cart_cmd' = running /\ GateAfter(running).mode \in EngagedModes(running)
  <2>1. CASE UpdateCompliance
    BY <2>1 DEF UpdateCompliance, Output, EngagedAfter
  <2>2. CASE UpdateCorrection
    BY <2>2 DEF UpdateCorrection, Motion, Output, EngagedAfter
  <2> QED
    BY <2>1, <2>2
<1>3. gate'[running] = GateAfter(running)
  BY <1>1 DEF ApplyMode, NodeTypeInv, GateTypeOK
<1> QED
  BY <1>1, <1>2, <1>3 DEF OwnerInv, EngagedModes

LEMMA OwnerStep ==
  ASSUME NodeTypeInv, OwnerInv, Next
  PROVE  OwnerInv'
<1>1. CASE SwitchControllers
  BY <1>1 DEF SwitchControllers, ZeroAtSwitch, OwnerInv
<1>2. CASE Read
  BY <1>2 DEF Read, ReadFrame, gateVars, OwnerInv, EngagedModes
<1>3. CASE Write
  BY <1>3 DEF Write, WriteFrame, OwnerInv, EngagedModes
<1>4. CASE UpdateNobody \/ StoreApplied \/ NoSwitchPending \/ PostLateCancel
  BY <1>4 DEF UpdateNobody, StoreApplied, NoSwitchPending, PostLateCancel, linkVars, gateVars,
              OwnerInv, EngagedModes
<1>5. CASE Spinner
  BY <1>5 DEF Spinner, DeliverMode, ResetFaultService, RequestFaultClear, RequestSwitch,
              linkVars, gateVars, OwnerInv, EngagedModes
<1>6. CASE ActionServer
  BY <1>6 DEF ActionServer, AcceptGoal, SubmitGoal, Preempt, Deadline, Poll, ServerStep,
              TakeNumber, PostGoal, PostCancel, PostAbandon, Post, SeeApplied, ReadStatus,
              linkVars, gateVars, OwnerInv, EngagedModes
<1> QED
  BY <1>1, <1>2, <1>3, <1>4, <1>5, <1>6, UpdateKeepsOwner DEF Next, ControlLoop

(* Whatever the modes, faults and switches, a correction that goes to the   *)
(* robot is that of the controller that runs, with its gate open            *)
(* (kuka_rsi_robot_hw.cpp, write(); setZero() in starting() and stopping()).*)
THEOREM CorrectionAlwaysOwned == Spec => []CorrectionHasOwner
<1>1. Init => OwnerInv
  BY DEF Init, LinkInit, OwnerInv
<1>2. NodeTypeInv /\ OwnerInv /\ [Next]_vars => OwnerInv'
  <2> SUFFICES ASSUME NodeTypeInv, OwnerInv, [Next]_vars
               PROVE  OwnerInv'
    OBVIOUS
  <2>1. CASE UNCHANGED vars
    BY <2>1 DEF vars, linkVars, gateVars, OwnerInv, EngagedModes
  <2> QED
    BY <2>1, OwnerStep
<1>3. OwnerInv => CorrectionHasOwner
  BY DEF OwnerInv, CorrectionHasOwner, Answer, Controllers, None
<1> QED
  BY <1>1, <1>2, <1>3, TypesInvariant, PTL DEF Spec

-----------------------------------------------------------------------------
(* The profile of the compliance core.                                      *)

(* A gate that is engaged keeps its profile; one that becomes engaged makes *)
(* update() configure the core.                                             *)
LEMMA ComplianceUpdateMatches ==
  ASSUME NodeTypeInv, CoreMatchesProfile, UpdateCompliance
  PROVE  CoreMatchesProfile'
<1> DEFINE c == "compliance"
<1>1. c \in Controllers /\ running = c /\ gate'[c] = GateAfter(c)
  BY DEF UpdateCompliance, ApplyMode, Controllers, NodeTypeInv, GateTypeOK
<1>2. configured' = IF Entered(c) THEN GateAfter(c).profile ELSE configured
  BY <1>1 DEF UpdateCompliance
<1>3. EngagedModes(c) = {"COMPLIANCE"}
  BY DEF EngagedModes
<1>4. gate[c].mode = "COMPLIANCE" /\ GateAfter(c).mode = "COMPLIANCE"
        => GateAfter(c) = gate[c]
  BY DEF GateAfter, Applied
<1> QED
  BY <1>1, <1>2, <1>3, <1>4 DEF CoreMatchesProfile, Entered

LEMMA ProfileStep ==
  ASSUME NodeTypeInv, CoreMatchesProfile, Next
  PROVE  CoreMatchesProfile'
<1>1. CASE UpdateCompliance
  BY <1>1, ComplianceUpdateMatches
<1>2. CASE UpdateCorrection
  <2>1. gate'["compliance"] = gate["compliance"]
    BY <1>2 DEF UpdateCorrection, ApplyMode, Controllers, NodeTypeInv, GateTypeOK
  <2> QED
    BY <1>2, <2>1 DEF UpdateCorrection, CoreMatchesProfile, EngagedModes
<1>3. CASE SwitchControllers
  <2>1. "compliance" \in Controllers
    BY DEF Controllers
  <2>2. gate'["compliance"].mode = "IDLE" \/ gate'["compliance"] = gate["compliance"]
    BY <1>3, <2>1 DEF SwitchControllers, NodeTypeInv, GateTypeOK, ModeRecords
  <2> QED
    BY <1>3, <2>2 DEF SwitchControllers, CoreMatchesProfile, EngagedModes
<1>4. CASE Read \/ UpdateNobody \/ StoreApplied \/ NoSwitchPending \/ PostLateCancel \/ Write
  BY <1>4 DEF Read, UpdateNobody, StoreApplied, NoSwitchPending, PostLateCancel, Write,
              gateVars, CoreMatchesProfile, EngagedModes
<1>5. CASE Spinner
  BY <1>5 DEF Spinner, DeliverMode, ResetFaultService, RequestSwitch, gateVars,
              CoreMatchesProfile, EngagedModes
<1>6. CASE ActionServer
  BY <1>6 DEF ActionServer, AcceptGoal, SubmitGoal, Preempt, Deadline, Poll, ServerStep,
              TakeNumber, PostGoal, PostCancel, PostAbandon, Post, SeeApplied, ReadStatus,
              gateVars, CoreMatchesProfile, EngagedModes
<1> QED
  BY <1>1, <1>2, <1>3, <1>4, <1>5, <1>6 DEF Next, ControlLoop

(* An engaged compliance controller runs with the parameters of the profile *)
(* that its gate reports, whatever profiles the mode messages carry         *)
(* (force_compliance_controller.cpp, update()).                             *)
THEOREM CoreAlwaysMatchesProfile == Spec => []CoreMatchesProfile
<1>1. Init => CoreMatchesProfile
  BY DEF Init, IdleMode, CoreMatchesProfile, EngagedModes, Controllers
<1>2. NodeTypeInv /\ CoreMatchesProfile /\ [Next]_vars => CoreMatchesProfile'
  <2> SUFFICES ASSUME NodeTypeInv, CoreMatchesProfile, [Next]_vars
               PROVE  CoreMatchesProfile'
    OBVIOUS
  <2>1. CASE UNCHANGED vars
    BY <2>1 DEF vars, gateVars, CoreMatchesProfile, EngagedModes
  <2> QED
    BY <2>1, ProfileStep
<1> QED
  BY <1>1, <1>2, TypesInvariant, PTL DEF Spec

-----------------------------------------------------------------------------
(* Whose goal has converged.  Requests are numbered before they are posted, *)
(* by two threads: the buffer, and with it the number of the last applied   *)
(* request, may go back to an older one.                                    *)

(* The number of the goal that the server has numbered last.                *)
Current == IF server.at = "posting" THEN server.post ELSE server.seq

HasGoal == server.at \in {"posting", "polling", "applied", "cancelling", "abandoning"}

(* The number of a stop is taken by the thread that applies the requests.   *)
StopIsLater == loop = "stopping" => applied < late_cancel /\ applied_pub < late_cancel

CancelIsLater == server.at \in {"cancelling", "abandoning"} => server.post > server.seq

(* Once a request as late as the current goal has been applied, nothing     *)
(* older than the goal is applied any more.                                 *)
NotOvertaken ==
  /\ HasGoal /\ (applied >= Current \/ applied_pub >= Current) =>
       goal_buf.seq >= Current /\ applied >= Current
  /\ server.at = "applied" => applied >= Current

(* A motion that converged is that of the request applied last.             *)
ConvergedApplied ==
  /\ status = "CONVERGED" => converged = applied
  /\ status_pub = "CONVERGED" => converged = applied

(* No goal in the buffer or in motion is later than the current one.        *)
LatestGoal ==
  HasGoal =>
    /\ ~goal_buf.cancel => goal_buf.seq <= Current
    /\ status \in {"RUNNING", "CONVERGED"} => applied <= Current
    /\ converged <= Current

GoalInv ==
  /\ StopIsLater
  /\ CancelIsLater
  /\ NotOvertaken
  /\ ConvergedApplied
  /\ LatestGoal

(* The steps that touch neither the requests nor the server.                *)
GoalQuiet ==
  /\ UNCHANGED <<goalVars, server>>
  /\ loop' = "stopping" => loop = "stopping"

LEMMA QuietKeepsGoals ==
  ASSUME GoalInv, GoalQuiet
  PROVE  GoalInv'
BY DEF GoalInv, GoalQuiet, goalVars, StopIsLater, CancelIsLater, NotOvertaken, ConvergedApplied,
       LatestGoal, HasGoal, Current

LEMMA QuietSteps ==
  ASSUME \/ Read \/ UpdateNobody \/ UpdateCompliance \/ NoSwitchPending \/ Write
         \/ Spinner \/ UNCHANGED vars
  PROVE  GoalQuiet
BY DEF Read, UpdateNobody, UpdateCompliance, NoSwitchPending, Write, Spinner, DeliverMode,
       ResetFaultService, RequestSwitch, vars, GoalQuiet

(* The status that an update leaves is that of a goal only if the request   *)
(* is one, or was the one in motion.                                        *)
LEMMA MotionIsOfGoal ==
  ASSUME MotionTypeOK, Motion, status' \in {"RUNNING", "CONVERGED"}
  PROVE  \/ goal_buf.seq # applied /\ ~goal_buf.cancel
         \/ goal_buf.seq = applied /\ status \in {"RUNNING", "CONVERGED"}
<1>1. StatusBefore \in {"RUNNING", "CONVERGED"}
  BY DEF Motion
<1> QED
  BY <1>1 DEF StatusBefore

LEMMA UpdateKeepsGoals ==
  ASSUME NodeTypeInv, GoalInv, UpdateCorrection
  PROVE  GoalInv'
<1>1. /\ loop = "update" /\ loop' = "stored"
      /\ applied' = goal_buf.seq /\ Motion
      /\ converged' = IF status' = "CONVERGED" THEN goal_buf.seq ELSE converged
      /\ status_pub' = status'
      /\ UNCHANGED <<goal_buf, goal_seq, applied_pub, late_cancel, server>>
  BY DEF UpdateCorrection, PublishStatus
<1>2. NumbersOK /\ ServerTypeOK
  BY DEF NodeTypeInv
<1>3. StopIsLater' /\ CancelIsLater' /\ ConvergedApplied'
  BY <1>1 DEF GoalInv, StopIsLater, CancelIsLater, ConvergedApplied
<1>4. NotOvertaken'
  BY <1>1, <1>2 DEF GoalInv, NotOvertaken, HasGoal, Current, NumbersOK, ServerTypeOK
<1>5. HasGoal /\ status' \in {"RUNNING", "CONVERGED"} => applied' <= Current
  BY <1>1, MotionIsOfGoal DEF GoalInv, LatestGoal, NodeTypeInv
<1>6. LatestGoal'
  BY <1>1, <1>2, <1>5 DEF GoalInv, LatestGoal, HasGoal, Current
<1> QED
  BY <1>3, <1>4, <1>6 DEF GoalInv

LEMMA StoreKeepsGoals ==
  ASSUME NodeTypeInv, GoalInv, StoreApplied
  PROVE  GoalInv'
<1>1. /\ loop' = "switch" /\ applied_pub' = applied /\ status_pub' = status
      /\ UNCHANGED <<goal_buf, goal_seq, applied, status, late_cancel, converged, server>>
  BY DEF StoreApplied
<1> QED
  BY <1>1 DEF GoalInv, StopIsLater, CancelIsLater, NotOvertaken, ConvergedApplied, LatestGoal,
              HasGoal, Current

LEMMA SwitchKeepsGoals ==
  ASSUME NodeTypeInv, GoalInv, SwitchControllers
  PROVE  GoalInv'
<1>1. /\ loop' = "stopping" => late_cancel' = goal_seq + 1
      /\ status' \in {"INACTIVE", status}
      /\ UNCHANGED <<goal_buf, applied, applied_pub, status_pub, converged, server>>
  BY DEF SwitchControllers, StartedStatus
<1>2. StopIsLater'
  BY <1>1 DEF NodeTypeInv, NumbersOK, StopIsLater
<1>3. CancelIsLater' /\ NotOvertaken' /\ ConvergedApplied' /\ LatestGoal'
  BY <1>1 DEF GoalInv, CancelIsLater, NotOvertaken, ConvergedApplied, LatestGoal, HasGoal,
              Current
<1> QED
  BY <1>2, <1>3 DEF GoalInv

(* The cancel of a stop may take the place of a later goal; that goal has   *)
(* then not been applied.                                                   *)
LEMMA LateCancelKeepsGoals ==
  ASSUME NodeTypeInv, GoalInv, PostLateCancel
  PROVE  GoalInv'
<1>1. /\ loop = "stopping" /\ loop' = "write"
      /\ goal_buf' = [seq |-> late_cancel, cancel |-> TRUE]
      /\ UNCHANGED <<goal_seq, applied, applied_pub, status, status_pub, converged, server>>
  BY DEF PostLateCancel
<1>2. goal_buf'.seq = late_cancel /\ goal_buf'.cancel
  BY <1>1
<1>3. StopIsLater' /\ CancelIsLater' /\ ConvergedApplied' /\ LatestGoal'
  BY <1>1, <1>2 DEF GoalInv, StopIsLater, CancelIsLater, ConvergedApplied, LatestGoal, HasGoal,
                    Current
<1>4. NotOvertaken'
  BY <1>1, <1>2 DEF GoalInv, StopIsLater, NotOvertaken, HasGoal, Current, NodeTypeInv,
                    NumbersOK, ServerTypeOK
<1> QED
  BY <1>3, <1>4 DEF GoalInv

LEMMA TakeNumberKeepsGoals ==
  ASSUME NodeTypeInv, GoalInv,
         \/ TakeNumber("accepted", "posting")
         \/ TakeNumber("polling", "cancelling")
         \/ TakeNumber("polling", "abandoning")
  PROVE  GoalInv'
<1>1. PICK from \in ServerStates, to \in ServerStates :
        /\ <<from, to>> \in {<<"accepted", "posting">>, <<"polling", "cancelling">>,
                             <<"polling", "abandoning">>}
        /\ TakeNumber(from, to)
  BY DEF ServerStates
<1>2. NumbersOK /\ server \in ServerRecords /\ server.seq \in 0 .. goal_seq
  BY DEF NodeTypeInv, ServerTypeOK
<1>3. /\ server.at = from /\ server'.at = to
      /\ server'.post = goal_seq + 1 /\ server'.seq = server.seq
      /\ UNCHANGED <<loop, goal_buf, applied, applied_pub, status, status_pub, late_cancel,
                     converged>>
  BY <1>1, <1>2 DEF TakeNumber, ServerRecords
<1>4. StopIsLater' /\ CancelIsLater' /\ ConvergedApplied'
  BY <1>2, <1>3 DEF GoalInv, StopIsLater, CancelIsLater, ConvergedApplied, NumbersOK
<1>5. CASE from = "accepted" /\ to = "posting"
  <2>1. HasGoal' /\ Current' = goal_seq + 1 /\ server'.at # "applied"
    BY <1>3, <1>5 DEF HasGoal, Current
  <2>2. NotOvertaken' /\ LatestGoal'
    BY <1>2, <1>3, <2>1 DEF NotOvertaken, LatestGoal, NumbersOK
  <2> QED
    BY <1>4, <2>2 DEF GoalInv
<1>6. CASE from = "polling" /\ to \in {"cancelling", "abandoning"}
  <2>1. HasGoal /\ Current' = Current /\ server'.at # "applied"
    BY <1>3, <1>6 DEF HasGoal, Current
  <2>2. NotOvertaken' /\ LatestGoal'
    BY <1>3, <2>1 DEF GoalInv, NotOvertaken, LatestGoal
  <2> QED
    BY <1>4, <2>2 DEF GoalInv
<1> QED
  BY <1>1, <1>5, <1>6

LEMMA PostKeepsGoals ==
  ASSUME NodeTypeInv, GoalInv, PostGoal \/ PostCancel \/ PostAbandon
  PROVE  GoalInv'
<1>1. NumbersOK /\ server \in ServerRecords
  BY DEF NodeTypeInv, ServerTypeOK
<1>2. UNCHANGED <<loop, goal_seq, applied, applied_pub, status, status_pub, late_cancel,
                  converged>>
  BY DEF PostGoal, PostCancel, PostAbandon, Post
<1>3. StopIsLater' /\ ConvergedApplied'
  BY <1>2 DEF GoalInv, StopIsLater, ConvergedApplied
<1>4. CASE PostGoal
  <2>1. /\ server.at = "posting" /\ goal_buf' = [seq |-> server.post, cancel |-> FALSE]
        /\ server' = [server EXCEPT !.at = "polling", !.seq = server.post, !.post = 0]
    BY <1>4 DEF PostGoal, Post
  <2>2. HasGoal /\ HasGoal' /\ server'.at = "polling" /\ Current' = Current
        /\ goal_buf'.seq = Current
    BY <1>1, <2>1 DEF HasGoal, Current, ServerRecords
  <2>3. CancelIsLater'
    BY <2>2 DEF CancelIsLater
  <2>4. Current \in Nat
    BY <1>1 DEF Current, ServerRecords
  <2>5. NotOvertaken' /\ LatestGoal'
    BY <1>2, <2>2, <2>4 DEF GoalInv, NotOvertaken, LatestGoal
  <2> QED
    BY <1>3, <2>3, <2>5 DEF GoalInv
<1>5. CASE PostCancel
  <2>1. /\ server.at = "cancelling" /\ goal_buf' = [seq |-> server.post, cancel |-> TRUE]
        /\ server' = [server EXCEPT !.at = "polling", !.post = 0, !.cancelled = TRUE]
    BY <1>5 DEF PostCancel, Post
  <2>2. HasGoal /\ HasGoal' /\ server'.at = "polling" /\ Current' = Current
        /\ goal_buf'.seq = server.post /\ goal_buf'.cancel
    BY <1>1, <2>1 DEF HasGoal, Current, ServerRecords
  <2>3. CancelIsLater'
    BY <2>2 DEF CancelIsLater
  <2>4. server.post > Current /\ Current \in Nat /\ server.post \in Nat
    BY <1>1, <2>1 DEF GoalInv, CancelIsLater, Current, ServerRecords
  <2>5. NotOvertaken' /\ LatestGoal'
    BY <1>2, <2>2, <2>4 DEF GoalInv, NotOvertaken, LatestGoal
  <2> QED
    BY <1>3, <2>3, <2>5 DEF GoalInv
<1>6. CASE PostAbandon
  <2>1. server'.at = "idle"
    BY <1>6 DEF PostAbandon, Post, IdleServer
  <2>2. CancelIsLater' /\ NotOvertaken' /\ LatestGoal'
    BY <2>1 DEF CancelIsLater, NotOvertaken, LatestGoal, HasGoal
  <2> QED
    BY <1>3, <2>2 DEF GoalInv
<1> QED
  BY <1>4, <1>5, <1>6

LEMMA PollKeepsGoals ==
  ASSUME NodeTypeInv, GoalInv, AcceptGoal \/ SeeApplied \/ ReadStatus
  PROVE  GoalInv'
<1>1. server \in ServerRecords
  BY DEF NodeTypeInv, ServerTypeOK
<1>2. UNCHANGED <<loop, goalVars>>
  BY DEF AcceptGoal, SeeApplied, ReadStatus, ServerStep
<1>3. StopIsLater' /\ ConvergedApplied'
  BY <1>2 DEF goalVars, GoalInv, StopIsLater, ConvergedApplied
<1>4. \/ server'.at \in {"idle", "accepted"}
      \/ /\ server.at = "polling" /\ applied_pub >= server.seq /\ server'.at = "applied"
         /\ server'.seq = server.seq
      \/ /\ server.at = "applied" /\ server'.at = "polling" /\ server'.seq = server.seq
  BY <1>1 DEF AcceptGoal, SeeApplied, ReadStatus, ServerStep, IdleServer, ServerRecords
<1>5. CASE server'.at \in {"idle", "accepted"}
  <2>1. CancelIsLater' /\ NotOvertaken' /\ LatestGoal'
    BY <1>5 DEF CancelIsLater, NotOvertaken, LatestGoal, HasGoal
  <2> QED
    BY <1>3, <2>1 DEF GoalInv
<1>6. CASE /\ server.at \in {"polling", "applied"} /\ server'.at \in {"polling", "applied"}
           /\ server'.seq = server.seq
           /\ server'.at = "applied" => applied_pub >= server.seq
  <2>1. HasGoal /\ Current' = Current /\ Current = server.seq
    BY <1>6 DEF HasGoal, Current
  <2>2. CancelIsLater' /\ LatestGoal'
    BY <1>2, <1>6, <2>1 DEF goalVars, GoalInv, CancelIsLater, LatestGoal
  <2>3. NotOvertaken'
    BY <1>2, <1>6, <2>1 DEF goalVars, GoalInv, NotOvertaken
  <2> QED
    BY <1>3, <2>2, <2>3 DEF GoalInv
<1> QED
  BY <1>4, <1>5, <1>6

LEMMA GoalStep ==
  ASSUME NodeTypeInv, GoalInv, [Next]_vars
  PROVE  GoalInv'
<1>1. CASE ControlLoop
  BY <1>1, QuietSteps, QuietKeepsGoals, UpdateKeepsGoals, StoreKeepsGoals, SwitchKeepsGoals,
     LateCancelKeepsGoals DEF ControlLoop
<1>2. CASE ActionServer
  BY <1>2, TakeNumberKeepsGoals, PostKeepsGoals, PollKeepsGoals
     DEF ActionServer, SubmitGoal, Preempt, Deadline, Poll
<1> QED
  BY <1>1, <1>2, QuietSteps, QuietKeepsGoals DEF Next

LEMMA GoalsInvariant == Spec => []GoalInv
<1>1. Init => GoalInv
  BY DEF Init, IdleServer, GoalInv, StopIsLater, CancelIsLater, NotOvertaken, ConvergedApplied,
         LatestGoal, HasGoal
<1> QED
  BY <1>1, GoalStep, TypesInvariant, PTL DEF Spec

(* A goal that is reported as converged is the one whose motion converged,  *)
(* however the cancels of stops and of the client are interleaved with it:  *)
(* the number and the status that the poll reads in two steps belong        *)
(* together (cartesian_correction_controller.cpp, the end of update() and   *)
(* the poll).                                                               *)
THEOREM ConvergedAlwaysOwn == Spec => ConvergedIsOwn
<1>1. NodeTypeInv /\ GoalInv /\ [Next]_vars
        => [ReadStatus /\ status_pub = "CONVERGED" => converged = server.seq]_vars
  <2> SUFFICES ASSUME NodeTypeInv, GoalInv, ReadStatus, status_pub = "CONVERGED"
               PROVE  converged = server.seq
    OBVIOUS
  <2>1. server.at = "applied" /\ HasGoal /\ Current = server.seq
    BY DEF ReadStatus, HasGoal, Current
  <2>2. converged = applied /\ applied >= server.seq /\ converged <= server.seq
    BY <2>1 DEF GoalInv, ConvergedApplied, NotOvertaken, LatestGoal
  <2> QED
    BY <2>2 DEF NodeTypeInv, NumbersOK, ServerTypeOK
<1> QED
  BY <1>1, GoalsInvariant, TypesInvariant, PTL DEF Spec, ConvergedIsOwn

=============================================================================
