------------------------ MODULE CalibrationRunProofs ------------------------
(***************************************************************************)
(* Theorems about the calibration sequencer and the client that drives it. *)
(***************************************************************************)
EXTENDS CalibrationRun, SequenceTheorems, TLAPS

USE SequencerAssumption, RunAssumption
USE DEF vars, seqVars, clientVars

-----------------------------------------------------------------------------
(* Whatever results arrive.                                                 *)

(* What makes the bounds and the order inductive: an active run has a       *)
(* configuration, its pose exists, and a pose that is being averaged still  *)
(* lacks a sample.                                                          *)
Progress ==
  /\ Active => NPoses > 0 /\ SamplesPerPose > 0 /\ idx < NPoses
  /\ phase = "SAMPLING" => sample_count < SamplesPerPose

RunInv == RunTypeOK /\ Progress /\ NoGoalWaits /\ FitBeforeReturn

(* The first failure ends a run and keeps the invariant.                    *)
LEMMA FailKeepsRunInv ==
  ASSUME RunInv, NEW why \in Failures, Active, Fail(why),
         goals' = goals, tracked' \in {"none", "own", "stale"}, arrived' \in BOOLEAN
  PROVE  RunInv'
BY DEF RunInv, RunTypeOK, TypeOK, Phases, ActivePhases, Active, Progress, NoGoalWaits,
       FitBeforeReturn, Fail

(* A tick keeps the invariant, whether or not it emits a goal.              *)
LEMMA TickKeepsRunInv ==
  ASSUME RunInv, NEW elapsed \in BOOLEAN, WorkerTick(elapsed)
  PROVE  RunInv'
<1> USE DEF RunInv, RunTypeOK, TypeOK, Phases, ActivePhases, Active, Progress, NoGoalWaits,
            FitBeforeReturn
<1>1. phase' = IF phase = "SETTLING" /\ elapsed THEN "SAMPLING" ELSE phase
  BY DEF WorkerTick, Tick
<1>2. sample_count' = IF phase = "SETTLING" /\ elapsed THEN 0 ELSE sample_count
  BY DEF WorkerTick, Tick
<1>3. goal_pending' = FALSE /\ UNCHANGED <<failure, idx, return_ok, fit_ok, arrived>>
  BY DEF WorkerTick, Tick
<1>4. goals' \in Seq(0..NPoses)
  <2>1. TickGoal \in 0..NPoses
    BY DEF TickGoal
  <2>2. Append(goals, TickGoal) \in Seq(0..NPoses)
    BY <2>1, AppendProperties
  <2> QED
    BY <2>2 DEF WorkerTick
<1>5. tracked' \in {"none", "own", "stale"}
  BY DEF WorkerTick
<1>6. TypeOK'
  BY <1>1, <1>2, <1>3
<1> QED
  BY <1>1, <1>2, <1>3, <1>4, <1>5, <1>6

(* A motion result keeps the invariant, whichever move it belongs to.       *)
LEMMA ResultKeepsRunInv ==
  ASSUME RunInv, NEW success \in BOOLEAN, Result(success)
  PROVE  RunInv'
<1> USE DEF RunInv, RunTypeOK, TypeOK
<1>1. goals' = goals /\ tracked' = "none" /\ arrived' \in BOOLEAN
  BY DEF Result
<1>2. CASE MoveEnds(success)
  <2>1. CASE success
    BY <1>1, <1>2, <2>1 DEF MoveEnds, Phases, ActivePhases, Active, Progress, NoGoalWaits,
                            FitBeforeReturn
  <2>2. CASE ~success
    BY <1>1, <1>2, <2>2, FailKeepsRunInv DEF MoveEnds, Active, ActivePhases, Failures
  <2> QED
    BY <2>1, <2>2
<1>3. CASE ReturnEnds(success)
  BY <1>1, <1>3 DEF ReturnEnds, Phases, ActivePhases, Active, Progress, NoGoalWaits,
                    FitBeforeReturn
<1>4. CASE UNCHANGED seqVars
  BY <1>1, <1>4 DEF Active, Progress, NoGoalWaits, FitBeforeReturn
<1> QED
  BY <1>2, <1>3, <1>4 DEF Result, OnMotionResult

(* A wrench keeps the invariant.                                            *)
LEMMA WrenchKeepsRunInv ==
  ASSUME RunInv, Wrench
  PROVE  RunInv'
<1> USE DEF RunInv, RunTypeOK, TypeOK, Phases, ActivePhases, Active, Progress, NoGoalWaits,
            FitBeforeReturn, LastSample, LastPose
<1>1. phase = "SAMPLING" /\ UNCHANGED <<goals, tracked>> /\ arrived' \in BOOLEAN
  BY DEF Wrench, OnWrench
<1>2. CASE Collect
  BY <1>1, <1>2 DEF Collect
<1>3. CASE NextPose
  BY <1>1, <1>3 DEF NextPose
<1>4. ASSUME NEW ok \in BOOLEAN, Solve(ok) PROVE RunInv'
  BY <1>1, <1>4 DEF Solve, Failures
<1> QED
  BY <1>2, <1>3, <1>4 DEF Wrench, OnWrench

(* Whatever results arrive: the bounds hold, sampling never starts with the *)
(* goal unsent, a failed run holds no goal, and DONE carries a fit over     *)
(* every pose.                                                              *)
THEOREM RunInvHolds == RunSpec => []RunInv
<1>0. <<>> \in Seq(0..NPoses)
  BY EmptySeq
<1>1. RunInit => RunInv
  <2> SUFFICES ASSUME RunInit PROVE RunInv
    OBVIOUS
  <2>1. TypeOK /\ idx = 0
    BY DEF RunInit, Init, TypeOK, Phases, ActivePhases, Failures
  <2>0. sample_count <= SamplesPerPose
    <3>1. sample_count = 0 /\ SamplesPerPose \in Nat
      BY SequencerAssumption DEF RunInit, Init
    <3> QED
      BY <3>1
  <2>2. goals \in Seq(0..NPoses)
    BY <1>0 DEF RunInit
  <2>3. RunTypeOK
    BY <2>0, <2>1, <2>2 DEF RunInit, RunTypeOK
  <2> QED
    BY <2>3 DEF RunInit, Init, RunInv, ActivePhases, Active, Progress, NoGoalWaits,
                FitBeforeReturn
<1>2. RunInv /\ [RunNext]_vars => RunInv'
  <2> SUFFICES ASSUME RunInv, [RunNext]_vars PROVE RunInv'
    OBVIOUS
  <2>1. ASSUME BeginRun PROVE RunInv'
    <3>1. NPoses > 0 /\ SamplesPerPose > 0
      BY <2>1 DEF BeginRun, Start, StartAccepts
    <3>2. /\ TypeOK'
          /\ phase' = "MOVING" /\ idx' = 0 /\ sample_count' = 0 /\ fit_ok' = FALSE
          /\ arrived' = FALSE /\ tracked' \in {"none", "stale"}
      BY <2>1 DEF BeginRun, Start, TypeOK, Phases, ActivePhases, Failures
    <3>3. goals' \in Seq(0..NPoses)
      BY <1>0, <2>1 DEF BeginRun
    <3>4. sample_count' <= SamplesPerPose
      BY <3>1, <3>2
    <3>5. RunTypeOK'
      BY <3>2, <3>3, <3>4 DEF RunTypeOK
    <3> QED
      BY <3>1, <3>2, <3>5 DEF RunInv, ActivePhases, Active, Progress, NoGoalWaits,
                              FitBeforeReturn
  <2>2. ASSUME StreamLost \/ CancelRun PROVE RunInv'
    BY <2>2, FailKeepsRunInv DEF StreamLost, CancelRun, OnStreamLost, Cancel, Failures,
                                 RunInv, RunTypeOK
  <2>3. ASSUME UNCHANGED vars PROVE RunInv'
    BY <2>3 DEF RunInv, RunTypeOK, TypeOK, Active, Progress, NoGoalWaits, FitBeforeReturn
  <2> QED
    BY <2>1, <2>2, <2>3, TickKeepsRunInv, ResultKeepsRunInv, WrenchKeepsRunInv DEF RunNext
<1> QED
  BY <1>1, <1>2, PTL DEF RunSpec

(* The type invariant of the run.                                           *)
THEOREM RunTypeCorrect == RunSpec => []RunTypeOK
<1>1. RunInv => RunTypeOK
  BY DEF RunInv
<1> QED
  BY <1>1, RunInvHolds, PTL

(* No goal waits in SAMPLING or FAILED.                                     *)
THEOREM NoGoalEverWaits == RunSpec => []NoGoalWaits
<1>1. RunInv => NoGoalWaits
  BY DEF RunInv
<1> QED
  BY <1>1, RunInvHolds, PTL

(* The return move and DONE exist only with a solved fit over every pose.   *)
THEOREM FitAlwaysBeforeReturn == RunSpec => []FitBeforeReturn
<1>1. RunInv => FitBeforeReturn
  BY DEF RunInv
<1> QED
  BY <1>1, RunInvHolds, PTL

-----------------------------------------------------------------------------
(* When every result belongs to a move of the running calibration.          *)

(* A goal that waits and a move that is under way exclude one another, and  *)
(* neither lasts beyond MOVING and RETURNING; the goals emitted are one     *)
(* ahead of the poses averaged except while a goal waits.                   *)
OwnResults ==
  /\ tracked # "stale"
  /\ goal_pending => phase \in {"MOVING", "RETURNING"} /\ tracked = "none"
  /\ Active /\ tracked = "own" => phase \in {"MOVING", "RETURNING"}
  /\ phase \in {"SETTLING", "SAMPLING"} => arrived
  /\ Active => Len(goals) = IF goal_pending THEN Averaged ELSE Averaged + 1

OwnInv == RunInv /\ OwnResults

(* A tick emits the goal of the next pose that has not been averaged.       *)
LEMMA TickKeepsOwnResults ==
  ASSUME OwnInv, NEW elapsed \in BOOLEAN, WorkerTick(elapsed)
  PROVE  OwnResults'
<1> USE DEF OwnInv, RunInv, RunTypeOK, TypeOK, OwnResults
<1>1. phase' = IF phase = "SETTLING" /\ elapsed THEN "SAMPLING" ELSE phase
  BY DEF WorkerTick, Tick
<1>2. goal_pending' = FALSE /\ UNCHANGED <<idx, fit_ok, arrived>>
  BY DEF WorkerTick, Tick
<1>3. Active' = Active /\ Averaged' = Averaged
  BY <1>1, <1>2 DEF Active, ActivePhases, Averaged
<1>4. CASE goal_pending
  <2>1. tracked' = "own" /\ phase' = phase
    BY <1>1, <1>4 DEF WorkerTick
  <2>2. Len(goals') = Len(goals) + 1
    BY <1>4 DEF WorkerTick, TickGoal
  <2> QED
    BY <1>2, <1>3, <1>4, <2>1, <2>2
<1>5. CASE ~goal_pending
  <2>1. tracked' = tracked /\ goals' = goals
    BY <1>5 DEF WorkerTick
  <2>2. phase' = "SAMPLING" => phase \in {"SETTLING", "SAMPLING"}
    BY <1>1
  <2>3. Active /\ tracked = "own" => phase' = phase
    BY <1>1
  <2> QED
    BY <1>1, <1>2, <1>3, <1>5, <2>1, <2>2, <2>3
<1> QED
  BY <1>4, <1>5

(* A result ends the one move under way.                                    *)
LEMMA ResultKeepsOwnResults ==
  ASSUME OwnInv, NEW success \in BOOLEAN, Result(success)
  PROVE  OwnResults'
<1> USE DEF OwnInv, RunInv, RunTypeOK, TypeOK, OwnResults
<1>1. tracked = "own" /\ ~goal_pending /\ tracked' = "none" /\ goals' = goals
  BY DEF Result
<1>2. CASE MoveEnds(success)
  <2>1. phase = "MOVING" /\ Active
    BY <1>2 DEF MoveEnds, Active, ActivePhases
  <2>2. CASE success
    <3>1. /\ phase' = "SETTLING"
          /\ UNCHANGED <<goal_pending, idx, fit_ok>>
          /\ arrived'
      BY <1>1, <1>2, <2>1, <2>2 DEF MoveEnds, Result
    <3> QED
      BY <1>1, <2>1, <3>1 DEF Averaged, Active, ActivePhases
  <2>3. CASE ~success
    BY <1>1, <1>2, <2>1, <2>3 DEF MoveEnds, Fail, Active, ActivePhases
  <2> QED
    BY <2>2, <2>3
<1>3. CASE ReturnEnds(success)
  BY <1>1, <1>3 DEF ReturnEnds, Active, ActivePhases
<1>4. CASE phase \notin {"MOVING", "RETURNING"} /\ UNCHANGED seqVars
  BY <1>1, <1>4 DEF Result, Averaged, Active, ActivePhases
<1> QED
  BY <1>2, <1>3, <1>4 DEF Result, OnMotionResult

(* A wrench averages the pose of the last goal emitted.                     *)
LEMMA WrenchKeepsOwnResults ==
  ASSUME OwnInv, Wrench
  PROVE  OwnResults'
<1> USE DEF OwnInv, RunInv, RunTypeOK, TypeOK, OwnResults, Progress, FitBeforeReturn,
            Active, ActivePhases, Averaged
<1>1. /\ phase = "SAMPLING" /\ ~goal_pending /\ tracked = "none" /\ ~fit_ok /\ arrived
      /\ UNCHANGED <<goals, tracked>>
      /\ Len(goals) = idx + 1
      /\ idx' = idx => arrived'
  BY DEF Wrench, OnWrench
<1>2. CASE Collect
  BY <1>1, <1>2 DEF Collect
<1>3. CASE NextPose
  BY <1>1, <1>3 DEF NextPose
<1>4. ASSUME NEW ok \in BOOLEAN, Solve(ok) PROVE OwnResults'
  <2>1. idx + 1 = NPoses /\ idx' = idx
    BY <1>1, <1>4 DEF Solve, LastPose
  <2> QED
    BY <1>1, <1>4, <2>1 DEF Solve
<1> QED
  BY <1>2, <1>3, <1>4 DEF Wrench, OnWrench

(* The invariant of a run that receives its own results only.               *)
THEOREM OwnInvHolds ==
  ASSUME StaleResults = FALSE PROVE RunSpec => []OwnInv
<1>1. RunInit => OwnResults
  BY DEF RunInit, Init, OwnResults, Active, ActivePhases
<1>2. OwnInv /\ [RunNext]_vars => OwnResults'
  <2> SUFFICES ASSUME OwnInv, [RunNext]_vars PROVE OwnResults'
    OBVIOUS
  <2>1. ASSUME BeginRun PROVE OwnResults'
    BY <2>1 DEF BeginRun, Start, OwnResults, Averaged
  <2>2. ASSUME StreamLost \/ CancelRun PROVE OwnResults'
    BY <2>2 DEF StreamLost, CancelRun, OnStreamLost, Cancel, Fail, OwnInv, OwnResults,
                Active, ActivePhases
  <2>3. ASSUME UNCHANGED vars PROVE OwnResults'
    BY <2>3 DEF OwnInv, OwnResults, Active, Averaged
  <2> QED
    BY <2>1, <2>2, <2>3, TickKeepsOwnResults, ResultKeepsOwnResults, WrenchKeepsOwnResults
    DEF RunNext
<1> QED
  BY <1>1, <1>2, RunInvHolds, PTL DEF RunSpec, OwnInv

(* Every wrench is averaged at the goal pose it is filed under.             *)
THEOREM SamplesAlwaysAtGoal ==
  ASSUME StaleResults = FALSE PROVE RunSpec => []SamplesAtGoal
<1>1. OwnInv => SamplesAtGoal
  BY DEF OwnInv, OwnResults, SamplesAtGoal
<1> QED
  BY <1>1, OwnInvHolds, PTL

(* The sequencer implements the calibration plan.                           *)
THEOREM ImplementsPlan ==
  ASSUME StaleResults = FALSE PROVE RunSpec => FollowsPlan
<1> USE DEF Outcome, Averaged, Plan!planVars
<1>1. RunInit => Plan!Init
  BY DEF RunInit, Init, Plan!Init
<1>2. OwnInv /\ [RunNext]_vars => [Plan!Next]_(Plan!planVars)
  <2> SUFFICES ASSUME OwnInv, RunNext PROVE Plan!Next \/ UNCHANGED Plan!planVars
    BY DEF OwnInv
  <2> USE DEF OwnInv, RunInv, RunTypeOK, TypeOK, Phases, ActivePhases, Active, OwnResults,
              Progress, FitBeforeReturn
  <2>1. ASSUME BeginRun PROVE Plan!Begin
    BY <2>1 DEF BeginRun, Start, StartAccepts, Plan!Begin
  <2>2. ASSUME NEW elapsed \in BOOLEAN, WorkerTick(elapsed)
        PROVE  Plan!EmitGoal \/ UNCHANGED Plan!planVars
    <3>1. UNCHANGED <<Outcome, Averaged>>
      BY <2>2 DEF WorkerTick, Tick
    <3>2. CASE goal_pending
      <4>1. TickGoal = Averaged
        BY <3>2 DEF TickGoal
      <4>2. goals' = Append(goals, Averaged)
        BY <2>2, <3>2, <4>1 DEF WorkerTick
      <4>3. Outcome = "running" /\ Len(goals) = Averaged
        BY <3>2
      <4> QED
        BY <3>1, <4>2, <4>3 DEF Plan!EmitGoal
    <3>3. CASE ~goal_pending
      BY <2>2, <3>1, <3>3 DEF WorkerTick
    <3> QED
      BY <3>2, <3>3
  <2>3. ASSUME NEW success \in BOOLEAN, Result(success)
        PROVE  Plan!Abort \/ Plan!Finish \/ UNCHANGED Plan!planVars
    <3>1. tracked = "own" /\ ~goal_pending /\ goals' = goals
      BY <2>3 DEF Result
    <3>2. CASE MoveEnds(success)
      <4>1. CASE success
        BY <3>1, <3>2, <4>1 DEF MoveEnds
      <4>2. CASE ~success
        BY <3>1, <3>2, <4>2 DEF MoveEnds, Fail, Plan!Abort
      <4> QED
        BY <4>1, <4>2
    <3>3. CASE ReturnEnds(success)
      BY <3>1, <3>3 DEF ReturnEnds, Plan!Finish
    <3>4. CASE UNCHANGED seqVars
      BY <3>1, <3>4
    <3> QED
      BY <2>3, <3>2, <3>3, <3>4 DEF Result, OnMotionResult
  <2>4. ASSUME Wrench PROVE Plan!Average \/ Plan!Abort \/ UNCHANGED Plan!planVars
    <3>1. /\ phase = "SAMPLING" /\ ~goal_pending /\ ~fit_ok
          /\ goals' = goals /\ Len(goals) = idx + 1
      BY <2>4 DEF Wrench, OnWrench
    <3>2. CASE Collect
      BY <3>1, <3>2 DEF Collect
    <3>3. CASE NextPose
      BY <3>1, <3>3 DEF NextPose, Plan!Average
    <3>4. ASSUME NEW ok \in BOOLEAN, Solve(ok) PROVE Plan!Average \/ Plan!Abort
      <4>1. idx + 1 = NPoses
        BY <3>1, <3>4 DEF Solve, LastPose
      <4>2. CASE ok
        BY <3>1, <3>4, <4>1, <4>2 DEF Solve, Plan!Average
      <4>3. CASE ~ok
        BY <3>1, <3>4, <4>3 DEF Solve, Plan!Abort
      <4> QED
        BY <4>2, <4>3
    <3> QED
      BY <2>4, <3>2, <3>3, <3>4 DEF Wrench, OnWrench
  <2>5. ASSUME StreamLost \/ CancelRun PROVE Plan!Abort
    BY <2>5 DEF StreamLost, CancelRun, OnStreamLost, Cancel, Fail, Plan!Abort
  <2> QED
    BY <2>1, <2>2, <2>3, <2>4, <2>5 DEF RunNext, Plan!Next
<1> QED
  BY <1>1, <1>2, OwnInvHolds, PTL DEF RunSpec, FollowsPlan, Plan!Spec

=============================================================================
