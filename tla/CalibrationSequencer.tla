------------------------ MODULE CalibrationSequencer ------------------------
(***************************************************************************)
(* The payload calibration workflow of soft_force_control_manager          *)
(* (CalibrationSequencer in calibration_sequencer.cpp): for every pose     *)
(* emit a motion goal, wait for its result, let the arm settle, average    *)
(* samples; then solve the payload fit and emit the return move.  It is    *)
(* driven by events (motion results, wrenches, loss of the stream) and by  *)
(* a tick.  Poses are known by their index, and idx = NPoses stands for    *)
(* the return pose.  The settle timer has elapsed, or not, at any tick.    *)
(***************************************************************************)
EXTENDS Naturals

CONSTANTS
  NPoses,           (* poses configured in calibration.yaml                 *)
  SamplesPerPose,   (* wrenches averaged at a pose                          *)
  MinPoses          (* samples the payload estimator needs to solve         *)

ASSUME SequencerAssumption ==
  /\ NPoses \in Nat
  /\ SamplesPerPose \in Nat
  /\ MinPoses \in Nat

VARIABLES
  phase,            (* CalPhase                                             *)
  failure,          (* CalFailure                                           *)
  idx,              (* current pose                                         *)
  goal_pending,     (* the next tick emits the goal of this phase           *)
  sample_count,     (* wrenches averaged so far at this pose                *)
  return_ok,        (* the return move succeeded                            *)
  fit_ok            (* the payload fit is solved                            *)

seqVars == <<phase, failure, idx, goal_pending, sample_count, return_ok, fit_ok>>

ActivePhases == {"MOVING", "SETTLING", "SAMPLING", "RETURNING"}
Phases == ActivePhases \cup {"IDLE", "DONE", "FAILED"}
Failures == {"NONE", "MOVE_FAILED", "SOLVE_FAILED", "STREAM_LOST", "CANCELLED"}

TypeOK ==
  /\ phase \in Phases
  /\ failure \in Failures
  /\ idx \in Nat
  /\ goal_pending \in BOOLEAN
  /\ sample_count \in Nat
  /\ return_ok \in BOOLEAN
  /\ fit_ok \in BOOLEAN

Init ==
  /\ phase = "IDLE"
  /\ failure = "NONE"
  /\ idx = 0
  /\ goal_pending = FALSE
  /\ sample_count = 0
  /\ return_ok = TRUE
  /\ fit_ok = FALSE

Active == phase \in ActivePhases

-----------------------------------------------------------------------------
(* start(): refused while a calibration runs and on an empty configuration. *)

StartAccepts == ~Active /\ NPoses > 0 /\ SamplesPerPose > 0

Start ==
  /\ StartAccepts
  /\ phase' = "MOVING"
  /\ failure' = "NONE"
  /\ idx' = 0
  /\ goal_pending' = TRUE
  /\ sample_count' = 0
  /\ return_ok' = TRUE
  /\ fit_ok' = FALSE

(* fail(): the first failure of an active run ends it and withdraws the     *)
(* goal not yet emitted.                                                    *)
Fail(why) ==
  IF Active
  THEN /\ phase' = "FAILED"
       /\ failure' = why
       /\ goal_pending' = FALSE
       /\ UNCHANGED <<idx, sample_count, return_ok, fit_ok>>
  ELSE UNCHANGED seqVars

Cancel == Fail("CANCELLED")

OnStreamLost == Fail("STREAM_LOST")

(* onMotionResult(): whichever move the result belongs to.                  *)

(* Mutant: every result counts as an arrival.                               *)
AnyResultArrives(success) ==
  /\ phase = "MOVING"
  /\ phase' = "SETTLING"
  /\ UNCHANGED <<failure, idx, goal_pending, sample_count, return_ok, fit_ok>>

MoveEnds(success) ==
  /\ phase = "MOVING"
  /\ IF success
     THEN /\ phase' = "SETTLING"
          /\ UNCHANGED <<failure, idx, goal_pending, sample_count, return_ok, fit_ok>>
     ELSE Fail("MOVE_FAILED")

(* Mutant: a failed return move does not end the run.                       *)
ReturnMustSucceed(success) ==
  /\ phase = "RETURNING"
  /\ phase' = IF success THEN "DONE" ELSE phase
  /\ return_ok' = success
  /\ UNCHANGED <<failure, idx, goal_pending, sample_count, fit_ok>>

(* A failed return move keeps the solved fit.                               *)
ReturnEnds(success) ==
  /\ phase = "RETURNING"
  /\ phase' = "DONE"
  /\ return_ok' = success
  /\ UNCHANGED <<failure, idx, goal_pending, sample_count, fit_ok>>

OnMotionResult(success) ==
  \/ MoveEnds(success)
  \/ ReturnEnds(success)
  \/ /\ phase \notin {"MOVING", "RETURNING"}
     /\ UNCHANGED seqVars

-----------------------------------------------------------------------------
(* onWrench().                                                              *)

(* Mutant: one pose too many.                                               *)
LastPoseOffByOne == idx >= NPoses

LastPose == idx + 1 >= NPoses

LastSample == sample_count + 1 >= SamplesPerPose

(* PayloadEstimator::solve() over NPoses samples: too few are never         *)
(* solvable, enough may still give a singular fit.                          *)
Solvable(ok) == ok => NPoses >= MinPoses

Collect ==
  /\ ~LastSample
  /\ sample_count' = sample_count + 1
  /\ UNCHANGED <<phase, failure, idx, goal_pending, return_ok, fit_ok>>

NextPose ==
  /\ LastSample
  /\ ~LastPose
  /\ sample_count' = sample_count + 1
  /\ idx' = idx + 1
  /\ phase' = "MOVING"
  /\ goal_pending' = TRUE
  /\ UNCHANGED <<failure, return_ok, fit_ok>>

(* Mutant: the return move starts without looking at the fit.               *)
SolveUnchecked(ok) ==
  /\ LastSample
  /\ LastPose
  /\ Solvable(ok)
  /\ fit_ok' = ok
  /\ sample_count' = sample_count + 1
  /\ phase' = "RETURNING"
  /\ goal_pending' = TRUE
  /\ UNCHANGED <<failure, idx, return_ok>>

Solve(ok) ==
  /\ LastSample
  /\ LastPose
  /\ Solvable(ok)
  /\ fit_ok' = ok
  /\ sample_count' = sample_count + 1
  /\ phase' = IF ok THEN "RETURNING" ELSE "FAILED"
  /\ failure' = IF ok THEN failure ELSE "SOLVE_FAILED"
  /\ goal_pending' = ok
  /\ UNCHANGED <<idx, return_ok>>

OnWrench ==
  /\ phase = "SAMPLING"
  /\ \/ Collect
     \/ NextPose
     \/ \E ok \in BOOLEAN : Solve(ok)

-----------------------------------------------------------------------------
(* tick(): the settle timer, then the goal waiting to be emitted.           *)

TickGoal == IF phase = "RETURNING" THEN NPoses ELSE idx

(* Mutant: the emitted goal stays pending.                                  *)
TickKeepsGoal(elapsed) ==
  LET sampling == phase = "SETTLING" /\ elapsed
  IN  /\ phase' = IF sampling THEN "SAMPLING" ELSE phase
      /\ sample_count' = IF sampling THEN 0 ELSE sample_count
      /\ UNCHANGED <<failure, idx, goal_pending, return_ok, fit_ok>>

Tick(elapsed) ==
  LET sampling == phase = "SETTLING" /\ elapsed
  IN  /\ phase' = IF sampling THEN "SAMPLING" ELSE phase
      /\ sample_count' = IF sampling THEN 0 ELSE sample_count
      /\ goal_pending' = FALSE
      /\ UNCHANGED <<failure, idx, return_ok, fit_ok>>

=============================================================================
