--------------------------- MODULE CalibrationRun ---------------------------
(***************************************************************************)
(* The calibration sequencer between the two things that drive it: the     *)
(* manager's worker, which ticks it and hands the emitted goals to the     *)
(* motion action client, and that client, which reports the result of the  *)
(* goal it tracks.  actionlib's SimpleActionClient tracks the last goal    *)
(* sent: sending a goal forgets the one before it, but starting a          *)
(* calibration does not, so the result of a move of an aborted run may     *)
(* arrive in the next one until that run has sent its first goal.          *)
(***************************************************************************)
EXTENDS CalibrationSequencer, Sequences

CONSTANT StaleResults   (* such late results happen                         *)

ASSUME RunAssumption == StaleResults \in BOOLEAN

VARIABLES
  goals,     (* history: goals emitted in this run                          *)
  tracked,   (* the move the client waits for: "none", of this run ("own")  *)
             (* or of an earlier one ("stale")                              *)
  arrived    (* history: this pose's own move has reported success          *)

clientVars == <<goals, tracked, arrived>>
vars == <<seqVars, clientVars>>

RunTypeOK ==
  /\ TypeOK
  /\ idx < NPoses \/ idx = 0
  /\ sample_count <= SamplesPerPose
  /\ goals \in Seq(0..NPoses)
  /\ tracked \in {"none", "own", "stale"}
  /\ arrived \in BOOLEAN

RunInit ==
  /\ Init
  /\ goals = <<>>
  /\ tracked = "none"
  /\ arrived = FALSE

-----------------------------------------------------------------------------

BeginRun ==
  /\ Start
  /\ goals' = <<>>
  /\ tracked' = IF StaleResults /\ tracked # "none" THEN "stale" ELSE "none"
  /\ arrived' = FALSE

(* The worker's tick and ops_.sendMotionGoal.                               *)
WorkerTick(elapsed) ==
  /\ Tick(elapsed)
  /\ goals' = IF goal_pending THEN Append(goals, TickGoal) ELSE goals
  /\ tracked' = IF goal_pending THEN "own" ELSE tracked
  /\ UNCHANGED arrived

Result(success) ==
  /\ tracked # "none"
  /\ OnMotionResult(success)
  /\ tracked' = "none"
  /\ arrived' = IF phase = "MOVING" THEN success /\ tracked = "own" /\ ~goal_pending
                ELSE arrived
  /\ UNCHANGED goals

Wrench ==
  /\ OnWrench
  /\ arrived' = IF idx' = idx THEN arrived ELSE FALSE
  /\ UNCHANGED <<goals, tracked>>

StreamLost ==
  /\ Active
  /\ OnStreamLost
  /\ UNCHANGED clientVars

CancelRun ==
  /\ Active
  /\ Cancel
  /\ UNCHANGED clientVars

RunNext ==
  \/ BeginRun
  \/ \E elapsed \in BOOLEAN : WorkerTick(elapsed)
  \/ \E success \in BOOLEAN : Result(success)
  \/ Wrench
  \/ StreamLost
  \/ CancelRun

(* The worker ticks forever; the motion server answers every goal (its      *)
(* controller times a move out) and wrenches keep coming while the sensor   *)
(* streams (a silent sensor is StreamLost); the settle time passes.         *)
RunFairness ==
  /\ WF_vars(WorkerTick(TRUE))
  /\ WF_vars(\E success \in BOOLEAN : Result(success))
  /\ WF_vars(Wrench)

RunSpec == RunInit /\ [][RunNext]_vars

FairRunSpec == RunSpec /\ RunFairness

-----------------------------------------------------------------------------
(* Properties.                                                              *)

(* The estimator uses the goal pose and no robot readback (decision 5), so  *)
(* a wrench may be averaged for a pose only after the move to that very     *)
(* pose has been emitted and has reported success.                          *)
SamplesAtGoal == phase = "SAMPLING" => arrived /\ ~goal_pending

(* Weaker, and true whatever results arrive: sampling never starts with the *)
(* pose's goal still waiting to be emitted, and a failed run holds no goal. *)
NoGoalWaits == phase \in {"SAMPLING", "FAILED"} => ~goal_pending

(* The return move and DONE exist only with a solved fit over every pose,   *)
(* so DONE, which the action server reports as success, always carries a    *)
(* fit, whatever the return move did.                                       *)
FitBeforeReturn ==
  /\ phase \in {"RETURNING", "DONE"} => fit_ok /\ idx = NPoses - 1
  /\ fit_ok => phase \in {"RETURNING", "DONE", "FAILED"}

(* Every run ends, whatever happens to its moves, to the stream and to the  *)
(* operator's patience.                                                     *)
RunEnds == Active ~> ~Active

Outcome ==
  IF phase = "IDLE" THEN "none"
  ELSE IF phase = "DONE" THEN "done"
  ELSE IF phase = "FAILED" THEN "failed" ELSE "running"

Averaged == IF fit_ok THEN NPoses ELSE idx

Plan == INSTANCE CalibrationPlan WITH outcome <- Outcome, sampled <- Averaged

(* The sequencer implements the plan when every result belongs to a move of *)
(* the running calibration.                                                 *)
FollowsPlan == Plan!Spec

=============================================================================
