--------------------------- MODULE CalibrationPlan ---------------------------
(***************************************************************************)
(* What a calibration run promises (class comment of CalibrationSequencer): *)
(* one goal per pose, in the configured order, each emitted only when the  *)
(* pose before it has been averaged; the return move only after the last   *)
(* pose; and no goal at all after a failure.                               *)
(***************************************************************************)
EXTENDS Naturals, Sequences

CONSTANT NPoses

VARIABLES
  outcome,   (* "none", "running", "done" or "failed"                       *)
  goals,     (* goals emitted in this run; NPoses is the return move        *)
  sampled    (* poses averaged in this run                                  *)

planVars == <<outcome, goals, sampled>>

Init ==
  /\ outcome = "none"
  /\ goals = <<>>
  /\ sampled = 0

Begin ==
  /\ outcome # "running"
  /\ outcome' = "running"
  /\ goals' = <<>>
  /\ sampled' = 0

EmitGoal ==
  /\ outcome = "running"
  /\ Len(goals) = sampled
  /\ goals' = Append(goals, sampled)
  /\ UNCHANGED <<outcome, sampled>>

Average ==
  /\ outcome = "running"
  /\ sampled < NPoses
  /\ Len(goals) = sampled + 1
  /\ sampled' = sampled + 1
  /\ UNCHANGED <<outcome, goals>>

Finish ==
  /\ outcome = "running"
  /\ Len(goals) = NPoses + 1
  /\ outcome' = "done"
  /\ UNCHANGED <<goals, sampled>>

Abort ==
  /\ outcome = "running"
  /\ outcome' = "failed"
  /\ UNCHANGED <<goals, sampled>>

Next == Begin \/ EmitGoal \/ Average \/ Finish \/ Abort

Spec == Init /\ [][Next]_planVars

=============================================================================
