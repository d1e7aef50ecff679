------------------------------ MODULE ModeGate ------------------------------
(***************************************************************************)
(* ControllerModeGate with the ModeManagerCore inside it: what a mode      *)
(* request makes of the mode and the profile.  Each controller has a gate. *)
(***************************************************************************)

Modes == {"IDLE", "DIRECT", "COMPLIANCE", "CALIBRATION"}
Profiles == {"DRAG", "PRECISION"}

ModeRecords == [mode : Modes, profile : Profiles]
IdleMode == [mode |-> "IDLE", profile |-> "PRECISION"]

(* Mutant: the profile is taken over in every mode.                         *)
AppliedAnywhere(g, r) ==
  IF g.mode = "IDLE" \/ r.mode \in {"IDLE", g.mode}
  THEN [mode |-> r.mode, profile |-> r.profile]
  ELSE [g EXCEPT !.profile = r.profile]

(* A mode is left for IDLE and entered from IDLE only, and the profile can  *)
(* change only on the IDLE side of either.                                  *)
Applied(g, r) ==
  IF g.mode = "IDLE" \/ r.mode = "IDLE" THEN [mode |-> r.mode, profile |-> r.profile] ELSE g

=============================================================================
