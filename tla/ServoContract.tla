---------------------------- MODULE ServoContract ----------------------------
(***************************************************************************)
(* What the manager promises its operator (design spec, section 11, and    *)
(* the comments of SystemStateCore): the robot serves or calibrates, never *)
(* both; either begins only from standstill by an explicit command; a      *)
(* fault ends whatever runs, latches, and leaves the system at standstill  *)
(* after an explicit reset.                                                *)
(***************************************************************************)

VARIABLE duty   (* "stopped", "servo", "calibration" or "latched"           *)

Init == duty = "stopped"

From(old, new) == duty = old /\ duty' = new

Start == From("stopped", "servo")
Stop == From("servo", "stopped")
Calibrate == From("stopped", "calibration")
Finish == From("calibration", "stopped")
Trip == duty' = "latched"
Reset == From("latched", "stopped")

Next == Start \/ Stop \/ Calibrate \/ Finish \/ Trip \/ Reset

Spec == Init /\ [][Next]_duty

=============================================================================
