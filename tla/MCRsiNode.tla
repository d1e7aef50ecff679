------------------------------ MODULE MCRsiNode ------------------------------
(***************************************************************************)
(* Small instances of RsiNode.                                             *)
(***************************************************************************)
EXTENDS RsiNode

(* The correction controller alone, switched on and off and back on.        *)
DirectModeRequests ==
  { [mode |-> "IDLE", profile |-> "PRECISION"],
    [mode |-> "DIRECT", profile |-> "PRECISION"] }

CorrectionSwitches ==
  { [start |-> "correction", stop |-> None],
    [start |-> None, stop |-> "correction"] }

(* Both controllers: the robot goes from nobody to the compliance           *)
(* controller, to the correction controller and back to nobody.  COMPLIANCE *)
(* is asked for with either profile, so that the gate meets, and refuses, a *)
(* change of profile without an IDLE that it has seen in between.           *)
HandoverModeRequests ==
  DirectModeRequests \cup
  [mode : {"COMPLIANCE"}, profile : {"PRECISION", "DRAG"}]

HandoverSwitches ==
  { [start |-> "compliance", stop |-> None],
    [start |-> "correction", stop |-> "compliance"],
    [start |-> None, stop |-> "correction"] }

=============================================================================
