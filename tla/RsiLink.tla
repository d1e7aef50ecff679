------------------------------- MODULE RsiLink -------------------------------
(***************************************************************************)
(* kuka_rsi_hw_interface: KukaRsiRobotHW with its RsiSessionMonitor.  The  *)
(* controller answers every state frame of the robot within its cycle; the *)
(* frames are numbered (IPOC) and the answer echoes the last number.  Only *)
(* the control thread touches this state, but for clear_requested, which   *)
(* the service callback raises.                                            *)
(***************************************************************************)
EXTENDS Naturals

CONSTANTS
  MaxMisses     (* max_consecutive_timeouts                                 *)

ASSUME LinkAssumption == MaxMisses \in Nat \ {0}

Controllers == {"compliance", "correction"}
None == "none"

VARIABLES
  connected, fault,   (* SessionStats                                       *)
  misses,             (* consecutive_timeouts, saturated at MaxMisses       *)
  clear_requested,
  cart_cmd            (* the author of the correction to send, or None      *)

linkVars == <<connected, fault, misses, clear_requested, cart_cmd>>

(* A frame, whatever its IPOC; no frame within the timeout, or a bad one.   *)
Receptions == {"frame", "miss"}

LinkTypeOK ==
  /\ {connected, fault, clear_requested} \subseteq BOOLEAN
  /\ misses \in 0 .. MaxMisses
  /\ cart_cmd \in Controllers \cup {None}

LinkInit ==
  /\ connected = FALSE
  /\ fault = FALSE
  /\ misses = 0
  /\ clear_requested = FALSE
  /\ cart_cmd = None

(* clearFault(), if it has been requested.                                  *)
FaultBefore == fault /\ ~clear_requested
MissesBefore == IF clear_requested THEN 0 ELSE misses

OnFrame ==
  /\ connected' = TRUE
  /\ misses' = 0
  /\ fault' = FaultBefore

(* A miss before the first frame is benign: the robot has not started.      *)
OnMiss ==
  /\ LET count == IF connected THEN MissesBefore + 1 ELSE MissesBefore
     IN  /\ misses' = IF count > MaxMisses THEN MaxMisses ELSE count
         /\ fault' = (FaultBefore \/ (connected /\ count >= MaxMisses))
  /\ UNCHANGED connected

ReadFrame(reception) ==
  /\ clear_requested' = FALSE
  /\ IF reception = "miss" THEN OnMiss ELSE OnFrame
  /\ UNCHANGED cart_cmd

(* What write() answers: the author of the correction, a zero correction,   *)
(* or a zero correction with the stop flag; without a connection nothing.   *)
Answer ==
  IF ~connected THEN None
  ELSE IF fault THEN "stop"
  ELSE IF cart_cmd = None THEN "zero" ELSE cart_cmd

(* An answer consumes the command.                                          *)
WriteFrame ==
  /\ cart_cmd' = IF Answer = None THEN cart_cmd ELSE None
  /\ UNCHANGED <<connected, fault, misses, clear_requested>>

RequestFaultClear ==
  /\ clear_requested' = TRUE
  /\ UNCHANGED <<connected, fault, misses, cart_cmd>>

=============================================================================
