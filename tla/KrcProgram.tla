----------------------------- MODULE KrcProgram -----------------------------
(***************************************************************************)
(* The KRL program ROS_RSI_SERVO on the robot controller, seen from its    *)
(* EKI channel.  It answers one command per cycle and pushes a heartbeat,  *)
(* except while RSI_MOVECORR runs: that call blocks the whole loop, so     *)
(* that commands wait in the channel and no heartbeat is sent.             *)
(***************************************************************************)
EXTENDS Naturals, Sequences

CONSTANTS
  MaxFrames     (* bound: state frames on their way to the bridge           *)

VARIABLES
  link,         (* the TCP connection: "down" at the bridge, "up", or       *)
                (* "broken": lost, and the bridge has not noticed           *)
  inbox,        (* commands on their way and in the FIFO of the EKI channel *)
  down,         (* state frames on their way to the bridge                  *)
  correcting,   (* RSI_MOVECORR runs (and bRsiActive is TRUE)               *)
  fault,        (* bFault                                                   *)
  acks          (* history: the answers of the program, by Ack.Seq          *)

krcVars == <<link, inbox, down, correcting, fault, acks>>

KrlActions == {"QUERY_STATE", "START_RSI", "STOP_RSI", "SET_MODE", "RESET_FAULT",
               "GET_TOOL", "SET_TOOL_BASE"}

KrcInit ==
  /\ link = "down"
  /\ inbox = <<>>
  /\ down = <<>>
  /\ correcting = FALSE
  /\ fault = FALSE
  /\ acks = {}

(* ROS_SEND_STATE; a frame sent over a lost connection is lost.             *)
SendState(seq, ok, rsi) ==
  down' = IF link = "up" THEN Append(down, [ack |-> seq, ok |-> ok, rsi |-> rsi]) ELSE down

(* Mutant: the RsiActive flag is raised after the answer.                   *)
AnswerBeforeFlag ==
  /\ ~correcting
  /\ inbox # <<>>
  /\ Len(down) < MaxFrames
  /\ inbox' = Tail(inbox)
  /\ LET cmd == Head(inbox)
         ok == ~(cmd.action = "START_RSI" /\ fault)
     IN  /\ correcting' = (cmd.action = "START_RSI" /\ ok)
         /\ fault' = (fault /\ cmd.action # "RESET_FAULT")
         /\ acks' = acks \cup {[seq |-> cmd.seq, ok |-> ok]}
         /\ SendState(cmd.seq, ok, FALSE)
  /\ UNCHANGED link

(* The command path.  START_RSI is refused under a fault; otherwise the     *)
(* answer goes out and RSI_MOVECORR blocks the program.                     *)
Answer ==
  /\ ~correcting
  /\ inbox # <<>>
  /\ Len(down) < MaxFrames
  /\ inbox' = Tail(inbox)
  /\ LET cmd == Head(inbox)
         ok == ~(cmd.action = "START_RSI" /\ fault)
     IN  /\ correcting' = (cmd.action = "START_RSI" /\ ok)
         /\ fault' = (fault /\ cmd.action # "RESET_FAULT")
         /\ acks' = acks \cup {[seq |-> cmd.seq, ok |-> ok]}
         /\ SendState(cmd.seq, ok, correcting')
  /\ UNCHANGED link

Heartbeat ==
  /\ ~correcting
  /\ Len(down) < MaxFrames
  /\ SendState(0, TRUE, FALSE)
  /\ UNCHANGED <<link, inbox, correcting, fault, acks>>

(* RSI_MOVECORR returns: the motion was stopped on the controller.          *)
CorrectionEnds ==
  /\ correcting
  /\ correcting' = FALSE
  /\ UNCHANGED <<link, inbox, down, fault, acks>>

(* The template declares the fault latch and never sets it; the code of the *)
(* site does, and it ends the motion (as injectFault of the mock server).   *)
FaultOccurs ==
  /\ fault' = TRUE
  /\ correcting' = FALSE
  /\ UNCHANGED <<link, inbox, down, acks>>

(* The connection is lost with a part of what is on its way.  What the FIFO *)
(* of the channel has taken in may survive.                                 *)
LinkBreaks ==
  /\ link = "up"
  /\ link' = "broken"
  /\ \E kept \in 0 .. Len(inbox) : inbox' = SubSeq(inbox, 1, kept)
  /\ \E kept \in 0 .. Len(down) : down' = SubSeq(down, 1, kept)
  /\ UNCHANGED <<correcting, fault, acks>>

KrcNext ==
  \/ Answer
  \/ Heartbeat
  \/ CorrectionEnds
  \/ FaultOccurs
  \/ LinkBreaks

=============================================================================
