------------------------------ MODULE SriDriver ------------------------------
(***************************************************************************)
(* sri_force_torque_driver: SriDriverRuntime with its SriStreamSession, the*)
(* services of its node and the sensor, which behaves as the mock server   *)
(* does.  Threads: the receiving thread, which owns the connection, and the*)
(* one spinner thread of the node, which blocks in requestZero().  They    *)
(* share the session under a mutex; a section under it is one action.      *)
(*                                                                         *)
(* Wrenches and the counters of the status are left out.  A bias is told   *)
(* from its successor by one bit, and so is a connection.                  *)
(***************************************************************************)
EXTENDS SriFrame

CONSTANTS
  ZeroSamples,  (* zero_sample_count                                        *)
  None          (* nothing, a value of its own                              *)

(* What becomes of a capture; "unheard": a reconnect took its verdict back. *)
Fates == {"taken", "refused", "unheard"}

ASSUME DriverAssumption ==
  /\ ZeroSamples \in Nat \ {0}
  /\ None \notin Nat \cup Fates

VARIABLES
  sensor,           (* the far end: absent, accepted or streaming           *)
  order,            (* an AT+GSD is on its way to it                        *)
  pipe,             (* what is on its way from it                           *)
  io,               (* where the receiving thread is                        *)
  connected,        (* connected_                                           *)
  assembler,
  zero_remaining,
  last_zero_ok,
  bias,             (* flips with every bias taken                          *)
  filter,           (* the bias and connection of the first sample that the *)
                    (* filter holds, or None                                *)
  request,          (* where requestZero() is                               *)
  returned,         (* what the last request returned                       *)
  connection,       (* history: flips with every connection                 *)
  since,            (* history: samples since the request and the connection*)
  capture,          (* history: the fate of the request's own capture       *)
  misled            (* history: a false header since the last whole frame   *)

sensorVars == <<sensor, order, pipe>>
sessionVars == <<assembler, zero_remaining, last_zero_ok, bias, filter>>
requestVars == <<request, returned>>
historyVars == <<connection, since, capture, misled>>
vars == <<sensorVars, io, connected, sessionVars, requestVars, historyVars>>

Init ==
  /\ sensor = "absent" /\ order = FALSE /\ pipe = <<>>
  /\ io = "down" /\ connected = FALSE
  /\ assembler = Hunting
  /\ zero_remaining = 0 /\ last_zero_ok = FALSE
  /\ bias = 0 /\ filter = None
  /\ request = "idle" /\ returned = None
  /\ connection = 0 /\ since = 0 /\ capture = None
  /\ misled = FALSE

-----------------------------------------------------------------------------
(* The sensor.                                                              *)

Serve ==
  /\ sensor # "absent" /\ order
  /\ sensor' = "streaming"
  /\ order' = FALSE
  /\ pipe' = pipe \o Ack
  /\ UNCHANGED <<io, connected, sessionVars, requestVars, historyVars>>

(* Bound: the next frame is sent when the last one has been read.           *)
SendFrame ==
  /\ sensor = "streaming"
  /\ pipe = <<>>
  /\ pipe' \in Frames
  /\ UNCHANGED <<sensor, order, io, connected, sessionVars, requestVars, historyVars>>

(* The connection breaks; what had arrived of the stream can still be read. *)
Break ==
  /\ sensor # "absent"
  /\ sensor' = "absent"
  /\ order' = FALSE
  /\ \E n \in 0 .. Len(pipe) : pipe' = SubSeq(pipe, 1, n)
  /\ UNCHANGED <<io, connected, sessionVars, requestVars, historyVars>>

Sensor == Serve \/ SendFrame \/ Break

-----------------------------------------------------------------------------
(* The receiving thread.                                                    *)

NoteDown ==
  /\ io = "down"
  /\ io' = "connect"
  /\ connected' = FALSE
  /\ UNCHANGED <<sensorVars, sessionVars, requestVars, historyVars>>

(* A failed attempt is followed by a pause and the next.                    *)
Connect ==
  /\ io = "connect"
  /\ io' = "send"
  /\ sensor' = "accepted"
  /\ pipe' = <<>>
  /\ connection' = 1 - connection
  /\ since' = 0
  /\ UNCHANGED <<order, connected, sessionVars, requestVars, capture, misled>>

(* The result of the send is not looked at: a broken connection shows at    *)
(* the next receive.                                                        *)
SendStart ==
  /\ io = "send"
  /\ io' = "reset"
  /\ order' = (sensor # "absent")
  /\ UNCHANGED <<sensor, pipe, connected, sessionVars, requestVars, historyVars>>

(* Mutant: the verdict of the last capture survives the reconnect.          *)
SessionResetKeepsVerdict ==
  /\ assembler' = Hunting
  /\ filter' = None
  /\ zero_remaining' = 0
  /\ UNCHANGED <<last_zero_ok, bias>>

(* Mutant: an interrupted capture goes on after the reconnect.              *)
SessionResetKeepsCapture ==
  /\ assembler' = Hunting
  /\ filter' = None
  /\ last_zero_ok' = FALSE
  /\ UNCHANGED <<zero_remaining, bias>>

(* reset() of the session keeps the bias only.                              *)
SessionReset ==
  /\ assembler' = Hunting
  /\ filter' = None
  /\ zero_remaining' = 0
  /\ last_zero_ok' = FALSE
  /\ UNCHANGED bias

ResetSession ==
  /\ io = "reset"
  /\ io' = "receive"
  /\ connected' = TRUE
  /\ SessionReset
  /\ capture' = IF request # "idle" /\ capture = "taken" THEN "unheard" ELSE capture
  /\ misled' = FALSE
  /\ UNCHANGED <<sensorVars, requestVars, connection, since>>

(* Mutant: the end of the stream is taken for a receive timeout.            *)
ReceiveFailsUnnoticed ==
  /\ io = "receive"
  /\ sensor = "absent" /\ pipe = <<>>
  /\ UNCHANGED vars

(* The end of the stream closes the transport.                              *)
ReceiveFails ==
  /\ io = "receive"
  /\ sensor = "absent" /\ pipe = <<>>
  /\ io' = "down"
  /\ UNCHANGED <<sensorVars, connected, sessionVars, requestVars, historyVars>>

(* finishZeroCapture(): a mean above bias_limit_n is refused.               *)
FinishZero ==
  \/ /\ last_zero_ok' = FALSE
     /\ capture' = "refused"
     /\ UNCHANGED bias
  \/ /\ last_zero_ok' = TRUE
     /\ capture' = "taken"
     /\ bias' = 1 - bias

(* Mutant: the counter runs on below zero.                                  *)
AccumulateZeroUnguarded ==
  /\ zero_remaining' = zero_remaining - 1
  /\ since' = IF since < ZeroSamples THEN since + 1 ELSE since
  /\ IF zero_remaining = 1 THEN FinishZero ELSE UNCHANGED <<last_zero_ok, bias, capture>>

(* The capture averages raw samples.                                        *)
AccumulateZero ==
  /\ zero_remaining' = IF zero_remaining > 0 THEN zero_remaining - 1 ELSE 0
  /\ since' = IF since < ZeroSamples THEN since + 1 ELSE since
  /\ IF zero_remaining = 1 THEN FinishZero ELSE UNCHANGED <<last_zero_ok, bias, capture>>

(* Mutant: the filter holds on to the samples of the old bias.              *)
FilterSampleSmears ==
  filter' = IF filter = None THEN <<bias', connection>> ELSE filter

(* A new bias must not smear through the filter.                            *)
FilterSample ==
  filter' = IF filter = None \/ (zero_remaining = 1 /\ last_zero_ok') THEN <<bias', connection>>
            ELSE filter

TakeSample ==
  /\ AccumulateZero
  /\ FilterSample

(* One byte of what receive() returned; a longer buffer is the same as its  *)
(* bytes with nothing between them.                                         *)
Feed ==
  /\ io = "receive"
  /\ pipe # <<>>
  /\ pipe' = Tail(pipe)
  /\ LET b == Head(pipe)
     IN  /\ assembler' = Fed(assembler, b)
         /\ misled' = ((misled /\ ~IsFrame(assembler, b)) \/ FalseHeader(assembler, b))
         /\ \E fits \in SumFits(assembler, b) :
              IF fits THEN TakeSample
              ELSE UNCHANGED <<zero_remaining, last_zero_ok, bias, filter, since, capture>>
  /\ UNCHANGED <<sensor, order, io, connected, requestVars, connection>>

Receiver == NoteDown \/ Connect \/ SendStart \/ ResetSession \/ ReceiveFails \/ Feed

-----------------------------------------------------------------------------
(* The spinner: requestZero() and setFilterCutoff().                        *)

StartZero ==
  /\ request = "idle"
  /\ request' = "polling"
  /\ returned' = None
  /\ zero_remaining' = ZeroSamples
  /\ since' = 0
  /\ capture' = None
  /\ UNCHANGED <<sensorVars, io, connected, assembler, last_zero_ok, bias, filter,
                 connection, misled>>

Return(verdict) ==
  /\ request' = "idle"
  /\ returned' = IF verdict THEN "success" ELSE "failure"
  /\ UNCHANGED <<sensorVars, io, connected, assembler, last_zero_ok, bias, filter,
                 historyVars>>

PollZero ==
  /\ request = "polling"
  /\ zero_remaining = 0
  /\ Return(last_zero_ok)
  /\ UNCHANGED zero_remaining

ZeroDeadline ==
  /\ request = "polling"
  /\ request' = "late"
  /\ UNCHANGED <<sensorVars, io, connected, sessionVars, returned, historyVars>>

(* After the deadline a capture that has just ended still counts; one that  *)
(* runs is cancelled.                                                       *)
LateZero ==
  /\ request = "late"
  /\ Return(zero_remaining = 0 /\ last_zero_ok)
  /\ zero_remaining' = 0

SetFilterCutoff ==
  /\ request = "idle"
  /\ filter' = None
  /\ UNCHANGED <<sensorVars, io, connected, assembler, zero_remaining, last_zero_ok, bias,
                 requestVars, historyVars>>

Spinner == StartZero \/ PollZero \/ ZeroDeadline \/ LateZero \/ SetFilterCutoff

Next == Sensor \/ Receiver \/ Spinner

Spec == Init /\ [][Next]_vars

(* The receiving thread never stops and the sensor serves what it is told.  *)
FairSpec == Spec /\ WF_vars(Receiver) /\ WF_vars(Serve)

-----------------------------------------------------------------------------
(* Properties.                                                              *)

SriTypeOK ==
  /\ sensor \in {"absent", "accepted", "streaming"}
  /\ order \in BOOLEAN
  /\ Len(pipe) <= FrameLen + 1
  /\ io \in {"down", "connect", "send", "reset", "receive"}
  /\ connected \in BOOLEAN
  /\ assembler \in [state : AssemblerStates, fill : 0 .. PayloadLen - 1, high : BOOLEAN,
                    whole : 0 .. FrameLen]
  /\ zero_remaining \in 0 .. ZeroSamples
  /\ last_zero_ok \in BOOLEAN
  /\ bias \in {0, 1}
  /\ filter = None \/ filter \in {0, 1} \X {0, 1}
  /\ request \in {"idle", "polling", "late"}
  /\ returned \in {None, "success", "failure"}
  /\ capture \in Fates \cup {None}

(* A capture averages samples of one connection only, all of them received  *)
(* after its request (sri_stream_session.cpp, reset(), startZero()).        *)
CaptureIsOfOneConnection ==
  io = "receive" /\ zero_remaining > 0 => zero_remaining + since = ZeroSamples

(* A request reports success if and only if its own capture has replaced    *)
(* the bias, whatever breaks or times out meanwhile.  The exception is a    *)
(* reconnect between the end of the capture and the next poll: its reset()  *)
(* takes the verdict back and the request fails with the bias replaced      *)
(* (sri_driver_runtime.cpp, requestZero(); sri_stream_session.cpp, 28).     *)
VerdictIsOwn ==
  returned # None => (returned = "success" <=> capture = "taken")

(* An intact frame is decoded whatever came before it, unless bytes of      *)
(* other data have been taken for a header: a damaged frame, a partial one  *)
(* of an earlier connection or an ASCII answer cost no other frame          *)
(* (sri_frame.h, 36; sri_frame.cpp, feed()).                                *)
IntactFrameDecoded ==
  io = "receive" /\ pipe # <<>> /\ ~misled =>
    (Head(pipe).intact /\ Head(pipe).place = FrameLen => IsFrame(assembler, Head(pipe)))

(* The filter never mixes samples of two biases or of two connections       *)
(* (sri_stream_session.cpp, reset() and finishZeroCapture()).               *)
FilterNotSmeared ==
  io = "receive" /\ filter # None => filter = <<bias, connection>>

(* Once the connection stops breaking the driver ends up on a stream.       *)
StreamRestarts ==
  <>[][~Break]_vars => <>[](io = "receive" /\ sensor = "streaming")

=============================================================================
