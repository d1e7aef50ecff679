-------------------------- MODULE SystemStateCore --------------------------
(***************************************************************************)
(* The state machine of soft_force_control_manager (SystemStateCore in     *)
(* system_state_core.cpp).  The manager's worker calls Update with a       *)
(* health snapshot at every tick; the command threads call the request     *)
(* methods between ticks.  The state changes only in Update and in         *)
(* RequestReset: an accepted request raises a flag which the next Update   *)
(* turns into a state.                                                     *)
(***************************************************************************)

VARIABLES
  state,            (* SystemState                                          *)
  servo_requested,  (* an accepted start has not been stopped or faulted    *)
  calibrating       (* an accepted calibration has not finished or faulted  *)

coreVars == <<state, servo_requested, calibrating>>

States ==
  {"OFFLINE", "CONNECTED", "READY", "SERVOING", "CALIBRATING", "DEGRADED", "FAULT"}

HealthFields ==
  {"eki_link", "eki_tcp_connected", "eki_heartbeat_fresh", "eki_rsi_active",
   "eki_program_ready", "eki_fault", "rsi_topic_fresh", "rsi_connected",
   "rsi_fault", "sri_streaming", "tool_synced", "controllers_loaded"}

(* A snapshot is the set of the HealthInputs fields that are true; only     *)
(* those combinations that ManagerRuntime::healthLocked can produce.        *)
HealthInputs ==
  {in \in SUBSET HealthFields :
     /\ "eki_link" \in in <=> {"eki_tcp_connected", "eki_heartbeat_fresh"} \subseteq in
     /\ "eki_program_ready" \in in =>
          \/ "eki_link" \in in
          \/ {"eki_tcp_connected", "rsi_connected"} \subseteq in
     /\ in \cap {"rsi_connected", "rsi_fault"} # {} => "rsi_topic_fresh" \in in}

TypeOK ==
  /\ state \in States
  /\ servo_requested \in BOOLEAN
  /\ calibrating \in BOOLEAN

Init ==
  /\ state = "OFFLINE"
  /\ servo_requested = FALSE
  /\ calibrating = FALSE

-----------------------------------------------------------------------------
(* Predicates over a health snapshot.                                       *)

RsiAlive(in) == {"rsi_topic_fresh", "rsi_connected"} \subseteq in

(* R1: while the RSI stream proves the KRL program alive, TCP is enough.    *)
EkiLinkLayered(in) ==
  \/ "eki_link" \in in
  \/ RsiAlive(in) /\ "eki_tcp_connected" \in in

(* Mutant: a fault is residue even while a servo request stands.            *)
ResidueWhileServing(in) ==
  /\ ~calibrating
  /\ "eki_heartbeat_fresh" \in in
  /\ "eki_rsi_active" \notin in

(* Mutant: a fault is residue even while the KRC reports an RSI session.    *)
ResidueInSession(in) ==
  /\ ~servo_requested
  /\ ~calibrating
  /\ "eki_heartbeat_fresh" \in in

(* R2: an rsi fault that a finished RSI session left behind.                *)
FaultIsSessionResidue(in) ==
  /\ ~servo_requested
  /\ ~calibrating
  /\ "eki_heartbeat_fresh" \in in
  /\ "eki_rsi_active" \notin in

ReadyConditions(in) ==
  /\ EkiLinkLayered(in)
  /\ {"eki_program_ready", "sri_streaming", "tool_synced", "controllers_loaded"} \subseteq in

FullConditions(in) == ReadyConditions(in) /\ RsiAlive(in)

CalibrationLinkOk(in) ==
  EkiLinkLayered(in) /\ RsiAlive(in) /\ "sri_streaming" \in in

Faulted(in) ==
  \/ "eki_fault" \in in
  \/ "rsi_fault" \in in /\ ~FaultIsSessionResidue(in)

-----------------------------------------------------------------------------
(* update(): the health tick.                                               *)

(* Mutant: the trip forgets to withdraw the servo request.                  *)
TripKeepsRequest(in) ==
  /\ Faulted(in)
  /\ state' = "FAULT"
  /\ calibrating' = FALSE
  /\ UNCHANGED servo_requested

Trip(in) ==
  /\ Faulted(in)
  /\ state' = "FAULT"
  /\ servo_requested' = FALSE
  /\ calibrating' = FALSE

(* Mutant: FAULT ends with its cause.                                       *)
FaultHeals(in) ==
  /\ ~Faulted(in)
  /\ state = "FAULT"
  /\ state' = "OFFLINE"
  /\ UNCHANGED <<servo_requested, calibrating>>

StayFault(in) ==
  /\ ~Faulted(in)
  /\ state = "FAULT"
  /\ UNCHANGED coreVars

SuperviseCalibration(in) ==
  /\ ~Faulted(in)
  /\ state # "FAULT"
  /\ calibrating
  /\ state' = IF CalibrationLinkOk(in) THEN "CALIBRATING" ELSE "FAULT"
  /\ calibrating' = CalibrationLinkOk(in)
  /\ UNCHANGED servo_requested

SuperviseServo(in) ==
  /\ ~Faulted(in)
  /\ state # "FAULT"
  /\ ~calibrating
  /\ servo_requested
  /\ state' = IF FullConditions(in) THEN "SERVOING" ELSE "DEGRADED"
  /\ UNCHANGED <<servo_requested, calibrating>>

SuperviseIdle(in) ==
  /\ ~Faulted(in)
  /\ state # "FAULT"
  /\ ~calibrating
  /\ ~servo_requested
  /\ state' = IF ~EkiLinkLayered(in) THEN "OFFLINE"
              ELSE IF ReadyConditions(in) THEN "READY" ELSE "CONNECTED"
  /\ UNCHANGED <<servo_requested, calibrating>>

Update(in) ==
  \/ Trip(in)
  \/ StayFault(in)
  \/ SuperviseCalibration(in)
  \/ SuperviseServo(in)
  \/ SuperviseIdle(in)

-----------------------------------------------------------------------------
(* The requests.  X_Accepts is the verdict; the action is an accepted call. *)
(* A rejected call changes nothing.                                         *)

(* Mutant: a start is accepted in every state.                              *)
StartAcceptsAnywhere(in) ==
  /\ "rsi_topic_fresh" \in in
  /\ ReadyConditions(in)

StartAccepts(in) ==
  /\ state = "READY"
  /\ "rsi_topic_fresh" \in in
  /\ ReadyConditions(in)

RequestStart(in) ==
  /\ StartAccepts(in)
  /\ servo_requested' = TRUE
  /\ UNCHANGED <<state, calibrating>>

StopAccepts == state \in {"SERVOING", "DEGRADED"}

RequestStop ==
  /\ StopAccepts
  /\ servo_requested' = FALSE
  /\ UNCHANGED <<state, calibrating>>

(* Mutant: a calibration is accepted in every state.                        *)
CalibrationAcceptsAnywhere(in) == RsiAlive(in) /\ "sri_streaming" \in in

CalibrationAccepts(in) ==
  /\ state = "READY"
  /\ RsiAlive(in)
  /\ "sri_streaming" \in in

RequestCalibration(in) ==
  /\ CalibrationAccepts(in)
  /\ calibrating' = TRUE
  /\ UNCHANGED <<state, servo_requested>>

CalibrationFinished ==
  /\ calibrating' = FALSE
  /\ UNCHANGED <<state, servo_requested>>

ResetAccepts == state = "FAULT"

RequestReset ==
  /\ ResetAccepts
  /\ state' = "OFFLINE"
  /\ UNCHANGED <<servo_requested, calibrating>>

(* Mutant: the sensor may be zeroed whenever there is no fault.             *)
AllowZeroUnlessFault == state # "FAULT"

AllowZeroSensor == state \in {"CONNECTED", "READY"}

-----------------------------------------------------------------------------
(* The machine under any caller: a call of any method in any order.         *)

Next ==
  \/ \E in \in HealthInputs :
       \/ Update(in)
       \/ RequestStart(in)
       \/ RequestCalibration(in)
  \/ RequestStop
  \/ CalibrationFinished
  \/ RequestReset

Spec == Init /\ [][Next]_coreVars

=============================================================================
