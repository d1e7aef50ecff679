--------------------------- MODULE SupervisedCore ---------------------------
(***************************************************************************)
(* SystemStateCore and its callers: the worker, which updates it at every  *)
(* tick, and the operator, who sends requests at any time.  The core       *)
(* itself lets a request follow another before the next update has turned  *)
(* the first into a state; disciplined says that this operator does not.   *)
(***************************************************************************)
EXTENDS SystemStateCore

VARIABLES
  disciplined,   (* this operator waits for an update between two requests  *)
  seen,      (* history: the snapshot of the last update                    *)
  settled    (* history: no request has been accepted since that update     *)

vars == <<coreVars, disciplined, seen, settled>>

CallTypeOK ==
  /\ TypeOK
  /\ disciplined \in BOOLEAN
  /\ seen \in HealthInputs
  /\ settled \in BOOLEAN

CallInit ==
  /\ Init
  /\ disciplined \in BOOLEAN
  /\ seen = {}
  /\ settled = TRUE

Supervise(in) ==
  /\ Update(in)
  /\ seen' = in
  /\ settled' = TRUE
  /\ UNCHANGED disciplined

Ask ==
  /\ disciplined => settled
  /\ \/ \E in \in HealthInputs : RequestStart(in) \/ RequestCalibration(in)
     \/ RequestStop
     \/ RequestReset
  /\ settled' = FALSE
  /\ UNCHANGED <<disciplined, seen>>

(* The worker's teardown, or beginCalibration's roll back.                  *)
Finish ==
  /\ CalibrationFinished
  /\ UNCHANGED <<disciplined, seen, settled>>

CallNext ==
  \/ \E in \in HealthInputs : Supervise(in)
  \/ Ask
  \/ Finish

CallSpec == CallInit /\ [][CallNext]_vars

-----------------------------------------------------------------------------
(* Properties.                                                              *)

(* FAULT latches until requestReset(): no update, however healthy its       *)
(* snapshot, and no other call ends it.                                     *)
FaultLatches ==
  [][state = "FAULT" /\ state' # "FAULT" => ~settled' /\ state' = "OFFLINE"]_vars

(* A fault always demands an explicit restart: nothing that was requested   *)
(* before it survives it.  An undisciplined operator can have two requests  *)
(* pending when a calibration loses its link, and the servo request stays.  *)
FaultDemandsRestart ==
  disciplined /\ state = "FAULT" => ~servo_requested /\ ~calibrating

(* SERVOING is reported only over a snapshot with every link, the sensor    *)
(* and the tool in order and no fault of any kind, masked or not.           *)
ServoingIsHealthy ==
  state = "SERVOING" =>
    /\ {"eki_tcp_connected", "eki_program_ready", "rsi_topic_fresh", "rsi_connected",
        "sri_streaming", "tool_synced", "controllers_loaded"} \subseteq seen
    /\ seen \cap {"eki_fault", "rsi_fault"} = {}

(* R2 masks an rsi fault only as residue: READY and CONNECTED under a       *)
(* latched rsi fault mean that the heartbeat is back and that the KRC says  *)
(* that no RSI session runs.                                                *)
MaskedFaultIsResidue ==
  state \in {"READY", "CONNECTED"} /\ "rsi_fault" \in seen =>
    "eki_heartbeat_fresh" \in seen /\ "eki_rsi_active" \notin seen

(* What a disciplined operator is promised, as far as the flags tell.       *)
(* Nothing is promised to any other.                                        *)
Duty ==
  IF ~disciplined THEN "stopped"
  ELSE IF state = "FAULT" THEN "latched"
  ELSE IF calibrating THEN "calibration"
  ELSE IF servo_requested THEN "servo" ELSE "stopped"

Contract == INSTANCE ServoContract WITH duty <- Duty

(* The core keeps the promise to a disciplined operator.                    *)
KeepsContract == Contract!Spec

=============================================================================
