------------------------ MODULE SupervisedCoreProofs ------------------------
(***************************************************************************)
(* Theorems about the state machine of the manager under its callers.      *)
(***************************************************************************)
EXTENDS SupervisedCore, TLAPS

USE DEF vars, coreVars

-----------------------------------------------------------------------------
(* Any caller.                                                              *)

(* The state machine stays within its states, whatever is called in         *)
(* whatever order.                                                          *)
THEOREM TypeCorrect == CallSpec => []CallTypeOK
<1>1. CallInit => CallTypeOK
  BY DEF CallInit, Init, CallTypeOK, TypeOK, States, HealthInputs, HealthFields
<1>2. CallTypeOK /\ [CallNext]_vars => CallTypeOK'
  <2> SUFFICES ASSUME CallTypeOK, [CallNext]_vars PROVE CallTypeOK'
    OBVIOUS
  <2> USE DEF CallTypeOK, TypeOK, States
  <2>1. ASSUME NEW in \in HealthInputs, Supervise(in) PROVE CallTypeOK'
    <3>1. disciplined' \in BOOLEAN /\ seen' \in HealthInputs /\ settled' \in BOOLEAN
      BY <2>1 DEF Supervise
    <3>2. CASE Trip(in)
      BY <3>1, <3>2 DEF Trip
    <3>3. CASE StayFault(in)
      BY <3>1, <3>3 DEF StayFault
    <3>4. CASE SuperviseCalibration(in)
      BY <3>1, <3>4 DEF SuperviseCalibration, CalibrationLinkOk, EkiLinkLayered, RsiAlive
    <3>5. CASE SuperviseServo(in)
      BY <3>1, <3>5 DEF SuperviseServo
    <3>6. CASE SuperviseIdle(in)
      BY <3>1, <3>6 DEF SuperviseIdle
    <3> QED
      BY <2>1, <3>2, <3>3, <3>4, <3>5, <3>6 DEF Supervise, Update
  <2>2. ASSUME Ask PROVE CallTypeOK'
    BY <2>2 DEF Ask, RequestStart, RequestCalibration, RequestStop, RequestReset
  <2>3. ASSUME Finish PROVE CallTypeOK'
    BY <2>3 DEF Finish, CalibrationFinished
  <2>4. ASSUME UNCHANGED vars PROVE CallTypeOK'
    BY <2>4
  <2> QED
    BY <2>1, <2>2, <2>3, <2>4 DEF CallNext
<1> QED
  BY <1>1, <1>2, PTL DEF CallSpec

(* FAULT ends only by a request, and that request is the reset.             *)
THEOREM FaultLatchesAlways == CallSpec => FaultLatches
<1>1. [CallNext]_vars =>
        [state = "FAULT" /\ state' # "FAULT" => ~settled' /\ state' = "OFFLINE"]_vars
  <2> SUFFICES ASSUME CallNext, state = "FAULT", state' # "FAULT"
               PROVE  ~settled' /\ state' = "OFFLINE"
    OBVIOUS
  <2>1. ASSUME NEW in \in HealthInputs, Supervise(in) PROVE FALSE
    BY <2>1 DEF Supervise, Update, Trip, StayFault, SuperviseCalibration, SuperviseServo,
                SuperviseIdle
  <2>2. ASSUME Ask PROVE ~settled' /\ state' = "OFFLINE"
    BY <2>2 DEF Ask, RequestStart, RequestCalibration, RequestStop, RequestReset
  <2>3. ASSUME Finish PROVE FALSE
    BY <2>3 DEF Finish, CalibrationFinished
  <2> QED
    BY <2>1, <2>2, <2>3 DEF CallNext
<1> QED
  BY <1>1, PTL DEF CallSpec, FaultLatches

(* Both statements about the last snapshot are inductive together: only an  *)
(* update writes it, and the same update writes the state.                  *)
SnapshotInv == ServoingIsHealthy /\ MaskedFaultIsResidue

(* One update makes the state agree with its snapshot.                      *)
LEMMA UpdateAgreesWithSnapshot ==
  ASSUME NEW in \in HealthInputs, Update(in), seen' = in
  PROVE  SnapshotInv'
<1> USE DEF SnapshotInv, ServoingIsHealthy, MaskedFaultIsResidue
<1>1. CASE Trip(in)
  BY <1>1 DEF Trip
<1>2. CASE StayFault(in)
  BY <1>2 DEF StayFault
<1>3. CASE SuperviseCalibration(in)
  BY <1>3 DEF SuperviseCalibration
<1>4. CASE SuperviseServo(in)
  <2>1. "eki_fault" \notin in /\ "rsi_fault" \notin in
    BY <1>4 DEF SuperviseServo, Faulted, FaultIsSessionResidue
  <2>2. state' \in {"SERVOING", "DEGRADED"}
    BY <1>4 DEF SuperviseServo
  <2>3. ASSUME state' = "SERVOING"
        PROVE  {"eki_tcp_connected", "eki_program_ready", "rsi_topic_fresh", "rsi_connected",
                "sri_streaming", "tool_synced", "controllers_loaded"} \subseteq in
    <3>1. FullConditions(in)
      BY <1>4, <2>3 DEF SuperviseServo
    <3> QED
      BY <3>1 DEF FullConditions, ReadyConditions, RsiAlive, EkiLinkLayered, HealthInputs
  <2> QED
    BY <2>1, <2>2, <2>3
<1>5. CASE SuperviseIdle(in)
  <2>1. state' \in {"OFFLINE", "READY", "CONNECTED"}
    BY <1>5 DEF SuperviseIdle
  <2>2. "rsi_fault" \in in => "eki_heartbeat_fresh" \in in /\ "eki_rsi_active" \notin in
    BY <1>5 DEF SuperviseIdle, Faulted, FaultIsSessionResidue
  <2> QED
    BY <2>1, <2>2
<1> QED
  BY <1>1, <1>2, <1>3, <1>4, <1>5 DEF Update

(* SERVOING is reported only over a healthy snapshot, and an rsi fault is   *)
(* masked only as the residue of a finished session.                        *)
THEOREM SnapshotHolds == CallSpec => [](ServoingIsHealthy /\ MaskedFaultIsResidue)
<1>1. CallInit => SnapshotInv
  BY DEF CallInit, Init, SnapshotInv, ServoingIsHealthy, MaskedFaultIsResidue
<1>2. SnapshotInv /\ [CallNext]_vars => SnapshotInv'
  <2> SUFFICES ASSUME SnapshotInv, [CallNext]_vars PROVE SnapshotInv'
    OBVIOUS
  <2>1. ASSUME NEW in \in HealthInputs, Supervise(in) PROVE SnapshotInv'
    BY <2>1, UpdateAgreesWithSnapshot DEF Supervise
  <2>2. ASSUME seen' = seen, state' = state \/ state' = "OFFLINE" PROVE SnapshotInv'
    BY <2>2 DEF SnapshotInv, ServoingIsHealthy, MaskedFaultIsResidue
  <2>3. ASSUME Ask PROVE seen' = seen /\ (state' = state \/ state' = "OFFLINE")
    BY <2>3 DEF Ask, RequestStart, RequestCalibration, RequestStop, RequestReset
  <2>4. ASSUME Finish PROVE seen' = seen /\ state' = state
    BY <2>4 DEF Finish, CalibrationFinished
  <2> QED
    BY <2>1, <2>2, <2>3, <2>4 DEF CallNext
<1> QED
  BY <1>1, <1>2, PTL DEF CallSpec, SnapshotInv

(* An rsi fault under which the state is READY or CONNECTED is what a       *)
(* finished session left behind (system_state_core.cpp, update(), R2).      *)
THEOREM MaskedFaultAlwaysResidue == CallSpec => []MaskedFaultIsResidue
  BY SnapshotHolds, PTL

-----------------------------------------------------------------------------
(* What holds for a disciplined caller.                                     *)

(* A fault drops both requests because there is never more than one, and    *)
(* there is never more than one because READY, once an update has produced  *)
(* it, means that there is none.                                            *)
OneRequest ==
  disciplined =>
    /\ state = "FAULT" => ~servo_requested /\ ~calibrating
    /\ ~(servo_requested /\ calibrating)
    /\ settled /\ state = "READY" => ~servo_requested /\ ~calibrating

DisciplineInv == CallTypeOK /\ OneRequest

(* OneRequest is preserved by an update.                                    *)
LEMMA UpdateKeepsOneRequest ==
  ASSUME DisciplineInv, NEW in \in HealthInputs, Supervise(in)
  PROVE  OneRequest'
<1> USE DEF DisciplineInv, OneRequest, FaultDemandsRestart, CallTypeOK, TypeOK
<1>0. disciplined' = disciplined
  BY DEF Supervise
<1>1. CASE Trip(in)
  BY <1>0, <1>1 DEF Trip
<1>2. CASE StayFault(in)
  BY <1>0, <1>2 DEF StayFault
<1>3. CASE SuperviseCalibration(in)
  <2>1. disciplined => ~servo_requested'
    BY <1>3 DEF SuperviseCalibration
  <2>2. CASE CalibrationLinkOk(in)
    BY <1>0, <1>3, <2>1, <2>2 DEF SuperviseCalibration
  <2>3. CASE ~CalibrationLinkOk(in)
    BY <1>0, <1>3, <2>1, <2>3 DEF SuperviseCalibration
  <2> QED
    BY <2>2, <2>3
<1>4. CASE SuperviseServo(in)
  BY <1>0, <1>4 DEF SuperviseServo
<1>5. CASE SuperviseIdle(in)
  BY <1>0, <1>5 DEF SuperviseIdle
<1> QED
  BY <1>1, <1>2, <1>3, <1>4, <1>5 DEF Supervise, Update

(* OneRequest is preserved by a disciplined request.                        *)
LEMMA AskKeepsOneRequest ==
  ASSUME DisciplineInv, Ask
  PROVE  OneRequest'
<1> USE DEF DisciplineInv, OneRequest, FaultDemandsRestart, CallTypeOK, TypeOK
<1>0. (disciplined => settled) /\ ~settled' /\ disciplined' = disciplined
  BY DEF Ask
<1>1. ASSUME NEW in \in HealthInputs, RequestStart(in) PROVE OneRequest'
  BY <1>0, <1>1 DEF RequestStart, StartAccepts
<1>2. ASSUME NEW in \in HealthInputs, RequestCalibration(in) PROVE OneRequest'
  BY <1>0, <1>2 DEF RequestCalibration, CalibrationAccepts
<1>3. ASSUME RequestStop PROVE OneRequest'
  BY <1>0, <1>3 DEF RequestStop
<1>4. ASSUME RequestReset PROVE OneRequest'
  BY <1>0, <1>4 DEF RequestReset
<1> QED
  BY <1>1, <1>2, <1>3, <1>4 DEF Ask

(* The invariant of a disciplined caller.                                   *)
THEOREM DisciplineHolds == CallSpec => []DisciplineInv
<1>1. CallInit => OneRequest
  BY DEF CallInit, Init, OneRequest, FaultDemandsRestart
<1>2. DisciplineInv /\ [CallNext]_vars => OneRequest'
  <2> SUFFICES ASSUME DisciplineInv, [CallNext]_vars PROVE OneRequest'
    OBVIOUS
  <2>1. ASSUME Finish PROVE OneRequest'
    BY <2>1 DEF Finish, CalibrationFinished, DisciplineInv, OneRequest, FaultDemandsRestart
  <2>2. ASSUME UNCHANGED vars PROVE OneRequest'
    BY <2>2 DEF DisciplineInv, OneRequest, FaultDemandsRestart
  <2> QED
    BY <2>1, <2>2, UpdateKeepsOneRequest, AskKeepsOneRequest DEF CallNext
<1> QED
  BY <1>1, <1>2, TypeCorrect, PTL DEF CallSpec, DisciplineInv

(* For a disciplined operator a fault always demands an explicit restart.   *)
THEOREM FaultAlwaysDemandsRestart == CallSpec => []FaultDemandsRestart
<1>1. DisciplineInv => FaultDemandsRestart
  BY DEF DisciplineInv, OneRequest, FaultDemandsRestart
<1> QED
  BY <1>1, DisciplineHolds, PTL

(* The state machine implements the contract of a disciplined operator.     *)
THEOREM ImplementsContract == CallSpec => KeepsContract
<1> USE DEF Duty
<1>1. CallInit => Contract!Init
  BY DEF CallInit, Init, Contract!Init
<1>2. DisciplineInv /\ [CallNext]_vars => [Contract!Next]_Duty
  <2> SUFFICES ASSUME DisciplineInv, CallNext PROVE Contract!Next \/ UNCHANGED Duty
    BY DEF DisciplineInv
  <2> USE DEF DisciplineInv, OneRequest, CallTypeOK, TypeOK
  <2>0. disciplined' = disciplined
    BY DEF CallNext, Supervise, Ask, Finish
  <2>4. CASE ~disciplined
    BY <2>0, <2>4
  <2>5. SUFFICES ASSUME disciplined PROVE Contract!Next \/ UNCHANGED Duty
    BY <2>4
  <2>1. ASSUME NEW in \in HealthInputs, Supervise(in)
        PROVE  Duty' = "latched" \/ UNCHANGED Duty
    <3>1. CASE Trip(in)
      BY <2>0, <2>5, <3>1 DEF Trip
    <3>2. CASE StayFault(in)
      BY <2>0, <2>5, <3>2 DEF StayFault
    <3>3. CASE SuperviseCalibration(in)
      BY <2>0, <2>5, <3>3 DEF SuperviseCalibration
    <3>4. CASE SuperviseServo(in)
      BY <2>0, <2>5, <3>4 DEF SuperviseServo
    <3>5. CASE SuperviseIdle(in)
      BY <2>0, <2>5, <3>5 DEF SuperviseIdle
    <3> QED
      BY <2>1, <3>1, <3>2, <3>3, <3>4, <3>5 DEF Supervise, Update
  <2>2. ASSUME Ask PROVE Contract!Next \/ UNCHANGED Duty
    <3>0. (disciplined => settled) /\ disciplined' = disciplined
      BY <2>2 DEF Ask
    <3>1. ASSUME NEW in \in HealthInputs, RequestStart(in) PROVE Contract!Start
      BY <2>5, <3>0, <3>1 DEF RequestStart, StartAccepts, Contract!Start, Contract!From
    <3>2. ASSUME NEW in \in HealthInputs, RequestCalibration(in) PROVE Contract!Calibrate
      BY <2>5, <3>0, <3>2 DEF RequestCalibration, CalibrationAccepts, Contract!Calibrate,
                        Contract!From
    <3>3. ASSUME RequestStop PROVE Contract!Stop \/ UNCHANGED Duty
      BY <2>5, <3>0, <3>3 DEF RequestStop, StopAccepts, Contract!Stop, Contract!From
    <3>4. ASSUME RequestReset PROVE Contract!Reset
      BY <2>5, <3>0, <3>4 DEF RequestReset, ResetAccepts, Contract!Reset, Contract!From
    <3> QED
      BY <2>2, <3>1, <3>2, <3>3, <3>4 DEF Ask, Contract!Next
  <2>3. ASSUME Finish PROVE Contract!Finish \/ UNCHANGED Duty
    BY <2>3 DEF Finish, CalibrationFinished, Contract!Finish, Contract!From
  <2> QED
    BY <2>1, <2>2, <2>3 DEF CallNext, Contract!Next, Contract!Trip
<1> QED
  BY <1>1, <1>2, DisciplineHolds, PTL DEF CallSpec, KeepsContract, Contract!Spec

=============================================================================
