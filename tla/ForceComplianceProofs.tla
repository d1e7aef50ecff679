------------------------ MODULE ForceComplianceProofs ------------------------
(***************************************************************************)
(* The compliance controller, for every range of forces, every deadband,   *)
(* margin, ceiling, limit and length of the ramp.                          *)
(***************************************************************************)
EXTENDS ForceCompliance, TLAPS

USE ComplianceAssumption

(* How the core goes with the gate and with what the session has measured.  *)
CoreGoesWith(c, g, m, r) ==
  Engaged(g) =>
    /\ c.profile = g.profile
    /\ g.profile = "PRECISION" => c.ramp = 0 /\ c.deadband = FixedDeadband
    /\ g.profile = "DRAG" =>
         /\ c.ramp + m = RampCycles
         /\ c.ramp > 0 => c.deadband = FixedDeadband /\ c.peak = r /\ c.prev_v = 0
         /\ c.ramp = 0 => c.deadband = r + Margin

(* The inductive invariant.                                                 *)
ComplianceInv ==
  /\ ComplianceTypeOK
  /\ ~running => ~Engaged(gate)
  /\ out # 0 => Engaged(gate)
  /\ CoreGoesWith(core, gate, measured, residual)
  /\ LawRestsWithOutput
  /\ RampBeforeMotion

(* What the session has measured, as an update finds it.                    *)
MeasuredBefore == IF Entered THEN 0 ELSE measured
ResidualBefore == IF Entered THEN 0 ELSE residual

-----------------------------------------------------------------------------
(* Operators.                                                               *)

LEMMA ClampBounds ==
  ASSUME NEW x \in Int, NEW limit \in Nat
  PROVE  /\ Clamp(x, limit) \in -limit .. limit
         /\ limit # 0 => (Clamp(x, limit) = 0 <=> x = 0)
         /\ x >= 0 => 0 <= Clamp(x, limit) /\ Clamp(x, limit) <= x
         /\ x <= 0 => x <= Clamp(x, limit) /\ Clamp(x, limit) <= 0
BY DEF Clamp

LEMMA AbsBounds ==
  ASSUME NEW f \in -MaxForce .. MaxForce
  PROVE  Abs(f) \in Forces
BY DEF Abs, Forces

LEMMA LargerBounds ==
  ASSUME NEW x \in Forces, NEW y \in Forces
  PROVE  Larger(x, y) \in Forces
BY DEF Larger, Forces

LEMMA FilteredBounds ==
  ASSUME NEW c \in Cores, NEW sample \in Forces, NEW f \in Filtered(c, sample)
  PROVE  f \in Forces
BY DEF Filtered, Forces, Cores

LEMMA VelocityBounds ==
  ASSUME NEW c \in Cores, NEW f \in Int
  PROVE  Velocity(c, f) \in -MaxSpeed .. MaxSpeed
<1> DEFINE z == Deadzone(f, c.deadband)
           x == Clamp(z, MaxSpeed)
<1>1. c.deadband \in Nat /\ c.prev_v \in -MaxSpeed .. MaxSpeed
  BY DEF Cores
<1>2. z \in Int
  BY <1>1 DEF Deadzone
<1>3. x \in -MaxSpeed .. MaxSpeed
  BY <1>2, ClampBounds
<1>4. PICK u \in Int : u = x - c.prev_v
  BY <1>1, <1>3
<1>5. /\ Clamp(u, MaxAccel) \in Int
      /\ u >= 0 => 0 <= Clamp(u, MaxAccel) /\ Clamp(u, MaxAccel) <= u
      /\ u <= 0 => u <= Clamp(u, MaxAccel) /\ Clamp(u, MaxAccel) <= 0
  BY ClampBounds
<1>6. Velocity(c, f) = c.prev_v + Clamp(u, MaxAccel)
  BY <1>4 DEF Velocity
<1> HIDE DEF x, z
<1> QED
  BY <1>1, <1>3, <1>4, <1>5, <1>6

LEMMA GateStaysRecord ==
  ASSUME ComplianceTypeOK
  PROVE  GateAfter \in ModeRecords
BY DEF ComplianceTypeOK, GateAfter, Applied, ModeRecords

LEMMA ConfiguredIsCore ==
  ASSUME NEW p \in Profiles
  PROVE  Configured(p) \in Cores
BY DEF Configured, Cores, Forces

LEMMA ActivatedIsCore ==
  ASSUME NEW c \in Cores
  PROVE  Activated(c) \in Cores
<1> DEFINE rested == [c EXCEPT !.filter = None, !.prev_v = 0, !.armed = FALSE,
                               !.deadband = FixedDeadband]
<1>0. /\ None \in Forces \cup {None} /\ 0 \in -MaxSpeed .. MaxSpeed /\ FALSE \in BOOLEAN
      /\ FixedDeadband \in Nat /\ RampCycles \in 0 .. RampCycles /\ 0 \in Forces
  BY DEF Forces
<1>1. rested \in Cores
  BY <1>0 DEF Cores
<1>2. [rested EXCEPT !.ramp = RampCycles, !.peak = 0] \in Cores
  BY <1>0, <1>1 DEF Cores
<1> QED
  BY <1>1, <1>2 DEF Activated

(* The core that an update works on goes with the gate as it then is.       *)
LEMMA CoreBeforeGoes ==
  ASSUME ComplianceInv
  PROVE  /\ CoreBefore \in Cores
         /\ CoreGoesWith(CoreBefore, GateAfter, MeasuredBefore, ResidualBefore)
         /\ MeasuredBefore \in 0 .. RampCycles
         /\ ResidualBefore \in Forces
<1>1. GateAfter \in ModeRecords
  BY GateStaysRecord DEF ComplianceInv
<1>2. MeasuredBefore \in 0 .. RampCycles /\ ResidualBefore \in Forces
  BY DEF MeasuredBefore, ResidualBefore, ComplianceInv, ComplianceTypeOK, Forces
<1>3. CASE Entered
  <2>1. GateAfter.profile \in Profiles
    BY <1>1 DEF ModeRecords
  <2>2. CoreBefore = Activated(Configured(GateAfter.profile))
    BY <1>3 DEF CoreBefore
  <2>3. CoreBefore \in Cores
    BY <2>1, <2>2, ConfiguredIsCore, ActivatedIsCore
  <2>4. CoreGoesWith(CoreBefore, GateAfter, 0, 0)
    BY <2>1, <2>2 DEF CoreGoesWith, Activated, Configured, Profiles
  <2> QED
    BY <1>2, <1>3, <2>3, <2>4 DEF MeasuredBefore, ResidualBefore
<1>4. CASE ~Entered
  <2>1. CoreBefore = core /\ MeasuredBefore = measured /\ ResidualBefore = residual
    BY <1>4 DEF CoreBefore, MeasuredBefore, ResidualBefore
  <2>2. Engaged(GateAfter) => Engaged(gate)
    BY <1>4 DEF Entered
  <2>3. Engaged(gate) /\ Engaged(GateAfter) => GateAfter = gate
    BY DEF GateAfter, Applied, Engaged
  <2> QED
    BY <1>2, <2>1, <2>2, <2>3 DEF CoreGoesWith, ComplianceInv, ComplianceTypeOK
<1> QED
  BY <1>3, <1>4
-----------------------------------------------------------------------------
(* What the updates make of the core.                                       *)

LEMMA RampedGoes ==
  ASSUME NEW c \in Cores, c.ramp > 0, NEW f \in -MaxForce .. MaxForce, NEW g \in ModeRecords,
         Engaged(g), NEW m \in 0 .. RampCycles, NEW r \in Forces, CoreGoesWith(c, g, m, r)
  PROVE  /\ Ramped(c, f) \in Cores
         /\ m < RampCycles
         /\ CoreGoesWith(Ramped(c, f), g, m + 1, Larger(r, Abs(f)))
         /\ Ramped(c, f).prev_v = 0
<1>1. Abs(f) \in Forces /\ c.peak \in Forces /\ c.ramp \in 0 .. RampCycles /\ c.deadband \in Nat
  BY AbsBounds DEF Cores
<1>2. Larger(c.peak, Abs(f)) \in Forces
  BY <1>1, LargerBounds
<1>3. Larger(c.peak, Abs(f)) + Margin \in Nat
  BY <1>2 DEF Forces
<1>4. Ramped(c, f) \in Cores
  <2>1. c.ramp - 1 \in 0 .. RampCycles
    BY <1>1
  <2>2. (IF c.ramp = 1 THEN Larger(c.peak, Abs(f)) + Margin ELSE c.deadband) \in Nat
    BY <1>1, <1>3
  <2> QED
    BY <1>2, <2>1, <2>2 DEF Ramped, Cores
<1>5. g.profile = "DRAG"
  BY DEF CoreGoesWith, ModeRecords, Profiles
<1>6. /\ c.profile = "DRAG" /\ c.ramp + m = RampCycles
      /\ c.deadband = FixedDeadband /\ c.peak = r /\ c.prev_v = 0
  BY <1>5 DEF CoreGoesWith
<1>7. /\ Ramped(c, f).profile = c.profile
      /\ Ramped(c, f).ramp = c.ramp - 1 /\ Ramped(c, f).prev_v = c.prev_v
      /\ Ramped(c, f).peak = Larger(c.peak, Abs(f))
      /\ Ramped(c, f).deadband = IF c.ramp = 1 THEN Larger(c.peak, Abs(f)) + Margin
                                 ELSE c.deadband
  BY DEF Ramped, Cores
<1> QED
  BY <1>1, <1>4, <1>5, <1>6, <1>7 DEF CoreGoesWith

(* A re-tare touches the bias and its own arming only.                      *)
LEMMA RetaredGoes ==
  ASSUME NEW c \in Cores, NEW f \in Int, c.bias + f \in Forces, NEW place \in Places
  PROVE  /\ Retared(c, f, place) \in Cores
         /\ Retared(c, f, place).profile = c.profile
         /\ Retared(c, f, place).ramp = c.ramp
         /\ Retared(c, f, place).peak = c.peak
         /\ Retared(c, f, place).deadband = c.deadband
         /\ Retared(c, f, place).filter = c.filter
BY DEF Retared, Absorbed, Cores

-----------------------------------------------------------------------------
(* One lemma per action.                                                    *)

(* What is common to the updates: the gate takes the request.               *)
LEMMA AppliedGate ==
  ASSUME ComplianceInv, ApplyMode
  PROVE  /\ gate' = GateAfter /\ gate' \in ModeRecords
         /\ running' = running /\ running \in BOOLEAN
         /\ mode_new' \in BOOLEAN /\ fault_buf' \in BOOLEAN /\ mode_buf' \in ModeRecords
BY GateStaysRecord DEF ApplyMode, ComplianceInv, ComplianceTypeOK

LEMMA TypeAfterUpdate ==
  ASSUME ComplianceInv, ApplyMode, core' \in Cores, force' \in -MaxForce .. MaxForce,
         out' \in -MaxStep .. MaxStep, skipped' \in BOOLEAN,
         measured' \in 0 .. RampCycles, residual' \in Forces
  PROVE  ComplianceTypeOK'
BY AppliedGate DEF ComplianceTypeOK

LEMMA SkippedKeepsInv ==
  ASSUME ComplianceInv, UpdateSkipped
  PROVE  ComplianceInv'
<1>1. running /\ ApplyMode /\ core' = CoreBefore /\ out' = 0 /\ skipped' = TRUE /\ force' = force
      /\ measured' = MeasuredBefore /\ residual' = ResidualBefore
  BY DEF UpdateSkipped, NoMeasurement, MeasuredBefore, ResidualBefore
<1>2. ComplianceTypeOK'
  <2>1. force' \in -MaxForce .. MaxForce /\ out' \in -MaxStep .. MaxStep
    BY <1>1 DEF ComplianceInv, ComplianceTypeOK
  <2> QED
    BY <1>1, <2>1, CoreBeforeGoes, TypeAfterUpdate
<1>3. CoreGoesWith(core, gate, measured, residual)'
  BY <1>1, AppliedGate, CoreBeforeGoes
<1> QED
  BY <1>1, <1>2, <1>3, AppliedGate DEF ComplianceInv, LawRestsWithOutput, RampBeforeMotion

LEMMA TimeoutKeepsInv ==
  ASSUME ComplianceInv, UpdateTimeout
  PROVE  ComplianceInv'
<1>1. /\ running /\ ApplyMode /\ core' = [CoreBefore EXCEPT !.prev_v = 0]
      /\ out' = 0 /\ skipped' = FALSE /\ force' = force
      /\ measured' = MeasuredBefore /\ residual' = ResidualBefore
  BY DEF UpdateTimeout, Serving, NoMeasurement, MeasuredBefore, ResidualBefore
<1>2. 0 \in -MaxSpeed .. MaxSpeed
  OBVIOUS
<1>3. /\ core' \in Cores /\ core'.prev_v = 0
      /\ core'.profile = CoreBefore.profile /\ core'.ramp = CoreBefore.ramp
      /\ core'.peak = CoreBefore.peak /\ core'.deadband = CoreBefore.deadband
  BY <1>1, <1>2, CoreBeforeGoes DEF Cores
<1>4. ComplianceTypeOK'
  <2>1. force' \in -MaxForce .. MaxForce /\ out' \in -MaxStep .. MaxStep
    BY <1>1 DEF ComplianceInv, ComplianceTypeOK
  <2> QED
    BY <1>1, <1>3, <2>1, CoreBeforeGoes, TypeAfterUpdate
<1>5. CoreGoesWith(core, gate, measured, residual)'
  BY <1>1, <1>3, AppliedGate, CoreBeforeGoes DEF CoreGoesWith
<1> QED
  BY <1>1, <1>3, <1>4, <1>5, AppliedGate DEF ComplianceInv, LawRestsWithOutput, RampBeforeMotion

(* The force of a measured cycle is within bounds, and the bias would take  *)
(* it up.                                                                   *)
LEMMA ForceBounds ==
  ASSUME NEW c \in Cores, NEW filtered \in Forces
  PROVE  /\ filtered - c.bias \in -MaxForce .. MaxForce
         /\ c.bias + (filtered - c.bias) \in Forces
         /\ [c EXCEPT !.filter = filtered] \in Cores
         /\ [c EXCEPT !.filter = filtered].profile = c.profile
         /\ [c EXCEPT !.filter = filtered].ramp = c.ramp
         /\ [c EXCEPT !.filter = filtered].peak = c.peak
         /\ [c EXCEPT !.filter = filtered].deadband = c.deadband
         /\ [c EXCEPT !.filter = filtered].bias = c.bias
         /\ [c EXCEPT !.filter = filtered].prev_v = c.prev_v
<1>1. c.bias \in Forces
  BY DEF Cores
<1>2. filtered - c.bias \in -MaxForce .. MaxForce /\ c.bias + (filtered - c.bias) \in Forces
  BY <1>1 DEF Forces
<1> QED
  BY <1>2 DEF Cores

LEMMA RampKeepsInv ==
  ASSUME ComplianceInv, UpdateRamp
  PROVE  ComplianceInv'
<1>1. /\ running /\ Engaged(GateAfter) /\ ApplyMode /\ CoreBefore.ramp > 0
      /\ out' = 0 /\ skipped' = FALSE
      /\ Measurement(force')
  BY DEF UpdateRamp, Serving
<1>2a. PICK sample \in Forces :
        \E filtered \in Filtered(CoreBefore, sample) :
          /\ force' = filtered - CoreBefore.bias
          /\ core' = Ramped([CoreBefore EXCEPT !.filter = filtered], force')
  BY DEF UpdateRamp
<1>2. PICK filtered \in Filtered(CoreBefore, sample) :
        /\ force' = filtered - CoreBefore.bias
        /\ core' = Ramped([CoreBefore EXCEPT !.filter = filtered], force')
  BY <1>2a
<1> DEFINE c == [CoreBefore EXCEPT !.filter = filtered]
<1>3. CoreBefore \in Cores /\ filtered \in Forces
  BY CoreBeforeGoes, FilteredBounds
<1>4. /\ c \in Cores /\ c.ramp > 0 /\ force' \in -MaxForce .. MaxForce
      /\ c.profile = CoreBefore.profile /\ c.ramp = CoreBefore.ramp
      /\ c.peak = CoreBefore.peak /\ c.deadband = CoreBefore.deadband
      /\ c.prev_v = CoreBefore.prev_v
  BY <1>1, <1>2, <1>3, ForceBounds
<1>5. CoreGoesWith(c, GateAfter, MeasuredBefore, ResidualBefore)
  BY <1>4, CoreBeforeGoes DEF CoreGoesWith
<1>6. /\ core' \in Cores /\ core'.prev_v = 0 /\ MeasuredBefore < RampCycles
      /\ CoreGoesWith(core', GateAfter, MeasuredBefore + 1, Larger(ResidualBefore, Abs(force')))
  <2> HIDE DEF c
  <2> QED
    BY <1>1, <1>2, <1>4, <1>5, AppliedGate, CoreBeforeGoes, RampedGoes DEF c
<1>7. measured' = MeasuredBefore + 1 /\ residual' = Larger(ResidualBefore, Abs(force'))
  BY <1>1, <1>6 DEF Measurement, MeasuredBefore, ResidualBefore
<1>8. measured' \in 0 .. RampCycles /\ residual' \in Forces
  BY <1>4, <1>6, <1>7, CoreBeforeGoes, AbsBounds, LargerBounds
<1>9. ComplianceTypeOK'
  <2>1. out' \in -MaxStep .. MaxStep
    BY <1>1
  <2> QED
    BY <1>1, <1>4, <1>6, <1>8, <2>1, TypeAfterUpdate
<1> QED
  BY <1>1, <1>6, <1>7, <1>9, AppliedGate DEF ComplianceInv, LawRestsWithOutput, RampBeforeMotion

(* In a cycle of the law the session has measured its whole window.         *)
LEMMA LawKeepsInv ==
  ASSUME ComplianceInv, UpdateLaw
  PROVE  ComplianceInv'
<1>1. /\ running /\ Engaged(GateAfter) /\ ApplyMode /\ CoreBefore.ramp = 0
      /\ skipped' = FALSE
      /\ Measurement(force')
  BY DEF UpdateLaw, Serving
<1> DEFINE tried(filtered, place) ==
             Retared([CoreBefore EXCEPT !.filter = filtered], filtered - CoreBefore.bias, place)
<1>2. PICK sample \in Forces, place \in Places :
        \E filtered \in Filtered(CoreBefore, sample) :
          force' = filtered - tried(filtered, place).bias /\ Command(tried(filtered, place))
  BY DEF UpdateLaw
<1>3. PICK filtered \in Filtered(CoreBefore, sample) :
        force' = filtered - tried(filtered, place).bias /\ Command(tried(filtered, place))
  BY <1>2
<1> DEFINE b == [CoreBefore EXCEPT !.filter = filtered]
           c == tried(filtered, place)
<1>4. CoreBefore \in Cores /\ filtered \in Forces
  BY CoreBeforeGoes, FilteredBounds
<1>5. /\ b \in Cores /\ b.profile = CoreBefore.profile /\ b.ramp = CoreBefore.ramp
      /\ b.deadband = CoreBefore.deadband /\ b.bias = CoreBefore.bias
      /\ filtered - CoreBefore.bias \in Int
      /\ CoreBefore.bias + (filtered - CoreBefore.bias) \in Forces
  BY <1>4, ForceBounds
<1>6. /\ c \in Cores /\ c.profile = CoreBefore.profile /\ c.ramp = 0
      /\ c.deadband = CoreBefore.deadband
  <2> HIDE DEF b
  <2>1. c = Retared(b, filtered - CoreBefore.bias, place)
    BY DEF b
  <2> QED
    BY <1>1, <1>5, <2>1, RetaredGoes
<1> HIDE DEF c
<1>7. /\ force' = filtered - c.bias
      /\ core' = [c EXCEPT !.prev_v = IF CutOff(force') THEN 0 ELSE Velocity(c, force')]
      /\ out' = IF CutOff(force') THEN 0 ELSE Clamp(Velocity(c, force'), MaxStep)
  BY <1>3 DEF Command, Limited, c
<1>8. force' \in -MaxForce .. MaxForce
  BY <1>4, <1>6, <1>7, ForceBounds
<1>9. Velocity(c, force') \in -MaxSpeed .. MaxSpeed
  BY <1>6, <1>8, VelocityBounds
<1> DEFINE v == IF CutOff(force') THEN 0 ELSE Velocity(c, force')
<1>10. v \in -MaxSpeed .. MaxSpeed
  BY <1>9
<1>11. /\ core' \in Cores /\ core'.prev_v = v /\ core'.profile = c.profile
       /\ core'.ramp = 0 /\ core'.deadband = c.deadband
  BY <1>6, <1>7, <1>10 DEF Cores
<1>12. out' \in -MaxStep .. MaxStep /\ (out' = 0 <=> v = 0)
  BY <1>7, <1>9, ClampBounds
<1>13. CoreGoesWith(CoreBefore, GateAfter, MeasuredBefore, ResidualBefore)
       /\ MeasuredBefore \in 0 .. RampCycles /\ ResidualBefore \in Forces
  BY CoreBeforeGoes
<1>14. /\ measured' \in 0 .. RampCycles /\ residual' \in Forces
       /\ MeasuredBefore = RampCycles => measured' = RampCycles /\ residual' = ResidualBefore
  <2>1. Larger(ResidualBefore, Abs(force')) \in Forces
    BY <1>8, <1>13, AbsBounds, LargerBounds
  <2>2. IF MeasuredBefore < RampCycles
        THEN measured' = MeasuredBefore + 1 /\ residual' = Larger(ResidualBefore, Abs(force'))
        ELSE measured' = MeasuredBefore /\ residual' = ResidualBefore
    BY <1>1 DEF Measurement, MeasuredBefore, ResidualBefore
  <2> QED
    BY <1>13, <2>1, <2>2
<1>15. GateAfter.profile = "DRAG" => MeasuredBefore = RampCycles
  BY <1>1, <1>13 DEF CoreGoesWith
<1>16. CoreGoesWith(core', GateAfter, measured', residual')
  <2> HIDE DEF v
  <2>1. core'.profile = GateAfter.profile
    BY <1>1, <1>6, <1>11, <1>13 DEF CoreGoesWith
  <2>2. GateAfter.profile = "PRECISION" => core'.deadband = FixedDeadband
    BY <1>1, <1>6, <1>11, <1>13 DEF CoreGoesWith
  <2>3. GateAfter.profile = "DRAG" => core'.deadband = residual' + Margin
    BY <1>1, <1>6, <1>11, <1>13, <1>14, <1>15 DEF CoreGoesWith
  <2>4. core'.ramp = 0 /\ ~(core'.ramp > 0)
    BY <1>11
  <2>5. GateAfter.profile = "DRAG" => core'.ramp + measured' = RampCycles
    BY <1>14, <1>15, <2>4
  <2> QED
    BY <2>1, <2>2, <2>3, <2>4, <2>5 DEF CoreGoesWith
<1>17. ComplianceTypeOK'
  BY <1>1, <1>8, <1>11, <1>12, <1>14, TypeAfterUpdate
<1> HIDE DEF v
<1> QED
  BY <1>1, <1>11, <1>12, <1>14, <1>15, <1>16, <1>17, AppliedGate
     DEF ComplianceInv, LawRestsWithOutput, RampBeforeMotion

LEMMA StartingKeepsInv ==
  ASSUME ComplianceInv, Starting
  PROVE  ComplianceInv'
<1>1. ~Engaged(gate)
  BY DEF ComplianceInv, Starting
<1>2. core' = core /\ out' = 0 /\ running' = TRUE /\ skipped' = TRUE
      /\ UNCHANGED <<mode_buf, mode_new, fault_buf, gate, force, measured, residual>>
  BY <1>1 DEF Starting, inputVars, historyVars
<1>3. 0 \in -MaxStep .. MaxStep
  OBVIOUS
<1> QED
  BY <1>1, <1>2, <1>3 DEF ComplianceInv, ComplianceTypeOK, CoreGoesWith, LawRestsWithOutput,
     RampBeforeMotion, Engaged

LEMMA StoppingKeepsInv ==
  ASSUME ComplianceInv, Stopping
  PROVE  ComplianceInv'
<1>1. /\ core' = core /\ out' = 0 /\ running' = FALSE /\ skipped' = TRUE
      /\ gate' = [gate EXCEPT !.mode = "IDLE"]
      /\ UNCHANGED <<mode_buf, mode_new, fault_buf, force, measured, residual>>
  BY DEF Stopping, inputVars, historyVars
<1>2. gate' \in ModeRecords /\ ~Engaged(gate')
  BY <1>1 DEF ComplianceInv, ComplianceTypeOK, ModeRecords, Modes, Engaged
<1>3. 0 \in -MaxStep .. MaxStep
  OBVIOUS
<1>4. ComplianceTypeOK'
  BY <1>1, <1>2, <1>3 DEF ComplianceInv, ComplianceTypeOK
<1> QED
  BY <1>1, <1>2, <1>4 DEF ComplianceInv, CoreGoesWith, LawRestsWithOutput, RampBeforeMotion

LEMMA InputsKeepInv ==
  ASSUME ComplianceInv, ModeCommand \/ RsiState \/ UNCHANGED vars
  PROVE  ComplianceInv'
<1>1. UNCHANGED <<running, gate, core, force, out, skipped, measured, residual>>
  BY DEF ModeCommand, RsiState, vars, inputVars, historyVars
<1>2. mode_buf' \in ModeRecords /\ mode_new' \in BOOLEAN /\ fault_buf' \in BOOLEAN
  BY DEF ModeCommand, RsiState, vars, inputVars, ComplianceInv, ComplianceTypeOK
<1> QED
  BY <1>1, <1>2 DEF ComplianceInv, ComplianceTypeOK, CoreGoesWith, LawRestsWithOutput,
     RampBeforeMotion, Engaged

-----------------------------------------------------------------------------
(* Theorems.                                                                *)

(* The invariant holds in every reachable state: types, the whole window    *)
(* before motion with DRAG, and the rate limiter at rest with the output.   *)
THEOREM ComplianceInvariant == Spec => []ComplianceInv
<1>1. Init => ComplianceInv
  <2> SUFFICES ASSUME Init
               PROVE  ComplianceInv
    OBVIOUS
  <2>1. IdleMode \in ModeRecords /\ ~Engaged(IdleMode)
    BY DEF IdleMode, ModeRecords, Modes, Profiles, Engaged
  <2>2. core \in Cores
    BY ConfiguredIsCore DEF Init, Profiles
  <2>3. ComplianceTypeOK
    <3>1. /\ 0 \in -MaxForce .. MaxForce /\ 0 \in -MaxStep .. MaxStep
          /\ 0 \in 0 .. RampCycles /\ 0 \in Forces
      BY DEF Forces
    <3> QED
      BY <2>1, <2>2, <3>1 DEF Init, ComplianceTypeOK
  <2> QED
    BY <2>1, <2>3 DEF Init, ComplianceInv, CoreGoesWith, LawRestsWithOutput, RampBeforeMotion
<1>2. ComplianceInv /\ [Next]_vars => ComplianceInv'
  <2> SUFFICES ASSUME ComplianceInv, [Next]_vars
               PROVE  ComplianceInv'
    OBVIOUS
  <2>1. CASE UpdateSkipped
    BY <2>1, SkippedKeepsInv
  <2>2. CASE UpdateTimeout
    BY <2>2, TimeoutKeepsInv
  <2>3. CASE UpdateRamp
    BY <2>3, RampKeepsInv
  <2>4. CASE UpdateLaw
    BY <2>4, LawKeepsInv
  <2>5. CASE Starting
    BY <2>5, StartingKeepsInv
  <2>6. CASE Stopping
    BY <2>6, StoppingKeepsInv
  <2>7. CASE ModeCommand \/ RsiState \/ UNCHANGED vars
    BY <2>7, InputsKeepInv
  <2> QED
    BY <2>1, <2>2, <2>3, <2>4, <2>5, <2>6, <2>7 DEF Next
<1> QED
  BY <1>1, <1>2, PTL DEF Spec

(* The type invariant: the bias absorbed by re-tares, however many, is a    *)
(* force that was measured.                                                 *)
THEOREM ComplianceTypeCorrect == Spec => []ComplianceTypeOK
<1>1. ComplianceInv => ComplianceTypeOK
  BY DEF ComplianceInv
<1> QED
  BY <1>1, ComplianceInvariant, PTL

(* After a cycle of the core the rate limiter is at rest exactly when the   *)
(* robot is (early returns of ForceComplianceCore::update()).               *)
THEOREM LawAlwaysRestsWithOutput == Spec => []LawRestsWithOutput
<1>1. ComplianceInv => LawRestsWithOutput
  BY DEF ComplianceInv
<1> QED
  BY <1>1, ComplianceInvariant, PTL

(* No motion with DRAG before a whole window has been measured in this      *)
(* session (the start-up ramp of ForceComplianceCore::update()).            *)
THEOREM RampAlwaysBeforeMotion == Spec => []RampBeforeMotion
<1>1. ComplianceInv => RampBeforeMotion
  BY DEF ComplianceInv
<1> QED
  BY <1>1, ComplianceInvariant, PTL

(* The deadband in force was fixed or learned by this very session          *)
(* (activate() and the end of the ramp).                                    *)
THEOREM DeadbandAlwaysOwn == Spec => []DeadbandIsOwn
<1>1. ComplianceInv => DeadbandIsOwn
  BY DEF ComplianceInv, ComplianceTypeOK, CoreGoesWith, DeadbandIsOwn, ModeRecords, Profiles,
     Cores
<1> QED
  BY <1>1, ComplianceInvariant, PTL

=============================================================================
