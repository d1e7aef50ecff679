--------------------------- MODULE ForceCompliance ---------------------------
(***************************************************************************)
(* ForceComplianceController and its ForceComplianceCore, cycle by cycle:  *)
(* mode gate, latest-value buffers, wrench timeout, filter, zero bias,     *)
(* start-up ramp, re-tare, admittance law and limiter.                     *)
(*                                                                         *)
(* One axis, in whole units: gain, scale and cycle time are 1, and the     *)
(* force is what is left of it when the payload is compensated.  The       *)
(* orientation of the TCP counts by its distance from where the activation *)
(* found it.  The orientation motion is never started by this controller.  *)
(***************************************************************************)
EXTENDS Integers, ModeGate

CONSTANTS
  MaxForce,       (* bound: the forces measured are 0 .. MaxForce            *)
  Ceiling,        (* safety: no output above this force                      *)
  MaxStep,        (* safety: the correction of one cycle                     *)
  FixedDeadband,  (* deadband_force                                          *)
  Margin,         (* ramp_force_margin_n                                     *)
  RampCycles,     (* ramp_window_s in cycles                                 *)
  MaxSpeed,       (* max_speed_translation                                   *)
  MaxAccel,       (* max_accel_translation, per cycle                        *)
  ModeRequests,   (* the messages that may arrive                            *)
  None            (* nothing, a value of its own                             *)

ASSUME ComplianceAssumption ==
  /\ MaxForce \in Nat /\ Ceiling \in Nat /\ FixedDeadband \in Nat /\ Margin \in Nat
  /\ MaxStep \in Nat \ {0} /\ RampCycles \in Nat \ {0}
  /\ MaxSpeed \in Nat \ {0} /\ MaxAccel \in Nat \ {0}
  /\ ModeRequests \subseteq ModeRecords
  /\ None \notin Int

Forces == 0 .. MaxForce

(* Within the tolerance of the re-tare, within its re-arm factor, beyond.   *)
Places == {"reference", "near", "far"}

VARIABLES
  running,      (* the controller_manager runs the controller               *)
  mode_buf,     (* the last mode request                                    *)
  mode_new,     (* the gate has not seen it                                 *)
  gate,         (* mode and profile                                         *)
  fault_buf,    (* the last fault flag of the RSI state                     *)
  core,         (* the state of ForceComplianceCore                         *)
  force,        (* the compensated force of the last measured cycle         *)
  out,          (* the correction commanded last                            *)
  skipped,      (* history: the last call did not get as far as the core    *)
  measured,     (* history: cycles with a wrench since the activation, up   *)
                (* to RampCycles                                            *)
  residual      (* history: the largest force of those cycles               *)

inputVars == <<mode_buf, mode_new, fault_buf>>
historyVars == <<measured, residual>>
vars == <<running, inputVars, gate, core, force, out, skipped, historyVars>>

-----------------------------------------------------------------------------
(* ForceComplianceCore.                                                     *)

Abs(x) == IF x < 0 THEN -x ELSE x
Larger(x, y) == IF x < y THEN y ELSE x
Clamp(x, limit) == IF x > limit THEN limit ELSE IF x < -limit THEN -limit ELSE x

(* ramp: cycles left, 0 while it is not active.                             *)
Configured(profile) ==
  [profile |-> profile, filter |-> None, bias |-> 0, prev_v |-> 0, ramp |-> 0, peak |-> 0,
   armed |-> FALSE, deadband |-> FixedDeadband]

Activated(c) ==
  LET rested == [c EXCEPT !.filter = None, !.prev_v = 0, !.armed = FALSE,
                          !.deadband = FixedDeadband]
  IN  IF c.profile = "DRAG" THEN [rested EXCEPT !.ramp = RampCycles, !.peak = 0] ELSE rested

(* The low-pass moves from its state towards the sample, somewhere between. *)
Filtered(c, sample) ==
  IF c.filter = None THEN {sample}
  ELSE {f \in Forces : (c.filter <= f /\ f <= sample) \/ (sample <= f /\ f <= c.filter)}

(* Mutant: the deadband is learned from the last sample of the window.      *)
RampedByLast(c, f) ==
  [c EXCEPT !.ramp = @ - 1, !.peak = Abs(f),
            !.deadband = IF c.ramp = 1 THEN Abs(f) + Margin ELSE @]

(* A cycle of the ramp; its last one learns the deadband.                   *)
Ramped(c, f) ==
  [c EXCEPT !.ramp = @ - 1, !.peak = Larger(@, Abs(f)),
            !.deadband = IF c.ramp = 1 THEN Larger(c.peak, Abs(f)) + Margin ELSE @]

(* Mutant: the residual is absorbed with the wrong sign.                    *)
AbsorbedReversed(c, f) == [c EXCEPT !.bias = @ - f, !.armed = FALSE]

Absorbed(c, f) == [c EXCEPT !.bias = @ + f, !.armed = FALSE]

(* The TCP is back and the force within the deadband.  Never in PRECISION.  *)
ShouldTare(c, f, place) ==
  c.profile = "DRAG" /\ place = "reference" /\ Abs(f) < c.deadband

(* The re-tare is armed beyond the re-arm distance and fires once.          *)
Retared(c, f, place) ==
  IF c.armed /\ ShouldTare(c, f, place)
  THEN Absorbed(c, f)
  ELSE [c EXCEPT !.armed = @ \/ place = "far"]

Deadzone(f, deadband) ==
  IF Abs(f) <= deadband THEN 0 ELSE IF f > 0 THEN f - deadband ELSE f + deadband

(* The velocity of the law, limited in speed and in its change.             *)
Velocity(c, f) ==
  c.prev_v + Clamp(Clamp(Deadzone(f, c.deadband), MaxSpeed) - c.prev_v, MaxAccel)

CutOff(f) == Abs(f) > Ceiling

Limited(v, f) == IF CutOff(f) THEN 0 ELSE Clamp(v, MaxStep)

-----------------------------------------------------------------------------
(* The controller.                                                          *)

Engaged(g) == g.mode = "COMPLIANCE"

GateAfter == IF mode_new THEN Applied(gate, mode_buf) ELSE gate

Entered == Engaged(GateAfter) /\ ~Engaged(gate)

(* The core at the head of update(), configured and activated on entry.     *)
CoreBefore == IF Entered THEN Activated(Configured(GateAfter.profile)) ELSE core

ApplyMode ==
  /\ gate' = GateAfter
  /\ mode_new' = FALSE
  /\ UNCHANGED <<running, mode_buf, fault_buf>>

Serving == running /\ Engaged(GateAfter) /\ ~fault_buf

NoMeasurement ==
  /\ measured' = IF Entered THEN 0 ELSE measured
  /\ residual' = IF Entered THEN 0 ELSE residual

Measurement(f) ==
  LET m == IF Entered THEN 0 ELSE measured
      r == IF Entered THEN 0 ELSE residual
  IN  IF m < RampCycles THEN measured' = m + 1 /\ residual' = Larger(r, Abs(f))
      ELSE measured' = m /\ residual' = r

(* Disengaged or faulted: zero, without a call of the core.                 *)
UpdateSkipped ==
  /\ running
  /\ ~Engaged(GateAfter) \/ fault_buf
  /\ ApplyMode
  /\ core' = CoreBefore
  /\ out' = 0
  /\ skipped' = TRUE
  /\ NoMeasurement
  /\ UNCHANGED force

(* Mutant: a cycle without a wrench counts for the ramp.                    *)
UpdateTimeoutRamps ==
  /\ Serving
  /\ ApplyMode
  /\ core' = [CoreBefore EXCEPT !.prev_v = 0, !.ramp = IF @ > 0 THEN @ - 1 ELSE 0]
  /\ out' = 0
  /\ skipped' = FALSE
  /\ NoMeasurement
  /\ UNCHANGED force

(* No wrench yet, or one that is too old.                                   *)
UpdateTimeout ==
  /\ Serving
  /\ ApplyMode
  /\ core' = [CoreBefore EXCEPT !.prev_v = 0]
  /\ out' = 0
  /\ skipped' = FALSE
  /\ NoMeasurement
  /\ UNCHANGED force

UpdateRamp ==
  /\ Serving
  /\ CoreBefore.ramp > 0
  /\ ApplyMode
  /\ \E sample \in Forces :
       \E filtered \in Filtered(CoreBefore, sample) :
         /\ force' = filtered - CoreBefore.bias
         /\ core' = Ramped([CoreBefore EXCEPT !.filter = filtered], force')
  /\ Measurement(force')
  /\ out' = 0
  /\ skipped' = FALSE

(* Mutant: a hard cutoff leaves the rate limiter where it was.              *)
CommandKeepsRate(c) ==
  /\ core' = [c EXCEPT !.prev_v = Velocity(c, force')]
  /\ out' = Limited(Velocity(c, force'), force')

(* Law, limiter and, after a hard cutoff, the law at rest.                  *)
Command(c) ==
  /\ core' = [c EXCEPT !.prev_v = IF CutOff(force') THEN 0 ELSE Velocity(c, force')]
  /\ out' = Limited(Velocity(c, force'), force')

UpdateLaw ==
  /\ Serving
  /\ CoreBefore.ramp = 0
  /\ ApplyMode
  /\ \E sample \in Forces, place \in Places :
       \E filtered \in Filtered(CoreBefore, sample) :
         LET c == Retared([CoreBefore EXCEPT !.filter = filtered],
                          filtered - CoreBefore.bias, place)
         IN  force' = filtered - c.bias /\ Command(c)
  /\ Measurement(force')
  /\ skipped' = FALSE

(* starting(); the core is activated again if the gate is engaged, but      *)
(* stopping() leaves no gate engaged.                                       *)
Starting ==
  /\ ~running
  /\ running' = TRUE
  /\ core' = IF Engaged(gate) THEN Activated(core) ELSE core
  /\ out' = 0
  /\ skipped' = TRUE
  /\ UNCHANGED <<inputVars, gate, force, historyVars>>

Stopping ==
  /\ running
  /\ running' = FALSE
  /\ gate' = [gate EXCEPT !.mode = "IDLE"]
  /\ out' = 0
  /\ skipped' = TRUE
  /\ UNCHANGED <<inputVars, core, force, historyVars>>

ModeCommand ==
  /\ mode_buf' \in ModeRequests
  /\ mode_new' = TRUE
  /\ UNCHANGED <<running, gate, fault_buf, core, force, out, skipped, historyVars>>

RsiState ==
  /\ fault_buf' = ~fault_buf
  /\ UNCHANGED <<running, mode_buf, mode_new, gate, core, force, out, skipped, historyVars>>

Init ==
  /\ running = FALSE
  /\ mode_buf = IdleMode /\ mode_new = FALSE
  /\ gate = IdleMode
  /\ fault_buf = FALSE
  /\ core = Configured("PRECISION")
  /\ force = 0 /\ out = 0
  /\ skipped = TRUE
  /\ measured = 0 /\ residual = 0

Next ==
  \/ UpdateSkipped \/ UpdateTimeout \/ UpdateRamp \/ UpdateLaw
  \/ Starting \/ Stopping \/ ModeCommand \/ RsiState

Spec == Init /\ [][Next]_vars

-----------------------------------------------------------------------------
(* Properties.                                                              *)

Cores ==
  [profile : Profiles, filter : Forces \cup {None}, bias : Forces,
   prev_v : -MaxSpeed .. MaxSpeed, ramp : 0 .. RampCycles, peak : Forces,
   armed : BOOLEAN, deadband : Nat]

(* Types and ranges: the bias absorbed stays a force that was measured.     *)
ComplianceTypeOK ==
  /\ running \in BOOLEAN /\ mode_new \in BOOLEAN /\ fault_buf \in BOOLEAN
  /\ skipped \in BOOLEAN
  /\ mode_buf \in ModeRecords /\ gate \in ModeRecords
  /\ core \in Cores
  /\ force \in -MaxForce .. MaxForce
  /\ out \in -MaxStep .. MaxStep
  /\ measured \in 0 .. RampCycles /\ residual \in Forces

(* The rate limiter is at rest exactly when the last cycle that reached the *)
(* core commanded no motion, whichever of its early returns that cycle took *)
(* (force_compliance_core.cpp, 48-52, 71-74 and 123).                       *)
LawRestsWithOutput ==
  ~skipped => (core.prev_v = 0 <=> out = 0)

(* Hand guiding moves the robot only after a whole window of measured       *)
(* wrenches since the mode was entered; cycles without a wrench, faults in  *)
(* between and earlier sessions do not count (force_compliance_core.cpp,    *)
(* 39-42 and 62-75).                                                        *)
RampBeforeMotion ==
  out # 0 /\ gate.profile = "DRAG" => measured = RampCycles

(* The deadband in force is the one of this session: the fixed one, or with *)
(* DRAG the largest force of its own window and the margin, so that a force *)
(* that was there in the window does not move the robot                     *)
(* (force_compliance_core.cpp, 37-38 and 66-70; adaptive_deadband.cpp).     *)
DeadbandIsOwn ==
  Engaged(gate) =>
    core.deadband = IF gate.profile = "DRAG" /\ measured = RampCycles THEN residual + Margin
                    ELSE FixedDeadband

(* "Never resume with stale rate-limiter state" (force_compliance_core.cpp, *)
(* 50): motion starts only by a force beyond the deadband.                  *)
MotionStartsByForce ==
  [][out = 0 /\ out' # 0 => Abs(force') > core'.deadband]_vars

=============================================================================
