-------------------------- MODULE BldcServo_proofs --------------------------
(***************************************************************************)
(* Proofs about BldcServo, for every set of commands and inputs and every  *)
(* value of the configuration.                                             *)
(***************************************************************************)
EXTENDS BldcServo, TLAPS

-----------------------------------------------------------------------------
(* The inductive invariant                                                 *)

\* The program points at which the main loop acts on a mode it read earlier.
Enabling == {"enablePin", "enableRead", "enableStore", "writeConfig", "enableReturn",
             "setCalibrating", "enableFaultCode", "enableFaultMode"}
Commanding == {"faultCode", "faultMode", "swap"}

\* While the enable poll runs on its copy of the mode, the ISR can stop, fault
\* or restart the servo but not get past kEnabling: no sample is taken.
EnableInv ==
    /\ servo.mode = "kEnabling" => servo.cal = 0
    /\ main.pc \in Enabling =>
          servo.mode \in {"kEnabling", "kFault", "kStopped"} /\ servo.cal = 0

CalibrationInv ==
    /\ servo.mode = "kCalibrating" => servo.cal < CalibrateCount
    /\ CalibratedBeforeTorque

\* Where the watchdog's remaining time is: still in the command buffer, or
\* taken over and counted down once per cycle.
WatchdogInv ==
    /\ main.pc \in Commanding => main.next.timeout # 0
    /\ data.timeout # 0 => hist.armed = data.timeout /\ hist.quiet = 0
    /\ data.timeout = 0 /\ hist.armed = NaN => servo.timeout = NaN
    /\ data.timeout = 0 /\ hist.armed # NaN =>
          hist.quiet <= hist.armed /\ servo.timeout = hist.armed - hist.quiet
    /\ WatchdogBound

\* What is left of the cooldown pays for every further cycle with power on.
CooldownInv ==
    /\ servo.cooldown <= CooldownCycles \/ servo.cooldown <= CooldownBrake
    /\ servo.power => servo.cooldown >= Lesser(CooldownBrake, CooldownCycles)
    /\ hist.dwell > 1 /\ (servo.power \/ servo.cooldown > CooldownBrake) =>
          hist.dwell + servo.cooldown <= CooldownCycles + 1

IndInv == TypeOK /\ EnableInv /\ CalibrationInv /\ WatchdogInv /\ CooldownInv

-----------------------------------------------------------------------------
(* What the steps of a control cycle do to the fields of the invariant     *)

\* The numeric constants are natural numbers.
LEMMA ConstantTypes ==
    /\ CooldownCycles \in Nat /\ CooldownBrake \in Nat
    /\ CalibrateCount \in Nat /\ CalibrateCount > 0
  BY ConstantsAssumption

\* A control law writes only mode, fault and the outputs.
Controlled(s, t) ==
    /\ t \in ServoType
    /\ t.mode \in {s.mode, "kFault"}
    /\ t.cooldown = s.cooldown /\ t.timeout = s.timeout /\ t.cal = s.cal

\* ISR_DoVoltageDQ either drives or faults and drives, and keeps the counters.
LEMMA DoVoltageDQLemma ==
    ASSUME NEW s \in ServoType, NEW ep \in Nat
    PROVE  Controlled(s, ISR_DoVoltageDQ(s, ep))
  BY ZenonT(60) DEF Controlled, ISR_DoVoltageDQ, ISR_CalculatePhaseVoltage, DoPwmControl, Raise,
         ServoType, Mode, Errc, FaultOrStopped, FaultCode

\* ISR_DoCurrent, its two early returns included, keeps the counters.
LEMMA DoCurrentLemma ==
    ASSUME NEW s \in ServoType, NEW in \in InputType, NEW ep \in Nat
    PROVE  Controlled(s, ISR_DoCurrent(s, in, ep))
  <1>1. in.motor # "kSuccess" => Controlled(s, Raise(s, in.motor))
    BY DEF Controlled, Raise, InputType, ServoType, Mode, Errc, FaultOrStopped, FaultCode
  <1> DEFINE u == ReportLimit(s, in)
  <1>2. u \in ServoType /\ Controlled(s, u)
    BY DEF ReportLimit, Controlled, InputType, ServoType, Errc
  <1>3. Controlled(u, ISR_DoVoltageDQ(u, ep))
    BY <1>2, DoVoltageDQLemma
  <1>4. Controlled(s, ISR_DoVoltageDQ(u, ep))
    BY <1>2, <1>3 DEF Controlled
  <1> QED
    BY <1>1, <1>4 DEF ISR_DoCurrent

\* ISR_DoPositionCommon keeps the counters, whichever way it returns.
LEMMA DoPositionCommonLemma ==
    ASSUME NEW s \in ServoType, NEW in \in InputType, NEW ep \in Nat, NEW fixed
    PROVE  Controlled(s, ISR_DoPositionCommon(s, fixed, in, ep))
  <1> DEFINE u == ReportLimit(s, in)
  <1>1. in.position # "kSuccess" => Controlled(s, Raise(s, in.position))
    BY DEF Controlled, Raise, InputType, ServoType, Mode, Errc, FaultOrStopped, FaultCode
  <1>2. u \in ServoType /\ Controlled(s, u)
    BY DEF ReportLimit, Controlled, InputType, ServoType, Errc
  <1>3. Controlled(u, ISR_DoCurrent(u, in, ep))
    BY <1>2, DoCurrentLemma
  <1>4. Controlled(s, ISR_DoCurrent(u, in, ep))
    BY <1>2, <1>3 DEF Controlled
  <1>5. Controlled(s, ISR_DoCurrent(s, in, ep)) /\ Controlled(s, ISR_DoVoltageDQ(s, ep))
    BY DoCurrentLemma, DoVoltageDQLemma
  <1> QED
    BY <1>1, <1>4, <1>5 DEF ISR_DoPositionCommon

\* One cycle of ISR_DoStopped: the cooldown shrinks, and from cooldown_brake
\* down the output floats.
Cooled(s, t) ==
    /\ t \in ServoType
    /\ t.mode \in {s.mode, "kFault"}
    /\ t.timeout = s.timeout /\ t.cal = s.cal
    /\ s.cooldown = 0 => t.cooldown = 0 /\ t.power = FALSE
    /\ s.cooldown > 0 => t.cooldown = s.cooldown - 1
    /\ s.cooldown <= CooldownBrake => t.power = FALSE

\* ISR_DoStopped takes one step of the cooldown.
LEMMA DoStoppedLemma ==
    ASSUME NEW s \in ServoType, NEW in \in InputType, NEW ep \in Nat
    PROVE  Cooled(s, ISR_DoStopped(s, in, ep))
  <1> USE ConstantTypes
  <1> DEFINE h == DoHiz(s)
  <1>0. /\ h \in ServoType /\ h.power = FALSE /\ h.mode = s.mode
        /\ h.timeout = s.timeout /\ h.cal = s.cal /\ h.cooldown = s.cooldown
    BY DEF DoHiz, ServoType
  <1>1. CASE s.cooldown = 0
    <2> DEFINE t == [h EXCEPT !.pin = FALSE, !.drv = "kDisabled", !.faultConfig = FALSE]
    <2>1. ISR_DoStopped(s, in, ep) = t
      BY <1>1 DEF ISR_DoStopped, DoHardStop
    <2> HIDE DEF h
    <2>2. t \in ServoType
      BY <1>0 DEF ServoType, EnableState
    <2>3. /\ t.power = h.power /\ t.mode = h.mode
          /\ t.timeout = h.timeout /\ t.cal = h.cal /\ t.cooldown = h.cooldown
      BY <1>0 DEF ServoType
    <2> HIDE DEF t
    <2> QED
      BY <1>0, <1>1, <2>1, <2>2, <2>3 DEF Cooled
  <1>2. CASE s.cooldown # 0 /\ s.cooldown > CooldownBrake
    <2> DEFINE u == ISR_DoCurrent(s, in, ep)
    <2>1. Controlled(s, u)
      BY DoCurrentLemma
    <2>2. ISR_DoStopped(s, in, ep) = [u EXCEPT !.cooldown = @ - 1]
      BY <1>2 DEF ISR_DoStopped
    <2> HIDE DEF u
    <2>3. s.cooldown \in Nat
      BY DEF ServoType
    <2> QED
      BY <1>2, <2>1, <2>2, <2>3 DEF Cooled, Controlled, ServoType
  <1>3. CASE s.cooldown # 0 /\ ~(s.cooldown > CooldownBrake)
    <2>1. ISR_DoStopped(s, in, ep) = [h EXCEPT !.cooldown = @ - 1]
      BY <1>3 DEF ISR_DoStopped
    <2> HIDE DEF h
    <2>2. s.cooldown \in Nat
      BY DEF ServoType
    <2> QED
      BY <1>0, <1>3, <2>1, <2>2 DEF Cooled, ServoType
  <1> QED
    BY <1>1, <1>2, <1>3

\* What running the selected mode does: the control laws keep the counters,
\* stopping cools down, calibrating counts samples, starting waits.
LEMMA RunModeLemma ==
    ASSUME NEW m \in ServoType, NEW d \in CommandType, NEW in \in InputType, NEW ep \in Nat,
           NEW r, r = RunMode(m, d, in, ep)
    PROVE  /\ r \in ServoType /\ r.timeout = m.timeout
           /\ m.mode \in FaultOrStopped => Cooled(m, r)
           /\ m.mode \in Active => Controlled(m, r)
           /\ m.mode = "kPositionTimeout" =>
                \/ Controlled(m, r) /\ torque_on(m)
                \/ Cooled(m, r)
           /\ m.mode \in {"kEnabling", "kCalibrationComplete"} => r = m
           /\ m.mode = "kCalibrating" =>
                /\ r.cooldown = m.cooldown /\ r.power = m.power
                /\ r.cal = m.cal + 1
                /\ \/ r.mode = "kCalibrating" /\ r.cal < CalibrateCount
                   \/ r.mode = "kCalibrationComplete" /\ r.cal >= CalibrateCount
                   \/ r.mode = "kFault"
  <1> USE ConstantTypes
  <1>1. CASE m.mode \in FaultOrStopped
    <2>1. r = ISR_DoStopped(m, in, ep)
      BY <1>1 DEF RunMode, FaultOrStopped, BoundedModes
    <2>2. Cooled(m, r)
      BY <2>1, DoStoppedLemma
    <2>3. r \in ServoType /\ r.timeout = m.timeout
      BY <2>2 DEF Cooled
    <2> QED
      BY <1>1, <2>2, <2>3 DEF FaultOrStopped, Active, VoltageModes, CurrentModes
  <1>2. CASE m.mode \in Active
    <2>0. Controlled(m, DoPwmControl(m)) /\ Controlled(m, DoBrake(m))
      BY DEF Controlled, DoPwmControl, DoBrake, ServoType
    <2>1. Controlled(m, ISR_DoVoltageDQCommand(m, in, ep))
      <3>1. in.motor # "kSuccess" => Controlled(m, Raise(m, in.motor))
        BY DEF Controlled, Raise, InputType, ServoType, Mode, Errc, FaultOrStopped, FaultCode
      <3> QED
        BY <3>1, DoVoltageDQLemma DEF ISR_DoVoltageDQCommand
    <2>2. Controlled(m, r)
      BY <1>2, <2>0, <2>1, DoVoltageDQLemma, DoCurrentLemma, DoPositionCommonLemma
         DEF RunMode, FaultOrStopped, BoundedModes, Active, VoltageModes, CurrentModes
    <2> QED
      BY <1>2, <2>2 DEF Controlled, FaultOrStopped, Active, VoltageModes, CurrentModes
  <1>3. CASE m.mode = "kPositionTimeout"
    <2>0. r = ISR_DoPositionTimeout(m, in, ep)
      BY <1>3 DEF RunMode, FaultOrStopped, BoundedModes
    <2>1. Controlled(m, DoBrake(m))
      BY DEF Controlled, DoBrake, ServoType
    <2>2. (Controlled(m, r) /\ torque_on(m)) \/ Cooled(m, r)
      BY <1>3, <2>0, <2>1, DoPositionCommonLemma, DoStoppedLemma
         DEF ISR_DoPositionTimeout, torque_on
    <2> QED
      BY <1>3, <2>2 DEF Controlled, Cooled, FaultOrStopped, Active, VoltageModes, CurrentModes
  <1>4. CASE m.mode \in {"kEnabling", "kCalibrationComplete"}
    <2>1. r = m
      BY <1>4 DEF RunMode, FaultOrStopped, BoundedModes
    <2> QED
      BY <1>4, <2>1 DEF FaultOrStopped, Active, VoltageModes, CurrentModes
  <1>5. CASE m.mode = "kCalibrating"
    <2>1. r = ISR_DoCalibrating(m, in)
      BY <1>5 DEF RunMode, FaultOrStopped, BoundedModes
    <2>2. m.cal \in Nat /\ in.offsetsOk \in BOOLEAN
      BY DEF ServoType, InputType
    <2> DEFINE t == [m EXCEPT !.cal = @ + 1]
    <2>a. t \in ServoType /\ t.timeout = m.timeout
      BY <2>2 DEF ServoType
    <2>b. \/ r = t
          \/ r = [t EXCEPT !.mode = "kCalibrationComplete"]
          \/ r = Raise(t, "kCalibrationFault")
      BY <2>1, <2>2 DEF ISR_DoCalibrating
    <2> HIDE DEF t
    <2>3. r \in ServoType /\ r.timeout = m.timeout
      BY <2>a, <2>b, ZenonT(60) DEF Raise, ServoType, Mode, FaultOrStopped, Starting, Errc, FaultCode
    <2>4. r.cooldown = m.cooldown /\ r.power = m.power /\ r.cal = m.cal + 1
      BY <2>1, <2>2 DEF ISR_DoCalibrating, Raise, ServoType
    <2>5. \/ r.mode = "kCalibrating" /\ r.cal < CalibrateCount
          \/ r.mode = "kCalibrationComplete" /\ r.cal >= CalibrateCount
          \/ r.mode = "kFault"
      BY <1>5, <2>1, <2>2 DEF ISR_DoCalibrating, Raise, ServoType
    <2> QED
      BY <1>5, <2>3, <2>4, <2>5 DEF FaultOrStopped, Active, VoltageModes, CurrentModes
  <1>6. m.mode \in Mode
    BY DEF ServoType
  <1> QED
    BY <1>1, <1>2, <1>3, <1>4, <1>5, <1>6 DEF Mode, Starting

\* Which modes a control cycle can select, and when the sample counter is reset.
Selected(s, t) ==
    /\ s.mode = "kFault" => t.mode \in FaultOrStopped
    /\ s.mode \in {"kStopped", "kEnabling"} => t.mode \in FaultOrStopped \cup {"kEnabling"}
    /\ s.mode = "kCalibrating" => t.mode \in FaultOrStopped \cup {"kCalibrating"}
    /\ s.mode = "kPositionTimeout" => t.mode \in FaultOrStopped \cup {"kPositionTimeout"}
    /\ s.mode \in Active \cup {"kCalibrationComplete"} =>
          t.mode \in FaultOrStopped \cup Active \cup {"kCalibrationComplete", "kPositionTimeout"}
    /\ \/ t.cal = s.cal /\ (t.mode = "kEnabling" => s.mode = "kEnabling")
       \/ t.cal = 0 /\ t.mode \in FaultOrStopped \cup {"kEnabling"}

\* ISR_MaybeChangeMode follows the mode diagram and never powers the output.
LEMMA MaybeChangeModeLemma ==
    ASSUME NEW s \in ServoType, NEW d \in CommandType, d.mode \notin Uncommandable,
           NEW in \in InputType, NEW ep \in Nat,
           NEW t, t = ISR_MaybeChangeMode(s, d, in, ep)
    PROVE  /\ t \in ServoType /\ Selected(s, t)
           /\ t.timeout = s.timeout /\ t.cooldown = s.cooldown
           /\ t.power \in {s.power, FALSE}
  <1> USE DEF FaultOrStopped, Active, VoltageModes, CurrentModes
  <1>0. /\ s.mode \in Mode /\ d.mode \in Mode \ Uncommandable
        /\ in.start \in StartErrors \cup {"kSuccess"}
    BY DEF ServoType, CommandType, InputType
  <1>1. CASE t = s
    <2>1. Selected(s, s)
      BY <1>0 DEF Selected
    <2> QED
      BY <1>1, <2>1 DEF ServoType
  <1>2. CASE t = [s EXCEPT !.mode = "kStopped"]
    <2>1. /\ t \in ServoType /\ t.mode = "kStopped" /\ t.cal = s.cal
          /\ t.timeout = s.timeout /\ t.cooldown = s.cooldown /\ t.power = s.power
      BY <1>2 DEF ServoType, Mode
    <2> QED
      BY <2>1 DEF Selected
  <1>3. CASE s.mode = "kStopped" /\ t = ISR_StartCalibrating(s, ep)
    <2> DEFINE h == DoHiz(s)
    <2>1. /\ h \in ServoType /\ h.power = FALSE /\ h.timeout = s.timeout
          /\ h.cooldown = s.cooldown
      BY DEF DoHiz, ServoType
    <2>2. t = [h EXCEPT !.isrEpoch = ep, !.mode = "kEnabling", !.cal = 0]
      BY <1>3 DEF ISR_StartCalibrating
    <2> HIDE DEF h
    <2>a. "kEnabling" \in Mode
      BY DEF Mode, Starting
    <2> DEFINE w == [h EXCEPT !.isrEpoch = ep, !.mode = "kEnabling"]
    <2>b. w \in ServoType
      BY <2>1, <2>a DEF ServoType
    <2>c. t = [w EXCEPT !.cal = 0]
      BY <2>2
    <2> HIDE DEF w
    <2>3. t \in ServoType
      BY <2>b, <2>c DEF ServoType
    <2>4. /\ t.mode = "kEnabling" /\ t.cal = 0
          /\ t.timeout = h.timeout /\ t.cooldown = h.cooldown /\ t.power = h.power
      BY <2>1, <2>2 DEF ServoType
    <2> QED
      BY <1>3, <2>1, <2>3, <2>4 DEF Selected
  <1>4. ASSUME NEW u \in ServoType, s.mode \in Active \cup {"kCalibrationComplete"},
               u.mode = s.mode, u.cal = s.cal, u.timeout = s.timeout,
               u.cooldown = s.cooldown, u.power = s.power, d.mode # "kStopped",
               t = EnterMode(u, d, in)
        PROVE  /\ t \in ServoType /\ Selected(s, t)
               /\ t.timeout = s.timeout /\ t.cooldown = s.cooldown
               /\ t.power \in {s.power, FALSE}
    <2>1. \/ t = [u EXCEPT !.mode = d.mode]
          \/ t = [u EXCEPT !.mode = "kFault", !.fault = in.start] /\ in.start \in StartErrors
      BY <1>4, <1>0 DEF EnterMode, Raise
    <2>2. /\ t \in ServoType
          /\ t.timeout = u.timeout /\ t.cooldown = u.cooldown /\ t.power = u.power
          /\ t.cal = u.cal /\ t.mode \in {d.mode, "kFault"}
      BY <1>0, <2>1, ZenonT(60) DEF ServoType, Mode, Errc, FaultCode
    <2>3. d.mode \in Active \cup {"kPositionTimeout"}
      BY <1>0, <1>4 DEF Mode, Uncommandable, Starting
    <2>4. Selected(s, t)
      BY <1>4, <2>2, <2>3 DEF Selected
    <2> QED
      BY <1>4, <2>2, <2>4
  <1>5. CASE s.mode = "kCalibrationComplete" /\ d.mode # "kStopped"
             /\ t = EnterMode([s EXCEPT !.isrEpoch = ep], d, in)
    <2> DEFINE u == [s EXCEPT !.isrEpoch = ep]
    <2>1. /\ u \in ServoType /\ u.mode = s.mode /\ u.cal = s.cal /\ u.timeout = s.timeout
          /\ u.cooldown = s.cooldown /\ u.power = s.power
      BY DEF ServoType
    <2>2. t = EnterMode(u, d, in)
      BY <1>5
    <2> HIDE DEF u
    <2>3. s.mode \in Active \cup {"kCalibrationComplete"}
      BY <1>5
    <2> QED
      BY <1>4, <1>5, <2>1, <2>2, <2>3
  <1>6. CASE s.mode \in Active /\ d.mode # "kStopped" /\ t = EnterMode(s, d, in)
    BY <1>4, <1>6
  <1>7. \/ t = s
        \/ t = [s EXCEPT !.mode = "kStopped"]
        \/ s.mode = "kStopped" /\ t = ISR_StartCalibrating(s, ep)
        \/ s.mode = "kCalibrationComplete" /\ d.mode # "kStopped"
           /\ t = EnterMode([s EXCEPT !.isrEpoch = ep], d, in)
        \/ s.mode \in Active /\ d.mode # "kStopped" /\ t = EnterMode(s, d, in)
    BY DEF ISR_MaybeChangeMode
  <1> QED
    BY <1>1, <1>2, <1>3, <1>5, <1>6, <1>7

\* The record selected for the cycle, relative to the one sensed.
Selection(s, m) ==
    /\ m \in ServoType /\ Selected(s, m)
    /\ m.timeout = IF s.timeout > 0 THEN s.timeout - 1 ELSE s.timeout
    /\ m.power \in {s.power, FALSE}
    /\ m.mode \in BoundedModes => m.timeout # 0
    /\ torque_on(m) => m.cooldown \in {CooldownCycles, CooldownBrake}
    /\ ~torque_on(m) => m.cooldown = s.cooldown

\* Everything ISR_DoControl decides before it runs the mode: the mode diagram
\* is followed, the watchdog counts, and the cooldown is loaded exactly when
\* the selected mode can apply torque.
LEMMA SelectModeLemma ==
    ASSUME NEW s \in ServoType, NEW d \in CommandType, d.mode \notin Uncommandable,
           NEW in \in InputType, NEW ep \in Nat,
           NEW m, m = SelectMode(s, d, in, ep)
    PROVE  Selection(s, m)
  <1> USE ConstantTypes DEF FaultOrStopped, Active, VoltageModes, CurrentModes
  <1> DEFINE counted == IF s.timeout > 0 THEN [s EXCEPT !.timeout = @ - 1] ELSE s
             changed == ISR_MaybeChangeMode(counted, d, in, ep)
             faulted == CheckPersistentFaults(changed, in)
             watched == CheckWatchdog(faulted)
             cleared == ClearFaultCode(watched)
  <1>1. s.timeout \in TimeoutType
    BY DEF ServoType
  <1>2. /\ counted \in ServoType /\ counted.mode = s.mode /\ counted.cal = s.cal
        /\ counted.cooldown = s.cooldown /\ counted.power = s.power
        /\ counted.timeout = IF s.timeout > 0 THEN s.timeout - 1 ELSE s.timeout
    BY <1>1 DEF ServoType, TimeoutType, NaN
  <1> HIDE DEF counted
  <1>3. /\ changed \in ServoType /\ Selected(counted, changed)
        /\ changed.timeout = counted.timeout /\ changed.cooldown = counted.cooldown
        /\ changed.power \in {counted.power, FALSE}
    BY <1>2, MaybeChangeModeLemma
  <1> HIDE DEF changed
  <1>4. /\ faulted \in ServoType /\ faulted.mode \in {changed.mode, "kFault"}
        /\ faulted.cal = changed.cal /\ faulted.timeout = changed.timeout
        /\ faulted.cooldown = changed.cooldown /\ faulted.power = changed.power
    <2>1. PersistentFault(changed, in) \in Persistent \cup {"kSuccess"}
      BY DEF PersistentFault, Persistent
    <2>2. faulted = changed \/ faulted = Raise(changed, PersistentFault(changed, in))
      BY DEF CheckPersistentFaults
    <2> QED
      BY <1>3, <2>1, <2>2, ZenonT(60) DEF Raise, ServoType, Mode, Errc, FaultCode
  <1> HIDE DEF faulted
  <1>5. /\ watched \in ServoType
        /\ \/ watched.mode = faulted.mode /\ (watched.mode \in BoundedModes => watched.timeout # 0)
           \/ faulted.mode \in BoundedModes /\ watched.mode = "kPositionTimeout"
        /\ watched.cal = faulted.cal /\ watched.timeout = faulted.timeout
        /\ watched.cooldown = faulted.cooldown /\ watched.power = faulted.power
    BY <1>4 DEF CheckWatchdog, ServoType, Mode, BoundedModes
  <1> HIDE DEF watched
  <1>6. /\ cleared \in ServoType /\ cleared.mode = watched.mode
        /\ cleared.cal = watched.cal /\ cleared.timeout = watched.timeout
        /\ cleared.cooldown = watched.cooldown /\ cleared.power = watched.power
    BY <1>5 DEF ClearFaultCode, ServoType, Errc
  <1>7. m = LoadCooldown(cleared)
    BY DEF SelectMode, counted, changed, faulted, watched
  <1> HIDE DEF cleared
  <1>8. current_control(cleared) => torque_on(cleared)
    BY DEF current_control, torque_on
  <1>9. /\ m \in ServoType /\ m.mode = cleared.mode /\ m.cal = cleared.cal
        /\ m.timeout = cleared.timeout /\ m.power = cleared.power
    BY <1>6, <1>7 DEF LoadCooldown, ServoType
  <1>10. torque_on(m) <=> torque_on(cleared)
    BY <1>9 DEF torque_on
  <1>11. /\ torque_on(cleared) => m.cooldown \in {CooldownCycles, CooldownBrake}
         /\ ~torque_on(cleared) => m.cooldown = cleared.cooldown
    BY <1>6, <1>7, <1>8 DEF LoadCooldown, ServoType
  <1>12. Selected(s, m)
    BY <1>2, <1>3, <1>4, <1>5, <1>6, <1>9 DEF Selected, BoundedModes
  <1> QED
    BY <1>2, <1>3, <1>4, <1>5, <1>6, <1>9, <1>10, <1>11, <1>12, ZenonT(60) DEF Selection, BoundedModes

\* Sensing can only fault and take over the new command's timeout.
LEMMA SenseLemma ==
    ASSUME NEW s \in ServoType, NEW d \in CommandType, NEW in \in InputType,
           NEW t, t = ISR_DoSense(ISR_DoSenseCritical(s, in), d)
    PROVE  /\ t \in ServoType /\ t.mode \in {s.mode, "kFault"}
           /\ t.cal = s.cal /\ t.cooldown = s.cooldown /\ t.power = s.power
           /\ t.timeout = IF d.timeout # 0 THEN d.timeout ELSE s.timeout
  <1> DEFINE u == ISR_DoSenseCritical(s, in)
  <1>1. /\ u \in ServoType /\ u.mode \in {s.mode, "kFault"}
        /\ u.cal = s.cal /\ u.cooldown = s.cooldown /\ u.power = s.power
        /\ u.timeout = s.timeout
    BY ZenonT(60) DEF ISR_DoSenseCritical, Raise, ServoType, Mode, FaultOrStopped, Errc, FaultCode
  <1> HIDE DEF u
  <1>2. t = ISR_DoSense(u, d)
    BY DEF u
  <1> QED
    BY <1>1, <1>2 DEF ISR_DoSense, ServoType, CommandType

-----------------------------------------------------------------------------
(* The invariant is preserved by the control interrupt                     *)

\* What one control cycle may do to the mode, whatever it senses.
ModeStep ==
    /\ servo.mode = "kPositionTimeout" =>
          servo'.mode \in {"kPositionTimeout"} \cup FaultOrStopped
    /\ servo.mode = "kFault" => servo'.mode \in FaultOrStopped

\* A control cycle preserves the inductive invariant and the mode diagram.
LEMMA ISRPreserves ==
    ASSUME IndInv, ISR
    PROVE  IndInv' /\ ModeStep
  <1> USE ConstantTypes DEF FaultOrStopped, Active, VoltageModes, CurrentModes
  <1>0. /\ servo \in ServoType /\ data \in CommandType /\ data.mode \notin Uncommandable
        /\ epoch \in Nat /\ hist \in [quiet: Nat, armed: TimeoutType, dwell: Nat]
        /\ Inputs \subseteq InputType
    BY ConstantsAssumption DEF IndInv, TypeOK
  <1>1. PICK in \in Inputs :
          servo' = ISR_DoControl(ISR_DoSense(ISR_DoSenseCritical(servo, in), data),
                                 data, in, epoch)
    BY DEF ISR
  <1> DEFINE s == ISR_DoSense(ISR_DoSenseCritical(servo, in), data)
             m == SelectMode(s, data, in, epoch)
  <1>2. servo' = RunMode(m, data, in, epoch)
    BY <1>1 DEF ISR_DoControl
  <1>3. in \in InputType
    BY <1>0
  <1>4. /\ s \in ServoType /\ s.mode \in {servo.mode, "kFault"}
        /\ s.cal = servo.cal /\ s.cooldown = servo.cooldown /\ s.power = servo.power
        /\ s.timeout = IF data.timeout # 0 THEN data.timeout ELSE servo.timeout
    BY <1>0, <1>3, SenseLemma
  <1> HIDE DEF s
  <1>a. m = SelectMode(s, data, in, epoch)
    OBVIOUS
  <1> HIDE DEF m
  <1>b. Selection(s, m)
    BY ONLY <1>0, <1>3, <1>4, <1>a, SelectModeLemma
  <1>5. /\ m \in ServoType /\ Selected(s, m)
        /\ m.timeout = IF s.timeout > 0 THEN s.timeout - 1 ELSE s.timeout
        /\ m.power \in {s.power, FALSE}
        /\ m.mode \in BoundedModes => m.timeout # 0
        /\ torque_on(m) => m.cooldown \in {CooldownCycles, CooldownBrake}
        /\ ~torque_on(m) => m.cooldown = s.cooldown
    BY ONLY <1>b DEF Selection
  <1>6. /\ servo' \in ServoType /\ servo'.timeout = m.timeout
        /\ m.mode \in FaultOrStopped => Cooled(m, servo')
        /\ m.mode \in Active => Controlled(m, servo')
        /\ m.mode = "kPositionTimeout" =>
              \/ Controlled(m, servo') /\ torque_on(m)
              \/ Cooled(m, servo')
        /\ m.mode \in {"kEnabling", "kCalibrationComplete"} => servo' = m
        /\ m.mode = "kCalibrating" =>
              /\ servo'.cooldown = m.cooldown /\ servo'.power = m.power
              /\ servo'.cal = m.cal + 1
              /\ \/ servo'.mode = "kCalibrating" /\ servo'.cal < CalibrateCount
                 \/ servo'.mode = "kCalibrationComplete" /\ servo'.cal >= CalibrateCount
                 \/ servo'.mode = "kFault"
    BY <1>0, <1>2, <1>3, <1>5, RunModeLemma, SMTT(60)
  <1>7. /\ s.mode \in Mode /\ m.mode \in Mode /\ servo'.mode \in Mode /\ servo.mode \in Mode
        /\ s.cal \in Nat /\ m.cal \in Nat /\ servo'.cal \in Nat
        /\ m.cooldown \in Nat /\ servo.cooldown \in Nat /\ servo'.cooldown \in Nat
        /\ s.timeout \in TimeoutType /\ servo.timeout \in TimeoutType
        /\ servo.power \in BOOLEAN /\ m.power \in BOOLEAN /\ servo'.power \in BOOLEAN
        /\ data.timeout \in TimeoutType
        /\ hist.quiet \in Nat /\ hist.armed \in TimeoutType /\ hist.dwell \in Nat
    BY <1>0, <1>4, <1>5, <1>6 DEF ServoType, CommandType
  <1>8. /\ data' \in CommandType /\ data'.mode = data.mode /\ data'.timeout = 0
        /\ epoch' = epoch /\ main' = main
    BY <1>0 DEF ISR, CommandType, TimeoutType
  <1>9. /\ hist'.armed = hist.armed
        /\ hist'.quiet = IF hist.quiet < hist.armed THEN hist.quiet + 1 ELSE hist.quiet
        /\ hist'.dwell = CASE servo'.mode \notin FaultOrStopped -> 0
             [] servo'.mode \in FaultOrStopped /\ servo.mode \notin FaultOrStopped -> 1
             [] OTHER -> IF hist.dwell > CooldownCycles + 1 THEN hist.dwell ELSE hist.dwell + 1
        /\ DOMAIN hist' = {"quiet", "armed", "dwell"}
    BY <1>0 DEF ISR
  <1>10. hist' \in [quiet: Nat, armed: TimeoutType, dwell: Nat]
    <2>1. hist'.quiet \in Nat /\ hist'.armed \in TimeoutType /\ hist'.dwell \in Nat
      BY <1>7, <1>9
    <2>2. hist' = [hist EXCEPT !.quiet = hist'.quiet, !.dwell = hist'.dwell]
      BY <1>0, <1>9 DEF ISR
    <2> QED
      BY <1>0, <2>1, <2>2
  <1>11. TypeOK'
    BY <1>0, <1>6, <1>8, <1>10 DEF TypeOK, IndInv
  <1>12. EnableInv'
    <2>1. servo'.mode = "kEnabling" => servo'.cal = 0
      <3>1. servo.mode = "kEnabling" => servo.cal = 0
        BY DEF IndInv, EnableInv
      <3>2. m.mode = "kEnabling" => m.cal = 0
        BY <1>4, <1>5, <3>1 DEF Selected
      <3> QED
        BY <1>6, <1>7, <3>2 DEF Cooled, Controlled, Mode, Starting
    <2>2. ASSUME main.pc \in Enabling
          PROVE  servo'.mode \in {"kEnabling", "kFault", "kStopped"} /\ servo'.cal = 0
      <3>1. servo.mode \in {"kEnabling", "kFault", "kStopped"} /\ servo.cal = 0
        BY <2>2 DEF IndInv, EnableInv
      <3>2. m.mode \in {"kEnabling", "kFault", "kStopped"} /\ m.cal = 0
        BY <1>4, <1>5, <3>1 DEF Selected
      <3> QED
        BY <1>6, <3>2 DEF Cooled
    <2> QED
      BY <1>8, <2>1, <2>2 DEF EnableInv
  <1>13. CalibrationInv'
    <2>1. servo.mode = "kCalibrating" => servo.cal < CalibrateCount
      BY DEF IndInv, CalibrationInv
    <2>2. servo.mode \in Active \cup {"kCalibrationComplete", "kPositionTimeout"} =>
            servo.cal = CalibrateCount
      BY DEF IndInv, CalibrationInv, CalibratedBeforeTorque
    <2>3. m.mode = "kCalibrating" => m.cal < CalibrateCount
      BY <1>4, <1>5, <1>7, <2>1 DEF Selected, Mode, Starting
    <2>4. m.mode \in Active \cup {"kCalibrationComplete", "kPositionTimeout"} =>
            m.cal = CalibrateCount
      BY <1>4, <1>5, <1>7, <2>2 DEF Selected, Mode, Starting
    <2>5. servo'.mode = "kCalibrating" => servo'.cal < CalibrateCount
      BY <1>6, <1>7, <2>3 DEF Cooled, Controlled, Mode, Starting
    <2>6. servo'.mode \in Active \cup {"kCalibrationComplete", "kPositionTimeout"} =>
            servo'.cal = CalibrateCount
      BY <1>6, <1>7, <2>3, <2>4 DEF Cooled, Controlled, Mode, Starting
    <2> QED
      BY <2>5, <2>6 DEF CalibrationInv, CalibratedBeforeTorque
  <1>14. WatchdogInv'
    <2> USE DEF TimeoutType, NaN
    <2>1. /\ main.pc \in Commanding => main.next.timeout # 0
          /\ data.timeout # 0 => hist.armed = data.timeout /\ hist.quiet = 0
          /\ data.timeout = 0 /\ hist.armed = NaN => servo.timeout = NaN
          /\ data.timeout = 0 /\ hist.armed # NaN =>
                hist.quiet <= hist.armed /\ servo.timeout = hist.armed - hist.quiet
      BY DEF IndInv, WatchdogInv
    <2>2. hist.armed = NaN => servo'.timeout = NaN
      BY <1>4, <1>5, <1>6, <1>7, <2>1
    <2>3. hist.armed # NaN =>
            hist'.quiet <= hist.armed /\ servo'.timeout = hist.armed - hist'.quiet
      BY <1>4, <1>5, <1>6, <1>7, <1>9, <2>1
    <2>4. servo'.mode \in BoundedModes => servo'.timeout # 0
      BY <1>5, <1>6, <1>7 DEF Cooled, Controlled, BoundedModes, Mode, Starting
    <2>5. servo'.mode \in BoundedModes /\ hist.armed # NaN => hist'.quiet < hist.armed
      BY <1>7, <1>9, <2>3, <2>4
    <2> QED
      BY <1>8, <1>9, <2>1, <2>2, <2>3, <2>5 DEF WatchdogInv, WatchdogBound
  <1>15. CooldownInv'
    <2> USE DEF Lesser
    <2>1. /\ servo.cooldown <= CooldownCycles \/ servo.cooldown <= CooldownBrake
          /\ servo.power => servo.cooldown >= Lesser(CooldownBrake, CooldownCycles)
          /\ hist.dwell > 1 /\ (servo.power \/ servo.cooldown > CooldownBrake) =>
                hist.dwell + servo.cooldown <= CooldownCycles + 1
      BY DEF IndInv, CooldownInv
    <2>a. m.power => servo.power
      BY <1>4, <1>5, <1>7
    <2>b. m.cooldown \in {CooldownCycles, CooldownBrake, servo.cooldown}
      BY <1>4, <1>5
    <2>c. ~torque_on(m) => m.cooldown = servo.cooldown
      BY <1>4, <1>5
    <2>2. m.cooldown <= CooldownCycles \/ m.cooldown <= CooldownBrake
      BY <1>7, <2>1, <2>b
    <2>d. m.power => m.cooldown >= Lesser(CooldownBrake, CooldownCycles)
      BY <1>7, <2>1, <2>a, <2>b
    <2>3. \/ Cooled(m, servo')
          \/ servo'.cooldown = m.cooldown /\ torque_on(m)
          \/ servo'.cooldown = m.cooldown /\ servo'.power = m.power
      BY <1>6, <1>7 DEF Controlled, torque_on, Mode, Starting
    <2>4. servo'.cooldown <= CooldownCycles \/ servo'.cooldown <= CooldownBrake
      BY <1>7, <2>2, <2>3 DEF Cooled
    <2>5. servo'.power => servo'.cooldown >= Lesser(CooldownBrake, CooldownCycles)
      <3>1. CASE Cooled(m, servo')
        <4>1. servo'.power => m.cooldown > CooldownBrake /\ servo'.cooldown = m.cooldown - 1
          BY <1>7, <3>1 DEF Cooled
        <4> QED
          BY <1>7, <4>1
      <3>2. CASE servo'.cooldown = m.cooldown /\ torque_on(m)
        BY <1>5, <1>7, <3>2
      <3>3. CASE servo'.cooldown = m.cooldown /\ servo'.power = m.power
        BY <1>7, <2>d, <3>3
      <3> QED
        BY <2>3, <3>1, <3>2, <3>3
    <2>6. ASSUME hist'.dwell > 1, servo'.power \/ servo'.cooldown > CooldownBrake
          PROVE  hist'.dwell + servo'.cooldown <= CooldownCycles + 1
      <3>1. servo.mode \in FaultOrStopped /\ servo'.mode \in FaultOrStopped
        BY <1>9, <2>6
      <3>2. m.mode \in FaultOrStopped
        BY <1>4, <1>5, <1>6, <3>1 DEF Selected
      <3>3. Cooled(m, servo') /\ m.cooldown = servo.cooldown
        BY <1>4, <1>5, <1>6, <3>2 DEF torque_on
      <3>4. servo.cooldown > CooldownBrake /\ servo'.cooldown = servo.cooldown - 1
        BY <1>7, <2>6, <3>3 DEF Cooled
      <3>5. hist'.dwell = IF hist.dwell > CooldownCycles + 1 THEN hist.dwell ELSE hist.dwell + 1
        BY <1>9, <3>1
      <3> QED
        BY <1>7, <2>1, <2>6, <3>4, <3>5
    <2> QED
      BY <2>4, <2>5, <2>6 DEF CooldownInv
  <1>16. ModeStep
    <2>1. m.mode \in FaultOrStopped => servo'.mode \in FaultOrStopped
      BY <1>6 DEF Cooled
    <2>2. m.mode = "kPositionTimeout" => servo'.mode \in {"kPositionTimeout"} \cup FaultOrStopped
      BY <1>6 DEF Cooled, Controlled
    <2> QED
      BY <1>4, <1>5, <2>1, <2>2 DEF Selected, ModeStep
  <1> QED
    BY <1>11, <1>12, <1>13, <1>14, <1>15, <1>16 DEF IndInv

-----------------------------------------------------------------------------
(* The invariant is preserved by the main loop                             *)

MainType == [pc: MainPc, next: CommandType, err: PrepareErrors \cup {"kSuccess"},
             drv: EnableState, epoch: Nat]

\* A main-loop access that leaves the counters, the output and the command
\* alone preserves the invariant if it writes no mode but kFault, or writes
\* kCalibrating at the end of the enable poll.
LEMMA MainWrites ==
    ASSUME IndInv, servo' \in ServoType,
           servo'.cal = servo.cal, servo'.timeout = servo.timeout,
           servo'.cooldown = servo.cooldown, servo'.power = servo.power,
           \/ servo'.mode \in {servo.mode, "kFault"}
           \/ servo'.mode = "kCalibrating" /\ main.pc \in Enabling /\ main'.pc = "idle",
           data' = data, hist' = hist, epoch' \in Nat,
           main' \in MainType, main'.next.mode \notin Uncommandable,
           main'.pc \in Enabling => main.pc \in Enabling \/ servo.mode = "kEnabling",
           main'.pc \in Commanding => main'.next.timeout # 0
    PROVE  IndInv'
  <1> USE DEF IndInv
  <1>1. TypeOK'
    BY DEF TypeOK, MainType
  <1>2. EnableInv'
    BY DEF EnableInv, Enabling
  <1>3. CalibrationInv'
    <2>1. servo'.mode = "kCalibrating" => servo'.cal < CalibrateCount
      BY ConstantTypes DEF CalibrationInv, EnableInv
    <2>2. CalibratedBeforeTorque'
      BY DEF CalibrationInv, CalibratedBeforeTorque, Active, VoltageModes, CurrentModes
    <2> QED
      BY <2>1, <2>2 DEF CalibrationInv
  <1>4. WatchdogInv'
    BY DEF WatchdogInv, WatchdogBound, BoundedModes
  <1>5. CooldownInv'
    BY DEF CooldownInv
  <1> QED
    BY <1>1, <1>2, <1>3, <1>4, <1>5

\* Every access of the main loop preserves the invariant.
LEMMA MainPreserves ==
    ASSUME IndInv, CommandSteps \/ EnableSteps \/ TimingFault \/ ConfigSteps
    PROVE  IndInv'
  <1>0. /\ servo \in ServoType /\ data \in CommandType /\ epoch \in Nat
        /\ main \in MainType /\ main.next.mode \notin Uncommandable
        /\ main.pc \in Commanding => main.next.timeout # 0
    BY DEF IndInv, TypeOK, MainType, WatchdogInv
  <1>i. IdleMain \in MainType /\ IdleMain.pc = "idle" /\ IdleMain.next.mode \notin Uncommandable
    BY DEF IdleMain, MainType, MainPc, InitData, CommandType, Mode, FaultOrStopped,
           TimeoutType, EnableState, Uncommandable
  <1>g. ASSUME NEW pc \in MainPc \ Commanding, main' = [main EXCEPT !.pc = pc]
        PROVE  main' \in MainType /\ main'.next.mode \notin Uncommandable /\ main'.pc = pc
    BY <1>0, <1>g DEF MainType
  <1>1. CASE Command
    <2>1. PICK c \in Commands :
            main' = [main EXCEPT
               !.pc = IF PrepareError(c) = "kSuccess" THEN "swap" ELSE "faultCode",
               !.next = PrepareCommand(c), !.err = PrepareError(c)]
      BY <1>1 DEF Command
    <2>2. c \in CommandType /\ c.mode \notin Uncommandable
          /\ DefaultTimeout \in TimeoutType \ {0}
      BY ConstantsAssumption
    <2>3. /\ PrepareCommand(c) \in CommandType
          /\ PrepareCommand(c).mode = c.mode /\ PrepareCommand(c).timeout # 0
      BY <2>2 DEF PrepareCommand, CommandType
    <2>4. PrepareError(c) \in PrepareErrors \cup {"kSuccess"}
      BY DEF PrepareError, PrepareErrors
    <2>5. /\ main' \in MainType /\ main'.pc \in {"swap", "faultCode"}
          /\ main'.next = PrepareCommand(c)
      BY <1>0, <2>1, <2>3, <2>4 DEF MainType, MainPc
    <2> QED
      BY <1>0, <1>1, <2>2, <2>3, <2>5, MainWrites DEF Command, Enabling
  <1>2. CASE CommandFaultCode
    <2>1. servo' = [servo EXCEPT !.fault = main.err] /\ main' = [main EXCEPT !.pc = "faultMode"]
          /\ main.pc = "faultCode" /\ data' = data /\ hist' = hist /\ epoch' = epoch
      BY <1>2 DEF CommandFaultCode, Goto, At, KeepCommand
    <2>2. main.err \in Errc
      BY <1>0 DEF MainType, Errc, FaultCode
    <2>3. /\ servo' \in ServoType /\ servo'.mode = servo.mode
          /\ servo'.cal = servo.cal /\ servo'.timeout = servo.timeout
          /\ servo'.cooldown = servo.cooldown /\ servo'.power = servo.power
      BY <1>0, <2>1, <2>2 DEF ServoType
    <2>4. main' \in MainType /\ main'.next = main.next /\ main'.pc = "faultMode"
      BY <1>0, <2>1 DEF MainType, MainPc
    <2> QED
      BY <1>0, <2>1, <2>3, <2>4, MainWrites DEF Enabling, Commanding
  <1>3. CASE CommandFaultMode
    <2>1. servo' = [servo EXCEPT !.mode = "kFault"] /\ main' = [main EXCEPT !.pc = "swap"]
          /\ main.pc = "faultMode" /\ data' = data /\ hist' = hist /\ epoch' = epoch
      BY <1>3 DEF CommandFaultMode, Goto, At, KeepCommand
    <2>2. /\ servo' \in ServoType /\ servo'.mode = "kFault"
          /\ servo'.cal = servo.cal /\ servo'.timeout = servo.timeout
          /\ servo'.cooldown = servo.cooldown /\ servo'.power = servo.power
      BY <1>0, <2>1 DEF ServoType, Mode, FaultOrStopped
    <2>3. main' \in MainType /\ main'.next = main.next /\ main'.pc = "swap"
      BY <1>0, <2>1 DEF MainType, MainPc
    <2> QED
      BY <1>0, <2>1, <2>2, <2>3, MainWrites DEF Enabling, Commanding
  <1>4. CASE CommandSwap
    <2>1. data' = main.next /\ main' = IdleMain /\ servo' = servo /\ epoch' = epoch
          /\ main.pc = "swap" /\ hist' = [hist EXCEPT !.quiet = 0, !.armed = main.next.timeout]
      BY <1>4 DEF CommandSwap, Finish, At
    <2>2. /\ main.next \in CommandType /\ main.next.timeout \in TimeoutType
          /\ main.next.timeout # 0
      BY <1>0, <2>1 DEF MainType, CommandType, Commanding
    <2>3. /\ hist' \in [quiet: Nat, armed: TimeoutType, dwell: Nat]
          /\ hist'.quiet = 0 /\ hist'.armed = main.next.timeout /\ hist'.dwell = hist.dwell
      BY <2>1, <2>2 DEF IndInv, TypeOK
    <2>4. TypeOK'
      BY <1>0, <1>i, <2>1, <2>2, <2>3 DEF TypeOK, MainType
    <2>5. EnableInv' /\ CalibrationInv'
      BY <1>i, <2>1 DEF IndInv, EnableInv, CalibrationInv, CalibratedBeforeTorque, Enabling
    <2>6. WatchdogInv'
      BY <1>i, <2>1, <2>2, <2>3
         DEF IndInv, WatchdogInv, WatchdogBound, Commanding, TimeoutType, NaN
    <2>7. CooldownInv'
      BY <2>1, <2>3 DEF IndInv, CooldownInv
    <2> QED
      BY <2>4, <2>5, <2>6, <2>7 DEF IndInv
  <1>5. CASE TimingFault
    <2>1. /\ servo' \in ServoType /\ servo'.mode = "kFault"
          /\ servo'.cal = servo.cal /\ servo'.timeout = servo.timeout
          /\ servo'.cooldown = servo.cooldown /\ servo'.power = servo.power
      BY <1>0, <1>5 DEF TimingFault, Raise, ServoType, Mode, FaultOrStopped, Errc, FaultCode
    <2> QED
      BY <1>0, <1>5, <2>1, MainWrites DEF TimingFault, KeepCommand, Enabling
  <1>6. CASE PollMillisecond
    <2>1. /\ main' = [main EXCEPT !.pc = "enablePin"] /\ servo.mode = "kEnabling"
          /\ servo' = servo /\ data' = data /\ hist' = hist /\ epoch' = epoch
      BY <1>6 DEF PollMillisecond, Goto, KeepCommand
    <2>2. main' \in MainType /\ main'.next.mode \notin Uncommandable /\ main'.pc = "enablePin"
      BY <1>g, <2>1 DEF MainPc, Commanding
    <2> QED
      BY <1>0, <2>1, <2>2, MainWrites DEF Commanding
  <1>7. CASE EnablePin
    <2>1. /\ servo' = [servo EXCEPT !.pin = TRUE] /\ main' = [main EXCEPT !.pc = "enableRead"]
          /\ main.pc = "enablePin" /\ data' = data /\ hist' = hist /\ epoch' = epoch
      BY <1>7 DEF EnablePin, Goto, At, KeepCommand
    <2>2. /\ servo' \in ServoType /\ servo'.mode = servo.mode
          /\ servo'.cal = servo.cal /\ servo'.timeout = servo.timeout
          /\ servo'.cooldown = servo.cooldown /\ servo'.power = servo.power
      BY <1>0, <2>1 DEF ServoType
    <2>3. main' \in MainType /\ main'.next.mode \notin Uncommandable /\ main'.pc = "enableRead"
      BY <1>g, <2>1 DEF MainPc, Commanding
    <2> QED
      BY <1>0, <2>1, <2>2, <2>3, MainWrites DEF Enabling, Commanding
  <1>8. CASE EnableRead
    <2>1. /\ main.pc = "enableRead" /\ data' = data /\ hist' = hist /\ epoch' = epoch
          /\ \/ servo' = servo
             \/ servo' = [servo EXCEPT !.drv = "kEnabled"]
          /\ \/ main' = [main EXCEPT !.pc = "writeConfig"]
             \/ main' = [main EXCEPT !.pc = "enableReturn", !.drv = servo.drv]
             \/ \E next \in EnableState : main' = [main EXCEPT !.pc = "enableStore", !.drv = next]
      BY <1>8 DEF EnableRead, At, KeepCommand, EnableState
    <2>2. /\ servo' \in ServoType /\ servo'.mode = servo.mode
          /\ servo'.cal = servo.cal /\ servo'.timeout = servo.timeout
          /\ servo'.cooldown = servo.cooldown /\ servo'.power = servo.power
      BY <1>0, <2>1 DEF ServoType, EnableState
    <2>3. servo.drv \in EnableState
      BY <1>0 DEF ServoType
    <2>4. /\ main' \in MainType /\ main'.next = main.next
          /\ main'.pc \in {"writeConfig", "enableReturn", "enableStore"}
      BY <1>0, <2>1, <2>3 DEF MainType, MainPc
    <2> QED
      BY <1>0, <2>1, <2>2, <2>4, MainWrites DEF Enabling, Commanding
  <1>9. CASE WriteConfig
    <2>1. /\ main.pc = "writeConfig" /\ data' = data /\ hist' = hist /\ epoch' = epoch
          /\ \E bad \in BOOLEAN : servo' = [servo EXCEPT !.faultConfig = bad]
          /\ main' = [main EXCEPT !.pc = "enableStore", !.drv = "kEnabling2"]
      BY <1>9 DEF WriteConfig, At, KeepCommand
    <2>2. /\ servo' \in ServoType /\ servo'.mode = servo.mode
          /\ servo'.cal = servo.cal /\ servo'.timeout = servo.timeout
          /\ servo'.cooldown = servo.cooldown /\ servo'.power = servo.power
      BY <1>0, <2>1 DEF ServoType
    <2>3. main' \in MainType /\ main'.next = main.next /\ main'.pc = "enableStore"
      BY <1>0, <2>1 DEF MainType, MainPc, EnableState
    <2> QED
      BY <1>0, <2>1, <2>2, <2>3, MainWrites DEF Enabling, Commanding
  <1>10. CASE EnableStore
    <2>1. /\ servo' = [servo EXCEPT !.drv = main.drv] /\ main' = [main EXCEPT !.pc = "enableReturn"]
          /\ main.pc = "enableStore" /\ data' = data /\ hist' = hist /\ epoch' = epoch
      BY <1>10 DEF EnableStore, Goto, At, KeepCommand
    <2>2. main.drv \in EnableState
      BY <1>0 DEF MainType
    <2>3. /\ servo' \in ServoType /\ servo'.mode = servo.mode
          /\ servo'.cal = servo.cal /\ servo'.timeout = servo.timeout
          /\ servo'.cooldown = servo.cooldown /\ servo'.power = servo.power
      BY <1>0, <2>1, <2>2 DEF ServoType
    <2>4. main' \in MainType /\ main'.next.mode \notin Uncommandable /\ main'.pc = "enableReturn"
      BY <1>g, <2>1 DEF MainPc, Commanding
    <2> QED
      BY <1>0, <2>1, <2>3, <2>4, MainWrites DEF Enabling, Commanding
  <1>11. CASE EnableReturn
    <2>1. /\ main.pc = "enableReturn" /\ servo' = servo
          /\ data' = data /\ hist' = hist /\ epoch' = epoch
          /\ \/ main' = IdleMain
             \/ main' = [IdleMain EXCEPT !.pc = "setCalibrating"]
             \/ main' = [IdleMain EXCEPT !.pc = "enableFaultCode"]
      BY <1>11 DEF EnableReturn, At, KeepCommand
    <2>2. /\ main' \in MainType /\ main'.next = IdleMain.next
          /\ main'.pc \in {"idle", "setCalibrating", "enableFaultCode"}
      BY <1>i, <2>1 DEF MainType, MainPc
    <2> QED
      BY <1>0, <1>i, <2>1, <2>2, MainWrites DEF Enabling, Commanding
  <1>12. CASE SetCalibrating
    <2>1. /\ servo' = [servo EXCEPT !.mode = "kCalibrating"] /\ main' = IdleMain
          /\ main.pc = "setCalibrating" /\ data' = data /\ hist' = hist /\ epoch' = epoch
      BY <1>12 DEF SetCalibrating, Finish, At, KeepCommand
    <2>2. /\ servo' \in ServoType /\ servo'.mode = "kCalibrating"
          /\ servo'.cal = servo.cal /\ servo'.timeout = servo.timeout
          /\ servo'.cooldown = servo.cooldown /\ servo'.power = servo.power
      BY <1>0, <2>1 DEF ServoType, Mode, Starting
    <2> QED
      BY <1>0, <1>i, <2>1, <2>2, MainWrites DEF Enabling, Commanding
  <1>13. CASE EnableFaultCode
    <2>1. /\ servo' = [servo EXCEPT !.fault = "kDriverEnableFault"]
          /\ main' = [main EXCEPT !.pc = "enableFaultMode"]
          /\ main.pc = "enableFaultCode" /\ data' = data /\ hist' = hist /\ epoch' = epoch
      BY <1>13 DEF EnableFaultCode, Goto, At, KeepCommand
    <2>2. /\ servo' \in ServoType /\ servo'.mode = servo.mode
          /\ servo'.cal = servo.cal /\ servo'.timeout = servo.timeout
          /\ servo'.cooldown = servo.cooldown /\ servo'.power = servo.power
      BY <1>0, <2>1 DEF ServoType, Errc, FaultCode
    <2>3. main' \in MainType /\ main'.next.mode \notin Uncommandable
          /\ main'.pc = "enableFaultMode"
      BY <1>g, <2>1 DEF MainPc, Commanding
    <2> QED
      BY <1>0, <2>1, <2>2, <2>3, MainWrites DEF Enabling, Commanding
  <1>14. CASE EnableFaultMode
    <2>1. /\ servo' = [servo EXCEPT !.mode = "kFault"] /\ main' = IdleMain
          /\ data' = data /\ hist' = hist /\ epoch' = epoch
      BY <1>14 DEF EnableFaultMode, Finish, KeepCommand
    <2>2. /\ servo' \in ServoType /\ servo'.mode = "kFault"
          /\ servo'.cal = servo.cal /\ servo'.timeout = servo.timeout
          /\ servo'.cooldown = servo.cooldown /\ servo'.power = servo.power
      BY <1>0, <2>1 DEF ServoType, Mode, FaultOrStopped
    <2> QED
      BY <1>0, <1>i, <2>1, <2>2, MainWrites DEF Enabling, Commanding
  <1>15. CASE DriverConfigUpdate
    <2>1. /\ \E bad \in BOOLEAN : servo' = [servo EXCEPT !.faultConfig = bad]
          /\ main' = main /\ main.pc = "idle"
          /\ data' = data /\ hist' = hist /\ epoch' = epoch
      BY <1>15 DEF DriverConfigUpdate, At, KeepCommand
    <2>2. /\ servo' \in ServoType /\ servo'.mode = servo.mode
          /\ servo'.cal = servo.cal /\ servo'.timeout = servo.timeout
          /\ servo'.cooldown = servo.cooldown /\ servo'.power = servo.power
      BY <1>0, <2>1 DEF ServoType
    <2> QED
      BY <1>0, <2>1, <2>2, MainWrites DEF Commanding
  <1>16. CASE ConfigClear
    <2>1. /\ servo' = servo /\ data' = data /\ hist' = hist /\ epoch' = 0
          /\ main' = [main EXCEPT !.pc = "epoch", !.epoch = (epoch + 1) % EpochLimit]
      BY <1>16 DEF ConfigClear, KeepCommand
    <2>2. (epoch + 1) % EpochLimit \in Nat
      BY <1>0, ConstantsAssumption
    <2>3. main' \in MainType /\ main'.next = main.next /\ main'.pc = "epoch"
      BY <1>0, <2>1, <2>2 DEF MainType, MainPc
    <2> QED
      BY <1>0, <2>1, <2>3, MainWrites DEF Enabling, Commanding
  <1>17. CASE ConfigEpoch
    <2>1. /\ servo' = servo /\ data' = data /\ hist' = hist /\ main' = IdleMain
          /\ epoch' \in Nat
      BY <1>0, <1>17 DEF ConfigEpoch, Finish, KeepCommand, MainType
    <2> QED
      BY <1>0, <1>i, <2>1, MainWrites DEF Enabling, Commanding
  <1> QED
    BY <1>1, <1>2, <1>3, <1>4, <1>5, <1>6, <1>7, <1>8, <1>9, <1>10, <1>11, <1>12, <1>13,
       <1>14, <1>15, <1>16, <1>17 DEF CommandSteps, EnableSteps, ConfigSteps

-----------------------------------------------------------------------------
(* Theorems                                                                *)

\* The power-on state satisfies the inductive invariant.
LEMMA InitEstablishes == Init => IndInv
  <1> SUFFICES ASSUME Init PROVE IndInv
    OBVIOUS
  <1> USE ConstantTypes DEF Init, InitServo, InitData, IdleMain
  <1>1. TypeOK
    <2>1. 1 % EpochLimit \in Nat
      BY ConstantsAssumption
    <2> QED
      BY <2>1 DEF TypeOK, ServoType, CommandType, MainPc, Mode, FaultOrStopped, Uncommandable,
         TimeoutType, EnableState, Errc
  <1>2. EnableInv /\ CalibrationInv /\ WatchdogInv
    BY DEF EnableInv, Enabling, CalibrationInv, CalibratedBeforeTorque, Active, VoltageModes,
           CurrentModes, WatchdogInv, WatchdogBound, Commanding, BoundedModes, NaN
  <1>3. CooldownInv
    BY DEF CooldownInv
  <1> QED
    BY <1>1, <1>2, <1>3 DEF IndInv

\* A step that changes nothing preserves the invariant.
LEMMA StutterPreserves ==
    ASSUME IndInv, UNCHANGED vars
    PROVE  IndInv'
  BY DEF IndInv, vars, TypeOK, EnableInv, CalibrationInv, CalibratedBeforeTorque, WatchdogInv,
         WatchdogBound, CooldownInv, At

\* Every reachable state of the mode machine satisfies the inductive invariant.
THEOREM Invariance == Spec => []IndInv
  <1>1. IndInv /\ [Next]_vars => IndInv'
    BY ISRPreserves, MainPreserves, StutterPreserves DEF Next
  <1> QED
    BY <1>1, InitEstablishes, PTL DEF Spec

\* The state of servo, command buffer and main loop keeps its type.
THEOREM TypeCorrect == Spec => []TypeOK
  <1>1. IndInv => TypeOK
    BY DEF IndInv
  <1> QED
    BY <1>1, Invariance, PTL

\* Torque is only ever applied on current offsets averaged over exactly
\* kCalibrateCount samples taken since kStopped was left.
THEOREM Calibrated == Spec => []CalibratedBeforeTorque
  <1>1. IndInv => CalibratedBeforeTorque
    BY DEF IndInv, CalibrationInv
  <1> QED
    BY <1>1, Invariance, PTL

\* A position mode never outlives the timeout of the last command.
THEOREM Watchdog == Spec => []WatchdogBound
  <1>1. IndInv => WatchdogBound
    BY DEF IndInv, WatchdogInv
  <1> QED
    BY <1>1, Invariance, PTL

\* A stopped or faulted servo floats its output within the cooldown.
THEOREM OutputOff == Spec => []OutputOffWithinCooldown
  <1>1. ASSUME IndInv PROVE OutputOffWithinCooldown
    <2>1. servo.cooldown \in Nat /\ hist.dwell \in Nat
      BY <1>1 DEF IndInv, TypeOK, ServoType
    <2> QED
      BY <1>1, <2>1, ConstantTypes DEF IndInv, CooldownInv, OutputOffWithinCooldown, Lesser
  <1> QED
    BY <1>1, Invariance, PTL

\* kPositionTimeout is left only for kStopped or kFault.
THEOREM TimeoutExit == Spec => PositionTimeoutExit
  <1>1. ASSUME IndInv, [Next]_vars
        PROVE  [servo.mode = "kPositionTimeout" =>
                  servo'.mode \in {"kPositionTimeout"} \cup FaultOrStopped]_vars
    <2>1. CASE ISR
      BY <1>1, <2>1, ISRPreserves DEF ModeStep
    <2>2. CASE UNCHANGED vars
      BY <2>2 DEF vars
    <2>3. CASE SetCalibrating
      BY <1>1, <2>3 DEF IndInv, EnableInv, Enabling, SetCalibrating, At
    <2>4. CASE Next /\ ~ISR /\ ~SetCalibrating
      <3>1. servo \in ServoType
        BY <1>1 DEF IndInv, TypeOK
      <3>2. servo'.mode = servo.mode \/ servo'.mode = "kFault"
        BY <2>4, <3>1 DEF Next, CommandSteps, EnableSteps, ConfigSteps, Command,
           CommandFaultCode, CommandFaultMode, CommandSwap, TimingFault, PollMillisecond,
           EnablePin, EnableRead, WriteConfig, EnableStore, EnableReturn, EnableFaultCode,
           EnableFaultMode, DriverConfigUpdate, ConfigClear, ConfigEpoch, Raise, ServoType
      <3> QED
        BY <3>2 DEF FaultOrStopped
    <2> QED
      BY <1>1, <2>1, <2>2, <2>3, <2>4
  <1> QED
    BY <1>1, Invariance, PTL DEF Spec, PositionTimeoutExit

\* A fault is left only for kStopped, or by an enable poll already under way.
THEOREM FaultLatch == Spec => FaultLatched
  <1>1. ASSUME IndInv, [Next]_vars
        PROVE  [servo.mode = "kFault" =>
                  servo'.mode \in FaultOrStopped \/ At("setCalibrating")]_vars
    <2>1. CASE ISR
      BY <1>1, <2>1, ISRPreserves DEF ModeStep
    <2>2. CASE UNCHANGED vars
      BY <2>2 DEF vars
    <2>3. CASE SetCalibrating
      BY <2>3 DEF SetCalibrating
    <2>4. CASE Next /\ ~ISR /\ ~SetCalibrating
      <3>1. servo \in ServoType
        BY <1>1 DEF IndInv, TypeOK
      <3>2. servo'.mode = servo.mode \/ servo'.mode = "kFault"
        BY <2>4, <3>1 DEF Next, CommandSteps, EnableSteps, ConfigSteps, Command,
           CommandFaultCode, CommandFaultMode, CommandSwap, TimingFault, PollMillisecond,
           EnablePin, EnableRead, WriteConfig, EnableStore, EnableReturn, EnableFaultCode,
           EnableFaultMode, DriverConfigUpdate, ConfigClear, ConfigEpoch, Raise, ServoType
      <3> QED
        BY <3>2 DEF FaultOrStopped
    <2> QED
      BY <1>1, <2>1, <2>2, <2>3, <2>4
  <1> QED
    BY <1>1, Invariance, PTL DEF Spec, FaultLatched
=============================================================================
