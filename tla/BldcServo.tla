----------------------------- MODULE BldcServo -----------------------------
(***************************************************************************)
(* The servo mode machine of the moteus firmware (fw/bldc_servo.cc,        *)
(* fw/bldc_servo_control.h) together with the enable sequence of its gate  *)
(* driver (fw/drv8323.cc).                                                 *)
(*                                                                         *)
(* Two contexts share `servo' without a lock.  The control interrupt       *)
(* (timer ISR, then PendSV with the timer interrupt masked) preempts the   *)
(* main loop between any two of its memory accesses and is never preempted *)
(* by it, so one control cycle is one action.  The main loop runs Command, *)
(* PollMillisecond, Fault and the motor_position configuration handler one *)
(* shared access at a time; `main.pc' names the access that comes next.    *)
(***************************************************************************)
EXTENDS Integers

CONSTANTS
    Commands,        \* the BldcServoCommandData the host may send
    Inputs,          \* what one control cycle may sense (see InputType)
    CooldownCycles,  \* config_.cooldown_cycles
    CooldownBrake,   \* config_.cooldown_brake
    CalibrateCount,  \* kCalibrateCount
    DefaultTimeout,  \* config_.default_timeout_s, in control cycles
    TimeoutMode,     \* config_.timeout_mode
    FixedVoltage,    \* config_.fixed_voltage_mode
    BemfFeedforward, \* bemf_feedforward != 0 and not overridden
    EpochLimit       \* 2^8 in the code: epochs are uint8_t

\* A NaN timeout_s: no watchdog.  A negative one expires in the cycle that
\* takes it, exactly as a timeout of one cycle does.
NaN == -1

-----------------------------------------------------------------------------
(* Modes, error codes and types                                            *)

FaultOrStopped == {"kStopped", "kFault"}
Uncommandable == {"kFault", "kEnabling", "kCalibrating", "kCalibrationComplete"}
Starting == {"kEnabling", "kCalibrating", "kCalibrationComplete"}
VoltageModes == {"kPwm", "kVoltage", "kVoltageFoc", "kVoltageDq",
                 "kMeasureInductance", "kBrake"}
CurrentModes == {"kCurrent", "kPosition", "kZeroVelocity", "kStayWithinBounds"}
BoundedModes == {"kPosition", "kStayWithinBounds"}
Active == VoltageModes \cup CurrentModes
Mode == FaultOrStopped \cup Starting \cup Active \cup {"kPositionTimeout"}

Persistent == {"kMotorDriverFault", "kOverVoltage", "kUnderVoltage",
               "kOverTemperature"}
PrepareErrors == {"kStopPositionDeprecated", "kBemfFeedforwardNoAccelLimit"}
MotorErrors == {"kMotorNotConfigured", "kThetaInvalid"}
PositionErrors == {"kPositionInvalid", "kEncoderFault",
                   "kPositionControlError", "kVelocityControlError"}
StartErrors == {"kStartOutsideLimit", "kInvalidLimits"}
\* Every cause that can put the servo in kFault.
FaultCode == Persistent \cup PrepareErrors \cup MotorErrors
    \cup PositionErrors \cup StartErrors
    \cup {"kPwmCycleOverrun", "kConfigChanged", "kCalibrationFault",
          "kDriverEnableFault", "kTimingViolation"}
\* errc: the codes 96 to 105 only report a limit, here one class.
Errc == FaultCode \cup {"kSuccess", "kLimit"}

EnableState == {"kDisabled", "kEnabled", "kEnabling1", "kEnabling2",
                "kEnabling3", "kCalibrateFailed"}

TimeoutType == Nat \cup {NaN}

\* The fields of BldcServoCommandData that decide control flow.
CommandType ==
    [mode: Mode, timeout: TimeoutType, stop: BOOLEAN, limits: SUBSET {"accel", "velocity"},
     fixed: {"none", "voltage", "current"}, ignoreBounds: BOOLEAN]

\* What one control cycle reads from outside: phase_monitors_, the supply
\* and temperature comparisons and the driver's fault line, poles and
\* theta_valid, the position checks, the limit checks made when a mode is
\* entered, a limit that is applied, and the mean of the offset samples.
InputType ==
    [phaseHigh: BOOLEAN, persistent: SUBSET Persistent,
     motor: MotorErrors \cup {"kSuccess"}, position: PositionErrors \cup {"kSuccess"},
     start: StartErrors \cup {"kSuccess"}, limit: {"kSuccess", "kLimit"},
     offsetsOk: BOOLEAN]

ASSUME ConstantsAssumption ==
    /\ Commands \subseteq CommandType
    /\ \A c \in Commands : c.mode \notin Uncommandable
    /\ Inputs \subseteq InputType
    /\ CooldownCycles \in Nat /\ CooldownBrake \in Nat
    /\ CalibrateCount \in Nat \ {0}
    /\ DefaultTimeout \in TimeoutType \ {0}
    /\ TimeoutMode \in Mode
    /\ FixedVoltage \in BOOLEAN /\ BemfFeedforward \in BOOLEAN
    /\ EpochLimit \in Nat \ {0}

VARIABLES
    servo,  \* status_, the PWM registers, hiz pin, driver and ISR members
    data,   \* *current_data_
    epoch,  \* motor_position status().epoch
    main,   \* the main loop: its next shared access and its locals
    hist    \* history, never read by the code: the cycles since the last
            \* command (quiet), its timeout (armed) and the consecutive cycles
            \* that began and ended stopped or faulted (dwell)

vars == <<servo, data, epoch, main, hist>>

ServoType ==
    [mode: Mode, fault: Errc, timeout: TimeoutType, cooldown: Nat,
     cal: Nat, isrEpoch: Nat, pwm: {"zero", "drive"}, power: BOOLEAN,
     pin: BOOLEAN, drv: EnableState, faultConfig: BOOLEAN]

MainPc == {"idle", "faultCode", "faultMode", "swap", "enablePin", "enableRead",
           "enableStore", "writeConfig", "enableReturn", "setCalibrating",
           "enableFaultCode", "enableFaultMode", "epoch"}

\* The power-on values of status_, of the driver object and of data_buffers_.
InitServo ==
    [mode |-> "kStopped", fault |-> "kSuccess", timeout |-> 0, cooldown |-> 0,
     cal |-> 0, isrEpoch |-> 0, pwm |-> "zero", power |-> FALSE,
     pin |-> FALSE, drv |-> "kDisabled", faultConfig |-> FALSE]

InitData ==
    [mode |-> "kStopped", timeout |-> 0, stop |-> FALSE, limits |-> {},
     fixed |-> "none", ignoreBounds |-> FALSE]

-----------------------------------------------------------------------------
(* The control interrupt.  Each operator takes the servo record before a   *)
(* step of the cycle and returns the one after it.                         *)

Raise(s, code) == [s EXCEPT !.mode = "kFault", !.fault = code]

current_control(s) ==
    \/ s.mode \in CurrentModes
    \/ s.mode = "kPositionTimeout" /\ TimeoutMode \in {"kZeroVelocity", "kPosition"}

torque_on(s) ==
    \/ s.mode \in Active
    \/ s.mode = "kPositionTimeout" /\ TimeoutMode # "kStopped"

\* Outputs: the CCR registers and the hiz pin.
DoPwmControl(s) == [s EXCEPT !.pwm = "drive", !.power = TRUE]
DoBrake(s) == [s EXCEPT !.pwm = "zero", !.power = TRUE]
DoHiz(s) == [s EXCEPT !.pwm = "zero", !.power = FALSE]

\* StartEnable(false), then power off.
DoHardStop(s) ==
    [DoHiz(s) EXCEPT !.pin = FALSE, !.drv = "kDisabled", !.faultConfig = FALSE]

\* Drv8323::fault(): the line is only looked at while enabled.
motor_driver_fault(s, in) ==
    s.faultConfig \/ (s.drv = "kEnabled" /\ "kMotorDriverFault" \in in.persistent)

ISR_DoSenseCritical(s, in) ==
    IF s.mode # "kFault" /\ in.phaseHigh THEN Raise(s, "kPwmCycleOverrun") ELSE s

\* A new command's timeout is taken over once; the ISR then zeroes it.
ISR_DoSense(s, d) == IF d.timeout # 0 THEN [s EXCEPT !.timeout = d.timeout] ELSE s

ReportLimit(s, in) ==
    IF in.limit # "kSuccess" /\ s.mode # "kFault" THEN [s EXCEPT !.fault = in.limit] ELSE s

\* A configuration change faults, but this cycle still drives zero volts.
ISR_CalculatePhaseVoltage(s, ep) ==
    IF ep # s.isrEpoch THEN Raise(s, "kConfigChanged") ELSE s

ISR_DoVoltageDQ(s, ep) == DoPwmControl(ISR_CalculatePhaseVoltage(s, ep))

\* The two early returns leave the PWM registers and the hiz pin as they are.
ISR_DoVoltageDQCommand(s, in, ep) ==
    IF in.motor # "kSuccess" THEN Raise(s, in.motor) ELSE ISR_DoVoltageDQ(s, ep)

ISR_DoCurrent(s, in, ep) ==
    IF in.motor # "kSuccess" THEN Raise(s, in.motor)
    ELSE ISR_DoVoltageDQ(ReportLimit(s, in), ep)

\* `fixed' is the command's fixed_{voltage,current}_override.
ISR_DoPositionCommon(s, fixed, in, ep) ==
    CASE fixed = "current" -> ISR_DoCurrent(s, in, ep)
      [] fixed = "voltage" \/ (fixed = "none" /\ FixedVoltage) -> ISR_DoVoltageDQ(s, ep)
      [] OTHER -> IF in.position # "kSuccess" THEN Raise(s, in.position)
                  ELSE ISR_DoCurrent(ReportLimit(s, in), in, ep)

\* Two ways to get the cooldown wrong: no test for zero, and an early return
\* that skips the decrement when regulating the current raises a fault.
UnguardedDoStopped(s, in, ep) ==
    LET t == IF s.cooldown > CooldownBrake THEN ISR_DoCurrent(s, in, ep) ELSE DoHiz(s)
    IN  [t EXCEPT !.cooldown = @ - 1]
StallingDoStopped(s, in, ep) ==
    IF s.cooldown = 0 THEN DoHardStop(s)
    ELSE LET t == IF s.cooldown > CooldownBrake THEN ISR_DoCurrent(s, in, ep) ELSE DoHiz(s)
         IN  IF s.cooldown > CooldownBrake /\ in.motor # "kSuccess" THEN t
             ELSE [t EXCEPT !.cooldown = @ - 1]

\* Torque is removed in two stages: regulate to zero current down to
\* cooldown_brake, float the output down to zero, then disable the driver.
ISR_DoStopped(s, in, ep) ==
    IF s.cooldown = 0 THEN DoHardStop(s)
    ELSE LET t == IF s.cooldown > CooldownBrake THEN ISR_DoCurrent(s, in, ep) ELSE DoHiz(s)
         IN  [t EXCEPT !.cooldown = @ - 1]

ISR_DoPositionTimeout(s, in, ep) ==
    CASE TimeoutMode \in {"kPosition", "kZeroVelocity"} ->
            ISR_DoPositionCommon(s, "none", in, ep)
      [] TimeoutMode = "kBrake" -> DoBrake(s)
      [] OTHER -> ISR_DoStopped(s, in, ep)

ISR_DoCalibrating(s, in) ==
    LET t == [s EXCEPT !.cal = @ + 1] IN
    CASE t.cal < CalibrateCount -> t
      [] t.cal >= CalibrateCount /\ ~in.offsetsOk -> Raise(t, "kCalibrationFault")
      [] OTHER -> [t EXCEPT !.mode = "kCalibrationComplete"]

\* Mutant: the sample count of the previous calibration is kept.
KeepingStartCalibrating(s, ep) ==
    [DoHiz(s) EXCEPT !.isrEpoch = ep, !.mode = "kEnabling"]

ISR_StartCalibrating(s, ep) ==
    [DoHiz(s) EXCEPT !.isrEpoch = ep, !.mode = "kEnabling", !.cal = 0]

\* Entering an active mode from kCalibrationComplete or another active mode.
EnterMode(s, d, in) ==
    IF d.mode \in BoundedModes /\ ~d.ignoreBounds /\ in.start # "kSuccess"
    THEN Raise(s, in.start)
    ELSE [s EXCEPT !.mode = d.mode]

\* Mutants: a mode command leaves the timeout mode, or restarts after a fault.
TimeoutEscapeChangeMode(s, d, in, ep) ==
    CASE d.mode = "kStopped" -> [s EXCEPT !.mode = "kStopped"]
      [] d.mode # "kStopped" /\ s.mode = "kStopped" -> ISR_StartCalibrating(s, ep)
      [] d.mode # "kStopped" /\ s.mode = "kCalibrationComplete" ->
            EnterMode([s EXCEPT !.isrEpoch = ep], d, in)
      [] d.mode # "kStopped" /\ s.mode \in Active \cup {"kPositionTimeout"} ->
            EnterMode(s, d, in)
      [] OTHER -> s
RestartingChangeMode(s, d, in, ep) ==
    CASE d.mode = "kStopped" -> [s EXCEPT !.mode = "kStopped"]
      [] d.mode # "kStopped" /\ s.mode \in FaultOrStopped -> ISR_StartCalibrating(s, ep)
      [] d.mode # "kStopped" /\ s.mode = "kCalibrationComplete" ->
            EnterMode([s EXCEPT !.isrEpoch = ep], d, in)
      [] d.mode # "kStopped" /\ s.mode \in Active -> EnterMode(s, d, in)
      [] OTHER -> s

ISR_MaybeChangeMode(s, d, in, ep) ==
    CASE d.mode = s.mode -> s
      [] d.mode = "kStopped" /\ s.mode # "kStopped" -> [s EXCEPT !.mode = "kStopped"]
      [] d.mode # "kStopped" /\ s.mode = "kStopped" -> ISR_StartCalibrating(s, ep)
      [] d.mode # "kStopped" /\ s.mode = "kCalibrationComplete" ->
            EnterMode([s EXCEPT !.isrEpoch = ep], d, in)
      [] d.mode \notin {"kStopped", s.mode} /\ s.mode \in Active -> EnterMode(s, d, in)
      [] OTHER -> s

\* Of several conditions the last one tested names the fault.
PersistentFault(s, in) ==
    CASE "kOverTemperature" \in in.persistent -> "kOverTemperature"
      [] in.persistent \cap {"kUnderVoltage", "kOverTemperature"} = {"kUnderVoltage"} ->
            "kUnderVoltage"
      [] in.persistent \cap {"kOverVoltage", "kUnderVoltage", "kOverTemperature"} =
            {"kOverVoltage"} -> "kOverVoltage"
      [] OTHER -> IF motor_driver_fault(s, in) THEN "kMotorDriverFault" ELSE "kSuccess"

CheckPersistentFaults(s, in) ==
    IF s.mode \notin FaultOrStopped /\ PersistentFault(s, in) # "kSuccess"
    THEN Raise(s, PersistentFault(s, in)) ELSE s

\* Mutant: the comparison is strict, so an expired timeout of zero is missed.
StrictCheckWatchdog(s) ==
    IF s.mode \in BoundedModes /\ s.timeout < 0 /\ s.timeout # NaN
    THEN [s EXCEPT !.mode = "kPositionTimeout"] ELSE s

CheckWatchdog(s) ==
    IF s.mode \in BoundedModes /\ s.timeout = 0
    THEN [s EXCEPT !.mode = "kPositionTimeout"] ELSE s

ClearFaultCode(s) == IF s.mode # "kFault" THEN [s EXCEPT !.fault = "kSuccess"] ELSE s

LoadCooldown(s) ==
    CASE current_control(s) -> [s EXCEPT !.cooldown = CooldownCycles]
      [] torque_on(s) /\ ~current_control(s) -> [s EXCEPT !.cooldown = CooldownBrake]
      [] OTHER -> s

\* The switch at the end of ISR_DoControl.
RunMode(s, d, in, ep) ==
    CASE s.mode \in FaultOrStopped -> ISR_DoStopped(s, in, ep)
      [] s.mode = "kCalibrating" -> ISR_DoCalibrating(s, in)
      [] s.mode \in {"kPwm", "kVoltage", "kVoltageFoc"} -> DoPwmControl(s)
      [] s.mode = "kVoltageDq" -> ISR_DoVoltageDQCommand(s, in, ep)
      [] s.mode = "kCurrent" -> ISR_DoCurrent(s, in, ep)
      [] s.mode \in BoundedModes -> ISR_DoPositionCommon(s, d.fixed, in, ep)
      [] s.mode = "kZeroVelocity" -> ISR_DoPositionCommon(s, "none", in, ep)
      [] s.mode = "kPositionTimeout" -> ISR_DoPositionTimeout(s, in, ep)
      [] s.mode = "kMeasureInductance" -> ISR_DoVoltageDQ(s, ep)
      [] s.mode = "kBrake" -> DoBrake(s)
      [] OTHER -> s

\* Everything ISR_DoControl does before it runs the mode.
SelectMode(s, d, in, ep) ==
    LET counted == IF s.timeout > 0 THEN [s EXCEPT !.timeout = @ - 1] ELSE s
        changed == ISR_MaybeChangeMode(counted, d, in, ep)
        checked == CheckWatchdog(CheckPersistentFaults(changed, in))
    IN  LoadCooldown(ClearFaultCode(checked))

ISR_DoControl(s, d, in, ep) == RunMode(SelectMode(s, d, in, ep), d, in, ep)

\* One control cycle: ISR_DoTimer followed by ISR_DoTimerLowerPriority.
ISR ==
    /\ \E in \in Inputs :
          servo' = ISR_DoControl(ISR_DoSense(ISR_DoSenseCritical(servo, in), data),
                                 data, in, epoch)
    /\ data' = [data EXCEPT !.timeout = 0]
    /\ hist' = [hist EXCEPT
          !.quiet = IF @ < hist.armed THEN @ + 1 ELSE @,
          !.dwell = CASE servo'.mode \notin FaultOrStopped -> 0
                      [] servo'.mode \in FaultOrStopped /\ servo.mode \notin FaultOrStopped -> 1
                      [] OTHER -> IF @ > CooldownCycles + 1 THEN @ ELSE @ + 1]
    /\ UNCHANGED <<epoch, main>>

-----------------------------------------------------------------------------
(* The main loop                                                           *)

\* Between two operations the main loop holds no copy of shared state.
IdleMain == [pc |-> "idle", next |-> InitData, err |-> "kSuccess",
             drv |-> "kDisabled", epoch |-> 0]
Goto(pc) == main' = [main EXCEPT !.pc = pc]
Finish == main' = IdleMain
At(pc) == main.pc = pc
KeepCommand == UNCHANGED <<data, hist>>

\* PrepareCommand: a zero timeout means the default one.
PrepareCommand(c) ==
    [c EXCEPT !.timeout = IF @ = 0 THEN DefaultTimeout ELSE @]

PrepareError(c) ==
    CASE c.stop /\ c.limits # {} -> "kStopPositionDeprecated"
      [] ~(c.stop /\ c.limits # {}) /\ BemfFeedforward /\ "accel" \notin c.limits ->
            "kBemfFeedforwardNoAccelLimit"
      [] OTHER -> "kSuccess"

\* BldcServo::Command up to its first write the ISR can see.  The
\* uncommandable modes are returned from at once.
Command ==
    /\ At("idle")
    /\ \E c \in Commands :
          main' = [main EXCEPT
             !.pc = IF PrepareError(c) = "kSuccess" THEN "swap" ELSE "faultCode",
             !.next = PrepareCommand(c), !.err = PrepareError(c)]
    /\ UNCHANGED <<servo, data, epoch, hist>>

CommandFaultCode ==
    /\ At("faultCode")
    /\ servo' = [servo EXCEPT !.fault = main.err]
    /\ Goto("faultMode") /\ KeepCommand /\ UNCHANGED epoch

CommandFaultMode ==
    /\ At("faultMode")
    /\ servo' = [servo EXCEPT !.mode = "kFault"]
    /\ Goto("swap") /\ KeepCommand /\ UNCHANGED epoch

\* std::swap(current_data_, next_data_): only the first store is visible.
CommandSwap ==
    /\ At("swap")
    /\ data' = main.next
    /\ Finish
    /\ hist' = [hist EXCEPT !.quiet = 0, !.armed = main.next.timeout]
    /\ UNCHANGED <<servo, epoch>>

\* BldcServo::Fault, with interrupts disabled; called on a missed poll.
TimingFault ==
    /\ At("idle") /\ servo.mode # "kFault"
    /\ servo' = Raise(servo, "kTimingViolation")
    /\ KeepCommand /\ UNCHANGED <<epoch, main>>

\* PollMillisecond reads the mode once; unless it is kEnabling nothing follows
\* that the ISR can see.
PollMillisecond ==
    /\ At("idle") /\ servo.mode = "kEnabling"
    /\ Goto("enablePin") /\ KeepCommand /\ UNCHANGED <<servo, epoch>>

\* Drv8323::StartEnable(true), access by access.
EnablePin ==
    /\ At("enablePin")
    /\ servo' = [servo EXCEPT !.pin = TRUE]
    /\ Goto("enableRead") /\ KeepCommand /\ UNCHANGED epoch

EnableRead ==
    /\ At("enableRead")
    /\ \/ /\ servo.drv = "kEnabling1"     \* 1 ms has passed
          /\ servo' = [servo EXCEPT !.drv = "kEnabled"]
          /\ main' = [main EXCEPT !.pc = "writeConfig"]
       \/ /\ servo.drv \in {"kEnabling1", "kEnabled", "kCalibrateFailed"}
          /\ main' = [main EXCEPT !.pc = "enableReturn", !.drv = servo.drv]
          /\ UNCHANGED servo
       \/ /\ servo.drv \in {"kDisabled", "kEnabling2", "kEnabling3"}
          /\ \E next \in CASE servo.drv = "kDisabled" -> {"kEnabling1"}
                           [] servo.drv = "kEnabling2" -> {"kEnabling3"}
                           [] OTHER -> {"kEnabled", "kCalibrateFailed"} :
                main' = [main EXCEPT !.pc = "enableStore", !.drv = next]
          /\ UNCHANGED servo
    /\ KeepCommand /\ UNCHANGED epoch

\* WriteConfig and StartCalibrate; the read-back fails when the chip is off.
WriteConfig ==
    /\ At("writeConfig")
    /\ \E bad \in BOOLEAN :
          /\ ~servo.pin => bad
          /\ servo' = [servo EXCEPT !.faultConfig = bad]
    /\ main' = [main EXCEPT !.pc = "enableStore", !.drv = "kEnabling2"]
    /\ KeepCommand /\ UNCHANGED epoch

EnableStore ==
    /\ At("enableStore")
    /\ servo' = [servo EXCEPT !.drv = main.drv]
    /\ Goto("enableReturn") /\ KeepCommand /\ UNCHANGED epoch

\* Mutant: a failed driver calibration is taken for one not yet finished.
PatientEnableReturn ==
    /\ At("enableReturn")
    /\ \E result \in {main.drv, servo.drv} :
          main' = IF result = "kEnabled" THEN [IdleMain EXCEPT !.pc = "setCalibrating"]
                  ELSE IdleMain
    /\ KeepCommand /\ UNCHANGED <<servo, epoch>>

\* enable_state_ is an ordinary member the ISR also writes: the value
\* returned is the one in a register or one read again.
EnableReturn ==
    /\ At("enableReturn")
    /\ \E result \in {main.drv, servo.drv} :
          main' = CASE result = "kEnabled" -> [IdleMain EXCEPT !.pc = "setCalibrating"]
                    [] result = "kCalibrateFailed" ->
                          [IdleMain EXCEPT !.pc = "enableFaultCode"]
                    [] OTHER -> IdleMain
    /\ KeepCommand /\ UNCHANGED <<servo, epoch>>

SetCalibrating ==
    /\ At("setCalibrating")
    /\ servo' = [servo EXCEPT !.mode = "kCalibrating"]
    /\ Finish /\ KeepCommand /\ UNCHANGED epoch

EnableFaultCode ==
    /\ At("enableFaultCode")
    /\ servo' = [servo EXCEPT !.fault = "kDriverEnableFault"]
    /\ Goto("enableFaultMode") /\ KeepCommand /\ UNCHANGED epoch

EnableFaultMode ==
    /\ At("enableFaultMode")
    /\ servo' = [servo EXCEPT !.mode = "kFault"]
    /\ Finish /\ KeepCommand /\ UNCHANGED epoch

\* Drv8323::HandleConfigUpdate, when the host stores a driver setting:
\* WriteConfig again, whatever state the driver is in.
DriverConfigUpdate ==
    /\ At("idle")
    /\ \E bad \in BOOLEAN :
          /\ ~servo.pin => bad
          /\ servo' = [servo EXCEPT !.faultConfig = bad]
    /\ KeepCommand /\ UNCHANGED <<epoch, main>>

\* MotorPosition::HandleConfigUpdate clears its status, epoch included,
\* before it stores the next epoch.
ConfigClear ==
    /\ At("idle")
    /\ epoch' = 0
    /\ main' = [main EXCEPT !.pc = "epoch", !.epoch = (epoch + 1) % EpochLimit]
    /\ KeepCommand /\ UNCHANGED servo

ConfigEpoch ==
    /\ At("epoch")
    /\ epoch' = main.epoch
    /\ Finish /\ KeepCommand /\ UNCHANGED servo

-----------------------------------------------------------------------------
Init ==
    /\ servo = InitServo /\ data = InitData
    /\ epoch = 1 % EpochLimit
    /\ main = IdleMain
    /\ hist = [quiet |-> 0, armed |-> 0, dwell |-> 0]

CommandSteps == Command \/ CommandFaultCode \/ CommandFaultMode \/ CommandSwap
EnableSteps ==
    \/ PollMillisecond \/ EnablePin \/ EnableRead \/ WriteConfig \/ EnableStore
    \/ EnableReturn \/ SetCalibrating \/ EnableFaultCode \/ EnableFaultMode
ConfigSteps == DriverConfigUpdate \/ ConfigClear \/ ConfigEpoch

Next == ISR \/ CommandSteps \/ EnableSteps \/ TimingFault \/ ConfigSteps

Spec == Init /\ [][Next]_vars

\* The timer interrupt recurs at the PWM rate, and the main loop never
\* blocks: a started operation finishes and PollMillisecond recurs.  A poll
\* that keeps finding less than 1 ms elapsed cannot recur forever, since
\* polls are 1 ms apart: EnableElapsed is the branch that must be taken.
EnableElapsed == EnableRead /\ servo'.drv = "kEnabled" /\ servo.drv = "kEnabling1"
Fairness ==
    /\ WF_vars(ISR)
    /\ WF_vars(EnableSteps \/ CommandFaultCode \/ CommandFaultMode \/ CommandSwap \/ ConfigEpoch)
    /\ SF_vars(EnableElapsed)
    /\ SF_vars(PollMillisecond)

FairSpec == Spec /\ Fairness

-----------------------------------------------------------------------------
(* Properties                                                              *)

\* Every field keeps its type; in particular the cooldown and the calibration
\* counter never go negative, and no uncommandable mode is in a command buffer.
TypeOK ==
    /\ servo \in ServoType
    /\ data \in CommandType /\ data.mode \notin Uncommandable
    /\ epoch \in Nat
    /\ main \in [pc: MainPc, next: CommandType, err: PrepareErrors \cup {"kSuccess"},
                 drv: EnableState, epoch: Nat]
    /\ main.next.mode \notin Uncommandable
    /\ hist \in [quiet: Nat, armed: TimeoutType, dwell: Nat]

\* Leaving kStopped always recalibrates the current sensors: a mode that can
\* apply torque runs on offsets averaged over exactly CalibrateCount samples
\* taken since, however stops, restarts and faults interleave with the enable
\* poll of PollMillisecond, which writes kCalibrating from a stale mode.
CalibratedBeforeTorque ==
    servo.mode \in Active \cup {"kCalibrationComplete", "kPositionTimeout"} =>
        servo.cal = CalibrateCount

\* The watchdog: a position mode survives fewer control cycles than the
\* timeout of the last command the ISR could see, whichever of the two command
\* buffers that command is in and however long enabling took.
WatchdogBound ==
    servo.mode \in BoundedModes /\ hist.armed # NaN =>
        hist.quiet < hist.armed

Lesser(a, b) == IF a < b THEN a ELSE b

\* Once stopped or faulted the output stage is floating after the zero-current
\* part of the cooldown at the latest, even when further faults are raised
\* during the cooldown.
OutputOffWithinCooldown ==
    servo.power => hist.dwell + Lesser(CooldownBrake, CooldownCycles) <= CooldownCycles + 1

\* "The only way to exit this state is through a stop command", or a fault.
PositionTimeoutExit ==
    [][servo.mode = "kPositionTimeout" =>
         servo'.mode \in {"kPositionTimeout"} \cup FaultOrStopped]_vars

\* A fault is only ever left for kStopped, except that an enable poll which
\* read kEnabling before the fault overwrites it.
FaultLatched ==
    [][servo.mode = "kFault" =>
         servo'.mode \in FaultOrStopped \/ At("setCalibrating")]_vars

\* The enum comment on kFault: "The only valid transition from this state is
\* to kStopped."
FaultLeavesOnlyToStopped ==
    [][servo.mode = "kFault" => servo'.mode \in FaultOrStopped]_vars

\* The fault register holds a fault code whenever the mode is kFault.
FaultHasCode == servo.mode = "kFault" => servo.fault \in FaultCode

\* A stop command that is not replaced ends with the driver disabled and the
\* output stage off.
StopDisablesDriver ==
    data.mode = "kStopped" ~>
        \/ servo.drv = "kDisabled" /\ ~servo.pin /\ ~servo.power
        \/ data.mode # "kStopped"

\* A control command that is not replaced ends in an active mode, in the
\* timeout mode, or in a fault: enabling cannot stall half way.
StartCompletes ==
    data.mode \notin {"kStopped"} ~>
        \/ servo.mode \in Active \cup {"kPositionTimeout", "kFault"}
        \/ data.mode = "kStopped"
=============================================================================
