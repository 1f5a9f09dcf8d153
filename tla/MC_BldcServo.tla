--------------------------- MODULE MC_BldcServo ---------------------------
(* Small instances of BldcServo for TLC.                                   *)
EXTENDS BldcServo

Cmd(m, t) == [mode |-> m, timeout |-> t, stop |-> FALSE, limits |-> {},
              fixed |-> "none", ignoreBounds |-> FALSE]

\* A stop, a watched and an unwatched position command, a voltage command and
\* a command PrepareCommand rejects.
MCCommands ==
    {Cmd("kStopped", 0), Cmd("kPosition", 2), Cmd("kVoltageDq", 0),
     [Cmd("kPosition", NaN) EXCEPT !.stop = TRUE, !.limits = {"velocity"}]}

Nominal == [phaseHigh |-> FALSE, persistent |-> {}, motor |-> "kSuccess",
            position |-> "kSuccess", start |-> "kSuccess", limit |-> "kSuccess",
            offsetsOk |-> TRUE]

\* At most one thing goes wrong in a control cycle.
MCInputs ==
    {Nominal,
     [Nominal EXCEPT !.phaseHigh = TRUE],
     [Nominal EXCEPT !.persistent = {"kMotorDriverFault"}],
     [Nominal EXCEPT !.persistent = {"kOverVoltage"}],
     [Nominal EXCEPT !.motor = "kThetaInvalid"],
     [Nominal EXCEPT !.position = "kEncoderFault"],
     [Nominal EXCEPT !.start = "kStartOutsideLimit"],
     [Nominal EXCEPT !.limit = "kLimit"],
     [Nominal EXCEPT !.offsetsOk = FALSE]}

\* For the liveness run: a stop, a control command, and inputs that hold the
\* cooldown up or break the enable sequence.
LiveCommands == {Cmd("kStopped", 0), Cmd("kCurrent", 0)}
LiveInputs ==
    {Nominal, [Nominal EXCEPT !.motor = "kThetaInvalid"],
     [Nominal EXCEPT !.persistent = {"kOverVoltage"}]}
=============================================================================
