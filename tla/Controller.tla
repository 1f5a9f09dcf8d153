----------------------------- MODULE Controller -----------------------------
(***************************************************************************)
(* One call of a BlockingController or an AsyncController, end to end: the *)
(* command and the query are serialized into a frame, the device parses    *)
(* it, executes its writes and answers its reads, and the reply is parsed  *)
(* into a QueryResult (controller.rs, blocking_controller.rs,              *)
(* async_controller.rs of lib/rust/moteus; command.rs, query.rs and        *)
(* register.rs of lib/rust/moteus-protocol).  The device is                *)
(* fw/moteus_controller.cc, its frames are parsed by the same rules.       *)
(***************************************************************************)
EXTENDS Multiplex, FiniteSets, TLC

CONSTANTS
    Calls,           \* the calls to check
    MaxExtra,        \* MAX_EXTRA, the extra registers of a query
    MaxGroupSpan,    \* MAX_GROUP_SPAN, the registers an extra block may span
    Held             \* what the device holds in each register, in steps of its scale

VARIABLES
    call,     \* the call: its arguments, its frame, its result
    peer      \* the device: the frame it received, what it executed, its reply

callVars == <<call, peer>>

-----------------------------------------------------------------------------
(* Registers                                                               *)

Register ==
    [Mode |-> 0, Position |-> 1, Power |-> 7, MotorTemperature |-> 10, TrajectoryComplete |-> 11,
     HomeState |-> 12, Voltage |-> 13, Temperature |-> 14, Fault |-> 15, PwmPhaseA |-> 16,
     VoltagePhaseA |-> 20, VFocTheta |-> 24, VoltageDqD |-> 26, CommandQCurrent |-> 28,
     VFocThetaRate |-> 30, CommandPosition |-> 32, CommandKdScale |-> 36, PositionKp |-> 48,
     ControlPosition |-> 56, CommandStayWithinLowerBound |-> 64, Encoder0Position |-> 80,
     Aux1GpioCommand |-> 92, Aux1GpioStatus |-> 94, Aux1AnalogIn1 |-> 96, Aux2AnalogIn1 |-> 104,
     ClockTrim |-> 113, Aux1PwmInputPeriod |-> 114, Aux1Pwm1 |-> 118, SetOutputNearest |-> 304,
     SetOutputExact |-> 305, RequireReindex |-> 306, RecapturePositionVelocity |-> 307,
     Uuid1 |-> 336, UuidMask1 |-> 340]

\* The scale by which the firmware reads and writes each register: Write() and
\* Read() of moteus_controller.cc, by runs of adjacent registers.
FirmwareScales ==
    {[at |-> 0, s |-> <<"int", "position", "velocity", "torque", "current", "current",
                        "position", "power">>],
     [at |-> 10, s |-> <<"temperature", "int", "int", "voltage", "temperature", "int">>],
     [at |-> 16, s |-> <<"pwm", "pwm", "pwm">>], [at |-> 20, s |-> <<"voltage", "voltage", "voltage">>],
     [at |-> 24, s |-> <<"pwm", "voltage", "voltage", "voltage", "current", "current", "velocity">>],
     [at |-> 32, s |-> <<"position", "velocity", "torque", "pwm", "pwm", "torque", "position", "time",
                         "velocity", "acceleration", "voltage", "pwm", "current", "int">>],
     [at |-> 48, s |-> <<"torque", "torque", "torque", "torque", "torque">>],
     [at |-> 56, s |-> <<"position", "velocity", "torque", "position", "velocity", "torque">>],
     [at |-> 64, s |-> <<"position", "position", "torque", "pwm", "pwm", "torque", "time", "pwm", "int">>],
     [at |-> 80, s |-> <<"position", "velocity", "position", "velocity", "position", "velocity">>],
     [at |-> 88, s |-> <<"int">>], [at |-> 92, s |-> <<"int", "int", "int", "int">>],
     [at |-> 96, s |-> [k \in 1..5 |-> "pwm"]], [at |-> 104, s |-> [k \in 1..5 |-> "pwm"]],
     [at |-> 112, s |-> <<"int", "int", "int", "pwm", "int", "pwm">>],
     [at |-> 118, s |-> [k \in 1..10 |-> "pwm"]],
     [at |-> 304, s |-> <<"position", "position", "int", "int">>],
     [at |-> 336, s |-> [k \in 1..9 |-> "int"]]}

Known(reg) == \E run \in FirmwareScales : reg \in run.at..(run.at + Len(run.s) - 1)
FirmwareScale(reg) ==
    LET run == CHOOSE r \in FirmwareScales : reg \in r.at..(r.at + Len(r.s) - 1)
    IN run.s[reg - run.at + 1]

-----------------------------------------------------------------------------
(* Commands                                                                *)

\* A write block: vals[k] is <<>> for a field that is not set.
Writes(start, scales, ress, vals) ==
    [base |-> 0, start |-> start,
     fields |-> [k \in DOMAIN scales |->
                   [res |-> IF vals[k] = <<>> THEN "Ignore" ELSE ress[k], scale |-> scales[k],
                    val |-> IF vals[k] = <<>> THEN 0 ELSE vals[k][1]]]]
WriteOne(reg, scale, res, v) == Writes(reg, <<scale>>, <<res>>, <<<<v>>>>)
SetMode(mode) == WriteOne(Register.Mode, "int", "Int8", mode)

ModeNumber ==
    [Stopped |-> 0, VoltageFoc |-> 7, Current |-> 9, Position |-> 10, ZeroVelocity |-> 12,
     StayWithin |-> 13, Brake |-> 15]

\* Mutant: the torque limit is written as a current would be.
SlippedPositionScales ==
    <<"position", "velocity", "torque", "pwm", "pwm", "current", "position", "time", "velocity",
      "acceleration", "voltage", "pwm", "current", "int">>

\* The write_* calls of PositionCommand::serialize, field by field.
PositionScales ==
    <<"position", "velocity", "torque", "pwm", "pwm", "torque", "position", "time", "velocity",
      "acceleration", "voltage", "pwm", "current", "int">>
PositionCommand(c) ==
    <<SetMode(ModeNumber.Position), Writes(Register.CommandPosition, PositionScales, c.res, c.vals)>>

\* Angles are in half turns, as they are written.  A rate of 0 is not written.
VFOCCommand(c) ==
    LET rate == IF c.vals[3] = <<0>> THEN <<>> ELSE c.vals[3]
    IN <<SetMode(ModeNumber.VoltageFoc),
         Writes(Register.VFocTheta,
                <<"pwm", "voltage", "voltage", "voltage", "current", "current", "velocity">>,
                <<c.res[1], c.res[2], "Ignore", "Ignore", "Ignore", "Ignore", c.res[3]>>,
                <<c.vals[1], c.vals[2], <<>>, <<>>, <<>>, <<>>, rate>>)>>

\* The registers hold Q before D.
CurrentCommand(c) ==
    <<SetMode(ModeNumber.Current),
      Writes(Register.CommandQCurrent, <<"current", "current">>, <<c.res[2], c.res[1]>>,
             <<c.vals[2], c.vals[1]>>)>>

StayWithinScales ==
    <<"position", "position", "torque", "pwm", "pwm", "torque", "time", "pwm", "int">>
StayWithinCommand(c) ==
    <<SetMode(ModeNumber.StayWithin),
      Writes(Register.CommandStayWithinLowerBound, StayWithinScales, c.res, c.vals)>>

ZeroVelocityCommand(c) ==
    <<SetMode(ModeNumber.ZeroVelocity), Writes(Register.CommandKdScale, <<"pwm">>, c.res, c.vals)>>

StopCommand == <<SetMode(ModeNumber.Stopped)>>
BrakeCommand == <<SetMode(ModeNumber.Brake)>>
OutputNearestCommand(c) == <<WriteOne(Register.SetOutputNearest, "position", "Float", c.vals[1][1])>>
OutputExactCommand(c) == <<WriteOne(Register.SetOutputExact, "position", "Float", c.vals[1][1])>>
RequireReindexCommand == <<WriteOne(Register.RequireReindex, "int", "Int8", 1)>>
RecapturePositionVelocityCommand == <<WriteOne(Register.RecapturePositionVelocity, "int", "Int8", 1)>>
AuxPwmCommand(c) == <<Writes(Register.Aux1Pwm1, [k \in 1..10 |-> "pwm"], c.res, c.vals)>>
SetTrimCommand(c) == <<WriteOne(Register.ClockTrim, "int", "Int32", c.vals[1][1])>>

-----------------------------------------------------------------------------
(* Queries                                                                 *)

\* A QueryFormat: fields maps registers to resolutions, extra is a sequence of
\* registers with theirs.
FormatOf(format, reg) == IF reg \in DOMAIN format.fields THEN format.fields[reg] ELSE "Ignore"
Reads(start, ress) == [base |-> 16, start |-> start, fields |-> [k \in DOMAIN ress |-> [res |-> ress[k]]]]
ReadRun(format, first, last) ==
    Reads(first, [k \in 1..(last - first + 1) |-> FormatOf(format, first + k - 1)])

\* Mutant: an extra register is put at the end.
AppendExtra(extra, reg, res) ==
    IF Len(extra) = MaxExtra THEN extra ELSE Append(extra, [reg |-> reg, res |-> res])

\* The first free slot, and from there down to its place.  Without a free slot
\* the register is dropped.
add_extra(extra, reg, res) ==
    IF Len(extra) = MaxExtra THEN extra
    ELSE LET below == {k \in 1..(Len(extra) + 1) :
                         \A j \in k..Len(extra) : reg < extra[j].reg}
         IN InsertAt(extra, CHOOSE k \in below : \A j \in below : k <= j, [reg |-> reg, res |-> res])

\* The extra registers, in groups that span at most MAX_GROUP_SPAN registers.
GroupEnd(extra, first) ==
    CHOOSE last \in first..Len(extra) :
        /\ \A k \in first..last : extra[k].reg - extra[first].reg < MaxGroupSpan
        /\ last < Len(extra) => extra[last + 1].reg - extra[first].reg >= MaxGroupSpan
Group(extra, first, last) ==
    LET base == extra[first].reg
        at(reg) == {k \in first..last : extra[k].reg = reg}
        latest(S) == CHOOSE k \in S : \A j \in S : j <= k
    IN Reads(base, [k \in 1..(extra[last].reg - base + 1) |->
                      IF at(base + k - 1) = {} THEN "Ignore"
                      ELSE extra[latest(at(base + k - 1))].res])
ExtraBlocks(extra) ==
    LET from[first \in 1..(Len(extra) + 1)] ==
            IF first > Len(extra) THEN <<>>
            ELSE <<Group(extra, first, GroupEnd(extra, first))>> \o from[GroupEnd(extra, first) + 1]
    IN from[1]

\* QueryFormat::serialize
QueryBlocks(format, extra) ==
    <<ReadRun(format, Register.Mode, Register.Power),
      ReadRun(format, Register.MotorTemperature, Register.Fault),
      ReadRun(format, Register.Aux1GpioStatus, Register.Aux1GpioStatus + 1),
      ReadRun(format, Register.Aux1PwmInputPeriod, Register.Aux1PwmInputPeriod + 3)>>
    \o ExtraBlocks(extra)

DefaultFormat ==
    [fields |-> [r \in {0, 13, 14, 15} |-> "Int8"] @@ [r \in {1, 2, 3} |-> "Float"], adds |-> <<>>]
minimal ==
    [fields |-> [r \in {0} |-> "Int8"] @@ [r \in {1, 2, 3} |-> "Float"], adds |-> <<>>]
comprehensive ==
    [DefaultFormat EXCEPT !.fields = [r \in {11, 12} |-> "Int8"]
                                     @@ [r \in {4, 5, 6, 7, 10} |-> "Float"] @@ @]

\* The extra registers of a format, added one after the other.
Extras(format) == FoldLeft(LAMBDA extra, e : add_extra(extra, e.reg, e.res), <<>>, format.adds)

-----------------------------------------------------------------------------
(* Controller                                                              *)

\* make_uuid_prefix: without a CAN id the frame begins with the address.
UuidPrefix(c) ==
    IF c.uuid = <<>> THEN <<>>
    ELSE <<Writes(Register.UuidMask1, [k \in DOMAIN c.uuid |-> "int"],
                  [k \in DOMAIN c.uuid |-> "Int32"], [k \in DOMAIN c.uuid |-> <<c.uuid[k]>>])>>

\* Command::new and prepare_command(): what every frame begins with.
prepare_command(c, commands) == [blocks |-> UuidPrefix(c) \o commands, query |-> FALSE, gpio |-> FALSE]
Queried(command, format) ==
    [command EXCEPT !.blocks = @ \o QueryBlocks(format, Extras(format)), !.query = TRUE]
Finish(c, commands, query) ==
    IF query THEN Queried(prepare_command(c, commands), c.format) ELSE prepare_command(c, commands)

make_query_with_format(c, format) == Queried(prepare_command(c, <<>>), format)
make_query(c) == make_query_with_format(c, c.format)
make_stop(c, query) == Finish(c, StopCommand, query)
make_brake(c, query) == Finish(c, BrakeCommand, query)
make_position_command(c, query) == Finish(c, PositionCommand(c.args), query)
make_current_command(c, query) == Finish(c, CurrentCommand(c.args), query)
make_vfoc_command(c, query) == Finish(c, VFOCCommand(c.args), query)
make_stay_within_command(c, query) == Finish(c, StayWithinCommand(c.args), query)
make_zero_velocity_command(c, query) == Finish(c, ZeroVelocityCommand(c.args), query)
make_set_output_nearest(c, query) == Finish(c, OutputNearestCommand(c.args), query)
make_set_output_exact(c, query) == Finish(c, OutputExactCommand(c.args), query)
make_require_reindex(c, query) == Finish(c, RequireReindexCommand, query)
make_recapture_position_velocity(c, query) == Finish(c, RecapturePositionVelocityCommand, query)
make_read_gpio(c) ==
    [prepare_command(c, <<Reads(Register.Aux1GpioStatus, <<"Int8", "Int8">>)>>)
        EXCEPT !.query = TRUE, !.gpio = TRUE]
make_write_gpio(c, query) ==
    Finish(c, <<Writes(Register.Aux1GpioCommand, <<"int", "int">>, <<"Int8", "Int8">>, c.args.vals)>>, query)

\* The registers asked for, from the lowest to the highest.
make_custom_query(c) ==
    LET regs == DOMAIN c.args.res
        first == CHOOSE r \in regs : \A other \in regs : r <= other
        last == CHOOSE r \in regs : \A other \in regs : r >= other
    IN [prepare_command(c, IF regs = {} THEN <<>> ELSE <<ReadRun([fields |-> c.args.res], first, last)>>)
           EXCEPT !.query = TRUE]
make_aux_pwm(c, query) == Finish(c, AuxPwmCommand(c.args), query)
make_set_trim(c) == prepare_command(c, SetTrimCommand(c.args))

-----------------------------------------------------------------------------
(* The methods of BlockingController and AsyncController                   *)

\* MaybeQuery: the format that comes with the command, or the controller's.
with_query(c) == [c EXCEPT !.format = IF c.override = <<>> THEN c.format ELSE c.override[1]]

QueriesAndStops(c) ==
    CASE c.op = "query" -> make_query(c)
      [] c.op = "query_with_format" -> make_query_with_format(c, with_query(c).format)
      [] c.op = "set_stop" -> make_stop(c, TRUE)
      [] c.op = "set_stop_no_query" -> make_stop(c, FALSE)
      [] c.op = "set_brake" -> make_brake(c, TRUE)
      [] c.op = "set_brake_no_query" -> make_brake(c, FALSE)
PositionMethods(c) ==
    CASE c.op = "set_position" -> make_position_command(with_query(c), TRUE)
      [] c.op = "set_position_no_query" -> make_position_command(c, FALSE)
CurrentAndVfoc(c) ==
    CASE c.op = "set_current" -> make_current_command(with_query(c), TRUE)
      [] c.op = "set_current_no_query" -> make_current_command(c, FALSE)
      [] c.op = "set_vfoc" -> make_vfoc_command(with_query(c), TRUE)
      [] c.op = "set_vfoc_no_query" -> make_vfoc_command(c, FALSE)
StayAndZero(c) ==
    CASE c.op = "set_stay_within" -> make_stay_within_command(with_query(c), TRUE)
      [] c.op = "set_stay_within_no_query" -> make_stay_within_command(c, FALSE)
      [] c.op = "set_zero_velocity" -> make_zero_velocity_command(with_query(c), TRUE)
      [] c.op = "set_zero_velocity_no_query" -> make_zero_velocity_command(c, FALSE)
OutputMethods(c) ==
    CASE c.op = "set_output_nearest" -> make_set_output_nearest(c, TRUE)
      [] c.op = "set_output_exact" -> make_set_output_exact(c, TRUE)
      [] c.op = "set_require_reindex" -> make_require_reindex(c, TRUE)
      [] c.op = "set_recapture_position_velocity" -> make_recapture_position_velocity(c, TRUE)
GpioMethods(c) ==
    CASE c.op = "read_gpio" -> make_read_gpio(c)
      [] c.op = "set_write_gpio" -> make_write_gpio(c, FALSE)
      [] c.op = "set_write_gpio_query" -> make_write_gpio(c, TRUE)
CustomMethods(c) ==
    CASE c.op = "custom_query" -> make_custom_query(c)
      [] c.op = "set_aux_pwm" -> make_aux_pwm(c, TRUE)
      [] c.op = "set_aux_pwm_no_query" -> make_aux_pwm(c, FALSE)
      [] c.op = "set_trim" -> make_set_trim(c)


\* An async method is the same command, awaited: its future can be dropped.
Awaited(command) == command @@ [async |-> TRUE]
Blocked(command) == command @@ [async |-> FALSE]

AsyncQueriesAndStops(c) == Awaited(QueriesAndStops(c))
AsyncPositionMethods(c) == Awaited(PositionMethods(c))
AsyncCurrentAndVfoc(c) == Awaited(CurrentAndVfoc(c))
AsyncStayAndZero(c) == Awaited(StayAndZero(c))
AsyncOutputMethods(c) == Awaited(OutputMethods(c))
AsyncGpioMethods(c) == Awaited(GpioMethods(c))
AsyncCustomMethods(c) == Awaited(CustomMethods(c))

\* The method c.op of the controller that c.async chooses.
Command(c) ==
    CASE c.op \in {"query", "query_with_format", "set_stop", "set_stop_no_query", "set_brake",
                   "set_brake_no_query"} ->
            IF c.async THEN AsyncQueriesAndStops(c) ELSE Blocked(QueriesAndStops(c))
      [] c.op \in {"set_position", "set_position_no_query"} ->
            IF c.async THEN AsyncPositionMethods(c) ELSE Blocked(PositionMethods(c))
      [] c.op \in {"set_current", "set_current_no_query", "set_vfoc", "set_vfoc_no_query"} ->
            IF c.async THEN AsyncCurrentAndVfoc(c) ELSE Blocked(CurrentAndVfoc(c))
      [] c.op \in {"set_stay_within", "set_stay_within_no_query", "set_zero_velocity",
                   "set_zero_velocity_no_query"} ->
            IF c.async THEN AsyncStayAndZero(c) ELSE Blocked(StayAndZero(c))
      [] c.op \in {"set_output_nearest", "set_output_exact", "set_require_reindex",
                   "set_recapture_position_velocity"} ->
            IF c.async THEN AsyncOutputMethods(c) ELSE Blocked(OutputMethods(c))
      [] c.op \in {"read_gpio", "set_write_gpio", "set_write_gpio_query"} ->
            IF c.async THEN AsyncGpioMethods(c) ELSE Blocked(GpioMethods(c))
      [] OTHER -> IF c.async THEN AsyncCustomMethods(c) ELSE Blocked(CustomMethods(c))

-----------------------------------------------------------------------------
(* Replies                                                                 *)

\* The scale of each field of a QueryResult; the others are integers.
FieldScale ==
    [r \in {1, 6} |-> "position"] @@ [r \in {2} |-> "velocity"] @@ [r \in {3} |-> "torque"]
    @@ [r \in {4, 5} |-> "current"] @@ [r \in {7} |-> "power"] @@ [r \in {10, 14} |-> "temperature"]
    @@ [r \in {13} |-> "voltage"] @@ [r \in {115, 117} |-> "pwm"]
    @@ [r \in {0, 11, 12, 15, 94, 95, 114, 116} |-> "int"]

\* parse_generic: the scale by which an extra register is read.
GenericScale(reg) ==
    CASE reg \in {1, 6, 32, 38, 56, 59, 64, 65, 80, 82, 84} -> "position"
      [] reg \in {2, 33, 40, 57, 60, 81, 83, 85} -> "velocity"
      [] reg \in {3, 34, 37, 58, 61} \cup 48..52 -> "torque"
      [] reg \in {4, 5, 28, 29, 44} -> "current"
      [] reg \in {13, 20, 21, 22, 25, 26, 27, 42} -> "voltage"
      [] reg \in {10, 14} -> "temperature"
      [] reg = 7 -> "power"
      [] reg \in {39, 70} -> "time"
      [] reg = 41 -> "acceleration"
      [] reg \in {16, 17, 18, 35, 36, 43, 115, 117} -> "pwm"
      [] OTHER -> "int"

Read(item, scale) == [scale |-> scale, res |-> item.res, v |-> to_f32(item.raw, scale, item.res)]

\* QueryResult::parse_data: the fields that the frame carries, and at most
\* MAX_EXTRA other registers.
ParseItem(result, item) ==
    IF item.kind # "Response" THEN result
    ELSE IF item.register \in DOMAIN FieldScale
    THEN [result EXCEPT !.fields = item.register :> Read(item, FieldScale[item.register]) @@ @]
    ELSE IF Cardinality(DOMAIN result.extra) = MaxExtra THEN result
    ELSE [result EXCEPT !.extra =
            @ @@ item.register :> Read(item, GenericScale(item.register))]
NoResult(kind) == [kind |-> kind, fields |-> <<>>, extra |-> <<>>]
parse_data(frame) == FoldLeft(ParseItem, NoResult("ok"), parse_frame(frame))

\* parse_gpio: the status of the two ports.
parse_gpio(frame) ==
    [parse_data(frame) EXCEPT !.fields = RestrictDomain(@, LAMBDA r : r \in {94, 95}), !.extra = <<>>]

\* query_reply_filter: replies and read errors
query_reply_filter(frame) == frame # <<>> /\ HeadByte(frame) \in (32..47) \cup {49}

-----------------------------------------------------------------------------
(* The device                                                              *)

Executed(items) ==
    LET writes == SelectSeq(items, LAMBDA i : i.kind = "Write" /\ Known(i.register))
    IN [k \in DOMAIN writes |->
          [reg |-> writes[k].register, v |-> to_f32(writes[k].raw, FirmwareScale(writes[k].register),
                                                    writes[k].res)]]

\* Reads are answered block by block: a block's first register opens a subframe.
AnswerItem(frame, items, k) ==
    LET i == items[k]
        opens == k = 1 \/ items[k - 1].kind # "Read" \/ items[k - 1].left = 1
        opened == IF opens THEN Header(frame, 32, i.res, i.left, i.register) ELSE frame
    IN IF i.kind # "Read" THEN frame
       ELSE IF ~Known(i.register) THEN write_u8(write_varuint(write_u8(frame, 49), i.register), 1)
       ELSE write_bytes(opened, ValueBytes(saturate(Held[i.register], FirmwareScale(i.register), i.res),
                                           i.res))
Answer(items) == pad_to_dlc(FoldLeftDomain(LAMBDA f, k : AnswerItem(f, items, k), <<>>, items))

-----------------------------------------------------------------------------
(* Actions                                                                 *)

Serialize(command) == FoldLeft(WriteBlock, <<>>, command.blocks)

\* A method serializes its frame and hands it to cycle().
Call(c) ==
    /\ call.status = "idle"
    /\ LET command == Command(c) IN
       /\ call' = [status |-> IF command.query THEN "waiting" ELSE "done", c |-> c, command |-> command,
                   result |-> NoResult(IF command.query THEN "none" ELSE "ok")]
       /\ peer' = [peer EXCEPT !.inbox = <<pad_to_dlc(Serialize(command))>>]

\* The device takes the frame: writes are executed in their order, then the
\* reply leaves, when one is asked for.
Execute ==
    /\ peer.inbox # <<>>
    /\ LET items == parse_frame(Head(peer.inbox)) IN
       peer' = [inbox |-> <<>>, executed |-> peer.executed \o Executed(items),
                outbox |-> IF call.command.query THEN <<Answer(items)>> ELSE <<>>]
    /\ UNCHANGED call

\* The frame or the reply is lost, or a frame that is no reply came instead.
Miss ==
    /\ peer.inbox # <<>> \/ peer.outbox # <<>>
    /\ peer' = [peer EXCEPT !.inbox = <<>>, !.outbox = <<>>]
    /\ UNCHANGED call

\* cycle() returns: the first response is parsed, or the deadline came first.
Return ==
    /\ call.status = "waiting"
    /\ LET replies == SelectSeq(peer.outbox, query_reply_filter) IN
       call' = [call EXCEPT
                  !.status = "done",
                  !.result = IF replies = <<>> THEN NoResult("NoResponse")
                             ELSE IF call.command.gpio THEN parse_gpio(replies[1])
                             ELSE parse_data(replies[1])]
    /\ peer' = [peer EXCEPT !.outbox = <<>>]

\* The future of an async method is dropped; the frame is on its way.
Drop ==
    /\ call.status = "waiting" /\ call.command.async
    /\ call' = [call EXCEPT !.status = "done", !.result = NoResult("dropped")]
    /\ UNCHANGED peer

CallInit ==
    /\ call = [status |-> "idle"]
    /\ peer = [inbox |-> <<>>, executed |-> <<>>, outbox |-> <<>>]

CallNext == (\E c \in Calls : Call(c)) \/ Execute \/ Miss \/ Return \/ Drop

CallSpec == CallInit /\ [][CallNext]_callVars

-----------------------------------------------------------------------------
(* Properties                                                              *)

\* The size of a block: its values and two to four bytes for each run of equal
\* resolutions.
BlockSize(block) ==
    LET f == block.fields
        opens(k) == f[k].res # "Ignore" /\ (k = 1 \/ f[k - 1].res # f[k].res)
        head(k) == (IF RunLength(f, k) <= 3 THEN 1 ELSE 2) + (IF block.start + k <= 128 THEN 1 ELSE 2)
    IN MapThenSumSet(LAMBDA k : (IF opens(k) THEN head(k) ELSE 0)
                                + (IF block.base = 0 THEN size[f[k].res] ELSE 0), DOMAIN f)
Sized(blocks) == FoldLeft(LAMBDA n, b : n + BlockSize(b), 0, blocks)
Fits(command) == Sized(command.blocks) <= Capacity

\* The reply to a command mirrors its reads, with the values.
Reads16(command) == SelectSeq(command.blocks, LAMBDA b : b.base = 16)
ReplyFits(command) ==
    LET reads == Reads16(command)
    IN Sized([k \in DOMAIN reads |-> [reads[k] EXCEPT !.base = 0]]) <= Capacity

\* Frames have a size that CAN-FD can send, and there is one call, one frame and
\* one result.
CallTypeOK ==
    /\ call.status \in {"idle", "waiting", "done"}
    /\ \A k \in DOMAIN peer.inbox : Len(peer.inbox[k]) = round_up_dlc(Len(peer.inbox[k]))
    /\ \A k \in DOMAIN peer.outbox : Len(peer.outbox[k]) = round_up_dlc(Len(peer.outbox[k]))
    /\ \A e \in Range(peer.executed) : Known(e.reg)
    /\ Len(peer.inbox) + Len(peer.outbox) <= 1
    /\ call.status # "idle" => call.result.kind \in {"none", "ok", "NoResponse", "dropped"}
    /\ call.status = "waiting" => call.result.kind = "none"

\* What a call means to write, field by field.
Intended(command) ==
    LET fields(b) == SelectSeq([k \in DOMAIN b.fields |-> [reg |-> b.start + k - 1] @@ b.fields[k]],
                               LAMBDA f : f.res # "Ignore")
    IN FlattenSeq([k \in DOMAIN command.blocks |->
                     IF command.blocks[k].base = 0 THEN fields(command.blocks[k]) ELSE <<>>])

\* w is v as res carries it: within one step, at the limit, or NaN.
Carries(w, v, scale, res) ==
    LET lsb == Lsb(scale, res) IN
    IF res = "Float" \/ v = NaN THEN w = v
    ELSE IF InRange(v, scale, res) THEN w - v < lsb /\ v - w < lsb
    ELSE w = (IF v > 0 THEN max_value[res] ELSE -max_value[res]) * lsb


\* The registers a call asks for.
FormatRegs(format) ==
    DOMAIN format.fields
    \cup {format.adds[k].reg : k \in {j \in DOMAIN format.adds : j <= MaxExtra}}
Asked(c) ==
    IF c.op = "read_gpio" THEN {94, 95}
    ELSE IF c.op = "custom_query" THEN DOMAIN c.args.res
    ELSE IF c.op \in {"query", "set_stop", "set_brake"} \/ c.override = <<>> THEN FormatRegs(c.format)
    ELSE FormatRegs(c.override[1])

\* Extra registers that parse_generic does not read by the firmware's scale, at
\* an integer resolution (query.rs:547).
Misscaled == {24, 30, 66, 67, 68, 69, 71, 113} \cup (96..100) \cup (104..108) \cup (118..127)

\* A result has each register that was asked for and no other, and each value is
\* the one the device held, when request and reply fit in their frames.  A
\* register the device does not have is missing.
RepliesDecode ==
    (call.status = "done" /\ call.command.query /\ call.result.kind = "ok"
     /\ Fits(call.command) /\ ReplyFits(call.command)) =>
        LET result == call.result.fields @@ call.result.extra
            asked == {r \in Asked(call.c) : Known(r)}
        IN (Cardinality(asked \ DOMAIN FieldScale) <= MaxExtra) =>
           /\ DOMAIN result = asked
           /\ \A r \in asked :
                LET got == result[r] IN
                r \in Misscaled \/
                   /\ got.res # "Float" => got.scale = FirmwareScale(r)
                   /\ Carries(got.v, Held[r], FirmwareScale(r), got.res)
=============================================================================
