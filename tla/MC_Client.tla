------------------------------ MODULE MC_Client ------------------------------
(***************************************************************************)
(* The parts of the Rust client above the transport, one at a time: a       *)
(* diagnostic stream, a call of a controller, or a move.                    *)
(***************************************************************************)
EXTENDS DiagnosticStream, Controller, MoveTo

-----------------------------------------------------------------------------
(* Diagnostic streams                                                      *)

Flow ==
    [flow |-> "flow", supported |-> TRUE, old |-> TRUE, restarts |-> FALSE, late |-> TRUE,
     ops |-> {"command"}, max |-> 2, wrap |-> 2, chunks |-> 2, retries |-> 1, maxOps |-> 2,
     maxFaults |-> 2]
Fresh == [Flow EXCEPT !.old = FALSE]
Probe == [Flow EXCEPT !.restarts = TRUE, !.flow = "probe", !.old = FALSE, !.ops = {"command", "flush"}]
Unsupported == [Probe EXCEPT !.supported = FALSE, !.ops = {"command", "oneline"}]
Plain == [Probe EXCEPT !.flow = "plain"]
NoStream == [Flow EXCEPT !.old = FALSE, !.late = FALSE, !.ops = {}, !.maxOps = 0, !.maxFaults = 0]

MCStreams == {Flow, Fresh, Probe, Unsupported, Plain, NoStream}

-----------------------------------------------------------------------------
(* Calls                                                                   *)

Extra(reg, res) == [reg |-> reg, res |-> res]
All(n, x) == [k \in 1..n |-> x]
Some(n, set) == [k \in 1..n |-> IF k \in DOMAIN set THEN <<set[k]>> ELSE <<>>]

\* What a device holds: out of the range of int8, of int16, NaN, or small.
HeldValues ==
    [r \in {r \in 0..344 : Known(r)} |->
        IF FirmwareScale(r) = "int" THEN r % 100
        ELSE IF r % 7 = 3 THEN NaN
        ELSE IF r % 5 = 1 THEN 2000000 + r
        ELSE IF r % 5 = 2 THEN -(30000 + r)
        ELSE 40 * r]

Base ==
    [op |-> "query", async |-> FALSE, args |-> [res |-> <<>>, vals |-> <<>>], format |-> DefaultFormat,
     override |-> <<>>, uuid |-> <<>>]
Asking(op, format) == [Base EXCEPT !.op = op, !.format = format]
Commanding(op, res, vals) == [Base EXCEPT !.op = op, !.args = [res |-> res, vals |-> vals]]
Over(c, format) == [c EXCEPT !.override = <<format>>]
Later(c) == [c EXCEPT !.async = TRUE]

\* Extra registers, more than there is room for, not in their order, far apart.
Extended ==
    [minimal EXCEPT !.adds = <<Extra(112, "Int16"), Extra(336, "Int32"), Extra(32, "Int16"),
                               Extra(34, "Int8"), Extra(48, "Float")>>]
\* Extra registers that share a block: neighbours of equal and of different
\* resolution, one of them twice, the widest block, and a register past it.
Grouped ==
    {[minimal EXCEPT !.adds = adds] : adds \in
        {<<Extra(34, "Int8"), Extra(32, "Int16"), Extra(33, "Int16")>>,
         <<Extra(33, "Int16"), Extra(32, "Int8"), Extra(32, "Int16")>>,
         <<Extra(48, "Int32"), Extra(33, "Int8"), Extra(35, "Int16")>>,
         <<Extra(48, "Int32"), Extra(33, "Int8"), Extra(32, "Int8")>>}}
Narrow ==
    [fields |-> [r \in {0, 11, 12, 15, 94, 95} |-> "Int8"] @@ [r \in {1, 2, 10, 114, 115} |-> "Int16"]
                @@ [r \in {3, 4} |-> "Int8"],
     adds |-> <<Extra(96, "Int16"), Extra(16, "Int16")>>]

Mixed == <<"Int16", "Int16", "Float", "Int8", "Int8", "Int16", "Float", "Int32", "Int16", "Int16",
           "Float", "Float", "Float", "Int8">>
Position3 == Some(14, 1 :> NaN @@ 2 :> 12345 @@ 6 :> 700)
PositionAll == [k \in 1..14 |-> <<1000 * k>>]

MCCalls ==
    {Asking(op, f) : op \in {"query", "set_stop", "set_brake"}, f \in {comprehensive, Extended}}
    \cup {Asking("query", f) : f \in Grouped}
    \cup {Over(Asking("query_with_format", minimal), Narrow), Later(Asking("query", Narrow))}
    \cup {[Later(Asking("set_stop_no_query", minimal)) EXCEPT !.uuid = <<17, -18, 19>>],
          Asking("set_brake_no_query", minimal)}
    \cup {Commanding(op, res, vals) :
            op \in {"set_position", "set_position_no_query"},
            res \in {All(14, "Float"), Mixed}, vals \in {Position3, PositionAll, All(14, <<>>)}}
    \cup {Over(Commanding("set_position", Mixed, Some(14, 1 :> 4000000 @@ 2 :> -90)), Narrow)}
    \cup {Over(Commanding(op, <<"Int16", "Int8">>, <<<<12345>>, <<-250000>>>>), minimal) :
            op \in {"set_current", "set_current_no_query"}}
    \cup {Over(Commanding(op, <<"Int16", "Int8", "Int32">>, vals), minimal) :
            op \in {"set_vfoc", "set_vfoc_no_query"},
            vals \in {<<<<70000>>, <<5000>>, <<0>>>>, <<<<-70000>>, <<NaN>>, <<99>>>>}}
    \cup {Over(Commanding(op, All(9, "Int16"), Some(9, 1 :> NaN @@ 2 :> 333 @@ 7 :> 5000 @@ 9 :> 1)), minimal) :
            op \in {"set_stay_within", "set_stay_within_no_query"}}
    \cup {Over(Commanding(op, <<"Float">>, <<<<77>>>>), minimal) :
            op \in {"set_zero_velocity", "set_zero_velocity_no_query"}}
    \cup {[Later(Commanding(op, <<>>, <<<<-4321>>>>)) EXCEPT !.uuid = <<17, 18, 19, 20>>, !.format = minimal] :
            op \in {"set_output_nearest", "set_output_exact", "set_require_reindex",
                    "set_recapture_position_velocity"}}
    \cup {Commanding(op, <<>>, vals) :
            op \in {"set_write_gpio", "set_write_gpio_query"},
            vals \in {<<<<3>>, <<5>>>>, <<<<>>, <<9>>>>, <<<<>>, <<>>>>}}
    \cup {Later(Asking("read_gpio", minimal))}
    \cup {Later(Commanding("custom_query", res, <<>>)) :
            res \in {<<>>, 1 :> "Int16" @@ 5 :> "Int8" @@ 6 :> "Int8", 200 :> "Int8",
                     40 :> "Int16" @@ 41 :> "Int16" @@ 24 :> "Int8" @@ 60 :> "Int32"}}
    \cup {Commanding(op, Mixed, Some(10, 2 :> 16909320 @@ 3 :> 1000 @@ 10 :> -5)) :
            op \in {"set_aux_pwm", "set_aux_pwm_no_query"}}
    \cup {Commanding("set_trim", <<>>, <<<<-7>>>>)}

-----------------------------------------------------------------------------
(* Moves                                                                   *)

Pair ==
    [op |-> "move_to", setpoints |-> <<1, 2>>, overrides |-> <<Unset, <<7>>>>, limit |-> <<5>>,
     modes |-> <<"Position", "Stopped">>, dead |-> {}, duration |-> FALSE, timeout |-> FALSE,
     reports |-> FALSE, faults |-> FALSE, async |-> FALSE, maxLost |-> 2, watchdog |-> 2]
MCMoves ==
    {Pair, [Pair EXCEPT !.duration = TRUE, !.timeout = TRUE], [Pair EXCEPT !.setpoints = <<Hold, 1>>, !.dead = {2}],
     [Pair EXCEPT !.duration = TRUE, !.faults = TRUE, !.async = TRUE, !.maxLost = 1],
     [Pair EXCEPT !.setpoints = <<>>, !.overrides = <<>>, !.modes = <<>>]}
    \cup {[Pair EXCEPT !.op = op, !.setpoints = <<1>>, !.overrides = <<Unset>>, !.modes = <<m>>,
                       !.timeout = TRUE, !.reports = r, !.faults = f, !.async = f] :
            op \in {"set_position_wait_complete", "wait_for_trajectory_complete"},
            m \in {"Position", "Stopped"}, r \in BOOLEAN, f \in BOOLEAN}
NoMove == [Pair EXCEPT !.op = "none"]

MCAllMoves == MCMoves \cup {NoMove}

-----------------------------------------------------------------------------
(* One of them at a time                                                   *)

clientVars == <<streamVars, callVars, moveVars>>

ClientInit ==
    /\ StreamInit /\ CallInit /\ MoveInit
    /\ sconf = NoStream \/ mconf = NoMove

ClientNext ==
    \/ StreamNext /\ UNCHANGED <<callVars, moveVars>>
    \/ sconf = NoStream /\ mconf = NoMove /\ CallNext /\ UNCHANGED <<streamVars, moveVars>>
    \/ MoveNext /\ UNCHANGED <<streamVars, callVars>>

ClientSpec == ClientInit /\ [][ClientNext]_clientVars /\ StreamFairness /\ MoveFairness
=============================================================================
