------------------------------- MODULE MoveTo -------------------------------
(***************************************************************************)
(* The multi-cycle moves of the Rust library: move_to() and its async twin *)
(* (lib/rust/moteus/src/move_to.rs), set_position_wait_complete() and      *)
(* wait_for_trajectory_complete() of the two controllers.                  *)
(*                                                                         *)
(* A move repeats a position command and a query until every servo has     *)
(* completed its trajectory.  A query is answered before the command of    *)
(* the same frame is applied, so that the first answers tell of the move   *)
(* before; frames and replies may be lost.  The servo is an abstraction of *)
(* BldcServo: it starts up, follows its command, faults and times out.     *)
(***************************************************************************)
EXTENDS Integers, Sequences, FiniteSets, SequencesExt, TLC

CONSTANT Moves   \* the moves to check

Hold == -1      \* a NaN setpoint: stay where you are
Unset == <<>>   \* an Option that is None

\* A move: op is the call, none for no call; setpoints holds a position or Hold
\* per servo, overrides the velocity limit of each setpoint and limit the one of
\* the options; modes and dead say what the servos are, reports whether the
\* controller's query format has trajectory_complete, timeout whether there is a
\* deadline, maxLost bounds the frames and replies that are lost, watchdog the
\* frames a servo can miss.
ASSUME MoveAssumption ==
    \A m \in Moves :
        /\ m.op \in {"none", "move_to", "set_position_wait_complete", "wait_for_trajectory_complete"}
        /\ m.setpoints \in Seq(Int) /\ m.modes \in Seq({"Stopped", "Position"})
        /\ m.overrides \in Seq(Seq(Int)) /\ m.limit \in Seq(Int)
        /\ Len(m.modes) = Len(m.setpoints) /\ Len(m.overrides) = Len(m.setpoints)
        /\ m.op \in {"set_position_wait_complete", "wait_for_trajectory_complete"} => Len(m.setpoints) = 1
        /\ m.dead \subseteq DOMAIN m.setpoints
        /\ m.duration \in BOOLEAN /\ m.timeout \in BOOLEAN /\ m.reports \in BOOLEAN
        /\ m.faults \in BOOLEAN /\ m.async \in BOOLEAN
        /\ m.maxLost \in Nat /\ m.watchdog \in Nat \ {0}

VARIABLES
    mconf,    \* the move
    move,     \* the call: its counter, what it has heard, its result
    servos,   \* the servos
    mhist     \* history: losses, what was commanded and seen

moveVars == <<mconf, move, servos, mhist>>

N == Len(mconf.setpoints)
Servos == DOMAIN mconf.setpoints

-----------------------------------------------------------------------------
(* The servos                                                              *)

\* at is where a servo is, goal where its trajectory ends, done what
\* TRAJECTORY_COMPLETE says, limit the velocity limit it follows, next the
\* command that has come and is not applied yet.
Servo(mode) == [mode |-> mode, at |-> 0, goal |-> 0, done |-> TRUE, limit |-> Unset, next |-> <<>>, missed |-> 0]

\* The next control cycle takes the command: a stopped servo starts up first, a
\* faulted one stays as it is.
Apply(i) ==
    /\ servos[i].next # <<>>
    /\ LET s == servos[i]
           c == Head(s.next)
           goal == IF c.position = Hold THEN s.at ELSE c.position
           commanded == [s EXCEPT !.next = <<>>, !.goal = goal, !.limit = c.velocity_limit]
       IN servos' = [servos EXCEPT ![i] =
            CASE s.mode \in {"Stopped", "Calibrating"} -> [commanded EXCEPT !.mode = "Calibrating"]
              [] s.mode = "Position" -> [commanded EXCEPT !.done = goal = s.at]
              [] OTHER -> [s EXCEPT !.next = <<>>]]
    /\ UNCHANGED <<mconf, move, mhist>>

Calibrated(i) ==
    /\ servos[i].mode = "Calibrating"
    /\ servos' = [servos EXCEPT ![i].mode = "Position", ![i].done = servos[i].goal = servos[i].at]
    /\ UNCHANGED <<mconf, move, mhist>>

Arrive(i) ==
    /\ servos[i].mode = "Position" /\ servos[i].at # servos[i].goal
    /\ servos' = [servos EXCEPT ![i].at = servos[i].goal, ![i].done = TRUE]
    /\ UNCHANGED <<mconf, move, mhist>>

FaultOccurs(i) ==
    /\ mconf.faults /\ servos[i].mode \in {"Calibrating", "Position"}
    /\ servos' = [servos EXCEPT ![i].mode = "Fault"]
    /\ UNCHANGED <<mconf, move, mhist>>

\* The watchdog of a servo that missed too many commands.
Watchdog(i) ==
    /\ servos[i].mode = "Position" /\ servos[i].missed >= mconf.watchdog
    /\ servos' = [servos EXCEPT ![i].mode = "Timeout"]
    /\ UNCHANGED <<mconf, move, mhist>>

-----------------------------------------------------------------------------
(* Requests and replies                                                    *)

\* merge_overrides(): a field that the setpoint sets replaces the default.
merge_overrides(cmd, overrides) ==
    [f \in DOMAIN cmd |-> IF overrides[f] # Unset THEN overrides[f] ELSE cmd[f]]

\* The command for servo i: the options, the setpoint's overrides, and the limit
\* that was computed from the duration.
PositionRequest(i) ==
    LET merged == merge_overrides([position |-> mconf.setpoints[i], velocity_limit |-> mconf.limit],
                                  [position |-> Unset, velocity_limit |-> mconf.overrides[i]])
    IN IF move.limits[i] # Unset THEN [merged EXCEPT !.velocity_limit = move.limits[i]] ELSE merged

\* What a reply says; make_query_format() asks for the mode and the completion
\* whatever the controller's format has.
make_query_format(reports) == reports \/ mconf.op # "wait_for_trajectory_complete"
Reply(i) ==
    [mode |-> servos[i].mode, at |-> servos[i].at,
     trajectory_complete |-> make_query_format(mconf.reports) /\ servos[i].done]

\* One transaction: the frames that arrive are a set, and so are the answers.
\* Commands come with every frame that has one.
Cycle(heard, answered, commands) ==
    LET lost == Cardinality((Servos \ mconf.dead) \ answered)
        resets == commands = "command"
    IN /\ \A i \in Servos : servos[i].next = <<>>
       /\ heard \subseteq Servos \ mconf.dead /\ answered \subseteq heard
       /\ mhist.lost + lost <= mconf.maxLost
       /\ servos' = [i \in Servos |->
            IF resets /\ i \in heard
            THEN [servos[i] EXCEPT !.next = <<PositionRequest(i)>>, !.missed = 0]
            ELSE [servos[i] EXCEPT !.missed = IF @ < mconf.watchdog THEN @ + 1 ELSE @]]
       /\ mhist' = [mhist EXCEPT !.lost = @ + lost,
                                 !.commanded = IF resets THEN @ \cup heard ELSE @]

Responses(answered) == [i \in answered |-> Reply(i)]

-----------------------------------------------------------------------------
(* move_to                                                                 *)

is_error(mode) == mode \in {"Fault", "Timeout"}

\* Mutant: the counter is left alone.
StuckCount(count) == count
\* Mutant: the counter has no floor.
UnboundedCount(count) == count - 1

\* (count - 1).max(0)
CountDown(count) == IF count > 0 THEN count - 1 ELSE 0

End(result) == move' = [move EXCEPT !.pc = "done", !.result = result, !.heard = <<>>]

Start ==
    /\ move.pc = "idle" /\ mconf.op # "none"
    /\ IF mconf.op = "move_to" /\ N = 0 THEN End("ok")
       ELSE move' = [move EXCEPT !.pc = IF mconf.op = "move_to" /\ mconf.duration THEN "query" ELSE "cycle"]
    /\ UNCHANGED <<mconf, servos, mhist>>

\* Mutant: a servo that did not answer has no limit.
LimitOfSilent(answers) == {}
\* The servos whose position is not known.
PositionUnknown(answers) == {i \in Servos : mconf.setpoints[i] # Hold} \ DOMAIN answers

\* compute_velocity_limits(): a query, then distance by duration for every servo
\* that has a setpoint.
compute_velocity_limits ==
    /\ mconf.op = "move_to" /\ move.pc = "query"
    /\ \E heard \in SUBSET Servos : \E answered \in SUBSET heard :
         /\ Cycle(heard, answered, "query")
         /\ LET answers == Responses(answered)
                limit(i) ==
                    IF mconf.setpoints[i] = Hold \/ i \notin DOMAIN answers THEN Unset
                    ELSE IF answers[i].at = mconf.setpoints[i] THEN Unset
                    ELSE <<answers[i].at, mconf.setpoints[i]>>
            IN IF PositionUnknown(answers) # {} THEN End("DeviceNotFound")
               ELSE move' = [move EXCEPT !.pc = "cycle", !.limits = [i \in Servos |-> limit(i)],
                                         !.known = DOMAIN answers]
    /\ UNCHANGED mconf

\* The commands and queries of one turn.  The deadline was not over when it began.
MoveCycle ==
    /\ mconf.op = "move_to" /\ move.pc = "cycle"
    /\ \E heard \in SUBSET Servos : \E answered \in SUBSET heard :
         /\ Cycle(heard, answered, "command")
         /\ move' = [move EXCEPT !.pc = "check", !.count = CountDown(@), !.heard = Responses(answered)]
    /\ UNCHANGED mconf

\* Mutant: TRAJECTORY_COMPLETE is believed in every mode.
Trusting(r) == r.trajectory_complete
Completed(r) == r.mode \in {"Position", "StayWithin"} /\ r.trajectory_complete

\* The results in the order of the servos: the first error ends the move, a
\* servo that did not answer is passed over.
MoveCheck ==
    /\ mconf.op = "move_to" /\ move.pc = "check"
    /\ LET r == move.heard
           failed == {i \in DOMAIN r : is_error(r[i].mode)}
           all_complete == \A i \in DOMAIN r : mconf.setpoints[i] # Hold => Completed(r[i])
           last == [i \in DOMAIN r \cup DOMAIN move.last |->
                      IF i \in DOMAIN r THEN r[i] ELSE move.last[i]]
       IN IF failed # {} THEN End("Fault") /\ UNCHANGED mhist
          ELSE IF move.count = 0 /\ all_complete
          THEN /\ move' = [move EXCEPT !.pc = "done", !.result = "ok", !.heard = <<>>, !.last = last]
               /\ mhist' = [mhist EXCEPT !.ended = [i \in Servos |-> servos[i].at]]
          ELSE move' = [move EXCEPT !.pc = "sleep", !.heard = <<>>, !.last = last] /\ UNCHANGED mhist
    /\ UNCHANGED <<mconf, servos>>

\* The end of the sleep: with a deadline, time may be over.
MoveSleep ==
    /\ mconf.op = "move_to" /\ move.pc = "sleep"
    /\ move' = [move EXCEPT !.pc = "cycle"]
    /\ UNCHANGED <<mconf, servos, mhist>>

MoveTimeout ==
    /\ mconf.op = "move_to" /\ move.pc = "cycle" /\ mconf.timeout
    /\ End("Timeout")
    /\ UNCHANGED <<mconf, servos, mhist>>

-----------------------------------------------------------------------------
(* The waits of BlockingController and AsyncController                     *)

\* A command and a query, or a query alone.
WaitCycle ==
    /\ mconf.op # "move_to" /\ move.pc = "cycle"
    /\ \E heard \in SUBSET Servos : \E answered \in SUBSET heard :
         /\ Cycle(heard, answered,
                  IF mconf.op = "set_position_wait_complete" THEN "command" ELSE "query")
         /\ move' = [move EXCEPT !.pc = "check", !.heard = Responses(answered)]
    /\ UNCHANGED mconf

\* success_count.saturating_sub(1) of an i32, which has no floor at 0; below
\* SuccessFloor no value differs from another.
SuccessFloor == -1
CountReply(count) == IF count > SuccessFloor THEN count - 1 ELSE SuccessFloor

\* Mutant: the first reply is believed.
EagerDone(count, r) == count <= 1 /\ r.trajectory_complete
Done(count, r) == count = 0 /\ r.trajectory_complete

\* set_position_wait_complete(): only replies count.
WaitCompleteCheck ==
    /\ mconf.op = "set_position_wait_complete" /\ move.pc = "check"
    /\ LET count == CountReply(move.count)
           r == move.heard[1]
       IN IF 1 \notin DOMAIN move.heard
          THEN move' = [move EXCEPT !.pc = "elapsed"] /\ UNCHANGED mhist
          ELSE IF is_error(r.mode) THEN End("Fault") /\ UNCHANGED mhist
          ELSE IF Done(count, r)
          THEN End("ok") /\ mhist' = [mhist EXCEPT !.ended = [i \in Servos |-> servos[i].at]]
          ELSE /\ move' = [move EXCEPT !.pc = "elapsed", !.count = count, !.heard = <<>>]
               /\ mhist' = [mhist EXCEPT !.completed = @ \/ (count <= 0 /\ Completed(r))]
    /\ UNCHANGED <<mconf, servos>>

\* wait_for_trajectory_complete(): query() fails without a reply.
WaitTrajectoryCheck ==
    /\ mconf.op = "wait_for_trajectory_complete" /\ move.pc = "check"
    /\ IF 1 \notin DOMAIN move.heard THEN End("NoResponse") /\ UNCHANGED mhist
       ELSE IF move.heard[1].trajectory_complete
       THEN End("ok") /\ mhist' = [mhist EXCEPT !.ended = [i \in Servos |-> servos[i].at]]
       ELSE move' = [move EXCEPT !.pc = "elapsed", !.heard = <<>>] /\ UNCHANGED mhist
    /\ UNCHANGED <<mconf, servos>>

WaitTimeout ==
    /\ move.pc = "elapsed"
    /\ End("Timeout")
    /\ UNCHANGED <<mconf, servos, mhist>>

WaitSleep ==
    /\ move.pc = "elapsed"
    /\ move' = [move EXCEPT !.pc = "cycle"]
    /\ UNCHANGED <<mconf, servos, mhist>>

\* The future of an async move is dropped.
DropMove ==
    /\ mconf.async /\ move.pc \notin {"idle", "done"}
    /\ End("dropped")
    /\ UNCHANGED <<mconf, servos, mhist>>

\* cycle() fails: the device is gone.
CycleFails ==
    /\ mconf.faults /\ move.pc \in {"query", "cycle"}
    /\ End("Io")
    /\ UNCHANGED <<mconf, servos, mhist>>

-----------------------------------------------------------------------------
(* Specification                                                           *)

\* A wait for a trajectory finds a servo on its way.
Underway(i) ==
    IF mconf.op = "wait_for_trajectory_complete"
    THEN [Servo(mconf.modes[i]) EXCEPT !.goal = mconf.setpoints[i], !.done = FALSE]
    ELSE Servo(mconf.modes[i])

MoveInit ==
    /\ mconf \in Moves
    /\ move = [pc |-> "idle", count |-> 2, limits |-> [i \in Servos |-> Unset], known |-> {},
               heard |-> <<>>, last |-> <<>>, result |-> "none"]
    /\ servos = [i \in Servos |-> Underway(i)]
    /\ mhist = [lost |-> 0, commanded |-> {}, ended |-> <<>>, completed |-> FALSE]

ServoStep(i) == Apply(i) \/ Calibrated(i) \/ Arrive(i)

HostStep ==
    \/ Start \/ compute_velocity_limits \/ MoveCycle \/ MoveCheck \/ MoveSleep
    \/ WaitCycle \/ WaitCompleteCheck \/ WaitTrajectoryCheck \/ WaitSleep

MoveNext ==
    \/ HostStep \/ MoveTimeout \/ WaitTimeout \/ DropMove \/ CycleFails
    \/ \E i \in Servos : ServoStep(i) \/ FaultOccurs(i) \/ Watchdog(i)

\* The loop goes on, its deadline comes, and the servos do what they are told.
MoveFairness ==
    /\ WF_moveVars(HostStep) /\ SF_moveVars(MoveTimeout) /\ SF_moveVars(WaitTimeout)
    /\ \A i \in 1..2 : WF_moveVars(i \in Servos /\ Apply(i))
    /\ \A i \in 1..2 : WF_moveVars(i \in Servos /\ (Calibrated(i) \/ Arrive(i)))

MoveSpec == MoveInit /\ [][MoveNext]_moveVars /\ MoveFairness

-----------------------------------------------------------------------------
(* Properties                                                              *)

Results == {"none", "ok", "Fault", "Timeout", "DeviceNotFound", "NoResponse", "Io", "dropped"}

\* The call is at one of its awaits with a counter it can have, and answers are
\* held only between a cycle and its check.
MoveTypeOK ==
    /\ move.pc \in {"idle", "query", "cycle", "check", "sleep", "elapsed", "done"}
    /\ move.count \in (IF mconf.op = "move_to" THEN 0 ELSE SuccessFloor)..2
    /\ move.result \in Results /\ (move.result # "none" <=> move.pc = "done")
    /\ DOMAIN move.heard \subseteq Servos /\ (move.heard # <<>> => move.pc \in {"check", "elapsed"})
    /\ \A i \in Servos : /\ servos[i].mode \in {"Stopped", "Calibrating", "Position", "Fault", "Timeout"}
                         /\ Len(servos[i].next) <= 1 /\ servos[i].missed \in 0..mconf.watchdog
    /\ mhist.lost \in 0..mconf.maxLost

Arrived(i) == mconf.setpoints[i] # Hold => mhist.ended[i] = mconf.setpoints[i]

\* When a move is reported complete the servos are where they were sent, though
\* the first answers still tell of the move before: for move_to() when every
\* frame arrived, for a wait that began in position mode whatever is lost.
OkMeansArrived ==
    move.result = "ok" =>
        IF mconf.op = "move_to"
        THEN mhist.lost = 0 /\ mconf.dead = {} => \A i \in Servos : Arrived(i)
        ELSE mconf.modes[1] = "Position" => Arrived(1)

\* "A servo that does not respond here is reported by ID before any watchdog is
\* armed" (move_to.rs:348): with a duration no servo is commanded unless every
\* one that has a setpoint has told its position.
NotFoundBeforeCommand ==
    (mconf.op = "move_to" /\ mconf.duration) =>
        /\ mhist.commanded # {} => {i \in Servos : mconf.setpoints[i] # Hold} \subseteq move.known
        /\ move.result = "DeviceNotFound" => mhist.commanded = {}

\* A move ends, with a result or an error, though servos are silent, fault or
\* time out, and without a deadline too.
MoveEnds == move.pc # "idle" ~> move.pc = "done"

\* "re-sends the position command each cycle until the trajectory is complete"
\* (blocking_controller.rs:1027): it does not run into its timeout after a servo
\* in position mode has told that it is complete.
WaitEndsWhenComplete ==
    (mconf.op = "set_position_wait_complete" /\ move.result = "Timeout") => ~mhist.completed
=============================================================================
