---------------------------- MODULE MoveTo_proofs ----------------------------
(***************************************************************************)
(* For every number of servos, every setpoint and every bound on losses: a *)
(* move that is reported complete has arrived, and with a duration nothing *)
(* is commanded before every servo has told its position.                  *)
(*                                                                         *)
(* The invariant follows the counter.  Once it is down to one, a command   *)
(* has reached each servo (Commanded); what a servo then says of its       *)
(* trajectory is about the right one, and stays true although the same     *)
(* command comes again (Arrives).                                          *)
(***************************************************************************)
EXTENDS MoveTo, FiniteSetTheorems, TLAPS

Modes == {"Stopped", "Calibrating", "Position", "Fault", "Timeout"}
Positions == {"idle", "query", "cycle", "check", "sleep", "elapsed", "done"}
CommandType == [position: Int, velocity_limit: Seq(Int)]
ReplyType == [mode: Modes, at: Int, trajectory_complete: BOOLEAN]
Heard == UNION {[S -> ReplyType] : S \in SUBSET Servos}

ServoType ==
    [mode: Modes, at: Int, goal: Int, done: BOOLEAN, limit: Seq(Int),
     next: Seq(CommandType), missed: 0..mconf.watchdog]

TypeInv ==
    /\ mconf \in Moves
    /\ move \in [pc: Positions, count: SuccessFloor..2, limits: [Servos -> Seq(Int)],
                 known: SUBSET Servos, heard: Heard, last: Heard, result: Results]
    /\ servos \in [Servos -> ServoType]
    /\ mhist \in [lost: 0..mconf.maxLost, commanded: SUBSET Servos,
                  ended: {<<>>} \cup [Servos -> Int], completed: BOOLEAN]

\* The counter, the replies and the result fit the place the call is at.
CallInv ==
    /\ mconf.op = "move_to" => move.count >= 0
    /\ move.heard # <<>> => move.pc = "check"
    /\ move.result # "none" <=> move.pc = "done"
    /\ move.pc = "elapsed" => mconf.op # "move_to"
    /\ mconf.op = "none" => move.pc = "idle"

\* Every command that is waiting is the one of the call, and a servo that says
\* its trajectory is complete is at its end.
ServoInv ==
    \A i \in Servos :
        /\ Len(servos[i].next) <= 1
        /\ servos[i].next # <<>> => Head(servos[i].next).position = mconf.setpoints[i]
        /\ servos[i].mode = "Position" /\ servos[i].done => servos[i].at = servos[i].goal

Settled(i) ==
    mconf.setpoints[i] # Hold =>
        servos[i].at = mconf.setpoints[i] /\ servos[i].goal = mconf.setpoints[i]

\* A command has come: it waits, or the servo follows it, or it never will.
Commanded(i) ==
    mconf.setpoints[i] # Hold =>
        \/ servos[i].next # <<>>
        \/ servos[i].goal = mconf.setpoints[i]
        \/ is_error(servos[i].mode)

\* move_to() when nothing is lost.
MoveInv ==
    (mconf.op = "move_to" /\ mhist.lost = 0 /\ mconf.dead = {}) =>
        /\ move.count <= 1 => \A i \in Servos : Commanded(i)
        /\ move.pc = "check" =>
              /\ DOMAIN move.heard = Servos
              /\ move.count = 0 => \A i \in Servos : Completed(move.heard[i]) => Settled(i)
        /\ move.result = "ok" => \A i \in Servos : Arrived(i)

\* A wait for one servo that was in position mode, whatever is lost.
CompleteInv ==
    (mconf.op = "set_position_wait_complete" /\ mconf.modes[1] = "Position") =>
        /\ servos[1].mode \in {"Position", "Fault", "Timeout"}
        /\ move.count <= 1 \/ (move.pc = "check" /\ 1 \in DOMAIN move.heard) => Commanded(1)
        /\ (/\ move.pc = "check" /\ 1 \in DOMAIN move.heard /\ move.count = 1
            /\ ~is_error(move.heard[1].mode) /\ move.heard[1].trajectory_complete)
           => Settled(1)
        /\ move.result = "ok" => Arrived(1)

TrajectoryInv ==
    (mconf.op = "wait_for_trajectory_complete" /\ mconf.modes[1] = "Position") =>
        /\ servos[1].next = <<>> /\ servos[1].goal = mconf.setpoints[1]
        /\ servos[1].done => servos[1].at = servos[1].goal
        /\ (move.pc = "check" /\ 1 \in DOMAIN move.heard /\ move.heard[1].trajectory_complete)
           => servos[1].at = servos[1].goal
        /\ move.result = "ok" => Arrived(1)

\* With a duration, a servo is commanded once all positions are known.
DurationInv ==
    (mconf.op = "move_to" /\ mconf.duration) =>
        LET sought == {i \in Servos : mconf.setpoints[i] # Hold} IN
        /\ move.pc \in {"idle", "query"} => mhist.commanded = {}
        /\ move.pc \in {"cycle", "check", "sleep"} => sought \subseteq move.known
        /\ mhist.commanded # {} => sought \subseteq move.known
        /\ move.result = "DeviceNotFound" => mhist.commanded = {}

IndInv ==
    TypeInv /\ CallInv /\ ServoInv /\ MoveInv /\ CompleteInv /\ TrajectoryInv /\ DurationInv

-----------------------------------------------------------------------------
(* What the configuration and a cycle do                                   *)

\* An element of a sequence is in the set the sequence is over.
LEMMA ElementOf ==
    ASSUME NEW S, NEW s \in Seq(S), NEW i \in DOMAIN s
    PROVE  s[i] \in S
  OBVIOUS

\* Servos are numbered from one, and there are finitely many (ServoSetpoint).
LEMMA Configured ==
    ASSUME mconf \in Moves
    PROVE  /\ Servos = 1..N /\ N \in Nat /\ IsFiniteSet(Servos)
           /\ \A i \in Servos : mconf.setpoints[i] \in Int /\ mconf.overrides[i] \in Seq(Int)
           /\ \A i \in Servos : mconf.modes[i] \in {"Stopped", "Position"}
           /\ mconf.limit \in Seq(Int) /\ mconf.dead \subseteq Servos
           /\ mconf.maxLost \in Nat /\ mconf.watchdog \in Nat \ {0}
           /\ mconf.reports \in BOOLEAN
           /\ mconf.op \in {"none", "move_to", "set_position_wait_complete", "wait_for_trajectory_complete"}
           /\ mconf.op \in {"set_position_wait_complete", "wait_for_trajectory_complete"} => Servos = {1}
<1>1. /\ mconf.setpoints \in Seq(Int) /\ mconf.overrides \in Seq(Seq(Int))
      /\ mconf.modes \in Seq({"Stopped", "Position"})
      /\ Len(mconf.modes) = Len(mconf.setpoints) /\ Len(mconf.overrides) = Len(mconf.setpoints)
      /\ mconf.limit \in Seq(Int) /\ mconf.dead \subseteq DOMAIN mconf.setpoints
      /\ mconf.maxLost \in Nat /\ mconf.watchdog \in Nat \ {0} /\ mconf.reports \in BOOLEAN
      /\ mconf.op \in {"none", "move_to", "set_position_wait_complete", "wait_for_trajectory_complete"}
      /\ mconf.op \in {"set_position_wait_complete", "wait_for_trajectory_complete"}
            => Len(mconf.setpoints) = 1
      BY MoveAssumption
<1>2. Servos = 1..N /\ N \in Nat
      BY <1>1 DEF Servos, N
<1>3. IsFiniteSet(1..N)
      BY <1>2, FS_Interval
<1>4. /\ DOMAIN mconf.overrides = Servos /\ DOMAIN mconf.modes = Servos
      /\ DOMAIN mconf.setpoints = Servos
      BY <1>1 DEF Servos
<1>5. \A i \in Servos :
        /\ mconf.setpoints[i] \in Int /\ mconf.overrides[i] \in Seq(Int)
        /\ mconf.modes[i] \in {"Stopped", "Position"}
      BY <1>1, <1>4, ElementOf
<1>6. mconf.dead \subseteq Servos /\ IsFiniteSet(Servos)
      BY <1>1, <1>2, <1>3, <1>4
<1>7. mconf.op \in {"set_position_wait_complete", "wait_for_trajectory_complete"} => Servos = {1}
  <2>1. 1..1 = {1}
        OBVIOUS
  <2>2. QED  BY <1>1, <1>2, <2>1 DEF N
<1>8. QED  BY <1>1, <1>2, <1>5, <1>6, <1>7

\* Each servo is sent the position of its setpoint, overrides or not
\* (merge_overrides, PositionCommand).
LEMMA RequestPosition ==
    ASSUME TypeInv, NEW i \in Servos
    PROVE  PositionRequest(i) \in CommandType /\ PositionRequest(i).position = mconf.setpoints[i]
<1>1. /\ mconf.setpoints[i] \in Int /\ mconf.overrides[i] \in Seq(Int) /\ mconf.limit \in Seq(Int)
      /\ move.limits[i] \in Seq(Int)
      BY Configured DEF TypeInv
<1> DEFINE merged == merge_overrides([position |-> mconf.setpoints[i], velocity_limit |-> mconf.limit],
                                     [position |-> Unset, velocity_limit |-> mconf.overrides[i]])
<1>2. merged \in CommandType /\ merged.position = mconf.setpoints[i]
      BY <1>1 DEF merge_overrides, CommandType, Unset
<1>3. QED  BY <1>1, <1>2 DEF PositionRequest, CommandType

\* A cycle moves no servo; a servo that hears a command has it waiting; and
\* without a loss everyone answers (Router::cycle as move_to uses it).
CycleOutcome(heard, answered, commands) ==
    /\ servos' \in [Servos -> ServoType]
    /\ mhist' = [mhist EXCEPT !.lost = mhist'.lost, !.commanded = mhist'.commanded]
    /\ mhist'.lost \in mhist.lost..mconf.maxLost
    /\ mhist'.commanded \in SUBSET Servos
    /\ commands = "query" => mhist'.commanded = mhist.commanded
    /\ (mhist'.lost = 0 /\ mconf.dead = {}) => answered = Servos
    /\ \A i \in Servos :
         /\ servos[i].next = <<>>
         /\ servos'[i].mode = servos[i].mode /\ servos'[i].at = servos[i].at
         /\ servos'[i].goal = servos[i].goal /\ servos'[i].done = servos[i].done
         /\ servos'[i].next = IF commands = "command" /\ i \in heard
                              THEN <<PositionRequest(i)>> ELSE <<>>

\* One transaction has that outcome, whichever frames and replies are lost.
LEMMA CycleEffect ==
    ASSUME TypeInv, ServoInv, NEW heard \in SUBSET Servos, NEW answered \in SUBSET heard,
           NEW commands \in {"command", "query"}, Cycle(heard, answered, commands),
           mconf' = mconf
    PROVE  CycleOutcome(heard, answered, commands)
<1> DEFINE silent == (Servos \ mconf.dead) \ answered
<1>1. IsFiniteSet(silent) /\ Cardinality(silent) \in Nat /\ (Cardinality(silent) = 0 => silent = {})
  <2>1. IsFiniteSet(silent)
        BY Configured, FS_Subset DEF TypeInv
  <2>2. QED  BY <2>1, FS_CardinalityType, FS_EmptySet
<1>2. /\ \A i \in Servos : servos[i].next = <<>>
      /\ mhist' = [mhist EXCEPT !.lost = @ + Cardinality(silent),
                                !.commanded = IF commands = "command" THEN @ \cup heard ELSE @]
      /\ mhist.lost + Cardinality(silent) <= mconf.maxLost
      BY DEF Cycle
<1>3. mhist.lost \in Nat /\ mconf.maxLost \in Nat /\ mhist.commanded \in SUBSET Servos
      BY Configured DEF TypeInv
<1>4. /\ mhist'.lost = mhist.lost + Cardinality(silent)
      /\ mhist'.commanded = IF commands = "command" THEN mhist.commanded \cup heard ELSE mhist.commanded
      /\ mhist' = [mhist EXCEPT !.lost = mhist'.lost, !.commanded = mhist'.commanded]
      BY <1>2 DEF TypeInv
<1>5. /\ mhist'.lost \in mhist.lost..mconf.maxLost
      /\ (mhist'.lost = 0 /\ mconf.dead = {}) => answered = Servos
  <2> HIDE DEF silent
  <2>1. mhist'.lost \in mhist.lost..mconf.maxLost
        BY <1>1, <1>2, <1>3, <1>4
  <2>2. mhist'.lost = 0 => silent = {}
        BY <1>1, <1>3, <1>4
  <2>3. silent = {} /\ mconf.dead = {} => answered = Servos
        BY DEF silent
  <2>4. QED  BY <2>1, <2>2, <2>3
<1>6. servos' = [i \in Servos |->
            IF commands = "command" /\ i \in heard
            THEN [servos[i] EXCEPT !.next = <<PositionRequest(i)>>, !.missed = 0]
            ELSE [servos[i] EXCEPT !.missed = IF @ < mconf.watchdog THEN @ + 1 ELSE @]]
      BY DEF Cycle
<1>7. ASSUME NEW i \in Servos
      PROVE  /\ servos'[i] \in ServoType
             /\ servos'[i].mode = servos[i].mode /\ servos'[i].at = servos[i].at
             /\ servos'[i].goal = servos[i].goal /\ servos'[i].done = servos[i].done
             /\ servos'[i].next = IF commands = "command" /\ i \in heard
                                  THEN <<PositionRequest(i)>> ELSE <<>>
  <2>1. servos[i] \in ServoType /\ servos[i].next = <<>> /\ mconf.watchdog \in Nat \ {0}
        BY <1>2, Configured DEF TypeInv
  <2>2. <<PositionRequest(i)>> \in Seq(CommandType)
        BY RequestPosition
  <2>3. CASE commands = "command" /\ i \in heard
    <3>1. servos'[i] = [servos[i] EXCEPT !.next = <<PositionRequest(i)>>, !.missed = 0]
          BY <1>6, <2>3
    <3>2. 0 \in 0..mconf.watchdog
          BY <2>1
    <3>3. servos'[i] \in ServoType
          BY <2>1, <2>2, <3>1, <3>2 DEF ServoType
    <3>4. QED  BY <2>1, <2>3, <3>1, <3>3 DEF ServoType
  <2>4. CASE ~(commands = "command" /\ i \in heard)
    <3> DEFINE missed == IF servos[i].missed < mconf.watchdog THEN servos[i].missed + 1
                         ELSE servos[i].missed
    <3>1. servos'[i] = [servos[i] EXCEPT !.missed = missed]
          BY <1>6, <2>4
    <3>2. missed \in 0..mconf.watchdog
          BY <2>1 DEF ServoType
    <3> HIDE DEF missed
    <3>3. servos'[i] \in ServoType
          BY <2>1, <3>1, <3>2 DEF ServoType
    <3>4. QED  BY <2>1, <2>4, <3>1, <3>3 DEF ServoType
  <2>5. QED  BY <2>3, <2>4
<1>8. servos' \in [Servos -> ServoType]
      BY <1>6, <1>7
<1>9. QED  BY <1>2, <1>3, <1>4, <1>5, <1>7, <1>8 DEF CycleOutcome

\* The replies to a cycle say what the servos were when it began.
LEMMA RepliesTyped ==
    ASSUME TypeInv, NEW answered \in SUBSET Servos
    PROVE  /\ Responses(answered) \in Heard
           /\ DOMAIN Responses(answered) = answered
           /\ \A i \in answered :
                /\ Responses(answered)[i].mode = servos[i].mode
                /\ Responses(answered)[i].at = servos[i].at
                /\ Responses(answered)[i].trajectory_complete => servos[i].done
<1>1. \A i \in answered : Reply(i) \in ReplyType
      BY Configured DEF TypeInv, Reply, ReplyType, ServoType, make_query_format
<1>2. Responses(answered) \in [answered -> ReplyType]
      BY <1>1 DEF Responses
<1>3. QED  BY <1>2 DEF Responses, Reply, Heard

\* A call that holds no replies.
LEMMA NothingHeard == <<>> \in Heard
<1>1. <<>> \in [{} -> ReplyType]
      OBVIOUS
<1>2. QED  BY <1>1 DEF Heard

-----------------------------------------------------------------------------
(* The servos                                                              *)

\* What no step of a servo undoes.
ServoKeeps(i) ==
    /\ servos'[i] \in ServoType
    /\ Len(servos'[i].next) <= 1
    /\ servos'[i].next # <<>> => Head(servos'[i].next).position = mconf.setpoints[i]
    /\ servos'[i].mode = "Position" /\ servos'[i].done => servos'[i].at = servos'[i].goal
    /\ Settled(i) => Settled(i)'
    /\ Commanded(i) => Commanded(i)'
    /\ servos[i].mode \in {"Position", "Fault", "Timeout"} =>
          servos'[i].mode \in {"Position", "Fault", "Timeout"}
    /\ servos[i].next = <<>> =>
          /\ servos'[i].next = <<>> /\ servos'[i].goal = servos[i].goal
          /\ servos[i].at = servos[i].goal => servos'[i].at = servos[i].goal
          /\ (servos[i].done => servos[i].at = servos[i].goal) =>
                (servos'[i].done => servos'[i].at = servos'[i].goal)

\* A step of one servo keeps the invariant if it keeps these.
LEMMA ServoFrame ==
    ASSUME IndInv, NEW i \in Servos, NEW s \in ServoType,
           servos' = [servos EXCEPT ![i] = s], UNCHANGED <<mconf, move, mhist>>,
           ServoKeeps(i)
    PROVE  IndInv'
<1> USE DEF IndInv
<1>1. \A j \in Servos : servos'[j] = IF j = i THEN s ELSE servos[j]
      BY DEF TypeInv
<1>2. Servos' = Servos /\ Heard' = Heard /\ ServoType' = ServoType
      BY DEF Servos, Heard, ServoType
<1>3. TypeInv'
  <2>1. servos' \in [Servos -> ServoType]
        BY DEF TypeInv
  <2>2. QED  BY <1>2, <2>1 DEF TypeInv
<1>4. CallInv'
      BY DEF CallInv
<1>5. ServoInv'
      BY <1>1, <1>2 DEF ServoInv, ServoKeeps
<1>6. \A j \in Servos : /\ Settled(j) => Settled(j)'
                        /\ Commanded(j) => Commanded(j)'
  <2>1. TAKE j \in Servos
  <2>2. CASE j = i
        BY <2>2 DEF ServoKeeps
  <2>3. CASE j # i
        BY <1>1, <2>3 DEF Settled, Commanded
  <2>4. QED  BY <2>2, <2>3
<1>7. \A j \in Servos : Arrived(j) => Arrived(j)'
      BY DEF Arrived
<1>8. MoveInv'
      BY <1>2, <1>6, <1>7 DEF MoveInv
<1>9. CompleteInv'
  <2>1. CASE mconf.op = "set_position_wait_complete"
    <3>1. Servos = {1} /\ i = 1
          BY <2>1, Configured DEF TypeInv
    <3>2. QED  BY <2>1, <3>1, <1>6, <1>7 DEF CompleteInv, ServoKeeps
  <2>2. CASE mconf.op # "set_position_wait_complete"
        BY <2>2 DEF CompleteInv
  <2>3. QED  BY <2>1, <2>2
<1>10. TrajectoryInv'
  <2>1. CASE mconf.op = "wait_for_trajectory_complete"
    <3>1. Servos = {1} /\ i = 1
          BY <2>1, Configured DEF TypeInv
    <3>2. QED  BY <2>1, <3>1, <1>7 DEF TrajectoryInv, ServoKeeps
  <2>2. CASE mconf.op # "wait_for_trajectory_complete"
        BY <2>2 DEF TrajectoryInv
  <2>3. QED  BY <2>1, <2>2
<1>11. DurationInv'
      BY <1>2 DEF DurationInv
<1>12. QED  BY <1>3, <1>4, <1>5, <1>8, <1>9, <1>10, <1>11

\* The command that is waiting is typed and is the call's.
LEMMA Waiting ==
    ASSUME IndInv, NEW i \in Servos, servos[i].next # <<>>
    PROVE  /\ Head(servos[i].next) \in CommandType
           /\ Head(servos[i].next).position = mconf.setpoints[i]
<1>1. servos[i].next \in Seq(CommandType)
      BY DEF IndInv, TypeInv, ServoType
<1>2. QED  BY <1>1 DEF IndInv, ServoInv

\* Taking the same command again moves a servo neither off its place nor off its
\* goal (BldcServo::Command).
LEMMA ApplyKeeps ==
    ASSUME IndInv, NEW i \in Servos, Apply(i)
    PROVE  IndInv'
<1> DEFINE c == Head(servos[i].next)
           goal == IF c.position = Hold THEN servos[i].at ELSE c.position
           commanded == [servos[i] EXCEPT !.next = <<>>, !.goal = goal, !.limit = c.velocity_limit]
           ignored == [servos[i] EXCEPT !.next = <<>>]
<1>1. /\ servos \in [Servos -> ServoType] /\ servos[i] \in ServoType
      /\ servos[i].next # <<>>
      BY DEF IndInv, TypeInv, Apply
<1>2. c \in CommandType /\ c.position = mconf.setpoints[i]
      BY <1>1, Waiting
<1>3. goal \in Int /\ (mconf.setpoints[i] # Hold => goal = mconf.setpoints[i])
      BY <1>1, <1>2 DEF CommandType, ServoType
<1>4. commanded \in ServoType /\ ignored \in ServoType
  <2>1. c.velocity_limit \in Seq(Int) /\ <<>> \in Seq(CommandType)
        BY <1>2 DEF CommandType
  <2> HIDE DEF c, goal
  <2>2. QED  BY <1>1, <1>3, <2>1 DEF ServoType
<1>5. UNCHANGED <<mconf, move, mhist>>
      BY DEF Apply
<1>6. Settled(i) => goal = servos[i].at
      BY <1>2, <1>3 DEF Settled
<1>7. CASE servos[i].mode \in {"Stopped", "Calibrating"}
  <2> DEFINE s == [commanded EXCEPT !.mode = "Calibrating"]
  <2>1. servos' = [servos EXCEPT ![i] = s]
        BY <1>7 DEF Apply
  <2>2. s \in ServoType /\ s.next = <<>> /\ s.goal = goal /\ s.at = servos[i].at
        /\ s.mode = "Calibrating"
    <3> HIDE DEF goal, c
    <3>1. QED  BY <1>1, <1>4 DEF ServoType, Modes
  <2> HIDE DEF s, goal
  <2>3. servos'[i] = s
        BY <1>1, <2>1
  <2>4. ServoKeeps(i)
    <3>1. ~(servos[i].mode \in {"Position", "Fault", "Timeout"}) /\ s.mode # "Position"
          BY <1>7, <2>2
    <3>2. (Settled(i) => Settled(i)') /\ (Commanded(i) => Commanded(i)')
          BY <1>3, <1>5, <1>6, <2>2, <2>3 DEF Settled, Commanded
    <3>3. s.next = <<>> /\ Len(s.next) <= 1 /\ servos[i].next # <<>> /\ s \in ServoType
          BY <1>1, <2>2
    <3>4. QED  BY <2>3, <3>1, <3>2, <3>3 DEF ServoKeeps
  <2>5. QED  BY <1>5, <2>1, <2>2, <2>4, ServoFrame
<1>8. CASE servos[i].mode = "Position"
  <2> DEFINE s == [commanded EXCEPT !.done = goal = servos[i].at]
  <2>1. servos' = [servos EXCEPT ![i] = s]
        BY <1>8 DEF Apply
  <2>2. s \in ServoType /\ s.next = <<>> /\ s.goal = goal /\ s.at = servos[i].at
        /\ s.mode = "Position" /\ (s.done => goal = servos[i].at)
    <3> HIDE DEF goal, c
    <3>1. QED  BY <1>1, <1>4, <1>8 DEF ServoType
  <2> HIDE DEF s, goal
  <2>3. servos'[i] = s
        BY <1>1, <2>1
  <2>4. ServoKeeps(i)
    <3>1. (Settled(i) => Settled(i)') /\ (Commanded(i) => Commanded(i)')
          BY <1>3, <1>5, <1>6, <2>2, <2>3 DEF Settled, Commanded
    <3>2. s.next = <<>> /\ Len(s.next) <= 1 /\ servos[i].next # <<>> /\ s \in ServoType
          BY <1>1, <2>2
    <3>3. s.mode = "Position" /\ (s.done => s.at = s.goal)
          BY <2>2
    <3>4. QED  BY <2>3, <3>1, <3>2, <3>3 DEF ServoKeeps
  <2>5. QED  BY <1>5, <2>1, <2>2, <2>4, ServoFrame
<1>9. CASE servos[i].mode \in {"Fault", "Timeout"}
  <2>1. servos' = [servos EXCEPT ![i] = ignored]
        BY <1>9 DEF Apply
  <2>2. /\ servos'[i] = ignored /\ ignored.next = <<>> /\ ignored.goal = servos[i].goal
        /\ ignored.at = servos[i].at /\ ignored.mode = servos[i].mode
        /\ ignored.done = servos[i].done
        BY <1>1, <2>1 DEF ServoType
  <2>3. ServoKeeps(i)
        BY <1>1, <1>4, <1>5, <1>9, <2>2 DEF ServoKeeps, Settled, Commanded, is_error
  <2>4. QED  BY <1>4, <1>5, <2>1, <2>3, ServoFrame
<1>10. servos[i].mode \in {"Stopped", "Calibrating", "Position", "Fault", "Timeout"}
      BY <1>1 DEF ServoType, Modes
<1>11. QED  BY <1>7, <1>8, <1>9, <1>10

\* The steps that take no command: the end of the start, the trajectory, a fault
\* and the watchdog.
LEMMA ServoStepKeeps ==
    ASSUME IndInv, NEW i \in Servos,
           Calibrated(i) \/ Arrive(i) \/ FaultOccurs(i) \/ Watchdog(i)
    PROVE  IndInv'
<1>1. /\ servos \in [Servos -> ServoType] /\ servos[i] \in ServoType
      /\ UNCHANGED <<mconf, move, mhist>> /\ Servos' = Servos
      BY DEF IndInv, TypeInv, Calibrated, Arrive, FaultOccurs, Watchdog, Servos
<1>2. /\ Len(servos[i].next) <= 1
      /\ servos[i].next # <<>> => Head(servos[i].next).position = mconf.setpoints[i]
      /\ servos[i].mode = "Position" /\ servos[i].done => servos[i].at = servos[i].goal
      BY DEF IndInv, ServoInv
<1>3. CASE Calibrated(i)
  <2> DEFINE s == [servos[i] EXCEPT !.mode = "Position", !.done = servos[i].goal = servos[i].at]
  <2>1. servos' = [servos EXCEPT ![i] = s] /\ servos[i].mode = "Calibrating"
        BY <1>1, <1>3 DEF Calibrated
  <2>2. /\ s \in ServoType /\ s.next = servos[i].next /\ s.goal = servos[i].goal
        /\ s.at = servos[i].at /\ s.done = (servos[i].goal = servos[i].at)
        /\ servos'[i] = s
        BY <1>1, <2>1 DEF ServoType, Modes
  <2> HIDE DEF s
  <2>3. ServoKeeps(i)
        BY <1>1, <1>2, <2>1, <2>2 DEF ServoKeeps, Settled, Commanded, is_error
  <2>4. QED  BY <1>1, <2>1, <2>2, <2>3, ServoFrame
<1>4. CASE Arrive(i)
  <2> DEFINE s == [servos[i] EXCEPT !.at = servos[i].goal, !.done = TRUE]
  <2>1. servos' = [servos EXCEPT ![i] = s] /\ servos[i].mode = "Position"
        BY <1>1, <1>4 DEF Arrive
  <2>2. /\ s \in ServoType /\ s.next = servos[i].next /\ s.goal = servos[i].goal
        /\ s.at = servos[i].goal /\ s.mode = "Position" /\ servos'[i] = s
        BY <1>1, <2>1 DEF ServoType, Modes
  <2> HIDE DEF s
  <2>3. ServoKeeps(i)
        BY <1>1, <1>2, <2>1, <2>2 DEF ServoKeeps, Settled, Commanded, is_error
  <2>4. QED  BY <1>1, <2>1, <2>2, <2>3, ServoFrame
<1>5. ASSUME NEW mode \in {"Fault", "Timeout"}, servos' = [servos EXCEPT ![i].mode = mode]
      PROVE  IndInv'
  <2> DEFINE s == [servos[i] EXCEPT !.mode = mode]
  <2>1. servos' = [servos EXCEPT ![i] = s]
        BY <1>1, <1>5
  <2>2. /\ s \in ServoType /\ s.next = servos[i].next /\ s.goal = servos[i].goal
        /\ s.at = servos[i].at /\ s.done = servos[i].done /\ s.mode = mode /\ servos'[i] = s
        BY <1>1, <2>1 DEF ServoType, Modes
  <2> HIDE DEF s
  <2>3. ServoKeeps(i)
        BY <1>1, <1>2, <2>1, <2>2 DEF ServoKeeps, Settled, Commanded, is_error
  <2>4. QED  BY <1>1, <2>1, <2>2, <2>3, ServoFrame
<1>6. QED  BY <1>3, <1>4, <1>5 DEF FaultOccurs, Watchdog

-----------------------------------------------------------------------------
(* The call                                                                *)

\* What the invariant says of the servos and the history survives a cycle; and a
\* servo that was commanded before it, and answers that it is complete, is
\* settled (the answer is made before the command is taken).
CycleKept(heard, answered, commands) ==
    /\ servos' \in [Servos -> ServoType] /\ ServoInv'
    /\ mhist' \in [lost: 0..mconf.maxLost, commanded: SUBSET Servos,
                   ended: {<<>>} \cup [Servos -> Int], completed: BOOLEAN]
    /\ mhist'.ended = mhist.ended
    /\ mhist'.lost = 0 => mhist.lost = 0
    /\ (mhist'.lost = 0 /\ mconf.dead = {}) => answered = Servos
    /\ commands = "query" => mhist'.commanded = mhist.commanded
    /\ \A i \in Servos :
         /\ Commanded(i) => Commanded(i)'
         /\ i \in heard /\ commands = "command" => Commanded(i)'
         /\ Commanded(i) /\ servos[i].mode = "Position" /\ servos[i].done => Settled(i)'
         /\ servos'[i].mode = servos[i].mode /\ servos'[i].at = servos[i].at
         /\ servos'[i].goal = servos[i].goal /\ servos'[i].done = servos[i].done
         /\ commands = "query" => servos'[i].next = <<>>

\* Every transaction keeps it.
LEMMA CycleKeeps ==
    ASSUME IndInv, NEW heard \in SUBSET Servos, NEW answered \in SUBSET heard,
           NEW commands \in {"command", "query"}, Cycle(heard, answered, commands),
           mconf' = mconf
    PROVE  CycleKept(heard, answered, commands)
<1>1. /\ servos' \in [Servos -> ServoType]
      /\ mhist' = [mhist EXCEPT !.lost = mhist'.lost, !.commanded = mhist'.commanded]
      /\ mhist'.lost \in mhist.lost..mconf.maxLost
      /\ mhist'.commanded \in SUBSET Servos
      /\ commands = "query" => mhist'.commanded = mhist.commanded
      /\ (mhist'.lost = 0 /\ mconf.dead = {}) => answered = Servos
      /\ \A i \in Servos :
            /\ servos[i].next = <<>>
            /\ servos'[i].mode = servos[i].mode /\ servos'[i].at = servos[i].at
            /\ servos'[i].goal = servos[i].goal /\ servos'[i].done = servos[i].done
            /\ servos'[i].next = IF commands = "command" /\ i \in heard
                                 THEN <<PositionRequest(i)>> ELSE <<>>
  <2>1. TypeInv /\ ServoInv
        BY DEF IndInv
  <2>2. CycleOutcome(heard, answered, commands)
        BY <2>1, CycleEffect
  <2>3. QED  BY <2>2 DEF CycleOutcome
<1>2. /\ mhist \in [lost: 0..mconf.maxLost, commanded: SUBSET Servos,
                    ended: {<<>>} \cup [Servos -> Int], completed: BOOLEAN]
      /\ mconf.maxLost \in Nat
      BY Configured DEF IndInv, TypeInv
<1>3. /\ mhist'.lost \in 0..mconf.maxLost
      /\ mhist'.lost = 0 => mhist.lost = 0
  <2>1. mhist.lost \in Nat
        BY <1>2
  <2>2. QED  BY <1>1, <1>2, <2>1
<1>4. /\ mhist' \in [lost: 0..mconf.maxLost, commanded: SUBSET Servos,
                     ended: {<<>>} \cup [Servos -> Int], completed: BOOLEAN]
      /\ mhist'.ended = mhist.ended
  <2>1. mhist'.ended = mhist.ended /\ mhist'.completed = mhist.completed
        BY <1>1, <1>2
  <2>2. QED  BY <1>1, <1>2, <1>3
<1>5. \A i \in Servos :
        /\ PositionRequest(i).position = mconf.setpoints[i]
        /\ Len(<<PositionRequest(i)>>) = 1 /\ <<PositionRequest(i)>> # <<>>
        /\ Head(<<PositionRequest(i)>>) = PositionRequest(i)
      BY RequestPosition DEF IndInv
<1>6. Servos' = Servos
      BY DEF Servos
<1>7. ServoInv'
  <2>1. ASSUME NEW i \in Servos
        PROVE  /\ Len(servos'[i].next) <= 1
               /\ servos'[i].next # <<>> => Head(servos'[i].next).position = mconf.setpoints[i]
               /\ servos'[i].mode = "Position" /\ servos'[i].done => servos'[i].at = servos'[i].goal
    <3>1. servos[i].mode = "Position" /\ servos[i].done => servos[i].at = servos[i].goal
          BY DEF IndInv, ServoInv
    <3>2. Len(<<>>) <= 1
          OBVIOUS
    <3>3. CASE commands = "command" /\ i \in heard
      <4>1. servos'[i].next = <<PositionRequest(i)>>
            BY <1>1, <3>3
      <4>2. Len(servos'[i].next) <= 1 /\ Head(servos'[i].next).position = mconf.setpoints[i]
            BY <1>5, <4>1
      <4>3. QED  BY <1>1, <3>1, <4>2
    <3>4. CASE ~(commands = "command" /\ i \in heard)
          BY <1>1, <3>1, <3>2, <3>4
    <3>5. QED  BY <3>3, <3>4
  <2>2. QED  BY <1>6, <2>1 DEF ServoInv
<1>8. ASSUME NEW i \in Servos
      PROVE  /\ Commanded(i) => Commanded(i)'
             /\ i \in heard /\ commands = "command" => Commanded(i)'
             /\ Commanded(i) /\ servos[i].mode = "Position" /\ servos[i].done => Settled(i)'
  <2>1. Commanded(i) => Commanded(i)'
        BY <1>1 DEF Commanded
  <2>2. i \in heard /\ commands = "command" => Commanded(i)'
        BY <1>1, <1>5 DEF Commanded
  <2>3. Commanded(i) /\ servos[i].mode = "Position" /\ servos[i].done => Settled(i)'
    <3>1. servos[i].mode = "Position" /\ servos[i].done => servos[i].at = servos[i].goal
          BY DEF IndInv, ServoInv
    <3>2. QED  BY <1>1, <3>1 DEF Commanded, Settled, is_error
  <2>4. QED  BY <2>1, <2>2, <2>3
<1>9. QED  BY <1>1, <1>3, <1>4, <1>7, <1>8 DEF CycleKept

\* A call that has not begun satisfies the invariant, whatever mode its servos
\* are in and wherever the move before left them.
LEMMA MoveInitIndInv == MoveInit => IndInv
<1> SUFFICES ASSUME MoveInit PROVE IndInv
    OBVIOUS
<1>1. mconf \in Moves /\ mconf.maxLost \in Nat /\ mconf.watchdog \in Nat
      BY Configured DEF MoveInit
<1>2. \A i \in Servos : mconf.setpoints[i] \in Int /\ mconf.modes[i] \in {"Stopped", "Position"}
      BY <1>1, Configured
<1>3. \A i \in Servos : servos[i] = Underway(i)
      BY DEF MoveInit
<1>4. ASSUME NEW i \in Servos
      PROVE  /\ Underway(i) \in ServoType
             /\ Underway(i).next = <<>> /\ Underway(i).mode = mconf.modes[i]
             /\ Underway(i).done => Underway(i).at = Underway(i).goal
             /\ mconf.op = "wait_for_trajectory_complete" =>
                   ~Underway(i).done /\ Underway(i).goal = mconf.setpoints[i]
  <2>1. 0 \in 0..mconf.watchdog /\ <<>> \in Seq(Int) /\ <<>> \in Seq(CommandType) /\ 0 \in Int
        BY <1>1
  <2>2. Servo(mconf.modes[i]) \in ServoType
        BY <1>2, <2>1 DEF Servo, Unset, ServoType, Modes
  <2>3. QED  BY <1>2, <2>2 DEF Underway, Servo, ServoType
<1>5. TypeInv
  <2>1. servos \in [Servos -> ServoType]
        BY <1>4 DEF MoveInit
  <2>2. mhist \in [lost: 0..mconf.maxLost, commanded: SUBSET Servos,
                   ended: {<<>>} \cup [Servos -> Int], completed: BOOLEAN]
    <3>1. 0 \in 0..mconf.maxLost
          BY <1>1
    <3>2. QED  BY <3>1 DEF MoveInit
  <2>3. move \in [pc: Positions, count: SuccessFloor..2, limits: [Servos -> Seq(Int)],
                  known: SUBSET Servos, heard: Heard, last: Heard, result: Results]
    <3>1. [i \in Servos |-> Unset] \in [Servos -> Seq(Int)] /\ 2 \in SuccessFloor..2
          BY DEF Unset, SuccessFloor
    <3>2. QED  BY <3>1, NothingHeard DEF MoveInit, Positions, Results
  <2>4. QED  BY <1>1, <2>1, <2>2, <2>3 DEF TypeInv
<1>6. move.pc = "idle" /\ move.count = 2 /\ move.result = "none" /\ move.heard = <<>>
      BY DEF MoveInit
<1>7. CallInv
      BY <1>6 DEF CallInv
<1>8. ServoInv
  <2>1. Len(<<>>) <= 1
        OBVIOUS
  <2>2. QED  BY <1>3, <1>4, <2>1 DEF ServoInv
<1>9. MoveInv
      BY <1>6 DEF MoveInv
<1>10. CompleteInv
  <2>1. mconf.op = "set_position_wait_complete" => 1 \in Servos
        BY <1>1, Configured
  <2>2. QED  BY <1>3, <1>4, <1>6, <2>1 DEF CompleteInv
<1>11. TrajectoryInv
  <2>1. mconf.op = "wait_for_trajectory_complete" => 1 \in Servos
        BY <1>1, Configured
  <2>2. QED  BY <1>3, <1>4, <1>6, <2>1 DEF TrajectoryInv
<1>12. DurationInv
      BY <1>6 DEF DurationInv, MoveInit
<1>13. QED  BY <1>5, <1>7, <1>8, <1>9, <1>10, <1>11, <1>12 DEF IndInv

\* A call that ends without success: an error, a deadline, a dropped future.
LEMMA EndKeeps ==
    ASSUME IndInv, NEW result \in {"Fault", "Timeout", "NoResponse", "Io", "dropped"},
           End(result), UNCHANGED <<mconf, servos, mhist>>, move.pc # "idle"
    PROVE  IndInv'
<1>1. move' = [move EXCEPT !.pc = "done", !.result = result, !.heard = <<>>]
      BY DEF End
<1>2. /\ Servos' = Servos /\ Heard' = Heard /\ ServoType' = ServoType
      /\ \A i \in Servos : (Commanded(i) => Commanded(i)') /\ (Arrived(i) => Arrived(i)')
      BY DEF Servos, Heard, ServoType, Commanded, Arrived
<1>3. /\ move' \in [pc: Positions, count: SuccessFloor..2, limits: [Servos -> Seq(Int)],
                   known: SUBSET Servos, heard: Heard, last: Heard, result: Results]
      /\ move'.pc = "done" /\ move'.result = result /\ move'.heard = <<>>
      /\ move'.count = move.count /\ move'.known = move.known
      BY <1>1, NothingHeard DEF IndInv, TypeInv, Positions, Results
<1>4. TypeInv'
      BY <1>2, <1>3 DEF IndInv, TypeInv
<1>5. CallInv'
      BY <1>3 DEF IndInv, CallInv
<1>6. ServoInv'
      BY <1>2 DEF IndInv, ServoInv
<1>7. MoveInv'
      BY <1>2, <1>3 DEF IndInv, MoveInv
<1>8. CompleteInv'
  <2>1. mconf.op = "set_position_wait_complete" => 1 \in Servos
        BY Configured DEF IndInv, TypeInv
  <2>2. QED  BY <1>2, <1>3, <2>1 DEF IndInv, CompleteInv
<1>9. TrajectoryInv'
      BY <1>3 DEF IndInv, TrajectoryInv
<1>10. DurationInv'
      BY <1>2, <1>3 DEF IndInv, DurationInv
<1>11. QED  BY <1>4, <1>5, <1>6, <1>7, <1>8, <1>9, <1>10 DEF IndInv

\* The call begins, or ends at once because it has no servo.
LEMMA StartKeeps == ASSUME IndInv, Start PROVE IndInv'
<1>1. /\ UNCHANGED <<mconf, servos, mhist>> /\ move.pc = "idle" /\ mconf.op # "none"
      BY DEF Start
<1>2. /\ Servos' = Servos /\ Heard' = Heard /\ ServoType' = ServoType
      /\ \A i \in Servos : (Commanded(i) => Commanded(i)') /\ (Arrived(i) => Arrived(i)')
      BY <1>1 DEF Servos, Heard, ServoType, Commanded, Arrived
<1>3. move.result = "none" /\ move.heard = <<>>
      BY <1>1 DEF IndInv, CallInv
<1>4. /\ move' \in [pc: Positions, count: SuccessFloor..2, limits: [Servos -> Seq(Int)],
                   known: SUBSET Servos, heard: Heard, last: Heard, result: Results]
      /\ move'.count = move.count /\ move'.known = move.known /\ move'.heard = <<>>
      /\ \/ mconf.op = "move_to" /\ N = 0 /\ move'.pc = "done" /\ move'.result = "ok"
         \/ mconf.op = "move_to" /\ mconf.duration /\ move'.pc = "query" /\ move'.result = "none"
         \/ ~(mconf.op = "move_to" /\ mconf.duration) /\ move'.pc = "cycle" /\ move'.result = "none"
  <2>1. CASE mconf.op = "move_to" /\ N = 0
    <3>1. move' = [move EXCEPT !.pc = "done", !.result = "ok", !.heard = <<>>]
          BY <2>1 DEF Start, End
    <3>2. QED  BY <2>1, <3>1, NothingHeard DEF IndInv, TypeInv, Positions, Results
  <2>2. CASE ~(mconf.op = "move_to" /\ N = 0)
    <3>1. move' = [move EXCEPT !.pc = IF mconf.op = "move_to" /\ mconf.duration THEN "query" ELSE "cycle"]
          BY <2>2 DEF Start
    <3>2. QED  BY <1>3, <3>1 DEF IndInv, TypeInv, Positions
  <2>3. QED  BY <2>1, <2>2
<1>5. N = 0 => Servos = {}
      BY Configured DEF IndInv, TypeInv
<1>6. TypeInv'
      BY <1>1, <1>2, <1>4 DEF IndInv, TypeInv
<1>7. CallInv'
      BY <1>1, <1>4 DEF IndInv, CallInv
<1>8. ServoInv'
      BY <1>1, <1>2 DEF IndInv, ServoInv
<1>9. MoveInv'
      BY <1>1, <1>2, <1>4, <1>5 DEF IndInv, MoveInv
<1>10. CompleteInv'
  <2>1. mconf.op = "set_position_wait_complete" => 1 \in Servos
        BY Configured DEF IndInv, TypeInv
  <2>2. QED  BY <1>1, <1>2, <1>4, <2>1 DEF IndInv, CompleteInv
<1>11. TrajectoryInv'
      BY <1>1, <1>4 DEF IndInv, TrajectoryInv
<1>12. DurationInv'
      BY <1>1, <1>2, <1>4 DEF IndInv, DurationInv
<1>13. QED  BY <1>6, <1>7, <1>8, <1>9, <1>10, <1>11, <1>12 DEF IndInv

\* Between two turns nothing but the place of the call changes.
LEMMA SleepKeeps == ASSUME IndInv, MoveSleep \/ WaitSleep PROVE IndInv'
<1>1. /\ UNCHANGED <<mconf, servos, mhist>> /\ move' = [move EXCEPT !.pc = "cycle"]
      /\ move.pc = "elapsed" \/ (move.pc = "sleep" /\ mconf.op = "move_to")
      BY DEF MoveSleep, WaitSleep
<1>2. /\ Servos' = Servos /\ Heard' = Heard /\ ServoType' = ServoType
      /\ \A i \in Servos : (Commanded(i) => Commanded(i)') /\ (Arrived(i) => Arrived(i)')
      BY <1>1 DEF Servos, Heard, ServoType, Commanded, Arrived
<1>3. /\ move' \in [pc: Positions, count: SuccessFloor..2, limits: [Servos -> Seq(Int)],
                   known: SUBSET Servos, heard: Heard, last: Heard, result: Results]
      /\ move'.pc = "cycle" /\ move'.count = move.count /\ move'.known = move.known
      /\ move'.result = "none" /\ move'.heard = <<>>
      BY <1>1 DEF IndInv, TypeInv, CallInv, Positions
<1>4. TypeInv'
      BY <1>1, <1>2, <1>3 DEF IndInv, TypeInv
<1>5. CallInv'
      BY <1>1, <1>3 DEF IndInv, CallInv
<1>6. ServoInv'
      BY <1>1, <1>2 DEF IndInv, ServoInv
<1>7. MoveInv'
      BY <1>1, <1>2, <1>3 DEF IndInv, MoveInv
<1>8. CompleteInv'
  <2>1. mconf.op = "set_position_wait_complete" => 1 \in Servos
        BY Configured DEF IndInv, TypeInv
  <2>2. QED  BY <1>1, <1>2, <1>3, <2>1 DEF IndInv, CompleteInv
<1>9. TrajectoryInv'
      BY <1>1, <1>3 DEF IndInv, TrajectoryInv
<1>10. DurationInv'
      BY <1>1, <1>2, <1>3 DEF IndInv, DurationInv, CallInv
<1>11. QED  BY <1>4, <1>5, <1>6, <1>7, <1>8, <1>9, <1>10 DEF IndInv

\* The turn of move_to(): a command counts down, and once the counter is down
\* whoever answers that it is complete has the command of an earlier turn.
LEMMA MoveCycleKeeps == ASSUME IndInv, MoveCycle PROVE IndInv'
<1>1. /\ mconf.op = "move_to" /\ move.pc = "cycle" /\ mconf' = mconf
      /\ move.result = "none" /\ move.count \in 0..2
      BY DEF MoveCycle, IndInv, CallInv, TypeInv, SuccessFloor
<1>2. PICK heard \in SUBSET Servos : \E answered \in SUBSET heard :
        /\ Cycle(heard, answered, "command")
        /\ move' = [move EXCEPT !.pc = "check", !.count = CountDown(@), !.heard = Responses(answered)]
      BY DEF MoveCycle
<1>3. PICK answered \in SUBSET heard :
        /\ Cycle(heard, answered, "command")
        /\ move' = [move EXCEPT !.pc = "check", !.count = CountDown(@), !.heard = Responses(answered)]
      BY <1>2
<1>4. CycleKept(heard, answered, "command")
      BY <1>1, <1>3, CycleKeeps
<1>5. /\ Responses(answered) \in Heard /\ DOMAIN Responses(answered) = answered
      /\ \A i \in answered :
            /\ Responses(answered)[i].mode = servos[i].mode
            /\ Responses(answered)[i].trajectory_complete => servos[i].done
      BY RepliesTyped DEF IndInv
<1>6. CountDown(move.count) \in 0..2 /\ (CountDown(move.count) = 0 => move.count <= 1)
      BY <1>1 DEF CountDown
<1>7. /\ move' \in [pc: Positions, count: SuccessFloor..2, limits: [Servos -> Seq(Int)],
                   known: SUBSET Servos, heard: Heard, last: Heard, result: Results]
      /\ move'.pc = "check" /\ move'.count = CountDown(move.count) /\ move'.known = move.known
      /\ move'.result = "none" /\ move'.heard = Responses(answered)
  <2> DEFINE count == CountDown(move.count)
             answers == Responses(answered)
  <2>1. move' = [move EXCEPT !.pc = "check", !.count = count, !.heard = answers]
        BY <1>3
  <2>2. count \in SuccessFloor..2 /\ answers \in Heard
        BY <1>5, <1>6 DEF SuccessFloor
  <2> HIDE DEF count, answers
  <2>3. /\ move' \in [pc: Positions, count: SuccessFloor..2, limits: [Servos -> Seq(Int)],
                     known: SUBSET Servos, heard: Heard, last: Heard, result: Results]
        /\ move'.pc = "check" /\ move'.count = count /\ move'.known = move.known
        /\ move'.result = "none" /\ move'.heard = answers
        BY <1>1, <2>1, <2>2 DEF IndInv, TypeInv, Positions
  <2>4. QED  BY <2>3 DEF count, answers
<1>8. Servos' = Servos /\ Heard' = Heard /\ ServoType' = ServoType
      BY <1>1 DEF Servos, Heard, ServoType
<1>9. TypeInv'
  <2>1. mconf \in Moves /\ servos' \in [Servos -> ServoType]
        /\ mhist' \in [lost: 0..mconf.maxLost, commanded: SUBSET Servos,
                       ended: {<<>>} \cup [Servos -> Int], completed: BOOLEAN]
        BY <1>4 DEF IndInv, TypeInv, CycleKept
  <2>2. QED  BY <1>1, <1>7, <1>8, <2>1 DEF TypeInv
<1>10. CallInv'
      BY <1>1, <1>6, <1>7 DEF CallInv
<1>11. ServoInv'
      BY <1>4 DEF CycleKept
<1>12. MoveInv'
  <2>1. SUFFICES ASSUME mhist'.lost = 0, mconf.dead = {}
                 PROVE  /\ \A i \in Servos : Commanded(i)'
                        /\ answered = Servos
                        /\ move'.count = 0 =>
                              \A i \in Servos : Completed(Responses(answered)[i]) => Settled(i)'
        BY <1>1, <1>5, <1>7, <1>8 DEF MoveInv
  <2>2. answered = Servos /\ heard = Servos /\ mhist.lost = 0
        BY <1>4, <2>1 DEF CycleKept
  <2>3. \A i \in Servos : Commanded(i)'
        BY <1>4, <2>2 DEF CycleKept
  <2>4. ASSUME move'.count = 0, NEW i \in Servos, Completed(Responses(answered)[i])
        PROVE  Settled(i)'
    <3>1. Commanded(i)
          BY <1>1, <1>6, <1>7, <2>1, <2>2, <2>4 DEF IndInv, MoveInv
    <3>2. servos[i].mode = "Position" /\ servos[i].done
      <4>1. servos[i].mode \in {"Position", "StayWithin"} /\ servos[i].done
            BY <1>5, <2>2, <2>4 DEF Completed
      <4>2. servos[i].mode \in Modes
            BY DEF IndInv, TypeInv, ServoType
      <4>3. QED  BY <4>1, <4>2 DEF Modes
    <3>3. QED  BY <1>4, <3>1, <3>2 DEF CycleKept
  <2>5. QED  BY <2>2, <2>3, <2>4
<1>13. CompleteInv' /\ TrajectoryInv'
      BY <1>1 DEF CompleteInv, TrajectoryInv
<1>14. DurationInv'
      BY <1>1, <1>7, <1>8 DEF IndInv, DurationInv
<1>15. QED  BY <1>9, <1>10, <1>11, <1>12, <1>13, <1>14 DEF IndInv

\* The query for the positions commands nothing; the call goes on once every
\* servo that has a setpoint has answered.
LEMMA LimitsKeep == ASSUME IndInv, compute_velocity_limits PROVE IndInv'
<1>1. /\ mconf.op = "move_to" /\ move.pc = "query" /\ mconf' = mconf
      /\ move.result = "none" /\ move.heard = <<>>
      BY DEF compute_velocity_limits, IndInv, CallInv
<1> DEFINE limit(answers, i) ==
             IF mconf.setpoints[i] = Hold \/ i \notin DOMAIN answers THEN Unset
             ELSE IF answers[i].at = mconf.setpoints[i] THEN Unset
             ELSE <<answers[i].at, mconf.setpoints[i]>>
<1>2. PICK heard \in SUBSET Servos : \E answered \in SUBSET heard :
        /\ Cycle(heard, answered, "query")
        /\ IF PositionUnknown(Responses(answered)) # {} THEN End("DeviceNotFound")
           ELSE move' = [move EXCEPT !.pc = "cycle",
                                     !.limits = [i \in Servos |-> limit(Responses(answered), i)],
                                     !.known = DOMAIN Responses(answered)]
      BY DEF compute_velocity_limits
<1>3. PICK answered \in SUBSET heard :
        /\ Cycle(heard, answered, "query")
        /\ IF PositionUnknown(Responses(answered)) # {} THEN End("DeviceNotFound")
           ELSE move' = [move EXCEPT !.pc = "cycle",
                                     !.limits = [i \in Servos |-> limit(Responses(answered), i)],
                                     !.known = DOMAIN Responses(answered)]
      BY <1>2
<1>4. CycleKept(heard, answered, "query")
      BY <1>1, <1>3, CycleKeeps
<1>5. /\ Responses(answered) \in Heard /\ DOMAIN Responses(answered) = answered
      /\ \A i \in answered : Responses(answered)[i].at = servos[i].at
      BY RepliesTyped DEF IndInv
<1>6. [i \in Servos |-> limit(Responses(answered), i)] \in [Servos -> Seq(Int)]
  <2>1. ASSUME NEW i \in Servos PROVE limit(Responses(answered), i) \in Seq(Int)
    <3>1. mconf.setpoints[i] \in Int /\ servos[i].at \in Int
          BY Configured DEF IndInv, TypeInv, ServoType
    <3>2. Unset \in Seq(Int)
          BY DEF Unset
    <3>3. QED  BY <1>5, <3>1, <3>2
  <2>2. QED  BY <2>1
<1>7. /\ move' \in [pc: Positions, count: SuccessFloor..2, limits: [Servos -> Seq(Int)],
                   known: SUBSET Servos, heard: Heard, last: Heard, result: Results]
      /\ move'.count = move.count /\ move'.heard = <<>>
      /\ \/ move'.pc = "done" /\ move'.result = "DeviceNotFound" /\ move'.known = move.known
         \/ /\ move'.pc = "cycle" /\ move'.result = "none" /\ move'.known = answered
            /\ PositionUnknown(Responses(answered)) = {}
  <2> HIDE DEF limit
  <2>1. CASE PositionUnknown(Responses(answered)) # {}
    <3>1. move' = [move EXCEPT !.pc = "done", !.result = "DeviceNotFound", !.heard = <<>>]
          BY <1>3, <2>1 DEF End
    <3>2. QED  BY <3>1, NothingHeard DEF IndInv, TypeInv, Positions, Results
  <2>2. CASE PositionUnknown(Responses(answered)) = {}
    <3> DEFINE limits == [i \in Servos |-> limit(Responses(answered), i)]
    <3>1. move' = [move EXCEPT !.pc = "cycle", !.limits = limits, !.known = answered]
          BY <1>3, <1>5, <2>2
    <3>2. limits \in [Servos -> Seq(Int)] /\ answered \in SUBSET Servos
          BY <1>6
    <3> HIDE DEF limits
    <3>3. QED  BY <1>1, <2>2, <3>1, <3>2 DEF IndInv, TypeInv, Positions
  <2>3. QED  BY <2>1, <2>2
<1>8. Servos' = Servos /\ Heard' = Heard /\ ServoType' = ServoType
      BY <1>1 DEF Servos, Heard, ServoType
<1>9. TypeInv'
  <2>1. mconf \in Moves /\ servos' \in [Servos -> ServoType]
        /\ mhist' \in [lost: 0..mconf.maxLost, commanded: SUBSET Servos,
                       ended: {<<>>} \cup [Servos -> Int], completed: BOOLEAN]
        BY <1>4 DEF IndInv, TypeInv, CycleKept
  <2>2. QED  BY <1>1, <1>7, <1>8, <2>1 DEF TypeInv
<1>10. CallInv'
      BY <1>1, <1>7 DEF IndInv, CallInv
<1>11. ServoInv'
      BY <1>4 DEF CycleKept
<1>12. MoveInv'
  <2>1. /\ mhist'.lost = 0 => mhist.lost = 0
        /\ \A i \in Servos : Commanded(i) => Commanded(i)'
        BY <1>4 DEF CycleKept
  <2>2. QED  BY <1>1, <1>7, <1>8, <2>1 DEF IndInv, MoveInv
<1>13. CompleteInv' /\ TrajectoryInv'
      BY <1>1 DEF CompleteInv, TrajectoryInv
<1>14. DurationInv'
  <2>1. mhist'.commanded = mhist.commanded
        BY <1>4 DEF CycleKept
  <2>2. PositionUnknown(Responses(answered)) = {} =>
          {i \in Servos : mconf.setpoints[i] # Hold} \subseteq answered
        BY <1>5 DEF PositionUnknown
  <2>3. QED  BY <1>1, <1>7, <1>8, <2>1, <2>2 DEF IndInv, DurationInv
<1>15. QED  BY <1>9, <1>10, <1>11, <1>12, <1>13, <1>14 DEF IndInv

\* The replies of this turn over those of the turns before.
LEMMA LatestHeard ==
    ASSUME NEW new \in Heard, NEW old \in Heard
    PROVE  [i \in DOMAIN new \cup DOMAIN old |-> IF i \in DOMAIN new THEN new[i] ELSE old[i]] \in Heard
<1>1. PICK S \in SUBSET Servos : new \in [S -> ReplyType]
      BY DEF Heard
<1>2. PICK T \in SUBSET Servos : old \in [T -> ReplyType]
      BY DEF Heard
<1>3. [i \in S \cup T |-> IF i \in S THEN new[i] ELSE old[i]] \in [S \cup T -> ReplyType]
      BY <1>1, <1>2
<1>4. QED  BY <1>1, <1>2, <1>3 DEF Heard

\* The check of move_to(): it succeeds only on the answers of every servo that was
\* sent somewhere.
LEMMA MoveCheckKeeps == ASSUME IndInv, MoveCheck PROVE IndInv'
<1> DEFINE r == move.heard
           last == [i \in DOMAIN r \cup DOMAIN move.last |->
                      IF i \in DOMAIN r THEN r[i] ELSE move.last[i]]
           ended == [i \in Servos |-> servos[i].at]
           complete == \A i \in DOMAIN r : mconf.setpoints[i] # Hold => Completed(r[i])
<1>1. /\ mconf.op = "move_to" /\ move.pc = "check" /\ UNCHANGED <<mconf, servos>>
      /\ move.result = "none" /\ move.count \in 0..2
      BY DEF MoveCheck, IndInv, CallInv, TypeInv, SuccessFloor
<1>2. /\ Servos' = Servos /\ Heard' = Heard /\ ServoType' = ServoType
      /\ \A i \in Servos : Commanded(i) => Commanded(i)'
      BY <1>1 DEF Servos, Heard, ServoType, Commanded
<1>3. last \in Heard
      BY LatestHeard DEF IndInv, TypeInv
<1>4. CASE End("Fault") /\ UNCHANGED mhist
      BY <1>1, <1>4, EndKeeps
<1>5. CASE /\ move.count = 0 /\ complete
           /\ move' = [move EXCEPT !.pc = "done", !.result = "ok", !.heard = <<>>, !.last = last]
           /\ mhist' = [mhist EXCEPT !.ended = ended]
  <2> HIDE DEF last
  <2>1. /\ move' \in [pc: Positions, count: SuccessFloor..2, limits: [Servos -> Seq(Int)],
                     known: SUBSET Servos, heard: Heard, last: Heard, result: Results]
        /\ move'.pc = "done" /\ move'.count = move.count /\ move'.known = move.known
        /\ move'.result = "ok" /\ move'.heard = <<>>
        BY <1>3, <1>5, NothingHeard DEF IndInv, TypeInv, Positions, Results
  <2>2. /\ mhist' \in [lost: 0..mconf.maxLost, commanded: SUBSET Servos,
                       ended: {<<>>} \cup [Servos -> Int], completed: BOOLEAN]
        /\ mhist'.lost = mhist.lost /\ mhist'.commanded = mhist.commanded
        /\ mhist'.ended = ended
    <3>1. ended \in [Servos -> Int]
          BY DEF IndInv, TypeInv, ServoType
    <3> HIDE DEF ended
    <3>2. QED  BY <1>5, <3>1 DEF IndInv, TypeInv
  <2>3. TypeInv'
        BY <1>1, <1>2, <2>1, <2>2 DEF IndInv, TypeInv
  <2>4. CallInv'
        BY <1>1, <2>1 DEF IndInv, CallInv
  <2>5. ServoInv'
        BY <1>1, <1>2 DEF IndInv, ServoInv
  <2>6. MoveInv'
    <3>1. SUFFICES ASSUME mhist.lost = 0, mconf.dead = {}
                   PROVE  \A i \in Servos : Commanded(i)' /\ Arrived(i)'
          BY <1>1, <1>2, <2>1, <2>2 DEF MoveInv
    <3>2. TAKE i \in Servos
    <3>3. /\ Commanded(i) /\ DOMAIN r = Servos
          /\ Completed(r[i]) => Settled(i)
          BY <1>1, <1>5, <3>1 DEF IndInv, MoveInv
    <3>4. Arrived(i)'
      <4>1. mconf.setpoints[i] # Hold => Settled(i)
            BY <1>5, <3>3
      <4>2. QED  BY <1>1, <2>2, <4>1 DEF Arrived, Settled
    <3>5. QED  BY <1>2, <3>3, <3>4
  <2>7. CompleteInv' /\ TrajectoryInv'
        BY <1>1 DEF CompleteInv, TrajectoryInv
  <2>8. DurationInv'
        BY <1>1, <1>2, <2>1, <2>2 DEF IndInv, DurationInv
  <2>9. QED  BY <2>3, <2>4, <2>5, <2>6, <2>7, <2>8 DEF IndInv
<1>6. CASE /\ move' = [move EXCEPT !.pc = "sleep", !.heard = <<>>, !.last = last]
           /\ UNCHANGED mhist
  <2> HIDE DEF last
  <2>1. /\ move' \in [pc: Positions, count: SuccessFloor..2, limits: [Servos -> Seq(Int)],
                     known: SUBSET Servos, heard: Heard, last: Heard, result: Results]
        /\ move'.pc = "sleep" /\ move'.count = move.count /\ move'.known = move.known
        /\ move'.result = "none" /\ move'.heard = <<>>
        BY <1>1, <1>3, <1>6, NothingHeard DEF IndInv, TypeInv, Positions
  <2>2. TypeInv'
        BY <1>1, <1>2, <1>6, <2>1 DEF IndInv, TypeInv
  <2>3. CallInv'
        BY <1>1, <2>1 DEF IndInv, CallInv
  <2>4. ServoInv'
        BY <1>1, <1>2 DEF IndInv, ServoInv
  <2>5. MoveInv'
        BY <1>1, <1>2, <1>6, <2>1 DEF IndInv, MoveInv
  <2>6. CompleteInv' /\ TrajectoryInv'
        BY <1>1 DEF CompleteInv, TrajectoryInv
  <2>7. DurationInv'
        BY <1>1, <1>2, <1>6, <2>1 DEF IndInv, DurationInv
  <2>8. QED  BY <2>2, <2>3, <2>4, <2>5, <2>6, <2>7 DEF IndInv
<1>7. QED  BY <1>4, <1>5, <1>6 DEF MoveCheck

\* The turn of a wait: whoever answers has heard the command of its turn.
LEMMA WaitCycleKeeps == ASSUME IndInv, WaitCycle PROVE IndInv'
<1> DEFINE commands == IF mconf.op = "set_position_wait_complete" THEN "command" ELSE "query"
<1>1. /\ mconf.op # "move_to" /\ move.pc = "cycle" /\ mconf' = mconf /\ move.result = "none"
      BY DEF WaitCycle, IndInv, CallInv
<1>2. PICK heard \in SUBSET Servos : \E answered \in SUBSET heard :
        /\ Cycle(heard, answered, commands)
        /\ move' = [move EXCEPT !.pc = "check", !.heard = Responses(answered)]
      BY DEF WaitCycle
<1>3. PICK answered \in SUBSET heard :
        /\ Cycle(heard, answered, commands)
        /\ move' = [move EXCEPT !.pc = "check", !.heard = Responses(answered)]
      BY <1>2
<1>4. commands \in {"command", "query"}
      OBVIOUS
<1>5. CycleKept(heard, answered, commands)
  <2> HIDE DEF commands
  <2>1. QED  BY <1>1, <1>3, <1>4, CycleKeeps
<1>6. /\ Responses(answered) \in Heard /\ DOMAIN Responses(answered) = answered
      /\ \A i \in answered :
            /\ Responses(answered)[i].mode = servos[i].mode
            /\ Responses(answered)[i].trajectory_complete => servos[i].done
      BY RepliesTyped DEF IndInv
<1>7. /\ move' \in [pc: Positions, count: SuccessFloor..2, limits: [Servos -> Seq(Int)],
                   known: SUBSET Servos, heard: Heard, last: Heard, result: Results]
      /\ move'.pc = "check" /\ move'.count = move.count /\ move'.known = move.known
      /\ move'.result = "none" /\ move'.heard = Responses(answered)
      BY <1>1, <1>3, <1>6 DEF IndInv, TypeInv, Positions
<1>8. Servos' = Servos /\ Heard' = Heard /\ ServoType' = ServoType
      BY <1>1 DEF Servos, Heard, ServoType
<1>9. TypeInv'
  <2>1. mconf \in Moves /\ servos' \in [Servos -> ServoType]
        /\ mhist' \in [lost: 0..mconf.maxLost, commanded: SUBSET Servos,
                       ended: {<<>>} \cup [Servos -> Int], completed: BOOLEAN]
        BY <1>5 DEF IndInv, TypeInv, CycleKept
  <2>2. QED  BY <1>1, <1>7, <1>8, <2>1 DEF TypeInv
<1>10. CallInv'
      BY <1>1, <1>7 DEF IndInv, CallInv
<1>11. ServoInv'
      BY <1>5 DEF CycleKept
<1>12. MoveInv' /\ DurationInv'
      BY <1>1 DEF MoveInv, DurationInv
<1>13. CompleteInv'
  <2>1. SUFFICES ASSUME mconf.op = "set_position_wait_complete", mconf.modes[1] = "Position"
                 PROVE  /\ servos'[1].mode \in {"Position", "Fault", "Timeout"}
                        /\ move.count <= 1 \/ 1 \in answered => Commanded(1)'
                        /\ (/\ 1 \in answered /\ move.count = 1
                            /\ ~is_error(Responses(answered)[1].mode)
                            /\ Responses(answered)[1].trajectory_complete) => Settled(1)'
        BY <1>1, <1>6, <1>7 DEF CompleteInv
  <2>2. /\ servos[1].mode \in {"Position", "Fault", "Timeout"}
        /\ move.count <= 1 => Commanded(1)
        BY <2>1 DEF IndInv, CompleteInv
  <2>3. commands = "command" /\ 1 \in Servos
        BY <2>1, Configured DEF IndInv, TypeInv
  <2> HIDE DEF commands
  <2>4. /\ servos'[1].mode = servos[1].mode
        /\ Commanded(1) => Commanded(1)'
        /\ 1 \in heard => Commanded(1)'
        /\ Commanded(1) /\ servos[1].mode = "Position" /\ servos[1].done => Settled(1)'
        BY <1>5, <2>3 DEF CycleKept
  <2>5. 1 \in answered => 1 \in heard
        OBVIOUS
  <2>6. QED  BY <1>6, <2>2, <2>4, <2>5 DEF is_error
<1>14. TrajectoryInv'
  <2>1. SUFFICES ASSUME mconf.op = "wait_for_trajectory_complete", mconf.modes[1] = "Position"
                 PROVE  /\ servos'[1].next = <<>> /\ servos'[1].goal = mconf.setpoints[1]
                        /\ servos'[1].done => servos'[1].at = servos'[1].goal
                        /\ 1 \in answered /\ Responses(answered)[1].trajectory_complete
                             => servos'[1].at = servos'[1].goal
        BY <1>1, <1>6, <1>7 DEF TrajectoryInv
  <2>2. /\ servos[1].goal = mconf.setpoints[1]
        /\ servos[1].done => servos[1].at = servos[1].goal
        BY <2>1 DEF IndInv, TrajectoryInv
  <2>3. commands = "query" /\ 1 \in Servos
        BY <2>1, Configured DEF IndInv, TypeInv
  <2> HIDE DEF commands
  <2>4. /\ servos'[1].at = servos[1].at /\ servos'[1].goal = servos[1].goal
        /\ servos'[1].done = servos[1].done /\ servos'[1].next = <<>>
        BY <1>5, <2>3 DEF CycleKept
  <2>5. QED  BY <1>6, <2>2, <2>4
<1>15. QED  BY <1>9, <1>10, <1>11, <1>12, <1>13, <1>14 DEF IndInv

\* A call that has succeeded or goes on after its check, at the servos' positions
\* now; the check itself moves nothing.
LEMMA CheckedTyped ==
    ASSUME IndInv, NEW pc \in {"done", "elapsed"}, NEW count \in SuccessFloor..2,
           NEW result \in {"none", "ok"}, UNCHANGED <<mconf, servos>>,
           result # "none" <=> pc = "done", mconf.op \notin {"none", "move_to"},
           move' = [move EXCEPT !.pc = pc, !.count = count, !.heard = <<>>, !.result = result],
           \/ mhist' = [mhist EXCEPT !.ended = [i \in Servos |-> servos[i].at]]
           \/ \E b \in BOOLEAN : mhist' = [mhist EXCEPT !.completed = b]
           \/ mhist' = mhist
    PROVE  /\ TypeInv' /\ CallInv' /\ ServoInv' /\ MoveInv' /\ DurationInv'
           /\ move'.pc = pc /\ move'.count = count /\ move'.result = result /\ move'.heard = <<>>
<1>1. Servos' = Servos /\ Heard' = Heard /\ ServoType' = ServoType
      BY DEF Servos, Heard, ServoType
<1>2. /\ move' \in [pc: Positions, count: SuccessFloor..2, limits: [Servos -> Seq(Int)],
                   known: SUBSET Servos, heard: Heard, last: Heard, result: Results]
      /\ move'.pc = pc /\ move'.count = count /\ move'.result = result /\ move'.heard = <<>>
      BY NothingHeard DEF IndInv, TypeInv, Positions, Results
<1>3. mhist' \in [lost: 0..mconf.maxLost, commanded: SUBSET Servos,
                 ended: {<<>>} \cup [Servos -> Int], completed: BOOLEAN]
  <2> DEFINE ended == [i \in Servos |-> servos[i].at]
  <2>1. ended \in [Servos -> Int]
        BY DEF IndInv, TypeInv, ServoType
  <2>2. \/ mhist' = [mhist EXCEPT !.ended = ended]
        \/ \E b \in BOOLEAN : mhist' = [mhist EXCEPT !.completed = b]
        \/ mhist' = mhist
        OBVIOUS
  <2> HIDE DEF ended
  <2>3. QED  BY <2>1, <2>2 DEF IndInv, TypeInv
<1>4. TypeInv'
      BY <1>1, <1>2, <1>3 DEF IndInv, TypeInv
<1>5. CallInv'
      BY <1>2 DEF CallInv
<1>6. ServoInv'
      BY <1>1 DEF IndInv, ServoInv
<1>7. MoveInv' /\ DurationInv'
      BY DEF MoveInv, DurationInv
<1>8. QED  BY <1>2, <1>4, <1>5, <1>6, <1>7

\* A check of set_position_wait_complete() believes the reply that counts the
\* counter down to 0, which is not the first; one without a reply changes
\* nothing.
LEMMA WaitCompleteKeeps == ASSUME IndInv, WaitCompleteCheck PROVE IndInv'
<1> DEFINE count == CountReply(move.count)
           r == move.heard[1]
           ended == [i \in Servos |-> servos[i].at]
<1>1. /\ mconf.op = "set_position_wait_complete" /\ move.pc = "check"
      /\ UNCHANGED <<mconf, servos>> /\ move.result = "none"
      /\ mconf.op \notin {"none", "move_to"} /\ Servos = {1} /\ mconf \in Moves
      BY Configured DEF WaitCompleteCheck, IndInv, TypeInv, CallInv
<1>2. /\ count \in SuccessFloor..2 /\ (count = 0 => move.count = 1)
      BY DEF CountReply, SuccessFloor, IndInv, TypeInv
<1>3. TrajectoryInv'
      BY <1>1 DEF TrajectoryInv
<1>4. /\ Commanded(1) => Commanded(1)'
      /\ Settled(1) => Settled(1)'
      BY <1>1 DEF Commanded, Settled
<1>5. CASE 1 \notin DOMAIN move.heard
  <2>1. move.heard = <<>>
    <3>1. PICK S \in SUBSET Servos : move.heard \in [S -> ReplyType]
          BY DEF IndInv, TypeInv, Heard
    <3>2. S = {}
          BY <1>1, <1>5, <3>1
    <3>3. QED  BY <3>1, <3>2
  <2>2. move' = [move EXCEPT !.pc = "elapsed"] /\ mhist' = mhist
        BY <1>5 DEF WaitCompleteCheck
  <2>3. move' = [move EXCEPT !.pc = "elapsed", !.count = move.count, !.heard = <<>>, !.result = "none"]
        BY <1>1, <2>1, <2>2 DEF IndInv, TypeInv
  <2>4. move.count \in SuccessFloor..2
        BY DEF IndInv, TypeInv
  <2>5. /\ TypeInv' /\ CallInv' /\ ServoInv' /\ MoveInv' /\ DurationInv'
        /\ move'.pc = "elapsed" /\ move'.count = move.count /\ move'.result = "none"
        BY <1>1, <2>2, <2>3, <2>4, CheckedTyped
  <2>6. CompleteInv'
        BY <1>1, <1>4, <2>5 DEF IndInv, CompleteInv
  <2>7. QED  BY <1>3, <2>5, <2>6 DEF IndInv
<1>6. CASE 1 \in DOMAIN move.heard /\ is_error(r.mode)
  <2>1. End("Fault") /\ UNCHANGED mhist
        BY <1>6 DEF WaitCompleteCheck
  <2>2. QED  BY <1>1, <2>1, EndKeeps
<1>7. CASE 1 \in DOMAIN move.heard /\ ~is_error(r.mode) /\ Done(count, r)
  <2>1. /\ move' = [move EXCEPT !.pc = "done", !.result = "ok", !.heard = <<>>]
        /\ mhist' = [mhist EXCEPT !.ended = ended]
        BY <1>7 DEF WaitCompleteCheck, End
  <2>2. move' = [move EXCEPT !.pc = "done", !.count = move.count, !.heard = <<>>, !.result = "ok"]
        BY <2>1 DEF IndInv, TypeInv
  <2>3. move.count \in SuccessFloor..2
        BY DEF IndInv, TypeInv
  <2>4. /\ TypeInv' /\ CallInv' /\ ServoInv' /\ MoveInv' /\ DurationInv'
        /\ move'.pc = "done" /\ move'.count = move.count /\ move'.result = "ok"
        BY <1>1, <2>1, <2>2, <2>3, CheckedTyped
  <2>5. CompleteInv'
    <3>1. SUFFICES ASSUME mconf.modes[1] = "Position"
                   PROVE  /\ servos[1].mode \in {"Position", "Fault", "Timeout"}
                          /\ Commanded(1)' /\ Arrived(1)'
          BY <1>1, <2>4 DEF CompleteInv
    <3>2. /\ servos[1].mode \in {"Position", "Fault", "Timeout"} /\ Commanded(1) /\ Settled(1)
          BY <1>1, <1>2, <1>7, <3>1 DEF IndInv, CompleteInv, Done
    <3>3. mhist'.ended[1] = servos[1].at
          BY <1>1, <2>1 DEF IndInv, TypeInv
    <3>4. QED  BY <1>1, <1>4, <3>2, <3>3 DEF Arrived, Settled
  <2>6. QED  BY <1>3, <2>4, <2>5 DEF IndInv
<1>8. CASE 1 \in DOMAIN move.heard /\ ~is_error(r.mode) /\ ~Done(count, r)
  <2> DEFINE completed == mhist.completed \/ (count <= 0 /\ Completed(r))
  <2>1. /\ move' = [move EXCEPT !.pc = "elapsed", !.count = count, !.heard = <<>>]
        /\ mhist' = [mhist EXCEPT !.completed = completed]
        BY <1>8 DEF WaitCompleteCheck
  <2>2. completed \in BOOLEAN
        OBVIOUS
  <2> HIDE DEF completed, count
  <2>3. move' = [move EXCEPT !.pc = "elapsed", !.count = count, !.heard = <<>>, !.result = "none"]
        BY <1>1, <2>1 DEF IndInv, TypeInv
  <2>4. /\ TypeInv' /\ CallInv' /\ ServoInv' /\ MoveInv' /\ DurationInv'
        /\ move'.pc = "elapsed" /\ move'.count = count /\ move'.result = "none"
        BY <1>1, <1>2, <2>1, <2>2, <2>3, CheckedTyped
  <2>5. CompleteInv'
        BY <1>1, <1>4, <1>8, <2>4 DEF IndInv, CompleteInv
  <2>6. QED  BY <1>3, <2>4, <2>5 DEF IndInv
<1>9. QED  BY <1>5, <1>6, <1>7, <1>8

\* A check of wait_for_trajectory_complete() ends the wait when the servo is at its
\* end, and fails without a reply.
LEMMA WaitTrajectoryKeeps == ASSUME IndInv, WaitTrajectoryCheck PROVE IndInv'
<1> DEFINE ended == [i \in Servos |-> servos[i].at]
<1>1. /\ mconf.op = "wait_for_trajectory_complete" /\ move.pc = "check"
      /\ UNCHANGED <<mconf, servos>> /\ move.result = "none"
      /\ mconf.op \notin {"none", "move_to"} /\ Servos = {1} /\ mconf \in Moves
      BY Configured DEF WaitTrajectoryCheck, IndInv, TypeInv, CallInv
<1>2. CompleteInv'
      BY <1>1 DEF CompleteInv
<1>3. move.count \in SuccessFloor..2
      BY DEF IndInv, TypeInv
<1>4. CASE End("NoResponse") /\ UNCHANGED mhist
      BY <1>1, <1>4, EndKeeps
<1>5. CASE /\ 1 \in DOMAIN move.heard /\ move.heard[1].trajectory_complete
           /\ End("ok") /\ mhist' = [mhist EXCEPT !.ended = ended]
  <2>1. move' = [move EXCEPT !.pc = "done", !.count = move.count, !.heard = <<>>, !.result = "ok"]
        BY <1>5 DEF End, IndInv, TypeInv
  <2>2. /\ TypeInv' /\ CallInv' /\ ServoInv' /\ MoveInv' /\ DurationInv'
        /\ move'.pc = "done" /\ move'.result = "ok"
        BY <1>1, <1>3, <1>5, <2>1, CheckedTyped
  <2>3. mhist'.ended[1] = servos[1].at
        BY <1>1, <1>5 DEF IndInv, TypeInv
  <2>4. TrajectoryInv'
        BY <1>1, <1>5, <2>2, <2>3 DEF IndInv, TrajectoryInv, Arrived
  <2>5. QED  BY <1>2, <2>2, <2>4 DEF IndInv
<1>6. CASE move' = [move EXCEPT !.pc = "elapsed", !.heard = <<>>] /\ UNCHANGED mhist
  <2>1. move' = [move EXCEPT !.pc = "elapsed", !.count = move.count, !.heard = <<>>, !.result = "none"]
        BY <1>1, <1>6 DEF IndInv, TypeInv
  <2>2. /\ TypeInv' /\ CallInv' /\ ServoInv' /\ MoveInv' /\ DurationInv'
        /\ move'.pc = "elapsed" /\ move'.result = "none"
        BY <1>1, <1>3, <1>6, <2>1, CheckedTyped
  <2>3. TrajectoryInv'
        BY <1>1, <2>2 DEF IndInv, TrajectoryInv
  <2>4. QED  BY <1>2, <2>2, <2>3 DEF IndInv
<1>7. QED  BY <1>4, <1>5, <1>6 DEF WaitTrajectoryCheck

-----------------------------------------------------------------------------
(* The results                                                             *)

\* Every step of the call, of the network and of a servo keeps the invariant.
LEMMA MoveNextIndInv == IndInv /\ [MoveNext]_moveVars => IndInv'
<1> SUFFICES ASSUME IndInv, [MoveNext]_moveVars PROVE IndInv'
    OBVIOUS
<1>1. CASE HostStep
      BY <1>1, StartKeeps, LimitsKeep, MoveCycleKeeps, MoveCheckKeeps, SleepKeeps,
         WaitCycleKeeps, WaitCompleteKeeps, WaitTrajectoryKeeps DEF HostStep
<1>2. CASE MoveTimeout \/ WaitTimeout \/ DropMove \/ CycleFails
      BY <1>2, EndKeeps DEF MoveTimeout, WaitTimeout, DropMove, CycleFails
<1>3. CASE \E i \in Servos : ServoStep(i) \/ FaultOccurs(i) \/ Watchdog(i)
      BY <1>3, ApplyKeeps, ServoStepKeeps DEF ServoStep
<1>4. CASE UNCHANGED moveVars
  <2>1. /\ UNCHANGED <<mconf, move, servos, mhist>>
        /\ Servos' = Servos /\ Heard' = Heard /\ ServoType' = ServoType
        BY <1>4 DEF moveVars, Servos, Heard, ServoType
  <2>2. \A i \in Servos :
          /\ Commanded(i)' <=> Commanded(i)
          /\ Settled(i)' <=> Settled(i)
          /\ Arrived(i)' <=> Arrived(i)
        BY <2>1 DEF Commanded, Settled, Arrived
  <2>3. TypeInv' /\ CallInv' /\ ServoInv'
        BY <2>1 DEF IndInv, TypeInv, CallInv, ServoInv
  <2>4. MoveInv'
        BY <2>1, <2>2 DEF IndInv, MoveInv
  <2>5. /\ mconf.op = "set_position_wait_complete" => 1 \in Servos
        /\ mconf.op = "wait_for_trajectory_complete" => 1 \in Servos
        BY Configured DEF IndInv, TypeInv
  <2>6. CompleteInv' /\ TrajectoryInv'
        BY <2>1, <2>2, <2>5 DEF IndInv, CompleteInv, TrajectoryInv
  <2>7. DurationInv'
        BY <2>1 DEF IndInv, DurationInv
  <2>8. QED  BY <2>3, <2>4, <2>6, <2>7 DEF IndInv
<1>5. QED  BY <1>1, <1>2, <1>3, <1>4 DEF MoveNext

\* What the properties need of the invariant.
LEMMA IndInvImplies == IndInv => MoveTypeOK /\ OkMeansArrived /\ NotFoundBeforeCommand
<1> SUFFICES ASSUME IndInv PROVE MoveTypeOK /\ OkMeansArrived /\ NotFoundBeforeCommand
    OBVIOUS
<1>1. MoveTypeOK
  <2>1. DOMAIN move.heard \subseteq Servos
    <3>1. PICK S \in SUBSET Servos : move.heard \in [S -> ReplyType]
          BY DEF IndInv, TypeInv, Heard
    <3>2. QED  BY <3>1
  <2>2. move.count \in (IF mconf.op = "move_to" THEN 0 ELSE SuccessFloor)..2
        BY DEF IndInv, TypeInv, CallInv, SuccessFloor
  <2>3. /\ move.pc \in {"idle", "query", "cycle", "check", "sleep", "elapsed", "done"}
        /\ move.result \in Results /\ (move.result # "none" <=> move.pc = "done")
        /\ move.heard # <<>> => move.pc \in {"check", "elapsed"}
        /\ mhist.lost \in 0..mconf.maxLost
        BY DEF IndInv, TypeInv, CallInv, Positions
  <2>4. \A i \in Servos :
          /\ servos[i].mode \in {"Stopped", "Calibrating", "Position", "Fault", "Timeout"}
          /\ Len(servos[i].next) <= 1 /\ servos[i].missed \in 0..mconf.watchdog
        BY DEF IndInv, TypeInv, ServoInv, ServoType, Modes
  <2>5. QED  BY <2>1, <2>2, <2>3, <2>4 DEF MoveTypeOK
<1>2. OkMeansArrived
  <2>1. SUFFICES ASSUME move.result = "ok"
                 PROVE  IF mconf.op = "move_to"
                        THEN mhist.lost = 0 /\ mconf.dead = {} => \A i \in Servos : Arrived(i)
                        ELSE mconf.modes[1] = "Position" => Arrived(1)
        BY DEF OkMeansArrived
  <2>2. mconf.op \in {"move_to", "set_position_wait_complete", "wait_for_trajectory_complete"}
        BY <2>1, Configured DEF IndInv, TypeInv, CallInv
  <2>3. CASE mconf.op = "move_to"
        BY <2>1, <2>3 DEF IndInv, MoveInv
  <2>4. CASE mconf.op = "set_position_wait_complete"
        BY <2>1, <2>4 DEF IndInv, CompleteInv
  <2>5. CASE mconf.op = "wait_for_trajectory_complete"
        BY <2>1, <2>5 DEF IndInv, TrajectoryInv
  <2>6. QED  BY <2>2, <2>3, <2>4, <2>5
<1>3. NotFoundBeforeCommand
      BY DEF IndInv, DurationInv, NotFoundBeforeCommand
<1>4. QED  BY <1>1, <1>2, <1>3

\* The call is always at an await with a counter it can have, for every number
\* of servos (MoveTo::execute, set_position_wait_complete).
THEOREM MoveTypeCorrect == MoveSpec => []MoveTypeOK
<1>1. MoveSpec => []IndInv
      BY MoveInitIndInv, MoveNextIndInv, PTL DEF MoveSpec
<1>2. QED  BY <1>1, IndInvImplies, PTL

\* Success means that the servos are where they were sent, over every loss,
\* fault and interleaving (success_count and trajectory_complete in move_to(),
\* set_position_wait_complete() and wait_for_trajectory_complete()).
THEOREM SuccessArrived == MoveSpec => []OkMeansArrived
<1>1. MoveSpec => []IndInv
      BY MoveInitIndInv, MoveNextIndInv, PTL DEF MoveSpec
<1>2. QED  BY <1>1, IndInvImplies, PTL

\* With a duration no servo is commanded before all of them have told their
\* position (compute_velocity_limits).
THEOREM KnownBeforeCommanded == MoveSpec => []NotFoundBeforeCommand
<1>1. MoveSpec => []IndInv
      BY MoveInitIndInv, MoveNextIndInv, PTL DEF MoveSpec
<1>2. QED  BY <1>1, IndInvImplies, PTL
=============================================================================
