-------------------------- MODULE DiagnosticStream --------------------------
(***************************************************************************)
(* The diagnostic stream of the Rust library: DiagnosticStream and         *)
(* AsyncDiagnosticStream (lib/rust/moteus/src/diagnostic.rs), and the      *)
(* frames they exchange (lib/rust/moteus-protocol/src/diagnostic.rs).      *)
(*                                                                         *)
(* Text commands are written to a controller in frames without a reply;    *)
(* what it prints is polled for.  A flow poll acknowledges the last packet *)
(* received, so that the device repeats a packet that was lost; the first  *)
(* read finds out whether the device knows flow polls.  The link loses     *)
(* frames, and answers may come after the deadline that awaits them.       *)
(***************************************************************************)
EXTENDS Integers, Sequences, FiniteSets, SequencesExt

CONSTANT StreamScenarios   \* the devices, links and applications to check

\* A byte the device prints: the command it answers and its place in the
\* answer.  What it is, is in StreamText: data, the first letters of an OK or
\* ERR line, or the end of a line.
StreamText == <<"data", "end", "end", "OK", "end">>
ErrorText == <<"ERR", "end">>

\* A scenario: flow is use_flow_control as the application set it, supported
\* whether the device knows flow polls; max stands for MAX_DIAGNOSTIC_READ,
\* wrap for the 256 packet numbers, chunks for the frames a message fills.  old
\* is TRUE when an earlier stream left a packet unacknowledged, restarts when the device
\* may restart.
ASSUME StreamAssumption ==
    \A s \in StreamScenarios :
        /\ s.flow \in {"probe", "flow", "plain"} /\ s.supported \in BOOLEAN /\ s.old \in BOOLEAN
        /\ s.restarts \in BOOLEAN
        /\ s.late \in BOOLEAN /\ s.ops \subseteq {"command", "oneline", "flush"}
        /\ s.max \in Nat \ {0} /\ s.wrap \in Nat \ {0, 1} /\ s.chunks \in Nat \ {0}
        /\ s.retries \in Nat /\ s.maxOps \in Nat /\ s.maxFaults \in Nat

VARIABLES
    sconf,    \* the scenario
    stream,   \* the stream object and the operation it runs
    tunnel,   \* the device's end
    polls,    \* frames to the device
    replies,  \* frames to the host
    shist     \* history: bytes printed and delivered, faults

streamVars == <<sconf, stream, tunnel, polls, replies, shist>>

-----------------------------------------------------------------------------
(* The device, as the frames of moteus-protocol/src/diagnostic.rs use it   *)

\* What a complete message prints: chunks that were lost make it nonsense.
Printed(m, intact) ==
    [k \in 1..Len(IF intact THEN StreamText ELSE ErrorText) |->
        [cmd |-> m, text |-> IF intact THEN StreamText[k] ELSE ErrorText[k], at |-> k]]

\* CLIENT_TO_SERVER
TakeChunk(f) ==
    /\ LET whole == Append(tunnel.chunks, <<f.cmd, f.chunk>>)
           intact == whole = [k \in 1..sconf.chunks |-> <<f.cmd, k>>]
       IN IF f.chunk < sconf.chunks
          THEN tunnel' = [tunnel EXCEPT !.chunks = whole]
          ELSE tunnel' = [tunnel EXCEPT !.chunks = <<>>, !.todo = Append(@, Printed(f.cmd, intact))]
    /\ UNCHANGED replies

\* The device runs a command some time after it has received it.
RunCommand ==
    /\ tunnel.todo # <<>>
    /\ tunnel' = [tunnel EXCEPT !.todo = Tail(@), !.out = @ \o Head(tunnel.todo)]
    /\ shist' = [shist EXCEPT !.printed = @ \o Head(tunnel.todo)]
    /\ UNCHANGED <<sconf, stream, polls, replies>>

First(s, n) == SubSeq(s, 1, IF Len(s) < n THEN Len(s) ELSE n)
Rest(s, n) == SubSeq(s, n + 1, Len(s))

\* CLIENT_POLL_SERVER
AnswerPoll ==
    /\ replies' = Append(replies, [kind |-> "plain", number |-> 0,
                                   data |-> First(tunnel.out, sconf.max)])
    /\ tunnel' = [tunnel EXCEPT !.out = Rest(@, sconf.max)]

\* CLIENT_POLL_SERVER_FLOW: the current packet again until it is acknowledged,
\* then the next one, however little there is to send.
AnswerFlowPoll(f) ==
    LET next == [number |-> (tunnel.number + 1) % sconf.wrap, data |-> First(tunnel.out, sconf.max)]
        acknowledged == f.ack = tunnel.number
        packet == IF acknowledged THEN next ELSE [number |-> tunnel.number, data |-> tunnel.packet]
    IN /\ tunnel' = IF acknowledged
                    THEN [tunnel EXCEPT !.number = next.number, !.packet = next.data,
                                        !.out = Rest(@, sconf.max)]
                    ELSE tunnel
       /\ replies' = Append(replies, [kind |-> "flow", number |-> packet.number, data |-> packet.data])

ServePoll ==
    /\ polls # <<>>
    /\ LET f == Head(polls) IN
       CASE f.kind = "write" -> TakeChunk(f)
         [] f.kind = "plain" -> AnswerPoll
         [] f.kind = "flow" /\ sconf.supported -> AnswerFlowPoll(f)
         [] OTHER -> UNCHANGED <<tunnel, replies>>
    /\ polls' = Tail(polls)
    /\ UNCHANGED <<sconf, stream, shist>>

-----------------------------------------------------------------------------
(* Reading                                                                 *)

EndsLine(b) == b.text = "end"
Lines(buffer) == {k \in DOMAIN buffer : EndsLine(buffer[k])}

\* write() and write_message(): the message in frames of MAX_DIAGNOSTIC_WRITE
\* bytes, none of which has a reply.
write_message(m) == [k \in 1..sconf.chunks |-> [kind |-> "write", cmd |-> m, chunk |-> k]]

\* command(), command_oneline()
StartCommand ==
    /\ stream.pc = "idle" /\ stream.n < sconf.maxOps
    /\ \E op \in sconf.ops \cap {"command", "oneline"} :
          stream' = [stream EXCEPT !.pc = "line", !.op = op, !.n = @ + 1, !.lines = <<>>,
                                   !.result = "none"]
    /\ polls' = polls \o write_message(stream.n + 1)
    /\ UNCHANGED <<sconf, tunnel, replies, shist>>

\* flush_read(): plain reads, whatever the mode, for 200 ms.
StartFlush ==
    /\ stream.pc = "idle" /\ stream.n < sconf.maxOps /\ "flush" \in sconf.ops
    /\ stream' = [stream EXCEPT !.pc = "poll", !.op = "flush", !.n = @ + 1, !.buffer = <<>>,
                                !.result = "none"]
    /\ UNCHANGED <<sconf, tunnel, polls, replies, shist>>

\* readline() takes a line from the buffer; read_until_ok() reads lines until
\* OK or ERR.  Empty lines are skipped.
TakeLine ==
    /\ stream.pc = "line" /\ Lines(stream.buffer) # {}
    /\ LET pos == CHOOSE k \in Lines(stream.buffer) : \A j \in Lines(stream.buffer) : k <= j
           line == SubSeq(stream.buffer, 1, pos - 1)
           s == [stream EXCEPT !.buffer = Rest(@, pos)]
       IN stream' = IF line = <<>> THEN s
                    ELSE IF stream.op = "oneline"
                    THEN [s EXCEPT !.pc = "idle", !.result = "ok", !.lines = <<line>>]
                    ELSE IF line[1].text = "OK" THEN [s EXCEPT !.pc = "idle", !.result = "ok"]
                    ELSE IF line[1].text = "ERR" THEN [s EXCEPT !.pc = "idle", !.result = "err"]
                    ELSE [s EXCEPT !.lines = Append(@, line)]
    /\ UNCHANGED <<sconf, tunnel, polls, replies, shist>>

\* The buffer holds no whole line: read().
NeedData ==
    /\ stream.pc = "line" /\ Lines(stream.buffer) = {}
    /\ stream' = [stream EXCEPT !.pc = "poll", !.attempt = 0]
    /\ UNCHANGED <<sconf, tunnel, polls, replies, shist>>

\* How this read polls: flush_read() is always plain.
Mode == IF stream.op = "flush" THEN "plain" ELSE stream.mode

\* read_plain, read_flow and probe_flow_control send their poll.
Poll ==
    /\ stream.pc = "poll"
    /\ polls' = Append(polls,
           CASE Mode = "plain" -> [kind |-> "plain"]
             [] Mode = "flow" -> [kind |-> "flow", ack |-> stream.ack]
             [] Mode = "probe" -> [kind |-> "flow", ack |-> 0])
    /\ stream' = [stream EXCEPT !.pc = "wait"]
    /\ UNCHANGED <<sconf, tunnel, replies, shist>>

\* plain_reply_filter, flow_reply_filter and probe_reply_filter
Accepted(reply) == Mode = "probe" \/ reply.kind = Mode

\* Mutant: a repeated packet is not recognised.
EveryPacket(s, reply) ==
    [data |-> reply.data, s |-> [s EXCEPT !.ack = reply.number, !.seen = TRUE]]

\* Mutant: an empty packet is not acknowledged.
NonEmptyPacket(s, reply) ==
    [data |-> IF s.seen /\ reply.number = s.ack THEN <<>> ELSE reply.data,
     s |-> IF reply.data = <<>> THEN s ELSE [s EXCEPT !.ack = reply.number, !.seen = TRUE]]

accept_flow_packet(s, reply) ==
    [data |-> IF s.seen /\ reply.number = s.ack THEN <<>> ELSE reply.data,
     s |-> [s EXCEPT !.ack = reply.number, !.seen = TRUE]]

\* What read() returns goes to the buffer of readline().
Buffered(s, data) == [s EXCEPT !.buffer = @ \o data, !.pc = "line"]

\* A reply the filter accepts.  A plain reply to a probe is stale: its data is
\* used, but the mode stays open.
Received(reply) ==
    IF reply.kind = "flow"
    THEN LET a == accept_flow_packet(stream, reply)
         IN /\ stream' = Buffered([a.s EXCEPT !.mode = "flow"], a.data)
            /\ shist' = [shist EXCEPT !.delivered = @ \o a.data]
    ELSE IF stream.op = "flush"
    THEN stream' = [stream EXCEPT !.pc = "poll"] /\ UNCHANGED shist
    ELSE /\ stream' = Buffered(stream, reply.data)
         /\ shist' = [shist EXCEPT !.delivered = @ \o reply.data]

\* Mutant: one retry too many.
EagerUnanswered ==
    CASE Mode = "plain" -> [stream EXCEPT !.pc = IF stream.op = "flush" THEN "poll" ELSE "line"]
      [] Mode = "probe" -> [stream EXCEPT !.pc = "line", !.mode = "plain"]
      [] Mode = "flow" /\ stream.attempt <= sconf.retries ->
            [stream EXCEPT !.pc = "poll", !.attempt = @ + 1]
      [] OTHER -> [stream EXCEPT !.pc = "idle", !.result = "timeout"]

\* No reply the filter accepts: a plain read returns nothing, a flow read is
\* repeated, a probe concludes that the device does not know flow polls.
Unanswered ==
    CASE Mode = "plain" -> [stream EXCEPT !.pc = IF stream.op = "flush" THEN "poll" ELSE "line"]
      [] Mode = "probe" -> [stream EXCEPT !.pc = "line", !.mode = "plain"]
      [] Mode = "flow" /\ stream.attempt < sconf.retries ->
            [stream EXCEPT !.pc = "poll", !.attempt = @ + 1]
      [] OTHER -> [stream EXCEPT !.pc = "idle", !.result = "timeout", !.abandoned = TRUE]

\* The transaction took one frame, whether or not it passes the filter.
TakeReply ==
    /\ stream.pc = "wait" /\ replies # <<>>
    /\ replies' = Tail(replies)
    /\ IF Accepted(Head(replies)) THEN Received(Head(replies))
       ELSE stream' = Unanswered /\ UNCHANGED shist
    /\ UNCHANGED <<sconf, tunnel, polls>>

\* The deadline passes: what was awaited is lost, or late.
PollTimeout ==
    /\ stream.pc = "wait" /\ replies = <<>>
    /\ polls = <<>> \/ (sconf.late /\ shist.faults < sconf.maxFaults)
    /\ stream' = Unanswered
    /\ shist' = [shist EXCEPT !.faults = IF polls = <<>> THEN @ ELSE @ + 1]
    /\ UNCHANGED <<sconf, tunnel, polls, replies>>

\* The 200 ms of flush_read() have passed.
FlushEnd ==
    /\ stream.pc = "poll" /\ stream.op = "flush"
    /\ stream' = [stream EXCEPT !.pc = "idle", !.buffer = <<>>, !.result = "ok"]
    /\ UNCHANGED <<sconf, tunnel, polls, replies, shist>>

-----------------------------------------------------------------------------
(* The link                                                                *)

\* Losing a packet that would be repeated loses no bytes.
LoseFrame ==
    /\ shist.faults < sconf.maxFaults
    /\ \/ /\ polls # <<>> /\ polls' = Tail(polls)
          /\ shist' = [shist EXCEPT !.faults = @ + 1,
                                    !.lost = @ \/ Head(polls).kind = "write"]
          /\ UNCHANGED replies
       \/ /\ replies # <<>> /\ replies' = Tail(replies)
          /\ shist' = [shist EXCEPT !.faults = @ + 1,
                                    !.lost = @ \/ sconf.flow # "flow"]
          /\ UNCHANGED polls
    /\ UNCHANGED <<sconf, stream, tunnel>>

\* The device restarts: what it had printed and not sent is gone.
Restart ==
    /\ sconf.restarts /\ shist.faults < sconf.maxFaults
    /\ tunnel' = [chunks |-> <<>>, todo |-> <<>>, out |-> <<>>, number |-> 0, packet |-> <<>>]
    /\ shist' = [shist EXCEPT !.faults = @ + 1, !.lost = TRUE]
    /\ UNCHANGED <<sconf, stream, polls, replies>>

-----------------------------------------------------------------------------
(* Specification                                                           *)

Old == <<[cmd |-> 0, text |-> "data", at |-> 1]>>

\* With `old' the device still holds a packet of an earlier session, with a
\* number other than 0: the first poll acknowledges 0, so that one is lost.
StreamInit ==
    /\ sconf \in StreamScenarios
    /\ stream = [pc |-> "idle", op |-> "none", n |-> 0, mode |-> sconf.flow, ack |-> 0,
                 seen |-> FALSE, buffer |-> <<>>, attempt |-> 0, lines |-> <<>>,
                 abandoned |-> FALSE, result |-> "none"]
    /\ tunnel = [chunks |-> <<>>, todo |-> <<>>, out |-> <<>>, number |-> IF sconf.old THEN 1 ELSE 0,
                 packet |-> IF sconf.old THEN Old ELSE <<>>]
    /\ polls = <<>> /\ replies = <<>>
    /\ shist = [printed |-> tunnel.packet, delivered |-> <<>>, faults |-> 0, lost |-> FALSE]

StreamStep == TakeLine \/ NeedData \/ Poll \/ TakeReply \/ PollTimeout

StreamNext ==
    StartCommand \/ StartFlush \/ FlushEnd \/ StreamStep \/ ServePoll \/ RunCommand \/ LoseFrame \/ Restart

\* The loops of the library go on, the 200 ms pass and the device answers.
StreamFairness ==
    /\ WF_streamVars(StreamStep) /\ WF_streamVars(ServePoll)
    /\ WF_streamVars(RunCommand) /\ SF_streamVars(FlushEnd)

StreamSpec == StreamInit /\ [][StreamNext]_streamVars /\ StreamFairness

-----------------------------------------------------------------------------
(* Properties                                                              *)

Bytes == [cmd: 0..sconf.maxOps, text: Range(StreamText) \cup Range(ErrorText), at: 1..Len(StreamText)]
Packets == UNION {[1..k -> Bytes] : k \in 0..sconf.max}

\* The state has its form; in particular no frame carries more than it can hold,
\* and the packet last seen is one the device can number.
StreamTypeOK ==
    /\ stream.pc \in {"idle", "line", "poll", "wait"} /\ stream.mode \in {"probe", "flow", "plain"}
    /\ stream.result \in {"none", "ok", "err", "timeout"} /\ stream.n \in 0..sconf.maxOps
    /\ stream.attempt \in 0..sconf.retries /\ stream.ack \in 0..(sconf.wrap - 1)
    /\ \A k \in DOMAIN stream.buffer : stream.buffer[k] \in Bytes
    /\ tunnel.number \in 0..(sconf.wrap - 1) /\ tunnel.packet \in Packets
    /\ Len(tunnel.chunks) <= 2 * sconf.maxOps * sconf.chunks
    /\ \A k \in DOMAIN replies : replies[k].kind \in {"plain", "flow"} /\ replies[k].data \in Packets
    /\ shist.faults \in 0..sconf.maxFaults /\ shist.lost \in BOOLEAN

\* With flow control and no plain reads in between, what read() returns is what
\* the device printed, each byte once and in order, whatever is lost or late, what
\* an earlier session left in a packet not numbered 0 included.
\* A stream that is not so configured is mapped to an idle one.
Reliable == sconf.flow = "flow" /\ sconf.supported /\ "flush" \notin sconf.ops /\ ~sconf.restarts
Abstract == INSTANCE ByteStream WITH
    Byte <- [cmd: Nat, text: Range(StreamText) \cup Range(ErrorText), at: Nat],
    sent <- IF Reliable THEN shist.printed ELSE <<>>,
    delivered <- IF Reliable THEN shist.delivered ELSE <<>>
DeliversReliably == Abstract!Spec

\* The lines a command returns are the lines it made the device print, when
\* every earlier command took the whole of its reply: with flow control whatever
\* is late or repeated, otherwise when no answer is late.  (A late answer to the
\* probe is dropped by the plain reads that follow it.)  A stream that finds a
\* packet of an earlier session is left out: its first command reads that first.
CommandGetsItsReply ==
    (/\ stream.op = "command" /\ stream.result = "ok" /\ ~stream.abandoned
     /\ ~sconf.old /\ "oneline" \notin sconf.ops
     /\ ~shist.lost /\ (shist.faults = 0 \/ Reliable))
    => stream.lines = <<<<[cmd |-> stream.n, text |-> "data", at |-> 1]>>>>

\* A command or a flush ends, unless bytes were lost that nobody repeats: its
\* own message, or what a plain poll had taken from the device.
StreamOperationEnds == stream.pc # "idle" ~> (stream.pc = "idle" \/ shist.lost)
=============================================================================
