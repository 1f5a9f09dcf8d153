----------------------- MODULE DiagnosticStream_proofs -----------------------
(***************************************************************************)
(* The stream, for every size of packets, every number of packet numbers   *)
(* and every loss and delay: with flow control it implements ByteStream,   *)
(* its state keeps its form, and a command returns its own answer.         *)
(*                                                                         *)
(* The invariant of the first is that of stop and wait over links that     *)
(* keep their order.  Either the host has accepted the device's packet, or *)
(* the device is one packet ahead (Ahead) and no acknowledgement of that   *)
(* packet is under way.                                                    *)
(*                                                                         *)
(* That of the last follows a message from the frames that carry it to the *)
(* lines read (AnswerInv): what was delivered is a prefix of what was      *)
(* printed, by the first or, in plain mode, because host and device take   *)
(* turns (Turns).                                                          *)
(***************************************************************************)
EXTENDS DiagnosticStream, Induction, SequenceTheorems, TLAPS

Char == [cmd: Nat, text: Range(StreamText) \cup Range(ErrorText), at: Nat]
Message == Seq(Char) \ {<<>>}
PollFrame == [kind: {"write"}, cmd: Nat, chunk: Nat] \cup [kind: {"flow"}, ack: Nat]
ReplyFrame == [kind: {"flow"}, number: Nat, data: Seq(Char)]

StreamFields ==
    {"pc", "op", "n", "mode", "ack", "seen", "buffer", "attempt", "lines", "abandoned", "result"}
TunnelFields == {"chunks", "todo", "out", "number", "packet"}
HistoryFields == {"printed", "delivered", "faults", "lost"}

\* What the proof needs of the form of the state.
FormInv ==
    /\ sconf \in StreamScenarios
    /\ DOMAIN stream = StreamFields /\ DOMAIN tunnel = TunnelFields /\ DOMAIN shist = HistoryFields
    /\ stream.mode = "flow" /\ stream.op # "flush" /\ stream.n \in Nat
    /\ stream.ack \in 0..(sconf.wrap - 1) /\ stream.seen \in BOOLEAN
    /\ tunnel.todo \in Seq(Message) /\ tunnel.out \in Seq(Char) /\ tunnel.packet \in Seq(Char)
    /\ shist.printed \in Seq(Char) /\ shist.delivered \in Seq(Char)
    /\ polls \in Seq(PollFrame) /\ replies \in Seq(ReplyFrame)

\* The device has a packet that the host has not accepted.
Ahead == tunnel.number # stream.ack
Pending == IF Ahead THEN tunnel.packet ELSE <<>>

NumberInv ==
    /\ tunnel.number \in {stream.ack, (stream.ack + 1) % sconf.wrap}
    /\ ~Ahead /\ ~stream.seen => tunnel.packet = <<>>

\* Acknowledgements of the packet before come before those of the last.
PollsInv ==
    \A k \in 1..Len(polls) : polls[k].kind = "flow" =>
        /\ Ahead => polls[k].ack = stream.ack
        /\ polls[k].ack = stream.ack =>
              \A j \in k..Len(polls) : polls[j].kind = "flow" => polls[j].ack = stream.ack

\* Repetitions of the packet that the host has come before the next.
RepliesInv ==
    \A k \in 1..Len(replies) :
        /\ replies[k].number \in {stream.ack, tunnel.number}
        /\ replies[k].number # stream.ack =>
              /\ replies[k].data = tunnel.packet
              /\ \A j \in k..Len(replies) : replies[j].number # stream.ack
        /\ replies[k].number = stream.ack /\ ~stream.seen => replies[k].data = <<>>

\* What was printed is what was delivered, what is pending and what is to come.
BytesInv == shist.printed = shist.delivered \o (Pending \o tunnel.out)

FlowInv == FormInv /\ NumberInv /\ PollsInv /\ RepliesInv /\ BytesInv
StreamInv == Reliable => FlowInv

-----------------------------------------------------------------------------
(* Sequences                                                               *)

\* A sequence is a prefix of what it is extended to.
LEMMA PrefixOfConcat ==
    ASSUME NEW S, NEW s \in Seq(S), NEW t \in Seq(S)
    PROVE  /\ IsPrefix(s, s \o t)
           /\ t # <<>> => IsStrictPrefix(s, s \o t)
<1>1. s \o t \in Seq(S) /\ Len(s \o t) = Len(s) + Len(t) /\ Len(s) \in Nat /\ Len(t) \in Nat
      BY ConcatProperties
<1>2. SubSeq(s, 1, Len(s)) = SubSeq(s \o t, 1, Len(s))
  <2>1. CASE Len(s) = 0
        BY <1>1, <2>1, SubSeqEmpty
  <2>2. CASE Len(s) # 0
    <3>1. 1 \in 1..Len(s) /\ Len(s) \in 1..Len(s)
          BY <1>1, <2>2
    <3>2. QED  BY <3>1, SubSeqOfConcat1
  <2>3. QED  BY <2>1, <2>2
<1>3. t # <<>> => s # s \o t
      BY ConcatEqualIffEmpty
<1>4. QED  BY <1>1, <1>2, <1>3 DEF IsPrefix, IsStrictPrefix

\* A function on the numbers from one is a sequence.
LEMMA FunctionAsSeq ==
    ASSUME NEW S, NEW n \in Nat, NEW s \in [1..n -> S]
    PROVE  s \in Seq(S) /\ Len(s) = n
  OBVIOUS

\* What a packet takes and what it leaves are the whole (BoundedBuffer).
LEMMA FirstRest ==
    ASSUME NEW S, NEW s \in Seq(S), NEW n \in Nat
    PROVE  First(s, n) \in Seq(S) /\ Rest(s, n) \in Seq(S) /\ First(s, n) \o Rest(s, n) = s
<1>1. Len(s) \in Nat
      BY LenProperties
<1>2. CASE Len(s) < n
  <2>1. First(s, n) = s
        BY <1>2, SubSeqFull DEF First
  <2>2. Rest(s, n) = <<>>
        BY <1>1, <1>2, SubSeqEmpty DEF Rest
  <2>3. QED  BY <2>1, <2>2, ConcatEmptySeq, EmptySeq
<1>3. CASE n <= Len(s)
  <2>1. First(s, n) = SubSeq(s, 1, n) /\ Rest(s, n) = SubSeq(s, n + 1, Len(s))
        BY <1>1, <1>3 DEF First, Rest
  <2>2. SubSeq(s, 1, n) \in Seq(S) /\ SubSeq(s, n + 1, Len(s)) \in Seq(S)
    <3>1. \A i \in 1..Len(s) : s[i] \in S
          BY ElementOfSeq
    <3>2. (\A i \in 1..n : s[i] \in S) /\ (\A i \in (n + 1)..Len(s) : s[i] \in S)
          BY <1>1, <1>3, <3>1
    <3>3. QED  BY <1>1, <1>3, <3>2, SubSeqProperties
  <2>3. SubSeq(s, 1, n) \o SubSeq(s, n + 1, Len(s)) = SubSeq(s, 1, Len(s))
    <3>1. 1 \in 1..Len(s)+1 /\ n \in 1-1..Len(s) /\ Len(s) \in n..Len(s)
          BY <1>1, <1>3
    <3>2. QED  BY <3>1, ConcatAdjacentSubSeq
  <2>4. QED  BY <2>1, <2>2, <2>3, SubSeqFull
<1>4. QED  BY <1>1, <1>2, <1>3

-----------------------------------------------------------------------------
(* Steps that move no byte                                                 *)

\* The numbers that the device and the host compare.
SameNumbers == stream'.mode = stream.mode /\ stream'.ack = stream.ack /\ stream'.seen = stream.seen
SameBytes == shist'.printed = shist.printed /\ shist'.delivered = shist.delivered

\* What the scenarios are.
LEMMA Scenario ==
    ASSUME sconf \in StreamScenarios
    PROVE  sconf.wrap \in Nat /\ sconf.wrap > 1 /\ sconf.max \in Nat /\ sconf.chunks \in Nat
  BY StreamAssumption

\* The invariant does not depend on what the stream does with its buffer.
LEMMA QuietKeeps ==
    ASSUME FlowInv, UNCHANGED <<sconf, tunnel, polls, replies>>,
           DOMAIN stream' = StreamFields, SameNumbers, stream'.op # "flush", stream'.n \in Nat,
           DOMAIN shist' = HistoryFields, SameBytes
    PROVE  FlowInv'
<1>1. FormInv'
      BY DEF FlowInv, FormInv, SameNumbers, SameBytes
<1>2. (Ahead' <=> Ahead) /\ Pending' = Pending
      BY DEF SameNumbers, Ahead, Pending
<1>3. NumberInv'
      BY <1>2 DEF FlowInv, NumberInv, SameNumbers
<1>4. PollsInv'
      BY <1>2 DEF FlowInv, PollsInv, SameNumbers
<1>5. RepliesInv'
      BY DEF FlowInv, RepliesInv, SameNumbers
<1>6. BytesInv'
      BY <1>2 DEF FlowInv, BytesInv, SameBytes
<1>7. QED  BY <1>1, <1>3, <1>4, <1>5, <1>6 DEF FlowInv

\* Setting fields of the stream that are no numbers.
LEMMA TakeLineKeeps ==
    ASSUME FlowInv, TakeLine
    PROVE  FlowInv' /\ SameBytes
<1> DEFINE pos == CHOOSE k \in Lines(stream.buffer) : \A j \in Lines(stream.buffer) : k <= j
           line == SubSeq(stream.buffer, 1, pos - 1)
           s == [stream EXCEPT !.buffer = Rest(@, pos)]
<1>1. DOMAIN stream = StreamFields /\ stream.op # "flush" /\ stream.n \in Nat
      BY DEF FlowInv, FormInv
<1>2. /\ stream' = IF line = <<>> THEN s
                   ELSE IF stream.op = "oneline"
                   THEN [s EXCEPT !.pc = "idle", !.result = "ok", !.lines = <<line>>]
                   ELSE IF line[1].text = "OK" THEN [s EXCEPT !.pc = "idle", !.result = "ok"]
                   ELSE IF line[1].text = "ERR" THEN [s EXCEPT !.pc = "idle", !.result = "err"]
                   ELSE [s EXCEPT !.lines = Append(@, line)]
      /\ UNCHANGED <<sconf, tunnel, polls, replies, shist>>
      BY DEF TakeLine
<1>3. /\ DOMAIN s = StreamFields /\ s.op = stream.op /\ s.n = stream.n
      /\ s.mode = stream.mode /\ s.ack = stream.ack /\ s.seen = stream.seen
      BY <1>1 DEF StreamFields
<1> HIDE DEF s, line, pos
<1>4. /\ DOMAIN stream' = StreamFields /\ stream'.op = s.op /\ stream'.n = s.n
      /\ stream'.mode = s.mode /\ stream'.ack = s.ack /\ stream'.seen = s.seen
  <2>1. CASE stream' = s
        BY <1>3, <2>1
  <2>2. CASE stream' = [s EXCEPT !.pc = "idle", !.result = "ok", !.lines = <<line>>]
        BY <1>3, <2>2 DEF StreamFields
  <2>3. CASE \E r \in {"ok", "err"} : stream' = [s EXCEPT !.pc = "idle", !.result = r]
        BY <1>3, <2>3 DEF StreamFields
  <2>4. CASE stream' = [s EXCEPT !.lines = Append(@, line)]
        BY <1>3, <2>4 DEF StreamFields
  <2>5. QED  BY <1>2, <2>1, <2>2, <2>3, <2>4
<1>5. SameNumbers /\ SameBytes
      BY <1>2, <1>3, <1>4 DEF SameNumbers, SameBytes
<1>6. DOMAIN shist' = HistoryFields
      BY <1>2 DEF FlowInv, FormInv
<1>7. QED  BY <1>1, <1>2, <1>3, <1>4, <1>5, <1>6, QuietKeeps

\* A read begins.
LEMMA NeedDataKeeps ==
    ASSUME FlowInv, NeedData
    PROVE  FlowInv' /\ SameBytes
<1>1. /\ DOMAIN stream = StreamFields /\ stream.op # "flush" /\ stream.n \in Nat
      /\ DOMAIN shist = HistoryFields
      BY DEF FlowInv, FormInv
<1>2. /\ stream' = [stream EXCEPT !.pc = "poll", !.attempt = 0]
      /\ UNCHANGED <<sconf, tunnel, polls, replies, shist>>
      BY DEF NeedData
<1>3. /\ DOMAIN stream' = StreamFields /\ stream'.op = stream.op /\ stream'.n = stream.n
      /\ SameNumbers /\ SameBytes
      BY <1>1, <1>2 DEF StreamFields, SameNumbers, SameBytes
<1>4. QED  BY <1>1, <1>2, <1>3, QuietKeeps

\* A poll that fails to be answered is repeated or given up.
LEMMA UnansweredFields ==
    ASSUME FlowInv, stream' = Unanswered
    PROVE  /\ DOMAIN stream' = StreamFields /\ SameNumbers
           /\ stream'.op # "flush" /\ stream'.n \in Nat
<1>1. /\ DOMAIN stream = StreamFields /\ stream.op # "flush" /\ stream.n \in Nat
      /\ stream.mode = "flow"
      BY DEF FlowInv, FormInv
<1>2. Mode = "flow"
      BY <1>1 DEF Mode
<1>3. \/ stream' = [stream EXCEPT !.pc = "poll", !.attempt = @ + 1]
      \/ stream' = [stream EXCEPT !.pc = "idle", !.result = "timeout", !.abandoned = TRUE]
      BY <1>2 DEF Unanswered
<1>4. QED  BY <1>1, <1>3 DEF StreamFields, SameNumbers

\* A deadline that passes, whether the answer is lost or late.
LEMMA PollTimeoutKeeps ==
    ASSUME FlowInv, PollTimeout
    PROVE  FlowInv' /\ SameBytes
<1>1. /\ UNCHANGED <<sconf, tunnel, polls, replies>> /\ stream' = Unanswered
      /\ shist' = [shist EXCEPT !.faults = IF polls = <<>> THEN @ ELSE @ + 1]
      BY DEF PollTimeout
<1>2. DOMAIN shist' = HistoryFields /\ SameBytes
      BY <1>1 DEF FlowInv, FormInv, HistoryFields, SameBytes
<1>3. QED  BY <1>1, <1>2, UnansweredFields, QuietKeeps

-----------------------------------------------------------------------------
(* Steps on the polls                                                      *)

\* A poll with the current acknowledgement, or a frame of a message, joins the
\* polls that are under way.
LEMMA PollsJoin ==
    ASSUME FlowInv, UNCHANGED <<sconf, tunnel, replies>>,
           DOMAIN stream' = StreamFields, SameNumbers, stream'.op # "flush", stream'.n \in Nat,
           DOMAIN shist' = HistoryFields, SameBytes,
           NEW more \in Seq(PollFrame), polls' = polls \o more,
           \A k \in 1..Len(more) : more[k].kind = "flow" => more[k].ack = stream.ack
    PROVE  FlowInv'
<1>1. polls \in Seq(PollFrame)
      BY DEF FlowInv, FormInv
<1>2. /\ polls' \in Seq(PollFrame) /\ Len(polls') = Len(polls) + Len(more)
      /\ Len(polls) \in Nat /\ Len(more) \in Nat
      /\ \A k \in 1..Len(polls') :
            polls'[k] = IF k <= Len(polls) THEN polls[k] ELSE more[k - Len(polls)]
      BY <1>1, ConcatProperties
<1>3. FormInv'
      BY <1>2 DEF FlowInv, FormInv, SameNumbers, SameBytes
<1>4. (Ahead' <=> Ahead) /\ Pending' = Pending /\ stream'.ack = stream.ack
      BY DEF SameNumbers, Ahead, Pending
<1>5. NumberInv' /\ RepliesInv' /\ BytesInv'
      BY <1>4 DEF FlowInv, NumberInv, RepliesInv, BytesInv, SameNumbers, SameBytes
<1>6. PollsInv'
  <2>1. SUFFICES ASSUME NEW k \in 1..Len(polls'), polls'[k].kind = "flow"
                 PROVE  /\ Ahead => polls'[k].ack = stream.ack
                        /\ polls'[k].ack = stream.ack =>
                              \A j \in k..Len(polls') : polls'[j].kind = "flow" => polls'[j].ack = stream.ack
        BY <1>4 DEF PollsInv
  <2>2. \A j \in 1..Len(polls') : j > Len(polls) /\ polls'[j].kind = "flow" => polls'[j].ack = stream.ack
    <3>1. TAKE j \in 1..Len(polls')
    <3>2. ASSUME j > Len(polls), polls'[j].kind = "flow"
          PROVE  polls'[j].ack = stream.ack
      <4>1. j - Len(polls) \in 1..Len(more) /\ polls'[j] = more[j - Len(polls)]
            BY <1>2, <3>2
      <4>2. QED  BY <3>2, <4>1
    <3>3. QED  BY <3>2
  <2>3. CASE k > Len(polls)
        BY <1>2, <2>1, <2>2, <2>3
  <2>4. CASE k <= Len(polls)
    <3>1. k \in 1..Len(polls) /\ polls'[k] = polls[k]
          BY <1>2, <2>4
    <3>2. /\ Ahead => polls[k].ack = stream.ack
          /\ polls[k].ack = stream.ack =>
                \A j \in k..Len(polls) : polls[j].kind = "flow" => polls[j].ack = stream.ack
          BY <2>1, <3>1 DEF FlowInv, PollsInv
    <3>3. \A j \in k..Len(polls') : j <= Len(polls) => j \in k..Len(polls) /\ polls'[j] = polls[j]
          BY <1>2, <3>1
    <3>4. QED  BY <1>2, <2>2, <3>1, <3>2, <3>3
  <2>5. QED  BY <1>2, <2>3, <2>4
<1>7. QED  BY <1>3, <1>5, <1>6 DEF FlowInv

\* The oldest poll leaves.
LEMMA PollsTail ==
    ASSUME FlowInv, polls # <<>>
    PROVE  /\ Head(polls) \in PollFrame /\ Head(polls) = polls[1] /\ 1 \in 1..Len(polls)
           /\ Tail(polls) \in Seq(PollFrame)
           /\ Len(polls) \in Nat /\ Len(Tail(polls)) = Len(polls) - 1
           /\ \A k \in 1..Len(Tail(polls)) : k + 1 \in 1..Len(polls) /\ Tail(polls)[k] = polls[k + 1]
<1>1. polls \in Seq(PollFrame)
      BY DEF FlowInv, FormInv
<1>2. Len(polls) \in Nat /\ Len(polls) # 0
      BY <1>1, EmptySeq, LenProperties
<1>3. Head(polls) = polls[1]
      BY <1>1, <1>2
<1>4. QED  BY <1>1, <1>2, <1>3, HeadTailProperties

\* A message is written, in frames that are no polls.
LEMMA StartCommandKeeps ==
    ASSUME FlowInv, StartCommand
    PROVE  FlowInv' /\ SameBytes
<1>1. /\ DOMAIN stream = StreamFields /\ stream.n \in Nat /\ DOMAIN shist = HistoryFields
      /\ sconf.chunks \in Nat
      BY Scenario DEF FlowInv, FormInv
<1>2. PICK op \in sconf.ops \cap {"command", "oneline"} :
        stream' = [stream EXCEPT !.pc = "line", !.op = op, !.n = @ + 1, !.lines = <<>>,
                                 !.result = "none"]
      BY DEF StartCommand
<1>3. /\ DOMAIN stream' = StreamFields /\ SameNumbers /\ stream'.op # "flush" /\ stream'.n \in Nat
      BY <1>1, <1>2 DEF StreamFields, SameNumbers
<1> DEFINE more == write_message(stream.n + 1)
<1>4. more \in Seq(PollFrame) /\ \A k \in 1..Len(more) : more[k].kind # "flow"
  <2>1. more = [k \in 1..sconf.chunks |-> [kind |-> "write", cmd |-> stream.n + 1, chunk |-> k]]
        BY DEF write_message
  <2>2. \A k \in 1..sconf.chunks :
          [kind |-> "write", cmd |-> stream.n + 1, chunk |-> k] \in PollFrame
        BY <1>1 DEF PollFrame
  <2>3. more \in [1..sconf.chunks -> PollFrame] /\ Len(more) = sconf.chunks
        BY <1>1, <2>1, <2>2
  <2>4. more \in Seq(PollFrame)
        BY <1>1, <2>3, FunctionAsSeq
  <2>5. QED  BY <2>1, <2>3, <2>4
<1>5. /\ UNCHANGED <<sconf, tunnel, replies, shist>> /\ polls' = polls \o more
      BY DEF StartCommand
<1>6. DOMAIN shist' = HistoryFields /\ SameBytes
      BY <1>1, <1>5 DEF SameBytes
<1> HIDE DEF more
<1>7. QED  BY <1>3, <1>4, <1>5, <1>6, PollsJoin

\* A poll carries the acknowledgement of the packet that was accepted last.
LEMMA PollKeeps ==
    ASSUME FlowInv, Poll
    PROVE  FlowInv' /\ SameBytes
<1>1. /\ DOMAIN stream = StreamFields /\ stream.op # "flush" /\ stream.n \in Nat
      /\ stream.mode = "flow" /\ DOMAIN shist = HistoryFields
      /\ stream.ack \in Nat /\ polls \in Seq(PollFrame)
      BY Scenario DEF FlowInv, FormInv
<1>2. Mode = "flow"
      BY <1>1 DEF Mode
<1> DEFINE f == [kind |-> "flow", ack |-> stream.ack]
<1>3. polls' = Append(polls, f) /\ f \in PollFrame
      BY <1>1, <1>2 DEF Poll, PollFrame
<1>4. polls' = polls \o <<f>>
      BY <1>1, <1>3, AppendIsConcat
<1>5. /\ <<f>> \in Seq(PollFrame)
      /\ \A k \in 1..Len(<<f>>) : <<f>>[k].kind = "flow" => <<f>>[k].ack = stream.ack
      BY <1>3
<1>6. /\ UNCHANGED <<sconf, tunnel, replies, shist>> /\ stream' = [stream EXCEPT !.pc = "wait"]
      BY DEF Poll
<1>7. /\ DOMAIN stream' = StreamFields /\ SameNumbers /\ stream'.op # "flush" /\ stream'.n \in Nat
      /\ DOMAIN shist' = HistoryFields /\ SameBytes
      BY <1>1, <1>6 DEF StreamFields, SameNumbers, SameBytes
<1> HIDE DEF f
<1>8. QED  BY <1>4, <1>5, <1>6, <1>7, PollsJoin

\* Taking the oldest poll away, when the numbers stay as they are.
LEMMA PollsShorten ==
    ASSUME FlowInv, polls # <<>>, polls' = Tail(polls),
           stream'.ack = stream.ack, Ahead' <=> Ahead
    PROVE  PollsInv'
<1>1. /\ Len(polls') \in Nat /\ Len(polls') = Len(polls) - 1 /\ Len(polls) \in Nat
      /\ \A k \in 1..Len(polls') : k + 1 \in 1..Len(polls) /\ polls'[k] = polls[k + 1]
      BY PollsTail
<1>2. SUFFICES ASSUME NEW k \in 1..Len(polls'), polls'[k].kind = "flow"
               PROVE  /\ Ahead => polls'[k].ack = stream.ack
                      /\ polls'[k].ack = stream.ack =>
                            \A j \in k..Len(polls') : polls'[j].kind = "flow" => polls'[j].ack = stream.ack
      BY DEF PollsInv
<1>3. /\ Ahead => polls[k + 1].ack = stream.ack
      /\ polls[k + 1].ack = stream.ack =>
            \A j \in k+1..Len(polls) : polls[j].kind = "flow" => polls[j].ack = stream.ack
      BY <1>1, <1>2 DEF FlowInv, PollsInv
<1>4. \A j \in k..Len(polls') : j + 1 \in k+1..Len(polls) /\ polls'[j] = polls[j + 1]
      BY <1>1, <1>2
<1>5. QED  BY <1>1, <1>2, <1>3, <1>4

\* What a command prints is typed and is not empty.
LEMMA PrintedMessage ==
    ASSUME NEW m \in Nat, NEW intact
    PROVE  Printed(m, intact) \in Message
<1>1. /\ Len(StreamText) = 5 /\ DOMAIN StreamText = 1..5
      /\ Len(ErrorText) = 2 /\ DOMAIN ErrorText = 1..2
      BY DEF StreamText, ErrorText
<1>2. /\ \A k \in 1..5 : StreamText[k] \in Range(StreamText)
      /\ \A k \in 1..2 : ErrorText[k] \in Range(ErrorText)
      BY <1>1 DEF Range
<1>3. CASE intact
  <2>1. Printed(m, intact) = [k \in 1..5 |-> [cmd |-> m, text |-> StreamText[k], at |-> k]]
        BY <1>1, <1>3 DEF Printed
  <2>2. Printed(m, intact) \in [1..5 -> Char]
        BY <1>2, <2>1 DEF Char
  <2>3. Printed(m, intact) \in Seq(Char) /\ Len(Printed(m, intact)) = 5
        BY <2>2, FunctionAsSeq
  <2>4. QED  BY <2>3, SMTT(60) DEF Message
<1>4. CASE ~intact
  <2>1. Printed(m, intact) = [k \in 1..2 |-> [cmd |-> m, text |-> ErrorText[k], at |-> k]]
        BY <1>1, <1>4 DEF Printed
  <2>2. Printed(m, intact) \in [1..2 -> Char]
        BY <1>2, <2>1 DEF Char
  <2>3. Printed(m, intact) \in Seq(Char) /\ Len(Printed(m, intact)) = 2
        BY <2>2, FunctionAsSeq
  <2>4. QED  BY <2>3 DEF Message
<1>5. QED  BY <1>3, <1>4

\* A frame of a message assembles the command, which prints something.
LEMMA TakeChunkKeeps ==
    ASSUME FlowInv, polls # <<>>, Head(polls).kind = "write", TakeChunk(Head(polls)),
           polls' = Tail(polls), UNCHANGED <<sconf, stream, shist>>
    PROVE  FlowInv' /\ SameBytes
<1> DEFINE f == Head(polls)
           whole == Append(tunnel.chunks, <<f.cmd, f.chunk>>)
           intact == whole = [k \in 1..sconf.chunks |-> <<f.cmd, k>>]
           message == Printed(f.cmd, intact)
<1>1. /\ f \in PollFrame /\ f.cmd \in Nat /\ Tail(polls) \in Seq(PollFrame)
      BY PollsTail DEF PollFrame
<1>2. message \in Message
      BY <1>1, PrintedMessage
<1>3. \/ tunnel' = [tunnel EXCEPT !.chunks = whole]
      \/ tunnel' = [tunnel EXCEPT !.chunks = <<>>, !.todo = Append(@, message)]
      BY DEF TakeChunk
<1>4. DOMAIN tunnel = TunnelFields /\ tunnel.todo \in Seq(Message)
      BY DEF FlowInv, FormInv
<1> HIDE DEF f, whole, message
<1>5. /\ DOMAIN tunnel' = TunnelFields /\ tunnel'.out = tunnel.out
      /\ tunnel'.number = tunnel.number /\ tunnel'.packet = tunnel.packet
      BY <1>3, <1>4 DEF TunnelFields
<1>6. tunnel'.todo \in Seq(Message)
  <2>1. Append(tunnel.todo, message) \in Seq(Message)
        BY <1>2, <1>4, AppendProperties
  <2>2. QED  BY <1>3, <1>4, <2>1 DEF TunnelFields
<1>7. replies' = replies
      BY DEF TakeChunk
<1>8. FormInv'
      BY <1>1, <1>5, <1>6, <1>7 DEF FlowInv, FormInv
<1>9. (Ahead' <=> Ahead) /\ Pending' = Pending
      BY <1>5 DEF Ahead, Pending
<1>10. PollsInv'
      BY <1>9, PollsShorten
<1>11. NumberInv' /\ RepliesInv' /\ BytesInv'
      BY <1>5, <1>7, <1>9 DEF FlowInv, NumberInv, RepliesInv, BytesInv
<1>12. QED  BY <1>8, <1>10, <1>11 DEF FlowInv, SameBytes

\* The numbers of two successive packets differ.
LEMMA NextNumber ==
    ASSUME NEW w \in Nat, w > 1, NEW n \in 0..(w - 1)
    PROVE  (n + 1) % w \in 0..(w - 1) /\ (n + 1) % w # n
<1>1. CASE n + 1 < w
  <2>1. (n + 1) % w = n + 1
        BY <1>1
  <2>2. QED  BY <1>1, <2>1
<1>2. CASE n + 1 = w
  <2>1. (n + 1) % w = 0
        BY <1>2
  <2>2. QED  BY <1>2, <2>1
<1>3. QED  BY <1>1, <1>2

\* An answer to a flow poll: the same packet again, or the next one, of which
\* neither poll nor reply tells yet.
LEMMA AnswerFlowPollKeeps ==
    ASSUME Reliable, FlowInv, polls # <<>>, Head(polls).kind = "flow", AnswerFlowPoll(Head(polls)),
           polls' = Tail(polls), UNCHANGED <<sconf, stream, shist>>
    PROVE  FlowInv' /\ SameBytes
<1> DEFINE f == Head(polls)
           number == (tunnel.number + 1) % sconf.wrap
           data == First(tunnel.out, sconf.max)
           rest == Rest(tunnel.out, sconf.max)
<1>1. /\ f \in PollFrame /\ f = polls[1] /\ 1 \in 1..Len(polls) /\ Len(polls) \in Nat
      /\ Tail(polls) \in Seq(PollFrame)
      BY PollsTail
<1>2. /\ sconf.wrap \in Nat /\ sconf.wrap > 1 /\ sconf.max \in Nat
      /\ DOMAIN tunnel = TunnelFields /\ tunnel.out \in Seq(Char) /\ tunnel.packet \in Seq(Char)
      /\ stream.ack \in 0..(sconf.wrap - 1) /\ stream.seen \in BOOLEAN
      /\ tunnel.number \in {stream.ack, (stream.ack + 1) % sconf.wrap}
      /\ replies \in Seq(ReplyFrame)
      BY Scenario DEF FlowInv, FormInv, NumberInv
<1>3. tunnel.number \in 0..(sconf.wrap - 1) /\ tunnel.number \in Nat
      /\ number \in 0..(sconf.wrap - 1) /\ number # tunnel.number /\ number \in Nat
  <2>1. tunnel.number \in 0..(sconf.wrap - 1)
        BY <1>2, NextNumber
  <2>2. number \in 0..(sconf.wrap - 1) /\ number # tunnel.number
        BY <1>2, <2>1, NextNumber
  <2>3. QED  BY <1>2, <2>1, <2>2
<1>4. data \in Seq(Char) /\ rest \in Seq(Char) /\ data \o rest = tunnel.out
      BY <1>2, FirstRest
<1>5. /\ tunnel' = IF f.ack = tunnel.number
                   THEN [tunnel EXCEPT !.number = number, !.packet = data, !.out = rest]
                   ELSE tunnel
      /\ replies' = IF f.ack = tunnel.number
                    THEN Append(replies, [kind |-> "flow", number |-> number, data |-> data])
                    ELSE Append(replies, [kind |-> "flow", number |-> tunnel.number, data |-> tunnel.packet])
      BY DEF AnswerFlowPoll
<1>6. /\ Ahead => f.ack = stream.ack
      /\ f.ack = stream.ack =>
            \A j \in 1..Len(polls) : polls[j].kind = "flow" => polls[j].ack = stream.ack
      BY <1>1 DEF FlowInv, PollsInv
<1> HIDE DEF number, data, rest
<1>7. CASE f.ack = tunnel.number
  <2>1. ~Ahead /\ tunnel.number = stream.ack
        BY <1>6, <1>7 DEF Ahead
  <2>2. /\ DOMAIN tunnel' = TunnelFields /\ tunnel'.number = number /\ tunnel'.packet = data
        /\ tunnel'.out = rest /\ tunnel'.todo = tunnel.todo
        BY <1>2, <1>5, <1>7 DEF TunnelFields
  <2>3. Ahead'
        BY <1>3, <2>1, <2>2 DEF Ahead
  <2> DEFINE r == [kind |-> "flow", number |-> number, data |-> data]
  <2>4. r \in ReplyFrame /\ replies' = Append(replies, r)
        BY <1>3, <1>4, <1>5, <1>7 DEF ReplyFrame
  <2>5. \A k \in 1..Len(replies) : /\ replies[k].number = stream.ack
                                   /\ ~stream.seen => replies[k].data = <<>>
        BY <2>1 DEF FlowInv, RepliesInv
  <2>6. /\ replies' \in Seq(ReplyFrame) /\ Len(replies') = Len(replies) + 1 /\ Len(replies) \in Nat
        /\ \A k \in 1..Len(replies) : replies'[k] = replies[k]
        /\ replies'[Len(replies) + 1] = r
        BY <1>2, <2>4, AppendProperties
  <2>7. RepliesInv'
    <3>1. SUFFICES ASSUME NEW k \in 1..Len(replies')
                   PROVE  /\ replies'[k].number \in {stream.ack, number}
                          /\ replies'[k].number # stream.ack =>
                                /\ replies'[k].data = data
                                /\ \A j \in k..Len(replies') : replies'[j].number # stream.ack
                          /\ replies'[k].number = stream.ack /\ ~stream.seen => replies'[k].data = <<>>
          BY <2>2 DEF RepliesInv
    <3>2. CASE k \in 1..Len(replies)
          BY <2>5, <2>6, <3>2
    <3>3. CASE k = Len(replies) + 1
      <4>1. replies'[k].number = number /\ replies'[k].data = data
            BY <2>6, <3>3
      <4>2. \A j \in k..Len(replies') : j = k
            BY <2>6, <3>3
      <4>3. QED  BY <1>3, <2>1, <4>1, <4>2
    <3>4. QED  BY <2>6, <3>2, <3>3
  <2>8. PollsInv'
    <3>1. \A k \in 1..Len(polls') : polls'[k].kind = "flow" => polls'[k].ack = stream.ack
          BY <1>6, <1>7, <2>1, PollsTail
    <3>2. Len(polls') \in Nat
          BY <1>1, LenProperties
    <3>3. QED  BY <3>1, <3>2 DEF PollsInv
  <2>9. FormInv'
        BY <1>1, <1>4, <2>2, <2>6 DEF FlowInv, FormInv
  <2>10. NumberInv'
        BY <2>1, <2>2, <2>3 DEF NumberInv, number
  <2>11. BytesInv'
    <3>1. shist.printed = shist.delivered \o (<<>> \o tunnel.out)
          BY <2>1 DEF FlowInv, BytesInv, Pending
    <3>2. <<>> \o tunnel.out = tunnel.out
          BY <1>2, ConcatEmptySeq
    <3>3. Pending' = data
          BY <2>2, <2>3 DEF Pending
    <3>4. QED  BY <1>4, <2>2, <3>1, <3>2, <3>3 DEF BytesInv
  <2>12. QED  BY <2>7, <2>8, <2>9, <2>10, <2>11 DEF FlowInv, SameBytes
<1>8. CASE f.ack # tunnel.number
  <2>1. tunnel' = tunnel
        BY <1>5, <1>8
  <2> DEFINE r == [kind |-> "flow", number |-> tunnel.number, data |-> tunnel.packet]
  <2>2. r \in ReplyFrame /\ replies' = Append(replies, r)
        BY <1>2, <1>3, <1>5, <1>8 DEF ReplyFrame
  <2>3. tunnel.number = stream.ack /\ ~stream.seen => tunnel.packet = <<>>
        BY DEF FlowInv, NumberInv, Ahead
  <2>4. \A k \in 1..Len(replies) :
          /\ replies[k].number \in {stream.ack, tunnel.number}
          /\ replies[k].number # stream.ack =>
                /\ replies[k].data = tunnel.packet
                /\ \A j \in k..Len(replies) : replies[j].number # stream.ack
          /\ replies[k].number = stream.ack /\ ~stream.seen => replies[k].data = <<>>
        BY DEF FlowInv, RepliesInv
  <2>5. /\ r.number = tunnel.number /\ r.data = tunnel.packet
        BY DEF r
  <2> HIDE DEF r
  <2>6. /\ replies' \in Seq(ReplyFrame) /\ Len(replies') = Len(replies) + 1 /\ Len(replies) \in Nat
        /\ \A k \in 1..Len(replies) : replies'[k] = replies[k]
        /\ replies'[Len(replies) + 1] = r
        BY <1>2, <2>2, AppendProperties
  <2>7. RepliesInv'
    <3>1. SUFFICES ASSUME NEW k \in 1..Len(replies')
                   PROVE  /\ replies'[k].number \in {stream.ack, tunnel.number}
                          /\ replies'[k].number # stream.ack =>
                                /\ replies'[k].data = tunnel.packet
                                /\ \A j \in k..Len(replies') : replies'[j].number # stream.ack
                          /\ replies'[k].number = stream.ack /\ ~stream.seen => replies'[k].data = <<>>
          BY <2>1 DEF RepliesInv
    <3>2. CASE k \in 1..Len(replies)
      <4>1. \A j \in k..Len(replies') : j \in k..Len(replies) \/ j = Len(replies) + 1
            BY <2>6, <3>2, SMTT(60)
      <4>2. \A j \in k..Len(replies) : replies'[j] = replies[j]
            BY <2>6, <3>2
      <4>3. replies'[k] = replies[k]
            BY <2>6, <3>2
      <4>4. replies[k].number # stream.ack => tunnel.number # stream.ack
            BY <2>4, <3>2
      <4>5. QED  BY <2>4, <2>5, <2>6, <3>2, <4>1, <4>2, <4>3, <4>4
    <3>3. CASE k = Len(replies) + 1
      <4>1. \A j \in k..Len(replies') : j = k
            BY <2>6, <3>3
      <4>2. QED  BY <2>3, <2>5, <2>6, <3>3, <4>1
    <3>4. QED  BY <2>6, <3>2, <3>3
  <2>8. PollsInv'
        BY <2>1, PollsShorten DEF Ahead
  <2>9. FormInv'
        BY <1>1, <2>1, <2>6 DEF FlowInv, FormInv
  <2>10. NumberInv' /\ BytesInv'
        BY <2>1 DEF FlowInv, NumberInv, BytesInv, Ahead, Pending
  <2>11. QED  BY <2>7, <2>8, <2>9, <2>10 DEF FlowInv, SameBytes
<1>9. QED  BY <1>7, <1>8

-----------------------------------------------------------------------------
(* Steps on the bytes and the replies                                      *)

\* What a command prints follows what was printed before: the step is a Send.
LEMMA RunCommandKeeps ==
    ASSUME FlowInv, RunCommand
    PROVE  /\ FlowInv'
           /\ shist'.printed \in Seq(Char) /\ IsStrictPrefix(shist.printed, shist'.printed)
           /\ shist'.delivered = shist.delivered
<1> DEFINE message == Head(tunnel.todo)
           out == tunnel.out \o message
           printed == shist.printed \o message
<1>1. /\ tunnel.todo # <<>>
      /\ tunnel' = [tunnel EXCEPT !.todo = Tail(tunnel.todo), !.out = out]
      /\ shist' = [shist EXCEPT !.printed = printed]
      /\ UNCHANGED <<sconf, stream, polls, replies>>
      BY DEF RunCommand
<1>2. /\ DOMAIN tunnel = TunnelFields /\ DOMAIN shist = HistoryFields
      /\ tunnel.todo \in Seq(Message) /\ tunnel.out \in Seq(Char) /\ tunnel.packet \in Seq(Char)
      /\ shist.printed \in Seq(Char) /\ shist.delivered \in Seq(Char)
      BY DEF FlowInv, FormInv
<1>3. message \in Seq(Char) /\ message # <<>> /\ Tail(tunnel.todo) \in Seq(Message)
  <2>1. message \in Message /\ Tail(tunnel.todo) \in Seq(Message)
        BY <1>1, <1>2, HeadTailProperties
  <2>2. QED  BY <2>1 DEF Message
<1>4. out \in Seq(Char) /\ printed \in Seq(Char)
      BY <1>2, <1>3, ConcatProperties
<1>5. IsStrictPrefix(shist.printed, printed)
      BY <1>2, <1>3, PrefixOfConcat
<1>6. Pending \in Seq(Char)
      BY <1>2, EmptySeq DEF Pending
<1>7. printed = shist.delivered \o (Pending \o out)
  <2>1. shist.printed = shist.delivered \o (Pending \o tunnel.out)
        BY DEF FlowInv, BytesInv
  <2>2. Pending \o tunnel.out \in Seq(Char)
        BY <1>2, <1>6, ConcatProperties
  <2> DEFINE d == shist.delivered
             p == Pending
             o == tunnel.out
             m == message
  <2>3. d \in Seq(Char) /\ p \in Seq(Char) /\ o \in Seq(Char) /\ m \in Seq(Char) /\ p \o o \in Seq(Char)
        BY <1>2, <1>3, <1>6, <2>2
  <2>4. printed = (d \o (p \o o)) \o m /\ out = o \o m
        BY <2>1
  <2> HIDE DEF d, p, o, m
  <2>5. (d \o (p \o o)) \o m = d \o ((p \o o) \o m)
        BY <2>3, ConcatAssociative, SMTT(60)
  <2>6. (p \o o) \o m = p \o (o \o m)
        BY <2>3, ConcatAssociative, SMTT(60)
  <2>7. printed = d \o (p \o out)
        BY <2>4, <2>5, <2>6
  <2>8. QED  BY <2>7 DEF d, p
<1> HIDE DEF message, out, printed
<1>8. /\ DOMAIN tunnel' = TunnelFields /\ tunnel'.todo = Tail(tunnel.todo) /\ tunnel'.out = out
      /\ tunnel'.number = tunnel.number /\ tunnel'.packet = tunnel.packet
      /\ DOMAIN shist' = HistoryFields /\ shist'.printed = printed
      /\ shist'.delivered = shist.delivered
      BY <1>1, <1>2 DEF TunnelFields, HistoryFields
<1>9. FormInv'
      BY <1>1, <1>3, <1>4, <1>8 DEF FlowInv, FormInv
<1>10. (Ahead' <=> Ahead) /\ Pending' = Pending
      BY <1>1, <1>8 DEF Ahead, Pending
<1>11. NumberInv' /\ PollsInv' /\ RepliesInv'
      BY <1>1, <1>8, <1>10 DEF FlowInv, NumberInv, PollsInv, RepliesInv
<1>12. BytesInv'
      BY <1>7, <1>8, <1>10 DEF BytesInv
<1>13. QED  BY <1>4, <1>5, <1>8, <1>9, <1>11, <1>12 DEF FlowInv

\* The oldest reply leaves.
LEMMA RepliesTail ==
    ASSUME FlowInv, replies # <<>>
    PROVE  /\ Head(replies) \in ReplyFrame /\ Head(replies) = replies[1] /\ 1 \in 1..Len(replies)
           /\ Tail(replies) \in Seq(ReplyFrame)
           /\ Len(replies) \in Nat /\ Len(Tail(replies)) = Len(replies) - 1
           /\ \A k \in 1..Len(Tail(replies)) :
                 k + 1 \in 1..Len(replies) /\ Tail(replies)[k] = replies[k + 1]
<1>1. replies \in Seq(ReplyFrame)
      BY DEF FlowInv, FormInv
<1>2. Len(replies) \in Nat /\ Len(replies) # 0
      BY <1>1, EmptySeq, LenProperties
<1>3. Head(replies) = replies[1]
      BY <1>1, <1>2
<1>4. QED  BY <1>1, <1>2, <1>3, HeadTailProperties

\* Taking the oldest reply away, when the numbers stay as they are; once something
\* was seen, no packet is empty for being the first.
LEMMA RepliesShorten ==
    ASSUME FlowInv, replies # <<>>, replies' = Tail(replies), tunnel' = tunnel,
           stream'.ack = stream.ack, stream'.seen \/ stream'.seen = stream.seen
    PROVE  RepliesInv'
<1>1. /\ Len(replies') \in Nat /\ Len(replies') = Len(replies) - 1 /\ Len(replies) \in Nat
      /\ \A k \in 1..Len(replies') : k + 1 \in 1..Len(replies) /\ replies'[k] = replies[k + 1]
      BY RepliesTail
<1>2. SUFFICES ASSUME NEW k \in 1..Len(replies')
               PROVE  /\ replies'[k].number \in {stream.ack, tunnel.number}
                      /\ replies'[k].number # stream.ack =>
                            /\ replies'[k].data = tunnel.packet
                            /\ \A j \in k..Len(replies') : replies'[j].number # stream.ack
                      /\ replies'[k].number = stream.ack /\ ~stream'.seen => replies'[k].data = <<>>
      BY DEF RepliesInv
<1>3. /\ replies[k + 1].number \in {stream.ack, tunnel.number}
      /\ replies[k + 1].number # stream.ack =>
            /\ replies[k + 1].data = tunnel.packet
            /\ \A j \in k+1..Len(replies) : replies[j].number # stream.ack
      /\ replies[k + 1].number = stream.ack /\ ~stream.seen => replies[k + 1].data = <<>>
      BY <1>1, <1>2 DEF FlowInv, RepliesInv
<1>4. \A j \in k..Len(replies') : j + 1 \in k+1..Len(replies) /\ replies'[j] = replies[j + 1]
      BY <1>1, <1>2
<1>5. QED  BY <1>1, <1>2, <1>3, <1>4

\* The link loses the oldest poll or the oldest reply.
LEMMA LoseFrameKeeps ==
    ASSUME FlowInv, LoseFrame
    PROVE  FlowInv' /\ SameBytes
<1>1. DOMAIN shist = HistoryFields
      BY DEF FlowInv, FormInv
<1>2. UNCHANGED <<sconf, stream, tunnel>>
      BY DEF LoseFrame
<1>3. (Ahead' <=> Ahead) /\ Pending' = Pending
      BY <1>2 DEF Ahead, Pending
<1>4. NumberInv'
      BY <1>2, <1>3 DEF FlowInv, NumberInv
<1>5. DOMAIN shist' = HistoryFields /\ SameBytes
      BY <1>1 DEF LoseFrame, HistoryFields, SameBytes
<1>6. BytesInv'
      BY <1>2, <1>3, <1>5 DEF FlowInv, BytesInv, SameBytes
<1>7. CASE polls # <<>> /\ polls' = Tail(polls) /\ replies' = replies
  <2>1. PollsInv'
        BY <1>2, <1>3, <1>7, PollsShorten
  <2>2. RepliesInv'
        BY <1>2, <1>7 DEF FlowInv, RepliesInv
  <2>3. FormInv'
        BY <1>2, <1>5, <1>7, PollsTail DEF FlowInv, FormInv, SameBytes
  <2>4. QED  BY <1>4, <1>5, <1>6, <2>1, <2>2, <2>3 DEF FlowInv
<1>8. CASE replies # <<>> /\ replies' = Tail(replies) /\ polls' = polls
  <2>1. PollsInv'
        BY <1>2, <1>3, <1>8 DEF FlowInv, PollsInv
  <2>2. RepliesInv'
        BY <1>2, <1>8, RepliesShorten
  <2>3. FormInv'
        BY <1>2, <1>5, <1>8, RepliesTail DEF FlowInv, FormInv, SameBytes
  <2>4. QED  BY <1>4, <1>5, <1>6, <2>1, <2>2, <2>3 DEF FlowInv
<1>9. QED  BY <1>7, <1>8 DEF LoseFrame

\* A reply is a repetition, which delivers nothing, or the packet the device is
\* ahead by: the step is a Deliver of what was printed next.
LEMMA TakeReplyKeeps ==
    ASSUME FlowInv, TakeReply
    PROVE  /\ FlowInv' /\ shist'.printed = shist.printed
           /\ \/ shist'.delivered = shist.delivered
              \/ /\ IsStrictPrefix(shist.delivered, shist'.delivered)
                 /\ IsPrefix(shist'.delivered, shist.printed)
<1> DEFINE r == Head(replies)
           data == IF stream.seen /\ r.number = stream.ack THEN <<>> ELSE r.data
           delivered == shist.delivered \o data
<1>1. /\ replies # <<>> /\ replies' = Tail(replies) /\ UNCHANGED <<sconf, tunnel, polls>>
      BY DEF TakeReply
<1>2. /\ r \in ReplyFrame /\ r = replies[1] /\ 1 \in 1..Len(replies)
      /\ Tail(replies) \in Seq(ReplyFrame) /\ Len(replies) \in Nat
      /\ Len(Tail(replies)) = Len(replies) - 1
      /\ \A k \in 1..Len(Tail(replies)) :
            k + 1 \in 1..Len(replies) /\ Tail(replies)[k] = replies[k + 1]
      BY <1>1, RepliesTail
<1>3. /\ DOMAIN stream = StreamFields /\ DOMAIN shist = HistoryFields
      /\ stream.mode = "flow" /\ stream.op # "flush" /\ stream.n \in Nat
      /\ stream.ack \in 0..(sconf.wrap - 1) /\ stream.seen \in BOOLEAN
      /\ sconf.wrap \in Nat /\ sconf.wrap > 1
      /\ tunnel.out \in Seq(Char) /\ tunnel.packet \in Seq(Char)
      /\ shist.printed \in Seq(Char) /\ shist.delivered \in Seq(Char)
      BY Scenario DEF FlowInv, FormInv
<1>4. r.kind = "flow" /\ r.data \in Seq(Char) /\ Accepted(r)
      BY <1>2, <1>3 DEF ReplyFrame, Accepted, Mode
<1>5. /\ stream' = Buffered([[stream EXCEPT !.ack = r.number, !.seen = TRUE] EXCEPT !.mode = "flow"], data)
      /\ shist' = [shist EXCEPT !.delivered = delivered]
      BY <1>4 DEF TakeReply, Received, accept_flow_packet
<1>6. /\ r.number \in {stream.ack, tunnel.number}
      /\ r.number # stream.ack =>
            /\ r.data = tunnel.packet
            /\ \A j \in 1..Len(replies) : replies[j].number # stream.ack
      /\ r.number = stream.ack /\ ~stream.seen => r.data = <<>>
      BY <1>2 DEF FlowInv, RepliesInv
<1>7. data \in Seq(Char) /\ delivered \in Seq(Char)
      BY <1>3, <1>4, EmptySeq, ConcatProperties
<1> HIDE DEF r, data, delivered
<1>8. /\ DOMAIN stream' = StreamFields /\ stream'.mode = "flow" /\ stream'.op # "flush"
      /\ stream'.n \in Nat /\ stream'.ack = r.number /\ stream'.seen = TRUE
      /\ DOMAIN shist' = HistoryFields /\ shist'.printed = shist.printed
      /\ shist'.delivered = delivered
      BY <1>3, <1>5 DEF Buffered, StreamFields, HistoryFields
<1>9. CASE r.number = stream.ack
  <2>1. data = <<>> /\ delivered = shist.delivered
        BY <1>3, <1>6, <1>9, ConcatEmptySeq DEF data, delivered
  <2>2. FormInv'
        BY <1>1, <1>2, <1>3, <1>7, <1>8, <1>9 DEF FlowInv, FormInv
  <2>3. (Ahead' <=> Ahead) /\ Pending' = Pending
        BY <1>1, <1>8, <1>9 DEF Ahead, Pending
  <2>4. NumberInv'
        BY <1>1, <1>8, <1>9 DEF FlowInv, NumberInv
  <2>5. PollsInv'
        BY <1>1, <1>8, <1>9, <2>3 DEF FlowInv, PollsInv
  <2>6. RepliesInv'
        BY <1>1, <1>8, <1>9, RepliesShorten
  <2>7. BytesInv'
        BY <1>1, <1>8, <2>1, <2>3 DEF FlowInv, BytesInv
  <2>8. QED  BY <1>8, <2>1, <2>2, <2>4, <2>5, <2>6, <2>7 DEF FlowInv
<1>10. CASE r.number # stream.ack
  <2>1. r.number = tunnel.number /\ Ahead /\ data = tunnel.packet
        BY <1>6, <1>10 DEF Ahead, data
  <2>2. tunnel.number \in 0..(sconf.wrap - 1)
        BY <1>3, <2>1, NextNumber DEF FlowInv, NumberInv, Ahead
  <2>3. FormInv'
        BY <1>1, <1>2, <1>3, <1>7, <1>8, <2>1, <2>2 DEF FlowInv, FormInv
  <2>4. ~Ahead' /\ Pending' = <<>>
        BY <1>1, <1>8, <2>1 DEF Ahead, Pending
  <2>5. NumberInv'
        BY <1>1, <1>8, <2>1 DEF NumberInv
  <2>6. PollsInv'
    <3>1. \A k \in 1..Len(polls) : polls[k].kind = "flow" => polls[k].ack # stream'.ack
          BY <1>8, <1>10, <2>1 DEF FlowInv, PollsInv
    <3>2. QED  BY <1>1, <2>4, <3>1 DEF PollsInv
  <2>7. RepliesInv'
    <3>1. \A j \in 1..Len(replies) : replies[j].number = tunnel.number
          BY <1>6, <1>10 DEF FlowInv, RepliesInv
    <3>2. \A k \in 1..Len(replies') : replies'[k].number = stream'.ack
          BY <1>1, <1>2, <1>8, <2>1, <3>1
    <3>3. QED  BY <1>8, <3>2 DEF RepliesInv
  <2>8. shist.printed = delivered \o tunnel.out
    <3>1. shist.printed = shist.delivered \o (tunnel.packet \o tunnel.out)
          BY <2>1 DEF FlowInv, BytesInv, Pending
    <3>2. shist.delivered \o (tunnel.packet \o tunnel.out)
            = (shist.delivered \o tunnel.packet) \o tunnel.out
      <4> DEFINE d == shist.delivered
                 p == tunnel.packet
                 o == tunnel.out
      <4>1. d \in Seq(Char) /\ p \in Seq(Char) /\ o \in Seq(Char)
            BY <1>3
      <4> HIDE DEF d, p, o
      <4>2. d \o (p \o o) = (d \o p) \o o
            BY <4>1, ConcatAssociative, SMTT(60)
      <4>3. QED  BY <4>2 DEF d, p, o
    <3>3. QED  BY <2>1, <3>1, <3>2 DEF delivered
  <2>9. BytesInv'
    <3>1. <<>> \o tunnel.out = tunnel.out
          BY <1>3, ConcatEmptySeq
    <3>2. QED  BY <1>1, <1>8, <2>4, <2>8, <3>1 DEF BytesInv
  <2>10. IsPrefix(delivered, shist.printed)
        BY <1>3, <1>7, <2>8, PrefixOfConcat
  <2>11. delivered = shist.delivered \/ IsStrictPrefix(shist.delivered, delivered)
    <3>1. CASE data = <<>>
          BY <1>3, <3>1, ConcatEmptySeq DEF delivered
    <3>2. CASE data # <<>>
          BY <1>3, <1>7, <3>2, PrefixOfConcat DEF delivered
    <3>3. QED  BY <3>1, <3>2
  <2>12. QED  BY <1>8, <2>3, <2>5, <2>6, <2>7, <2>9, <2>10, <2>11 DEF FlowInv
<1>11. QED  BY <1>9, <1>10

-----------------------------------------------------------------------------
(* The result                                                              *)

\* A stream that has not begun: the device may hold a packet from before.
LEMMA StreamInitInv == StreamInit => StreamInv
<1> SUFFICES ASSUME StreamInit, Reliable PROVE FlowInv
    BY DEF StreamInv
<1>1. /\ sconf \in StreamScenarios /\ sconf.wrap \in Nat /\ sconf.wrap > 1
      BY Scenario DEF StreamInit
<1>2. Old \in Seq(Char) /\ <<>> \in Seq(Char) /\ <<>> \in Seq(Message)
      /\ <<>> \in Seq(PollFrame) /\ <<>> \in Seq(ReplyFrame)
  <2>1. "data" \in Range(StreamText)
    <3>1. StreamText[1] = "data" /\ 1 \in DOMAIN StreamText
          BY DEF StreamText
    <3>2. QED  BY <3>1 DEF Range
  <2>2. [cmd |-> 0, text |-> "data", at |-> 1] \in Char
        BY <2>1 DEF Char
  <2>3. QED  BY <2>2 DEF Old
<1>3. /\ stream.ack = 0 /\ stream.seen = FALSE /\ stream.op = "none" /\ stream.mode = "flow"
      /\ stream.n = 0 /\ DOMAIN stream = StreamFields
      BY DEF StreamInit, StreamFields, Reliable
<1>4. /\ DOMAIN tunnel = TunnelFields /\ tunnel.todo = <<>> /\ tunnel.out = <<>>
      /\ \/ tunnel.number = 1 /\ tunnel.packet = Old
         \/ tunnel.number = 0 /\ tunnel.packet = <<>>
      BY DEF StreamInit, TunnelFields
<1>5. /\ DOMAIN shist = HistoryFields /\ shist.printed = tunnel.packet /\ shist.delivered = <<>>
      /\ polls = <<>> /\ replies = <<>>
      BY DEF StreamInit, HistoryFields
<1>6. FormInv
  <2>1. tunnel.packet \in Seq(Char)
        BY <1>2, <1>4
  <2>2. 0 \in 0..(sconf.wrap - 1) /\ 1 \in 0..(sconf.wrap - 1)
        BY <1>1
  <2>3. tunnel.number \in 0..(sconf.wrap - 1)
        BY <1>4, <2>2
  <2>4. polls \in Seq(PollFrame) /\ replies \in Seq(ReplyFrame)
        BY <1>2, <1>5
  <2>5. tunnel.todo \in Seq(Message) /\ tunnel.out \in Seq(Char)
        BY <1>2, <1>4
  <2>6. shist.printed \in Seq(Char) /\ shist.delivered \in Seq(Char)
        BY <1>2, <1>5, <2>1
  <2>7. stream.seen \in BOOLEAN
    <3>1. FALSE \in BOOLEAN
          OBVIOUS
    <3>2. QED  BY <1>3, <3>1, Zenon
  <2>8. stream.n \in Nat /\ stream.op # "flush" /\ stream.ack \in 0..(sconf.wrap - 1)
    <3>1. 0 \in Nat /\ "none" # "flush"
          OBVIOUS
    <3>2. QED  BY <1>3, <2>2, <3>1
  <2>9. DOMAIN stream = StreamFields /\ DOMAIN tunnel = TunnelFields /\ DOMAIN shist = HistoryFields
        BY <1>3, <1>4, <1>5
  <2>10. sconf \in StreamScenarios /\ stream.mode = "flow"
        BY <1>1, <1>3
  <2>11. QED  BY <2>1, <2>3, <2>4, <2>5, <2>6, <2>7, <2>8, <2>9, <2>10 DEF FormInv
<1>7. NumberInv
  <2>1. (0 + 1) % sconf.wrap = 1
        BY <1>1
  <2>2. QED  BY <1>3, <1>4, <2>1 DEF NumberInv, Ahead
<1>8. PollsInv /\ RepliesInv
      BY <1>5 DEF PollsInv, RepliesInv
<1>9. BytesInv
  <2>1. Pending = tunnel.packet
        BY <1>3, <1>4 DEF Pending, Ahead
  <2>2. tunnel.packet \in Seq(Char)
        BY <1>2, <1>4
  <2>3. tunnel.packet \o <<>> = tunnel.packet /\ <<>> \o tunnel.packet = tunnel.packet
        BY <2>2, ConcatEmptySeq
  <2>4. QED  BY <1>4, <1>5, <2>1, <2>3 DEF BytesInv
<1>10. QED  BY <1>6, <1>7, <1>8, <1>9 DEF FlowInv

\* What a step may do to the bytes, seen from outside.
SentOrDelivered ==
    \/ /\ shist'.printed \in Seq(Char) /\ IsStrictPrefix(shist.printed, shist'.printed)
       /\ shist'.delivered = shist.delivered
    \/ /\ shist'.printed = shist.printed
       /\ IsStrictPrefix(shist.delivered, shist'.delivered)
       /\ IsPrefix(shist'.delivered, shist.printed)
    \/ SameBytes

\* Every step with flow control keeps the invariant and sends or delivers.
LEMMA FlowStep ==
    ASSUME Reliable, FlowInv, [StreamNext]_streamVars
    PROVE  FlowInv' /\ SentOrDelivered
<1>1. stream.op # "flush" /\ "flush" \notin sconf.ops /\ ~sconf.restarts /\ sconf.supported
      BY DEF Reliable, FlowInv, FormInv
<1>2. CASE StreamStep
  <2>1. CASE TakeLine
        BY <2>1, TakeLineKeeps DEF SentOrDelivered
  <2>2. CASE NeedData
        BY <2>2, NeedDataKeeps DEF SentOrDelivered
  <2>3. CASE Poll
        BY <2>3, PollKeeps DEF SentOrDelivered
  <2>4. CASE TakeReply
        BY <2>4, TakeReplyKeeps DEF SentOrDelivered, SameBytes
  <2>5. CASE PollTimeout
        BY <2>5, PollTimeoutKeeps DEF SentOrDelivered
  <2>6. QED  BY <1>2, <2>1, <2>2, <2>3, <2>4, <2>5 DEF StreamStep
<1>3. CASE ServePoll
  <2>1. /\ polls # <<>> /\ polls' = Tail(polls) /\ UNCHANGED <<sconf, stream, shist>>
        BY <1>3 DEF ServePoll
  <2>2. Head(polls).kind \in {"write", "flow"}
        BY <2>1, PollsTail DEF PollFrame
  <2>3. CASE Head(polls).kind = "write"
    <3>1. TakeChunk(Head(polls))
          BY <1>3, <2>3 DEF ServePoll
    <3>2. QED  BY <2>1, <2>3, <3>1, TakeChunkKeeps DEF SentOrDelivered
  <2>4. CASE Head(polls).kind = "flow"
    <3>1. AnswerFlowPoll(Head(polls))
          BY <1>1, <1>3, <2>4 DEF ServePoll
    <3>2. QED  BY <2>1, <2>4, <3>1, AnswerFlowPollKeeps DEF SentOrDelivered
  <2>5. QED  BY <2>2, <2>3, <2>4
<1>4. CASE RunCommand
      BY <1>4, RunCommandKeeps DEF SentOrDelivered
<1>5. CASE LoseFrame
      BY <1>5, LoseFrameKeeps DEF SentOrDelivered
<1>6. CASE StartCommand
      BY <1>6, StartCommandKeeps DEF SentOrDelivered
<1>7. CASE StartFlush \/ FlushEnd \/ Restart
      BY <1>1, <1>7 DEF StartFlush, FlushEnd, Restart
<1>8. CASE UNCHANGED streamVars
  <2>1. UNCHANGED <<sconf, stream, tunnel, polls, replies, shist>>
        BY <1>8 DEF streamVars
  <2>2. SameBytes /\ SameNumbers
        BY <2>1, SMTT(60) DEF SameBytes, SameNumbers
  <2>3. QED  BY <1>1, <2>1, <2>2, QuietKeeps DEF SentOrDelivered, FlowInv, FormInv
<1>9. QED  BY <1>2, <1>3, <1>4, <1>5, <1>6, <1>7, <1>8 DEF StreamNext

\* The scenario does not change.
LEMMA SameScenario == [StreamNext]_streamVars => sconf' = sconf
  BY DEF StreamNext, streamVars, StreamStep, StartCommand, StartFlush, FlushEnd, TakeLine, NeedData,
         Poll, TakeReply, PollTimeout, ServePoll, RunCommand, LoseFrame, Restart

\* The invariant is inductive.
LEMMA StreamNextInv == StreamInv /\ [StreamNext]_streamVars => StreamInv'
  BY FlowStep, SameScenario DEF StreamInv, Reliable

\* In every reachable state of a stream with flow control.
THEOREM StreamInvariance == StreamSpec => []StreamInv
  BY StreamInitInv, StreamNextInv, PTL DEF StreamSpec

\* With flow control the application reads what the device prints, every byte
\* once and in order, over every loss, delay and repetition (read_flow,
\* accept_flow_packet, and the tunnel of the firmware).
THEOREM StreamImplementsByteStream == StreamSpec => DeliversReliably
<1>1. StreamInit => Abstract!Init
  <2>1. SUFFICES ASSUME StreamInit PROVE Abstract!Init
        OBVIOUS
  <2>2. CASE Reliable
    <3>1. shist.printed \in Seq(Char) /\ shist.delivered = <<>>
          BY <2>1, <2>2, StreamInitInv DEF StreamInv, FlowInv, FormInv, StreamInit
    <3>2. QED  BY <2>2, <3>1 DEF Abstract!Init, Char
  <2>3. CASE ~Reliable
    <3>1. <<>> \in Seq(Char)
          OBVIOUS
    <3>2. QED  BY <2>3, <3>1 DEF Abstract!Init, Char
  <2>4. QED  BY <2>2, <2>3
<1>2. StreamInv /\ [StreamNext]_streamVars =>
        [Abstract!Next]_<<IF Reliable THEN shist.printed ELSE <<>>,
                          IF Reliable THEN shist.delivered ELSE <<>> >>
  <2>1. SUFFICES ASSUME StreamInv, [StreamNext]_streamVars
                 PROVE  [Abstract!Next]_<<IF Reliable THEN shist.printed ELSE <<>>,
                                          IF Reliable THEN shist.delivered ELSE <<>> >>
        OBVIOUS
  <2>2. Reliable' <=> Reliable
        BY <2>1, SameScenario DEF Reliable
  <2>3. CASE Reliable
    <3>1. SentOrDelivered
          BY <2>1, <2>3, FlowStep DEF StreamInv
    <3>2. QED  BY <2>2, <2>3, <3>1
               DEF SentOrDelivered, SameBytes, Char, IsStrictPrefix, IsPrefix,
                   Abstract!Next, Abstract!Send, Abstract!Deliver,
                   Abstract!IsStrictPrefix, Abstract!IsPrefix
  <2>4. CASE ~Reliable
        BY <2>2, <2>4
  <2>5. QED  BY <2>3, <2>4
<1>3. QED  BY <1>1, <1>2, StreamInvariance, PTL DEF StreamSpec, DeliversReliably, Abstract!Spec

-----------------------------------------------------------------------------
(* Types                                                                   *)

WriteFrame == [kind: {"write"}, cmd: 1..sconf.maxOps, chunk: 1..sconf.chunks]
ReadFrame == [kind: {"plain"}] \cup [kind: {"flow"}, ack: Nat]
AnswerFrame == [kind: {"plain", "flow"}, number: 0..(sconf.wrap - 1), data: Packets]

StreamType ==
    [pc: {"idle", "line", "poll", "wait"}, op: {"none", "command", "oneline", "flush"},
     n: 0..sconf.maxOps, mode: {"probe", "flow", "plain"}, ack: 0..(sconf.wrap - 1),
     seen: BOOLEAN, buffer: Seq(Bytes), attempt: 0..sconf.retries, lines: Seq(Seq(Bytes)),
     abandoned: BOOLEAN, result: {"none", "ok", "err", "timeout"}]
TunnelType ==
    [chunks: Seq((1..sconf.maxOps) \X (1..sconf.chunks)), todo: Seq(Seq(Bytes)),
     out: Seq(Bytes), number: 0..(sconf.wrap - 1), packet: Packets]
HistoryType ==
    [printed: Seq(Bytes), delivered: Seq(Bytes), faults: 0..sconf.maxFaults, lost: BOOLEAN]

\* The place of a frame in all that the application writes.
Place(cmd, chunk) == (cmd - 1) * sconf.chunks + chunk

\* The frames of n messages come in the order in which they were written, the
\* chunks that the device assembles before those that are under way.
OrderIn(frames, chunks, n) ==
    /\ \A k \in 1..Len(frames) : frames[k].kind = "write" =>
          /\ Place(frames[k].cmd, frames[k].chunk) <= n * sconf.chunks
          /\ \A j \in 1..(k - 1) : frames[j].kind = "write" =>
                Place(frames[j].cmd, frames[j].chunk) < Place(frames[k].cmd, frames[k].chunk)
          /\ \A j \in 1..Len(chunks) :
                Place(chunks[j][1], chunks[j][2]) < Place(frames[k].cmd, frames[k].chunk)
    /\ \A k \in 1..Len(chunks) :
          /\ k <= Place(chunks[k][1], chunks[k][2])
          /\ Place(chunks[k][1], chunks[k][2]) <= n * sconf.chunks

WriteOrder == OrderIn(polls, tunnel.chunks, stream.n)

TypesInv ==
    /\ sconf \in StreamScenarios
    /\ stream \in StreamType /\ tunnel \in TunnelType /\ shist \in HistoryType
    /\ polls \in Seq(WriteFrame \cup ReadFrame) /\ replies \in Seq(AnswerFrame)

\* What is cut from the output fits into a packet.
LEMMA PacketCut ==
    ASSUME sconf \in StreamScenarios, NEW s \in Seq(Bytes)
    PROVE  First(s, sconf.max) \in Packets /\ Rest(s, sconf.max) \in Seq(Bytes)
<1>1. sconf.max \in Nat
      BY Scenario
<1>2. First(s, sconf.max) \in Seq(Bytes) /\ Rest(s, sconf.max) \in Seq(Bytes)
      BY <1>1, FirstRest
<1>3. Len(First(s, sconf.max)) \in 0..sconf.max
  <2>1. Len(s) \in Nat
        BY LenProperties
  <2>2. CASE Len(s) < sconf.max
        BY <1>1, <2>1, <2>2, SubSeqFull DEF First
  <2>3. CASE ~(Len(s) < sconf.max)
    <3>1. First(s, sconf.max) = SubSeq(s, 1, sconf.max)
          BY <2>3 DEF First
    <3>2. \A i \in 1..sconf.max : s[i] \in Bytes
          BY <1>1, <2>1, <2>3, ElementOfSeq
    <3>3. Len(SubSeq(s, 1, sconf.max)) = sconf.max
          BY <1>1, <2>1, <2>3, <3>2, SubSeqProperties
    <3>4. QED  BY <1>1, <3>1, <3>3
  <2>4. QED  BY <2>2, <2>3
<1>4. First(s, sconf.max) \in [1..Len(First(s, sconf.max)) -> Bytes]
      BY <1>2
<1>5. QED  BY <1>2, <1>3, <1>4 DEF Packets

\* A packet is a sequence of bytes.
LEMMA PacketSeq ==
    ASSUME sconf \in StreamScenarios, NEW p \in Packets
    PROVE  p \in Seq(Bytes)
<1>1. PICK k \in 0..sconf.max : p \in [1..k -> Bytes]
      BY DEF Packets
<1>2. k \in Nat
      BY Scenario
<1>3. QED  BY <1>1, <1>2, FunctionAsSeq

\* What a complete message prints.
LEMMA PrintedBytes ==
    ASSUME sconf \in StreamScenarios, NEW m \in 1..sconf.maxOps, NEW intact
    PROVE  Printed(m, intact) \in Seq(Bytes)
<1>1. /\ Len(StreamText) = 5 /\ DOMAIN StreamText = 1..5
      /\ Len(ErrorText) = 2 /\ DOMAIN ErrorText = 1..2
      BY DEF StreamText, ErrorText
<1>2. /\ \A k \in 1..5 : StreamText[k] \in Range(StreamText)
      /\ \A k \in 1..2 : ErrorText[k] \in Range(ErrorText)
      BY <1>1 DEF Range
<1>3. m \in 0..sconf.maxOps
      BY StreamAssumption
<1>4. CASE intact
  <2>1. Printed(m, intact) = [k \in 1..5 |-> [cmd |-> m, text |-> StreamText[k], at |-> k]]
        BY <1>1, <1>4 DEF Printed
  <2>2. Printed(m, intact) \in [1..5 -> Bytes]
        BY <1>1, <1>2, <1>3, <2>1 DEF Bytes
  <2>3. QED  BY <2>2, FunctionAsSeq
<1>5. CASE ~intact
  <2>1. Printed(m, intact) = [k \in 1..2 |-> [cmd |-> m, text |-> ErrorText[k], at |-> k]]
        BY <1>1, <1>5 DEF Printed
  <2>2. Printed(m, intact) \in [1..2 -> Bytes]
        BY <1>1, <1>2, <1>3, <2>1 DEF Bytes
  <2>3. QED  BY <2>2, FunctionAsSeq
<1>6. QED  BY <1>4, <1>5

\* What the parts of a scenario are.
LEMMA ScenarioParts ==
    ASSUME sconf \in StreamScenarios
    PROVE  /\ sconf.flow \in {"probe", "flow", "plain"} /\ sconf.old \in BOOLEAN
           /\ sconf.ops \subseteq {"command", "oneline", "flush"}
           /\ sconf.max \in Nat \ {0} /\ sconf.wrap \in Nat \ {0, 1} /\ sconf.chunks \in Nat \ {0}
           /\ sconf.retries \in Nat /\ sconf.maxOps \in Nat /\ sconf.maxFaults \in Nat
  BY StreamAssumption

\* The initial state is typed.
LEMMA TypesInit == StreamInit => TypesInv
<1> SUFFICES ASSUME StreamInit PROVE TypesInv
    OBVIOUS
<1>1. sconf \in StreamScenarios
      BY DEF StreamInit
<1>2. <<>> \in Packets /\ Old \in Packets
  <2>1. 0 \in 0..sconf.max /\ 1 \in 0..sconf.max
        BY <1>1, ScenarioParts
  <2>2. <<>> \in [1..0 -> Bytes]
        OBVIOUS
  <2>3. Old \in [1..1 -> Bytes]
    <3>1. "data" \in Range(StreamText) /\ Len(StreamText) = 5
          BY DEF Range, StreamText
    <3>2. [cmd |-> 0, text |-> "data", at |-> 1] \in Bytes
          BY <1>1, <3>1, ScenarioParts DEF Bytes
    <3> DEFINE b == [cmd |-> 0, text |-> "data", at |-> 1]
    <3>3. Old = <<b>>
          BY DEF Old
    <3> HIDE DEF b
    <3>4. QED  BY <3>2, <3>3 DEF b
  <2>4. QED  BY <2>1, <2>2, <2>3 DEF Packets
<1>3. stream \in StreamType
      BY <1>1, ScenarioParts DEF StreamInit, StreamType
<1>4. tunnel \in TunnelType
      BY <1>1, <1>2, ScenarioParts DEF StreamInit, TunnelType
<1>5. tunnel.packet \in Seq(Bytes)
      BY <1>1, <1>4, PacketSeq DEF TunnelType
<1>6. shist \in HistoryType
      BY <1>1, <1>5, ScenarioParts DEF StreamInit, HistoryType
<1>7. polls \in Seq(WriteFrame \cup ReadFrame) /\ replies \in Seq(AnswerFrame)
      BY DEF StreamInit
<1>8. QED  BY <1>1, <1>3, <1>4, <1>6, <1>7 DEF TypesInv

\* Steps keep the scenario, and with it the types.
LEMMA TypesKept ==
    ASSUME TypesInv, sconf' = sconf, stream' \in StreamType, tunnel' \in TunnelType,
           shist' \in HistoryType, polls' \in Seq(WriteFrame \cup ReadFrame),
           replies' \in Seq(AnswerFrame)
    PROVE  TypesInv'
<1>1. Bytes' = Bytes
      BY DEF Bytes
<1>2. Packets' = Packets
      BY <1>1 DEF Packets
<1>3. AnswerFrame' = AnswerFrame /\ WriteFrame' = WriteFrame
      BY <1>2 DEF AnswerFrame, WriteFrame
<1>4. StreamType' = StreamType /\ TunnelType' = TunnelType /\ HistoryType' = HistoryType
      BY <1>1, <1>2 DEF StreamType, TunnelType, HistoryType
<1>5. QED  BY <1>3, <1>4 DEF TypesInv

\* A line is taken from the buffer.
LEMMA TakeLineTypes == TypesInv /\ TakeLine => stream' \in StreamType /\ stream'.n = stream.n
<1> SUFFICES ASSUME TypesInv, TakeLine PROVE stream' \in StreamType /\ stream'.n = stream.n
    OBVIOUS
<1> DEFINE pos == CHOOSE k \in Lines(stream.buffer) : \A j \in Lines(stream.buffer) : k <= j
           line == SubSeq(stream.buffer, 1, pos - 1)
           rest == Rest(stream.buffer, pos)
           s == [stream EXCEPT !.buffer = rest]
<1>1. stream \in StreamType /\ stream.buffer \in Seq(Bytes) /\ Lines(stream.buffer) # {}
      BY DEF TypesInv, StreamType, TakeLine
<1>2. pos \in DOMAIN stream.buffer
  <2>1. Lines(stream.buffer) \subseteq 1..Len(stream.buffer) /\ Len(stream.buffer) \in Nat
        BY <1>1 DEF Lines
  <2>2. \E k \in Lines(stream.buffer) : \A j \in Lines(stream.buffer) : k <= j
        BY <1>1, <2>1, LeastNatural
  <2>3. QED  BY <1>1, <2>1, <2>2
<1>3. line \in Seq(Bytes) /\ rest \in Seq(Bytes)
  <2>1. Len(stream.buffer) \in Nat /\ pos \in 1..Len(stream.buffer)
        /\ \A i \in 1..Len(stream.buffer) : stream.buffer[i] \in Bytes
        BY <1>1, <1>2, ElementOfSeq
  <2> HIDE DEF pos
  <2>2. \A i \in 1..(pos - 1) : stream.buffer[i] \in Bytes
        BY <2>1
  <2>3. QED  BY <1>1, <2>1, <2>2, FirstRest, SubSeqProperties
<1>4. stream' = IF line = <<>> THEN s
                ELSE IF stream.op = "oneline"
                THEN [s EXCEPT !.pc = "idle", !.result = "ok", !.lines = <<line>>]
                ELSE IF line[1].text = "OK" THEN [s EXCEPT !.pc = "idle", !.result = "ok"]
                ELSE IF line[1].text = "ERR" THEN [s EXCEPT !.pc = "idle", !.result = "err"]
                ELSE [s EXCEPT !.lines = Append(@, line)]
      BY DEF TakeLine
<1> HIDE DEF line, rest
<1>5. s \in StreamType /\ s.n = stream.n
      BY <1>1, <1>3 DEF StreamType
<1>6. <<line>> \in Seq(Seq(Bytes)) /\ Append(s.lines, line) \in Seq(Seq(Bytes))
  <2>1. \A T : \A x \in T : \A t \in Seq(T) : <<x>> \in Seq(T) /\ Append(t, x) \in Seq(T)
        OBVIOUS
  <2>2. s.lines \in Seq(Seq(Bytes))
        BY <1>5 DEF StreamType
  <2> HIDE DEF s
  <2>3. QED  BY <1>3, <2>1, <2>2
<1> HIDE DEF s
<1>7. CASE stream' = [s EXCEPT !.pc = "idle", !.result = "ok", !.lines = <<line>>]
      BY <1>5, <1>6, <1>7 DEF StreamType
<1>8. CASE stream' = [s EXCEPT !.lines = Append(@, line)]
      BY <1>5, <1>6, <1>8 DEF StreamType
<1>9. CASE \E r \in {"ok", "err"} : stream' = [s EXCEPT !.pc = "idle", !.result = r]
      BY <1>5, <1>9 DEF StreamType
<1>10. QED  BY <1>4, <1>5, <1>7, <1>8, <1>9

\* A poll is not answered.
LEMMA UnansweredTypes ==
    ASSUME TypesInv, stream' = Unanswered
    PROVE  stream' \in StreamType /\ stream'.n = stream.n
<1>1. stream \in StreamType /\ sconf.retries \in Nat
      BY ScenarioParts DEF TypesInv
<1>2. CASE \E pc \in {"poll", "line"} : stream' = [stream EXCEPT !.pc = pc]
      BY <1>1, <1>2 DEF StreamType
<1>3. CASE stream' = [stream EXCEPT !.pc = "line", !.mode = "plain"]
      BY <1>1, <1>3 DEF StreamType
<1>4. CASE stream.attempt < sconf.retries /\ stream' = [stream EXCEPT !.pc = "poll", !.attempt = @ + 1]
  <2>1. stream.attempt + 1 \in 0..sconf.retries
        BY <1>1, <1>4 DEF StreamType
  <2>2. QED  BY <1>1, <1>4, <2>1 DEF StreamType
<1>5. CASE stream' = [stream EXCEPT !.pc = "idle", !.result = "timeout", !.abandoned = TRUE]
      BY <1>1, <1>5 DEF StreamType
<1>6. QED  BY <1>2, <1>3, <1>4, <1>5 DEF Unanswered

\* A step of the application or of the library leaves the stream typed.
LEMMA NeedDataTypes ==
    ASSUME TypesInv, NeedData
    PROVE  stream' \in StreamType /\ stream'.n = stream.n
<1>1. stream \in StreamType /\ 0 \in 0..sconf.retries
      BY ScenarioParts DEF TypesInv
<1>2. stream' = [stream EXCEPT !.pc = "poll", !.attempt = 0]
      BY DEF NeedData
<1>3. QED  BY ONLY <1>1, <1>2 DEF StreamType

LEMMA PollTypes ==
    ASSUME TypesInv, Poll
    PROVE  stream' \in StreamType /\ stream'.n = stream.n
<1>1. stream \in StreamType
      BY DEF TypesInv
<1>2. stream' = [stream EXCEPT !.pc = "wait"]
      BY DEF Poll
<1>3. QED  BY ONLY <1>1, <1>2 DEF StreamType

LEMMA FlushEndTypes ==
    ASSUME TypesInv, FlushEnd
    PROVE  stream' \in StreamType /\ stream'.n = stream.n
<1>1. stream \in StreamType /\ <<>> \in Seq(Bytes)
      BY DEF TypesInv
<1>2. stream' = [stream EXCEPT !.pc = "idle", !.buffer = <<>>, !.result = "ok"]
      BY DEF FlushEnd
<1>3. QED  BY ONLY <1>1, <1>2 DEF StreamType

LEMMA StartFlushTypes ==
    ASSUME TypesInv, StartFlush
    PROVE  stream' \in StreamType /\ stream'.n = stream.n + 1
<1>1. stream \in StreamType /\ <<>> \in Seq(Bytes)
      BY DEF TypesInv
<1>2. stream' = [stream EXCEPT !.pc = "poll", !.op = "flush", !.n = stream.n + 1, !.buffer = <<>>,
                               !.result = "none"]
      BY DEF StartFlush
<1>3. stream.n + 1 \in 0..sconf.maxOps
  <2>1. stream.n \in 0..sconf.maxOps /\ stream.n < sconf.maxOps /\ sconf.maxOps \in Nat
        BY <1>1, ScenarioParts DEF StreamType, StartFlush, TypesInv
  <2>2. QED  BY ONLY <2>1
<1> DEFINE n == stream.n + 1
<1>4. n \in 0..sconf.maxOps
      BY <1>3
<1>5. stream' = [stream EXCEPT !.pc = "poll", !.op = "flush", !.n = n, !.buffer = <<>>,
                               !.result = "none"]
      BY <1>2
<1> HIDE DEF n
<1>6. stream' \in StreamType /\ stream'.n = n
      BY ONLY <1>1, <1>4, <1>5 DEF StreamType
<1>7. QED  BY <1>6 DEF n

LEMMA StartCommandTypes ==
    ASSUME TypesInv, StartCommand
    PROVE  stream' \in StreamType /\ stream'.n = stream.n + 1 /\ stream.n + 1 \in 1..sconf.maxOps
<1>1. stream \in StreamType /\ <<>> \in Seq(Seq(Bytes))
      BY DEF TypesInv
<1>2. PICK op \in {"command", "oneline"} :
         stream' = [stream EXCEPT !.pc = "line", !.op = op, !.n = stream.n + 1, !.lines = <<>>,
                                  !.result = "none"]
      BY DEF StartCommand
<1>3. stream.n + 1 \in 1..sconf.maxOps
  <2>1. stream.n \in 0..sconf.maxOps /\ stream.n < sconf.maxOps /\ sconf.maxOps \in Nat
        BY <1>1, ScenarioParts DEF StreamType, StartCommand, TypesInv
  <2>2. QED  BY ONLY <2>1
<1> DEFINE n == stream.n + 1
<1>4. n \in 0..sconf.maxOps
      BY <1>3, ScenarioParts DEF TypesInv
<1>5. stream' = [stream EXCEPT !.pc = "line", !.op = op, !.n = n, !.lines = <<>>,
                               !.result = "none"]
      BY <1>2
<1> HIDE DEF n
<1>6. stream' \in StreamType /\ stream'.n = n
      BY ONLY <1>1, <1>4, <1>5 DEF StreamType
<1>7. QED  BY <1>3, <1>6 DEF n

\* A reply is taken: what it brings is bytes.
LEMMA TakeReplyTypes ==
    ASSUME TypesInv, TakeReply
    PROVE  stream' \in StreamType /\ stream'.n = stream.n /\ shist' \in HistoryType
<1> DEFINE reply == Head(replies)
           a == accept_flow_packet(stream, reply)
<1>1. /\ stream \in StreamType /\ shist \in HistoryType /\ reply \in AnswerFrame
      /\ sconf \in StreamScenarios /\ reply.data \in Packets
  <2>1. \A S : \A q \in Seq(S) : q # <<>> => Head(q) \in S
        OBVIOUS
  <2>2. replies \in Seq(AnswerFrame) /\ replies # <<>>
        BY DEF TypesInv, TakeReply
  <2>3. reply \in AnswerFrame
        BY <2>1, <2>2
  <2>4. QED  BY <2>3 DEF TypesInv, AnswerFrame
<1>2. reply.data \in Seq(Bytes) /\ <<>> \in Seq(Bytes)
      BY <1>1, PacketSeq
<1>3. CASE ~Accepted(reply)
      BY <1>1, <1>3, UnansweredTypes DEF TakeReply
<1>4. ASSUME NEW s \in StreamType, s.n = stream.n, NEW data \in Seq(Bytes), stream' = Buffered(s, data),
             shist' = [shist EXCEPT !.delivered = @ \o data]
      PROVE  stream' \in StreamType /\ stream'.n = stream.n /\ shist' \in HistoryType
  <2>1. s.buffer \o data \in Seq(Bytes) /\ shist.delivered \o data \in Seq(Bytes)
        BY <1>1, <1>4 DEF StreamType, HistoryType
  <2>2. stream' = [s EXCEPT !.buffer = s.buffer \o data, !.pc = "line"]
        BY <1>4 DEF Buffered
  <2>3. QED  BY <1>1, <1>4, <2>1, <2>2 DEF StreamType, HistoryType
<1>5. CASE Accepted(reply) /\ reply.kind = "flow"
  <2>1. /\ a.data \in Seq(Bytes)
        /\ a.s = [stream EXCEPT !.ack = reply.number, !.seen = TRUE]
        BY <1>2 DEF accept_flow_packet
  <2>2. a.s \in StreamType /\ a.s.n = stream.n
        BY <1>1, <2>1 DEF StreamType, AnswerFrame
  <2> DEFINE s == [a.s EXCEPT !.mode = "flow"]
  <2>3. stream' = Buffered(s, a.data) /\ shist' = [shist EXCEPT !.delivered = @ \o a.data]
        BY <1>5 DEF TakeReply, Received
  <2> HIDE DEF a
  <2>4. s \in StreamType /\ s.n = stream.n
        BY <2>2 DEF StreamType
  <2> HIDE DEF s
  <2>5. QED  BY <1>4, <2>1, <2>3, <2>4
<1>6. CASE Accepted(reply) /\ reply.kind # "flow" /\ stream.op = "flush"
  <2>1. stream' = [stream EXCEPT !.pc = "poll"] /\ shist' = shist
        BY <1>6 DEF TakeReply, Received
  <2>2. QED  BY <1>1, <2>1 DEF StreamType
<1>7. CASE Accepted(reply) /\ reply.kind # "flow" /\ stream.op # "flush"
  <2>1. stream' = Buffered(stream, reply.data)
        /\ shist' = [shist EXCEPT !.delivered = @ \o reply.data]
        BY <1>7 DEF TakeReply, Received
  <2>2. QED  BY <1>1, <1>2, <1>4, <2>1
<1>8. QED  BY <1>3, <1>5, <1>6, <1>7

\* The host's steps.
LEMMA HostTypes ==
    ASSUME TypesInv,
           TakeLine \/ NeedData \/ TakeReply \/ PollTimeout \/ StartFlush \/ FlushEnd
    PROVE  TypesInv' /\ stream'.n \in {stream.n, stream.n + 1} /\ tunnel' = tunnel /\ polls' = polls
<1>1. /\ tunnel \in TunnelType /\ polls \in Seq(WriteFrame \cup ReadFrame)
      /\ replies \in Seq(AnswerFrame) /\ shist \in HistoryType
      BY DEF TypesInv
<1>2. CASE TakeLine
  <2>1. UNCHANGED <<sconf, tunnel, polls, replies, shist>>
        BY <1>2 DEF TakeLine
  <2>2. QED  BY <1>1, <1>2, <2>1, TakeLineTypes, TypesKept
<1>3. CASE NeedData
  <2>1. UNCHANGED <<sconf, tunnel, polls, replies, shist>>
        BY <1>3 DEF NeedData
  <2>2. QED  BY <1>1, <1>3, <2>1, NeedDataTypes, TypesKept
<1>4. CASE TakeReply
  <2>1. replies' \in Seq(AnswerFrame) /\ UNCHANGED <<sconf, tunnel, polls>>
    <3>1. \A S : \A q \in Seq(S) : q # <<>> => Tail(q) \in Seq(S)
          OBVIOUS
    <3>2. replies # <<>> /\ replies' = Tail(replies) /\ UNCHANGED <<sconf, tunnel, polls>>
          BY <1>4 DEF TakeReply
    <3>3. QED  BY <1>1, <3>1, <3>2
  <2>2. QED  BY <1>1, <1>4, <2>1, TakeReplyTypes, TypesKept
<1>5. CASE PollTimeout
  <2>1. /\ stream' = Unanswered /\ UNCHANGED <<sconf, tunnel, polls, replies>>
        /\ polls = <<>> \/ shist.faults < sconf.maxFaults
        /\ shist' = [shist EXCEPT !.faults = IF polls = <<>> THEN @ ELSE @ + 1]
        BY <1>5 DEF PollTimeout
  <2>2. shist' \in HistoryType
    <3> DEFINE f == IF polls = <<>> THEN shist.faults ELSE shist.faults + 1
    <3>1. shist.faults \in 0..sconf.maxFaults /\ sconf.maxFaults \in Nat
          BY <1>1, ScenarioParts DEF HistoryType, TypesInv
    <3>2. f \in 0..sconf.maxFaults
          BY <2>1, <3>1
    <3>3. shist' = [shist EXCEPT !.faults = f]
          BY <2>1
    <3> HIDE DEF f
    <3>4. QED  BY <1>1, <3>2, <3>3 DEF HistoryType
  <2>3. QED  BY <1>1, <2>1, <2>2, UnansweredTypes, TypesKept
<1>6. CASE StartFlush
  <2>1. UNCHANGED <<sconf, tunnel, polls, replies, shist>>
        BY <1>6 DEF StartFlush
  <2>2. QED  BY <1>1, <1>6, <2>1, StartFlushTypes, TypesKept
<1>7. CASE FlushEnd
  <2>1. UNCHANGED <<sconf, tunnel, polls, replies, shist>>
        BY <1>7 DEF FlushEnd
  <2>2. QED  BY <1>1, <1>7, <2>1, FlushEndTypes, TypesKept
<1>8. QED  BY <1>2, <1>3, <1>4, <1>5, <1>6, <1>7

\* What is polled for.
LEMMA PollSends ==
    ASSUME TypesInv, Poll
    PROVE  \E f \in ReadFrame : polls' = Append(polls, f)
<1>1. Mode \in {"plain", "flow", "probe"}
      BY DEF Mode, StreamType, TypesInv
<1>2. /\ [kind |-> "plain"] \in ReadFrame /\ [kind |-> "flow", ack |-> 0] \in ReadFrame
      /\ [kind |-> "flow", ack |-> stream.ack] \in ReadFrame
  <2>1. stream.ack \in Nat
        BY ScenarioParts DEF StreamType, TypesInv
  <2>2. QED  BY <2>1 DEF ReadFrame
<1>3. QED  BY <1>1, <1>2 DEF Poll

\* The frames the application sends.
LEMMA SendTypes ==
    ASSUME TypesInv, StartCommand \/ Poll
    PROVE  TypesInv'
<1>1. /\ tunnel \in TunnelType /\ shist \in HistoryType /\ replies \in Seq(AnswerFrame)
      /\ polls \in Seq(WriteFrame \cup ReadFrame) /\ sconf.chunks \in Nat
      BY ScenarioParts DEF TypesInv
<1>2. CASE StartCommand
  <2>1. UNCHANGED <<sconf, tunnel, replies, shist>>
        BY <1>2 DEF StartCommand
  <2>2. stream' \in StreamType /\ stream.n + 1 \in 1..sconf.maxOps
        BY <1>2, StartCommandTypes
  <2>3. write_message(stream.n + 1) \in Seq(WriteFrame \cup ReadFrame)
    <3>1. write_message(stream.n + 1) \in [1..sconf.chunks -> WriteFrame \cup ReadFrame]
          BY <2>2 DEF write_message, WriteFrame
    <3>2. QED  BY <1>1, <3>1, FunctionAsSeq
  <2>4. polls' \in Seq(WriteFrame \cup ReadFrame)
    <3>1. polls' = polls \o write_message(stream.n + 1)
          BY <1>2, ZenonT(30) DEF StartCommand
    <3>2. QED  BY <1>1, <2>3, <3>1, ConcatProperties
  <2>5. QED  BY <1>1, <2>1, <2>2, <2>4, TypesKept
<1>3. CASE Poll
  <2>1. UNCHANGED <<sconf, tunnel, replies, shist>>
        BY <1>3 DEF Poll
  <2>2. stream' \in StreamType
        BY <1>3, PollTypes
  <2>3. PICK f \in ReadFrame : polls' = Append(polls, f)
        BY <1>3, PollSends
  <2>4. polls' \in Seq(WriteFrame \cup ReadFrame)
        BY <1>1, <2>3
  <2>5. QED  BY <1>1, <2>1, <2>2, <2>4, TypesKept
<1>4. QED  BY <1>2, <1>3

\* The device takes a frame of a message: it is gathered, or the message is whole.
LEMMA TakeChunkTypes ==
    ASSUME TypesInv, NEW f \in WriteFrame, TakeChunk(f)
    PROVE  /\ tunnel' \in TunnelType /\ replies' = replies
           /\ \/ tunnel'.chunks = Append(tunnel.chunks, <<f.cmd, f.chunk>>)
              \/ tunnel'.chunks = <<>>
<1> DEFINE whole == Append(tunnel.chunks, <<f.cmd, f.chunk>>)
           intact == whole = [k \in 1..sconf.chunks |-> <<f.cmd, k>>]
           message == Printed(f.cmd, intact)
           queue == Append(tunnel.todo, message)
<1>1. tunnel \in TunnelType /\ sconf \in StreamScenarios
      BY DEF TypesInv
<1>2. \A S : \A s \in Seq(S) : \A x \in S : Append(s, x) \in Seq(S)
      OBVIOUS
<1>3. whole \in Seq((1..sconf.maxOps) \X (1..sconf.chunks))
      BY <1>1, <1>2 DEF WriteFrame, TunnelType
<1>4. f.cmd \in 1..sconf.maxOps
      BY DEF WriteFrame
<1>5. message \in Seq(Bytes)
      BY <1>1, <1>4, PrintedBytes
<1>6. queue \in Seq(Seq(Bytes)) /\ <<>> \in Seq((1..sconf.maxOps) \X (1..sconf.chunks))
  <2>1. tunnel.todo \in Seq(Seq(Bytes))
        BY <1>1 DEF TunnelType
  <2> HIDE DEF message
  <2>2. queue \in Seq(Seq(Bytes))
        BY <1>2, <1>5, <2>1
  <2>3. QED  BY <2>2
<1>7. /\ replies' = replies
      /\ \/ tunnel' = [tunnel EXCEPT !.chunks = whole]
         \/ tunnel' = [tunnel EXCEPT !.chunks = <<>>, !.todo = queue]
      BY DEF TakeChunk
<1> HIDE DEF whole, queue
<1>8. CASE tunnel' = [tunnel EXCEPT !.chunks = whole]
  <2>1. tunnel' \in TunnelType /\ tunnel'.chunks = whole
        BY ONLY <1>1, <1>3, <1>8 DEF TunnelType
  <2>2. QED  BY <1>7, <2>1 DEF whole
<1>9. CASE tunnel' = [tunnel EXCEPT !.chunks = <<>>, !.todo = queue]
  <2>1. tunnel' \in TunnelType /\ tunnel'.chunks = <<>>
        BY ONLY <1>1, <1>6, <1>9 DEF TunnelType
  <2>2. QED  BY <1>7, <2>1
<1>10. QED  BY <1>7, <1>8, <1>9

\* A plain poll is answered with a packet.
LEMMA AnswerPollTypes ==
    ASSUME TypesInv, AnswerPoll
    PROVE  tunnel' \in TunnelType /\ replies' \in Seq(AnswerFrame) /\ tunnel'.chunks = tunnel.chunks
<1> DEFINE data == First(tunnel.out, sconf.max)
           rest == Rest(tunnel.out, sconf.max)
           answer == [kind |-> "plain", number |-> 0, data |-> data]
<1>1. /\ tunnel \in TunnelType /\ tunnel.out \in Seq(Bytes) /\ sconf \in StreamScenarios
      /\ replies \in Seq(AnswerFrame)
      BY DEF TypesInv, TunnelType
<1>2. data \in Packets /\ rest \in Seq(Bytes)
      BY <1>1, PacketCut
<1>3. tunnel' = [tunnel EXCEPT !.out = rest] /\ replies' = Append(replies, answer)
      BY DEF AnswerPoll
<1> HIDE DEF data, rest
<1>4. 0 \in 0..(sconf.wrap - 1)
      BY <1>1, ScenarioParts
<1>5. answer \in AnswerFrame
      BY ONLY <1>2, <1>4 DEF AnswerFrame
<1> HIDE DEF answer
<1>6. replies' \in Seq(AnswerFrame)
      BY ONLY <1>1, <1>3, <1>5
<1>7. tunnel' \in TunnelType /\ tunnel'.chunks = tunnel.chunks
      BY ONLY <1>1, <1>2, <1>3 DEF TunnelType
<1>8. QED  BY <1>6, <1>7

\* A flow poll is answered with the packet last sent, or with a new one.
LEMMA AnswerFlowPollTypes ==
    ASSUME TypesInv, NEW f, AnswerFlowPoll(f)
    PROVE  tunnel' \in TunnelType /\ replies' \in Seq(AnswerFrame) /\ tunnel'.chunks = tunnel.chunks
<1> DEFINE data == First(tunnel.out, sconf.max)
           rest == Rest(tunnel.out, sconf.max)
           number == (tunnel.number + 1) % sconf.wrap
<1>1. /\ tunnel \in TunnelType /\ tunnel.out \in Seq(Bytes) /\ sconf \in StreamScenarios
      /\ replies \in Seq(AnswerFrame)
      BY DEF TypesInv, TunnelType
<1>2. data \in Packets /\ rest \in Seq(Bytes)
      BY <1>1, PacketCut
<1>3. number \in 0..(sconf.wrap - 1)
  <2>1. tunnel.number \in Int /\ sconf.wrap \in Nat \ {0}
        BY <1>1, ScenarioParts DEF TunnelType
  <2>2. QED  BY ONLY <2>1
<1>4. \/ /\ tunnel' = [tunnel EXCEPT !.number = number, !.packet = data, !.out = rest]
         /\ replies' = Append(replies, [kind |-> "flow", number |-> number, data |-> data])
      \/ /\ tunnel' = tunnel
         /\ replies' = Append(replies, [kind |-> "flow", number |-> tunnel.number,
                                        data |-> tunnel.packet])
      BY DEF AnswerFlowPoll
<1> HIDE DEF data, rest, number
<1>5. ASSUME NEW n \in 0..(sconf.wrap - 1), NEW d \in Packets,
             replies' = Append(replies, [kind |-> "flow", number |-> n, data |-> d])
      PROVE  replies' \in Seq(AnswerFrame)
  <2> DEFINE answer == [kind |-> "flow", number |-> n, data |-> d]
  <2>1. answer \in AnswerFrame
        BY ONLY <1>5 DEF AnswerFrame
  <2>2. replies' = Append(replies, answer)
        BY <1>5
  <2> HIDE DEF answer
  <2>3. QED  BY ONLY <1>1, <2>1, <2>2
<1>6. CASE /\ tunnel' = [tunnel EXCEPT !.number = number, !.packet = data, !.out = rest]
           /\ replies' = Append(replies, [kind |-> "flow", number |-> number, data |-> data])
  <2>1. tunnel' \in TunnelType /\ tunnel'.chunks = tunnel.chunks
        BY ONLY <1>1, <1>2, <1>3, <1>6 DEF TunnelType
  <2>2. QED  BY <1>2, <1>3, <1>5, <1>6, <2>1
<1>7. CASE /\ tunnel' = tunnel
           /\ replies' = Append(replies, [kind |-> "flow", number |-> tunnel.number,
                                          data |-> tunnel.packet])
  <2>1. tunnel.number \in 0..(sconf.wrap - 1) /\ tunnel.packet \in Packets
        BY <1>1 DEF TunnelType
  <2>2. QED  BY <1>1, <1>5, <1>7, <2>1
<1>8. QED  BY <1>4, <1>6, <1>7

\* The device serves the first frame under way.
LEMMA ServeTypes ==
    ASSUME TypesInv, ServePoll
    PROVE  /\ TypesInv' /\ stream' = stream /\ polls # <<>> /\ polls' = Tail(polls)
           /\ \/ tunnel'.chunks = tunnel.chunks
              \/ tunnel'.chunks = <<>>
              \/ /\ Head(polls) \in WriteFrame
                 /\ tunnel'.chunks = Append(tunnel.chunks, <<Head(polls).cmd, Head(polls).chunk>>)
<1> DEFINE f == Head(polls)
<1>1. /\ tunnel \in TunnelType /\ shist \in HistoryType /\ stream \in StreamType
      /\ polls \in Seq(WriteFrame \cup ReadFrame) /\ replies \in Seq(AnswerFrame)
      BY DEF TypesInv
<1>2. polls # <<>> /\ polls' = Tail(polls) /\ UNCHANGED <<sconf, stream, shist>>
      BY DEF ServePoll
<1>3. f \in WriteFrame \cup ReadFrame /\ polls' \in Seq(WriteFrame \cup ReadFrame)
  <2>1. \A S : \A q \in Seq(S) : q # <<>> => Head(q) \in S /\ Tail(q) \in Seq(S)
        OBVIOUS
  <2>2. QED  BY <1>1, <1>2, <2>1
<1>4. \/ f.kind = "write" /\ TakeChunk(f)
      \/ AnswerPoll
      \/ AnswerFlowPoll(f)
      \/ UNCHANGED <<tunnel, replies>>
      BY DEF ServePoll
<1> HIDE DEF f
<1>5. /\ tunnel' \in TunnelType /\ replies' \in Seq(AnswerFrame)
      /\ \/ tunnel'.chunks = tunnel.chunks
         \/ tunnel'.chunks = <<>>
         \/ f \in WriteFrame /\ tunnel'.chunks = Append(tunnel.chunks, <<f.cmd, f.chunk>>)
  <2>1. CASE f.kind = "write" /\ TakeChunk(f)
    <3>1. f \in WriteFrame
          BY <1>3, <2>1 DEF ReadFrame
    <3>2. QED  BY <1>1, <2>1, <3>1, TakeChunkTypes
  <2>2. CASE AnswerPoll
        BY <2>2, AnswerPollTypes
  <2>3. CASE AnswerFlowPoll(f)
        BY <2>3, AnswerFlowPollTypes
  <2>4. CASE UNCHANGED <<tunnel, replies>>
        BY <1>1, <2>4
  <2>5. QED  BY <1>4, <2>1, <2>2, <2>3, <2>4
<1>6. TypesInv'
      BY <1>1, <1>2, <1>3, <1>5, TypesKept
<1>7. QED  BY <1>2, <1>5, <1>6 DEF f

\* The device runs a command.
LEMMA RunTypes ==
    ASSUME TypesInv, RunCommand
    PROVE  TypesInv' /\ UNCHANGED <<stream, polls>> /\ tunnel'.chunks = tunnel.chunks
<1> DEFINE text == Head(tunnel.todo)
           rest == Tail(tunnel.todo)
           out == tunnel.out \o text
           printed == shist.printed \o text
<1>1. /\ tunnel \in TunnelType /\ shist \in HistoryType /\ stream \in StreamType
      /\ polls \in Seq(WriteFrame \cup ReadFrame) /\ replies \in Seq(AnswerFrame)
      BY DEF TypesInv
<1>2. tunnel.todo # <<>> /\ UNCHANGED <<sconf, stream, polls, replies>>
      BY DEF RunCommand
<1>3. tunnel' = [tunnel EXCEPT !.todo = rest, !.out = out]
      BY DEF RunCommand
<1>4. shist' = [shist EXCEPT !.printed = printed]
      BY DEF RunCommand
<1>5. text \in Seq(Bytes) /\ rest \in Seq(Seq(Bytes))
  <2>1. \A S : \A q \in Seq(S) : q # <<>> => Head(q) \in S /\ Tail(q) \in Seq(S)
        OBVIOUS
  <2>2. tunnel.todo \in Seq(Seq(Bytes))
        BY <1>1 DEF TunnelType
  <2>3. QED  BY <1>2, <2>1, <2>2
<1> HIDE DEF text, rest
<1>6. out \in Seq(Bytes) /\ printed \in Seq(Bytes)
  <2>1. tunnel.out \in Seq(Bytes) /\ shist.printed \in Seq(Bytes)
        BY <1>1 DEF TunnelType, HistoryType
  <2>2. QED  BY <1>5, <2>1, ConcatProperties
<1> HIDE DEF out, printed
<1>7. tunnel' \in TunnelType /\ tunnel'.chunks = tunnel.chunks
      BY ONLY <1>1, <1>3, <1>5, <1>6 DEF TunnelType
<1>8. shist' \in HistoryType
      BY ONLY <1>1, <1>4, <1>6 DEF HistoryType
<1>9. QED  BY <1>1, <1>2, <1>7, <1>8, TypesKept

\* A frame is lost.
LEMMA LoseTypes ==
    ASSUME TypesInv, LoseFrame
    PROVE  /\ TypesInv' /\ UNCHANGED <<stream, tunnel>>
           /\ \/ polls' = polls
              \/ polls # <<>> /\ polls' = Tail(polls)
<1>1. /\ tunnel \in TunnelType /\ shist \in HistoryType /\ stream \in StreamType
      /\ polls \in Seq(WriteFrame \cup ReadFrame) /\ replies \in Seq(AnswerFrame)
      BY DEF TypesInv
<1>2. \A S : \A q \in Seq(S) : q # <<>> => Tail(q) \in Seq(S)
      OBVIOUS
<1>3. /\ \/ polls' = polls
         \/ polls # <<>> /\ polls' = Tail(polls)
      /\ \/ replies' = replies
         \/ replies # <<>> /\ replies' = Tail(replies)
      /\ UNCHANGED <<sconf, stream, tunnel>>
  <2>1. UNCHANGED <<sconf, stream, tunnel>>
        BY DEF LoseFrame
  <2>2. CASE polls # <<>> /\ polls' = Tail(polls) /\ UNCHANGED replies
        BY <2>1, <2>2
  <2>3. CASE replies # <<>> /\ replies' = Tail(replies) /\ UNCHANGED polls
        BY <2>1, <2>3
  <2>4. QED  BY <2>2, <2>3 DEF LoseFrame
<1>4. \E lost \in BOOLEAN : shist' = [shist EXCEPT !.faults = @ + 1, !.lost = lost]
  <2>1. shist.lost \in BOOLEAN
        BY <1>1 DEF HistoryType
  <2>2. (shist.lost \/ Head(polls).kind = "write") \in BOOLEAN
        /\ (shist.lost \/ sconf.flow # "flow") \in BOOLEAN
        BY <2>1
  <2>3. QED  BY <2>2 DEF LoseFrame
<1>5. shist' \in HistoryType
  <2>1. PICK lost \in BOOLEAN : shist' = [shist EXCEPT !.faults = shist.faults + 1, !.lost = lost]
        BY <1>4
  <2>2. shist.faults + 1 \in 0..sconf.maxFaults
    <3>1. shist.faults \in 0..sconf.maxFaults /\ shist.faults < sconf.maxFaults
          /\ sconf.maxFaults \in Nat
          BY <1>1, ScenarioParts DEF HistoryType, TypesInv, LoseFrame
    <3>2. QED  BY ONLY <3>1
  <2>3. QED  BY ONLY <1>1, <2>1, <2>2 DEF HistoryType
<1>6. polls' \in Seq(WriteFrame \cup ReadFrame) /\ replies' \in Seq(AnswerFrame)
      BY <1>1, <1>2, <1>3
<1>7. QED  BY <1>1, <1>3, <1>5, <1>6, TypesKept

\* The device restarts.
LEMMA RestartTypes ==
    ASSUME TypesInv, Restart
    PROVE  TypesInv' /\ UNCHANGED <<stream, polls>> /\ tunnel'.chunks = <<>>
<1>1. /\ tunnel \in TunnelType /\ shist \in HistoryType /\ stream \in StreamType
      /\ polls \in Seq(WriteFrame \cup ReadFrame) /\ replies \in Seq(AnswerFrame)
      BY DEF TypesInv
<1>2. /\ UNCHANGED <<sconf, stream, polls, replies>> /\ shist.faults < sconf.maxFaults
      /\ tunnel' = [chunks |-> <<>>, todo |-> <<>>, out |-> <<>>, number |-> 0, packet |-> <<>>]
      /\ shist' = [shist EXCEPT !.faults = shist.faults + 1, !.lost = TRUE]
      BY DEF Restart
<1>3. shist.faults + 1 \in 0..sconf.maxFaults /\ 0 \in 0..(sconf.wrap - 1) /\ 0 \in 0..sconf.max
  <2>1. /\ shist.faults \in 0..sconf.maxFaults /\ sconf.maxFaults \in Nat
        /\ sconf.wrap \in Nat \ {0, 1} /\ sconf.max \in Nat
        BY <1>1, ScenarioParts DEF HistoryType, TypesInv
  <2>2. QED  BY ONLY <1>2, <2>1
<1>4. <<>> \in Packets
  <2>1. <<>> \in [1..0 -> Bytes]
        OBVIOUS
  <2>2. QED  BY <1>3, <2>1 DEF Packets
<1>5. tunnel' \in TunnelType /\ tunnel'.chunks = <<>>
      BY ONLY <1>2, <1>3, <1>4 DEF TunnelType
<1>6. shist' \in HistoryType
      BY ONLY <1>1, <1>2, <1>3 DEF HistoryType
<1>7. QED  BY <1>1, <1>2, <1>5, <1>6, TypesKept

\* Products of natural numbers, as the places of frames need them.
LEMMA Products ==
    ASSUME NEW a \in Nat, NEW c \in Nat
    PROVE  /\ a * c \in Nat /\ (a + 1) * c = a * c + c
           /\ \A b \in Nat : a <= b => a * c <= b * c
<1>1. a * c \in Nat /\ (a + 1) * c = a * c + c
      OBVIOUS
<1>2. ASSUME NEW b \in Nat, a <= b
      PROVE  a * c <= b * c
  <2>1. PICK d \in Nat : b = a + d
    <3>1. b - a \in Nat /\ b = a + (b - a)
          BY <1>2
    <3>2. QED  BY <3>1
  <2>2. b * c = a * c + d * c /\ d * c \in Nat /\ a * c \in Nat
        BY <2>1
  <2>3. QED  BY <2>2
<1>3. QED  BY <1>1, <1>2

\* What the order of frames is about.
LEMMA PlaceType ==
    ASSUME sconf \in StreamScenarios, NEW cmd \in 1..sconf.maxOps, NEW chunk \in 1..sconf.chunks
    PROVE  Place(cmd, chunk) \in Nat \ {0}
<1>1. sconf.chunks \in Nat /\ sconf.maxOps \in Nat
      BY ScenarioParts
<1>2. cmd - 1 \in Nat /\ chunk \in Nat \ {0}
      BY <1>1
<1>3. (cmd - 1) * sconf.chunks \in Nat
      BY <1>1, <1>2, Products
<1>4. QED  BY <1>2, <1>3 DEF Place

\* A frame that goes leaves the others in order.
LEMMA OrderTail ==
    ASSUME sconf \in StreamScenarios, NEW n \in Nat,
           NEW q \in Seq(WriteFrame \cup ReadFrame), q # <<>>,
           NEW c \in Seq((1..sconf.maxOps) \X (1..sconf.chunks)), OrderIn(q, c, n)
    PROVE  OrderIn(Tail(q), c, n)
<1>1. Len(Tail(q)) = Len(q) - 1 /\ Len(q) \in Nat /\ \A k \in 1..(Len(q) - 1) : Tail(q)[k] = q[k + 1]
  <2>1. \A S : \A s \in Seq(S) : s # <<>> =>
           Len(Tail(s)) = Len(s) - 1 /\ Len(s) \in Nat /\ \A k \in 1..(Len(s) - 1) : Tail(s)[k] = s[k + 1]
        OBVIOUS
  <2>2. QED  BY <2>1
<1>2. QED  BY <1>1, SMTT(60) DEF OrderIn

\* The device clears what it has gathered.
LEMMA OrderCleared ==
    ASSUME NEW n, NEW q, NEW c \in Seq((1..sconf.maxOps) \X (1..sconf.chunks)), OrderIn(q, c, n)
    PROVE  OrderIn(q, <<>>, n)
  BY DEF OrderIn

\* The device gathers the first frame.
LEMMA OrderTaken ==
    ASSUME sconf \in StreamScenarios, NEW n \in Nat,
           NEW q \in Seq(WriteFrame \cup ReadFrame), q # <<>>, Head(q) \in WriteFrame,
           NEW c \in Seq((1..sconf.maxOps) \X (1..sconf.chunks)), OrderIn(q, c, n)
    PROVE  OrderIn(Tail(q), Append(c, <<Head(q).cmd, Head(q).chunk>>), n)
<1> DEFINE x == <<Head(q).cmd, Head(q).chunk>>
           d == Append(c, x)
<1>1. /\ Len(Tail(q)) = Len(q) - 1 /\ Len(q) \in Nat \ {0} /\ Head(q) = q[1]
      /\ \A k \in 1..(Len(q) - 1) : Tail(q)[k] = q[k + 1]
  <2>1. \A S : \A s \in Seq(S) : s # <<>> =>
           /\ Len(Tail(s)) = Len(s) - 1 /\ Len(s) \in Nat \ {0} /\ Head(s) = s[1]
           /\ \A k \in 1..(Len(s) - 1) : Tail(s)[k] = s[k + 1]
        OBVIOUS
  <2>2. QED  BY <2>1
<1>2. /\ Len(d) = Len(c) + 1 /\ Len(c) \in Nat /\ d[Len(c) + 1] = x
      /\ \A k \in 1..Len(c) : d[k] = c[k]
  <2>1. \A S : \A s \in Seq(S) : \A y : /\ Len(Append(s, y)) = Len(s) + 1 /\ Len(s) \in Nat
           /\ Append(s, y)[Len(s) + 1] = y /\ \A k \in 1..Len(s) : Append(s, y)[k] = s[k]
        OBVIOUS
  <2>2. QED  BY <2>1
<1>3. /\ q[1].kind = "write" /\ x[1] = q[1].cmd /\ x[2] = q[1].chunk
      /\ q[1].cmd \in 1..sconf.maxOps /\ q[1].chunk \in 1..sconf.chunks
      BY <1>1 DEF WriteFrame
<1>4. Place(q[1].cmd, q[1].chunk) \in Nat \ {0}
      BY <1>3, PlaceType
<1> DEFINE P(f) == Place(f.cmd, f.chunk)
           G(y) == Place(y[1], y[2])
<1>5. \A k \in 1..Len(c) : G(c[k]) \in Nat
  <2>1. ASSUME NEW k \in 1..Len(c) PROVE G(c[k]) \in Nat
    <3>1. c[k] \in (1..sconf.maxOps) \X (1..sconf.chunks)
          BY ElementOfSeq
    <3>2. c[k][1] \in 1..sconf.maxOps /\ c[k][2] \in 1..sconf.chunks
          BY <3>1
    <3>3. QED  BY <3>2, PlaceType
  <2>2. QED  BY <2>1
<1>6. G(x) = P(q[1]) /\ P(q[1]) <= n * sconf.chunks
  <2>1. 1 \in 1..Len(q)
        BY <1>1
  <2>2. QED  BY <1>3, <2>1 DEF OrderIn
<1>7. \A k \in 1..Len(c) : G(c[k]) < P(q[1]) /\ k <= G(c[k]) /\ G(c[k]) <= n * sconf.chunks
  <2>1. 1 \in 1..Len(q)
        BY <1>1
  <2>2. QED  BY <1>3, <2>1 DEF OrderIn
<1>8. ASSUME NEW k \in 1..Len(Tail(q)), Tail(q)[k].kind = "write"
      PROVE  /\ P(Tail(q)[k]) <= n * sconf.chunks
             /\ \A j \in 1..(k - 1) : Tail(q)[j].kind = "write" => P(Tail(q)[j]) < P(Tail(q)[k])
             /\ \A j \in 1..Len(d) : G(d[j]) < P(Tail(q)[k])
  <2>1. k + 1 \in 1..Len(q) /\ Tail(q)[k] = q[k + 1] /\ 1 \in 1..((k + 1) - 1)
        BY <1>1
  <2>2. /\ P(q[k + 1]) <= n * sconf.chunks /\ P(q[1]) < P(q[k + 1])
        /\ \A j \in 1..((k + 1) - 1) : q[j].kind = "write" => P(q[j]) < P(q[k + 1])
        /\ \A j \in 1..Len(c) : G(c[j]) < P(q[k + 1])
        BY <1>3, <1>8, <2>1 DEF OrderIn
  <2>3. ASSUME NEW j \in 1..(k - 1), Tail(q)[j].kind = "write"
        PROVE  P(Tail(q)[j]) < P(Tail(q)[k])
    <3>1. j + 1 \in 1..((k + 1) - 1) /\ Tail(q)[j] = q[j + 1]
          BY <1>1, <2>1
    <3>2. QED  BY <2>1, <2>2, <2>3, <3>1
  <2>4. ASSUME NEW j \in 1..Len(d) PROVE G(d[j]) < P(Tail(q)[k])
    <3>1. CASE j = Len(c) + 1
          BY <1>2, <1>6, <2>1, <2>2, <3>1
    <3>2. CASE j # Len(c) + 1
      <4>1. j \in 1..Len(c)
            BY <1>2, <3>2
      <4>2. QED  BY <1>2, <2>1, <2>2, <4>1
    <3>3. QED  BY <3>1, <3>2
  <2>5. QED  BY <2>1, <2>2, <2>3, <2>4
<1>9. ASSUME NEW k \in 1..Len(d)
      PROVE  k <= G(d[k]) /\ G(d[k]) <= n * sconf.chunks
  <2>1. CASE k \in 1..Len(c)
        BY <1>2, <1>7, <2>1
  <2>2. CASE k = Len(c) + 1
    <3>1. k <= P(q[1])
      <4>1. CASE Len(c) = 0
            BY <1>4, <2>2, <4>1
      <4>2. CASE Len(c) # 0
        <5>1. Len(c) \in 1..Len(c)
              BY <1>2, <4>2
        <5>2. G(c[Len(c)]) < P(q[1]) /\ Len(c) <= G(c[Len(c)]) /\ G(c[Len(c)]) \in Nat
              BY <1>5, <1>7, <5>1
        <5> HIDE DEF P, G
        <5>3. P(q[1]) \in Nat
              BY <1>4 DEF P
        <5>4. QED  BY <1>2, <2>2, <5>2, <5>3
      <4>3. QED  BY <4>1, <4>2
    <3>2. QED  BY <1>2, <1>6, <2>2, <3>1
  <2>3. QED  BY <1>2, <2>1, <2>2
<1>10. QED  BY <1>8, <1>9 DEF OrderIn

\* The application writes another message.
LEMMA OrderWritten ==
    ASSUME sconf \in StreamScenarios, NEW n \in Nat, n + 1 \in 1..sconf.maxOps,
           NEW q \in Seq(WriteFrame \cup ReadFrame),
           NEW c \in Seq((1..sconf.maxOps) \X (1..sconf.chunks)), OrderIn(q, c, n)
    PROVE  OrderIn(q \o write_message(n + 1), c, n + 1)
<1> DEFINE m == write_message(n + 1)
           r == q \o m
           P(f) == Place(f.cmd, f.chunk)
           G(y) == Place(y[1], y[2])
           base == n * sconf.chunks
           top == (n + 1) * sconf.chunks
<1>1. sconf.chunks \in Nat \ {0} /\ base \in Nat /\ top = base + sconf.chunks
      BY ScenarioParts, Products
<1>2. m \in [1..sconf.chunks -> WriteFrame] /\ Len(m) = sconf.chunks /\ m \in Seq(WriteFrame)
  <2>1. m \in [1..sconf.chunks -> WriteFrame]
        BY <1>1 DEF write_message, WriteFrame
  <2>2. QED  BY <1>1, <2>1, FunctionAsSeq
<1>3. \A k \in 1..sconf.chunks : m[k].kind = "write" /\ P(m[k]) = base + k
  <2>1. ASSUME NEW k \in 1..sconf.chunks PROVE m[k].kind = "write" /\ P(m[k]) = base + k
    <3>1. m[k] = [kind |-> "write", cmd |-> n + 1, chunk |-> k]
          BY DEF write_message
    <3> HIDE DEF m
    <3>2. m[k].kind = "write" /\ m[k].cmd = n + 1 /\ m[k].chunk = k
          BY ONLY <3>1
    <3>3. P(m[k]) = ((n + 1) - 1) * sconf.chunks + k
          BY ONLY <3>2 DEF P, Place
    <3>4. (n + 1) - 1 = n
          OBVIOUS
    <3>5. P(m[k]) = base + k
      <4> HIDE DEF P
      <4> QED  BY ONLY <3>3, <3>4 DEF base
    <3>6. QED  BY <3>2, <3>5
  <2>2. QED  BY <2>1
<1>4. /\ Len(q) \in Nat /\ Len(r) = Len(q) + sconf.chunks
      /\ \A k \in 1..Len(q) : r[k] = q[k]
      /\ \A k \in (Len(q) + 1)..(Len(q) + sconf.chunks) : r[k] = m[k - Len(q)]
  <2> HIDE DEF m
  <2>1. m \in Seq(WriteFrame \cup ReadFrame)
        BY <1>2
  <2>2. /\ Len(q) \in Nat /\ Len(r) = Len(q) + Len(m)
        /\ \A k \in 1..Len(q) : r[k] = q[k]
        /\ \A k \in (Len(q) + 1)..(Len(q) + Len(m)) : r[k] = m[k - Len(q)]
    <3>1. \A S : \A s, u \in Seq(S) :
             /\ Len(s) \in Nat /\ Len(s \o u) = Len(s) + Len(u)
             /\ \A k \in 1..Len(s) : (s \o u)[k] = s[k]
             /\ \A k \in (Len(s) + 1)..(Len(s) + Len(u)) : (s \o u)[k] = u[k - Len(s)]
          OBVIOUS
    <3>2. QED  BY <2>1, <3>1
  <2>3. QED  BY <1>2, <2>2
<1> HIDE DEF m, r, base, top
<1>5. /\ \A k \in 1..Len(q) : q[k].kind = "write" =>
            /\ P(q[k]) <= base
            /\ \A j \in 1..(k - 1) : q[j].kind = "write" => P(q[j]) < P(q[k])
            /\ \A j \in 1..Len(c) : G(c[j]) < P(q[k])
      /\ \A k \in 1..Len(c) : k <= G(c[k]) /\ G(c[k]) <= base
      BY DEF OrderIn, base
<1>6. /\ \A k \in 1..Len(c) : G(c[k]) \in Nat
      /\ \A k \in 1..Len(q) : q[k].kind = "write" => P(q[k]) \in Nat
  <2>1. ASSUME NEW k \in 1..Len(c) PROVE G(c[k]) \in Nat
    <3>1. c[k] \in (1..sconf.maxOps) \X (1..sconf.chunks)
          BY ElementOfSeq
    <3>2. c[k][1] \in 1..sconf.maxOps /\ c[k][2] \in 1..sconf.chunks
          BY <3>1
    <3>3. QED  BY <3>2, PlaceType
  <2>2. ASSUME NEW k \in 1..Len(q), q[k].kind = "write" PROVE P(q[k]) \in Nat
    <3>1. q[k] \in WriteFrame
      <4>1. q[k] \in WriteFrame \cup ReadFrame
            BY ElementOfSeq
      <4>2. QED  BY <2>2, <4>1 DEF ReadFrame
    <3>2. q[k].cmd \in 1..sconf.maxOps /\ q[k].chunk \in 1..sconf.chunks
          BY <3>1 DEF WriteFrame
    <3>3. QED  BY <3>2, PlaceType
  <2>3. QED  BY <2>1, <2>2
<1> HIDE DEF P, G
<1>7. ASSUME NEW k \in 1..Len(r), r[k].kind = "write"
      PROVE  /\ P(r[k]) <= top
             /\ \A j \in 1..(k - 1) : r[j].kind = "write" => P(r[j]) < P(r[k])
             /\ \A j \in 1..Len(c) : G(c[j]) < P(r[k])
  <2>1. CASE k \in 1..Len(q)
    <3>1. r[k] = q[k] /\ \A j \in 1..(k - 1) : r[j] = q[j]
          BY <1>4, <2>1, SMTT(60)
    <3>2. P(q[k]) <= base /\ P(q[k]) \in Nat
          BY <1>5, <1>6, <1>7, <2>1, <3>1
    <3>3. P(q[k]) <= top
          BY <1>1, <3>2
    <3>4. QED  BY <1>5, <1>7, <2>1, <3>1, <3>3
  <2>2. CASE k \notin 1..Len(q)
    <3>1. k \in (Len(q) + 1)..(Len(q) + sconf.chunks) /\ k - Len(q) \in 1..sconf.chunks
          BY <1>1, <1>4, <2>2, SMTT(60)
    <3>2. P(r[k]) = base + (k - Len(q))
          BY <1>3, <1>4, <3>1
    <3>3. P(r[k]) \in Nat /\ P(r[k]) <= top /\ P(r[k]) > base
          BY <1>1, <1>4, <3>1, <3>2, SMTT(60)
    <3>4. ASSUME NEW j \in 1..(k - 1), r[j].kind = "write" PROVE P(r[j]) < P(r[k])
      <4>1. CASE j \in 1..Len(q)
        <5>1. P(q[j]) <= base /\ P(q[j]) \in Nat /\ r[j] = q[j]
              BY <1>4, <1>5, <1>6, <3>4, <4>1
        <5>2. QED  BY <1>1, <3>3, <5>1
      <4>2. CASE j \notin 1..Len(q)
        <5>1. j \in (Len(q) + 1)..(Len(q) + sconf.chunks) /\ j - Len(q) \in 1..sconf.chunks
              BY <1>1, <1>4, <3>1, <4>2, SMTT(60)
        <5>2. P(r[j]) = base + (j - Len(q))
              BY <1>3, <1>4, <5>1
        <5>3. QED  BY <1>1, <1>4, <3>1, <3>2, <5>1, <5>2, SMTT(60)
      <4>3. QED  BY <4>1, <4>2
    <3>5. ASSUME NEW j \in 1..Len(c) PROVE G(c[j]) < P(r[k])
      <4>1. G(c[j]) <= base /\ G(c[j]) \in Nat
            BY <1>5, <1>6
      <4>2. QED  BY <1>1, <3>3, <4>1
    <3>6. QED  BY <3>3, <3>4, <3>5
  <2>3. QED  BY <2>1, <2>2
<1>8. ASSUME NEW k \in 1..Len(c)
      PROVE  k <= G(c[k]) /\ G(c[k]) <= top
  <2>1. k <= G(c[k]) /\ G(c[k]) <= base /\ G(c[k]) \in Nat
        BY <1>5, <1>6
  <2>2. QED  BY <1>1, <2>1, SMTT(60)
<1>9. QED  BY <1>7, <1>8 DEF OrderIn, P, G, r, m, top

\* An operation that writes nothing, and a poll.
LEMMA OrderLater ==
    ASSUME sconf \in StreamScenarios, NEW n \in Nat,
           NEW q \in Seq(WriteFrame \cup ReadFrame),
           NEW c \in Seq((1..sconf.maxOps) \X (1..sconf.chunks)), OrderIn(q, c, n)
    PROVE  /\ OrderIn(q, c, n + 1)
           /\ \A f \in ReadFrame : OrderIn(Append(q, f), c, n)
<1> DEFINE P(f) == Place(f.cmd, f.chunk)
           G(y) == Place(y[1], y[2])
<1>1. /\ \A k \in 1..Len(c) : G(c[k]) \in Nat
      /\ \A k \in 1..Len(q) : q[k].kind = "write" => P(q[k]) \in Nat
  <2>1. ASSUME NEW k \in 1..Len(c) PROVE G(c[k]) \in Nat
    <3>1. c[k] \in (1..sconf.maxOps) \X (1..sconf.chunks)
          BY ElementOfSeq
    <3>2. c[k][1] \in 1..sconf.maxOps /\ c[k][2] \in 1..sconf.chunks
          BY <3>1
    <3>3. QED  BY <3>2, PlaceType
  <2>2. ASSUME NEW k \in 1..Len(q), q[k].kind = "write" PROVE P(q[k]) \in Nat
    <3>1. q[k] \in WriteFrame
      <4>1. q[k] \in WriteFrame \cup ReadFrame
            BY ElementOfSeq
      <4>2. QED  BY <2>2, <4>1 DEF ReadFrame
    <3>2. q[k].cmd \in 1..sconf.maxOps /\ q[k].chunk \in 1..sconf.chunks
          BY <3>1 DEF WriteFrame
    <3>3. QED  BY <3>2, PlaceType
  <2>3. QED  BY <2>1, <2>2
<1>2. OrderIn(q, c, n + 1)
  <2> DEFINE base == n * sconf.chunks
             top == (n + 1) * sconf.chunks
  <2>1. base \in Nat /\ top \in Nat /\ base <= top
        BY ScenarioParts, Products
  <2>2. /\ \A k \in 1..Len(q) : q[k].kind = "write" =>
              /\ P(q[k]) <= base
              /\ \A j \in 1..(k - 1) : q[j].kind = "write" => P(q[j]) < P(q[k])
              /\ \A j \in 1..Len(c) : G(c[j]) < P(q[k])
        /\ \A k \in 1..Len(c) : k <= G(c[k]) /\ G(c[k]) <= base
        BY DEF OrderIn
  <2> HIDE DEF base, top, P, G
  <2>3. /\ \A k \in 1..Len(q) : q[k].kind = "write" => P(q[k]) <= top
        /\ \A k \in 1..Len(c) : G(c[k]) <= top
        BY <1>1, <2>1, <2>2, SMTT(60)
  <2>4. QED  BY <2>2, <2>3 DEF OrderIn, top, P, G
<1>3. ASSUME NEW f \in ReadFrame PROVE OrderIn(Append(q, f), c, n)
  <2> DEFINE r == Append(q, f)
  <2>1. /\ Len(r) = Len(q) + 1 /\ Len(q) \in Nat /\ r[Len(q) + 1] = f
        /\ \A k \in 1..Len(q) : r[k] = q[k]
    <3>1. \A S : \A s \in Seq(S) : \A y : /\ Len(Append(s, y)) = Len(s) + 1 /\ Len(s) \in Nat
             /\ Append(s, y)[Len(s) + 1] = y /\ \A k \in 1..Len(s) : Append(s, y)[k] = s[k]
          OBVIOUS
    <3>2. QED  BY <3>1
  <2>2. f.kind # "write"
        BY DEF ReadFrame
  <2> HIDE DEF r
  <2>3. \A k \in 1..Len(r) : r[k].kind = "write" =>
           /\ k \in 1..Len(q) /\ r[k] = q[k] /\ \A j \in 1..(k - 1) : r[j] = q[j]
        BY <2>1, <2>2
  <2>4. QED  BY <2>3 DEF OrderIn, r
<1>4. QED  BY <1>2, <1>3

\* Every step keeps the types and the order of the frames.
LEMMA TypesNext == TypesInv /\ WriteOrder /\ [StreamNext]_streamVars => TypesInv' /\ WriteOrder'
<1> SUFFICES ASSUME TypesInv, WriteOrder, [StreamNext]_streamVars
             PROVE  TypesInv' /\ WriteOrder'
    OBVIOUS
<1> DEFINE Chunks == Seq((1..sconf.maxOps) \X (1..sconf.chunks))
<1>1. /\ sconf \in StreamScenarios /\ stream.n \in Nat
      /\ polls \in Seq(WriteFrame \cup ReadFrame) /\ tunnel.chunks \in Chunks
      /\ OrderIn(polls, tunnel.chunks, stream.n)
      BY DEF TypesInv, StreamType, TunnelType, WriteOrder
<1>2. ASSUME TypesInv', sconf' = sconf, OrderIn(polls', tunnel'.chunks, stream'.n)
      PROVE  WriteOrder'
      BY <1>2 DEF WriteOrder, OrderIn, Place
<1>3. CASE TakeLine \/ NeedData \/ TakeReply \/ PollTimeout \/ StartFlush \/ FlushEnd
  <2>1. sconf' = sconf
        BY <1>3 DEF TakeLine, NeedData, TakeReply, PollTimeout, StartFlush, FlushEnd
  <2>2. TypesInv' /\ stream'.n \in {stream.n, stream.n + 1} /\ tunnel' = tunnel /\ polls' = polls
        BY <1>3, HostTypes
  <2>3. OrderIn(polls', tunnel'.chunks, stream'.n)
        BY <1>1, <2>2, OrderLater
  <2>4. QED  BY <1>2, <2>1, <2>2, <2>3
<1>4. CASE StartCommand
  <2>1. sconf' = sconf /\ tunnel' = tunnel
        BY <1>4 DEF StartCommand
  <2>2. stream'.n = stream.n + 1 /\ stream.n + 1 \in 1..sconf.maxOps /\ TypesInv'
        BY <1>4, StartCommandTypes, SendTypes
  <2>3. polls' = polls \o write_message(stream.n + 1)
        BY <1>4, ZenonT(30) DEF StartCommand
  <2>4. OrderIn(polls', tunnel'.chunks, stream'.n)
        BY <1>1, <2>1, <2>2, <2>3, OrderWritten
  <2>5. QED  BY <1>2, <2>1, <2>2, <2>4
<1>5. CASE Poll
  <2>1. sconf' = sconf /\ tunnel' = tunnel
        BY <1>5 DEF Poll
  <2>2. TypesInv' /\ stream'.n = stream.n
        BY <1>5, SendTypes, PollTypes
  <2>3. \E f \in ReadFrame : polls' = Append(polls, f)
        BY <1>5, PollSends
  <2>4. OrderIn(polls', tunnel'.chunks, stream'.n)
        BY <1>1, <2>1, <2>2, <2>3, OrderLater
  <2>5. QED  BY <1>2, <2>1, <2>2, <2>4
<1>6. CASE ServePoll
  <2>1. sconf' = sconf
        BY <1>6 DEF ServePoll
  <2>2. /\ TypesInv' /\ stream' = stream /\ polls # <<>> /\ polls' = Tail(polls)
        /\ \/ tunnel'.chunks = tunnel.chunks
           \/ tunnel'.chunks = <<>>
           \/ /\ Head(polls) \in WriteFrame
              /\ tunnel'.chunks = Append(tunnel.chunks, <<Head(polls).cmd, Head(polls).chunk>>)
        BY <1>6, ServeTypes
  <2>3. OrderIn(polls', tunnel.chunks, stream'.n)
        BY <1>1, <2>2, OrderTail
  <2>4. CASE tunnel'.chunks = tunnel.chunks
        BY <1>2, <2>1, <2>2, <2>3, <2>4
  <2>5. CASE tunnel'.chunks = <<>>
        BY <1>1, <1>2, <2>1, <2>2, <2>3, <2>5, OrderCleared
  <2>6. CASE /\ Head(polls) \in WriteFrame
             /\ tunnel'.chunks = Append(tunnel.chunks, <<Head(polls).cmd, Head(polls).chunk>>)
    <3>1. OrderIn(polls', tunnel'.chunks, stream'.n)
          BY <1>1, <2>2, <2>6, OrderTaken
    <3>2. QED  BY <1>2, <2>1, <2>2, <3>1
  <2>7. QED  BY <2>2, <2>4, <2>5, <2>6
<1>7. CASE RunCommand
  <2>1. sconf' = sconf
        BY <1>7 DEF RunCommand
  <2>2. TypesInv' /\ UNCHANGED <<stream, polls>> /\ tunnel'.chunks = tunnel.chunks
        BY <1>7, RunTypes
  <2>3. QED  BY <1>1, <1>2, <2>1, <2>2
<1>8. CASE LoseFrame
  <2>1. sconf' = sconf
        BY <1>8 DEF LoseFrame
  <2>2. /\ TypesInv' /\ UNCHANGED <<stream, tunnel>>
        /\ \/ polls' = polls
           \/ polls # <<>> /\ polls' = Tail(polls)
        BY <1>8, LoseTypes
  <2>3. OrderIn(polls', tunnel'.chunks, stream'.n)
        BY <1>1, <2>2, OrderTail
  <2>4. QED  BY <1>2, <2>1, <2>2, <2>3
<1>9. CASE Restart
  <2>1. sconf' = sconf
        BY <1>9 DEF Restart
  <2>2. TypesInv' /\ UNCHANGED <<stream, polls>> /\ tunnel'.chunks = <<>>
        BY <1>9, RestartTypes
  <2>3. OrderIn(polls', tunnel'.chunks, stream'.n)
        BY <1>1, <2>2, OrderCleared
  <2>4. QED  BY <1>2, <2>1, <2>2, <2>3
<1>10. CASE UNCHANGED streamVars
  <2>1. /\ sconf' = sconf /\ stream' = stream /\ tunnel' = tunnel /\ polls' = polls
        /\ replies' = replies /\ shist' = shist
        BY <1>10 DEF streamVars
  <2>2. TypesInv'
        BY <2>1, TypesKept DEF TypesInv
  <2>3. QED  BY <1>1, <1>2, <2>1, <2>2
<1>11. QED
       BY <1>3, <1>4, <1>5, <1>6, <1>7, <1>8, <1>9, <1>10 DEF StreamNext, StreamStep

\* The typed states are those that TLC checks.
LEMMA TypesGiveTypeOK == TypesInv /\ WriteOrder => StreamTypeOK
<1> SUFFICES ASSUME TypesInv, WriteOrder PROVE StreamTypeOK
    OBVIOUS
<1>1. /\ stream \in StreamType /\ tunnel \in TunnelType /\ shist \in HistoryType
      /\ replies \in Seq(AnswerFrame) /\ sconf \in StreamScenarios
      BY DEF TypesInv
<1>2. /\ stream.pc \in {"idle", "line", "poll", "wait"} /\ stream.mode \in {"probe", "flow", "plain"}
      /\ stream.result \in {"none", "ok", "err", "timeout"} /\ stream.n \in 0..sconf.maxOps
      /\ stream.attempt \in 0..sconf.retries /\ stream.ack \in 0..(sconf.wrap - 1)
      /\ stream.buffer \in Seq(Bytes)
      BY ONLY <1>1 DEF StreamType
<1>3. /\ tunnel.number \in 0..(sconf.wrap - 1) /\ tunnel.packet \in Packets
      /\ tunnel.chunks \in Seq((1..sconf.maxOps) \X (1..sconf.chunks))
      BY ONLY <1>1 DEF TunnelType
<1>4. shist.faults \in 0..sconf.maxFaults /\ shist.lost \in BOOLEAN
      BY ONLY <1>1 DEF HistoryType
<1>5. \A k \in DOMAIN stream.buffer : stream.buffer[k] \in Bytes
      BY <1>2
<1>6. \A k \in DOMAIN replies : replies[k].kind \in {"plain", "flow"} /\ replies[k].data \in Packets
  <2>1. \A k \in DOMAIN replies : replies[k] \in AnswerFrame
        BY <1>1
  <2>2. QED  BY <2>1 DEF AnswerFrame
<1>7. Len(tunnel.chunks) <= 2 * sconf.maxOps * sconf.chunks
  <2> DEFINE c == tunnel.chunks
             all == sconf.maxOps * sconf.chunks
  <2>1. stream.n \in Nat /\ sconf.maxOps \in Nat /\ sconf.chunks \in Nat /\ stream.n <= sconf.maxOps
        BY <1>1, <1>2, ScenarioParts
  <2>2. stream.n * sconf.chunks <= all /\ stream.n * sconf.chunks \in Nat /\ all \in Nat
        /\ 2 * sconf.maxOps * sconf.chunks = all + all
        BY <2>1, Products
  <2>3. Len(c) \in Nat
        BY <1>3
  <2>4. CASE Len(c) = 0
        BY <2>2, <2>4
  <2>5. CASE Len(c) # 0
    <3>1. Len(c) \in 1..Len(c)
          BY <2>3, <2>5
    <3> DEFINE place == Place(c[Len(c)][1], c[Len(c)][2])
    <3>2. Len(c) <= place /\ place <= stream.n * sconf.chunks
          BY <3>1 DEF WriteOrder, OrderIn
    <3>3. place \in Nat
      <4>1. c[Len(c)] \in (1..sconf.maxOps) \X (1..sconf.chunks)
            BY <1>3, <3>1, ElementOfSeq
      <4>2. c[Len(c)][1] \in 1..sconf.maxOps /\ c[Len(c)][2] \in 1..sconf.chunks
            BY <4>1
      <4>3. QED  BY <1>1, <4>2, PlaceType
    <3> HIDE DEF place
    <3>4. QED  BY <2>2, <2>3, <3>2, <3>3
  <2>6. QED  BY <2>4, <2>5
<1>8. QED  BY <1>2, <1>3, <1>4, <1>5, <1>6, <1>7 DEF StreamTypeOK

\* The forms of the state hold in every run.
LEMMA TypesHold == StreamSpec => [](TypesInv /\ WriteOrder)
<1>1. StreamInit => TypesInv /\ WriteOrder
  <2> SUFFICES ASSUME StreamInit PROVE TypesInv /\ WriteOrder
      OBVIOUS
  <2>1. polls = <<>> /\ tunnel.chunks = <<>>
        BY DEF StreamInit
  <2>2. Len(polls) = 0 /\ Len(tunnel.chunks) = 0
        BY <2>1
  <2>3. WriteOrder
        BY <2>2 DEF WriteOrder, OrderIn
  <2>4. QED  BY <2>3, TypesInit
<1>2. TypesInv /\ WriteOrder /\ [StreamNext]_streamVars => (TypesInv /\ WriteOrder)'
      BY TypesNext
<1>3. QED  BY <1>1, <1>2, PTL DEF StreamSpec

\* The state of the stream, its device and the link has its form in every run,
\* for every scenario: the packet number and its acknowledgement stay within the
\* numbers that the protocol counts with, no frame carries more than it can
\* hold, attempts stay within the retries, and however frames are lost the
\* device never gathers more chunks than were written.
THEOREM StreamTypeCorrect == StreamSpec => []StreamTypeOK
<1>1. TypesInv /\ WriteOrder => StreamTypeOK
      BY TypesGiveTypeOK
<1>2. QED  BY <1>1, TypesHold, PTL

-----------------------------------------------------------------------------
(* Answers                                                                 *)

\* The runs CommandGetsItsReply speaks of.
Undisturbed ==
    /\ ~stream.abandoned /\ ~sconf.old /\ "oneline" \notin sconf.ops
    /\ ~shist.lost /\ (shist.faults = 0 \/ Reliable)

\* Without a fault host and device take turns: one poll or its answer is under
\* way, and only while the host awaits it.
Carried == IF replies = <<>> THEN <<>> ELSE Head(replies).data
Kind == IF Mode = "plain" THEN "plain" ELSE "flow"
Asks(f) == f.kind = Kind /\ (f.kind = "flow" => f.ack = stream.ack)
Turns ==
    /\ stream.mode = "probe" => stream.ack = 0
    /\ \A k \in 1..Len(polls) : polls[k].kind # "write" =>
          k = Len(polls) /\ stream.pc = "wait" /\ replies = <<>> /\ Asks(polls[k])
    /\ Len(replies) <= 1
    /\ replies = <<>> => tunnel.number = stream.ack
    /\ replies # <<>> =>
          /\ stream.pc = "wait" /\ polls = <<>> /\ Head(replies).kind = Kind
          /\ Kind = "flow" => tunnel.number # stream.ack /\ Head(replies).number = tunnel.number
          /\ Kind = "plain" => tunnel.number = stream.ack
    /\ shist.printed = shist.delivered \o (Carried \o tunnel.out)

\* What was printed and not delivered, and what the host has still to read of
\* all that the device has received.
Undelivered == Rest(shist.printed, Len(shist.delivered))
Todo == IF tunnel.todo = <<>> THEN <<>> ELSE Head(tunnel.todo)
Remaining == stream.buffer \o (Undelivered \o Todo)

\* The message is in frames that are under way and chunks that have arrived.
Writing == tunnel.chunks # <<>> \/ \E k \in 1..Len(polls) : polls[k].kind = "write"
UnderWay ==
    /\ \A k \in 1..Len(tunnel.chunks) : tunnel.chunks[k] = <<stream.n, k>>
    /\ \A c \in (Len(tunnel.chunks) + 1)..sconf.chunks :
          \E k \in 1..Len(polls) : polls[k] = [kind |-> "write", cmd |-> stream.n, chunk |-> c]
    /\ \A k \in 1..Len(polls) : polls[k].kind = "write" => polls[k].cmd = stream.n

\* The lines of an answer of which the first k bytes have been read.
DataLine(m) == <<[cmd |-> m, text |-> "data", at |-> 1]>>
LinesRead(k) == IF k = 0 THEN <<>> ELSE <<DataLine(stream.n)>>

Resting ==
    /\ ~Writing /\ Remaining = <<>> /\ (stream.pc = "idle" \/ stream.op = "flush")
    /\ stream.op = "command" /\ stream.result = "ok" => stream.lines = <<DataLine(stream.n)>>
Asking ==
    /\ Writing /\ UnderWay /\ Remaining = <<>>
    /\ stream.pc # "idle" /\ stream.op = "command" /\ stream.lines = <<>>
Reading ==
    /\ ~Writing /\ stream.pc # "idle" /\ stream.op = "command"
    /\ \E k \in {0, 2, 3} :
          Remaining = Rest(Printed(stream.n, TRUE), k) /\ stream.lines = LinesRead(k)

\* Between two commands nothing remains to be read; during one, what remains is
\* the rest of its answer.
AnswerInv ==
    /\ stream.op # "oneline" /\ (stream.pc = "line" => stream.op = "command")
    /\ stream.pc # "idle" => stream.result = "none" /\ stream.n # 0
    /\ Len(tunnel.todo) <= 1 /\ (Todo = <<>> => tunnel.todo = <<>>)
    /\ Resting \/ Asking \/ Reading

RepliesOwn == Undisturbed => (shist.faults = 0 => Turns) /\ AnswerInv

\* What follows a prefix.
LEMMA RestOfConcat ==
    ASSUME NEW S, NEW s \in Seq(S), NEW t \in Seq(S)
    PROVE  Rest(s \o t, Len(s)) = t
<1>1. s \o t \in Seq(S) /\ Len(s \o t) = Len(s) + Len(t) /\ Len(s) \in Nat /\ Len(t) \in Nat
      BY ConcatProperties
<1>2. CASE Len(t) = 0
  <2>1. t = <<>> /\ Rest(s \o t, Len(s)) = <<>>
        BY <1>1, <1>2, EmptySeq, SubSeqEmpty DEF Rest
  <2>2. QED  BY <2>1
<1>3. CASE Len(t) # 0
  <2>1. Rest(s \o t, Len(s)) = SubSeq(t, 1, Len(t))
    <3>1. Len(s) + 1 \in Len(s)+1 .. Len(s)+Len(t) /\ Len(s) + Len(t) \in Len(s)+1 .. Len(s)+Len(t)
          BY <1>1, <1>3
    <3>2. SubSeq(s \o t, Len(s) + 1, Len(s) + Len(t))
            = SubSeq(t, (Len(s) + 1) - Len(s), (Len(s) + Len(t)) - Len(s))
          BY <3>1, SubSeqOfConcat2
    <3>3. (Len(s) + 1) - Len(s) = 1 /\ (Len(s) + Len(t)) - Len(s) = Len(t)
          BY <1>1
    <3>4. QED  BY <1>1, <3>2, <3>3 DEF Rest
  <2>2. QED  BY <2>1, SubSeqFull
<1>4. QED  BY <1>2, <1>3

\* Equal prefixes are followed by equal sequences.
LEMMA ConcatCancels ==
    ASSUME NEW S, NEW s \in Seq(S), NEW t \in Seq(S), NEW u \in Seq(S), s \o t = s \o u
    PROVE  t = u
  BY RestOfConcat

\* What is left of a sequence is left of each of its extensions.
LEMMA RestOfExtended ==
    ASSUME NEW S, NEW s \in Seq(S), NEW t \in Seq(S), NEW n \in 0..Len(s)
    PROVE  Rest(s, n) \o t = Rest(s \o t, n)
<1>1. n \in Nat /\ First(s, n) \in Seq(S) /\ Rest(s, n) \in Seq(S) /\ First(s, n) \o Rest(s, n) = s
      BY FirstRest
<1>2. Len(First(s, n)) = n
  <2>1. Len(s) \in Nat /\ First(s, n) = SubSeq(s, 1, n)
        BY DEF First
  <2>2. \A i \in 1..n : s[i] \in S
        BY <2>1, ElementOfSeq
  <2>3. QED  BY <1>1, <2>1, <2>2, SubSeqProperties
<1> DEFINE f == First(s, n)
           r == Rest(s, n)
<1> HIDE DEF f, r
<1>3. f \in Seq(S) /\ r \in Seq(S) /\ f \o r = s /\ Len(f) = n
      BY <1>1, <1>2 DEF f, r
<1>4. (f \o r) \o t = f \o (r \o t) /\ r \o t \in Seq(S)
  <2>1. (f \o r) \o t = f \o (r \o t)
    <3>1. \A a, b, c \in Seq(S) : (a \o b) \o c = a \o (b \o c)
          BY ConcatAssociative, SMTT(60)
    <3>2. f \in Seq(S) /\ r \in Seq(S) /\ t \in Seq(S)
          BY <1>3
    <3>3. QED  BY ONLY <3>1, <3>2, Zenon
  <2>2. r \o t \in Seq(S)
        BY <1>3, ConcatProperties
  <2>3. QED  BY <2>1, <2>2
<1>5. Rest(f \o (r \o t), Len(f)) = r \o t
      BY <1>3, <1>4, RestOfConcat
<1>6. QED  BY <1>3, <1>4, <1>5 DEF r

-----------------------------------------------------------------------------
(* Lines                                                                   *)

\* The bytes of the answer to a command.
LEMMA AnswerBytes ==
    ASSUME sconf \in StreamScenarios, NEW m \in 1..sconf.maxOps
    PROVE  /\ Printed(m, TRUE) \in Seq(Bytes) /\ Len(Printed(m, TRUE)) = 5
           /\ \A k \in 1..5 : Printed(m, TRUE)[k] = [cmd |-> m, text |-> StreamText[k], at |-> k]
           /\ <<Printed(m, TRUE)[1]>> = DataLine(m)
<1>1. Len(StreamText) = 5 /\ StreamText[1] = "data"
      BY DEF StreamText
<1>2. Printed(m, TRUE) = [k \in 1..5 |-> [cmd |-> m, text |-> StreamText[k], at |-> k]]
      BY <1>1 DEF Printed
<1>3. Printed(m, TRUE) \in Seq(Bytes)
      BY PrintedBytes
<1> DEFINE p == Printed(m, TRUE)
<1> HIDE DEF p
<1>4. p = [k \in 1..5 |-> [cmd |-> m, text |-> StreamText[k], at |-> k]] /\ p \in Seq(Bytes)
      BY <1>2, <1>3 DEF p
<1>5. p \in [1..5 -> Bytes] /\ Len(p) = 5
  <2>1. DOMAIN p = 1..5 /\ DOMAIN p = 1..Len(p) /\ Len(p) \in Nat
        BY <1>4
  <2>2. QED  BY <1>4, <2>1
<1>6. \A k \in 1..5 : p[k] = [cmd |-> m, text |-> StreamText[k], at |-> k]
      BY ONLY <1>4
<1>7. <<p[1]>> = DataLine(m)
      BY <1>1, <1>6 DEF DataLine
<1>8. QED  BY <1>4, <1>5, <1>6, <1>7 DEF p

\* What is left of it after k bytes.
LEMMA RestBytes ==
    ASSUME NEW S, NEW s \in Seq(S), NEW k \in 0..Len(s)
    PROVE  /\ Rest(s, k) \in Seq(S) /\ Len(Rest(s, k)) = Len(s) - k
           /\ \A j \in 1..(Len(s) - k) : Rest(s, k)[j] = s[k + j]
<1>1. Len(s) \in Nat /\ Rest(s, k) = SubSeq(s, k + 1, Len(s))
      BY DEF Rest
<1>2. \A i \in (k + 1)..Len(s) : s[i] \in S
      BY <1>1, ElementOfSeq
<1>3. QED  BY <1>1, <1>2, SubSeqProperties

\* A rest of a rest.
LEMMA RestOfRest ==
    ASSUME NEW S, NEW s \in Seq(S), NEW k \in 0..Len(s), NEW j \in 0..(Len(s) - k)
    PROVE  Rest(Rest(s, k), j) = Rest(s, k + j)
<1>1. Len(s) \in Nat
      OBVIOUS
<1>2. Rest(s, k) \in Seq(S) /\ Len(Rest(s, k)) = Len(s) - k
      /\ \A i \in 1..(Len(s) - k) : Rest(s, k)[i] = s[k + i]
      BY RestBytes
<1> DEFINE r == Rest(s, k)
<1> HIDE DEF r
<1>3. r \in Seq(S) /\ Len(r) = Len(s) - k /\ \A i \in 1..(Len(s) - k) : r[i] = s[k + i]
      BY <1>2 DEF r
<1>4. Rest(r, j) \in Seq(S) /\ Len(Rest(r, j)) = Len(r) - j
      /\ \A i \in 1..(Len(r) - j) : Rest(r, j)[i] = r[j + i]
      BY <1>3, RestBytes, SMTT(60)
<1>5. k + j \in 0..Len(s)
      BY <1>1
<1>6. Rest(s, k + j) \in Seq(S) /\ Len(Rest(s, k + j)) = Len(s) - (k + j)
      /\ \A i \in 1..(Len(s) - (k + j)) : Rest(s, k + j)[i] = s[(k + j) + i]
      BY <1>5, RestBytes
<1>7. \A i \in 1..(Len(r) - j) : Rest(r, j)[i] = Rest(s, k + j)[i]
  <2> TAKE i \in 1..(Len(r) - j)
  <2>1. i \in 1..(Len(s) - (k + j)) /\ j + i \in 1..(Len(s) - k) /\ k + (j + i) = (k + j) + i
        BY <1>1, <1>3
  <2>2. QED  BY <1>3, <1>4, <1>6, <2>1
<1>8. Len(Rest(r, j)) = Len(Rest(s, k + j))
  <2>1. k \in Int /\ j \in Int /\ (Len(s) - k) - j = Len(s) - (k + j)
        BY <1>1
  <2>2. QED  BY <1>3, <1>4, <1>6, <2>1
<1>9. Rest(r, j) = Rest(s, k + j)
      BY <1>4, <1>6, <1>7, <1>8, SeqEqual
<1>10. QED  BY <1>9 DEF r

\* The first line in the buffer of an answer of which k bytes have been read.
LEMMA NextLine ==
    ASSUME sconf \in StreamScenarios, NEW m \in 1..sconf.maxOps, NEW b \in Seq(Bytes), NEW t \in Seq(Bytes),
           NEW k \in {0, 2, 3}, b \o t = Rest(Printed(m, TRUE), k),
           NEW pos \in Lines(b), \A j \in Lines(b) : pos <= j
    PROVE  /\ pos = IF k = 2 THEN 1 ELSE 2
           /\ SubSeq(b, 1, pos - 1) = IF k = 2 THEN <<>> ELSE <<Printed(m, TRUE)[k + 1]>>
           /\ Rest(b, pos) \o t = Rest(Printed(m, TRUE), k + pos)
<1> DEFINE p == Printed(m, TRUE)
<1>1. /\ p \in Seq(Bytes) /\ Len(p) = 5
      /\ \A j \in 1..5 : p[j] = [cmd |-> m, text |-> StreamText[j], at |-> j]
      BY AnswerBytes
<1> DEFINE r == b \o t
<1>2. r = Rest(p, k)
      OBVIOUS
<1>3. /\ r \in Seq(Bytes) /\ Len(r) = Len(b) + Len(t)
      /\ \A j \in 1..(Len(b) + Len(t)) : r[j] = IF j <= Len(b) THEN b[j] ELSE t[j - Len(b)]
      BY ConcatProperties
<1> HIDE DEF p, r
<1>4. r = Rest(p, k) /\ k \in 0..Len(p)
      BY <1>1, <1>2
<1>5. Len(r) = 5 - k /\ \A j \in 1..(5 - k) : r[j] = p[k + j]
  <2>1. Len(Rest(p, k)) = Len(p) - k /\ \A j \in 1..(Len(p) - k) : Rest(p, k)[j] = p[k + j]
    <3>1. \A q \in Seq(Bytes) : \A i \in 0..Len(q) :
             Len(Rest(q, i)) = Len(q) - i /\ \A j \in 1..(Len(q) - i) : Rest(q, i)[j] = q[i + j]
          BY RestBytes
    <3>2. p \in Seq(Bytes) /\ k \in 0..Len(p)
          BY <1>1, <1>4
    <3>3. QED  BY ONLY <3>1, <3>2, Zenon
  <2>2. QED  BY <1>1, <1>4, <2>1
<1>6. /\ Len(b) \in Nat /\ Len(t) \in Nat /\ Len(b) + Len(t) = 5 - k
      /\ \A j \in 1..Len(b) : b[j] = p[k + j]
  <2>1. Len(b) \in Nat /\ Len(t) \in Nat
        OBVIOUS
  <2>2. Len(b) + Len(t) = 5 - k
        BY <1>3, <1>5
  <2>3. ASSUME NEW j \in 1..Len(b)
        PROVE  b[j] = p[k + j]
    <3>1. j \in 1..(5 - k) /\ j \in 1..(Len(b) + Len(t)) /\ j <= Len(b)
          BY <2>1, <2>2
    <3>2. QED  BY <1>3, <1>5, <3>1
  <2>4. QED  BY <2>1, <2>2, <2>3
<1>7. Lines(b) = {j \in 1..Len(b) : StreamText[k + j] = "end"}
  <2>1. DOMAIN b = 1..Len(b)
        OBVIOUS
  <2>2. ASSUME NEW j \in 1..Len(b)
        PROVE  EndsLine(b[j]) <=> StreamText[k + j] = "end"
    <3>1. k + j \in 1..5
          BY <1>6
    <3>2. b[j].text = StreamText[k + j]
          BY <1>1, <1>6, <3>1
    <3>3. QED  BY <3>2 DEF EndsLine
  <2>3. QED  BY <2>1, <2>2 DEF Lines
<1>8. pos \in 1..Len(b) /\ StreamText[k + pos] = "end"
      BY <1>7
<1>9. pos = IF k = 2 THEN 1 ELSE 2
  <2>1. /\ StreamText[1] = "data" /\ StreamText[2] = "end" /\ StreamText[3] = "end"
        /\ StreamText[4] = "OK" /\ StreamText[5] = "end"
        BY DEF StreamText
  <2>2. CASE k = 2
    <3>1. 1 \in 1..Len(b) /\ k + 1 = 3
          BY <1>6, <1>8, <2>2
    <3>2. 1 \in Lines(b)
          BY <1>7, <2>1, <3>1
    <3>3. pos <= 1
          BY <3>2
    <3>4. QED  BY <1>6, <1>8, <2>2, <3>3
  <2>3. CASE k # 2
    <3>1. pos # 1 /\ k + 2 \in {2, 5}
          BY <1>8, <2>1, <2>3
    <3>2. 2 \in 1..Len(b)
          BY <1>6, <1>8, <3>1
    <3>3. 2 \in Lines(b)
          BY <1>7, <2>1, <3>1, <3>2
    <3>4. pos <= 2
          BY <3>3
    <3>5. QED  BY <1>6, <1>8, <2>3, <3>1, <3>4
  <2>4. QED  BY <2>2, <2>3
<1>10. SubSeq(b, 1, pos - 1) = IF k = 2 THEN <<>> ELSE <<p[k + 1]>>
  <2>1. CASE k = 2
        BY <1>9, <2>1, SubSeqEmpty
  <2>2. CASE k # 2
    <3>1. 1 \in 1..Len(b) /\ pos - 1 = 1
          BY <1>6, <1>8, <1>9, <2>2
    <3>2. SubSeq(b, 1, 1) = <<b[1]>>
      <4>1. SubSeq(b, 1, 1) = <<b[1]>> \o SubSeq(b, 1 + 1, 1) /\ 1 \in 1..Len(b)
            BY <3>1, SubSeqRecursiveFirst
      <4>2. SubSeq(b, 1 + 1, 1) = <<>> /\ <<b[1]>> \in Seq(Bytes)
        <5>1. b[1] \in Bytes
              BY <4>1, ElementOfSeq
        <5>2. QED  BY <5>1, SubSeqEmpty
      <4>3. QED  BY <4>1, <4>2, ConcatEmptySeq
    <3>3. QED  BY <1>6, <2>2, <3>1, <3>2
  <2>3. QED  BY <2>1, <2>2
<1>11. Rest(b, pos) \o t = Rest(p, k + pos)
  <2>1. pos \in 0..Len(b) /\ pos \in 0..(Len(p) - k)
        BY <1>1, <1>6, <1>8
  <2>2. Rest(b, pos) \o t = Rest(r, pos)
        BY <2>1, RestOfExtended DEF r
  <2>3. Rest(Rest(p, k), pos) = Rest(p, k + pos)
        BY <1>1, <1>4, <2>1, RestOfRest
  <2>4. QED  BY <1>4, <2>2, <2>3
<1>12. QED  BY <1>9, <1>10, <1>11 DEF p

\* What has not been delivered is bytes.
LEMMA RemainingBytes ==
    ASSUME TypesInv
    PROVE  /\ stream.buffer \in Seq(Bytes) /\ Undelivered \in Seq(Bytes) /\ Todo \in Seq(Bytes)
           /\ Undelivered \o Todo \in Seq(Bytes)
<1>1. stream.buffer \in Seq(Bytes)
      BY DEF TypesInv, StreamType
<1>2. Undelivered \in Seq(Bytes)
  <2>1. shist.printed \in Seq(Bytes) /\ shist.delivered \in Seq(Bytes)
        BY DEF TypesInv, HistoryType
  <2>2. Len(shist.delivered) \in Nat
        BY <2>1, LenProperties
  <2>3. QED  BY <2>1, <2>2, FirstRest DEF Undelivered
<1>3. Todo \in Seq(Bytes)
  <2>1. tunnel.todo \in Seq(Seq(Bytes))
        BY DEF TypesInv, TunnelType
  <2>2. \A S : \A q \in Seq(S) : q # <<>> => Head(q) \in S
        OBVIOUS
  <2>3. tunnel.todo # <<>> => Head(tunnel.todo) \in Seq(Bytes)
        BY <2>1, <2>2
  <2>4. QED  BY <2>3, EmptySeq DEF Todo
<1>4. QED  BY <1>1, <1>2, <1>3, ConcatProperties

\* Nothing remains: each of the three is empty.
LEMMA NothingRemains ==
    ASSUME TypesInv, Remaining = <<>>
    PROVE  stream.buffer = <<>> /\ Undelivered = <<>> /\ Todo = <<>>
<1> DEFINE b == stream.buffer
           u == Undelivered
           t == Todo
<1>1. b \in Seq(Bytes) /\ u \in Seq(Bytes) /\ t \in Seq(Bytes) /\ u \o t \in Seq(Bytes)
      BY RemainingBytes
<1>2. b \o (u \o t) = <<>>
      BY DEF Remaining
<1> HIDE DEF b, u, t
<1>3. b = <<>> /\ u \o t = <<>>
      BY <1>1, <1>2, ConcatEqualIffEmpty
<1>4. u = <<>> /\ t = <<>>
      BY <1>1, <1>3, ConcatEqualIffEmpty
<1>5. QED  BY <1>3, <1>4 DEF b, u, t

\* The host takes a line of the answer; the line that is OK is the last.
LEMMA LineAnswers ==
    ASSUME TypesInv, AnswerInv, TakeLine
    PROVE  AnswerInv'
<1> DEFINE b == stream.buffer
           t == Undelivered \o Todo
           m == stream.n
           p == Printed(m, TRUE)
           pos == CHOOSE k \in Lines(b) : \A j \in Lines(b) : k <= j
           line == SubSeq(b, 1, pos - 1)
           rest == Rest(b, pos)
           s == [stream EXCEPT !.buffer = rest]
<1>1. /\ stream \in StreamType /\ sconf \in StreamScenarios /\ b \in Seq(Bytes) /\ t \in Seq(Bytes)
      /\ stream.pc = "line" /\ Lines(b) # {} /\ stream.op = "command" /\ stream.result = "none"
      /\ stream.n # 0 /\ Len(tunnel.todo) <= 1 /\ (Todo = <<>> => tunnel.todo = <<>>)
      /\ UNCHANGED <<sconf, tunnel, polls, replies, shist>>
      BY RemainingBytes DEF TypesInv, TakeLine, AnswerInv
<1>2. m \in 1..sconf.maxOps
      BY <1>1, ScenarioParts DEF StreamType
<1>3. PICK k \in {0, 2, 3} : Remaining = Rest(p, k) /\ stream.lines = LinesRead(k) /\ ~Writing
  <2>1. Remaining # <<>>
    <3>1. ASSUME Remaining = <<>>
          PROVE  FALSE
      <4>1. b = <<>>
            BY <3>1, NothingRemains
      <4>2. Lines(b) = {}
            BY <4>1 DEF Lines
      <4>3. QED  BY <1>1, <4>2
    <3>2. QED  BY <3>1
  <2>2. Reading
        BY <2>1 DEF AnswerInv, Resting, Asking
  <2>3. QED  BY <2>2 DEF Reading
<1>4. pos \in Lines(b) /\ \A j \in Lines(b) : pos <= j
  <2>1. Lines(b) \subseteq 1..Len(b) /\ Len(b) \in Nat
        BY <1>1 DEF Lines
  <2>2. \E i \in Lines(b) : \A j \in Lines(b) : i <= j
        BY <1>1, <2>1, LeastNatural
  <2>3. QED  BY <2>2
<1>5. stream' = IF line = <<>> THEN s
                ELSE IF stream.op = "oneline"
                THEN [s EXCEPT !.pc = "idle", !.result = "ok", !.lines = <<line>>]
                ELSE IF line[1].text = "OK" THEN [s EXCEPT !.pc = "idle", !.result = "ok"]
                ELSE IF line[1].text = "ERR" THEN [s EXCEPT !.pc = "idle", !.result = "err"]
                ELSE [s EXCEPT !.lines = Append(@, line)]
      BY DEF TakeLine
<1> HIDE DEF pos, b, t, line, rest, p, m
<1>6. b \o t = Rest(p, k) /\ m = stream.n
      BY <1>3 DEF Remaining, b, t, m
<1>7. /\ pos = IF k = 2 THEN 1 ELSE 2
      /\ line = IF k = 2 THEN <<>> ELSE <<p[k + 1]>>
      /\ rest \o t = Rest(p, k + pos)
  <2>1. sconf \in StreamScenarios /\ b \in Seq(Bytes) /\ t \in Seq(Bytes)
        BY <1>1
  <2>2. b \o t = Rest(Printed(m, TRUE), k)
        BY <1>6 DEF p
  <2>3. /\ pos = IF k = 2 THEN 1 ELSE 2
        /\ SubSeq(b, 1, pos - 1) = IF k = 2 THEN <<>> ELSE <<Printed(m, TRUE)[k + 1]>>
        /\ Rest(b, pos) \o t = Rest(Printed(m, TRUE), k + pos)
    <3>1. k \in {0, 2, 3} /\ pos \in Lines(b) /\ \A j \in Lines(b) : pos <= j
          BY <1>4
    <3>2. QED  BY ONLY <1>2, <2>1, <2>2, <3>1, NextLine, ZenonT(60)
  <2>4. QED  BY <2>3 DEF line, rest, p
<1>8. p \in Seq(Bytes) /\ Len(p) = 5 /\ <<p[1]>> = DataLine(m)
      /\ \A j \in 1..5 : p[j] = [cmd |-> m, text |-> StreamText[j], at |-> j]
      BY <1>1, <1>2, AnswerBytes DEF p
<1>9. StreamText[1] = "data" /\ StreamText[4] = "OK"
      BY DEF StreamText
<1>10. (Undelivered \o Todo)' = t /\ (Writing' <=> Writing) /\ sconf' = sconf /\ tunnel' = tunnel
       BY <1>1 DEF Undelivered, Todo, Writing, t
<1>11. CASE k = 2
  <2>1. line = <<>> /\ rest \o t = Rest(p, 3)
        BY <1>7, <1>11
  <2>2. stream' = s
        BY <1>5, <2>1
  <2>3. /\ stream'.pc = "line" /\ stream'.op = "command" /\ stream'.result = "none"
        /\ stream'.n = m /\ stream'.lines = stream.lines /\ stream'.buffer = rest
        BY <1>1, <1>6, <2>2 DEF StreamType
  <2>4. Remaining' = Rest(p, 3) /\ stream'.lines = LinesRead(3)'
        BY <1>3, <1>6, <1>10, <1>11, <2>1, <2>3 DEF Remaining, LinesRead, DataLine
  <2>5. Printed(stream.n, TRUE)' = p
        BY <1>6, <1>10, <2>3 DEF Printed, p
  <2>6. Reading'
        BY <1>3, <1>10, <2>3, <2>4, <2>5 DEF Reading
  <2>7. QED  BY <1>1, <1>6, <1>10, <2>3, <2>6 DEF AnswerInv, Todo
<1>12. CASE k = 0
  <2>1. line = <<p[1]>> /\ rest \o t = Rest(p, 2)
        BY <1>7, <1>12
  <2>2. line # <<>> /\ line[1].text = "data"
    <3>1. p[1].text = "data"
          BY ONLY <1>8, <1>9
    <3>2. QED  BY <2>1, <3>1
  <2>3. stream' = [s EXCEPT !.lines = Append(@, line)]
        BY <1>1, <1>5, <2>2
  <2>4. stream.lines = <<>>
        BY <1>3, <1>12 DEF LinesRead
  <2>5. /\ stream'.pc = "line" /\ stream'.op = "command" /\ stream'.result = "none"
        /\ stream'.n = m /\ stream'.lines = Append(stream.lines, line) /\ stream'.buffer = rest
        BY <1>1, <1>6, <2>3 DEF StreamType
  <2>6. Remaining' = Rest(p, 2) /\ stream'.lines = LinesRead(2)'
    <3>1. stream'.lines = <<DataLine(m)>>
      <4>1. line = DataLine(m) /\ stream'.lines = Append(<<>>, line)
            BY <1>8, <2>1, <2>4, <2>5
      <4>2. QED  BY <4>1
    <3>2. LinesRead(2)' = <<DataLine(m)>>
          BY <1>6, <2>5 DEF LinesRead, DataLine
    <3>3. Remaining' = Rest(p, 2)
          BY <1>10, <2>1, <2>5 DEF Remaining
    <3>4. QED  BY <3>1, <3>2, <3>3
  <2>7. Printed(stream.n, TRUE)' = p
        BY <1>6, <1>10, <2>5 DEF Printed, p
  <2>8. Reading'
        BY <1>3, <1>10, <2>5, <2>6, <2>7 DEF Reading
  <2>9. QED  BY <1>1, <1>6, <1>10, <2>5, <2>8 DEF AnswerInv, Todo
<1>13. CASE k = 3
  <2>1. line = <<p[4]>> /\ rest \o t = Rest(p, 5)
        BY <1>7, <1>13
  <2>2. line # <<>> /\ line[1].text = "OK"
    <3>1. p[4].text = "OK"
          BY ONLY <1>8, <1>9
    <3>2. QED  BY <2>1, <3>1
  <2>3. stream' = [s EXCEPT !.pc = "idle", !.result = "ok"]
        BY <1>1, <1>5, <2>2
  <2>4. /\ stream'.pc = "idle" /\ stream'.op = "command" /\ stream'.result = "ok"
        /\ stream'.n = m /\ stream'.lines = stream.lines /\ stream'.buffer = rest
        BY <1>1, <1>6, <2>3 DEF StreamType
  <2>5. Rest(p, 5) = <<>>
    <3>1. Rest(p, 5) = SubSeq(p, 6, 5)
          BY <1>8 DEF Rest
    <3>2. QED  BY <3>1, SubSeqEmpty
  <2>6. Remaining' = <<>> /\ stream'.lines = <<DataLine(m)>>
        BY <1>3, <1>6, <1>10, <1>13, <2>1, <2>4, <2>5 DEF Remaining, LinesRead, DataLine
  <2>7. Resting'
        BY <1>3, <1>6, <1>10, <2>4, <2>6 DEF Resting, DataLine
  <2>8. QED  BY <1>1, <1>6, <1>10, <2>4, <2>7 DEF AnswerInv, Todo
<1>14. QED  BY <1>11, <1>12, <1>13

-----------------------------------------------------------------------------
(* Answers, step by step                                                   *)

\* A step that reads no line and sends, takes and loses no part of a message.
LEMMA AnswerKept ==
    ASSUME AnswerInv, sconf' = sconf,
           stream'.n = stream.n, stream'.op = stream.op, stream'.lines = stream.lines,
           stream'.result = stream.result,
           stream'.pc = stream.pc \/ (stream.pc # "idle" /\ stream'.pc # "idle"),
           stream'.pc = "line" => stream'.op = "command",
           tunnel'.todo = tunnel.todo \/ tunnel'.todo = <<>>,
           Writing' <=> Writing, UnderWay => UnderWay', Remaining' = Remaining
    PROVE  AnswerInv'
<1>1. Len(tunnel'.todo) <= 1 /\ (Todo = <<>> => tunnel.todo = <<>>)' /\ stream'.op # "oneline"
      /\ (stream'.pc # "idle" => stream'.result = "none" /\ stream'.n # 0)
      BY DEF AnswerInv, Todo
<1>2. CASE Resting
  <2>1. Resting'
        BY <1>2 DEF Resting, DataLine
  <2>2. QED  BY <1>1, <2>1 DEF AnswerInv
<1>3. CASE Asking
  <2>1. Asking'
        BY <1>3 DEF Asking
  <2>2. QED  BY <1>1, <2>1 DEF AnswerInv
<1>4. CASE Reading
  <2>1. PICK k \in {0, 2, 3} : Remaining = Rest(Printed(stream.n, TRUE), k) /\ stream.lines = LinesRead(k)
        BY <1>4 DEF Reading
  <2>2. Printed(stream.n, TRUE)' = Printed(stream.n, TRUE) /\ LinesRead(k)' = LinesRead(k)
        BY DEF Printed, LinesRead, DataLine
  <2>3. Reading'
        BY <1>4, <2>1, <2>2 DEF Reading
  <2>4. QED  BY <1>1, <2>3 DEF AnswerInv
<1>5. QED  BY <1>2, <1>3, <1>4 DEF AnswerInv

\* A poll joins or leaves the frames that are under way.
LEMMA WritesKept ==
    ASSUME TypesInv, sconf' = sconf, stream'.n = stream.n, tunnel'.chunks = tunnel.chunks,
           \/ polls' = polls
           \/ polls # <<>> /\ Head(polls).kind # "write" /\ polls' = Tail(polls)
           \/ \E f \in ReadFrame : polls' = Append(polls, f)
    PROVE  (Writing' <=> Writing) /\ (UnderWay => UnderWay')
<1>1. polls \in Seq(WriteFrame \cup ReadFrame) /\ Len(polls) \in Nat
      BY DEF TypesInv
<1>2. /\ \A k \in 1..Len(polls) : polls[k].kind = "write" =>
            \E j \in 1..Len(polls') : polls'[j] = polls[k]
      /\ \A j \in 1..Len(polls') : polls'[j].kind = "write" =>
            \E k \in 1..Len(polls) : polls'[j] = polls[k]
  <2>1. CASE polls' = polls
        BY <2>1
  <2>2. CASE polls # <<>> /\ Head(polls).kind # "write" /\ polls' = Tail(polls)
    <3>1. /\ Len(polls') = Len(polls) - 1 /\ Head(polls) = polls[1]
          /\ \A j \in 1..Len(polls') : polls'[j] = polls[j + 1]
          BY <1>1, <2>2
    <3>2. ASSUME NEW k \in 1..Len(polls), polls[k].kind = "write"
          PROVE  \E j \in 1..Len(polls') : polls'[j] = polls[k]
      <4>0. k # 1
            BY <2>2, <3>1, <3>2
      <4>1. k - 1 \in 1..Len(polls') /\ (k - 1) + 1 = k
            BY <1>1, <3>1, <4>0
      <4>2. polls'[k - 1] = polls[k]
            BY <3>1, <4>1
      <4>3. QED  BY <4>1, <4>2
    <3>3. \A j \in 1..Len(polls') : j + 1 \in 1..Len(polls)
          BY <1>1, <3>1
    <3>4. QED  BY <3>1, <3>2, <3>3
  <2>3. ASSUME NEW f \in ReadFrame, polls' = Append(polls, f)
        PROVE  <1>2!1 /\ <1>2!2
    <3>1. /\ Len(polls') = Len(polls) + 1 /\ polls'[Len(polls) + 1] = f
          /\ \A k \in 1..Len(polls) : polls'[k] = polls[k]
          BY <1>1, <2>3
    <3>2. f.kind # "write"
          BY DEF ReadFrame
    <3>3. 1..Len(polls') = (1..Len(polls)) \cup {Len(polls) + 1}
          BY <1>1, <3>1
    <3>4. QED  BY <3>1, <3>2, <3>3
  <2>4. QED  BY <2>1, <2>2, <2>3
<1>3. Writing' <=> Writing
      BY <1>2 DEF Writing
<1>4. ASSUME UnderWay
      PROVE  UnderWay'
  <2>1. \A k \in 1..Len(polls') : polls'[k].kind = "write" => polls'[k].cmd = stream'.n
        BY <1>2, <1>4 DEF UnderWay
  <2>2. ASSUME NEW c \in (Len(tunnel.chunks) + 1)..sconf.chunks
        PROVE  \E k \in 1..Len(polls') : polls'[k] = [kind |-> "write", cmd |-> stream.n, chunk |-> c]
    <3>1. PICK k \in 1..Len(polls) : polls[k] = [kind |-> "write", cmd |-> stream.n, chunk |-> c]
          BY <1>4 DEF UnderWay
    <3>2. polls[k].kind = "write"
          BY <3>1
    <3>3. QED  BY <1>2, <3>1, <3>2
  <2>3. QED  BY <1>4, <2>1, <2>2 DEF UnderWay
<1>5. QED  BY <1>3, <1>4

\* A command is sent when nothing remains of the one before.
LEMMA StartAnswers ==
    ASSUME TypesInv, AnswerInv, StartCommand, "oneline" \notin sconf.ops
    PROVE  AnswerInv'
<1> DEFINE m == stream.n + 1
           w == write_message(m)
<1>1. /\ stream \in StreamType /\ polls \in Seq(WriteFrame \cup ReadFrame)
      /\ sconf.chunks \in Nat \ {0} /\ stream.n \in Nat /\ m \in 1..sconf.maxOps
  <2>1. stream.n \in 0..sconf.maxOps /\ sconf.maxOps \in Nat
        BY ScenarioParts DEF TypesInv, StreamType
  <2>2. QED  BY <2>1, ScenarioParts, StartCommandTypes DEF TypesInv
<1>2. /\ stream.pc = "idle" /\ UNCHANGED <<sconf, tunnel, replies, shist>> /\ polls' = polls \o w
      /\ stream' = [stream EXCEPT !.pc = "line", !.op = "command", !.n = m, !.lines = <<>>,
                                  !.result = "none"]
      BY DEF StartCommand
<1>3. /\ ~Writing /\ Remaining = <<>> /\ Len(tunnel.todo) <= 1 /\ (Todo = <<>> => tunnel.todo = <<>>)
      BY <1>2 DEF AnswerInv, Resting, Asking, Reading
<1>4. /\ w \in Seq(WriteFrame \cup ReadFrame) /\ Len(w) = sconf.chunks
      /\ \A k \in 1..sconf.chunks : w[k] = [kind |-> "write", cmd |-> m, chunk |-> k]
  <2>1. w \in [1..sconf.chunks -> WriteFrame \cup ReadFrame]
        BY <1>1 DEF write_message, WriteFrame
  <2>2. \A k \in 1..sconf.chunks : w[k] = [kind |-> "write", cmd |-> m, chunk |-> k]
        BY DEF write_message
  <2> HIDE DEF w
  <2>3. QED  BY <1>1, <2>1, <2>2, FunctionAsSeq
<1> HIDE DEF m, w
<1>5. /\ Len(polls) \in Nat /\ Len(polls') = Len(polls) + sconf.chunks
      /\ \A k \in 1..Len(polls) : polls'[k] = polls[k]
      /\ \A k \in 1..sconf.chunks : polls'[Len(polls) + k] = w[k]
  <2>1. \A S : \A s, u \in Seq(S) :
           /\ Len(s) \in Nat /\ Len(s \o u) = Len(s) + Len(u)
           /\ \A k \in 1..Len(s) : (s \o u)[k] = s[k]
           /\ \A k \in 1..Len(u) : (s \o u)[Len(s) + k] = u[k]
        OBVIOUS
  <2>2. polls \in Seq(WriteFrame \cup ReadFrame) /\ w \in Seq(WriteFrame \cup ReadFrame)
        BY <1>1, <1>4
  <2>3. polls' = polls \o w /\ Len(w) = sconf.chunks
        BY <1>2, <1>4
  <2>4. QED  BY ONLY <2>1, <2>2, <2>3
<1>6. /\ stream'.pc = "line" /\ stream'.op = "command" /\ stream'.n = m /\ stream'.lines = <<>>
      /\ stream'.result = "none" /\ stream'.buffer = stream.buffer /\ m # 0
      BY ONLY <1>1, <1>2 DEF StreamType
<1>7. Remaining' = <<>>
      BY <1>2, <1>3, <1>6 DEF Remaining, Undelivered, Todo
<1>8. tunnel'.chunks = <<>> /\ \A k \in 1..Len(polls) : polls[k].kind # "write"
      BY <1>2, <1>3 DEF Writing
<1>9. ASSUME NEW c \in 1..sconf.chunks
      PROVE  /\ Len(polls) + c \in 1..Len(polls')
             /\ polls'[Len(polls) + c] = [kind |-> "write", cmd |-> m, chunk |-> c]
      BY <1>1, <1>4, <1>5
<1>10. Writing'
  <2>1. 1 \in 1..sconf.chunks
        BY <1>1
  <2>2. polls'[Len(polls) + 1].kind = "write" /\ Len(polls) + 1 \in 1..Len(polls')
    <3>1. /\ Len(polls) + 1 \in 1..Len(polls')
          /\ polls'[Len(polls) + 1] = [kind |-> "write", cmd |-> m, chunk |-> 1]
          BY <1>9, <2>1
    <3>2. QED  BY ONLY <3>1
  <2>3. QED  BY <2>2 DEF Writing
<1>11. UnderWay'
  <2>1. \A k \in 1..Len(polls') : polls'[k].kind = "write" => polls'[k].cmd = m
    <3> TAKE k \in 1..Len(polls')
    <3>1. CASE k \in 1..Len(polls)
          BY <1>5, <1>8, <3>1
    <3>2. CASE k \notin 1..Len(polls)
      <4>1. k - Len(polls) \in 1..sconf.chunks /\ Len(polls) + (k - Len(polls)) = k
            BY <1>1, <1>5, <3>2
      <4>2. polls'[k] = [kind |-> "write", cmd |-> m, chunk |-> k - Len(polls)]
            BY <1>9, <4>1
      <4>3. QED  BY <4>2
    <3>3. QED  BY <3>1, <3>2
  <2>2. \A c \in 1..sconf.chunks :
           \E k \in 1..Len(polls') : polls'[k] = [kind |-> "write", cmd |-> m, chunk |-> c]
        BY <1>9
  <2>3. Len(tunnel'.chunks) = 0 /\ sconf' = sconf
        BY <1>2, <1>8
  <2>4. QED  BY <1>6, <2>1, <2>2, <2>3 DEF UnderWay
<1>12. Asking'
       BY <1>6, <1>7, <1>10, <1>11 DEF Asking
<1>13. QED  BY <1>2, <1>3, <1>6, <1>12 DEF AnswerInv, Todo

\* The next part of the message that arrives is the one that is awaited.
LEMMA NextChunk ==
    ASSUME TypesInv, WriteOrder, UnderWay, polls # <<>>, Head(polls).kind = "write"
    PROVE  /\ Head(polls) \in WriteFrame
           /\ Head(polls).cmd = stream.n /\ Head(polls).chunk = Len(tunnel.chunks) + 1
           /\ \A k \in 2..Len(polls) : polls[k].kind = "write" => polls[k].chunk > Head(polls).chunk
           /\ \A k \in 1..Len(polls) : polls[k].kind = "write" => polls[k] \in WriteFrame
<1> DEFINE f == Head(polls)
           i == Len(tunnel.chunks)
           base == (stream.n - 1) * sconf.chunks
<1>1. /\ polls \in Seq(WriteFrame \cup ReadFrame) /\ Len(polls) \in Nat \ {0} /\ f = polls[1]
      /\ sconf.chunks \in Nat \ {0} /\ sconf.maxOps \in Nat /\ stream.n \in Nat
      /\ tunnel.chunks \in Seq((1..sconf.maxOps) \X (1..sconf.chunks)) /\ i \in Nat
  <2>1. stream.n \in 0..sconf.maxOps /\ sconf.maxOps \in Nat
        BY ScenarioParts DEF TypesInv, StreamType
  <2>2. polls \in Seq(WriteFrame \cup ReadFrame) /\ sconf \in StreamScenarios
        /\ tunnel.chunks \in Seq((1..sconf.maxOps) \X (1..sconf.chunks))
        BY DEF TypesInv, TunnelType
  <2>3. QED  BY <2>1, <2>2, ScenarioParts
<1>2. base \in Int
      BY <1>1
<1>3. ASSUME NEW k \in 1..Len(polls), polls[k].kind = "write"
      PROVE  /\ polls[k] \in WriteFrame /\ polls[k].cmd = stream.n /\ polls[k].chunk \in 1..sconf.chunks
             /\ Place(polls[k].cmd, polls[k].chunk) = base + polls[k].chunk
  <2>1. polls[k] \in WriteFrame \cup ReadFrame
        BY <1>1, ElementOfSeq
  <2>2. polls[k] \in WriteFrame
        BY <1>3, <2>1 DEF ReadFrame
  <2>3. QED  BY <1>3, <2>2 DEF UnderWay, WriteFrame, Place
<1> HIDE DEF base
<1>4. f \in WriteFrame /\ f.cmd = stream.n /\ f.chunk \in 1..sconf.chunks
      /\ Place(f.cmd, f.chunk) = base + f.chunk
  <2>1. 1 \in 1..Len(polls)
        BY <1>1
  <2>2. QED  BY <1>1, <1>3, <2>1
<1>5. ASSUME NEW k \in 2..Len(polls), polls[k].kind = "write"
      PROVE  polls[k].chunk > f.chunk
  <2>1. k \in 1..Len(polls) /\ 1 \in 1..(k - 1)
        BY <1>1
  <2>2. Place(polls[1].cmd, polls[1].chunk) < Place(polls[k].cmd, polls[k].chunk)
        BY <1>1, <1>5, <2>1 DEF WriteOrder, OrderIn
  <2>3. base + f.chunk < base + polls[k].chunk /\ polls[k].chunk \in 1..sconf.chunks
        BY <1>1, <1>3, <1>4, <1>5, <2>1, <2>2
  <2>4. QED  BY <1>1, <1>2, <1>4, <2>3
<1>6. i < f.chunk
  <2>1. CASE i = 0
        BY <1>1, <1>4, <2>1
  <2>2. CASE i # 0
    <3>1. i \in 1..i /\ 1 \in 1..Len(polls)
          BY <1>1, <2>2
    <3>2. tunnel.chunks[i] = <<stream.n, i>>
          BY <3>1 DEF UnderWay
    <3>3. Place(tunnel.chunks[i][1], tunnel.chunks[i][2]) < Place(f.cmd, f.chunk)
          BY <1>1, <3>1 DEF WriteOrder, OrderIn
    <3>4. base + i < base + f.chunk
          BY <1>4, <3>2, <3>3 DEF Place, base
    <3>5. QED  BY <1>1, <1>2, <1>4, <3>4
  <2>3. QED  BY <2>1, <2>2
<1>7. f.chunk = i + 1
  <2>1. i + 1 \in (i + 1)..sconf.chunks
        BY <1>1, <1>4, <1>6
  <2>2. PICK k \in 1..Len(polls) : polls[k] = [kind |-> "write", cmd |-> stream.n, chunk |-> i + 1]
        BY <2>1 DEF UnderWay
  <2>3. polls[k].kind = "write" /\ polls[k].chunk = i + 1
        BY <2>2
  <2>4. CASE k = 1
        BY <1>1, <2>3, <2>4
  <2>5. CASE k # 1
    <3>1. k \in 2..Len(polls)
          BY <1>1, <2>5
    <3>2. i + 1 > f.chunk
          BY <1>5, <2>3, <3>1
    <3>3. QED  BY <1>1, <1>4, <1>6, <3>2
  <2>6. QED  BY <2>4, <2>5
<1>8. QED  BY <1>3, <1>4, <1>5, <1>7

\* A part of the message arrives; with the last one the answer is due.
LEMMA ChunkAnswers ==
    ASSUME TypesInv, WriteOrder, AnswerInv, ServePoll, Head(polls).kind = "write"
    PROVE  AnswerInv'
<1> DEFINE f == Head(polls)
           m == stream.n
           p == Printed(m, TRUE)
           whole == Append(tunnel.chunks, <<f.cmd, f.chunk>>)
           i == Len(tunnel.chunks)
<1>1. /\ polls # <<>> /\ polls' = Tail(polls) /\ UNCHANGED <<sconf, stream, shist>> /\ TakeChunk(f)
      /\ sconf \in StreamScenarios /\ stream \in StreamType /\ tunnel \in TunnelType
      /\ polls \in Seq(WriteFrame \cup ReadFrame)
      BY DEF ServePoll, TypesInv
<1>2. /\ Len(polls) \in Nat \ {0} /\ f = polls[1] /\ Len(polls') = Len(polls) - 1
      /\ \A k \in 1..Len(polls') : polls'[k] = polls[k + 1]
      /\ sconf.chunks \in Nat \ {0} /\ i \in Nat
      BY <1>1, ScenarioParts DEF TunnelType
<1>3. Asking
  <2>1. 1 \in 1..Len(polls) /\ polls[1].kind = "write"
        BY <1>2
  <2>2. Writing
        BY <2>1 DEF Writing
  <2>3. QED  BY <2>2 DEF AnswerInv, Resting, Reading
<1>4. /\ UnderWay /\ Remaining = <<>> /\ stream.pc # "idle" /\ stream.op = "command"
      /\ stream.lines = <<>> /\ stream.result = "none" /\ m # 0
      BY <1>3 DEF Asking, AnswerInv
<1>5. /\ f \in WriteFrame /\ f.cmd = m /\ f.chunk = i + 1
      /\ \A k \in 2..Len(polls) : polls[k].kind = "write" => polls[k].chunk > f.chunk
      /\ \A k \in 1..Len(polls) : polls[k].kind = "write" => polls[k] \in WriteFrame
      BY <1>1, <1>4, NextChunk
<1>6. m \in 1..sconf.maxOps /\ f.chunk \in 1..sconf.chunks
      BY <1>4, <1>5 DEF WriteFrame
<1>7. /\ whole \in Seq((1..sconf.maxOps) \X (1..sconf.chunks)) /\ Len(whole) = i + 1
      /\ \A k \in 1..(i + 1) : whole[k] = <<m, k>>
  <2>1. /\ <<f.cmd, f.chunk>> \in (1..sconf.maxOps) \X (1..sconf.chunks)
        /\ tunnel.chunks \in Seq((1..sconf.maxOps) \X (1..sconf.chunks))
        BY <1>1, <1>5, <1>6 DEF TunnelType
  <2>2. /\ whole \in Seq((1..sconf.maxOps) \X (1..sconf.chunks)) /\ Len(whole) = i + 1
        /\ whole[i + 1] = <<f.cmd, f.chunk>> /\ \A k \in 1..i : whole[k] = tunnel.chunks[k]
        BY <2>1, AppendProperties
  <2>3. \A k \in 1..i : tunnel.chunks[k] = <<m, k>>
        BY <1>4 DEF UnderWay
  <2> HIDE DEF whole, f, m
  <2>4. 1..(i + 1) = (1..i) \cup {i + 1}
        BY <1>2
  <2>5. QED  BY <1>5, <2>2, <2>3, <2>4
<1>8. stream' = stream /\ sconf' = sconf /\ shist' = shist
      BY <1>1
<1>9. Len(tunnel.todo) <= 1 /\ tunnel.todo = <<>> /\ stream.buffer = <<>> /\ Undelivered = <<>>
      BY <1>4, NothingRemains DEF AnswerInv
<1>10. CASE f.chunk < sconf.chunks
  <2>1. tunnel' = [tunnel EXCEPT !.chunks = whole]
        BY <1>1, <1>10 DEF TakeChunk
  <2>2. tunnel'.chunks = whole /\ tunnel'.todo = tunnel.todo
        BY <1>1, <2>1 DEF TunnelType
  <2> HIDE DEF whole, f, m
  <2>3. Writing'
    <3>1. whole # <<>>
          BY <1>2, <1>7
    <3>2. QED  BY <2>2, <3>1 DEF Writing
  <2>4. UnderWay'
    <3>1. \A k \in 1..Len(polls') : polls'[k].kind = "write" => polls'[k].cmd = stream'.n
      <4>1. \A k \in 1..Len(polls') : k + 1 \in 1..Len(polls)
            BY <1>2
      <4>2. QED  BY <1>2, <1>4, <1>8, <4>1 DEF UnderWay
    <3>2. ASSUME NEW c \in (i + 2)..sconf.chunks
          PROVE  \E k \in 1..Len(polls') :
                    polls'[k] = [kind |-> "write", cmd |-> stream.n, chunk |-> c]
      <4>1. c \in (i + 1)..sconf.chunks
            BY <1>2
      <4>2. PICK k \in 1..Len(polls) : polls[k] = [kind |-> "write", cmd |-> stream.n, chunk |-> c]
            BY <1>4, <4>1 DEF UnderWay
      <4>3. polls[k].chunk = c
            BY <4>2
      <4>4. k # 1
            BY <1>2, <1>5, <4>3
      <4>5. k - 1 \in 1..Len(polls') /\ (k - 1) + 1 = k
            BY <1>2, <4>4
      <4>6. polls'[k - 1] = polls[k]
            BY <1>2, <4>5
      <4>7. QED  BY <4>2, <4>5, <4>6
    <3>3. Len(tunnel'.chunks) = i + 1 /\ (i + 1) + 1 = i + 2
          BY <1>2, <1>7, <2>2
    <3>4. \A k \in 1..Len(tunnel'.chunks) : tunnel'.chunks[k] = <<stream'.n, k>>
          BY <1>7, <1>8, <2>2 DEF m
    <3>5. QED  BY <1>8, <3>1, <3>2, <3>3, <3>4 DEF UnderWay
  <2>5. Remaining' = <<>>
        BY <1>4, <1>8, <2>2 DEF Remaining, Undelivered, Todo
  <2>6. Asking'
        BY <1>4, <1>8, <2>3, <2>4, <2>5 DEF Asking
  <2>7. QED  BY <1>4, <1>8, <1>9, <2>2, <2>6 DEF AnswerInv, Todo, m
<1>11. CASE ~(f.chunk < sconf.chunks)
  <2>1. f.chunk = sconf.chunks /\ i + 1 = sconf.chunks
        BY <1>2, <1>5, <1>6, <1>11
  <2>2. whole = [k \in 1..sconf.chunks |-> <<f.cmd, k>>]
    <3> HIDE DEF whole, f, m
    <3>1. whole \in [1..sconf.chunks -> (1..sconf.maxOps) \X (1..sconf.chunks)]
          BY <1>7, <2>1
    <3>2. \A k \in 1..sconf.chunks : whole[k] = <<f.cmd, k>>
          BY <1>5, <1>7, <2>1
    <3>3. QED  BY <3>1, <3>2
  <2>3. tunnel' = [tunnel EXCEPT !.chunks = <<>>, !.todo = Append(@, Printed(f.cmd, TRUE))]
        BY <1>1, <1>11, <2>2 DEF TakeChunk
  <2> HIDE DEF whole, f
  <2>4. tunnel'.chunks = <<>> /\ tunnel'.todo = <<p>>
    <3> DEFINE text == Printed(f.cmd, TRUE)
    <3>1. text = p
          BY <1>5
    <3> HIDE DEF text, p
    <3>2. tunnel' = [tunnel EXCEPT !.chunks = <<>>, !.todo = Append(tunnel.todo, text)]
          BY <2>3 DEF text
    <3>3. tunnel'.chunks = <<>> /\ tunnel'.todo = Append(tunnel.todo, text)
          BY ONLY <1>1, <3>2 DEF TunnelType
    <3>4. \A x : Append(<<>>, x) = <<x>>
          OBVIOUS
    <3>5. QED  BY <1>9, <3>1, <3>3, <3>4
  <2>5. ~Writing'
    <3>1. ASSUME NEW k \in 1..Len(polls'), polls'[k].kind = "write"
          PROVE  FALSE
      <4>1. k + 1 \in 2..Len(polls) /\ k + 1 \in 1..Len(polls) /\ polls'[k] = polls[k + 1]
            BY <1>2
      <4>2. polls[k + 1] \in WriteFrame /\ polls[k + 1].chunk > f.chunk
            BY <1>5, <3>1, <4>1
      <4>3. polls[k + 1].chunk \in 1..sconf.chunks
            BY <4>2 DEF WriteFrame
      <4>4. QED  BY <1>2, <2>1, <4>2, <4>3
    <3>2. QED  BY <2>4, <3>1 DEF Writing
  <2>6. p \in Seq(Bytes) /\ Len(p) = 5
        BY <1>1, <1>6, AnswerBytes
  <2> HIDE DEF p
  <2>7. Todo' = p /\ Len(tunnel'.todo) <= 1 /\ p # <<>>
    <3>1. \A x : <<x>> # <<>> /\ Head(<<x>>) = x /\ Len(<<x>>) = 1
          OBVIOUS
    <3>2. Todo' = IF tunnel'.todo = <<>> THEN <<>> ELSE Head(tunnel'.todo)
          BY DEF Todo
    <3>3. p # <<>>
          BY <2>6
    <3>4. QED  BY <2>4, <3>1, <3>2, <3>3
  <2>8. Remaining' = p
    <3>1. stream'.buffer = <<>> /\ Undelivered' = <<>>
          BY <1>8, <1>9 DEF Undelivered
    <3>2. <<>> \o (<<>> \o p) = p
          BY <2>6, ConcatEmptySeq
    <3>3. QED  BY <2>7, <3>1, <3>2 DEF Remaining
  <2>9. p = Rest(p, 0)
    <3>1. Rest(p, 0) = SubSeq(p, 1, Len(p))
          BY DEF Rest
    <3>2. QED  BY <2>6, <3>1, SubSeqFull
  <2>10. Reading'
    <3>1. Printed(stream.n, TRUE)' = p
          BY <1>8 DEF Printed, p
    <3>2. LinesRead(0)' = <<>> /\ stream'.lines = <<>> /\ stream'.op = "command" /\ stream'.pc # "idle"
          BY <1>4, <1>8 DEF LinesRead
    <3>3. Remaining' = Rest(Printed(stream.n, TRUE), 0)'
          BY <2>8, <2>9, <3>1
    <3>4. QED  BY <2>5, <3>2, <3>3 DEF Reading
  <2>11. QED  BY <1>4, <1>8, <2>7, <2>10 DEF AnswerInv
<1>12. QED  BY <1>10, <1>11

\* What was delivered comes first in what was printed.
Ordered == shist.printed = shist.delivered \o Undelivered

\* Nobody answers: the read is repeated or returns nothing.
LEMMA UnansweredAnswers ==
    ASSUME TypesInv, AnswerInv, stream.pc = "wait", stream' = Unanswered, ~stream'.abandoned,
           UNCHANGED <<sconf, tunnel, polls>>,
           shist'.printed = shist.printed, shist'.delivered = shist.delivered
    PROVE  AnswerInv'
<1>1. stream \in StreamType
      BY DEF TypesInv
<1>2. /\ stream'.n = stream.n /\ stream'.op = stream.op /\ stream'.lines = stream.lines
      /\ stream'.result = stream.result /\ stream'.buffer = stream.buffer
      /\ stream'.pc \in {"poll", "line"} /\ (stream'.pc = "line" => stream.op # "flush")
  <2>1. CASE Mode = "plain"
    <3>1. stream' = [stream EXCEPT !.pc = IF stream.op = "flush" THEN "poll" ELSE "line"]
          BY <2>1 DEF Unanswered
    <3>2. QED  BY ONLY <1>1, <3>1 DEF StreamType
  <2>2. CASE Mode = "probe"
    <3>1. stream' = [stream EXCEPT !.pc = "line", !.mode = "plain"] /\ stream.op # "flush"
          BY <2>2 DEF Unanswered, Mode
    <3>2. QED  BY ONLY <1>1, <3>1 DEF StreamType
  <2>3. CASE Mode = "flow" /\ stream.attempt < sconf.retries
    <3>1. stream' = [stream EXCEPT !.pc = "poll", !.attempt = @ + 1]
          BY <2>3 DEF Unanswered
    <3>2. QED  BY ONLY <1>1, <3>1 DEF StreamType
  <2>4. CASE Mode \notin {"plain", "probe"} /\ ~(Mode = "flow" /\ stream.attempt < sconf.retries)
    <3>1. stream' = [stream EXCEPT !.pc = "idle", !.result = "timeout", !.abandoned = TRUE]
          BY <2>4 DEF Unanswered
    <3>2. stream'.abandoned
          BY ONLY <1>1, <3>1 DEF StreamType
    <3>3. QED  BY <3>2
  <2>5. QED  BY <2>1, <2>2, <2>3, <2>4
<1>3. stream.op # "flush" => stream.op = "command"
      BY DEF AnswerInv, Resting, Asking, Reading
<1>4. (Writing' <=> Writing) /\ (UnderWay => UnderWay') /\ Remaining' = Remaining
      BY <1>2, WritesKept DEF Remaining, Undelivered, Todo
<1>5. QED  BY <1>2, <1>3, <1>4, AnswerKept

\* What is received joins the buffer when it is delivered.
LEMMA DataAnswers ==
    ASSUME TypesInv, TypesInv', Ordered, Ordered', AnswerInv, UNCHANGED <<sconf, tunnel, polls>>,
           NEW d \in Seq(Bytes), stream.pc = "wait", stream.op # "flush",
           stream'.n = stream.n, stream'.op = stream.op, stream'.lines = stream.lines,
           stream'.result = stream.result, stream'.buffer = stream.buffer \o d, stream'.pc = "line",
           shist'.printed = shist.printed, shist'.delivered = shist.delivered \o d
    PROVE  AnswerInv'
<1> DEFINE b == stream.buffer
           e == shist.delivered
           u == Undelivered
           v == Undelivered'
           t == Todo
<1>1. /\ b \in Seq(Bytes) /\ u \in Seq(Bytes) /\ v \in Seq(Bytes) /\ t \in Seq(Bytes)
      /\ e \in Seq(Bytes) /\ d \in Seq(Bytes) /\ Todo' = t
  <2>1. b \in Seq(Bytes) /\ u \in Seq(Bytes) /\ t \in Seq(Bytes) /\ e \in Seq(Bytes)
        BY RemainingBytes DEF TypesInv, HistoryType
  <2>2. Len(shist'.delivered) \in Nat /\ shist'.printed \in Seq(Bytes)
    <3>1. e \o d \in Seq(Bytes) /\ shist.printed \in Seq(Bytes)
          BY <2>1, ConcatProperties DEF TypesInv, HistoryType
    <3>2. QED  BY <3>1, LenProperties
  <2>3. v \in Seq(Bytes)
        BY <2>2, FirstRest DEF Undelivered
  <2>4. QED  BY <2>1, <2>3 DEF Todo
<1>2. e \o u = (e \o d) \o v
      BY DEF Ordered
<1>3. Remaining = b \o (u \o t) /\ Remaining' = (b \o d) \o (v \o t)
      BY <1>1 DEF Remaining
<1>4. stream.op = "command"
      BY DEF AnswerInv, Resting, Asking, Reading
<1> HIDE DEF b, e, u, v, t
<1>5. \A x, y, z \in Seq(Bytes) : x \o y \in Seq(Bytes) /\ (x \o y) \o z = x \o (y \o z)
      BY ConcatProperties, ConcatAssociative
<1>6. u = d \o v
  <2>1. \A x, y \in Seq(Bytes) : x \o y \in Seq(Bytes)
        BY <1>5
  <2>2. \A x, y, z \in Seq(Bytes) : (x \o y) \o z = x \o (y \o z)
        BY <1>5
  <2>3. e \in Seq(Bytes) /\ d \in Seq(Bytes) /\ u \in Seq(Bytes) /\ v \in Seq(Bytes)
        BY <1>1
  <2>4. (e \o d) \o v = e \o (d \o v)
        BY ONLY <2>2, <2>3, ZenonT(60)
  <2>5. d \o v \in Seq(Bytes)
        BY ONLY <2>1, <2>3, ZenonT(60)
  <2>6. e \o u = e \o (d \o v)
        BY ONLY <1>2, <2>4, Zenon
  <2>7. QED  BY ONLY <2>3, <2>5, <2>6, ConcatCancels, ZenonT(60)
<1>7. (b \o d) \o (v \o t) = b \o ((d \o v) \o t)
  <2>1. v \o t \in Seq(Bytes)
        BY <1>1, <1>5
  <2>2. \A x, y, z \in Seq(Bytes) : (x \o y) \o z = x \o (y \o z)
        BY <1>5
  <2>3. b \in Seq(Bytes) /\ d \in Seq(Bytes) /\ v \in Seq(Bytes) /\ t \in Seq(Bytes)
        BY <1>1
  <2>4. (b \o d) \o (v \o t) = b \o (d \o (v \o t))
        BY ONLY <2>1, <2>2, <2>3, ZenonT(60)
  <2>5. (d \o v) \o t = d \o (v \o t)
        BY ONLY <2>2, <2>3, Zenon
  <2>6. QED  BY <2>4, <2>5
<1>8. Remaining' = Remaining
      BY <1>3, <1>6, <1>7
<1>9. (Writing' <=> Writing) /\ (UnderWay => UnderWay')
      BY WritesKept
<1>10. QED  BY <1>4, <1>8, <1>9, AnswerKept

\* The host takes a reply.
LEMMA ReplyAnswers ==
    ASSUME TypesInv, TypesInv', Ordered, Ordered', AnswerInv, TakeReply, ~stream'.abandoned
    PROVE  AnswerInv'
<1> DEFINE reply == Head(replies)
           a == accept_flow_packet(stream, reply)
<1>1. /\ stream \in StreamType /\ shist \in HistoryType /\ reply \in AnswerFrame
      /\ stream.pc = "wait" /\ UNCHANGED <<sconf, tunnel, polls>> /\ reply.data \in Seq(Bytes)
  <2>1. \A S : \A q \in Seq(S) : q # <<>> => Head(q) \in S
        OBVIOUS
  <2>2. replies \in Seq(AnswerFrame) /\ replies # <<>>
        BY DEF TypesInv, TakeReply
  <2>3. reply \in AnswerFrame
        BY <2>1, <2>2
  <2>4. reply.data \in Packets
        BY <2>3 DEF AnswerFrame
  <2>5. QED  BY <2>3, <2>4, PacketSeq DEF TypesInv, TakeReply
<1>2. CASE ~Accepted(reply)
      BY <1>1, <1>2, UnansweredAnswers DEF TakeReply
<1>3. CASE Accepted(reply) /\ reply.kind = "flow"
  <2>1. stream.op # "flush"
        BY <1>3 DEF Accepted, Mode
  <2>2. /\ a.data \in Seq(Bytes) /\ a.s = [stream EXCEPT !.ack = reply.number, !.seen = TRUE]
        /\ stream' = Buffered([a.s EXCEPT !.mode = "flow"], a.data)
        /\ shist' = [shist EXCEPT !.delivered = @ \o a.data]
        BY <1>1, <1>3, EmptySeq DEF TakeReply, Received, accept_flow_packet
  <2> HIDE DEF a
  <2>3. /\ stream'.n = stream.n /\ stream'.op = stream.op /\ stream'.lines = stream.lines
        /\ stream'.result = stream.result /\ stream'.buffer = stream.buffer \o a.data
        /\ stream'.pc = "line"
        BY ONLY <1>1, <2>2 DEF StreamType, Buffered
  <2>4. shist'.printed = shist.printed /\ shist'.delivered = shist.delivered \o a.data
        BY ONLY <1>1, <2>2 DEF HistoryType
  <2>5. QED  BY <1>1, <2>1, <2>2, <2>3, <2>4, DataAnswers
<1>4. CASE Accepted(reply) /\ reply.kind # "flow" /\ stream.op = "flush"
  <2>1. stream' = [stream EXCEPT !.pc = "poll"] /\ shist' = shist
        BY <1>4 DEF TakeReply, Received
  <2>2. /\ stream'.n = stream.n /\ stream'.op = stream.op /\ stream'.lines = stream.lines
        /\ stream'.result = stream.result /\ stream'.buffer = stream.buffer /\ stream'.pc = "poll"
        BY ONLY <1>1, <2>1 DEF StreamType
  <2>3. (Writing' <=> Writing) /\ (UnderWay => UnderWay') /\ Remaining' = Remaining
        BY <1>1, <2>1, <2>2, WritesKept DEF Remaining, Undelivered, Todo
  <2>4. QED  BY <1>1, <2>2, <2>3, AnswerKept
<1>5. CASE Accepted(reply) /\ reply.kind # "flow" /\ stream.op # "flush"
  <2>1. stream' = Buffered(stream, reply.data) /\ shist' = [shist EXCEPT !.delivered = @ \o reply.data]
        BY <1>5 DEF TakeReply, Received
  <2>2. /\ stream'.n = stream.n /\ stream'.op = stream.op /\ stream'.lines = stream.lines
        /\ stream'.result = stream.result /\ stream'.buffer = stream.buffer \o reply.data
        /\ stream'.pc = "line"
        BY ONLY <1>1, <2>1 DEF StreamType, Buffered
  <2>3. shist'.printed = shist.printed /\ shist'.delivered = shist.delivered \o reply.data
        BY ONLY <1>1, <2>1 DEF HistoryType
  <2>4. QED  BY <1>1, <1>5, <2>2, <2>3, DataAnswers
<1>6. QED  BY <1>2, <1>3, <1>4, <1>5

\* The device runs the command: what was to do is printed.
LEMMA RunAnswers ==
    ASSUME TypesInv, TypesInv', Ordered, Ordered', AnswerInv, RunCommand
    PROVE  AnswerInv'
<1> DEFINE b == stream.buffer
           e == shist.delivered
           u == Undelivered
           v == Undelivered'
           t == Todo
<1>1. /\ tunnel.todo # <<>> /\ t = Head(tunnel.todo) /\ tunnel'.todo = Tail(tunnel.todo)
      /\ tunnel'.chunks = tunnel.chunks /\ UNCHANGED <<sconf, stream, polls>>
      /\ shist'.printed = shist.printed \o t /\ shist'.delivered = shist.delivered
  <2>1. /\ tunnel.todo # <<>> /\ UNCHANGED <<sconf, stream, polls, replies>>
        /\ tunnel' = [tunnel EXCEPT !.todo = Tail(@), !.out = @ \o Head(tunnel.todo)]
        /\ shist' = [shist EXCEPT !.printed = @ \o Head(tunnel.todo)]
        BY DEF RunCommand
  <2>2. tunnel \in TunnelType /\ shist \in HistoryType
        BY DEF TypesInv
  <2>3. t = Head(tunnel.todo)
        BY <2>1 DEF Todo
  <2>4. tunnel'.todo = Tail(tunnel.todo) /\ tunnel'.chunks = tunnel.chunks
        BY ONLY <2>1, <2>2 DEF TunnelType
  <2>5. shist'.printed = shist.printed \o Head(tunnel.todo) /\ shist'.delivered = shist.delivered
        BY ONLY <2>1, <2>2 DEF HistoryType
  <2>6. QED  BY <2>1, <2>3, <2>4, <2>5
<1>2. tunnel'.todo = <<>>
  <2>1. tunnel.todo \in Seq(Seq(Bytes)) /\ Len(tunnel.todo) <= 1
        BY DEF TypesInv, TunnelType, AnswerInv
  <2>2. QED  BY <1>1, <2>1
<1>3. /\ b \in Seq(Bytes) /\ u \in Seq(Bytes) /\ v \in Seq(Bytes) /\ t \in Seq(Bytes) /\ e \in Seq(Bytes)
  <2>1. b \in Seq(Bytes) /\ u \in Seq(Bytes) /\ t \in Seq(Bytes) /\ e \in Seq(Bytes)
        /\ shist.printed \in Seq(Bytes)
        BY RemainingBytes DEF TypesInv, HistoryType
  <2>2. Len(shist'.delivered) \in Nat /\ shist'.printed \in Seq(Bytes)
    <3>1. shist.printed \o t \in Seq(Bytes)
          BY <2>1, ConcatProperties
    <3>2. QED  BY <1>1, <2>1, <3>1, LenProperties
  <2>3. v \in Seq(Bytes)
        BY <2>2, FirstRest DEF Undelivered
  <2>4. QED  BY <2>1, <2>3
<1>4. (e \o u) \o t = e \o v
      BY <1>1 DEF Ordered
<1>5. Remaining = b \o (u \o t) /\ Remaining' = b \o (v \o <<>>)
      BY <1>1, <1>2 DEF Remaining, Todo
<1> HIDE DEF b, e, u, v, t
<1>6. \A x, y, z \in Seq(Bytes) : x \o y \in Seq(Bytes) /\ (x \o y) \o z = x \o (y \o z)
      BY ConcatProperties, ConcatAssociative
<1>7. v = u \o t
  <2>1. e \o v = e \o (u \o t) /\ u \o t \in Seq(Bytes)
        BY <1>3, <1>4, <1>6
  <2>2. QED  BY <1>3, <2>1, ConcatCancels
<1>8. Remaining' = Remaining
  <2>1. v \o <<>> = v
        BY <1>3, ConcatEmptySeq
  <2>2. QED  BY <1>5, <1>7, <2>1
<1>9. (Writing' <=> Writing) /\ (UnderWay => UnderWay')
      BY <1>1, WritesKept
<1>10. stream'.pc = "line" => stream'.op = "command"
       BY <1>1 DEF AnswerInv
<1>11. QED  BY <1>1, <1>2, <1>8, <1>9, <1>10, AnswerKept

\* A step of the host or of the device that touches no frame that is written.
LEMMA ServeReadAnswers ==
    ASSUME TypesInv, AnswerInv, ServePoll, Head(polls).kind # "write"
    PROVE  AnswerInv'
<1>1. /\ polls # <<>> /\ polls' = Tail(polls) /\ UNCHANGED <<sconf, stream, shist>>
      /\ tunnel \in TunnelType
      BY DEF ServePoll, TypesInv
<1>2. tunnel'.chunks = tunnel.chunks /\ tunnel'.todo = tunnel.todo
  <2>1. CASE AnswerPoll
    <3>1. tunnel' = [tunnel EXCEPT !.out = Rest(@, sconf.max)]
          BY <2>1 DEF AnswerPoll
    <3>2. QED  BY ONLY <1>1, <3>1 DEF TunnelType
  <2>2. CASE AnswerFlowPoll(Head(polls))
    <3> DEFINE next == [number |-> (tunnel.number + 1) % sconf.wrap,
                        data |-> First(tunnel.out, sconf.max)]
    <3>1. \/ tunnel' = tunnel
          \/ tunnel' = [tunnel EXCEPT !.number = next.number, !.packet = next.data,
                                      !.out = Rest(@, sconf.max)]
          BY <2>2 DEF AnswerFlowPoll
    <3> HIDE DEF next
    <3>2. QED  BY ONLY <1>1, <3>1 DEF TunnelType
  <2>3. CASE UNCHANGED <<tunnel, replies>>
        BY <2>3
  <2>4. QED  BY <2>1, <2>2, <2>3 DEF ServePoll
<1>3. (Writing' <=> Writing) /\ (UnderWay => UnderWay')
      BY <1>1, <1>2, WritesKept
<1>4. Remaining' = Remaining
      BY <1>1, <1>2 DEF Remaining, Undelivered, Todo
<1>5. stream'.pc = "line" => stream'.op = "command"
      BY <1>1 DEF AnswerInv
<1>6. QED  BY <1>1, <1>2, <1>3, <1>4, <1>5, AnswerKept

\* flush_read() finds nothing and leaves nothing.
LEMMA FlushAnswers ==
    ASSUME TypesInv, AnswerInv, StartFlush \/ FlushEnd
    PROVE  AnswerInv'
<1>1. /\ stream \in StreamType /\ UNCHANGED <<sconf, tunnel, polls, replies, shist>>
      BY DEF TypesInv, StartFlush, FlushEnd
<1>2. ~Writing /\ Remaining = <<>>
      BY DEF AnswerInv, Resting, Asking, Reading, StartFlush, FlushEnd
<1>3. stream.buffer = <<>>
      BY <1>2, NothingRemains
<1>4. /\ stream'.buffer = <<>> /\ stream'.op = "flush"
      /\ \/ stream'.pc = "poll" /\ stream'.result = "none" /\ stream'.n = stream.n + 1
         \/ stream'.pc = "idle"
  <2>1. CASE StartFlush
    <3>1. stream' = [stream EXCEPT !.pc = "poll", !.op = "flush", !.n = stream.n + 1, !.buffer = <<>>,
                                   !.result = "none"]
          BY <2>1 DEF StartFlush
    <3>2. QED  BY ONLY <1>1, <3>1 DEF StreamType
  <2>2. CASE FlushEnd
    <3>1. stream' = [stream EXCEPT !.pc = "idle", !.buffer = <<>>, !.result = "ok"] /\ stream.op = "flush"
          BY <2>2 DEF FlushEnd
    <3>2. QED  BY ONLY <1>1, <3>1 DEF StreamType
  <2>3. QED  BY <2>1, <2>2
<1>5. stream'.pc # "idle" => stream'.n # 0
  <2>1. stream.n \in Nat
        BY <1>1, ScenarioParts DEF StreamType, TypesInv
  <2>2. QED  BY <1>4, <2>1
<1>6. ~Writing' /\ Remaining' = <<>>
      BY <1>1, <1>2, <1>3, <1>4 DEF Writing, Remaining, Undelivered, Todo
<1>7. Resting'
      BY <1>4, <1>6 DEF Resting
<1>8. QED  BY <1>1, <1>4, <1>5, <1>7 DEF AnswerInv, Todo

\* Every step that does not disturb the stream keeps the answers in order.
LEMMA AnswerNext ==
    ASSUME TypesInv, TypesInv', WriteOrder, Ordered, Ordered', AnswerInv, Undisturbed',
           [StreamNext]_streamVars
    PROVE  AnswerInv'
<1>1. /\ stream \in StreamType /\ shist \in HistoryType
      /\ polls \in Seq(WriteFrame \cup ReadFrame)
      BY DEF TypesInv
<1>2. sconf' = sconf /\ ~stream'.abandoned /\ ~shist'.lost /\ "oneline" \notin sconf.ops
      BY SameScenario DEF Undisturbed
<1>3. CASE StartCommand
      BY <1>2, <1>3, StartAnswers
<1>4. CASE StartFlush \/ FlushEnd
      BY <1>4, FlushAnswers
<1>5. CASE TakeLine
      BY <1>5, LineAnswers
<1>6. CASE NeedData
  <2>1. stream' = [stream EXCEPT !.pc = "poll", !.attempt = 0] /\ stream.pc = "line"
        /\ UNCHANGED <<sconf, tunnel, polls, replies, shist>>
        BY <1>6 DEF NeedData
  <2>2. /\ stream'.n = stream.n /\ stream'.op = stream.op /\ stream'.lines = stream.lines
        /\ stream'.result = stream.result /\ stream'.buffer = stream.buffer /\ stream'.pc = "poll"
        BY ONLY <1>1, <2>1 DEF StreamType
  <2>3. (Writing' <=> Writing) /\ (UnderWay => UnderWay') /\ Remaining' = Remaining
        BY <2>1, <2>2, WritesKept DEF Remaining, Undelivered, Todo
  <2>4. QED  BY <2>1, <2>2, <2>3, AnswerKept
<1>7. CASE Poll
  <2>1. stream' = [stream EXCEPT !.pc = "wait"] /\ stream.pc = "poll"
        /\ UNCHANGED <<sconf, tunnel, replies, shist>>
        BY <1>7 DEF Poll
  <2>2. /\ stream'.n = stream.n /\ stream'.op = stream.op /\ stream'.lines = stream.lines
        /\ stream'.result = stream.result /\ stream'.buffer = stream.buffer /\ stream'.pc = "wait"
        BY ONLY <1>1, <2>1 DEF StreamType
  <2>3. (Writing' <=> Writing) /\ (UnderWay => UnderWay') /\ Remaining' = Remaining
        BY <1>7, <2>1, <2>2, PollSends, WritesKept DEF Remaining, Undelivered, Todo
  <2>4. QED  BY <2>1, <2>2, <2>3, AnswerKept
<1>8. CASE TakeReply
      BY <1>2, <1>8, ReplyAnswers
<1>9. CASE PollTimeout
  <2>1. /\ stream.pc = "wait" /\ stream' = Unanswered /\ UNCHANGED <<sconf, tunnel, polls, replies>>
        /\ shist' = [shist EXCEPT !.faults = IF polls = <<>> THEN @ ELSE @ + 1]
        BY <1>9 DEF PollTimeout
  <2>2. shist'.printed = shist.printed /\ shist'.delivered = shist.delivered
        BY ONLY <1>1, <2>1 DEF HistoryType
  <2>3. QED  BY <1>2, <2>1, <2>2, UnansweredAnswers
<1>10. CASE ServePoll
       BY <1>10, ChunkAnswers, ServeReadAnswers
<1>11. CASE RunCommand
       BY <1>11, RunAnswers
<1>12. CASE LoseFrame
  <2>1. UNCHANGED <<sconf, stream, tunnel>>
        BY <1>12 DEF LoseFrame
  <2>2. /\ \/ polls' = polls
           \/ polls # <<>> /\ Head(polls).kind # "write" /\ polls' = Tail(polls)
        /\ shist'.printed = shist.printed /\ shist'.delivered = shist.delivered
    <3>1. CASE /\ polls # <<>> /\ polls' = Tail(polls)
               /\ shist' = [shist EXCEPT !.faults = @ + 1, !.lost = @ \/ Head(polls).kind = "write"]
      <4>1. shist'.printed = shist.printed /\ shist'.delivered = shist.delivered
            /\ shist'.lost = (shist.lost \/ Head(polls).kind = "write")
            BY ONLY <1>1, <3>1 DEF HistoryType
      <4>2. QED  BY <1>2, <3>1, <4>1
    <3>2. CASE /\ polls' = polls
               /\ shist' = [shist EXCEPT !.faults = @ + 1, !.lost = @ \/ sconf.flow # "flow"]
      <4>1. shist'.printed = shist.printed /\ shist'.delivered = shist.delivered
            BY ONLY <1>1, <3>2 DEF HistoryType
      <4>2. QED  BY <3>2, <4>1
    <3>3. QED  BY <1>12, <3>1, <3>2 DEF LoseFrame
  <2>3. (Writing' <=> Writing) /\ (UnderWay => UnderWay') /\ Remaining' = Remaining
        BY <2>1, <2>2, WritesKept DEF Remaining, Undelivered, Todo
  <2>4. stream'.pc = "line" => stream'.op = "command"
        BY <2>1 DEF AnswerInv
  <2>5. QED  BY <2>1, <2>3, <2>4, AnswerKept
<1>13. CASE Restart
  <2>1. shist' = [shist EXCEPT !.faults = @ + 1, !.lost = TRUE]
        BY <1>13 DEF Restart
  <2>2. shist'.lost
        BY ONLY <1>1, <2>1 DEF HistoryType
  <2>3. QED  BY <1>2, <2>2
<1>14. CASE UNCHANGED streamVars
  <2>1. UNCHANGED <<sconf, stream, tunnel, polls, shist>>
        BY <1>14 DEF streamVars
  <2>2. (Writing' <=> Writing) /\ (UnderWay => UnderWay') /\ Remaining' = Remaining
        BY <2>1, WritesKept DEF Remaining, Undelivered, Todo
  <2>3. stream'.pc = "line" => stream'.op = "command"
        BY <2>1 DEF AnswerInv
  <2>4. QED  BY <2>1, <2>2, <2>3, AnswerKept
<1>15. QED  BY <1>3, <1>4, <1>5, <1>6, <1>7, <1>8, <1>9, <1>10, <1>11, <1>12, <1>13, <1>14
             DEF StreamNext, StreamStep

-----------------------------------------------------------------------------
(* Turns, step by step                                                     *)

\* A step of the host that awaits nothing.
LEMMA HostTurns ==
    ASSUME Turns, stream.pc # "wait", stream'.pc # "wait",
           stream'.ack = stream.ack, stream'.mode = stream.mode, UNCHANGED <<tunnel, replies>>,
           shist'.printed = shist.printed, shist'.delivered = shist.delivered,
           \A k \in 1..Len(polls') : polls'[k].kind = "write"
    PROVE  Turns'
<1>1. replies = <<>>
      BY DEF Turns
<1>2. Carried' = Carried
      BY DEF Carried
<1>3. QED  BY <1>1, <1>2 DEF Turns

\* The host polls.
LEMMA PollTurns ==
    ASSUME TypesInv, Turns, Poll
    PROVE  Turns'
<1>1. /\ stream \in StreamType /\ polls \in Seq(WriteFrame \cup ReadFrame)
      /\ UNCHANGED <<sconf, tunnel, replies, shist>>
      /\ stream' = [stream EXCEPT !.pc = "wait"] /\ stream.pc = "poll"
      BY DEF TypesInv, Poll
<1>2. stream'.pc = "wait" /\ stream'.op = stream.op /\ stream'.ack = stream.ack /\ stream'.mode = stream.mode
      BY ONLY <1>1 DEF StreamType
<1>3. replies = <<>> /\ replies' = <<>> /\ \A k \in 1..Len(polls) : polls[k].kind = "write"
      BY <1>1 DEF Turns
<1>4. PICK f \in ReadFrame : polls' = Append(polls, f) /\ Asks(f)
  <2>1. CASE Mode = "plain"
    <3>1. polls' = Append(polls, [kind |-> "plain"])
          BY <2>1 DEF Poll
    <3>2. [kind |-> "plain"] \in ReadFrame /\ Asks([kind |-> "plain"])
          BY <2>1 DEF ReadFrame, Asks, Kind
    <3>3. QED  BY <3>1, <3>2
  <2>2. CASE Mode = "flow"
    <3>1. polls' = Append(polls, [kind |-> "flow", ack |-> stream.ack])
          BY <2>2 DEF Poll
    <3>2. stream.ack \in Nat
          BY <1>1, ScenarioParts DEF StreamType, TypesInv
    <3>3. [kind |-> "flow", ack |-> stream.ack] \in ReadFrame
          /\ Asks([kind |-> "flow", ack |-> stream.ack])
          BY <2>2, <3>2 DEF ReadFrame, Asks, Kind
    <3>4. QED  BY <3>1, <3>3
  <2>3. CASE Mode = "probe"
    <3>1. polls' = Append(polls, [kind |-> "flow", ack |-> 0])
          BY <2>3 DEF Poll
    <3>2. stream.ack = 0
          BY <2>3 DEF Turns, Mode
    <3>3. [kind |-> "flow", ack |-> 0] \in ReadFrame /\ Asks([kind |-> "flow", ack |-> 0])
          BY <2>3, <3>2 DEF ReadFrame, Asks, Kind
    <3>4. QED  BY <3>1, <3>3
  <2>4. QED  BY <1>1, <2>1, <2>2, <2>3 DEF Mode, StreamType
<1>5. /\ f.kind = Kind' /\ (f.kind = "flow" => f.ack = stream'.ack)
      /\ Carried' = Carried
      BY <1>1, <1>2, <1>4 DEF Asks, Kind, Mode, Carried
<1>6. /\ Len(polls') = Len(polls) + 1 /\ Len(polls) \in Nat /\ polls'[Len(polls) + 1] = f
      /\ \A k \in 1..Len(polls) : polls'[k] = polls[k]
  <2>1. f \in WriteFrame \cup ReadFrame
        OBVIOUS
  <2>2. QED  BY <1>1, <1>4, <2>1, AppendProperties
<1>7. \A k \in 1..Len(polls') : polls'[k].kind # "write" =>
         /\ k = Len(polls') /\ polls'[k].kind = Kind'
         /\ polls'[k].kind = "flow" => polls'[k].ack = stream'.ack
  <2> TAKE k \in 1..Len(polls')
  <2>1. CASE k \in 1..Len(polls)
        BY <1>3, <1>6, <2>1
  <2>2. CASE k \notin 1..Len(polls)
    <3>1. k = Len(polls')
          BY <1>6, <2>2
    <3>2. polls'[k] = f
          BY <1>6, <3>1
    <3>3. QED  BY <1>5, <3>1, <3>2
  <2>3. QED  BY <2>1, <2>2
<1>8. Len(replies') <= 1 /\ tunnel'.number = stream'.ack /\ (stream'.mode = "probe" => stream'.ack = 0)
      BY <1>1, <1>2, <1>3 DEF Turns
<1>9. shist'.printed = shist'.delivered \o (Carried' \o tunnel'.out)
      BY <1>1, <1>5 DEF Turns
<1>10. \A k \in 1..Len(polls') : polls'[k].kind # "write" =>
          k = Len(polls') /\ stream'.pc = "wait" /\ replies' = <<>> /\ Asks(polls[k])'
       BY <1>2, <1>3, <1>7 DEF Asks
<1>11. QED  BY <1>3, <1>8, <1>9, <1>10 DEF Turns

\* Nobody answers what was asked: nothing is under way.
LEMMA TimeoutTurns ==
    ASSUME TypesInv, Turns, PollTimeout, shist'.faults = 0
    PROVE  Turns'
<1>1. /\ stream \in StreamType /\ shist \in HistoryType /\ stream' = Unanswered
      /\ UNCHANGED <<sconf, tunnel, polls, replies>> /\ replies = <<>>
      /\ shist' = [shist EXCEPT !.faults = IF polls = <<>> THEN @ ELSE @ + 1]
      BY DEF TypesInv, PollTimeout
<1>2. polls = <<>>
  <2>1. shist'.faults = IF polls = <<>> THEN shist.faults ELSE shist.faults + 1
        BY ONLY <1>1 DEF HistoryType
  <2>2. shist.faults \in Nat
        BY <1>1, ScenarioParts DEF HistoryType, TypesInv
  <2>3. QED  BY <2>1, <2>2
<1>3. stream'.ack = stream.ack /\ stream'.mode \in {stream.mode, "plain"}
  <2> DEFINE pc == IF stream.op = "flush" THEN "poll" ELSE "line"
             n == stream.attempt + 1
  <2>1. \/ stream' = [stream EXCEPT !.pc = pc]
        \/ stream' = [stream EXCEPT !.pc = "line", !.mode = "plain"]
        \/ stream' = [stream EXCEPT !.pc = "poll", !.attempt = n]
        \/ stream' = [stream EXCEPT !.pc = "idle", !.result = "timeout", !.abandoned = TRUE]
        BY <1>1 DEF Unanswered
  <2> HIDE DEF pc, n
  <2>2. QED  BY ONLY <1>1, <2>1 DEF StreamType
<1>4. shist'.printed = shist.printed /\ shist'.delivered = shist.delivered
      BY ONLY <1>1 DEF HistoryType
<1>5. Carried' = Carried
      BY <1>1 DEF Carried
<1>6. 1..Len(polls') = {}
      BY <1>1, <1>2
<1>7. Len(replies') <= 1 /\ replies' = <<>> /\ tunnel'.number = stream'.ack
      /\ (stream'.mode = "probe" => stream'.ack = 0)
      BY <1>1, <1>3 DEF Turns
<1>8. shist'.printed = shist'.delivered \o (Carried' \o tunnel'.out)
      BY <1>1, <1>4, <1>5 DEF Turns
<1>9. QED  BY <1>6, <1>7, <1>8 DEF Turns

\* An answer is under way, and nothing else.
LEMMA AnswerCarried ==
    ASSUME TypesInv, Turns, replies # <<>>
    PROVE  /\ Head(replies) \in AnswerFrame /\ Head(replies).data \in Seq(Bytes)
           /\ Carried = Head(replies).data /\ Tail(replies) = <<>> /\ polls = <<>>
           /\ Head(replies).kind = Kind
           /\ Kind = "flow" => tunnel.number # stream.ack /\ Head(replies).number = tunnel.number
           /\ Kind = "plain" => tunnel.number = stream.ack
           /\ shist.printed = shist.delivered \o (Head(replies).data \o tunnel.out)
<1>1. replies \in Seq(AnswerFrame) /\ sconf \in StreamScenarios
      BY DEF TypesInv
<1>2. Head(replies) \in AnswerFrame /\ Tail(replies) = <<>>
  <2>1. Len(replies) <= 1
        BY DEF Turns
  <2>2. QED  BY <1>1, <2>1
<1>3. Head(replies).data \in Packets
      BY <1>2 DEF AnswerFrame
<1>4. Carried = Head(replies).data
      BY DEF Carried
<1>5. QED  BY <1>1, <1>2, <1>3, <1>4, PacketSeq DEF Turns

\* The host takes the answer: what it carries is delivered, and during a flush
\* it carries nothing.
LEMMA ReplyTurns ==
    ASSUME TypesInv, Turns, Ordered, AnswerInv, TakeReply
    PROVE  Turns'
<1> DEFINE reply == Head(replies)
           d == reply.data
           a == accept_flow_packet(stream, reply)
           e == shist.delivered
           o == tunnel.out
<1>1. /\ stream \in StreamType /\ shist \in HistoryType /\ tunnel \in TunnelType
      /\ replies # <<>> /\ replies' = Tail(replies) /\ UNCHANGED <<sconf, tunnel, polls>>
      /\ stream.pc = "wait"
      BY DEF TypesInv, TakeReply
<1>2. /\ reply \in AnswerFrame /\ d \in Seq(Bytes) /\ replies' = <<>> /\ polls' = <<>>
      /\ reply.kind = Kind
      /\ Kind = "flow" => tunnel.number # stream.ack /\ reply.number = tunnel.number
      /\ Kind = "plain" => tunnel.number = stream.ack
      /\ shist.printed = e \o (d \o o)
      BY <1>1, AnswerCarried
<1>3. e \in Seq(Bytes) /\ o \in Seq(Bytes)
      BY <1>1 DEF HistoryType, TunnelType
<1>4. Accepted(reply)
  <2>1. Mode \in {"plain", "flow", "probe"}
        BY <1>1 DEF Mode, StreamType
  <2>2. QED  BY <1>2, <2>1 DEF Accepted, Kind
<1>5. ASSUME tunnel'.number = stream'.ack, stream'.mode = "probe" => stream'.ack = 0,
             shist'.printed = shist'.delivered \o o
      PROVE  Turns'
  <2>1. Carried' = <<>> /\ tunnel'.out = o /\ 1..Len(polls') = {} /\ Len(replies') <= 1
    <3>1. Len(<<>>) = 0 /\ 1..0 = {}
          OBVIOUS
    <3> HIDE DEF d, e, a, reply
    <3>2. polls' = <<>> /\ replies' = <<>> /\ tunnel' = tunnel
          BY <1>1, <1>2
    <3>3. Carried' = <<>>
          BY <3>2 DEF Carried
    <3>4. QED  BY <3>1, <3>2, <3>3
  <2>2. <<>> \o o = o
        BY <1>3, ConcatEmptySeq
  <2>3. shist'.printed = shist'.delivered \o (Carried' \o tunnel'.out)
        BY <1>5, <2>1, <2>2
  <2>4. QED  BY <1>2, <1>5, <2>1, <2>3 DEF Turns
<1>6. ASSUME shist' = [shist EXCEPT !.delivered = @ \o d]
      PROVE  shist'.printed = shist'.delivered \o o
  <2>1. shist'.printed = shist.printed /\ shist'.delivered = e \o d
        BY ONLY <1>1, <1>6 DEF HistoryType
  <2> HIDE DEF d, e, o
  <2>2. (e \o d) \o o = e \o (d \o o)
        BY <1>2, <1>3, ConcatAssociative
  <2>3. QED  BY <1>2, <2>1, <2>2
<1>7. CASE Kind = "flow"
  <2>1. /\ a.data = d /\ a.s = [stream EXCEPT !.ack = reply.number, !.seen = TRUE]
        /\ stream' = Buffered([a.s EXCEPT !.mode = "flow"], a.data)
        /\ shist' = [shist EXCEPT !.delivered = @ \o a.data]
        BY <1>2, <1>4, <1>7 DEF TakeReply, Received, accept_flow_packet
  <2> HIDE DEF a
  <2>2. stream'.ack = reply.number /\ stream'.mode = "flow"
        BY ONLY <1>1, <2>1 DEF StreamType, Buffered
  <2>3. QED  BY <1>1, <1>2, <1>5, <1>6, <1>7, <2>1, <2>2
<1>8. CASE Kind = "plain" /\ stream.op # "flush"
  <2>1. reply.kind # "flow" /\ stream.mode = "plain"
        BY <1>2, <1>8 DEF Kind, Mode
  <2>2. stream' = Buffered(stream, d) /\ shist' = [shist EXCEPT !.delivered = @ \o d]
        BY <1>4, <1>8, <2>1 DEF TakeReply, Received
  <2> HIDE DEF d
  <2>3. stream'.ack = stream.ack /\ stream'.mode = stream.mode
        BY ONLY <1>1, <2>2 DEF StreamType, Buffered
  <2>4. QED  BY <1>1, <1>2, <1>5, <1>6, <1>8, <2>1, <2>2, <2>3 DEF d
<1>9. CASE Kind = "plain" /\ stream.op = "flush"
  <2>1. stream' = [stream EXCEPT !.pc = "poll"] /\ shist' = shist
        BY <1>2, <1>4, <1>9 DEF TakeReply, Received
  <2>2. stream'.ack = stream.ack /\ stream'.mode = stream.mode
        BY ONLY <1>1, <2>1 DEF StreamType
  <2>3. shist.printed = e \o o
    <3>1. Remaining = <<>>
          BY <1>9 DEF AnswerInv, Resting, Asking, Reading
    <3>2. Undelivered = <<>>
          BY <3>1, NothingRemains
    <3>3. e \o (d \o o) = e \o <<>>
          BY <1>2, <3>2 DEF Ordered
    <3> HIDE DEF d, e, o
    <3>4. d \o o \in Seq(Bytes) /\ <<>> \in Seq(Bytes)
          BY <1>2, <1>3, ConcatProperties
    <3>5. d \o o = <<>>
          BY <1>3, <3>3, <3>4, ConcatCancels
    <3>6. o = <<>>
          BY <1>2, <1>3, <3>5, ConcatEqualIffEmpty
    <3>7. QED  BY <1>2, <3>5, <3>6
  <2>4. stream'.mode = "probe" => stream'.ack = 0
        BY <2>2 DEF Turns
  <2>5. QED  BY <1>1, <1>2, <1>5, <1>9, <2>1, <2>2, <2>3, <2>4
<1>10. QED  BY <1>7, <1>8, <1>9 DEF Kind

\* The device takes a frame: what it answers is a new packet.
LEMMA ServeTurns ==
    ASSUME TypesInv, Turns, ServePoll
    PROVE  Turns'
<1> DEFINE f == Head(polls)
           o == tunnel.out
           data == First(o, sconf.max)
           rest == Rest(o, sconf.max)
           number == (tunnel.number + 1) % sconf.wrap
<1>1. /\ tunnel \in TunnelType /\ stream \in StreamType /\ shist \in HistoryType
      /\ sconf \in StreamScenarios /\ polls \in Seq(WriteFrame \cup ReadFrame)
      /\ polls # <<>> /\ polls' = Tail(polls) /\ UNCHANGED <<sconf, stream, shist>>
      BY DEF TypesInv, ServePoll
<1>2. /\ Len(polls) \in Nat \ {0} /\ f = polls[1] /\ Len(polls') = Len(polls) - 1
      /\ \A k \in 1..Len(polls') : polls'[k] = polls[k + 1]
      /\ f \in WriteFrame \cup ReadFrame
      BY <1>1
<1>3. replies = <<>> /\ tunnel.number = stream.ack /\ Carried = <<>>
      BY <1>1 DEF Turns, Carried
<1>4. /\ o \in Seq(Bytes) /\ data \in Seq(Bytes) /\ rest \in Seq(Bytes) /\ data \o rest = o
      /\ shist.delivered \in Seq(Bytes) /\ shist.printed = shist.delivered \o o
  <2>1. o \in Seq(Bytes) /\ shist.delivered \in Seq(Bytes) /\ sconf.max \in Nat
        BY <1>1, Scenario DEF TunnelType, HistoryType
  <2>2. shist.printed = shist.delivered \o (<<>> \o o)
        BY <1>3 DEF Turns
  <2>3. <<>> \o o = o
        BY <2>1, ConcatEmptySeq
  <2>4. QED  BY <2>1, <2>2, <2>3, FirstRest
<1>5. Kind' = Kind /\ stream' = stream /\ shist' = shist
      BY <1>1 DEF Kind, Mode
<1> HIDE DEF f, data, rest
<1>6. CASE f.kind = "write"
  <2>1. replies' = replies /\ tunnel'.number = tunnel.number /\ tunnel'.out = o
    <3> DEFINE whole == Append(tunnel.chunks, <<f.cmd, f.chunk>>)
               todo == Append(tunnel.todo, Printed(f.cmd, whole = [k \in 1..sconf.chunks |-> <<f.cmd, k>>]))
    <3>1. /\ replies' = replies
          /\ \/ tunnel' = [tunnel EXCEPT !.chunks = whole]
             \/ tunnel' = [tunnel EXCEPT !.chunks = <<>>, !.todo = todo]
          BY <1>6 DEF ServePoll, TakeChunk, f
    <3> HIDE DEF whole, todo
    <3>2. QED  BY ONLY <1>1, <3>1 DEF TunnelType
  <2>2. \A k \in 1..Len(polls') : polls'[k].kind # "write" =>
           k = Len(polls') /\ stream'.pc = "wait" /\ replies' = <<>> /\ Asks(polls[k])'
    <3> TAKE k \in 1..Len(polls')
    <3>1. k + 1 \in 1..Len(polls) /\ polls'[k] = polls[k + 1] /\ k \in Nat
          BY <1>2
    <3>2. polls[k + 1].kind # "write" => k + 1 = Len(polls) /\ stream.pc = "wait" /\ Asks(polls[k + 1])
          BY <3>1 DEF Turns
    <3>3. QED  BY <1>2, <1>3, <1>5, <2>1, <3>1, <3>2 DEF Asks
  <2>3. Carried' = <<>> /\ Len(replies') <= 1
        BY <1>3, <2>1 DEF Carried, Turns
  <2>4. QED  BY <1>3, <1>5, <2>1, <2>2, <2>3 DEF Turns
<1>7. CASE f.kind # "write"
  <2>1. 1 = Len(polls) /\ stream.pc = "wait" /\ Asks(f)
    <3>1. 1 \in 1..Len(polls)
          BY <1>2
    <3>2. QED  BY <1>2, <1>7, <3>1 DEF Turns
  <2>2. polls' = <<>>
        BY <1>1, <2>1
  <2>3. f.kind = Kind /\ (f.kind = "flow" => f.ack = stream.ack) /\ Kind \in {"plain", "flow"}
        BY <2>1 DEF Asks, Kind
  <2>4. 1..Len(polls') = {}
        BY <2>2
  <2>5. ASSUME NEW r, replies' = <<r>>, r.kind = Kind, r.data = data, tunnel'.out = rest,
               Kind = "flow" => tunnel'.number # stream.ack /\ r.number = tunnel'.number,
               Kind = "plain" => tunnel'.number = stream.ack
        PROVE  Turns'
    <3>1. Len(<<r>>) = 1 /\ Head(<<r>>) = r /\ <<r>> # <<>>
          OBVIOUS
    <3>2. Carried' = data
          BY <2>5, <3>1 DEF Carried
    <3>3. shist'.printed = shist'.delivered \o (Carried' \o tunnel'.out)
          BY <1>4, <1>5, <2>5, <3>2
    <3>4. stream'.mode = "probe" => stream'.ack = 0
          BY <1>5 DEF Turns
    <3>5. /\ replies' # <<>> /\ Len(replies') <= 1 /\ Head(replies').kind = Kind'
          /\ Kind' = "flow" => tunnel'.number # stream'.ack /\ Head(replies').number = tunnel'.number
          /\ Kind' = "plain" => tunnel'.number = stream'.ack
      <4>1. Head(replies') = r /\ replies' # <<>> /\ Len(replies') = 1
            BY <2>5, <3>1
      <4> HIDE DEF number, o
      <4>2. QED  BY <1>5, <2>5, <4>1
    <3>6. \A k \in 1..Len(polls') : polls'[k].kind # "write" =>
             k = Len(polls') /\ stream'.pc = "wait" /\ replies' = <<>> /\ Asks(polls[k])'
          BY <2>4
    <3>7. stream'.pc = "wait" /\ polls' = <<>>
          BY <1>5, <2>1, <2>2
    <3>8. QED  BY <3>3, <3>4, <3>5, <3>6, <3>7 DEF Turns
  <2>6. CASE f.kind = "plain"
    <3> DEFINE r == [kind |-> "plain", number |-> 0, data |-> data]
    <3>1. replies' = Append(replies, r) /\ tunnel' = [tunnel EXCEPT !.out = rest]
          BY <2>6 DEF ServePoll, AnswerPoll, f, data, rest
    <3>2. replies' = <<r>>
      <4> HIDE DEF r
      <4> QED  BY <1>3, <3>1
    <3>3. tunnel'.out = rest /\ tunnel'.number = tunnel.number
          BY ONLY <1>1, <3>1 DEF TunnelType
    <3>4. r.kind = "plain" /\ r.data = data
          OBVIOUS
    <3> HIDE DEF r
    <3>5. QED  BY <1>3, <2>3, <2>5, <2>6, <3>2, <3>3, <3>4
  <2>7. CASE f.kind = "flow" /\ sconf.supported
    <3> DEFINE r == [kind |-> "flow", number |-> number, data |-> data]
    <3>1. AnswerFlowPoll(f)
          BY <2>7 DEF ServePoll, f
    <3>2. f.ack = tunnel.number
          BY <1>3, <2>3, <2>7
    <3>3. /\ replies' = Append(replies, r)
          /\ tunnel' = [tunnel EXCEPT !.number = number, !.packet = data, !.out = rest]
          BY <3>1, <3>2 DEF AnswerFlowPoll, data, rest
    <3>4. replies' = <<r>>
      <4> HIDE DEF r
      <4> QED  BY <1>3, <3>3
    <3>5. number # tunnel.number
      <4>1. sconf.wrap \in Nat /\ sconf.wrap > 1 /\ tunnel.number \in 0..(sconf.wrap - 1)
            BY <1>1, Scenario DEF TunnelType
      <4>2. QED  BY <4>1, NextNumber
    <3> HIDE DEF number
    <3>6. tunnel'.out = rest /\ tunnel'.number = number
          BY ONLY <1>1, <3>3 DEF TunnelType
    <3>7. r.kind = "flow" /\ r.data = data /\ r.number = number
          OBVIOUS
    <3> HIDE DEF r
    <3>8. QED  BY <1>3, <2>3, <2>5, <2>7, <3>4, <3>5, <3>6, <3>7
  <2>8. CASE f.kind # "plain" /\ ~(f.kind = "flow" /\ sconf.supported)
    <3>1. UNCHANGED <<tunnel, replies>>
          BY <1>7, <2>8 DEF ServePoll, f
    <3>2. Carried' = Carried /\ Len(replies') <= 1
          BY <3>1 DEF Carried, Turns
    <3>3. QED  BY <1>3, <1>5, <2>4, <3>1, <3>2 DEF Turns
  <2>9. QED  BY <2>6, <2>7, <2>8
<1>8. QED  BY <1>6, <1>7

\* The device runs a command.
LEMMA RunTurns ==
    ASSUME TypesInv, Turns, RunCommand
    PROVE  Turns'
<1> DEFINE e == shist.delivered
           c == Carried
           o == tunnel.out
           t == Head(tunnel.todo)
<1>1. /\ tunnel \in TunnelType /\ shist \in HistoryType /\ replies \in Seq(AnswerFrame)
      /\ sconf \in StreamScenarios
      /\ tunnel.todo # <<>> /\ UNCHANGED <<sconf, stream, polls, replies>>
      /\ tunnel' = [tunnel EXCEPT !.todo = Tail(@), !.out = o \o t]
      /\ shist' = [shist EXCEPT !.printed = @ \o t]
      BY DEF TypesInv, RunCommand
<1>2. t \in Seq(Bytes) /\ o \in Seq(Bytes) /\ e \in Seq(Bytes) /\ c \in Seq(Bytes)
  <2>1. t \in Seq(Bytes)
    <3>1. tunnel.todo \in Seq(Seq(Bytes))
          BY <1>1 DEF TunnelType
    <3>2. \A S : \A q \in Seq(S) : q # <<>> => Head(q) \in S
          OBVIOUS
    <3>3. QED  BY <1>1, <3>1, <3>2
  <2>2. CASE replies = <<>>
        BY <1>1, <2>1, <2>2, EmptySeq DEF TunnelType, HistoryType, Carried
  <2>3. CASE replies # <<>>
        BY <1>1, <2>1, <2>3, AnswerCarried DEF TunnelType, HistoryType
  <2>4. QED  BY <2>2, <2>3
<1>3. shist.printed = e \o (c \o o)
      BY DEF Turns
<1> HIDE DEF t, c, o
<1>4. /\ tunnel'.out = o \o t /\ tunnel'.number = tunnel.number
      /\ shist'.printed = shist.printed \o t /\ shist'.delivered = e
  <2>1. tunnel'.out = o \o t /\ tunnel'.number = tunnel.number
        BY ONLY <1>1 DEF TunnelType
  <2>2. shist'.printed = shist.printed \o t /\ shist'.delivered = e
        BY ONLY <1>1 DEF HistoryType
  <2>3. QED  BY <2>1, <2>2
<1>5. Carried' = c /\ Kind' = Kind
      BY <1>1 DEF Carried, Kind, Mode, c
<1> HIDE DEF e
<1>6. shist'.printed = e \o (c \o (o \o t))
  <2>1. \A x, y, z \in Seq(Bytes) : (x \o y) \o z = x \o (y \o z)
        BY ConcatAssociative
  <2>2. c \o o \in Seq(Bytes)
        BY <1>2, ConcatProperties
  <2>3. (e \o (c \o o)) \o t = e \o ((c \o o) \o t)
        BY ONLY <1>2, <2>1, <2>2, ZenonT(60)
  <2>4. (c \o o) \o t = c \o (o \o t)
        BY ONLY <1>2, <2>1, Zenon
  <2>5. QED  BY <1>3, <1>4, <2>3, <2>4
<1>7. shist'.printed = shist'.delivered \o (Carried' \o tunnel'.out)
      BY <1>4, <1>5, <1>6
<1>8. \A k \in 1..Len(polls') : polls'[k].kind # "write" =>
         k = Len(polls') /\ stream'.pc = "wait" /\ replies' = <<>> /\ Asks(polls[k])'
      BY <1>1, <1>5 DEF Turns, Asks
<1>9. QED  BY <1>1, <1>4, <1>5, <1>7, <1>8 DEF Turns

\* Faults are counted, and what disturbs the stream is remembered.
LEMMA DisturbedStays ==
    ASSUME TypesInv, [StreamNext]_streamVars
    PROVE  (Undisturbed' => Undisturbed) /\ (shist'.faults = 0 => shist.faults = 0)
<1>1. /\ stream \in StreamType /\ shist \in HistoryType /\ sconf' = sconf
      /\ shist.faults \in Nat /\ shist.lost \in BOOLEAN /\ stream.abandoned \in BOOLEAN
      BY SameScenario, ScenarioParts DEF TypesInv, HistoryType, StreamType
<1>2. ASSUME stream.abandoned => stream'.abandoned, shist.lost => shist'.lost,
             shist'.faults \in {shist.faults, shist.faults + 1}
      PROVE  (Undisturbed' => Undisturbed) /\ (shist'.faults = 0 => shist.faults = 0)
  <2>1. shist'.faults = 0 => shist.faults = 0
        BY <1>1, <1>2
  <2>2. Reliable' <=> Reliable
        BY <1>1 DEF Reliable
  <2>3. QED  BY <1>1, <1>2, <2>1, <2>2 DEF Undisturbed
<1>3. stream.abandoned => stream'.abandoned
  <2>1. CASE UNCHANGED stream
        BY <2>1
  <2>2. CASE TakeReply \/ PollTimeout
    <3> DEFINE pc == IF stream.op = "flush" THEN "poll" ELSE "line"
               n == stream.attempt + 1
               a == accept_flow_packet(stream, Head(replies))
    <3>1. \/ stream' = Unanswered
          \/ stream' = Buffered([a.s EXCEPT !.mode = "flow"], a.data)
          \/ stream' = [stream EXCEPT !.pc = "poll"]
          \/ stream' = Buffered(stream, Head(replies).data)
          BY <2>2 DEF TakeReply, PollTimeout, Received
    <3>2. a.s = [stream EXCEPT !.ack = Head(replies).number, !.seen = TRUE]
          BY DEF accept_flow_packet
    <3> HIDE DEF a
    <3>3. CASE stream' = Unanswered
      <4>1. \/ stream' = [stream EXCEPT !.pc = pc]
            \/ stream' = [stream EXCEPT !.pc = "line", !.mode = "plain"]
            \/ stream' = [stream EXCEPT !.pc = "poll", !.attempt = n]
            \/ stream' = [stream EXCEPT !.pc = "idle", !.result = "timeout", !.abandoned = TRUE]
            BY <3>3 DEF Unanswered
      <4> HIDE DEF pc, n
      <4>2. QED  BY ONLY <1>1, <4>1 DEF StreamType
    <3>4. CASE stream' # Unanswered
          BY ONLY <1>1, <3>1, <3>2, <3>4 DEF StreamType, Buffered
    <3>5. QED  BY <3>3, <3>4
  <2>3. CASE TakeLine
    <3> DEFINE b == stream.buffer
               pos == CHOOSE k \in Lines(b) : \A j \in Lines(b) : k <= j
               line == SubSeq(b, 1, pos - 1)
               rest == Rest(b, pos)
               s == [stream EXCEPT !.buffer = rest]
    <3>1. \/ stream' = s
          \/ stream' = [s EXCEPT !.pc = "idle", !.result = "ok", !.lines = <<line>>]
          \/ stream' = [s EXCEPT !.pc = "idle", !.result = "ok"]
          \/ stream' = [s EXCEPT !.pc = "idle", !.result = "err"]
          \/ stream' = [s EXCEPT !.lines = Append(@, line)]
          BY <2>3 DEF TakeLine
    <3> HIDE DEF rest, line
    <3>2. QED  BY ONLY <1>1, <3>1 DEF StreamType
  <2>4. CASE StartCommand \/ StartFlush \/ FlushEnd \/ NeedData \/ Poll
    <3> DEFINE n == stream.n + 1
    <3>1. \/ \E op \in {"command", "oneline"} :
                stream' = [stream EXCEPT !.pc = "line", !.op = op, !.n = n, !.lines = <<>>,
                                         !.result = "none"]
          \/ stream' = [stream EXCEPT !.pc = "poll", !.op = "flush", !.n = n, !.buffer = <<>>,
                                      !.result = "none"]
          \/ stream' = [stream EXCEPT !.pc = "idle", !.buffer = <<>>, !.result = "ok"]
          \/ stream' = [stream EXCEPT !.pc = "poll", !.attempt = 0]
          \/ stream' = [stream EXCEPT !.pc = "wait"]
      <4>1. CASE StartCommand
        <5>1. PICK op \in {"command", "oneline"} :
                 stream' = [stream EXCEPT !.pc = "line", !.op = op, !.n = @ + 1, !.lines = <<>>,
                                          !.result = "none"]
              BY <4>1 DEF StartCommand
        <5>2. QED  BY <5>1, Zenon
      <4>2. CASE StartFlush
            BY <4>2, Zenon DEF StartFlush
      <4>3. CASE FlushEnd
            BY <4>3, Zenon DEF FlushEnd
      <4>4. CASE NeedData
            BY <4>4, Zenon DEF NeedData
      <4>5. CASE Poll
            BY <4>5, Zenon DEF Poll
      <4>6. QED  BY <2>4, <4>1, <4>2, <4>3, <4>4, <4>5
    <3> HIDE DEF n
    <3>2. QED  BY ONLY <1>1, <3>1 DEF StreamType
  <2>5. QED  BY <2>1, <2>2, <2>3, <2>4
             DEF StreamNext, StreamStep, ServePoll, RunCommand, LoseFrame, Restart, streamVars
<1>4. (shist.lost => shist'.lost) /\ shist'.faults \in {shist.faults, shist.faults + 1}
  <2> DEFINE printed == shist.printed \o Head(tunnel.todo)
             a == accept_flow_packet(stream, Head(replies))
             faults == IF polls = <<>> THEN shist.faults ELSE shist.faults + 1
             n == shist.faults + 1
  <2>1. \/ shist' = shist
        \/ shist' = [shist EXCEPT !.printed = printed]
        \/ shist' = [shist EXCEPT !.delivered = @ \o a.data]
        \/ shist' = [shist EXCEPT !.delivered = @ \o Head(replies).data]
        \/ shist' = [shist EXCEPT !.faults = faults]
        \/ \E x \in BOOLEAN : shist' = [shist EXCEPT !.faults = n, !.lost = @ \/ x]
        \/ shist' = [shist EXCEPT !.faults = n, !.lost = TRUE]
    <3>1. CASE StartCommand \/ StartFlush \/ FlushEnd \/ TakeLine \/ NeedData \/ Poll \/ ServePoll
               \/ UNCHANGED streamVars
          BY <3>1 DEF StartCommand, StartFlush, FlushEnd, TakeLine, NeedData, Poll, ServePoll, streamVars
    <3>2. CASE TakeReply
      <4>1. CASE Accepted(Head(replies)) /\ Head(replies).kind = "flow"
            BY <3>2, <4>1, Zenon DEF TakeReply, Received
      <4>2. CASE Accepted(Head(replies)) /\ Head(replies).kind # "flow"
            BY <3>2, <4>2, Zenon DEF TakeReply, Received
      <4>3. CASE ~Accepted(Head(replies))
            BY <3>2, <4>3, Zenon DEF TakeReply
      <4>4. QED  BY <4>1, <4>2, <4>3
    <3>3. CASE PollTimeout
          BY <3>3, Zenon DEF PollTimeout
    <3>4. CASE RunCommand
          BY <3>4 DEF RunCommand
    <3>5. CASE LoseFrame
      <4>1. CASE shist' = [shist EXCEPT !.faults = n, !.lost = @ \/ Head(polls).kind = "write"]
        <5>1. (Head(polls).kind = "write") \in BOOLEAN
              OBVIOUS
        <5>2. QED  BY <4>1, <5>1, Zenon
      <4>2. CASE shist' = [shist EXCEPT !.faults = n, !.lost = @ \/ sconf.flow # "flow"]
        <5>1. (sconf.flow # "flow") \in BOOLEAN
              OBVIOUS
        <5>2. QED  BY <4>2, <5>1, Zenon
      <4>3. QED  BY <3>5, <4>1, <4>2, Zenon DEF LoseFrame
    <3>6. CASE Restart
          BY <3>6 DEF Restart
    <3>7. QED  BY <3>1, <3>2, <3>3, <3>4, <3>5, <3>6, ZenonT(60) DEF StreamNext, StreamStep
  <2>2. faults \in {shist.faults, n}
        OBVIOUS
  <2> HIDE DEF printed, a, faults, n
  <2>3. (shist.lost => shist'.lost) /\ shist'.faults \in {shist.faults, n}
        BY ONLY <1>1, <2>1, <2>2 DEF HistoryType
  <2>4. QED  BY <2>3 DEF n
<1>5. QED  BY <1>2, <1>3, <1>4

\* What was delivered comes before what was not: by the turns, or by the
\* invariant of the reliable stream.
LEMMA OrderedHolds ==
    ASSUME TypesInv, StreamInv, Undisturbed, shist.faults = 0 => Turns
    PROVE  Ordered
<1>1. ASSUME NEW S, shist.delivered \in Seq(S), NEW t \in Seq(S), shist.printed = shist.delivered \o t
      PROVE  Ordered
  <2> DEFINE e == shist.delivered
  <2>1. Rest(e \o t, Len(e)) = t
        BY <1>1, RestOfConcat
  <2>2. QED  BY <1>1, <2>1 DEF Ordered, Undelivered
<1>2. CASE Reliable
  <2>1. /\ shist.delivered \in Seq(Char) /\ tunnel.packet \in Seq(Char) /\ tunnel.out \in Seq(Char)
        /\ shist.printed = shist.delivered \o (Pending \o tunnel.out)
        BY <1>2 DEF StreamInv, FlowInv, FormInv, BytesInv
  <2>2. Pending \in Seq(Char)
        BY <2>1, EmptySeq DEF Pending
  <2>3. Pending \o tunnel.out \in Seq(Char)
        BY <2>1, <2>2, ConcatProperties
  <2>4. QED  BY ONLY <1>1, <2>1, <2>3
<1>3. CASE shist.faults = 0
  <2>1. /\ tunnel \in TunnelType /\ shist \in HistoryType
        /\ shist.printed = shist.delivered \o (Carried \o tunnel.out)
        BY <1>3 DEF TypesInv, Turns
  <2>2. shist.delivered \in Seq(Bytes) /\ tunnel.out \in Seq(Bytes)
        BY <2>1 DEF TunnelType, HistoryType
  <2>3. Carried \in Seq(Bytes)
    <3>1. CASE replies = <<>>
          BY <3>1, EmptySeq DEF Carried
    <3>2. CASE replies # <<>>
          BY <1>3, <3>2, AnswerCarried
    <3>3. QED  BY <3>1, <3>2
  <2>4. Carried \o tunnel.out \in Seq(Bytes)
        BY <2>2, <2>3, ConcatProperties
  <2>5. QED  BY ONLY <1>1, <2>1, <2>2, <2>4
<1>4. QED  BY <1>2, <1>3 DEF Undisturbed

\* Without a fault, host and device go on taking turns.
LEMMA TurnsNext ==
    ASSUME TypesInv, Turns, Ordered, AnswerInv, shist'.faults = 0, [StreamNext]_streamVars
    PROVE  Turns'
<1>1. /\ stream \in StreamType /\ shist \in HistoryType /\ shist.faults \in Nat
      /\ polls \in Seq(WriteFrame \cup ReadFrame) /\ sconf \in StreamScenarios
      BY ScenarioParts DEF TypesInv, HistoryType
<1>2. stream.pc # "wait" => \A k \in 1..Len(polls) : polls[k].kind = "write"
      BY DEF Turns
<1>3. CASE StartCommand
  <2> DEFINE n == stream.n + 1
             w == write_message(n)
             W == [kind: {"write"}, cmd: {n}, chunk: 1..sconf.chunks]
  <2>1. PICK op \in {"command", "oneline"} :
           stream' = [stream EXCEPT !.pc = "line", !.op = op, !.n = @ + 1, !.lines = <<>>,
                                    !.result = "none"]
        BY <1>3 DEF StartCommand
  <2>2. stream.pc = "idle" /\ polls' = polls \o w /\ UNCHANGED <<tunnel, replies, shist>>
        BY <1>3 DEF StartCommand
  <2>3. stream'.pc = "line" /\ stream'.ack = stream.ack /\ stream'.mode = stream.mode
        BY ONLY <1>1, <2>1 DEF StreamType
  <2>4. sconf.chunks \in Nat
        BY <1>1, Scenario
  <2>5. w \in Seq(W)
    <3>1. w \in [1..sconf.chunks -> W]
          BY DEF write_message
    <3> HIDE DEF w, W
    <3>2. QED  BY <2>4, <3>1, FunctionAsSeq
  <2>6. \A k \in 1..Len(polls') : polls'[k].kind = "write"
    <3>1. Len(polls') = Len(polls) + Len(w) /\ Len(w) \in Nat /\ Len(polls) \in Nat
          BY <1>1, <2>2, <2>5
    <3>2. \A k \in 1..Len(w) : w[k].kind = "write"
      <4>1. \A f \in W : f.kind = "write"
            OBVIOUS
      <4> HIDE DEF w, W
      <4>2. QED  BY <2>5, <4>1, ElementOfSeq
    <3>3. ASSUME NEW k \in 1..Len(polls')
          PROVE  polls'[k] = IF k <= Len(polls) THEN polls[k] ELSE w[k - Len(polls)]
          BY <1>1, <2>2, <2>5, <3>1
    <3> HIDE DEF w, W
    <3>4. QED  BY <1>2, <2>2, <3>1, <3>2, <3>3
  <2>7. QED  BY <2>2, <2>3, <2>6, HostTurns
<1>4. CASE StartFlush \/ FlushEnd \/ NeedData
  <2>1. \/ stream' = [stream EXCEPT !.pc = "poll", !.op = "flush", !.n = @ + 1, !.buffer = <<>>,
                                    !.result = "none"]
        \/ stream' = [stream EXCEPT !.pc = "idle", !.buffer = <<>>, !.result = "ok"]
        \/ stream' = [stream EXCEPT !.pc = "poll", !.attempt = 0]
        BY <1>4 DEF StartFlush, FlushEnd, NeedData
  <2>2. stream.pc # "wait" /\ UNCHANGED <<tunnel, polls, replies, shist>>
        BY <1>4 DEF StartFlush, FlushEnd, NeedData
  <2>3. stream'.pc # "wait" /\ stream'.ack = stream.ack /\ stream'.mode = stream.mode
        BY ONLY <1>1, <2>1 DEF StreamType
  <2>4. QED  BY <1>2, <2>2, <2>3, HostTurns
<1>5. CASE TakeLine
  <2> DEFINE b == stream.buffer
             pos == CHOOSE k \in Lines(b) : \A j \in Lines(b) : k <= j
             line == SubSeq(b, 1, pos - 1)
             rest == Rest(b, pos)
             s == [stream EXCEPT !.buffer = rest]
  <2>1. \/ stream' = s
        \/ stream' = [s EXCEPT !.pc = "idle", !.result = "ok", !.lines = <<line>>]
        \/ stream' = [s EXCEPT !.pc = "idle", !.result = "ok"]
        \/ stream' = [s EXCEPT !.pc = "idle", !.result = "err"]
        \/ stream' = [s EXCEPT !.lines = Append(@, line)]
        BY <1>5 DEF TakeLine
  <2>2. stream.pc = "line" /\ UNCHANGED <<tunnel, polls, replies, shist>>
        BY <1>5 DEF TakeLine
  <2> HIDE DEF rest, line
  <2>3. stream'.pc # "wait" /\ stream'.ack = stream.ack /\ stream'.mode = stream.mode
        BY ONLY <1>1, <2>1, <2>2 DEF StreamType
  <2>4. QED  BY <1>2, <2>2, <2>3, HostTurns
<1>6. CASE LoseFrame \/ Restart
  <2> DEFINE n == shist.faults + 1
  <2>1. \/ shist' = [shist EXCEPT !.faults = n, !.lost = @ \/ Head(polls).kind = "write"]
        \/ shist' = [shist EXCEPT !.faults = n, !.lost = @ \/ sconf.flow # "flow"]
        \/ shist' = [shist EXCEPT !.faults = n, !.lost = TRUE]
        BY <1>6, Zenon DEF LoseFrame, Restart
  <2>2. n # 0
        BY <1>1
  <2> HIDE DEF n
  <2>3. shist'.faults = n
        BY ONLY <1>1, <2>1 DEF HistoryType
  <2>4. QED  BY <2>2, <2>3
<1>7. CASE UNCHANGED streamVars
      BY <1>7, ZenonT(60) DEF streamVars, Turns, Carried, Kind, Mode, Asks
<1>8. QED  BY <1>3, <1>4, <1>5, <1>6, <1>7, PollTurns, TimeoutTurns, ReplyTurns, ServeTurns, RunTurns
           DEF StreamNext, StreamStep

\* Nothing is asked and nothing printed at the beginning, but by an earlier
\* stream.
LEMMA RepliesOwnInit ==
    ASSUME StreamInit, Undisturbed
    PROVE  Turns /\ AnswerInv
<1>1. /\ stream.pc = "idle" /\ stream.op = "none" /\ stream.mode = sconf.flow /\ stream.ack = 0
      /\ stream.buffer = <<>> /\ stream.lines = <<>> /\ stream.result = "none"
      /\ tunnel.chunks = <<>> /\ tunnel.todo = <<>> /\ tunnel.out = <<>>
      /\ polls = <<>> /\ replies = <<>>
      BY DEF StreamInit
<1>2. tunnel.number = 0 /\ tunnel.packet = <<>> /\ shist.printed = <<>> /\ shist.delivered = <<>>
      BY DEF StreamInit, Undisturbed
<1>3. Len(polls) = 0 /\ Len(replies) = 0 /\ Len(tunnel.todo) = 0
      BY <1>1
<1>4. Carried = <<>> /\ <<>> \o (<<>> \o <<>>) = <<>>
      BY <1>1 DEF Carried
<1>5. Turns
      BY <1>1, <1>2, <1>3, <1>4 DEF Turns
<1>6. Undelivered = <<>> /\ Todo = <<>> /\ Remaining = <<>> /\ ~Writing
  <2>1. Undelivered = <<>>
        BY <1>2 DEF Undelivered, Rest
  <2>2. Todo = <<>>
        BY <1>1 DEF Todo
  <2>3. Remaining = <<>>
        BY <1>1, <1>4, <2>1, <2>2 DEF Remaining
  <2>4. QED  BY <1>1, <1>3, <2>1, <2>2, <2>3 DEF Writing
<1>7. QED  BY <1>1, <1>3, <1>5, <1>6 DEF AnswerInv, Resting

\* The invariant of the answers is kept, given the forms of the state and what
\* the reliable stream delivers.
LEMMA RepliesOwnNext ==
    ASSUME TypesInv, TypesInv', WriteOrder, StreamInv, StreamInv', RepliesOwn,
           [StreamNext]_streamVars
    PROVE  RepliesOwn'
<1> SUFFICES ASSUME Undisturbed'
             PROVE  (shist'.faults = 0 => Turns') /\ AnswerInv'
    BY DEF RepliesOwn
<1>1. Undisturbed /\ (shist'.faults = 0 => shist.faults = 0)
      BY DisturbedStays
<1>2. (shist.faults = 0 => Turns) /\ AnswerInv
      BY <1>1 DEF RepliesOwn
<1>3. Ordered
      BY <1>1, <1>2, OrderedHolds
<1>4. shist'.faults = 0 => Turns'
      BY <1>1, <1>2, <1>3, TurnsNext
<1>5. Ordered'
  <2>1. (TypesInv /\ StreamInv /\ Undisturbed /\ (shist.faults = 0 => Turns) => Ordered)'
        BY OrderedHolds, PTL
  <2>2. QED  BY <1>4, <2>1
<1>6. AnswerInv'
      BY <1>2, <1>3, <1>5, AnswerNext
<1>7. QED  BY <1>4, <1>6

\* When a command has succeeded, the stream rests, and the lines of its answer
\* are the lines it returned.
LEMMA RepliesGiveReply ==
    ASSUME RepliesOwn
    PROVE  CommandGetsItsReply
<1> SUFFICES ASSUME stream.op = "command", stream.result = "ok", Undisturbed
             PROVE  stream.lines = <<DataLine(stream.n)>>
    BY DEF CommandGetsItsReply, Undisturbed, DataLine
<1>1. stream.pc = "idle" /\ (Resting \/ Asking \/ Reading)
      BY DEF RepliesOwn, AnswerInv
<1>2. QED  BY <1>1 DEF Resting, Asking, Reading

\* The lines a command returns are the lines it made the device print: for
\* command() and read_until_ok(), whatever a frame holds, however many chunks
\* fill a message and whatever polls the device knows; without a fault also
\* around flush_read(), with flow control also when frames are late or lost.
THEOREM CommandsGetTheirReply == StreamSpec => []CommandGetsItsReply
<1>1. StreamInit => RepliesOwn
      BY RepliesOwnInit DEF RepliesOwn
<1>2. /\ TypesInv /\ WriteOrder /\ StreamInv /\ RepliesOwn /\ TypesInv' /\ StreamInv'
      /\ [StreamNext]_streamVars
      => RepliesOwn'
      BY RepliesOwnNext
<1>3. RepliesOwn => CommandGetsItsReply
      BY RepliesGiveReply
<1>4. QED  BY <1>1, <1>2, <1>3, TypesHold, StreamInvariance, PTL DEF StreamSpec

=============================================================================
