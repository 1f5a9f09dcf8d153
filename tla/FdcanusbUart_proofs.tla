------------------------ MODULE FdcanusbUart_proofs ------------------------
(***************************************************************************)
(* For every application, every number of retries and every bound on       *)
(* operations and faults: what an operation of the UART transport leaves   *)
(* behind is flagged, and no reply goes to another operation.              *)
(*                                                                         *)
(* The invariant is about a request whose first attempt is running with no *)
(* flag set (Clean): there is one command under way or what is left of its *)
(* answer, the OK first and the reply last.  Whatever ends such a request  *)
(* has then consumed everything, and whatever leaves that state sets a     *)
(* flag or counts an attempt, which sets the flag when it succeeds.  While *)
(* an operation runs (Busy) all that is under way is its own, because it   *)
(* has begun in quiet or after a drain.                                    *)
(***************************************************************************)
EXTENDS FdcanusbUart, SequenceTheorems, TLAPS

\* The host's part of the type invariant.
HostType ==
    [pc: {"idle", "drain", "send", "ok", "reply"},
     op: cfg.ops \cup {"none"}, txn: 0..cfg.maxOps, batch: Seq(RequestType), i: Nat,
     attempt: 0..cfg.retries, crc: BOOLEAN, flush: BOOLEAN, recover: BOOLEAN,
     pending: Seq(Frame), got: Seq(SUBSET Frame), result: {"none", "ok", "err"}]

\* A running operation is at one of its requests.
Placed(h) == h.pc # "idle" => h.i \in DOMAIN h.batch

\* What the assumption says of the scenario in force.
LEMMA ScenarioForm ==
    ASSUME cfg \in Scenarios
    PROVE  /\ cfg.batches \subseteq Seq(RequestType) \ {<<>>}
           /\ cfg.ops \subseteq {"transaction", "write", "flush", "read"}
           /\ cfg.async \in BOOLEAN /\ cfg.checksum \in BOOLEAN /\ cfg.late \in BOOLEAN
           /\ cfg.retries \in Nat /\ cfg.maxOps \in Nat /\ cfg.maxFaults \in Nat
BY UartAssumption

\* The host keeps its type over Advance.
LEMMA AdvanceType ==
    ASSUME NEW h \in HostType, h.i \in DOMAIN h.batch, cfg \in Scenarios
    PROVE  Advance(h) \in HostType /\ Placed(Advance(h))
<1>1. 0 \in 0..cfg.retries
      BY ScenarioForm
<1>2. h.batch \in Seq(RequestType)
      BY DEF HostType
<1>3. CASE h.i < Len(h.batch)
  <2>1. h.i + 1 \in DOMAIN h.batch
        BY <1>2, <1>3
  <2>2. h.i + 1 \in Nat
        BY DEF HostType
  <2> DEFINE j == h.i + 1
  <2>3. Advance(h) = [h EXCEPT !.i = j, !.attempt = 0, !.pc = "send"]
        BY <1>3 DEF Advance
  <2>4. j \in Nat /\ j \in DOMAIN h.batch
        BY <2>1, <2>2
  <2> HIDE DEF j
  <2>5. Advance(h) \in HostType
        BY <1>1, <2>3, <2>4 DEF HostType
  <2>6. Advance(h).i = j /\ Advance(h).batch = h.batch
        BY <2>3 DEF HostType
  <2>7. QED  BY <2>4, <2>5, <2>6 DEF Placed
<1>4. CASE ~(h.i < Len(h.batch))
  <2>1. Advance(h) = [h EXCEPT !.pc = "idle", !.result = "ok", !.recover = FALSE]
        BY <1>4 DEF Advance, Ended
  <2>2. QED  BY <2>1 DEF HostType, Placed
<1>5. QED  BY <1>3, <1>4

\* The host keeps its type over Failed.
LEMMA FailedType ==
    ASSUME NEW h \in HostType, h.i \in DOMAIN h.batch, NEW retryable \in BOOLEAN, cfg \in Scenarios
    PROVE  Failed(h, retryable) \in HostType /\ Placed(Failed(h, retryable))
<1>1. cfg.retries \in Nat
      BY ScenarioForm
<1>2. CASE retryable /\ h.attempt < cfg.retries
  <2> DEFINE n == h.attempt + 1
  <2>1. n \in 0..cfg.retries
        BY <1>1, <1>2 DEF HostType
  <2>2. Failed(h, retryable) = [h EXCEPT !.attempt = n, !.pc = "send"]
        BY <1>2 DEF Failed
  <2> HIDE DEF n
  <2>3. QED  BY <2>1, <2>2, ZenonT(60) DEF HostType, Placed
<1>3. CASE ~(retryable /\ h.attempt < cfg.retries)
  <2>1. Failed(h, retryable) = [h EXCEPT !.pc = "idle", !.result = "err", !.flush = TRUE]
        BY <1>3 DEF Failed, Ended
  <2>2. QED  BY <2>1 DEF HostType, Placed
<1>4. QED  BY <1>2, <1>3

\* dispatch changes got alone, and only adds the frames that match.
LEMMA DispatchType ==
    ASSUME NEW h \in HostType, NEW frames \in SUBSET Frame
    PROVE  /\ dispatch(h, frames) \in HostType
           /\ dispatch(h, frames) = [h EXCEPT !.got = dispatch(h, frames).got]
           /\ DOMAIN dispatch(h, frames).got = DOMAIN h.got
           /\ \A j \in DOMAIN h.got : dispatch(h, frames).got[j] =
                    h.got[j] \cup {f \in frames : j \in FirstMatch(h.batch, f)}
<1> DEFINE got == [j \in DOMAIN h.got |->
                      h.got[j] \cup {f \in frames : j \in FirstMatch(h.batch, f)}]
<1>1. h.got \in Seq(SUBSET Frame)
      BY DEF HostType
<1>2. got \in Seq(SUBSET Frame)
  <2>1. DOMAIN got = 1..Len(h.got) /\ Len(h.got) \in Nat
        BY <1>1
  <2>2. \A j \in 1..Len(h.got) : got[j] \in SUBSET Frame
        BY <1>1
  <2>3. QED  BY <2>1, <2>2, SeqDef
<1>3. dispatch(h, frames) = [h EXCEPT !.got = got]
      BY DEF dispatch
<1>4. \A j \in DOMAIN h.got : got[j] = h.got[j] \cup {f \in frames : j \in FirstMatch(h.batch, f)}
      OBVIOUS
<1>5. DOMAIN got = DOMAIN h.got
      OBVIOUS
<1> HIDE DEF got
<1>6. QED  BY <1>2, <1>3, <1>4, <1>5, ZenonT(60) DEF HostType

\* The host keeps its type over Acked.
LEMMA AckedType ==
    ASSUME NEW h \in HostType, h.i \in DOMAIN h.batch, cfg \in Scenarios
    PROVE  Acked(h) \in HostType /\ Placed(Acked(h))
<1> DEFINE t == [h EXCEPT !.flush = @ \/ h.attempt > 0]
<1>1. t \in HostType /\ t.i = h.i /\ t.batch = h.batch /\ t.op = h.op /\ t.pending = h.pending
  <2>1. (h.flush \/ h.attempt > 0) \in BOOLEAN
        OBVIOUS
  <2>2. QED  BY <2>1 DEF HostType
<1> HIDE DEF t
<1>2. CASE h.op = "write"
  <2>1. Acked(h) = Ended(t, "ok")
        BY <1>2 DEF Acked, t
  <2>2. QED  BY <1>1, <2>1, ZenonT(60) DEF Ended, HostType, Placed
<1>3. CASE h.op = "transaction" /\ Current(h).reply
  <2> DEFINE frames == Range(h.pending)
             u == dispatch(t, frames)
  <2>1. Acked(h) = [u EXCEPT !.pending = <<>>, !.pc = "reply"]
        BY <1>3 DEF Acked, t
  <2>2. frames \in SUBSET Frame
        BY DEF HostType, Range
  <2>3. u \in HostType /\ u.i = h.i /\ u.batch = h.batch
    <3> HIDE DEF frames
    <3>1. u \in HostType /\ u = [t EXCEPT !.got = u.got]
          BY <1>1, <2>2, DispatchType
    <3>2. QED  BY <1>1, <3>1 DEF HostType
  <2> HIDE DEF u
  <2>4. <<>> \in Seq(Frame)
        OBVIOUS
  <2>5. QED  BY <2>1, <2>3, <2>4, ZenonT(60) DEF HostType, Placed
<1>4. CASE h.op # "write" /\ ~(h.op = "transaction" /\ Current(h).reply)
  <2>1. Acked(h) = Advance(t)
        BY <1>4 DEF Acked, t
  <2>2. QED  BY <1>1, <2>1, AdvanceType
<1>5. QED  BY <1>2, <1>3, <1>4

\* A sequence without its first element.
LEMMA ShorterType ==
    ASSUME NEW S, NEW s \in Seq(S), s # <<>>
    PROVE  /\ Tail(s) \in Seq(S) /\ Head(s) \in S /\ Head(s) = s[1]
           /\ Len(s) \in Nat \ {0} /\ Len(Tail(s)) = Len(s) - 1
           /\ \A k \in 1..(Len(s) - 1) : Tail(s)[k] = s[k + 1]
BY HeadTailProperties

\* A sequence without its last element.
LEMMA ShorterEndType ==
    ASSUME NEW S, NEW s \in Seq(S), s # <<>>
    PROVE  /\ Front(s) \in Seq(S) /\ Last(s) \in S
           /\ Last(s) = s[Len(s)] /\ Len(s) \in Nat \ {0}
           /\ Len(Front(s)) = Len(s) - 1 /\ \A k \in 1..(Len(s) - 1) : Front(s)[k] = s[k]
<1>1. Len(s) \in Nat \ {0}
      OBVIOUS
<1>2. /\ SubSeq(s, 1, Len(s) - 1) \in Seq(S)
      /\ Len(SubSeq(s, 1, Len(s) - 1)) = Len(s) - 1
      /\ \A k \in 1..(Len(s) - 1) : SubSeq(s, 1, Len(s) - 1)[k] = s[k]
  <2> DEFINE n == Len(s) - 1
  <2>1. n \in Nat /\ n <= Len(s) /\ n <= Len(s) + 1 /\ 1..n \subseteq 1..Len(s)
        BY <1>1
  <2> HIDE DEF n
  <2>2. \A k \in 1..n : s[k] \in S
        BY <1>1, <2>1
  <2>3. /\ SubSeq(s, 1, n) \in Seq(S) /\ Len(SubSeq(s, 1, n)) = n
        /\ \A k \in 1..n : SubSeq(s, 1, n)[k] = s[k]
        BY <1>1, <2>1, <2>2, SubSeqProperties
  <2>4. QED  BY <2>3 DEF n
<1>3. s[Len(s)] \in S
      BY <1>1
<1>4. QED  BY <1>1, <1>2, <1>3 DEF Front, Last

\* A sequence with one element more.
LEMMA ExtendedType ==
    ASSUME NEW S, NEW s \in Seq(S), NEW e \in S
    PROVE  /\ Append(s, e) \in Seq(S) /\ Len(Append(s, e)) = Len(s) + 1 /\ Len(s) \in Nat
           /\ \A k \in 1..Len(s) : Append(s, e)[k] = s[k]
           /\ Append(s, e)[Len(s) + 1] = e
OBVIOUS

\* Two sequences in a row.
LEMMA ConcatType ==
    ASSUME NEW S, NEW s \in Seq(S), NEW t \in Seq(S)
    PROVE  /\ s \o t \in Seq(S) /\ Len(s \o t) = Len(s) + Len(t)
           /\ \A k \in 1..Len(s) : (s \o t)[k] = s[k]
           /\ \A k \in 1..Len(t) : (s \o t)[Len(s) + k] = t[k]
BY ConcatProperties

\* The command line that is sent ends a sequence of command lines.
LEMMA SentType ==
    ASSUME TypeOK, host.pc # "idle", host.txn \in Nat
    PROVE  /\ Sent \in Seq(CommandLine)
           /\ Sent # <<>>
<1> DEFINE line == [frame |-> [id |-> <<host.txn, host.i>>, kind |-> Current(host).kind],
                    reply |-> Current(host).reply, crc |-> host.crc,
                    intact |-> TRUE, full |-> TRUE]
<1>1. Current(host) \in RequestType
      BY DEF TypeOK, Current
<1>2. line \in CommandLine
  <2>1. <<host.txn, host.i>> \in FrameId
        BY DEF TypeOK, FrameId
  <2>2. [id |-> <<host.txn, host.i>>, kind |-> Current(host).kind] \in Frame
        BY <1>1, <2>1 DEF Frame, RequestType
  <2>3. host.crc \in BOOLEAN /\ Current(host).reply \in BOOLEAN
        BY <1>1 DEF TypeOK, RequestType
  <2>4. QED  BY <2>2, <2>3 DEF CommandLine
<1>3. [line EXCEPT !.intact = FALSE] \in CommandLine
  <2> HIDE DEF line
  <2>1. QED  BY <1>2 DEF CommandLine
<1>4. Sent = IF toDev # <<>> /\ ~Last(toDev).full
             THEN Front(toDev) \o <<[line EXCEPT !.intact = FALSE]>> ELSE Append(toDev, line)
      BY DEF Sent
<1> HIDE DEF line
<1>5. CASE toDev # <<>> /\ ~Last(toDev).full
  <2>1. Front(toDev) \in Seq(CommandLine)
        BY <1>5, ShorterEndType DEF TypeOK
  <2>2. <<[line EXCEPT !.intact = FALSE]>> \in Seq(CommandLine)
        BY <1>3
  <2>3. QED  BY <1>4, <1>5, <2>1, <2>2, ConcatType
<1>6. CASE ~(toDev # <<>> /\ ~Last(toDev).full)
      BY <1>2, <1>4, <1>6, ExtendedType, SMTT(60) DEF TypeOK
<1>7. QED  BY <1>5, <1>6

-----------------------------------------------------------------------------
(* Types                                                                   *)

\* The type invariant by parts.
Form ==
    /\ cfg \in Scenarios
    /\ host \in HostType /\ Placed(host)
    /\ toDev \in Seq(CommandLine) /\ toHost \in Seq(ResponseLine)
    /\ dev \in [crc: BOOLEAN, out: Seq(ResponseLine)]

\* Form is the type invariant, split for the proofs.
LEMMA FormIsType == Form <=> TypeOK
BY DEF Form, HostType, Placed, TypeOK

\* Types hold when the transport is opened.
LEMMA FormInit == Init => Form
<1> SUFFICES ASSUME Init PROVE Form
    OBVIOUS
<1>1. cfg \in Scenarios /\ 0 \in 0..cfg.maxOps /\ 0 \in 0..cfg.retries /\ cfg.checksum \in BOOLEAN
      BY ScenarioForm DEF Init
<1>2. <<>> \in Seq(RequestType) /\ <<>> \in Seq(Frame) /\ <<>> \in Seq(SUBSET Frame)
      /\ <<>> \in Seq(CommandLine) /\ <<>> \in Seq(ResponseLine)
      OBVIOUS
<1>3. host \in HostType /\ Placed(host)
      BY <1>1, <1>2 DEF Init, IdleHost, HostType, Placed
<1>4. QED  BY <1>1, <1>2, <1>3 DEF Init, Form

\* Starting an operation keeps types.
LEMMA BeginForm == Form /\ Begin => Form'
<1> SUFFICES ASSUME Form, Begin PROVE Form'
    OBVIOUS
<1>1. PICK op \in cfg.ops \ {"read"} :
      \E batch \in IF op = "transaction" THEN cfg.batches
                   ELSE {<<[reply |-> FALSE, kind |-> "query"]>>} :
          LET h == [host EXCEPT !.op = op, !.txn = @ + 1, !.batch = batch, !.i = 1,
                      !.attempt = 0, !.result = "none", !.got = [j \in 1..Len(batch) |-> {}]]
              dirty == host.flush \/ host.recover
          IN IF op = "flush" \/ dirty
             THEN /\ host' = [h EXCEPT !.pc = "drain", !.pending = <<>>]
                  /\ toDev' = IF op # "flush" /\ host.recover THEN Terminated(toDev) ELSE toDev
             ELSE host' = Started(h) /\ UNCHANGED toDev
      BY DEF Begin
<1>2. PICK batch \in IF op = "transaction" THEN cfg.batches
                     ELSE {<<[reply |-> FALSE, kind |-> "query"]>>} :
          LET h == [host EXCEPT !.op = op, !.txn = @ + 1, !.batch = batch, !.i = 1,
                      !.attempt = 0, !.result = "none", !.got = [j \in 1..Len(batch) |-> {}]]
              dirty == host.flush \/ host.recover
          IN IF op = "flush" \/ dirty
             THEN /\ host' = [h EXCEPT !.pc = "drain", !.pending = <<>>]
                  /\ toDev' = IF op # "flush" /\ host.recover THEN Terminated(toDev) ELSE toDev
             ELSE host' = Started(h) /\ UNCHANGED toDev
      BY <1>1
<1>3. batch \in Seq(RequestType) /\ batch # <<>>
  <2>1. CASE op = "transaction"
        BY <1>2, <2>1, ScenarioForm DEF Form
  <2>2. CASE op # "transaction"
    <3>1. [reply |-> FALSE, kind |-> "query"] \in RequestType
          BY DEF RequestType
    <3>2. batch = <<[reply |-> FALSE, kind |-> "query"]>>
          BY <1>2, <2>2
    <3>3. QED  BY <3>1, <3>2
  <2>3. QED  BY <2>1, <2>2
<1>4. 1 \in DOMAIN batch /\ Len(batch) \in Nat
      BY <1>3
<1> DEFINE got == [j \in 1..Len(batch) |-> {}]
           n == host.txn + 1
<1>5. got \in Seq(SUBSET Frame)
  <2>1. \A j \in 1..Len(batch) : {} \in SUBSET Frame
        OBVIOUS
  <2>2. QED  BY <1>4, <2>1, SeqDef
<1>6. n \in 0..cfg.maxOps
      BY ScenarioForm, SMTT(60) DEF Begin, Form, HostType
<1>7. 0 \in 0..cfg.retries /\ op \in cfg.ops \cup {"none"} /\ <<>> \in Seq(Frame)
      BY ScenarioForm DEF Form
<1> DEFINE h == [host EXCEPT !.op = op, !.txn = n, !.batch = batch, !.i = 1,
                   !.attempt = 0, !.result = "none", !.got = got]
<1>8. IF op = "flush" \/ host.flush \/ host.recover
      THEN /\ host' = [h EXCEPT !.pc = "drain", !.pending = <<>>]
           /\ toDev' = IF op # "flush" /\ host.recover THEN Terminated(toDev) ELSE toDev
      ELSE host' = Started(h) /\ UNCHANGED toDev
      BY <1>2 DEF n, got, h
<1> HIDE DEF got, n
<1>9. h \in HostType /\ h.i = 1 /\ h.batch = batch
      BY <1>3, <1>5, <1>6, <1>7 DEF Form, HostType
<1> HIDE DEF h
<1>10. host' \in HostType /\ host'.i = 1 /\ host'.batch = batch
  <2>1. CASE op = "flush" \/ host.flush \/ host.recover
        BY <1>7, <1>8, <1>9, <2>1, ZenonT(60) DEF HostType
  <2>2. CASE ~(op = "flush" \/ host.flush \/ host.recover)
    <3>1. (cfg.async /\ h.op = "transaction") \in BOOLEAN
          OBVIOUS
    <3>2. host' = [h EXCEPT !.pc = "send", !.recover = cfg.async /\ h.op = "transaction"]
          BY <1>8, <2>2 DEF Started
    <3>3. QED  BY <1>9, <3>1, <3>2 DEF HostType
  <2>3. QED  BY <2>1, <2>2
<1>11. toDev' \in Seq(CommandLine)
  <2>1. Terminated(toDev) \in Seq(CommandLine)
    <3>1. CASE toDev # <<>> /\ ~Last(toDev).full
      <4>1. /\ Front(toDev) \in Seq(CommandLine) /\ Last(toDev) \in CommandLine
            BY <3>1, ShorterEndType DEF Form
      <4>2. [Last(toDev) EXCEPT !.full = TRUE] \in CommandLine
            BY <4>1 DEF CommandLine
      <4>3. <<[Last(toDev) EXCEPT !.full = TRUE]>> \in Seq(CommandLine)
            BY <4>2
      <4>4. QED  BY <3>1, <4>1, <4>3, ConcatType DEF Terminated
    <3>2. CASE ~(toDev # <<>> /\ ~Last(toDev).full)
          BY <3>2 DEF Terminated, Form
    <3>3. QED  BY <3>1, <3>2
  <2>2. QED  BY <1>8, <2>1 DEF Form
<1>12. Placed(host')
       BY <1>4, <1>10 DEF Placed
<1>13. QED  BY <1>10, <1>11, <1>12 DEF Form, Begin, HostType

\* Draining keeps types.
LEMMA DrainForm == Form /\ (DrainLine \/ DrainEnd) => Form'
<1> SUFFICES ASSUME Form, DrainLine \/ DrainEnd PROVE Form'
    OBVIOUS
<1>1. CASE DrainLine
      BY <1>1, ShorterType DEF DrainLine, Form, HostType, Placed
<1>2. CASE DrainEnd
  <2>1. CASE host.op = "flush"
    <3>1. host' = [host EXCEPT !.pc = "idle", !.result = "ok", !.flush = FALSE]
          BY <1>2, <2>1 DEF DrainEnd, Ended
    <3>2. host' \in HostType /\ Placed(host')
          BY <3>1 DEF Form, HostType, Placed
    <3>3. QED  BY <1>2, <3>2 DEF DrainEnd, Form, HostType
  <2>2. CASE host.op # "flush"
    <3>1. (cfg.async /\ host.op = "transaction") \in BOOLEAN
          OBVIOUS
    <3>2. host' = [host EXCEPT !.pc = "send", !.recover = cfg.async /\ host.op = "transaction",
                               !.flush = FALSE]
          BY <1>2, <2>2 DEF DrainEnd, Started
    <3>3. host' \in HostType
          BY <3>1, <3>2 DEF Form, HostType
    <3>4. host'.i = host.i /\ host'.batch = host.batch
          BY <3>2 DEF Form, HostType
    <3>5. Placed(host')
          BY <1>2, <3>4 DEF DrainEnd, Form, Placed
    <3>6. QED  BY <1>2, <3>3, <3>5 DEF DrainEnd, Form, HostType
  <2>3. QED  BY <2>1, <2>2
<1>3. QED  BY <1>1, <1>2

\* Sending a command keeps types.
LEMMA WriteForm == Form /\ write_frame => Form'
<1> SUFFICES ASSUME Form, write_frame PROVE Form'
    OBVIOUS
<1>1. TypeOK /\ host.pc # "idle" /\ host.txn \in Nat
      BY FormIsType, ScenarioForm DEF Form, HostType, write_frame
<1>2. Sent \in Seq(CommandLine)
      BY <1>1, SentType
<1>3. host' \in HostType /\ Placed(host')
      BY <1>1 DEF Form, HostType, Placed, write_frame
<1>4. QED  BY <1>2, <1>3 DEF Form, HostType, write_frame

\* Waiting for an OK keeps types.
LEMMA OkForm == Form /\ (wait_for_ok \/ OkTimeout) => Form'
<1> SUFFICES ASSUME Form, wait_for_ok \/ OkTimeout PROVE Form'
    OBVIOUS
<1>1. host.pc = "ok" /\ host.i \in DOMAIN host.batch /\ host \in HostType /\ cfg \in Scenarios
      BY DEF Form, Placed, wait_for_ok, OkTimeout
<1>2. CASE OkTimeout
  <2>1. host' \in HostType /\ Placed(host')
        BY <1>1, <1>2, FailedType DEF OkTimeout
  <2>2. QED  BY <1>2, <2>1 DEF OkTimeout, Form, HostType
<1>3. CASE wait_for_ok
  <2>1. Tail(toHost) \in Seq(ResponseLine) /\ Head(toHost) \in ResponseLine
        BY <1>3, ShorterType DEF wait_for_ok, Form
  <2>2. host' \in HostType /\ Placed(host')
    <3>1. CASE host' = host
          BY <1>1, <3>1 DEF Form
    <3>2. CASE host' = Acked(host)
          BY <1>1, <3>2, AckedType
    <3>3. CASE host' = [host EXCEPT !.pending = Append(@, Head(toHost).frame)]
      <4>1. Head(toHost).frame \in Frame /\ host.pending \in Seq(Frame)
            BY <1>1, <2>1 DEF ResponseLine, HostType
      <4>2. Append(host.pending, Head(toHost).frame) \in Seq(Frame)
            BY <4>1
      <4>3. QED  BY <1>1, <3>3, <4>2 DEF HostType, Placed
    <3>4. ASSUME NEW error \in ErrorKind,
                 host' = Failed([host EXCEPT !.crc = @ \/ error = "checksum"],
                                error \in {"checksum", "unknown"})
          PROVE  host' \in HostType /\ Placed(host')
      <4> DEFINE h == [host EXCEPT !.crc = @ \/ error = "checksum"]
                 r == error \in {"checksum", "unknown"}
      <4>1. h \in HostType /\ h.i = host.i /\ h.batch = host.batch
        <5>1. (host.crc \/ error = "checksum") \in BOOLEAN
              OBVIOUS
        <5>2. QED  BY <1>1, <5>1 DEF HostType
      <4>2. r \in BOOLEAN
            OBVIOUS
      <4>3. host' = Failed(h, r)
            BY <3>4
      <4> HIDE DEF h, r
      <4>4. QED  BY <1>1, <4>1, <4>2, <4>3, FailedType
    <3>5. QED  BY <1>3, <3>1, <3>2, <3>3, <3>4 DEF wait_for_ok
  <2>3. QED  BY <1>3, <2>1, <2>2 DEF wait_for_ok, Form, HostType
<1>4. QED  BY <1>2, <1>3

\* Waiting for a reply keeps types.
LEMMA ReplyForm == Form /\ (receive_reply \/ ReplyDone \/ ReplyTimeout) => Form'
<1> SUFFICES ASSUME Form, receive_reply \/ ReplyDone \/ ReplyTimeout PROVE Form'
    OBVIOUS
<1>1. host.pc = "reply" /\ host.i \in DOMAIN host.batch /\ host \in HostType /\ cfg \in Scenarios
      BY DEF Form, Placed, receive_reply, ReplyDone, ReplyTimeout
<1>2. CASE receive_reply
  <2>1. Tail(toHost) \in Seq(ResponseLine) /\ Head(toHost) \in ResponseLine
        BY <1>2, ShorterType DEF receive_reply, Form
  <2>2. host' \in HostType /\ Placed(host')
    <3>1. CASE host' = host
          BY <1>1, <3>1 DEF Form
    <3>2. CASE host' = dispatch(host, {Head(toHost).frame})
      <4>1. {Head(toHost).frame} \in SUBSET Frame
            BY <2>1 DEF ResponseLine
      <4>2. host' \in HostType /\ host' = [host EXCEPT !.got = host'.got]
            BY <1>1, <3>2, <4>1, DispatchType
      <4>3. host'.i = host.i /\ host'.batch = host.batch
            BY <1>1, <4>2 DEF HostType
      <4>4. QED  BY <1>1, <4>2, <4>3 DEF Placed
    <3>3. QED  BY <1>2, <3>1, <3>2 DEF receive_reply
  <2>3. QED  BY <1>2, <2>1, <2>2 DEF receive_reply, Form, HostType
<1>3. CASE ReplyDone
      BY <1>1, <1>3, AdvanceType DEF ReplyDone, Form, HostType
<1>4. CASE ReplyTimeout
  <2> DEFINE h == [host EXCEPT !.flush = TRUE]
  <2>1. h \in HostType /\ h.i = host.i /\ h.batch = host.batch
        BY <1>1 DEF HostType
  <2>2. host' = Advance(h)
        BY <1>4 DEF ReplyTimeout
  <2> HIDE DEF h
  <2>3. QED  BY <1>1, <1>4, <2>1, <2>2, AdvanceType DEF ReplyTimeout, Form, HostType
<1>5. QED  BY <1>2, <1>3, <1>4

\* read() keeps types.
LEMMA ReadForm == Form /\ read => Form'
<1> SUFFICES ASSUME Form, read PROVE Form'
    OBVIOUS
<1>1. CASE host.pending # <<>>
  <2>1. Front(host.pending) \in Seq(Frame)
        BY <1>1, ShorterEndType DEF Form, HostType
  <2>2. host' \in HostType /\ Placed(host')
        BY <1>1, <2>1, ZenonT(60) DEF read, Form, HostType, Placed
  <2>3. QED  BY <1>1, <2>2 DEF read, Form, HostType
<1>2. CASE host.pending = <<>>
  <2>1. toHost # <<>> /\ toHost' = Tail(toHost) /\ UNCHANGED <<cfg, host, toDev, dev>>
        BY <1>2 DEF read
  <2>2. Tail(toHost) \in Seq(ResponseLine)
        BY <2>1, ShorterType DEF Form
  <2>3. QED  BY <2>1, <2>2 DEF Form, HostType, Placed
<1>3. QED  BY <1>1, <1>2

\* Dropping a future keeps types, with half a command sent or without.
LEMMA CancelForm == Form /\ Cancel => Form'
<1> SUFFICES ASSUME Form, Cancel PROVE Form'
    OBVIOUS
<1>1. host' \in HostType /\ Placed(host')
      BY DEF Cancel, Form, HostType, Placed
<1>2. toDev' \in Seq(CommandLine)
  <2> DEFINE half == [Last(Sent) EXCEPT !.crc = FALSE, !.intact = FALSE, !.full = FALSE]
  <2>1. Last(Sent) \in CommandLine
        BY FormIsType, SentType, ShorterEndType, ScenarioForm DEF Cancel, Form, HostType
  <2>2. half \in CommandLine
        BY <2>1 DEF CommandLine
  <2>3. toDev' = toDev \/ toDev' = Append(toDev, half)
        BY DEF Cancel
  <2> HIDE DEF half
  <2>4. Append(toDev, half) \in Seq(CommandLine)
        BY <2>2, ExtendedType DEF Form
  <2>5. QED  BY <2>3, <2>4 DEF Form
<1>3. QED  BY <1>1, <1>2 DEF Cancel, Form, HostType

\* Response makes response lines.
LEMMA ResponseType ==
    ASSUME NEW kind \in {"OK", "rcv"} \cup ErrorKind, NEW frame \in Frame, NEW crc \in BOOLEAN
    PROVE  Response(kind, frame, crc) \in ResponseLine
BY DEF Response, ResponseLine

\* What ProcessLine may answer to a line.
Outcome(line, crc) ==
    {<<>>}
    \cup {<<Response(error, NoFrame, crc)>> : error \in ErrorKind}
    \cup {<<Response("OK", NoFrame, crc)>>}
    \cup {<<Response("OK", NoFrame, crc)>> \o <<Response("rcv", line.frame, crc)>> :
             k \in {j \in {1} : line.reply}}

\* ProcessLine answers one of the outcomes.
LEMMA ProcessAnswers ==
    ASSUME Form, ProcessLine
    PROVE  /\ toDev # <<>> /\ Head(toDev).full /\ toDev' = Tail(toDev)
           /\ \E crc \in BOOLEAN : \E lines \in Outcome(Head(toDev), crc) :
                 dev' = [crc |-> crc, out |-> dev.out \o lines]
           /\ UNCHANGED <<cfg, host, toHost>>
<1> DEFINE line == Head(toDev)
           crc == dev.crc \/ (line.crc /\ line.intact)
           Answer(lines) == dev' = [crc |-> crc, out |-> dev.out \o lines]
           OKLine == <<Response("OK", NoFrame, crc)>>
           Reply == <<Response("rcv", line.frame, crc)>>
<1>1. /\ toDev # <<>> /\ line.full /\ toDev' = Tail(toDev) /\ UNCHANGED <<cfg, host, toHost>>
      /\ \/ Answer(<<Response("checksum", NoFrame, crc)>>)
         \/ Answer(OKLine \o (IF line.reply THEN Reply ELSE <<>>))
         \/ Answer(OKLine)
         \/ \E error \in ErrorKind : Answer(<<Response(error, NoFrame, crc)>>)
         \/ Answer(<<>>)
      BY DEF ProcessLine
<1>2. crc \in BOOLEAN
      OBVIOUS
<1>3. "checksum" \in ErrorKind
      BY DEF ErrorKind
<1> HIDE DEF crc, line
<1>4. \E lines \in Outcome(line, crc) : Answer(lines)
  <2>1. \A error \in ErrorKind : <<Response(error, NoFrame, crc)>> \in Outcome(line, crc)
        BY DEF Outcome
  <2>2. OKLine \in Outcome(line, crc) /\ <<>> \in Outcome(line, crc)
        BY DEF Outcome
  <2>3. line.reply => OKLine \o Reply \in Outcome(line, crc)
        BY DEF Outcome
  <2>4. OKLine \o <<>> = OKLine
        BY ConcatEmptySeq
  <2> HIDE DEF OKLine, Reply
  <2>5. QED  BY <1>1, <1>3, <2>1, <2>2, <2>3, <2>4
<1>5. QED  BY <1>1, <1>2, <1>4 DEF line

\* Processing a line keeps types.
LEMMA ProcessForm == Form /\ ProcessLine => Form'
<1> SUFFICES ASSUME Form, ProcessLine PROVE Form'
    OBVIOUS
<1>1. /\ Tail(toDev) \in Seq(CommandLine) /\ Head(toDev) \in CommandLine
      BY ProcessAnswers, ShorterType DEF Form
<1>0. PICK crc \in BOOLEAN : \E lines \in Outcome(Head(toDev), crc) :
          dev' = [crc |-> crc, out |-> dev.out \o lines]
      BY ProcessAnswers
<1>2. PICK lines \in Outcome(Head(toDev), crc) :
          dev' = [crc |-> crc, out |-> dev.out \o lines]
      BY <1>0
<1>3. lines \in Seq(ResponseLine)
  <2>1. NoFrame \in Frame
        BY DEF NoFrame, Frame, FrameId
  <2>2. Head(toDev).frame \in Frame
        BY <1>1 DEF CommandLine
  <2>3. /\ \A error \in ErrorKind : Response(error, NoFrame, crc) \in ResponseLine
        /\ Response("OK", NoFrame, crc) \in ResponseLine
        /\ Response("rcv", Head(toDev).frame, crc) \in ResponseLine
        BY <2>1, <2>2, ResponseType
  <2>4. <<Response("OK", NoFrame, crc)>> \o <<Response("rcv", Head(toDev).frame, crc)>>
            \in Seq(ResponseLine)
        BY <2>3
  <2>5. lines = <<>> \/ (\E error \in ErrorKind : lines = <<Response(error, NoFrame, crc)>>)
        \/ lines = <<Response("OK", NoFrame, crc)>>
        \/ lines = <<Response("OK", NoFrame, crc)>> \o <<Response("rcv", Head(toDev).frame, crc)>>
        BY <1>2 DEF Outcome
  <2>6. \A x \in ResponseLine : <<x>> \in Seq(ResponseLine)
        OBVIOUS
  <2>7. <<>> \in Seq(ResponseLine)
        OBVIOUS
  <2>8. QED  BY <2>3, <2>4, <2>5, <2>6, <2>7
<1>4. dev.out \o lines \in Seq(ResponseLine)
      BY <1>3 DEF Form
<1>5. dev' \in [crc: BOOLEAN, out: Seq(ResponseLine)]
      BY <1>2, <1>4
<1>6. QED  BY <1>1, <1>5, ProcessAnswers, ZenonT(60) DEF Form, HostType

\* Sending a response keeps types.
LEMMA PollForm == Form /\ Poll => Form'
<1> SUFFICES ASSUME Form, Poll PROVE Form'
    OBVIOUS
<1>1. dev.out \in Seq(ResponseLine) /\ dev.out # <<>>
      BY DEF Form, Poll
<1>2. Tail(dev.out) \in Seq(ResponseLine) /\ Head(dev.out) \in ResponseLine
      BY <1>1, ShorterType
<1>3. Append(toHost, Head(dev.out)) \in Seq(ResponseLine)
      BY <1>2 DEF Form
<1>4. dev' \in [crc: BOOLEAN, out: Seq(ResponseLine)]
      BY <1>2 DEF Form, Poll
<1>5. QED  BY <1>3, <1>4 DEF Form, Poll, HostType

\* Faults keep types.
LEMMA FaultForm == Form /\ (LinkFault \/ DeviceReset) => Form'
<1> SUFFICES ASSUME Form, LinkFault \/ DeviceReset PROVE Form'
    OBVIOUS
<1>1. UNCHANGED <<cfg, host>>
      BY DEF LinkFault, DeviceReset, Fault
<1>2. CASE DeviceReset
  <2>1. <<>> \in Seq(ResponseLine)
        OBVIOUS
  <2>2. QED  BY <1>1, <1>2, <2>1 DEF DeviceReset, Form, HostType
<1>3. CASE LinkFault
  <2>1. \A S : \A s \in Seq(S) : \A e \in S : s # <<>> => <<e>> \o Tail(s) \in Seq(S)
        OBVIOUS
  <2>2. toDev' \in Seq(CommandLine)
    <3>1. CASE toDev # <<>>
      <4>1. Tail(toDev) \in Seq(CommandLine) /\ Head(toDev) \in CommandLine
            BY <3>1, ShorterType DEF Form
      <4>2. Garbled(Head(toDev)) \subseteq CommandLine
            BY <4>1 DEF Garbled, CommandLine
      <4>3. \A line \in Garbled(Head(toDev)) : <<line>> \o Tail(toDev) \in Seq(CommandLine)
            BY <3>1, <4>2, <2>1 DEF Form
      <4>4. QED  BY <1>3, <4>1, <4>3 DEF LinkFault, Disturbed, Form
    <3>2. CASE toDev = <<>>
          BY <1>3, <3>2 DEF LinkFault, Form
    <3>3. QED  BY <3>1, <3>2
  <2>3. toHost' \in Seq(ResponseLine)
    <3>1. CASE toHost # <<>>
      <4>1. Tail(toHost) \in Seq(ResponseLine) /\ Head(toHost) \in ResponseLine
            BY <3>1, ShorterType DEF Form
      <4>2. Garbled(Head(toHost)) \subseteq ResponseLine
            BY <4>1 DEF Garbled, ResponseLine
      <4>3. \A line \in Garbled(Head(toHost)) : <<line>> \o Tail(toHost) \in Seq(ResponseLine)
            BY <3>1, <4>2, <2>1 DEF Form
      <4>4. QED  BY <1>3, <4>1, <4>3 DEF LinkFault, Disturbed, Form
    <3>2. CASE toHost = <<>>
          BY <1>3, <3>2 DEF LinkFault, Form
    <3>3. QED  BY <3>1, <3>2
  <2>4. QED  BY <1>1, <1>3, <2>2, <2>3 DEF LinkFault, Form, HostType
<1>4. QED  BY <1>2, <1>3

\* Every step keeps types.
LEMMA FormNext == Form /\ [Next]_vars => Form'
<1> SUFFICES ASSUME Form, [Next]_vars PROVE Form'
    OBVIOUS
<1>1. CASE UNCHANGED vars
      BY <1>1 DEF vars, Form, HostType, Placed
<1>2. CASE Next
      BY <1>2, BeginForm, DrainForm, WriteForm, OkForm, ReplyForm, ReadForm, CancelForm,
         ProcessForm, PollForm, FaultForm DEF Next, HostStep
<1>3. QED  BY <1>1, <1>2

\* Host, firmware and lines keep their types, whatever the scenarios.
THEOREM UartTypeCorrect == Spec => []TypeOK
<1>1. Spec => []Form
      BY FormInit, FormNext, PTL DEF Spec
<1>2. QED  BY <1>1, FormIsType, PTL

-----------------------------------------------------------------------------
(* The invariant                                                           *)

\* A write() of AsyncFdcanusbDevice sets no needs_recovery.
Sequential == ~(cfg.async /\ "write" \in cfg.ops)

Busy == host.pc \in {"send", "ok", "reply"}

\* The first attempt of a request, with nothing left behind.
Clean == ~host.flush /\ host.attempt = 0

OwnFrame == [id |-> <<host.txn, host.i>>, kind |-> Current(host).kind]

\* The host between the steps of an operation.
HostInv ==
    /\ Busy => host.op \in {"transaction", "write"} /\ (cfg.async => host.recover)
    /\ host.pc = "drain" => host.op \in {"transaction", "write", "flush"}
    /\ host.pc # "idle" => DOMAIN host.got = DOMAIN host.batch
    /\ host.pc # "idle" /\ host.op = "write" => \A j \in DOMAIN host.batch : ~host.batch[j].reply
    /\ host.pc = "reply" => Current(host).reply
    /\ host.pc = "reply" /\ host.attempt > 0 => host.flush

\* Half a command is the last thing sent, and needs_recovery is set.
HalfInv ==
    \A k \in 1..Len(toDev) : ~toDev[k].full =>
        /\ k = Len(toDev) /\ host.recover
        /\ ~Busy /\ (host.pc = "drain" => host.op = "flush")

\* Between operations and while draining: what is not flagged is not there.
RestInv ==
    /\ ~Busy /\ ~host.flush /\ ~host.recover => Quiet /\ host.pending = <<>>
    /\ host.pc = "drain" => host.pending = <<>> /\ \A j \in DOMAIN host.got : host.got[j] = {}

\* While an operation runs, what is under way is its own.
CurrentInv ==
    Busy =>
        /\ \A k \in 1..Len(toDev) : toDev[k].frame.id[1] = host.txn
        /\ \A k \in 1..Len(dev.out) :
              dev.out[k].kind = "rcv" => dev.out[k].frame.id[1] = host.txn
        /\ \A k \in 1..Len(toHost) : toHost[k].kind = "rcv" => toHost[k].frame.id[1] = host.txn
        /\ \A k \in 1..Len(host.pending) : host.pending[k].id[1] = host.txn

\* A reply is the last line under way, any other line the first.
LastReply ==
    /\ \A k \in 1..Len(toHost) : toHost[k].kind = "rcv" =>
          k = Len(toHost) /\ dev.out = <<>> /\ Current(host).reply /\ toHost[k].frame = OwnFrame
    /\ \A k \in 1..Len(dev.out) : dev.out[k].kind = "rcv" =>
          k = Len(dev.out) /\ Current(host).reply /\ dev.out[k].frame = OwnFrame
FirstOther ==
    /\ \A k \in 1..Len(toHost) : toHost[k].kind # "rcv" => k = 1
    /\ \A k \in 1..Len(dev.out) : dev.out[k].kind # "rcv" => k = 1 /\ toHost = <<>>

\* Before a first attempt nothing is under way.
SendInv == host.pc = "send" /\ Clean => Quiet /\ host.pending = <<>>

\* A first attempt has one command under way, or what is left of its answer.
OkInv ==
    host.pc = "ok" /\ Clean =>
        /\ toDev # <<>> =>
              /\ Len(toDev) = 1 /\ toDev[1].frame = OwnFrame
              /\ toDev[1].reply = Current(host).reply
              /\ toHost = <<>> /\ dev.out = <<>> /\ host.pending = <<>>
        /\ host.pending # <<>> => toHost = <<>> /\ dev.out = <<>>
        /\ LastReply /\ FirstOther

\* While its reply is awaited, at most that reply is under way.
ReplyInv ==
    host.pc = "reply" /\ Clean =>
        /\ toDev = <<>> /\ host.pending = <<>>
        /\ \A k \in 1..Len(toHost) : toHost[k].kind = "rcv"
        /\ \A k \in 1..Len(dev.out) : dev.out[k].kind = "rcv"
        /\ LastReply
        /\ host.got[host.i] # {} => toHost = <<>> /\ dev.out = <<>>

\* Requests that have not been sent have no replies.
GotInv ==
    Busy /\ Clean =>
        \A j \in DOMAIN host.got :
            j > host.i \/ (j = host.i /\ host.pc # "reply") => host.got[j] = {}

UartInv ==
    /\ HostInv /\ HalfInv /\ RestInv /\ CurrentInv
    /\ SendInv /\ OkInv /\ ReplyInv /\ GotInv /\ NoStaleReply

-----------------------------------------------------------------------------
(* Steps of the link                                                       *)

\* A line that the checksum policy takes for what it is.
Sound(line) == line.crc /\ line.intact

\* t is s, or s without its first line, up to garbling.
FewerCommands(s, t) ==
    \E d \in {0, 1} :
        /\ Len(t) = Len(s) - d
        /\ \A k \in 1..Len(t) :
              /\ k + d \in 1..Len(s)
              /\ t[k].frame = s[k + d].frame /\ t[k].reply = s[k + d].reply
              /\ t[k].full = s[k + d].full
FewerResponses(s, t) ==
    \E d \in {0, 1} :
        /\ Len(t) = Len(s) - d
        /\ \A k \in 1..Len(t) :
              /\ k + d \in 1..Len(s)
              /\ t[k].kind = s[k + d].kind /\ t[k].frame = s[k + d].frame
              /\ Sound(t[k]) => Sound(s[k + d])

\* Reading a response leaves fewer.
LEMMA TailFewerResponses ==
    ASSUME NEW s \in Seq(ResponseLine), s # <<>>
    PROVE  FewerResponses(s, Tail(s))
<1>1. /\ Len(Tail(s)) = Len(s) - 1 /\ Len(s) \in Nat
      /\ \A k \in 1..(Len(s) - 1) : k + 1 \in 1..Len(s) /\ Tail(s)[k] = s[k + 1]
      BY ShorterType, SMTT(60)
<1>2. QED  BY <1>1 DEF FewerResponses

\* Losing a command leaves fewer.
LEMMA TailFewerCommands ==
    ASSUME NEW s \in Seq(CommandLine), s # <<>>
    PROVE  FewerCommands(s, Tail(s))
<1>1. /\ Len(Tail(s)) = Len(s) - 1 /\ Len(s) \in Nat
      /\ \A k \in 1..(Len(s) - 1) : k + 1 \in 1..Len(s) /\ Tail(s)[k] = s[k + 1]
      BY ShorterType
<1>2. QED  BY <1>1 DEF FewerCommands

\* A garbled response still is what it was for the invariant.
LEMMA GarbledFewerResponses ==
    ASSUME NEW s \in Seq(ResponseLine), s # <<>>, NEW e \in Garbled(Head(s))
    PROVE  FewerResponses(s, <<e>> \o Tail(s))
<1> DEFINE t == <<e>> \o Tail(s)
<1>1. Head(s) \in ResponseLine /\ Head(s) = s[1] /\ Tail(s) \in Seq(ResponseLine)
      /\ Len(Tail(s)) = Len(s) - 1 /\ Len(s) \in Nat \ {0}
      /\ \A k \in 1..(Len(s) - 1) : Tail(s)[k] = s[k + 1]
      BY ShorterType
<1>2. e \in ResponseLine /\ e.kind = s[1].kind /\ e.frame = s[1].frame /\ ~Sound(e)
      BY <1>1 DEF Garbled, ResponseLine, Sound
<1>3. <<e>> \in Seq(ResponseLine) /\ Len(<<e>>) = 1 /\ <<e>>[1] = e
      BY <1>2
<1>4. Len(t) = Len(s) /\ t[1] = e /\ \A k \in 1..(Len(s) - 1) : t[1 + k] = s[k + 1]
      BY <1>1, <1>3, ConcatType
<1> HIDE DEF t
<1>5. \A k \in 1..Len(t) : t[k].kind = s[k + 0].kind /\ t[k].frame = s[k + 0].frame
                            /\ k + 0 \in 1..Len(s) /\ (Sound(t[k]) => Sound(s[k + 0]))
  <2> TAKE k \in 1..Len(t)
  <2>1. CASE k = 1
        BY <1>1, <1>2, <1>4, <2>1
  <2>2. CASE k # 1
    <3>1. k - 1 \in 1..(Len(s) - 1) /\ 1 + (k - 1) = k /\ (k - 1) + 1 = k
          BY <1>1, <1>4, <2>2
    <3>2. t[k] = s[k]
          BY <1>4, <3>1
    <3>3. QED  BY <1>1, <1>4, <3>2
  <2>3. QED  BY <2>1, <2>2
<1>6. Len(t) = Len(s) - 0
      BY <1>1, <1>4
<1>7. FewerResponses(s, t)
      BY <1>5, <1>6 DEF FewerResponses
<1>8. QED  BY <1>7 DEF t

\* A garbled command still is what it was for the invariant.
LEMMA GarbledFewerCommands ==
    ASSUME NEW s \in Seq(CommandLine), s # <<>>, NEW e \in Garbled(Head(s))
    PROVE  FewerCommands(s, <<e>> \o Tail(s))
<1> DEFINE t == <<e>> \o Tail(s)
<1>1. Head(s) \in CommandLine /\ Head(s) = s[1] /\ Tail(s) \in Seq(CommandLine)
      /\ Len(Tail(s)) = Len(s) - 1 /\ Len(s) \in Nat \ {0}
      /\ \A k \in 1..(Len(s) - 1) : Tail(s)[k] = s[k + 1]
      BY ShorterType
<1>2. e \in CommandLine /\ e.frame = s[1].frame /\ e.reply = s[1].reply /\ e.full = s[1].full
      BY <1>1 DEF Garbled, CommandLine
<1>3. <<e>> \in Seq(CommandLine) /\ Len(<<e>>) = 1 /\ <<e>>[1] = e
      BY <1>2
<1>4. Len(t) = Len(s) /\ t[1] = e /\ \A k \in 1..(Len(s) - 1) : t[1 + k] = s[k + 1]
      BY <1>1, <1>3, ConcatType
<1> HIDE DEF t
<1>5. \A k \in 1..Len(t) : t[k].frame = s[k + 0].frame /\ t[k].reply = s[k + 0].reply
                            /\ t[k].full = s[k + 0].full /\ k + 0 \in 1..Len(s)
  <2> TAKE k \in 1..Len(t)
  <2>1. CASE k = 1
        BY <1>1, <1>2, <1>4, <2>1
  <2>2. CASE k # 1
    <3>1. k - 1 \in 1..(Len(s) - 1) /\ 1 + (k - 1) = k /\ (k - 1) + 1 = k
          BY <1>1, <1>4, <2>2
    <3>2. t[k] = s[k]
          BY <1>4, <3>1
    <3>3. QED  BY <1>1, <1>4, <3>2
  <2>3. QED  BY <2>1, <2>2
<1>6. Len(t) = Len(s) - 0
      BY <1>1, <1>4
<1>7. FewerCommands(s, t)
      BY <1>5, <1>6 DEF FewerCommands
<1>8. QED  BY <1>7 DEF t

\* Lengths and small numbers of a well-typed state.
LEMMA Emptiness ==
    ASSUME Form
    PROVE  /\ Len(toDev) \in Nat /\ Len(toHost) \in Nat /\ Len(dev.out) \in Nat
           /\ toDev = <<>> <=> Len(toDev) = 0
           /\ toHost = <<>> <=> Len(toHost) = 0
           /\ dev.out = <<>> <=> Len(dev.out) = 0
           /\ host.pending \in Seq(Frame) /\ Len(host.pending) \in Nat
           /\ host.pending = <<>> <=> Len(host.pending) = 0
           /\ host.attempt \in Nat /\ host.i \in Nat /\ host.txn \in Nat
           /\ host.batch \in Seq(RequestType)
<1>1. dev.out \in Seq(ResponseLine) /\ host.pending \in Seq(Frame)
      /\ host.attempt \in 0..cfg.retries /\ host.txn \in 0..cfg.maxOps /\ host.i \in Nat
      /\ host.batch \in Seq(RequestType)
      BY DEF Form, HostType
<1>2. host.attempt \in Nat /\ host.txn \in Nat
      BY <1>1, ScenarioForm DEF Form
<1>3. \A S : \A s \in Seq(S) : Len(s) \in Nat /\ (s = <<>> <=> Len(s) = 0)
      OBVIOUS
<1>4. QED  BY <1>1, <1>2, <1>3 DEF Form

\* Losing, garbling or discarding lines keeps the invariant.
LEMMA LessKeeps ==
    ASSUME Form, Form', UartInv, UNCHANGED <<cfg, host>>,
           FewerCommands(toDev, toDev'), FewerResponses(toHost, toHost'),
           dev'.out = dev.out \/ dev'.out = <<>>
    PROVE  UartInv'
<1>1. PICK c \in {0, 1} :
        /\ Len(toDev') = Len(toDev) - c
        /\ \A k \in 1..Len(toDev') :
              /\ k + c \in 1..Len(toDev)
              /\ toDev'[k].frame = toDev[k + c].frame /\ toDev'[k].reply = toDev[k + c].reply
              /\ toDev'[k].full = toDev[k + c].full
      BY DEF FewerCommands
<1>2. PICK d \in {0, 1} :
        /\ Len(toHost') = Len(toHost) - d
        /\ \A k \in 1..Len(toHost') :
              /\ k + d \in 1..Len(toHost)
              /\ toHost'[k].kind = toHost[k + d].kind /\ toHost'[k].frame = toHost[k + d].frame
      BY DEF FewerResponses
<1>3. /\ Len(toDev) \in Nat /\ Len(toHost) \in Nat /\ Len(toDev') \in Nat /\ Len(toHost') \in Nat
      /\ toDev = <<>> => toDev' = <<>>
      /\ toHost = <<>> => toHost' = <<>>
      /\ dev.out = <<>> => dev'.out = <<>>
  <2>1. \A n \in Nat : \A b \in {0, 1} : n - b \in Nat /\ n = 0 => n - b = 0
        OBVIOUS
  <2>2. Len(toDev') \in Nat /\ (toDev' = <<>> <=> Len(toDev') = 0)
        /\ Len(toHost') \in Nat /\ (toHost' = <<>> <=> Len(toHost') = 0)
    <3>1. \A S : \A s \in Seq(S) : Len(s) \in Nat /\ (s = <<>> <=> Len(s) = 0)
          OBVIOUS
    <3>2. QED  BY <3>1 DEF Form
  <2>3. QED  BY <1>1, <1>2, <2>1, <2>2, Emptiness
<1>4. Quiet => Quiet'
      BY <1>3 DEF Quiet
<1>5. HostInv' /\ SendInv' /\ RestInv' /\ GotInv' /\ NoStaleReply'
      BY <1>4 DEF UartInv, HostInv, SendInv, RestInv, GotInv, NoStaleReply, Busy, Clean, Current
<1>6. HalfInv'
      BY <1>1, <1>3, SMTT(60) DEF UartInv, HalfInv, Busy
<1>7. CurrentInv'
  <2>1. ASSUME Busy, NEW k \in 1..Len(toDev') PROVE toDev'[k].frame.id[1] = host.txn
        BY <1>1, <2>1 DEF UartInv, CurrentInv
  <2>2. ASSUME Busy, NEW k \in 1..Len(toHost'), toHost'[k].kind = "rcv"
        PROVE  toHost'[k].frame.id[1] = host.txn
        BY <1>2, <2>2 DEF UartInv, CurrentInv
  <2>3. ASSUME Busy, NEW k \in 1..Len(dev'.out), dev'.out[k].kind = "rcv"
        PROVE  dev'.out[k].frame.id[1] = host.txn
        BY <2>3 DEF UartInv, CurrentInv
  <2>4. QED  BY <2>1, <2>2, <2>3 DEF UartInv, CurrentInv, Busy
<1>8. LastReply => LastReply'
  <2> SUFFICES ASSUME LastReply PROVE LastReply'
      OBVIOUS
  <2>1. OwnFrame' = OwnFrame /\ Current(host)' = Current(host)
        BY DEF OwnFrame, Current
  <2>2. ASSUME NEW k \in 1..Len(toHost'), toHost'[k].kind = "rcv"
        PROVE  /\ k = Len(toHost') /\ dev'.out = <<>>
               /\ Current(host).reply /\ toHost'[k].frame = OwnFrame
    <3>1. /\ k + d \in 1..Len(toHost) /\ toHost[k + d].kind = "rcv"
          /\ toHost'[k].frame = toHost[k + d].frame
          BY <1>2, <2>2
    <3>2. /\ k + d = Len(toHost) /\ dev.out = <<>>
          /\ Current(host).reply /\ toHost[k + d].frame = OwnFrame
          BY <3>1 DEF LastReply
    <3>3. k = Len(toHost')
          BY <1>2, <1>3, <3>2
    <3>4. QED  BY <1>3, <3>1, <3>2, <3>3
  <2>3. ASSUME NEW k \in 1..Len(dev'.out), dev'.out[k].kind = "rcv"
        PROVE  k = Len(dev'.out) /\ Current(host).reply /\ dev'.out[k].frame = OwnFrame
        BY <2>3 DEF LastReply
  <2>4. QED  BY <2>1, <2>2, <2>3 DEF LastReply
<1>9. FirstOther => FirstOther'
  <2> SUFFICES ASSUME FirstOther PROVE FirstOther'
      OBVIOUS
  <2>1. ASSUME NEW k \in 1..Len(toHost'), toHost'[k].kind # "rcv" PROVE k = 1
    <3>1. k + d \in 1..Len(toHost) /\ toHost[k + d].kind # "rcv"
          BY <1>2, <2>1
    <3>2. k + d = 1
          BY <3>1 DEF FirstOther
    <3>3. QED  BY <1>3, <3>2
  <2>2. ASSUME NEW k \in 1..Len(dev'.out), dev'.out[k].kind # "rcv" PROVE k = 1 /\ toHost' = <<>>
        BY <1>3, <2>2 DEF FirstOther
  <2>3. QED  BY <2>1, <2>2 DEF FirstOther
<1>10. OkInv'
  <2> SUFFICES ASSUME host.pc = "ok", Clean PROVE OkInv'
      BY DEF OkInv, Clean
  <2>1. /\ toDev # <<>> =>
              /\ Len(toDev) = 1 /\ toDev[1].frame = OwnFrame
              /\ toDev[1].reply = Current(host).reply
              /\ toHost = <<>> /\ dev.out = <<>> /\ host.pending = <<>>
        /\ host.pending # <<>> => toHost = <<>> /\ dev.out = <<>>
        /\ LastReply /\ FirstOther
        BY DEF UartInv, OkInv
  <2>2. OwnFrame' = OwnFrame /\ Current(host)' = Current(host)
        BY DEF OwnFrame, Current
  <2>3. toDev' # <<>> =>
              /\ Len(toDev') = 1 /\ toDev'[1].frame = OwnFrame
              /\ toDev'[1].reply = Current(host).reply
              /\ toHost' = <<>> /\ dev'.out = <<>> /\ host.pending = <<>>
    <3> SUFFICES ASSUME toDev' # <<>>
                 PROVE  toDev # <<>> /\ Len(toDev') = 1 /\ c = 0 /\ 1 \in 1..Len(toDev')
        BY <1>1, <1>3, <2>1
    <3>1. toDev # <<>> /\ Len(toDev) = 1
          BY <1>3, <2>1
    <3>2. Len(toDev') # 0
      <4>1. \A S : \A s \in Seq(S) : s = <<>> <=> Len(s) = 0
            OBVIOUS
      <4>2. QED  BY <4>1 DEF Form
    <3>3. QED  BY <1>1, <1>3, <3>1, <3>2
  <2>4. QED  BY <1>3, <1>8, <1>9, <2>1, <2>2, <2>3 DEF OkInv
<1>11. ReplyInv'
  <2> SUFFICES ASSUME host.pc = "reply", Clean PROVE ReplyInv'
      BY DEF ReplyInv, Clean
  <2>1. /\ toDev = <<>> /\ host.pending = <<>>
        /\ \A k \in 1..Len(toHost) : toHost[k].kind = "rcv"
        /\ \A k \in 1..Len(dev.out) : dev.out[k].kind = "rcv"
        /\ LastReply
        /\ host.got[host.i] # {} => toHost = <<>> /\ dev.out = <<>>
        BY DEF UartInv, ReplyInv
  <2>2. \A k \in 1..Len(toHost') : toHost'[k].kind = "rcv"
        BY <1>2, <2>1, SMTT(60)
  <2>3. \A k \in 1..Len(dev'.out) : dev'.out[k].kind = "rcv"
        BY <2>1
  <2>4. QED  BY <1>3, <1>8, <2>1, <2>2, <2>3 DEF ReplyInv
<1>12. QED  BY <1>5, <1>6, <1>7, <1>10, <1>11 DEF UartInv

\* No lines fewer.
LEMMA FewerSame ==
    ASSUME Form
    PROVE  FewerCommands(toDev, toDev) /\ FewerResponses(toHost, toHost)
<1>1. /\ Len(toDev) = Len(toDev) - 0 /\ \A k \in 1..Len(toDev) : k + 0 \in 1..Len(toDev) /\ k + 0 = k
      /\ Len(toHost) = Len(toHost) - 0
      /\ \A k \in 1..Len(toHost) : k + 0 \in 1..Len(toHost) /\ k + 0 = k
      BY Emptiness
<1>2. QED  BY <1>1 DEF FewerCommands, FewerResponses

\* Draining, losing, garbling and a restart keep the invariant.
LEMMA LessInv == Form /\ UartInv /\ (DrainLine \/ LinkFault \/ DeviceReset) => UartInv'
<1> SUFFICES ASSUME Form, UartInv, DrainLine \/ LinkFault \/ DeviceReset PROVE UartInv'
    OBVIOUS
<1>1. Form'
      BY DrainForm, FaultForm
<1>2. UNCHANGED <<cfg, host>>
      BY DEF DrainLine, LinkFault, DeviceReset, Fault
<1>3. dev'.out = dev.out \/ dev'.out = <<>>
      BY DEF DrainLine, LinkFault, DeviceReset
<1>4. FewerCommands(toDev, toDev')
  <2>1. CASE toDev' = toDev
        BY <2>1, FewerSame
  <2>2. CASE toDev # <<>> /\ toDev' = Tail(toDev)
        BY <2>2, TailFewerCommands DEF Form
  <2>3. CASE toDev # <<>> /\ \E line \in Garbled(Head(toDev)) : toDev' = <<line>> \o Tail(toDev)
        BY <2>3, GarbledFewerCommands DEF Form
  <2>4. QED  BY <2>1, <2>2, <2>3 DEF DrainLine, LinkFault, Disturbed, DeviceReset
<1>5. FewerResponses(toHost, toHost')
  <2>1. CASE toHost' = toHost
        BY <2>1, FewerSame
  <2>2. CASE toHost # <<>> /\ toHost' = Tail(toHost)
        BY <2>2, TailFewerResponses DEF Form
  <2>3. CASE toHost # <<>> /\ \E line \in Garbled(Head(toHost)) : toHost' = <<line>> \o Tail(toHost)
        BY <2>3, GarbledFewerResponses DEF Form
  <2>4. QED  BY <2>1, <2>2, <2>3 DEF DrainLine, LinkFault, Disturbed, DeviceReset
<1>6. QED  BY <1>1, <1>2, <1>3, <1>4, <1>5, LessKeeps

\* A line moves from the firmware's buffers to the wire.
LEMMA PollInv == Form /\ UartInv /\ Poll => UartInv'
<1> SUFFICES ASSUME Form, UartInv, Poll PROVE UartInv'
    OBVIOUS
<1> DEFINE line == Head(dev.out)
<1>1. Form' /\ UNCHANGED <<cfg, host, toDev>> /\ dev.out # <<>> /\ dev.out \in Seq(ResponseLine)
      BY PollForm DEF Form, Poll
<1>2. /\ line \in ResponseLine /\ line = dev.out[1] /\ 1 \in 1..Len(dev.out)
      /\ Len(dev'.out) = Len(dev.out) - 1 /\ Len(dev.out) \in Nat
      /\ \A k \in 1..Len(dev'.out) : k + 1 \in 1..Len(dev.out) /\ dev'.out[k] = dev.out[k + 1]
  <2>1. dev'.out = Tail(dev.out)
        BY DEF Poll, Form
  <2>2. QED  BY <1>1, <2>1, ShorterType
<1>3. /\ Len(toHost') = Len(toHost) + 1 /\ Len(toHost) \in Nat
      /\ \A k \in 1..Len(toHost) : toHost'[k] = toHost[k]
      /\ toHost'[Len(toHost) + 1] = line
  <2>1. toHost' = Append(toHost, line)
        BY DEF Poll
  <2> HIDE DEF line
  <2>2. QED  BY <1>2, <2>1, ExtendedType DEF Form
<1> HIDE DEF line
<1>4. \A k \in 1..Len(toHost') : k \in 1..Len(toHost) \/ k = Len(toHost) + 1
      BY <1>3
<1>5. HostInv' /\ HalfInv' /\ GotInv' /\ NoStaleReply'
      BY <1>1 DEF UartInv, HostInv, HalfInv, GotInv, NoStaleReply, Busy, Clean, Current
<1>6. RestInv' /\ SendInv'
      BY <1>1 DEF UartInv, RestInv, SendInv, Quiet, Busy, Clean
<1>7. CurrentInv'
  <2>1. ASSUME Busy, NEW k \in 1..Len(toHost'), toHost'[k].kind = "rcv"
        PROVE  toHost'[k].frame.id[1] = host.txn
    <3>1. CASE k \in 1..Len(toHost)
          BY <1>3, <2>1, <3>1 DEF UartInv, CurrentInv
    <3>2. CASE k = Len(toHost) + 1
          BY <1>2, <1>3, <2>1, <3>2 DEF UartInv, CurrentInv
    <3>3. QED  BY <1>4, <3>1, <3>2
  <2>2. ASSUME Busy, NEW k \in 1..Len(dev'.out), dev'.out[k].kind = "rcv"
        PROVE  dev'.out[k].frame.id[1] = host.txn
        BY <1>2, <2>2 DEF UartInv, CurrentInv
  <2>3. QED  BY <1>1, <2>1, <2>2 DEF UartInv, CurrentInv, Busy
<1>8. OwnFrame' = OwnFrame /\ Current(host)' = Current(host)
      BY <1>1 DEF OwnFrame, Current
<1>9. dev'.out = <<>> <=> Len(dev.out) = 1
  <2>1. dev'.out = <<>> <=> Len(dev'.out) = 0
        BY <1>1, Emptiness DEF Form
  <2>2. QED  BY <1>2, <2>1
<1>10. LastReply => LastReply'
  <2> SUFFICES ASSUME LastReply PROVE LastReply'
      OBVIOUS
  <2>1. ASSUME NEW k \in 1..Len(toHost'), toHost'[k].kind = "rcv"
        PROVE  /\ k = Len(toHost') /\ dev'.out = <<>>
               /\ Current(host).reply /\ toHost'[k].frame = OwnFrame
    <3>1. k = Len(toHost) + 1
          BY <1>1, <1>3, <1>4, <2>1 DEF LastReply
    <3>2. dev.out[1].kind = "rcv" /\ toHost'[k] = dev.out[1]
          BY <1>2, <1>3, <2>1, <3>1
    <3>3. 1 = Len(dev.out) /\ Current(host).reply /\ dev.out[1].frame = OwnFrame
          BY <1>2, <3>2 DEF LastReply
    <3>4. QED  BY <1>3, <1>9, <3>1, <3>2, <3>3
  <2>2. ASSUME NEW k \in 1..Len(dev'.out), dev'.out[k].kind = "rcv"
        PROVE  k = Len(dev'.out) /\ Current(host).reply /\ dev'.out[k].frame = OwnFrame
    <3>1. k + 1 \in 1..Len(dev.out) /\ dev.out[k + 1].kind = "rcv" /\ dev'.out[k] = dev.out[k + 1]
          BY <1>2, <2>2
    <3>2. k + 1 = Len(dev.out) /\ Current(host).reply /\ dev.out[k + 1].frame = OwnFrame
          BY <3>1 DEF LastReply
    <3>3. QED  BY <1>2, <3>1, <3>2
  <2>3. QED  BY <1>8, <2>1, <2>2 DEF LastReply
<1>11. LastReply /\ FirstOther => FirstOther'
  <2> SUFFICES ASSUME LastReply, FirstOther PROVE FirstOther'
      OBVIOUS
  <2>1. ASSUME NEW k \in 1..Len(toHost'), toHost'[k].kind # "rcv" PROVE k = 1
    <3>1. CASE k \in 1..Len(toHost)
          BY <1>3, <2>1, <3>1 DEF FirstOther
    <3>2. CASE k = Len(toHost) + 1
      <4>1. dev.out[1].kind # "rcv"
            BY <1>2, <1>3, <2>1, <3>2
      <4>2. toHost = <<>>
            BY <1>2, <4>1 DEF FirstOther
      <4>3. QED  BY <3>2, <4>2, Emptiness
    <3>3. QED  BY <1>4, <3>1, <3>2
  <2>2. ASSUME NEW k \in 1..Len(dev'.out), dev'.out[k].kind # "rcv" PROVE FALSE
    <3>1. k + 1 \in 1..Len(dev.out) /\ dev.out[k + 1].kind # "rcv"
          BY <1>2, <2>2
    <3>2. k + 1 = 1
          BY <3>1 DEF FirstOther
    <3>3. QED  BY <3>2
  <2>3. QED  BY <2>1, <2>2 DEF FirstOther
<1>12. OkInv'
  <2> SUFFICES ASSUME host.pc = "ok", Clean PROVE OkInv'
      BY <1>1 DEF OkInv, Clean
  <2>1. toDev = <<>> /\ host.pending = <<>> /\ LastReply /\ FirstOther
        BY <1>1 DEF UartInv, OkInv
  <2>2. QED  BY <1>1, <1>10, <1>11, <2>1 DEF OkInv
<1>13. ReplyInv'
  <2> SUFFICES ASSUME host.pc = "reply", Clean PROVE ReplyInv'
      BY <1>1 DEF ReplyInv, Clean
  <2>1. /\ toDev = <<>> /\ host.pending = <<>>
        /\ \A k \in 1..Len(toHost) : toHost[k].kind = "rcv"
        /\ \A k \in 1..Len(dev.out) : dev.out[k].kind = "rcv"
        /\ LastReply /\ host.got[host.i] = {}
        BY <1>1 DEF UartInv, ReplyInv
  <2>2. \A k \in 1..Len(toHost') : toHost'[k].kind = "rcv"
        BY <1>2, <1>3, <1>4, <2>1
  <2>3. \A k \in 1..Len(dev'.out) : dev'.out[k].kind = "rcv"
        BY <1>2, <2>1
  <2>4. QED  BY <1>1, <1>10, <2>1, <2>2, <2>3 DEF ReplyInv
<1>14. QED  BY <1>5, <1>6, <1>7, <1>12, <1>13 DEF UartInv

\* An answer is a line that is no reply, or an OK and the reply asked for.
LEMMA OutcomeForm ==
    ASSUME Form, NEW line \in CommandLine, NEW crc \in BOOLEAN, NEW lines \in Outcome(line, crc)
    PROVE  /\ lines \in Seq(ResponseLine) /\ Len(lines) \in Nat
           /\ \A k \in 1..Len(lines) :
                 IF lines[k].kind = "rcv"
                 THEN k = Len(lines) /\ line.reply /\ lines[k].frame = line.frame
                 ELSE k = 1
<1> DEFINE ok == Response("OK", NoFrame, crc)
           rcv == Response("rcv", line.frame, crc)
<1>1. /\ NoFrame \in Frame /\ line.frame \in Frame
      BY DEF NoFrame, Frame, FrameId, CommandLine
<1>2. /\ \A error \in ErrorKind : /\ Response(error, NoFrame, crc) \in ResponseLine
                                  /\ Response(error, NoFrame, crc).kind # "rcv"
      /\ ok \in ResponseLine /\ ok.kind # "rcv"
      /\ rcv \in ResponseLine /\ rcv.kind = "rcv" /\ rcv.frame = line.frame
  <2>1. \A error \in ErrorKind : error # "rcv"
        BY DEF ErrorKind
  <2>2. \A error \in ErrorKind : Response(error, NoFrame, crc).kind = error
        BY DEF Response
  <2>3. ok.kind = "OK" /\ rcv.kind = "rcv" /\ rcv.frame = line.frame
        BY DEF Response
  <2>4. \A error \in ErrorKind : Response(error, NoFrame, crc) \in ResponseLine
        BY <1>1, ResponseType
  <2>5. ok \in ResponseLine /\ rcv \in ResponseLine
        BY <1>1, ResponseType
  <2>6. QED  BY <2>1, <2>2, <2>3, <2>4, <2>5
<1>3. \/ lines = <<>>
      \/ \E error \in ErrorKind : lines = <<Response(error, NoFrame, crc)>>
      \/ lines = <<ok>>
      \/ line.reply /\ lines = <<ok>> \o <<rcv>>
      BY DEF Outcome
<1> HIDE DEF ok, rcv
<1>4. CASE lines = <<>>
      BY <1>4
<1>5. ASSUME NEW x \in ResponseLine, x.kind # "rcv", lines = <<x>>
      PROVE  /\ lines \in Seq(ResponseLine) /\ Len(lines) = 1 /\ lines[1].kind # "rcv"
      BY <1>5
<1>6. CASE line.reply /\ lines = <<ok>> \o <<rcv>>
  <2>1. lines \in Seq(ResponseLine) /\ Len(lines) = 2 /\ lines[1] = ok /\ lines[2] = rcv
        BY <1>2, <1>6
  <2>2. \A k \in 1..2 : k = 1 \/ k = 2
        OBVIOUS
  <2>3. lines[1].kind # "rcv" /\ lines[2].kind = "rcv" /\ lines[2].frame = line.frame
        BY <1>2, <2>1
  <2>4. ASSUME NEW k \in 1..2
        PROVE  IF lines[k].kind = "rcv"
               THEN k = 2 /\ line.reply /\ lines[k].frame = line.frame ELSE k = 1
        BY <1>6, <2>2, <2>3
  <2>5. QED  BY <2>1, <2>4
<1>7. CASE lines \in Seq(ResponseLine) /\ Len(lines) = 1 /\ lines[1].kind # "rcv"
  <2>1. \A k \in 1..1 : k = 1
        OBVIOUS
  <2>2. QED  BY <1>7, <2>1
<1>8. CASE \E x \in ResponseLine : x.kind # "rcv" /\ lines = <<x>>
      BY <1>5, <1>7, <1>8
<1>9. QED
  <2>1. (\E error \in ErrorKind : lines = <<Response(error, NoFrame, crc)>>) \/ lines = <<ok>>
        => \E x \in ResponseLine : x.kind # "rcv" /\ lines = <<x>>
        BY <1>2
  <2>2. QED  BY <1>3, <1>4, <1>6, <1>8, <2>1

\* The firmware answers a line.
LEMMA ProcessInv == Form /\ UartInv /\ ProcessLine => UartInv'
<1> SUFFICES ASSUME Form, UartInv, ProcessLine PROVE UartInv'
    OBVIOUS
<1> DEFINE line == Head(toDev)
<1>1. Form' /\ UNCHANGED <<cfg, host, toHost>> /\ toDev # <<>> /\ line.full
      /\ toDev \in Seq(CommandLine) /\ toDev' = Tail(toDev)
      BY ProcessForm, ProcessAnswers DEF Form
<1>2. /\ line \in CommandLine /\ line = toDev[1] /\ 1 \in 1..Len(toDev)
      /\ Len(toDev') = Len(toDev) - 1 /\ Len(toDev) \in Nat
      /\ \A k \in 1..Len(toDev') : k + 1 \in 1..Len(toDev) /\ toDev'[k] = toDev[k + 1]
      BY <1>1, ShorterType
<1>3. PICK crc \in BOOLEAN : \E lines \in Outcome(line, crc) :
          dev' = [crc |-> crc, out |-> dev.out \o lines]
      BY ProcessAnswers
<1>4. PICK lines \in Outcome(line, crc) : dev' = [crc |-> crc, out |-> dev.out \o lines]
      BY <1>3
<1> HIDE DEF line
<1>5. /\ lines \in Seq(ResponseLine) /\ Len(lines) \in Nat
      /\ \A k \in 1..Len(lines) :
            IF lines[k].kind = "rcv"
            THEN k = Len(lines) /\ line.reply /\ lines[k].frame = line.frame
            ELSE k = 1
      BY <1>2, <1>4, OutcomeForm
<1>6. /\ dev'.out = dev.out \o lines /\ dev.out \in Seq(ResponseLine) /\ Len(dev.out) \in Nat
      /\ Len(dev'.out) = Len(dev.out) + Len(lines)
      /\ \A k \in 1..Len(dev.out) : dev'.out[k] = dev.out[k]
      /\ \A k \in 1..Len(lines) : dev'.out[Len(dev.out) + k] = lines[k]
  <2>1. dev.out \in Seq(ResponseLine) /\ Len(dev.out) \in Nat
        BY Emptiness DEF Form
  <2>2. QED  BY <1>4, <1>5, <2>1, ConcatType
<1>7. HostInv' /\ GotInv' /\ NoStaleReply'
      BY <1>1 DEF UartInv, HostInv, GotInv, NoStaleReply, Busy, Clean, Current
<1>8. HalfInv'
  <2>1. ASSUME NEW k \in 1..Len(toDev'), ~toDev'[k].full
        PROVE  /\ k = Len(toDev') /\ host.recover
               /\ ~Busy /\ (host.pc = "drain" => host.op = "flush")
    <3>1. k + 1 \in 1..Len(toDev) /\ ~toDev[k + 1].full
          BY <1>2, <2>1
    <3>2. k + 1 = Len(toDev) /\ host.recover /\ ~Busy /\ (host.pc = "drain" => host.op = "flush")
          BY <3>1 DEF UartInv, HalfInv
    <3>3. QED  BY <1>2, <3>2
  <2>2. QED  BY <1>1, <2>1 DEF HalfInv, Busy
<1>9. RestInv' /\ SendInv' /\ ReplyInv'
      BY <1>1 DEF UartInv, RestInv, SendInv, ReplyInv, Quiet, Busy, Clean
<1>10. CurrentInv'
  <2>1. ASSUME Busy, NEW k \in 1..Len(toDev') PROVE toDev'[k].frame.id[1] = host.txn
        BY <1>2, <2>1 DEF UartInv, CurrentInv
  <2>2. ASSUME Busy, NEW k \in 1..Len(dev'.out), dev'.out[k].kind = "rcv"
        PROVE  dev'.out[k].frame.id[1] = host.txn
    <3>1. CASE k \in 1..Len(dev.out)
          BY <1>6, <2>2, <3>1 DEF UartInv, CurrentInv
    <3>2. CASE k \notin 1..Len(dev.out)
      <4>1. k - Len(dev.out) \in 1..Len(lines) /\ Len(dev.out) + (k - Len(dev.out)) = k
            BY <1>5, <1>6, <3>2
      <4>2. dev'.out[k] = lines[k - Len(dev.out)]
            BY <1>6, <4>1
      <4>3. dev'.out[k].frame = toDev[1].frame
            BY <1>2, <1>5, <2>2, <4>1, <4>2
      <4>4. QED  BY <1>2, <2>2, <4>3 DEF UartInv, CurrentInv
    <3>3. QED  BY <3>1, <3>2
  <2>3. QED  BY <1>1, <2>1, <2>2 DEF UartInv, CurrentInv, Busy
<1>11. OkInv'
  <2> SUFFICES ASSUME host.pc = "ok", Clean PROVE OkInv'
      BY <1>1 DEF OkInv, Clean
  <2>1. /\ Len(toDev) = 1 /\ toDev[1].frame = OwnFrame /\ toDev[1].reply = Current(host).reply
        /\ toHost = <<>> /\ dev.out = <<>> /\ host.pending = <<>>
        BY <1>1 DEF UartInv, OkInv
  <2>2. toDev' = <<>>
    <3>1. \A S : \A s \in Seq(S) : s = <<>> <=> Len(s) = 0
          OBVIOUS
    <3>2. QED  BY <1>1, <1>2, <2>1, <3>1 DEF Form
  <2>3. dev'.out = lines
        BY <1>5, <1>6, <2>1, ConcatEmptySeq
  <2>4. OwnFrame' = OwnFrame /\ Current(host)' = Current(host)
        BY <1>1 DEF OwnFrame, Current
  <2>5. Len(toHost) = 0
        BY <2>1, Emptiness
  <2>6. LastReply' /\ FirstOther'
        BY <1>1, <1>2, <1>5, <2>1, <2>3, <2>4, <2>5 DEF LastReply, FirstOther
  <2>7. QED  BY <1>1, <2>1, <2>2, <2>6 DEF OkInv
<1>12. QED  BY <1>7, <1>8, <1>9, <1>10, <1>11 DEF UartInv

-----------------------------------------------------------------------------
(* Steps of the host                                                       *)

\* The lines that stay under way are those of the running operation.
LEMMA OwnLinesKept ==
    ASSUME Form, UartInv, Busy, UNCHANGED <<toDev, dev>>,
           toHost' = toHost \/ FewerResponses(toHost, toHost')
    PROVE  /\ \A k \in 1..Len(toDev') : toDev'[k].frame.id[1] = host.txn /\ toDev'[k].full
           /\ \A k \in 1..Len(dev'.out) :
                 dev'.out[k].kind = "rcv" => dev'.out[k].frame.id[1] = host.txn
           /\ \A k \in 1..Len(toHost') :
                 toHost'[k].kind = "rcv" => toHost'[k].frame.id[1] = host.txn
<1>1. FewerResponses(toHost, toHost')
      BY FewerSame
<1>2. PICK d \in {0, 1} :
        /\ Len(toHost') = Len(toHost) - d
        /\ \A k \in 1..Len(toHost') :
              /\ k + d \in 1..Len(toHost)
              /\ toHost'[k].kind = toHost[k + d].kind /\ toHost'[k].frame = toHost[k + d].frame
      BY <1>1 DEF FewerResponses
<1>3. \A k \in 1..Len(toHost') : toHost'[k].kind = "rcv" => toHost'[k].frame.id[1] = host.txn
      BY <1>2 DEF UartInv, CurrentInv
<1>4. \A k \in 1..Len(toDev) : toDev[k].full
      BY DEF UartInv, HalfInv
<1>5. QED  BY <1>3, <1>4 DEF UartInv, CurrentInv

\* What Advance changes.
LEMMA AdvanceEffect ==
    ASSUME NEW h \in HostType, h.i \in DOMAIN h.batch
    PROVE  /\ Advance(h).op = h.op /\ Advance(h).txn = h.txn /\ Advance(h).batch = h.batch
           /\ Advance(h).got = h.got /\ Advance(h).pending = h.pending
           /\ Advance(h).flush = h.flush /\ Advance(h).crc = h.crc
           /\ \/ /\ Advance(h).pc = "send" /\ Advance(h).i = h.i + 1 /\ Advance(h).attempt = 0
                 /\ Advance(h).recover = h.recover
                 /\ h.i < Len(h.batch) /\ Advance(h).result = h.result
              \/ /\ Advance(h).pc = "idle" /\ Advance(h).recover = FALSE
                 /\ ~(h.i < Len(h.batch)) /\ Advance(h).result = "ok"
<1>1. CASE h.i < Len(h.batch)
  <2>1. Advance(h) = [h EXCEPT !.i = @ + 1, !.attempt = 0, !.pc = "send"]
        BY <1>1 DEF Advance
  <2>2. QED  BY <1>1, <2>1 DEF HostType
<1>2. CASE ~(h.i < Len(h.batch))
  <2>1. Advance(h) = [h EXCEPT !.pc = "idle", !.result = "ok", !.recover = FALSE]
        BY <1>2 DEF Advance, Ended
  <2>2. QED  BY <1>2, <2>1 DEF HostType
<1>3. QED  BY <1>1, <1>2

\* The next request, or the end, when what is left behind is flagged.
LEMMA AdvanceKeeps ==
    ASSUME Form, UartInv, Sequential, host.pc \in {"ok", "reply"},
           NEW h \in HostType,
           h.op = host.op, h.txn = host.txn, h.batch = host.batch, h.i = host.i,
           h.got = host.got, h.pending = host.pending, h.recover = host.recover,
           host' = Advance(h), UNCHANGED <<cfg, toDev, dev>>,
           toHost' = toHost \/ FewerResponses(toHost, toHost'),
           ~h.flush => /\ toDev = <<>> /\ dev.out = <<>> /\ toHost' = <<>> /\ host.pending = <<>>
                       /\ \A j \in DOMAIN host.got : j > host.i => host.got[j] = {}
    PROVE  UartInv'
<1>1. Busy /\ h.i \in DOMAIN h.batch /\ host.i \in Nat
      BY Emptiness DEF Busy, Form, Placed
<1>2. /\ host'.op = host.op /\ host'.txn = host.txn /\ host'.batch = host.batch
      /\ host'.got = host.got /\ host'.pending = host.pending /\ host'.flush = h.flush
      /\ \/ /\ host'.pc = "send" /\ host'.i = host.i + 1 /\ host'.attempt = 0
            /\ host'.recover = host.recover
         \/ host'.pc = "idle" /\ host'.recover = FALSE
      BY <1>1, AdvanceEffect
<1>3. ~host'.flush => Quiet' /\ host'.pending = <<>>
      BY <1>2 DEF Quiet
<1>4. HostInv'
      BY <1>1, <1>2 DEF UartInv, HostInv, Busy
<1>5. HalfInv' /\ CurrentInv'
  <2>1. /\ \A k \in 1..Len(toDev') : toDev'[k].frame.id[1] = host.txn /\ toDev'[k].full
        /\ \A k \in 1..Len(dev'.out) :
              dev'.out[k].kind = "rcv" => dev'.out[k].frame.id[1] = host.txn
        /\ \A k \in 1..Len(toHost') :
              toHost'[k].kind = "rcv" => toHost'[k].frame.id[1] = host.txn
        BY <1>1, OwnLinesKept
  <2>2. \A k \in 1..Len(host.pending) : host.pending[k].id[1] = host.txn
        BY <1>1 DEF UartInv, CurrentInv
  <2>3. QED  BY <1>2, <2>1, <2>2 DEF HalfInv, CurrentInv
<1>6. RestInv' /\ SendInv'
      BY <1>2, <1>3 DEF RestInv, SendInv, Busy, Clean
<1>7. OkInv' /\ ReplyInv'
      BY <1>2 DEF OkInv, ReplyInv
<1>8. GotInv'
  <2> SUFFICES ASSUME Busy', Clean', NEW j \in DOMAIN host.got,
                      j > host.i + 1 \/ j = host.i + 1
               PROVE  host.got[j] = {}
    <3>1. Busy' => host'.i = host.i + 1
          BY <1>2 DEF Busy
    <3>2. QED  BY <1>2, <3>1 DEF GotInv
  <2>1. DOMAIN host.got = DOMAIN host.batch /\ DOMAIN host.batch = 1..Len(host.batch)
        BY <1>1, Emptiness DEF UartInv, HostInv, Busy
  <2>2. j \in Int /\ j > host.i
        BY <1>1, <2>1
  <2>3. QED  BY <1>2, <2>2 DEF Clean
<1>9. NoStaleReply'
      BY <1>2 DEF UartInv, NoStaleReply
<1>10. QED  BY <1>4, <1>5, <1>6, <1>7, <1>8, <1>9 DEF UartInv

\* What Failed changes.
LEMMA FailedEffect ==
    ASSUME NEW h \in HostType, NEW retryable \in BOOLEAN
    PROVE  /\ Failed(h, retryable).op = h.op /\ Failed(h, retryable).txn = h.txn
           /\ Failed(h, retryable).batch = h.batch /\ Failed(h, retryable).got = h.got
           /\ Failed(h, retryable).pending = h.pending /\ Failed(h, retryable).i = h.i
           /\ Failed(h, retryable).recover = h.recover /\ Failed(h, retryable).crc = h.crc
           /\ \/ /\ Failed(h, retryable).pc = "send" /\ Failed(h, retryable).attempt = h.attempt + 1
                 /\ Failed(h, retryable).result = h.result
              \/ /\ Failed(h, retryable).pc = "idle" /\ Failed(h, retryable).flush = TRUE
                 /\ Failed(h, retryable).result = "err"
                 /\ ~(retryable /\ h.attempt < cfg.retries)
<1>1. CASE retryable /\ h.attempt < cfg.retries
  <2>1. Failed(h, retryable) = [h EXCEPT !.attempt = @ + 1, !.pc = "send"]
        BY <1>1 DEF Failed
  <2>2. QED  BY <2>1 DEF HostType
<1>2. CASE ~(retryable /\ h.attempt < cfg.retries)
  <2>1. Failed(h, retryable) = [h EXCEPT !.pc = "idle", !.result = "err", !.flush = TRUE]
        BY <1>2 DEF Failed, Ended
  <2>2. QED  BY <1>2, <2>1 DEF HostType
<1>3. QED  BY <1>1, <1>2

\* The next attempt is not a first one, and giving up sets needs_flush.
LEMMA FailedKeeps ==
    ASSUME Form, UartInv, Sequential, host.pc = "ok",
           NEW h \in HostType, NEW retryable \in BOOLEAN,
           h.op = host.op, h.txn = host.txn, h.batch = host.batch, h.i = host.i,
           h.got = host.got, h.pending = host.pending, h.recover = host.recover,
           h.attempt = host.attempt,
           host' = Failed(h, retryable), UNCHANGED <<cfg, toDev, dev>>,
           toHost' = toHost \/ FewerResponses(toHost, toHost')
    PROVE  UartInv'
<1>1. Busy /\ host.attempt \in Nat
      BY Emptiness DEF Busy
<1>2. /\ host'.op = host.op /\ host'.txn = host.txn /\ host'.batch = host.batch
      /\ host'.got = host.got /\ host'.pending = host.pending /\ host'.i = host.i
      /\ host'.recover = host.recover
      /\ \/ host'.pc = "send" /\ host'.attempt = host.attempt + 1
         \/ host'.pc = "idle" /\ host'.flush = TRUE
  <2> DEFINE after == Failed(h, retryable)
  <2>1. /\ after.op = h.op /\ after.txn = h.txn /\ after.batch = h.batch
        /\ after.got = h.got /\ after.pending = h.pending /\ after.i = h.i
        /\ after.recover = h.recover
        /\ \/ after.pc = "send" /\ after.attempt = h.attempt + 1
           \/ after.pc = "idle" /\ after.flush = TRUE
        BY FailedEffect
  <2> HIDE DEF after
  <2>2. host' = after
        BY DEF after
  <2>3. QED  BY <2>1, <2>2
<1>3. ~(Busy' /\ Clean') /\ (host'.pc = "send" \/ host'.pc = "idle")
  <2>1. host.attempt + 1 # 0
        BY <1>1
  <2>2. QED  BY <1>2, <2>1 DEF Busy, Clean
<1>4. HostInv'
      BY <1>1, <1>2 DEF UartInv, HostInv, Busy
<1>5. HalfInv' /\ CurrentInv'
  <2>1. /\ \A k \in 1..Len(toDev') : toDev'[k].frame.id[1] = host.txn /\ toDev'[k].full
        /\ \A k \in 1..Len(dev'.out) :
              dev'.out[k].kind = "rcv" => dev'.out[k].frame.id[1] = host.txn
        /\ \A k \in 1..Len(toHost') :
              toHost'[k].kind = "rcv" => toHost'[k].frame.id[1] = host.txn
        BY <1>1, OwnLinesKept
  <2>2. \A k \in 1..Len(host.pending) : host.pending[k].id[1] = host.txn
        BY <1>1 DEF UartInv, CurrentInv
  <2>3. QED  BY <1>2, <2>1, <2>2 DEF HalfInv, CurrentInv
<1>6. RestInv' /\ SendInv' /\ OkInv' /\ ReplyInv' /\ GotInv'
  <2>1. RestInv'
        BY <1>2 DEF RestInv, Busy
  <2>2. QED  BY <1>3, <2>1 DEF SendInv, OkInv, ReplyInv, GotInv, Busy
<1>7. NoStaleReply'
      BY <1>2 DEF UartInv, NoStaleReply
<1>8. QED  BY <1>4, <1>5, <1>6, <1>7 DEF UartInv

\* An OK that does not come.
LEMMA OkTimeoutInv == Form /\ UartInv /\ Sequential /\ OkTimeout => UartInv'
<1> SUFFICES ASSUME Form, UartInv, Sequential, OkTimeout PROVE UartInv'
    OBVIOUS
<1>1. host.pc = "ok" /\ host' = Failed(host, TRUE) /\ UNCHANGED <<cfg, toDev, dev, toHost>>
      /\ host \in HostType
      BY DEF OkTimeout, Form
<1>2. QED  BY <1>1, FailedKeeps

\* A reply goes to no request after its own.
LEMMA OwnMatch ==
    ASSUME Form, Busy, NEW j \in FirstMatch(host.batch, OwnFrame)
    PROVE  j <= host.i
<1>1. host.i \in DOMAIN host.batch /\ host.batch \in Seq(RequestType) /\ host.i \in Nat
      BY Emptiness DEF Form, Placed, Busy
<1>2. Matches(host.batch[host.i], OwnFrame)
      BY <1>1 DEF Matches, OwnFrame, Current
<1>3. j \in 1..Len(host.batch) /\ \A k \in 1..(j - 1) : ~Matches(host.batch[k], OwnFrame)
      BY DEF FirstMatch
<1>4. host.i \notin 1..(j - 1)
      BY <1>2, <1>3
<1>5. QED  BY <1>1, <1>3, <1>4

\* Frames of the running operation are dispatched.
LEMMA DispatchGot ==
    ASSUME Form, UartInv, Busy, NEW h \in HostType,
           h.got = host.got, h.batch = host.batch, h.txn = host.txn,
           NEW frames \in SUBSET Frame, \A f \in frames : f.id[1] = host.txn,
           NEW after, after.got = dispatch(h, frames).got, after.txn = host.txn
    PROVE  /\ DOMAIN after.got = DOMAIN host.batch
           /\ \A j \in DOMAIN after.got : \A f \in after.got[j] : f.id[1] = after.txn
           /\ frames \subseteq {OwnFrame} =>
                 \A j \in DOMAIN after.got : j > host.i => after.got[j] = host.got[j]
<1>1. /\ DOMAIN after.got = DOMAIN host.got
      /\ \A j \in DOMAIN host.got : after.got[j] =
                host.got[j] \cup {f \in frames : j \in FirstMatch(host.batch, f)}
      BY DispatchType
<1>2. DOMAIN host.got = DOMAIN host.batch
      BY DEF UartInv, HostInv, Busy
<1>3. \A j \in DOMAIN after.got : \A f \in after.got[j] : f.id[1] = after.txn
      BY <1>1 DEF UartInv, NoStaleReply
<1>4. ASSUME frames \subseteq {OwnFrame}, NEW j \in DOMAIN after.got, j > host.i
      PROVE  after.got[j] = host.got[j]
  <2>1. j \in Nat /\ host.i \in Nat
        BY <1>1, <1>2, <1>4, Emptiness
  <2>2. j \notin FirstMatch(host.batch, OwnFrame)
        BY <1>4, <2>1, OwnMatch
  <2>3. {f \in frames : j \in FirstMatch(host.batch, f)} = {}
        BY <1>4, <2>2
  <2>4. j \in DOMAIN host.got
        BY <1>1, <1>4
  <2> DEFINE matching == {f \in frames : j \in FirstMatch(host.batch, f)}
  <2>5. after.got[j] = host.got[j] \cup matching
        BY <1>1, <2>4
  <2> HIDE DEF matching
  <2>6. matching = {}
        BY <2>3 DEF matching
  <2>7. QED  BY <2>5, <2>6
<1>5. QED  BY <1>1, <1>2, <1>3, <1>4

\* A reply that has come, or does not come.
LEMMA ReplyEndInv == Form /\ UartInv /\ Sequential /\ (ReplyDone \/ ReplyTimeout) => UartInv'
<1> SUFFICES ASSUME Form, UartInv, Sequential, ReplyDone \/ ReplyTimeout PROVE UartInv'
    OBVIOUS
<1>1. host.pc = "reply" /\ host \in HostType /\ UNCHANGED <<cfg, toDev, dev, toHost>> /\ Busy
      BY DEF ReplyDone, ReplyTimeout, Form, Busy
<1>2. CASE ReplyDone
  <2>1. host' = Advance(host) /\ host.got[host.i] # {}
        BY <1>2 DEF ReplyDone, Satisfied
  <2>2. ~host.flush => /\ toDev = <<>> /\ dev.out = <<>> /\ toHost = <<>> /\ host.pending = <<>>
                       /\ \A j \in DOMAIN host.got : j > host.i => host.got[j] = {}
    <3> SUFFICES ASSUME ~host.flush
                 PROVE  /\ toDev = <<>> /\ dev.out = <<>> /\ toHost = <<>> /\ host.pending = <<>>
                        /\ \A j \in DOMAIN host.got : j > host.i => host.got[j] = {}
        OBVIOUS
    <3>1. Clean
          BY <1>1, Emptiness DEF UartInv, HostInv, Clean
    <3>2. QED  BY <1>1, <2>1, <3>1 DEF UartInv, ReplyInv, GotInv
  <2>3. QED  BY <1>1, <2>1, <2>2, AdvanceKeeps
<1>3. CASE ReplyTimeout
  <2> DEFINE h == [host EXCEPT !.flush = TRUE]
  <2>1. /\ h \in HostType /\ h.flush /\ host' = Advance(h)
        /\ h.op = host.op /\ h.txn = host.txn /\ h.batch = host.batch /\ h.i = host.i
        /\ h.got = host.got /\ h.pending = host.pending /\ h.recover = host.recover
        BY <1>1, <1>3 DEF ReplyTimeout, HostType
  <2> HIDE DEF h
  <2>2. QED  BY <1>1, <2>1, AdvanceKeeps
<1>4. QED  BY <1>2, <1>3

\* The first line under way: a reply is the only one.
LEMMA FirstLine ==
    ASSUME Form, UartInv, toHost # <<>>, UNCHANGED dev, toHost' = Tail(toHost)
    PROVE  /\ Head(toHost) = toHost[1] /\ 1 \in 1..Len(toHost)
           /\ Head(toHost) \in ResponseLine
           /\ FewerResponses(toHost, toHost')
           /\ Busy /\ Head(toHost).kind = "rcv" => Head(toHost).frame.id[1] = host.txn
           /\ LastReply /\ Head(toHost).kind = "rcv" =>
                 /\ toHost' = <<>> /\ dev'.out = <<>>
                 /\ Head(toHost).frame = OwnFrame
           /\ \A k \in 1..Len(toHost') : k + 1 \in 1..Len(toHost) /\ toHost'[k] = toHost[k + 1]
           /\ Len(toHost') = Len(toHost) - 1
<1>1. /\ Head(toHost) = toHost[1] /\ 1 \in 1..Len(toHost) /\ Head(toHost) \in ResponseLine
      /\ Len(toHost') = Len(toHost) - 1 /\ Len(toHost) \in Nat /\ toHost' \in Seq(ResponseLine)
      /\ \A k \in 1..Len(toHost') : k + 1 \in 1..Len(toHost) /\ toHost'[k] = toHost[k + 1]
      BY ShorterType DEF Form
<1>2. FewerResponses(toHost, toHost')
      BY TailFewerResponses DEF Form
<1>3. Busy /\ Head(toHost).kind = "rcv" => Head(toHost).frame.id[1] = host.txn
      BY <1>1 DEF UartInv, CurrentInv
<1>4. ASSUME LastReply, Head(toHost).kind = "rcv"
      PROVE  toHost' = <<>> /\ dev'.out = <<>> /\ Head(toHost).frame = OwnFrame
  <2>1. 1 = Len(toHost) /\ dev.out = <<>> /\ toHost[1].frame = OwnFrame
        BY <1>1, <1>4 DEF LastReply
  <2>2. \A S : \A s \in Seq(S) : Len(s) = 0 => s = <<>>
        OBVIOUS
  <2>3. toHost' = <<>>
        BY <1>1, <2>1, <2>2
  <2>4. QED  BY <1>1, <2>1, <2>3, SMTT(60)
<1>5. QED  BY <1>1, <1>2, <1>3, <1>4

\* With nothing under way, the order of what is under way is trivial.
LEMMA NothingLast ==
    ASSUME toHost' = <<>>, dev'.out = <<>>
    PROVE  LastReply' /\ FirstOther'
<1>1. Len(toHost') = 0 /\ Len(dev'.out) = 0
      OBVIOUS
<1>2. QED  BY <1>1 DEF LastReply, FirstOther

\* A line read while a reply is awaited.
LEMMA ReceiveInv == Form /\ UartInv /\ receive_reply => UartInv'
<1> SUFFICES ASSUME Form, UartInv, receive_reply PROVE UartInv'
    OBVIOUS
<1>1. /\ host.pc = "reply" /\ host.got[host.i] = {} /\ toHost # <<>> /\ toHost' = Tail(toHost)
      /\ UNCHANGED <<cfg, toDev, dev>> /\ Form' /\ Busy /\ host \in HostType
      BY ReplyForm DEF receive_reply, Satisfied, Busy, Form
<1> DEFINE line == Head(toHost)
<1>2. \/ host' = host
      \/ line.kind = "rcv" /\ host' = dispatch(host, {line.frame})
      BY DEF receive_reply, Readings, ErrorKind
<1>3. CASE host' = host
  <2>1. FewerResponses(toHost, toHost') /\ FewerCommands(toDev, toDev')
        BY <1>1, FirstLine, FewerSame
  <2>2. QED  BY <1>1, <1>3, <2>1, LessKeeps
<1>4. CASE line.kind = "rcv" /\ host' = dispatch(host, {line.frame})
  <2>1. /\ FewerResponses(toHost, toHost') /\ line.frame.id[1] = host.txn
        /\ LastReply => toHost' = <<>> /\ dev'.out = <<>> /\ line.frame = OwnFrame
        /\ line \in ResponseLine
        BY <1>1, <1>4, FirstLine
  <2>2. {line.frame} \in SUBSET Frame
        BY <2>1 DEF ResponseLine
  <2> DEFINE frames == {line.frame}
  <2>3. \A f \in frames : f.id[1] = host.txn
        BY <2>1
  <2> HIDE DEF line, frames
  <2>4. host' = [host EXCEPT !.got = host'.got]
        BY <1>1, <1>4, <2>2, DispatchType DEF frames
  <2>5. /\ host'.pc = host.pc /\ host'.op = host.op /\ host'.txn = host.txn /\ host'.i = host.i
        /\ host'.batch = host.batch /\ host'.attempt = host.attempt /\ host'.flush = host.flush
        /\ host'.recover = host.recover /\ host'.pending = host.pending
        BY <1>1, <2>4 DEF HostType
  <2>6. /\ DOMAIN host'.got = DOMAIN host.batch
        /\ \A j \in DOMAIN host'.got : \A f \in host'.got[j] : f.id[1] = host'.txn
        /\ frames \subseteq {OwnFrame} =>
                \A j \in DOMAIN host'.got : j > host.i => host'.got[j] = host.got[j]
    <3>1. host'.got = dispatch(host, frames).got
          BY <1>4 DEF frames
    <3>2. frames \in SUBSET Frame
          BY <2>2 DEF frames
    <3>3. QED  BY <1>1, <2>3, <2>5, <3>1, <3>2, DispatchGot
  <2>7. HostInv'
        BY <1>1, <2>5, <2>6 DEF UartInv, HostInv, Busy, Current
  <2>8. HalfInv' /\ CurrentInv'
    <3>1. /\ \A k \in 1..Len(toDev') : toDev'[k].frame.id[1] = host.txn /\ toDev'[k].full
          /\ \A k \in 1..Len(dev'.out) :
                dev'.out[k].kind = "rcv" => dev'.out[k].frame.id[1] = host.txn
          /\ \A k \in 1..Len(toHost') :
                toHost'[k].kind = "rcv" => toHost'[k].frame.id[1] = host.txn
          BY <1>1, <2>1, OwnLinesKept
    <3>2. \A k \in 1..Len(host.pending) : host.pending[k].id[1] = host.txn
          BY <1>1 DEF UartInv, CurrentInv
    <3>3. QED  BY <2>5, <3>1, <3>2 DEF HalfInv, CurrentInv
  <2>9. RestInv' /\ SendInv' /\ OkInv'
        BY <1>1, <2>5 DEF RestInv, SendInv, OkInv, Busy
  <2>10. Clean => /\ toDev = <<>> /\ host.pending = <<>> /\ LastReply
        BY <1>1 DEF UartInv, ReplyInv
  <2>11. ReplyInv'
    <3> SUFFICES ASSUME Clean PROVE ReplyInv'
        BY <2>5 DEF ReplyInv, Clean
    <3>1. toHost' = <<>> /\ dev'.out = <<>>
          BY <2>1, <2>10
    <3>2. Len(toHost') = 0 /\ Len(dev'.out) = 0
          BY <3>1
    <3>3. /\ \A k \in 1..Len(toHost') : toHost'[k].kind = "rcv"
          /\ \A k \in 1..Len(dev'.out) : dev'.out[k].kind = "rcv"
          BY <3>2
    <3>4. LastReply' /\ toDev' = <<>> /\ host'.pending = <<>>
          BY <1>1, <2>5, <2>10, <3>1, NothingLast
    <3>5. QED  BY <3>1, <3>3, <3>4 DEF ReplyInv
  <2>12. GotInv'
    <3> SUFFICES ASSUME Clean PROVE GotInv'
        BY <2>5 DEF GotInv, Clean
    <3>1. frames \subseteq {OwnFrame}
          BY <2>1, <2>10 DEF frames
    <3>2. DOMAIN host.got = DOMAIN host.batch
          BY <1>1 DEF UartInv, HostInv
    <3>3. \A j \in DOMAIN host'.got : j > host.i => host'.got[j] = {}
          BY <1>1, <2>6, <3>1, <3>2 DEF UartInv, GotInv
    <3>4. QED  BY <1>1, <2>5, <3>3 DEF GotInv
  <2>13. NoStaleReply'
        BY <2>6 DEF NoStaleReply
  <2>14. QED  BY <2>7, <2>8, <2>9, <2>11, <2>12, <2>13 DEF UartInv
<1>5. QED  BY <1>2, <1>3, <1>4

\* What is left under way after the OK of a first attempt is its reply.
LEMMA AfterOk ==
    ASSUME Form, UartInv, host.pc = "ok", Clean, toHost # <<>>, Head(toHost).kind = "OK",
           UNCHANGED <<toDev, dev>>, toHost' = Tail(toHost), toHost' \in Seq(ResponseLine)
    PROVE  /\ toDev = <<>> /\ host.pending = <<>>
           /\ \A k \in 1..Len(toHost') :
                 /\ toHost'[k].kind = "rcv" /\ k = Len(toHost') /\ dev.out = <<>>
                 /\ Current(host).reply /\ toHost'[k].frame = OwnFrame
           /\ \A k \in 1..Len(dev.out) :
                 /\ dev.out[k].kind = "rcv" /\ k = Len(dev.out)
                 /\ Current(host).reply /\ dev.out[k].frame = OwnFrame
           /\ ~Current(host).reply => toHost' = <<>> /\ dev.out = <<>>
<1>1. toDev = <<>> /\ host.pending = <<>> /\ LastReply /\ FirstOther
      BY DEF UartInv, OkInv
<1>2. /\ Head(toHost) = toHost[1] /\ 1 \in 1..Len(toHost) /\ Len(toHost') = Len(toHost) - 1
      /\ \A k \in 1..Len(toHost') : k + 1 \in 1..Len(toHost) /\ toHost'[k] = toHost[k + 1]
      BY FirstLine
<1>3. ASSUME NEW k \in 1..Len(toHost')
      PROVE  /\ toHost'[k].kind = "rcv" /\ k = Len(toHost') /\ dev.out = <<>>
             /\ Current(host).reply /\ toHost'[k].frame = OwnFrame
  <2>1. k + 1 \in 1..Len(toHost) /\ toHost'[k] = toHost[k + 1] /\ k + 1 # 1
        BY <1>2
  <2>2. toHost[k + 1].kind = "rcv"
        BY <1>1, <2>1 DEF FirstOther
  <2>3. /\ k + 1 = Len(toHost) /\ dev.out = <<>>
        /\ Current(host).reply /\ toHost[k + 1].frame = OwnFrame
        BY <1>1, <2>1, <2>2 DEF LastReply
  <2>4. k = Len(toHost')
    <3>1. k \in Int /\ Len(toHost) \in Nat
          BY Emptiness, SMTT(60)
    <3>2. k + 1 = Len(toHost) /\ Len(toHost') = Len(toHost) - 1
          BY <1>2, <2>3
    <3> DEFINE m == Len(toHost)
               n == Len(toHost')
    <3> HIDE DEF m, n
    <3>3. k \in Int /\ m \in Nat /\ k + 1 = m /\ n = m - 1 => k = n
          OBVIOUS
    <3>4. QED  BY <3>1, <3>2, <3>3 DEF m, n
  <2>5. QED  BY <2>1, <2>2, <2>3, <2>4
<1>4. ASSUME NEW k \in 1..Len(dev.out)
      PROVE  /\ dev.out[k].kind = "rcv" /\ k = Len(dev.out)
             /\ Current(host).reply /\ dev.out[k].frame = OwnFrame
  <2>1. dev.out[k].kind = "rcv"
        BY <1>1 DEF FirstOther
  <2>2. QED  BY <1>1, <2>1 DEF LastReply
<1>5. ASSUME ~Current(host).reply PROVE toHost' = <<>> /\ dev.out = <<>>
  <2>1. \A S : \A s \in Seq(S) : (\A k \in 1..Len(s) : FALSE) => s = <<>>
    <3>1. \A S : \A s \in Seq(S) : Len(s) \in Nat /\ (Len(s) = 0 => s = <<>>)
          OBVIOUS
    <3>2. \A n \in Nat : n # 0 => 1 \in 1..n
          OBVIOUS
    <3>3. QED  BY <3>1, <3>2
  <2>2. dev.out \in Seq(ResponseLine)
        BY DEF Form
  <2>3. QED  BY <1>3, <1>4, <1>5, <2>1, <2>2
<1>6. QED  BY <1>1, <1>3, <1>4, <1>5

\* The OK that wait_for_ok awaits.
LEMMA AckedKeeps ==
    ASSUME Form, Form', UartInv, Sequential, host.pc = "ok", toHost # <<>>,
           Head(toHost).kind = "OK", host' = Acked(host), toHost' = Tail(toHost),
           UNCHANGED <<cfg, toDev, dev>>
    PROVE  UartInv'
<1> DEFINE h == [host EXCEPT !.flush = @ \/ host.attempt > 0]
<1>1. Busy /\ host \in HostType /\ host.i \in DOMAIN host.batch /\ host.attempt \in Nat
      /\ toHost' \in Seq(ResponseLine)
      BY Emptiness DEF Busy, Form, Placed
<1>2. /\ h \in HostType /\ (h.flush <=> host.flush \/ host.attempt > 0)
      /\ h.pc = host.pc /\ h.op = host.op /\ h.txn = host.txn /\ h.batch = host.batch
      /\ h.i = host.i /\ h.attempt = host.attempt
      /\ h.got = host.got /\ h.pending = host.pending /\ h.recover = host.recover
  <2>1. (host.flush \/ host.attempt > 0) \in BOOLEAN
        OBVIOUS
  <2>2. QED  BY <1>1, <2>1 DEF HostType
<1>3. /\ host.op = "write" => host' = Ended(h, "ok")
      /\ host.op = "transaction" /\ Current(host).reply =>
            host' = [dispatch(h, Range(host.pending)) EXCEPT !.pending = <<>>, !.pc = "reply"]
      /\ host.op = "transaction" /\ ~Current(host).reply => host' = Advance(h)
      BY DEF Acked
<1>4. host.op \in {"write", "transaction"}
      BY <1>1 DEF UartInv, HostInv
<1> HIDE DEF h
<1>5. ~h.flush => Clean
      BY <1>1, <1>2 DEF Clean
<1>6. FewerResponses(toHost, toHost')
      BY FirstLine
<1>7. /\ \A k \in 1..Len(toDev') : toDev'[k].frame.id[1] = host.txn /\ toDev'[k].full
      /\ \A k \in 1..Len(dev'.out) :
            dev'.out[k].kind = "rcv" => dev'.out[k].frame.id[1] = host.txn
      /\ \A k \in 1..Len(toHost') :
            toHost'[k].kind = "rcv" => toHost'[k].frame.id[1] = host.txn
      BY <1>1, <1>6, OwnLinesKept
<1>8. CASE host.op = "write"
  <2>1. ~Current(host).reply
        BY <1>1, <1>8 DEF UartInv, HostInv, Current
  <2>2. /\ host'.pc = "idle" /\ host'.op = host.op /\ host'.txn = host.txn
        /\ host'.got = host.got /\ host'.pending = host.pending
        /\ host'.flush = h.flush
        BY <1>2, <1>3, <1>8 DEF Ended, HostType
  <2>3. ~host'.flush => Quiet' /\ host'.pending = <<>>
        BY <1>1, <1>5, <2>1, <2>2, AfterOk DEF Quiet
  <2>4. HostInv' /\ RestInv' /\ CurrentInv' /\ SendInv' /\ OkInv' /\ ReplyInv' /\ GotInv'
        BY <2>2, <2>3 DEF HostInv, RestInv, CurrentInv, SendInv, OkInv, ReplyInv, GotInv, Busy
  <2>5. HalfInv' /\ NoStaleReply'
        BY <1>7, <2>2 DEF UartInv, HalfInv, NoStaleReply
  <2>6. QED  BY <2>4, <2>5 DEF UartInv
<1>9. CASE host.op = "transaction" /\ ~Current(host).reply
  <2>1. ~h.flush => /\ toDev = <<>> /\ dev.out = <<>> /\ toHost' = <<>> /\ host.pending = <<>>
                    /\ \A j \in DOMAIN host.got : j > host.i => host.got[j] = {}
        BY <1>1, <1>5, <1>9, AfterOk DEF UartInv, GotInv
  <2>2. QED  BY <1>2, <1>3, <1>6, <1>9, <2>1, AdvanceKeeps
<1>10. CASE host.op = "transaction" /\ Current(host).reply
  <2> DEFINE frames == Range(host.pending)
             g == dispatch(h, frames)
  <2>1. frames \in SUBSET Frame /\ \A f \in frames : f.id[1] = host.txn
    <3>1. host.pending \in Seq(Frame) /\ DOMAIN host.pending = 1..Len(host.pending)
          BY Emptiness
    <3>2. QED  BY <1>1, <3>1 DEF Range, UartInv, CurrentInv
  <2>2. Clean => frames = {}
    <3>1. Clean => host.pending = <<>>
          BY <1>1, AfterOk
    <3>2. QED  BY <3>1 DEF Range
  <2>3. host' = [g EXCEPT !.pending = <<>>, !.pc = "reply"]
        BY <1>3, <1>10
  <2> HIDE DEF frames
  <2>4. g \in HostType /\ g = [h EXCEPT !.got = g.got]
        BY <1>2, <2>1, DispatchType
  <2>5. /\ host'.pc = "reply" /\ host'.op = host.op /\ host'.txn = host.txn /\ host'.i = host.i
        /\ host'.batch = host.batch /\ host'.attempt = host.attempt /\ host'.flush = h.flush
        /\ host'.recover = host.recover /\ host'.pending = <<>> /\ host'.got = g.got
    <3> HIDE DEF g
    <3>1. QED  BY <1>2, <2>3, <2>4 DEF HostType
  <2>6. /\ DOMAIN host'.got = DOMAIN host.batch
        /\ \A j \in DOMAIN host'.got : \A f \in host'.got[j] : f.id[1] = host'.txn
        /\ \A j \in DOMAIN host.got : host'.got[j] =
                host.got[j] \cup {f \in frames : j \in FirstMatch(host.batch, f)}
    <3>1. host'.got = dispatch(h, frames).got
          BY <2>5 DEF g
    <3>2. /\ DOMAIN host'.got = DOMAIN host.batch
          /\ \A j \in DOMAIN host'.got : \A f \in host'.got[j] : f.id[1] = host'.txn
          BY <1>1, <1>2, <2>1, <2>5, <3>1, DispatchGot
    <3>3. \A j \in DOMAIN host.got : host'.got[j] =
                host.got[j] \cup {f \in frames : j \in FirstMatch(host.batch, f)}
          BY <1>2, <2>1, <3>1, DispatchType
    <3>4. QED  BY <3>2, <3>3
  <2> HIDE DEF g
  <2>7. Current(host)' = Current(host) /\ OwnFrame' = OwnFrame
        BY <2>5 DEF OwnFrame, Current
  <2>8. HostInv'
        BY <1>1, <1>2, <1>10, <2>5, <2>6, <2>7 DEF UartInv, HostInv, Busy
  <2>9. HalfInv' /\ CurrentInv'
    <3>1. Len(host'.pending) = 0
          BY <2>5
    <3>2. QED  BY <1>7, <2>5, <3>1 DEF HalfInv, CurrentInv
  <2>10. RestInv' /\ SendInv' /\ OkInv'
        BY <2>5 DEF RestInv, SendInv, OkInv, Busy
  <2>11. Clean' => Clean
        BY <1>5, <2>5 DEF Clean
  <2>12. Clean => \A j \in DOMAIN host.got : host'.got[j] = host.got[j]
    <3>1. Clean => \A j : {f \in frames : j \in FirstMatch(host.batch, f)} = {}
          BY <2>2
    <3>2. QED  BY <2>6, <3>1
  <2>13. DOMAIN host.got = DOMAIN host.batch
        BY <1>1 DEF UartInv, HostInv
  <2>14. Clean => \A j \in DOMAIN host'.got : j > host.i \/ j = host.i => host'.got[j] = {}
        BY <1>1, <2>6, <2>12, <2>13 DEF UartInv, GotInv
  <2>15. GotInv'
        BY <2>5, <2>11, <2>14 DEF GotInv
  <2>16. ReplyInv'
    <3> SUFFICES ASSUME Clean PROVE ReplyInv'
        BY <2>11 DEF ReplyInv
    <3>1. /\ toDev = <<>>
          /\ \A k \in 1..Len(toHost') :
                /\ toHost'[k].kind = "rcv" /\ k = Len(toHost') /\ dev.out = <<>>
                /\ Current(host).reply /\ toHost'[k].frame = OwnFrame
          /\ \A k \in 1..Len(dev.out) :
                /\ dev.out[k].kind = "rcv" /\ k = Len(dev.out)
                /\ Current(host).reply /\ dev.out[k].frame = OwnFrame
          BY <1>1, AfterOk
    <3>2. LastReply'
          BY <2>7, <3>1 DEF LastReply
    <3>3. host'.got[host'.i] = {}
          BY <1>1, <2>5, <2>6, <2>14
    <3>4. QED  BY <2>5, <3>1, <3>2, <3>3 DEF ReplyInv
  <2>17. NoStaleReply'
        BY <2>6 DEF NoStaleReply
  <2>18. QED  BY <2>8, <2>9, <2>10, <2>15, <2>16, <2>17 DEF UartInv
<1>11. QED  BY <1>4, <1>8, <1>9, <1>10

\* A reply that comes before its OK.
LEMMA PendingKeeps ==
    ASSUME Form, Form', UartInv, host.pc = "ok", toHost # <<>>, Head(toHost).kind = "rcv",
           host' = [host EXCEPT !.pending = Append(@, Head(toHost).frame)],
           toHost' = Tail(toHost), UNCHANGED <<cfg, toDev, dev>>
    PROVE  UartInv'
<1> DEFINE frame == Head(toHost).frame
<1>1. /\ FewerResponses(toHost, toHost') /\ frame.id[1] = host.txn /\ Busy /\ frame \in Frame
      /\ LastReply => toHost' = <<>> /\ dev'.out = <<>>
      BY FirstLine DEF Busy, ResponseLine
<1> HIDE DEF frame
<1>2. /\ host'.pc = "ok" /\ host'.op = host.op /\ host'.txn = host.txn /\ host'.i = host.i
      /\ host'.batch = host.batch /\ host'.attempt = host.attempt /\ host'.flush = host.flush
      /\ host'.recover = host.recover /\ host'.got = host.got
      /\ host'.pending = Append(host.pending, frame)
      BY DEF Form, HostType, frame
<1>3. \A k \in 1..Len(host'.pending) : host'.pending[k].id[1] = host.txn
  <2>1. /\ Len(host'.pending) = Len(host.pending) + 1 /\ Len(host.pending) \in Nat
        /\ \A k \in 1..Len(host.pending) : host'.pending[k] = host.pending[k]
        /\ host'.pending[Len(host.pending) + 1] = frame
        BY <1>1, <1>2, Emptiness, ExtendedType
  <2>2. \A k \in 1..Len(host'.pending) : k \in 1..Len(host.pending) \/ k = Len(host.pending) + 1
        BY <2>1
  <2>3. QED  BY <1>1, <2>1, <2>2 DEF UartInv, CurrentInv
<1>4. HostInv' /\ GotInv' /\ NoStaleReply'
      BY <1>1, <1>2 DEF UartInv, HostInv, GotInv, NoStaleReply, Busy, Clean, Current
<1>5. HalfInv' /\ CurrentInv'
  <2>1. /\ \A k \in 1..Len(toDev') : toDev'[k].frame.id[1] = host.txn /\ toDev'[k].full
        /\ \A k \in 1..Len(dev'.out) :
              dev'.out[k].kind = "rcv" => dev'.out[k].frame.id[1] = host.txn
        /\ \A k \in 1..Len(toHost') :
              toHost'[k].kind = "rcv" => toHost'[k].frame.id[1] = host.txn
        BY <1>1, OwnLinesKept
  <2>2. QED  BY <1>2, <1>3, <2>1 DEF HalfInv, CurrentInv
<1>6. RestInv' /\ SendInv' /\ ReplyInv'
      BY <1>2 DEF RestInv, SendInv, ReplyInv, Busy
<1>7. OkInv'
  <2> SUFFICES ASSUME Clean PROVE OkInv'
      BY <1>2 DEF OkInv, Clean
  <2>1. toDev = <<>> /\ LastReply
        BY DEF UartInv, OkInv
  <2>2. LastReply' /\ FirstOther' /\ toHost' = <<>> /\ dev'.out = <<>>
        BY <1>1, <2>1, NothingLast
  <2>3. QED  BY <2>1, <2>2 DEF OkInv
<1>8. QED  BY <1>4, <1>5, <1>6, <1>7 DEF UartInv

\* A line read while an OK is awaited.
LEMMA WaitInv == Form /\ UartInv /\ Sequential /\ wait_for_ok => UartInv'
<1> SUFFICES ASSUME Form, UartInv, Sequential, wait_for_ok PROVE UartInv'
    OBVIOUS
<1>1. /\ host.pc = "ok" /\ toHost # <<>> /\ toHost' = Tail(toHost) /\ UNCHANGED <<cfg, toDev, dev>>
      /\ Form' /\ host \in HostType
      BY OkForm DEF wait_for_ok, Form
<1>2. FewerResponses(toHost, toHost') /\ FewerCommands(toDev, toDev')
      BY <1>1, FirstLine, FewerSame
<1>3. \/ host' = host
      \/ Head(toHost).kind = "OK" /\ host' = Acked(host)
      \/ /\ Head(toHost).kind = "rcv"
         /\ host' = [host EXCEPT !.pending = Append(@, Head(toHost).frame)]
      \/ \E error \in ErrorKind :
            host' = Failed([host EXCEPT !.crc = @ \/ error = "checksum"],
                           error \in {"checksum", "unknown"})
  <2>1. /\ "OK" \in Readings(Head(toHost)) => Head(toHost).kind = "OK"
        /\ "rcv" \in Readings(Head(toHost)) => Head(toHost).kind = "rcv"
        BY DEF Readings
  <2>2. QED  BY <2>1 DEF wait_for_ok
<1>4. CASE host' = host
      BY <1>1, <1>2, <1>4, LessKeeps
<1>5. CASE Head(toHost).kind = "OK" /\ host' = Acked(host)
      BY <1>1, <1>5, AckedKeeps
<1>6. CASE /\ Head(toHost).kind = "rcv"
           /\ host' = [host EXCEPT !.pending = Append(@, Head(toHost).frame)]
      BY <1>1, <1>6, PendingKeeps
<1>7. ASSUME NEW error \in ErrorKind,
             host' = Failed([host EXCEPT !.crc = @ \/ error = "checksum"],
                            error \in {"checksum", "unknown"})
      PROVE  UartInv'
  <2> DEFINE h == [host EXCEPT !.crc = @ \/ error = "checksum"]
             r == error \in {"checksum", "unknown"}
  <2>1. /\ h \in HostType /\ h.op = host.op /\ h.txn = host.txn /\ h.batch = host.batch
        /\ h.i = host.i /\ h.got = host.got /\ h.pending = host.pending
        /\ h.recover = host.recover /\ h.attempt = host.attempt
    <3>1. (host.crc \/ error = "checksum") \in BOOLEAN
          OBVIOUS
    <3>2. QED  BY <1>1, <3>1 DEF HostType
  <2>2. r \in BOOLEAN /\ host' = Failed(h, r)
        BY <1>7
  <2> HIDE DEF h, r
  <2>3. QED  BY <1>1, <1>2, <2>1, <2>2, FailedKeeps
<1>8. QED  BY <1>3, <1>4, <1>5, <1>6, <1>7

\* The command of an attempt is sent.
LEMMA WriteInv == Form /\ UartInv /\ write_frame => UartInv'
<1> SUFFICES ASSUME Form, UartInv, write_frame PROVE UartInv'
    OBVIOUS
<1> DEFINE line == [frame |-> OwnFrame, reply |-> Current(host).reply, crc |-> host.crc,
                    intact |-> TRUE, full |-> TRUE]
<1>1. host.pc = "send" /\ UNCHANGED <<cfg, dev, toHost>> /\ Busy
      BY DEF write_frame, Busy
<1>2. /\ host'.pc = "ok" /\ host'.op = host.op /\ host'.txn = host.txn /\ host'.i = host.i
      /\ host'.batch = host.batch /\ host'.attempt = host.attempt /\ host'.flush = host.flush
      /\ host'.recover = host.recover /\ host'.got = host.got /\ host'.pending = host.pending
      BY DEF write_frame, Form, HostType
<1>3. toDev' = Append(toDev, line) /\ line \in CommandLine
  <2>1. ~(toDev # <<>> /\ ~Last(toDev).full)
    <3>1. toDev # <<>> => Len(toDev) \in 1..Len(toDev) /\ Last(toDev) = toDev[Len(toDev)]
      <4>1. Last(toDev) = toDev[Len(toDev)]
            BY DEF Last
      <4>2. QED  BY <4>1, Emptiness
    <3>2. QED  BY <1>1, <3>1 DEF UartInv, HalfInv
  <2>2. Sent = Append(toDev, line)
        BY <2>1 DEF Sent, OwnFrame
  <2>3. line \in CommandLine
    <3>1. host.i \in Nat /\ host.txn \in Nat /\ host.batch \in Seq(RequestType) /\ host.crc \in BOOLEAN
          /\ host.i \in DOMAIN host.batch
          BY <1>1, Emptiness DEF Form, HostType, Placed
    <3>2. Current(host) \in RequestType
          BY <3>1 DEF Current
    <3>3. OwnFrame \in Frame
          BY <3>1, <3>2 DEF OwnFrame, Frame, FrameId, RequestType
    <3>4. QED  BY <3>1, <3>2, <3>3 DEF CommandLine, RequestType
  <2>4. QED  BY <2>2, <2>3 DEF write_frame
<1>4. line.frame = OwnFrame /\ line.full /\ line.reply = Current(host).reply
      /\ line.frame.id[1] = host.txn
      BY DEF OwnFrame
<1> HIDE DEF line
<1>5. /\ Len(toDev') = Len(toDev) + 1 /\ Len(toDev) \in Nat
      /\ \A k \in 1..Len(toDev) : toDev'[k] = toDev[k]
      /\ toDev'[Len(toDev) + 1] = line
      BY <1>3, ExtendedType DEF Form
<1>6. \A k \in 1..Len(toDev') : k \in 1..Len(toDev) \/ k = Len(toDev) + 1
      BY <1>5
<1>7. \A k \in 1..Len(toDev') : toDev'[k].full /\ toDev'[k].frame.id[1] = host.txn
  <2>1. \A k \in 1..Len(toDev) : toDev[k].full /\ toDev[k].frame.id[1] = host.txn
        BY <1>1 DEF UartInv, HalfInv, CurrentInv
  <2>2. QED  BY <1>4, <1>5, <1>6, <2>1
<1>8. HostInv' /\ GotInv' /\ NoStaleReply'
      BY <1>1, <1>2 DEF UartInv, HostInv, GotInv, NoStaleReply, Busy, Clean, Current
<1>9. HalfInv' /\ CurrentInv'
      BY <1>1, <1>2, <1>7 DEF UartInv, HalfInv, CurrentInv
<1>10. RestInv' /\ SendInv' /\ ReplyInv'
       BY <1>2 DEF RestInv, SendInv, ReplyInv, Busy
<1>11. OkInv'
  <2> SUFFICES ASSUME Clean PROVE OkInv'
      BY <1>2 DEF OkInv, Clean
  <2>1. Quiet /\ host.pending = <<>>
        BY <1>1 DEF UartInv, SendInv
  <2>2. Len(toDev') = 1 /\ toDev'[1] = line
        BY <1>5, <2>1, Emptiness DEF Quiet
  <2>3. OwnFrame' = OwnFrame /\ Current(host)' = Current(host)
        BY <1>2 DEF OwnFrame, Current
  <2>4. toHost' = <<>> /\ dev'.out = <<>> /\ host'.pending = <<>>
        BY <1>1, <1>2, <2>1 DEF Quiet
  <2>5. LastReply' /\ FirstOther'
        BY <2>4, NothingLast
  <2>6. QED  BY <1>4, <2>2, <2>3, <2>4, <2>5 DEF OkInv
<1>12. QED  BY <1>8, <1>9, <1>10, <1>11 DEF UartInv

\* The state in which the first request of an operation is sent.
LEMMA StartedInv ==
    ASSUME Form', HostInv', host'.pc = "send", host'.txn \in Nat,
           toDev' = <<>>, toHost' = <<>>, dev'.out = <<>>, host'.pending = <<>>,
           \A j \in DOMAIN host'.got : host'.got[j] = {}
    PROVE  UartInv'
<1>1. Len(toDev') = 0 /\ Len(toHost') = 0 /\ Len(dev'.out) = 0 /\ Len(host'.pending) = 0
      OBVIOUS
<1>2. HalfInv' /\ CurrentInv'
      BY <1>1 DEF HalfInv, CurrentInv
<1>3. RestInv' /\ SendInv' /\ OkInv' /\ ReplyInv'
      BY DEF RestInv, SendInv, OkInv, ReplyInv, Busy, Quiet
<1>4. GotInv' /\ NoStaleReply'
      BY DEF GotInv, NoStaleReply
<1>5. QED  BY <1>2, <1>3, <1>4 DEF UartInv

\* After the drain nothing of an earlier operation is left.
LEMMA DrainEndInv == Form /\ UartInv /\ Sequential /\ DrainEnd => UartInv'
<1> SUFFICES ASSUME Form, UartInv, Sequential, DrainEnd PROVE UartInv'
    OBVIOUS
<1>1. /\ host.pc = "drain" /\ toHost = <<>> /\ dev.out = <<>> /\ ~Busy
      /\ UNCHANGED <<cfg, toDev, dev, toHost>> /\ Form' /\ host \in HostType
      BY DrainForm DEF DrainEnd, Form, Busy
<1>2. \A k \in 1..Len(toDev) : ~toDev[k].full
      BY Emptiness DEF DrainEnd, Form
<1>3. /\ host.pending = <<>> /\ \A j \in DOMAIN host.got : host.got[j] = {}
      /\ DOMAIN host.got = DOMAIN host.batch
      /\ host.op = "write" => \A j \in DOMAIN host.batch : ~host.batch[j].reply
      BY <1>1 DEF UartInv, RestInv, HostInv
<1>4. ~host.recover \/ host.op # "flush" => toDev = <<>>
  <2>1. \A n \in Nat : n # 0 => 1 \in 1..n
        OBVIOUS
  <2>2. QED  BY <1>1, <1>2, <2>1, Emptiness DEF UartInv, HalfInv
<1>5. CASE host.op = "flush"
  <2>1. /\ host'.pc = "idle" /\ host'.op = host.op /\ host'.recover = host.recover
        /\ host'.got = host.got /\ host'.pending = host.pending /\ host'.txn = host.txn
        BY <1>1, <1>5 DEF DrainEnd, Ended, HostType
  <2>2. HostInv' /\ CurrentInv' /\ SendInv' /\ OkInv' /\ ReplyInv' /\ GotInv'
        BY <2>1 DEF HostInv, CurrentInv, SendInv, OkInv, ReplyInv, GotInv, Busy
  <2>3. RestInv'
        BY <1>1, <1>3, <1>4, <2>1 DEF RestInv, Quiet
  <2>4. HalfInv' /\ NoStaleReply'
        BY <1>1, <2>1 DEF UartInv, HalfInv, NoStaleReply, Busy
  <2>5. QED  BY <2>2, <2>3, <2>4 DEF UartInv
<1>6. CASE host.op # "flush"
  <2>1. /\ host'.pc = "send" /\ host'.op = host.op
        /\ host'.recover = (cfg.async /\ host.op = "transaction")
        /\ host'.got = host.got /\ host'.pending = host.pending /\ host'.txn = host.txn
        /\ host'.batch = host.batch
    <3>1. (cfg.async /\ host.op = "transaction") \in BOOLEAN
          OBVIOUS
    <3>2. host' = [host EXCEPT !.pc = "send", !.recover = cfg.async /\ host.op = "transaction",
                               !.flush = FALSE]
          BY <1>6 DEF DrainEnd, Started
    <3>3. QED  BY <1>1, <3>1, <3>2 DEF HostType
  <2>2. host.op \in {"transaction", "write"} /\ (cfg.async => host.op = "transaction")
    <3>1. host.op \in {"transaction", "write"}
          BY <1>1, <1>6 DEF UartInv, HostInv
    <3>2. host.op \in cfg.ops \cup {"none"}
          BY <1>1 DEF HostType
    <3>3. QED  BY <3>1, <3>2 DEF Sequential
  <2>3. HostInv'
        BY <1>1, <1>3, <2>1, <2>2 DEF HostInv, Busy
  <2>4. QED  BY <1>1, <1>3, <1>4, <1>6, <2>1, <2>3, StartedInv, Emptiness
<1>7. QED  BY <1>5, <1>6

\* read() takes what is left over.
LEMMA ReadInv == Form /\ UartInv /\ read => UartInv'
<1> SUFFICES ASSUME Form, UartInv, read PROVE UartInv'
    OBVIOUS
<1>1. host.pc = "idle" /\ UNCHANGED <<cfg, toDev, dev>> /\ Form' /\ ~Busy
      BY ReadForm DEF read, Busy
<1>2. CASE host.pending = <<>>
  <2>1. toHost # <<>> /\ toHost' = Tail(toHost) /\ host' = host
        BY <1>2 DEF read
  <2>2. QED  BY <1>1, <2>1, FirstLine, FewerSame, LessKeeps
<1>3. CASE host.pending # <<>>
  <2>1. /\ host'.pc = "idle" /\ host'.op = host.op /\ host'.txn = host.txn
        /\ host'.flush = host.flush /\ host'.recover = host.recover /\ host'.got = host.got
        /\ toHost' = toHost
        BY <1>1, <1>3 DEF read, Form, HostType
  <2>2. HostInv' /\ CurrentInv' /\ SendInv' /\ OkInv' /\ ReplyInv' /\ GotInv'
        BY <2>1 DEF HostInv, CurrentInv, SendInv, OkInv, ReplyInv, GotInv, Busy
  <2>3. RestInv'
        BY <1>1, <1>3, <2>1 DEF UartInv, RestInv
  <2>4. HalfInv' /\ NoStaleReply'
        BY <1>1, <2>1 DEF UartInv, HalfInv, NoStaleReply, Busy
  <2>5. QED  BY <2>2, <2>3, <2>4 DEF UartInv
<1>4. QED  BY <1>2, <1>3

\* A dropped transaction leaves needs_recovery set.
LEMMA CancelInv == Form /\ UartInv /\ Cancel => UartInv'
<1> SUFFICES ASSUME Form, UartInv, Cancel PROVE UartInv'
    OBVIOUS
<1>1. /\ host'.pc = "idle" /\ host'.op = host.op /\ host'.txn = host.txn
      /\ host'.flush = host.flush /\ host'.recover = host.recover /\ host'.got = host.got
      /\ host'.pending = host.pending /\ UNCHANGED <<cfg, dev, toHost>> /\ cfg.async
      BY DEF Cancel, Form, HostType
<1>2. Busy => host.recover
      BY <1>1 DEF UartInv, HostInv
<1>3. HostInv' /\ CurrentInv' /\ SendInv' /\ OkInv' /\ ReplyInv' /\ GotInv' /\ NoStaleReply'
      BY <1>1 DEF UartInv, HostInv, CurrentInv, SendInv, OkInv, ReplyInv, GotInv, NoStaleReply, Busy
<1>4. CASE toDev' = toDev
  <2>1. RestInv' /\ HalfInv'
        BY <1>1, <1>2, <1>4 DEF UartInv, RestInv, HalfInv, Quiet, Busy
  <2>2. QED  BY <1>3, <2>1 DEF UartInv
<1>5. CASE toDev' # toDev
  <2> DEFINE half == [Last(Sent) EXCEPT !.crc = FALSE, !.intact = FALSE, !.full = FALSE]
  <2>1. Busy /\ toDev' = Append(toDev, half)
        BY <1>5 DEF Cancel, Busy
  <2>2. half \in CommandLine
    <3>1. Last(Sent) \in CommandLine
          BY FormIsType, SentType, ShorterEndType, Emptiness DEF Cancel
    <3>2. QED  BY <3>1 DEF CommandLine
  <2> HIDE DEF half
  <2>3. /\ Len(toDev') = Len(toDev) + 1 /\ Len(toDev) \in Nat
        /\ \A k \in 1..Len(toDev) : toDev'[k] = toDev[k]
        BY <2>1, <2>2, ExtendedType DEF Form
  <2>4. \A k \in 1..Len(toDev') : k \in 1..Len(toDev) \/ k = Len(toDev')
        BY <2>3
  <2>5. \A k \in 1..Len(toDev) : toDev[k].full
        BY <2>1 DEF UartInv, HalfInv
  <2>6. HalfInv'
        BY <1>1, <1>2, <2>1, <2>3, <2>4, <2>5 DEF HalfInv, Busy
  <2>7. RestInv'
        BY <1>1, <1>2, <2>1 DEF RestInv
  <2>8. QED  BY <1>3, <2>6, <2>7 DEF UartInv
<1>6. QED  BY <1>4, <1>5

\* The bare newline completes half a command.
LEMMA TerminatedFull ==
    ASSUME Form, HalfInv
    PROVE  \A k \in 1..Len(Terminated(toDev)) : Terminated(toDev)[k].full
<1>1. CASE toDev # <<>> /\ ~Last(toDev).full
  <2> DEFINE e == [Last(toDev) EXCEPT !.full = TRUE]
  <2>1. /\ Front(toDev) \in Seq(CommandLine) /\ Last(toDev) \in CommandLine
        /\ Len(toDev) \in Nat \ {0}
        /\ Len(Front(toDev)) = Len(toDev) - 1
        /\ \A k \in 1..(Len(toDev) - 1) : Front(toDev)[k] = toDev[k]
        BY <1>1, ShorterEndType DEF Form
  <2>2. e \in CommandLine /\ e.full
        BY <2>1 DEF CommandLine
  <2>3. Terminated(toDev) = Front(toDev) \o <<e>>
        BY <1>1 DEF Terminated
  <2> HIDE DEF e
  <2>4. <<e>> \in Seq(CommandLine) /\ Len(<<e>>) = 1 /\ <<e>>[1] = e
        BY <2>2
  <2> DEFINE n == Len(toDev) - 1
             t == Terminated(toDev)
  <2>5. /\ Len(t) = n + 1 /\ n \in Nat
        /\ \A k \in 1..n : t[k] = toDev[k]
        /\ t[n + 1] = e
        BY <2>1, <2>3, <2>4, ConcatType
  <2>6. \A k \in 1..n : toDev[k].full
    <3>1. \A k \in 1..n : k \in 1..Len(toDev) /\ k # Len(toDev)
          BY <2>1
    <3>2. QED  BY <3>1 DEF HalfInv
  <2> HIDE DEF n, t
  <2>7. \A k \in 1..Len(t) : k \in 1..n \/ k = n + 1
        BY <2>5
  <2>8. \A k \in 1..Len(t) : t[k].full
        BY <2>2, <2>5, <2>6, <2>7
  <2>9. QED  BY <2>8 DEF t
<1>2. CASE toDev = <<>> \/ Last(toDev).full
  <2>1. Terminated(toDev) = toDev
        BY <1>2 DEF Terminated
  <2>2. ASSUME NEW k \in 1..Len(toDev), ~toDev[k].full PROVE FALSE
    <3>1. k = Len(toDev) /\ toDev # <<>>
          BY <2>2, Emptiness DEF HalfInv
    <3>2. QED  BY <1>2, <2>2, <3>1 DEF Last
  <2>3. QED  BY <2>1, <2>2
<1>3. QED  BY <1>1, <1>2

\* What the start of an operation changes.
LEMMA BeginEffect ==
    ASSUME Form, Begin
    PROVE  /\ host.pc = "idle" /\ UNCHANGED <<cfg, dev, toHost>>
           /\ host'.op \in cfg.ops \ {"read"} /\ host'.flush = host.flush
           /\ DOMAIN host'.got = DOMAIN host'.batch
           /\ \A j \in DOMAIN host'.got : host'.got[j] = {}
           /\ host'.op = "write" => \A j \in DOMAIN host'.batch : ~host'.batch[j].reply
           /\ host'.batch \in cfg.batches \/ Len(host'.batch) = 1
           /\ host'.i = 1 /\ host'.attempt = 0 /\ host'.result = "none" /\ host'.crc = host.crc
           /\ hist' = [hist EXCEPT !.spent = 0]
           /\ IF host'.op = "flush" \/ host.flush \/ host.recover
              THEN /\ host'.pc = "drain" /\ host'.pending = <<>> /\ host'.recover = host.recover
                   /\ toDev' = IF host'.op # "flush" /\ host.recover THEN Terminated(toDev) ELSE toDev
              ELSE /\ host'.pc = "send" /\ host'.pending = host.pending /\ toDev' = toDev
                   /\ host'.recover = (cfg.async /\ host'.op = "transaction")
<1>1. PICK op \in cfg.ops \ {"read"} :
      \E batch \in IF op = "transaction" THEN cfg.batches
                   ELSE {<<[reply |-> FALSE, kind |-> "query"]>>} :
          LET h == [host EXCEPT !.op = op, !.txn = @ + 1, !.batch = batch, !.i = 1,
                      !.attempt = 0, !.result = "none", !.got = [j \in 1..Len(batch) |-> {}]]
              dirty == host.flush \/ host.recover
          IN IF op = "flush" \/ dirty
             THEN /\ host' = [h EXCEPT !.pc = "drain", !.pending = <<>>]
                  /\ toDev' = IF op # "flush" /\ host.recover THEN Terminated(toDev) ELSE toDev
             ELSE host' = Started(h) /\ UNCHANGED toDev
      BY DEF Begin
<1>2. PICK batch \in IF op = "transaction" THEN cfg.batches
                     ELSE {<<[reply |-> FALSE, kind |-> "query"]>>} :
          LET h == [host EXCEPT !.op = op, !.txn = @ + 1, !.batch = batch, !.i = 1,
                      !.attempt = 0, !.result = "none", !.got = [j \in 1..Len(batch) |-> {}]]
              dirty == host.flush \/ host.recover
          IN IF op = "flush" \/ dirty
             THEN /\ host' = [h EXCEPT !.pc = "drain", !.pending = <<>>]
                  /\ toDev' = IF op # "flush" /\ host.recover THEN Terminated(toDev) ELSE toDev
             ELSE host' = Started(h) /\ UNCHANGED toDev
      BY <1>1
<1>3. batch \in Seq(RequestType)
  <2>1. CASE op = "transaction"
        BY <1>2, <2>1, ScenarioForm DEF Form
  <2>2. CASE op # "transaction"
    <3>1. [reply |-> FALSE, kind |-> "query"] \in RequestType
          BY DEF RequestType
    <3>2. batch = <<[reply |-> FALSE, kind |-> "query"]>>
          BY <1>2, <2>2
    <3>3. QED  BY <3>1, <3>2
  <2>3. QED  BY <2>1, <2>2
<1>0. batch \in cfg.batches \/ Len(batch) = 1
      BY <1>2
<1>4. op = "write" => \A j \in DOMAIN batch : ~batch[j].reply
  <2> SUFFICES ASSUME op = "write" PROVE \A j \in DOMAIN batch : ~batch[j].reply
      OBVIOUS
  <2>1. batch = <<[reply |-> FALSE, kind |-> "query"]>>
        BY <1>2
  <2>2. DOMAIN batch = {1} /\ batch[1].reply = FALSE
        BY <2>1
  <2>3. QED  BY <2>2
<1> DEFINE got == [j \in 1..Len(batch) |-> {}]
           h == [host EXCEPT !.op = op, !.txn = @ + 1, !.batch = batch, !.i = 1,
                      !.attempt = 0, !.result = "none", !.got = got]
<1>5. DOMAIN got = DOMAIN batch /\ \A j \in DOMAIN got : got[j] = {}
      BY <1>3
<1>6. IF op = "flush" \/ host.flush \/ host.recover
      THEN /\ host' = [h EXCEPT !.pc = "drain", !.pending = <<>>]
           /\ toDev' = IF op # "flush" /\ host.recover THEN Terminated(toDev) ELSE toDev
      ELSE host' = Started(h) /\ UNCHANGED toDev
      BY <1>2
<1> HIDE DEF got
<1>7. /\ h.op = op /\ h.batch = batch /\ h.got = got /\ h.flush = host.flush
      /\ h.recover = host.recover /\ h.pending = host.pending
      /\ h.i = 1 /\ h.attempt = 0 /\ h.result = "none" /\ h.crc = host.crc
      /\ DOMAIN h = DOMAIN host
      BY DEF Form, HostType
<1>8. DOMAIN host = {"pc", "op", "txn", "batch", "i", "attempt", "crc", "flush", "recover",
                     "pending", "got", "result"}
      BY DEF Form, HostType
<1> HIDE DEF h
<1>9. CASE op = "flush" \/ host.flush \/ host.recover
  <2>1. /\ host'.pc = "drain" /\ host'.pending = <<>> /\ host'.recover = host.recover
        /\ host'.op = op /\ host'.batch = batch /\ host'.got = got /\ host'.flush = host.flush
        /\ host'.i = 1 /\ host'.attempt = 0 /\ host'.result = "none" /\ host'.crc = host.crc
        BY <1>6, <1>7, <1>8, <1>9, ZenonT(60)
  <2>2. QED  BY <1>0, <1>4, <1>5, <1>6, <1>9, <2>1 DEF Begin
<1>10. CASE ~(op = "flush" \/ host.flush \/ host.recover)
  <2>1. host' = [h EXCEPT !.pc = "send", !.recover = cfg.async /\ h.op = "transaction"]
        BY <1>6, <1>10 DEF Started
  <2>2. /\ host'.pc = "send" /\ host'.pending = host.pending
        /\ host'.recover = (cfg.async /\ op = "transaction")
        /\ host'.op = op /\ host'.batch = batch /\ host'.got = got /\ host'.flush = host.flush
        /\ host'.i = 1 /\ host'.attempt = 0 /\ host'.result = "none" /\ host'.crc = host.crc
        BY <1>7, <1>8, <2>1
  <2>3. QED  BY <1>0, <1>4, <1>5, <1>6, <1>10, <2>2 DEF Begin
<1>11. QED  BY <1>9, <1>10

\* The start of an operation, with a drain when a flag is set.
LEMMA BeginInv == Form /\ UartInv /\ Sequential /\ Begin => UartInv'
<1> SUFFICES ASSUME Form, UartInv, Sequential, Begin PROVE UartInv'
    OBVIOUS
<1>1. /\ host.pc = "idle" /\ UNCHANGED <<cfg, dev, toHost>> /\ ~Busy
      /\ host'.op \in cfg.ops \ {"read"} /\ host'.flush = host.flush
      /\ DOMAIN host'.got = DOMAIN host'.batch
      /\ \A j \in DOMAIN host'.got : host'.got[j] = {}
      /\ host'.op = "write" => \A j \in DOMAIN host'.batch : ~host'.batch[j].reply
      BY BeginEffect DEF Busy
<1>2. host'.op \in {"transaction", "write", "flush"} /\ (cfg.async => host'.op # "write")
      /\ Form' /\ host'.txn \in Nat
  <2>1. Form' /\ cfg' = cfg
        BY BeginForm, BeginEffect
  <2>2. host'.txn \in Nat
        BY <2>1, ScenarioForm DEF Form, HostType
  <2>3. QED  BY <1>1, <2>1, <2>2, ScenarioForm DEF Form, Sequential
<1>3. CASE host'.op = "flush" \/ host.flush \/ host.recover
  <2>1. /\ host'.pc = "drain" /\ host'.pending = <<>> /\ host'.recover = host.recover
        /\ toDev' = IF host'.op # "flush" /\ host.recover THEN Terminated(toDev) ELSE toDev
        BY <1>3, BeginEffect
  <2>2. HostInv' /\ CurrentInv' /\ SendInv' /\ OkInv' /\ ReplyInv' /\ GotInv' /\ NoStaleReply'
        BY <1>1, <1>2, <2>1
        DEF HostInv, CurrentInv, SendInv, OkInv, ReplyInv, GotInv, NoStaleReply, Busy
  <2>3. RestInv'
        BY <1>1, <1>3, <2>1 DEF UartInv, RestInv, Quiet
  <2>4. HalfInv'
    <3>1. CASE host'.op # "flush" /\ host.recover
          BY <2>1, <3>1, TerminatedFull DEF UartInv, HalfInv
    <3>2. CASE host'.op = "flush"
          BY <1>1, <2>1, <3>2 DEF UartInv, HalfInv, Busy
    <3>3. CASE ~host.recover
          BY <1>1, <2>1, <3>3 DEF UartInv, HalfInv, Busy
    <3>4. QED  BY <3>1, <3>2, <3>3
  <2>5. QED  BY <2>2, <2>3, <2>4 DEF UartInv
<1>4. CASE ~(host'.op = "flush" \/ host.flush \/ host.recover)
  <2>1. /\ host'.pc = "send" /\ host'.pending = host.pending /\ toDev' = toDev
        /\ host'.recover = (cfg.async /\ host'.op = "transaction")
        BY <1>4, BeginEffect
  <2>2. Quiet /\ host.pending = <<>>
        BY <1>1, <1>4 DEF UartInv, RestInv
  <2>3. HostInv'
        BY <1>1, <1>2, <1>4, <2>1 DEF HostInv, Busy
  <2>4. toDev' = <<>> /\ toHost' = <<>> /\ dev'.out = <<>> /\ host'.pending = <<>>
        BY <1>1, <2>1, <2>2 DEF Quiet
  <2>5. QED  BY <1>1, <1>2, <2>1, <2>3, <2>4, StartedInv
<1>5. QED  BY <1>3, <1>4

-----------------------------------------------------------------------------
(* The result                                                              *)

UartSafe == Form /\ (Sequential => UartInv)

\* The invariant holds when the transport is opened.
LEMMA UartSafeInit == Init => UartSafe
<1> SUFFICES ASSUME Init, Sequential PROVE UartInv
    BY FormInit DEF UartSafe
<1>1. /\ host.pc = "idle" /\ host.pending = <<>> /\ host.got = <<>>
      /\ toDev = <<>> /\ toHost = <<>> /\ dev.out = <<>>
      BY DEF Init, IdleHost
<1>2. Len(toDev) = 0 /\ DOMAIN host.got = {}
      BY <1>1
<1>3. HostInv /\ CurrentInv /\ SendInv /\ OkInv /\ ReplyInv /\ GotInv
      BY <1>1 DEF HostInv, CurrentInv, SendInv, OkInv, ReplyInv, GotInv, Busy
<1>4. HalfInv /\ RestInv /\ NoStaleReply
      BY <1>1, <1>2 DEF HalfInv, RestInv, NoStaleReply, Quiet
<1>5. QED  BY <1>3, <1>4 DEF UartInv

\* Every step keeps the invariant.
LEMMA UartSafeNext == UartSafe /\ [Next]_vars => UartSafe'
<1> SUFFICES ASSUME UartSafe, [Next]_vars, Sequential' PROVE UartInv'
    BY FormNext, SMTT(60) DEF UartSafe
<1>1. cfg' = cfg
      BY DEF Next, HostStep, Begin, DrainLine, DrainEnd, write_frame, wait_for_ok, OkTimeout,
             receive_reply, ReplyDone, ReplyTimeout, read, Cancel, ProcessLine, Poll,
             LinkFault, DeviceReset, Fault, vars
<1>2. Form /\ UartInv /\ Sequential
      BY <1>1 DEF UartSafe, Sequential
<1>3. CASE UNCHANGED vars
  <2>1. Form' /\ dev'.out = dev.out /\ UNCHANGED <<cfg, host, toDev, toHost>>
        BY <1>2, <1>3, FormNext DEF vars
  <2>2. QED  BY <1>2, <2>1, FewerSame, LessKeeps
<1>4. CASE Next
      BY <1>2, <1>4, BeginInv, LessInv, DrainEndInv, WriteInv, WaitInv, OkTimeoutInv,
         ReceiveInv, ReplyEndInv, ReadInv, CancelInv, ProcessInv, PollInv DEF Next, HostStep
<1>5. QED  BY <1>3, <1>4

\* needs_flush and needs_recovery tell the next operation what to drain: when
\* neither is set between operations, nothing of an earlier one is buffered or
\* on the wire (transaction, send_frame, FdcanusbDevice and
\* AsyncFdcanusbDevice), whatever is lost, garbled, late, retried or dropped.
THEOREM LeftoversFlagged == Spec => [](Sequential => FlushFlagged)
<1>1. Spec => []UartSafe
      BY UartSafeInit, UartSafeNext, PTL DEF Spec
<1>2. UartSafe => (Sequential => FlushFlagged)
      BY DEF UartSafe, UartInv, RestInv, FlushFlagged, Busy
<1>3. QED  BY <1>1, <1>2, PTL

\* A reply handed to a request was produced by the transaction it belongs to
\* (receive_replies_uart, dispatch_frame).
THEOREM RepliesAreCurrent == Spec => [](Sequential => NoStaleReply)
<1>1. Spec => []UartSafe
      BY UartSafeInit, UartSafeNext, PTL DEF Spec
<1>2. UartSafe => (Sequential => NoStaleReply)
      BY DEF UartSafe, UartInv
<1>3. QED  BY <1>1, <1>2, PTL

(***************************************************************************)
(* What retries and acknowledgements are worth:                            *)
(*                                                                         *)
(*   - one request at a time on a checksummed link, what was acknowledged  *)
(*     was executed or misread, whatever is lost, late or dropped          *)
(*     (ExecInv);                                                          *)
(*   - with answers in time, an error means more faults than retries: the  *)
(*     number of attempts never runs ahead of the faults, because while it *)
(*     has caught up an intact command or its intact OK is under way       *)
(*     (RetryInv);                                                         *)
(*   - without a fault, requests whose filters differ get their own reply: *)
(*     what is under way is exactly one command or its answer, for every   *)
(*     way of negotiating checksums (DistinctInv).                         *)
(*                                                                         *)
(* All three rest on UartInv: an operation begins with nothing under way.  *)
(***************************************************************************)

\* The answers under way, oldest first, wherever they are buffered.
Wire == toHost \o dev.out

\* The history variables.
HistForm ==
    hist \in [acked: SUBSET FrameId, executed: SUBSET FrameId, misread: SUBSET FrameId,
              faults: Nat, spent: Nat]

\* The frames of which the firmware executed a copy, garbled or not.
Taken == hist.executed \cup hist.misread

-----------------------------------------------------------------------------
(* The invariants                                                          *)

\* One request at a time, on a checksummed link.
OneRequest == cfg.checksum /\ Sequential /\ \A batch \in cfg.batches : Len(batch) = 1

\* An OK or a reply under way means that the running request was taken.
ExecInv ==
    /\ host.crc
    /\ host.pc # "idle" => Len(host.batch) = 1
    /\ hist.acked \subseteq Taken
    /\ Busy =>
        /\ \A k \in 1..Len(toDev) : toDev[k].frame.id = <<host.txn, 1>>
        /\ \A k \in 1..Len(Wire) : Wire[k].kind \in {"OK", "rcv"} => <<host.txn, 1>> \in Taken

\* Checksums and answers in time.
Timely == cfg.checksum /\ ~cfg.late /\ Sequential

\* Replies, and at most one line that is none, which the host can take for an
\* OK or for the refusal of a checksum alone.
OnlyReplies(s) == \A k \in 1..Len(s) : s[k].kind = "rcv"
OneOther(s) ==
    /\ \A k \in 1..Len(s) : Sound(s[k]) => s[k].kind \in {"rcv", "OK", "checksum"}
    /\ \A j, k \in 1..Len(s) : s[j].kind # "rcv" /\ s[k].kind # "rcv" => j = k
SoundOk(s) == \E k \in 1..Len(s) : s[k].kind = "OK" /\ Sound(s[k])

\* The command of an attempt, or what answers it.
Asked ==
    /\ Len(toDev) = 1 /\ OnlyReplies(Wire)
    /\ hist.spent = host.attempt => Sound(toDev[1])
Answered ==
    /\ toDev = <<>> /\ OneOther(Wire)
    /\ hist.spent = host.attempt => SoundOk(Wire)

\* An attempt fails only when a fault of its own has hit it.
RetryInv ==
    /\ host.crc
    /\ host.result = "err" => host.pc = "idle" /\ hist.spent > cfg.retries
    /\ host.pc # "idle" => hist.spent >= host.attempt
    /\ host.pc \in {"send", "reply"} => toDev = <<>> /\ OnlyReplies(Wire)
    /\ host.pc = "ok" => Asked \/ Answered

\* No fault since a transaction began, and no request that accepts what a
\* later one awaits.
Distinct(batch) ==
    \A j \in DOMAIN batch : \A k \in 1..(j - 1) : batch[k].reply /\ batch[k].kind # batch[j].kind
Unhindered == hist.spent = 0 /\ host.op = "transaction" /\ Distinct(host.batch)

\* The first n requests of an operation have their own replies.
Served(h, n) == \A j \in 1..n : h.batch[j].reply => \E f \in h.got[j] : f.id = <<h.txn, j>>

\* Answers that the checksum policy accepts.
Accurate(s, crc) == \A k \in 1..Len(s) : s[k].intact /\ (crc => s[k].crc)

\* What is under way when a command is sent, answered, and followed by its
\* reply.  A command may be refused once: the firmware wants checksums.
AtSend == toDev = <<>> /\ Wire = <<>>
Sending ==
    /\ Len(toDev) = 1 /\ Wire = <<>>
    /\ toDev[1].frame = OwnFrame /\ toDev[1].reply = Current(host).reply
    /\ toDev[1].intact /\ toDev[1].crc = host.crc
Negotiated ==
    toDev = <<>> /\ ~host.crc /\ Len(Wire) = 1 /\ Wire[1].kind = "checksum" /\ Wire[1].intact
Confirmed ==
    /\ toDev = <<>> /\ Accurate(Wire, host.crc)
    /\ Len(Wire) = (IF Current(host).reply THEN 2 ELSE 1) /\ Wire[1].kind = "OK"
    /\ Current(host).reply => Wire[2].kind = "rcv" /\ Wire[2].frame = OwnFrame
AtReply ==
    /\ toDev = <<>> /\ Accurate(Wire, host.crc)
    /\ \/ /\ Len(Wire) = 1 /\ Wire[1].kind = "rcv" /\ Wire[1].frame = OwnFrame
          /\ host.got[host.i] = {}
       \/ Wire = <<>> /\ OwnFrame \in host.got[host.i]
InStep ==
    /\ host.pending = <<>> /\ Served(host, host.i - 1)
    /\ \A j \in DOMAIN host.got :
          j > host.i \/ (j = host.i /\ host.pc # "reply") => host.got[j] = {}
    /\ host.pc = "send" => AtSend
    /\ host.pc = "ok" => Sending \/ Negotiated \/ Confirmed
    /\ host.pc = "reply" => AtReply

\* An unhindered transaction serves its requests one after the other.
DistinctInv ==
    /\ host.pc # "idle" => host.result = "none"
    /\ host.pc = "drain" => host.i = 1
    /\ Unhindered /\ Busy => InStep
    /\ Unhindered /\ host.result = "ok" => Served(host, Len(host.batch))

-----------------------------------------------------------------------------
(* The wire                                                                *)

\* t is what remains of s after a loss, kind by kind.
Thinned(s, t) ==
    \E d \in {0, 1} : \A k \in 1..Len(t) :
        k + d \in 1..Len(s) /\ t[k].kind = s[k + d].kind /\ (Sound(t[k]) => Sound(s[k + d]))

\* t is s, or s without its first command, up to garbling.
ThinnedCommands(s, t) ==
    \E d \in {0, 1} :
        /\ Len(t) = Len(s) - d
        /\ \A k \in 1..Len(t) : k + d \in 1..Len(s) /\ t[k].frame = s[k + d].frame

\* An answer on the wire is on its way or in the firmware's buffers.
LEMMA WireType ==
    ASSUME Form
    PROVE  /\ Wire \in Seq(ResponseLine) /\ Len(Wire) = Len(toHost) + Len(dev.out)
           /\ \A k \in 1..Len(toHost) : Wire[k] = toHost[k]
           /\ \A k \in 1..Len(dev.out) : Wire[Len(toHost) + k] = dev.out[k]
           /\ Len(Wire) \in Nat /\ (Wire = <<>> <=> Len(Wire) = 0)
           /\ Wire = <<>> <=> toHost = <<>> /\ dev.out = <<>>
<1>1. toHost \in Seq(ResponseLine) /\ dev.out \in Seq(ResponseLine)
      BY DEF Form
<1>2. /\ Wire \in Seq(ResponseLine) /\ Len(Wire) = Len(toHost) + Len(dev.out)
      /\ \A k \in 1..Len(toHost) : Wire[k] = toHost[k]
      /\ \A k \in 1..Len(dev.out) : Wire[Len(toHost) + k] = dev.out[k]
      BY <1>1, ConcatType DEF Wire
<1>3. Len(Wire) \in Nat /\ (Wire = <<>> <=> Len(Wire) = 0)
  <2>1. \A S : \A s \in Seq(S) : Len(s) \in Nat /\ (s = <<>> <=> Len(s) = 0)
        OBVIOUS
  <2>2. QED  BY <1>2, <2>1
<1>4. Wire = <<>> <=> toHost = <<>> /\ dev.out = <<>>
  <2>1. \A m, n \in Nat : m + n = 0 <=> m = 0 /\ n = 0
        OBVIOUS
  <2>2. QED  BY <1>2, <1>3, <2>1, Emptiness
<1>5. QED  BY <1>2, <1>3, <1>4

\* Nothing is under way.
LEMMA QuietWire ==
    ASSUME Form
    PROVE  Quiet <=> toDev = <<>> /\ Wire = <<>>
BY WireType DEF Quiet

\* A sequence is its first element and the others.
LEMMA HeadAndTail ==
    ASSUME NEW S, NEW s \in Seq(S), s # <<>>
    PROVE  Head(s) \in S /\ Tail(s) \in Seq(S) /\ s = <<Head(s)>> \o Tail(s)
<1>1. Head(s) \in S /\ Tail(s) \in Seq(S) /\ Head(s) = s[1] /\ Len(s) \in Nat \ {0}
      /\ Len(Tail(s)) = Len(s) - 1 /\ \A k \in 1..(Len(s) - 1) : Tail(s)[k] = s[k + 1]
      BY ShorterType
<1> DEFINE e == Head(s)
           r == Tail(s)
           t == <<e>> \o r
<1> HIDE DEF e, r
<1>2. /\ t \in Seq(S) /\ Len(t) = 1 + Len(r) /\ t[1] = e
      /\ \A k \in 1..Len(r) : t[1 + k] = r[k]
  <2>1. <<e>> \in Seq(S) /\ Len(<<e>>) = 1 /\ <<e>>[1] = e /\ r \in Seq(S)
        BY <1>1 DEF e, r
  <2>2. QED  BY <2>1, ConcatType
<1> HIDE DEF t
<1>3. Len(t) = Len(s)
      BY <1>1, <1>2 DEF r
<1>4. ASSUME NEW k \in 1..Len(s) PROVE t[k] = s[k]
  <2>1. CASE k = 1
        BY <1>1, <1>2, <2>1 DEF e
  <2>2. CASE k # 1
    <3>1. k - 1 \in 1..(Len(s) - 1) /\ k - 1 \in 1..Len(r) /\ 1 + (k - 1) = k /\ (k - 1) + 1 = k
          BY <1>1, <2>2 DEF r
    <3>2. t[1 + (k - 1)] = r[k - 1] /\ r[k - 1] = s[(k - 1) + 1]
          BY <1>1, <1>2, <3>1 DEF r
    <3>3. QED  BY <3>1, <3>2
  <2>3. QED  BY <2>1, <2>2
<1>5. \A u, v \in Seq(S) : Len(u) = Len(v) /\ (\A k \in 1..Len(v) : u[k] = v[k]) => u = v
      OBVIOUS
<1>6. t = s
      BY <1>2, <1>3, <1>4, <1>5
<1>7. QED  BY <1>1, <1>6 DEF t, e, r

\* Sending a line leaves the answers under way as they are.
LEMMA PollWire == Form /\ Poll => Wire' = Wire
<1> SUFFICES ASSUME Form, Poll PROVE Wire' = Wire
    OBVIOUS
<1> DEFINE first == Head(dev.out)
           rest == Tail(dev.out)
<1>1. dev.out \in Seq(ResponseLine) /\ dev.out # <<>> /\ toHost \in Seq(ResponseLine)
      /\ toHost' = Append(toHost, first) /\ dev'.out = rest
      BY DEF Form, Poll
<1>2. first \in ResponseLine /\ rest \in Seq(ResponseLine) /\ dev.out = <<first>> \o rest
      BY <1>1, HeadAndTail
<1> HIDE DEF first, rest
<1>3. toHost' = toHost \o <<first>> /\ <<first>> \in Seq(ResponseLine)
      BY <1>1, <1>2, AppendIsConcat
<1>4. (toHost \o <<first>>) \o rest = toHost \o (<<first>> \o rest)
      BY <1>1, <1>2, <1>3, ConcatAssociative
<1>5. QED  BY <1>1, <1>2, <1>3, <1>4 DEF Wire

\* Reading a line takes the first answer under way.
LEMMA TakeWire ==
    ASSUME Form, toHost # <<>>, toHost' = Tail(toHost), UNCHANGED dev
    PROVE  /\ Wire # <<>> /\ Head(Wire) = Head(toHost) /\ Wire' = Tail(Wire)
           /\ Head(toHost) = Wire[1] /\ Head(toHost) \in ResponseLine
           /\ Wire' \in Seq(ResponseLine) /\ Len(Wire') = Len(Wire) - 1 /\ Len(Wire) \in Nat \ {0}
           /\ \A k \in 1..(Len(Wire) - 1) : Wire'[k] = Wire[k + 1]
<1>1. toHost \in Seq(ResponseLine) /\ dev.out \in Seq(ResponseLine)
      BY DEF Form
<1>2. Wire' = Tail(toHost) \o dev.out
      BY DEF Wire
<1> DEFINE first == Head(toHost)
           rest == Tail(toHost)
<1>3. Wire # <<>> /\ Head(Wire) = first /\ rest \o dev.out = Tail(Wire)
  <2>1. first \in ResponseLine /\ rest \in Seq(ResponseLine) /\ toHost = <<first>> \o rest
        BY <1>1, HeadAndTail
  <2> HIDE DEF first, rest
  <2>2. <<first>> \in Seq(ResponseLine) /\ rest \o dev.out \in Seq(ResponseLine)
        BY <1>1, <2>1
  <2>3. Wire = <<first>> \o (rest \o dev.out)
    <3> DEFINE one == <<first>>
    <3>1. one \in Seq(ResponseLine) /\ toHost = one \o rest /\ Wire = toHost \o dev.out
          BY <2>1, <2>2 DEF Wire
    <3> HIDE DEF one
    <3>2. \A s, t, u \in Seq(ResponseLine) : (s \o t) \o u = s \o (t \o u)
          BY ConcatAssociative, SMTT(60)
    <3>3. (one \o rest) \o dev.out = one \o (rest \o dev.out)
          BY ONLY <1>1, <2>1, <3>1, <3>2
    <3>4. QED  BY ONLY <3>1, <3>3 DEF one
  <2>4. ASSUME NEW r \in Seq(ResponseLine)
        PROVE  <<first>> \o r # <<>> /\ Head(<<first>> \o r) = first /\ Tail(<<first>> \o r) = r
    <3>1. <<first>> \o r # <<>> /\ Head(<<first>> \o r) = first
          BY <2>1, <2>4
    <3>2. <<first>> \o r = <<first>> \o Tail(<<first>> \o r) /\ Tail(<<first>> \o r) \in Seq(ResponseLine)
          BY <2>2, <2>4, <3>1, HeadAndTail
    <3>3. QED  BY <2>2, <2>4, <3>1, <3>2, ConcatSimplifications
  <2>5. QED  BY <2>2, <2>3, <2>4
<1>4. Wire \in Seq(ResponseLine)
      BY WireType
<1>5. QED  BY <1>2, <1>3, <1>4, ShorterType

\* What answers are left when some are lost or garbled.
LEMMA ThinnedWire ==
    ASSUME Form, Form', FewerResponses(toHost, toHost'), dev'.out = dev.out \/ dev'.out = <<>>
    PROVE  Thinned(Wire, Wire')
<1>1. PICK d \in {0, 1} :
        /\ Len(toHost') = Len(toHost) - d
        /\ \A k \in 1..Len(toHost') :
              /\ k + d \in 1..Len(toHost) /\ toHost'[k].kind = toHost[k + d].kind
              /\ Sound(toHost'[k]) => Sound(toHost[k + d])
      BY DEF FewerResponses
<1>2. /\ Len(Wire) = Len(toHost) + Len(dev.out)
      /\ \A k \in 1..Len(toHost) : Wire[k] = toHost[k]
      /\ \A k \in 1..Len(dev.out) : Wire[Len(toHost) + k] = dev.out[k]
      /\ Len(toHost) \in Nat /\ Len(dev.out) \in Nat
      BY WireType, Emptiness
<1>3. /\ Len(Wire') = Len(toHost') + Len(dev'.out)
      /\ \A k \in 1..Len(toHost') : Wire'[k] = toHost'[k]
      /\ \A k \in 1..Len(dev'.out) : Wire'[Len(toHost') + k] = dev'.out[k]
      /\ Len(toHost') \in Nat /\ Len(dev'.out) \in Nat
  <2>1. toHost' \in Seq(ResponseLine) /\ dev'.out \in Seq(ResponseLine)
        BY DEF Form
  <2>2. Len(toHost') \in Nat /\ Len(dev'.out) \in Nat
        BY <2>1
  <2>3. QED  BY <2>1, <2>2, ConcatType DEF Wire
<1>4. ASSUME NEW k \in 1..Len(Wire')
      PROVE  /\ k + d \in 1..Len(Wire) /\ Wire'[k].kind = Wire[k + d].kind
             /\ Sound(Wire'[k]) => Sound(Wire[k + d])
  <2>1. CASE k \in 1..Len(toHost')
    <3>1. /\ k + d \in 1..Len(toHost) /\ toHost'[k].kind = toHost[k + d].kind
          /\ Sound(toHost'[k]) => Sound(toHost[k + d])
          BY <1>1, <2>1
    <3>2. k + d \in 1..Len(Wire)
          BY <1>2, <3>1
    <3>3. QED  BY <1>2, <1>3, <2>1, <3>1, <3>2
  <2>2. CASE k \notin 1..Len(toHost')
    <3> DEFINE m == k - Len(toHost')
    <3>1. m \in 1..Len(dev'.out) /\ Len(toHost') + m = k
          BY <1>3, <2>2
    <3>2. dev'.out = dev.out
      <4>1. Len(<<>>) = 0
            OBVIOUS
      <4>2. QED  BY <3>1, <4>1
    <3>3. Len(toHost) + m = k + d /\ k + d \in 1..Len(Wire)
          BY <1>1, <1>2, <1>3, <3>1, <3>2
    <3> HIDE DEF m
    <3>4. Wire'[k] = dev.out[m] /\ Wire[k + d] = dev.out[m]
          BY <1>2, <1>3, <3>1, <3>2, <3>3
    <3>5. QED  BY <3>3, <3>4
  <2>3. QED  BY <2>1, <2>2
<1>5. QED  BY <1>4 DEF Thinned

\* Taking the first line thins a sequence.
LEMMA TailThinned ==
    ASSUME NEW s, NEW t, Len(s) \in Nat, Len(t) = Len(s) - 1,
           \A k \in 1..(Len(s) - 1) : t[k] = s[k + 1]
    PROVE  Thinned(s, t)
<1>1. \A k \in 1..Len(t) : k + 1 \in 1..Len(s) /\ t[k] = s[k + 1]
      OBVIOUS
<1>2. QED  BY <1>1 DEF Thinned

\* What is said of the kinds of all answers survives a loss.
LEMMA ThinnedKeeps ==
    ASSUME NEW s, NEW t, Thinned(s, t)
    PROVE  /\ OnlyReplies(s) => OnlyReplies(t)
           /\ OneOther(s) => OneOther(t)
<1>1. PICK d \in {0, 1} : \A k \in 1..Len(t) :
          k + d \in 1..Len(s) /\ t[k].kind = s[k + d].kind /\ (Sound(t[k]) => Sound(s[k + d]))
      BY DEF Thinned
<1>2. OnlyReplies(s) => OnlyReplies(t)
      BY <1>1 DEF OnlyReplies
<1>3. ASSUME OneOther(s) PROVE OneOther(t)
  <2>1. \A k \in 1..Len(t) : Sound(t[k]) => t[k].kind \in {"rcv", "OK", "checksum"}
        BY <1>1, <1>3 DEF OneOther
  <2>2. ASSUME NEW j \in 1..Len(t), NEW k \in 1..Len(t), t[j].kind # "rcv", t[k].kind # "rcv"
        PROVE  j = k
    <3>1. j + d = k + d
          BY <1>1, <1>3, <2>2, ZenonT(60) DEF OneOther
    <3>2. QED  BY <3>1
  <2>3. QED  BY <2>1, <2>2 DEF OneOther
<1>4. QED  BY <1>2, <1>3

\* Draining, reading by the application, a fault: lines are lost or garbled.
LEMMA LostLines ==
    ASSUME Form, DrainLine \/ read \/ LinkFault \/ DeviceReset
    PROVE  Thinned(Wire, Wire') /\ ThinnedCommands(toDev, toDev')
<1>1. Form'
      BY DrainForm, ReadForm, FaultForm
<1>2. FewerResponses(toHost, toHost')
  <2>1. CASE toHost' = toHost
        BY <2>1, FewerSame
  <2>2. CASE toHost # <<>> /\ toHost' = Tail(toHost)
        BY <2>2, TailFewerResponses DEF Form
  <2>3. CASE toHost # <<>> /\ \E line \in Garbled(Head(toHost)) : toHost' = <<line>> \o Tail(toHost)
        BY <2>3, GarbledFewerResponses DEF Form
  <2>4. QED  BY <2>1, <2>2, <2>3 DEF DrainLine, read, LinkFault, Disturbed, DeviceReset
<1>3. dev'.out = dev.out \/ dev'.out = <<>>
      BY DEF DrainLine, read, LinkFault, DeviceReset
<1>4. ThinnedCommands(toDev, toDev')
  <2>1. CASE toDev' = toDev
    <3>1. Len(toDev) = Len(toDev) - 0 /\ \A k \in 1..Len(toDev) : k + 0 \in 1..Len(toDev) /\ k + 0 = k
          BY Emptiness
    <3>2. QED  BY <2>1, <3>1 DEF ThinnedCommands
  <2>2. CASE toDev # <<>> /\ toDev' = Tail(toDev)
    <3>1. /\ Len(toDev') = Len(toDev) - 1 /\ Len(toDev) \in Nat
          /\ \A k \in 1..(Len(toDev) - 1) : k + 1 \in 1..Len(toDev) /\ toDev'[k] = toDev[k + 1]
          BY <2>2, ShorterType DEF Form
    <3>2. QED  BY <3>1 DEF ThinnedCommands
  <2>3. FewerCommands(toDev, toDev') => ThinnedCommands(toDev, toDev')
        BY DEF FewerCommands, ThinnedCommands
  <2>4. CASE toDev # <<>> /\ \E line \in Garbled(Head(toDev)) : toDev' = <<line>> \o Tail(toDev)
        BY <2>3, <2>4, GarbledFewerCommands DEF Form
  <2>5. QED  BY <2>1, <2>2, <2>4 DEF DrainLine, read, LinkFault, Disturbed, DeviceReset
<1>5. QED  BY <1>1, <1>2, <1>3, <1>4, ThinnedWire

-----------------------------------------------------------------------------
(* The firmware                                                            *)

\* The checksum flag of an answer, which is checksum_active_ from then on.
AnswerCrc == dev.crc \/ Sound(Head(toDev))

\* What ProcessLine does with a line: it refuses it, executes it, acknowledges
\* and drops it while a reply leaves, or, when its checksum was garbled away,
\* does not understand it, which it says without a checksum.
Refused(lines) ==
    /\ ~Sound(Head(toDev)) /\ (~Head(toDev).crc => dev.crc)
    /\ lines = <<Response("checksum", NoFrame, AnswerCrc)>> /\ hist' = hist
Executed(lines) ==
    /\ ReadPending
    /\ lines = <<Response("OK", NoFrame, AnswerCrc)>> \o
               (IF Head(toDev).reply THEN <<Response("rcv", Head(toDev).frame, AnswerCrc)>>
                ELSE <<>>)
    /\ hist' = IF Head(toDev).intact
               THEN [hist EXCEPT !.executed = @ \cup {Head(toDev).frame.id}]
               ELSE [hist EXCEPT !.misread = @ \cup {Head(toDev).frame.id}]
Dropped(lines) ==
    /\ ~ReadPending
    /\ lines = <<Response("OK", NoFrame, AnswerCrc)>> /\ hist' = hist
Misunderstood(lines) ==
    /\ ~Head(toDev).intact /\ ~AnswerCrc /\ hist' = hist
    /\ \/ lines = <<>>
       \/ \E error \in {"unknown", "malformed"} : lines = <<Response(error, NoFrame, FALSE)>>
Handled(lines) ==
    Refused(lines) \/ Executed(lines) \/ Dropped(lines) \/ Misunderstood(lines)

\* The line is answered behind the answers under way.
LEMMA ProcessWire ==
    ASSUME Form, ProcessLine
    PROVE  /\ Head(toDev) \in CommandLine /\ toDev # <<>> /\ Head(toDev) = toDev[1]
           /\ toDev' = Tail(toDev) /\ Len(toDev') = Len(toDev) - 1
           /\ ThinnedCommands(toDev, toDev')
           /\ UNCHANGED <<cfg, host>> /\ AnswerCrc \in BOOLEAN
           /\ \E lines \in Seq(ResponseLine) : Wire' = Wire \o lines /\ Handled(lines)
<1> DEFINE line == Head(toDev)
           crc == dev.crc \/ (line.crc /\ line.intact)
           Answer(lines) == dev' = [crc |-> crc, out |-> dev.out \o lines]
           okLine == Response("OK", NoFrame, crc)
           reply == Response("rcv", line.frame, crc)
           refusal == Response("checksum", NoFrame, crc)
           complaint(error) == Response(error, NoFrame, FALSE)
           last == IF line.reply THEN <<reply>> ELSE <<>>
           taken == IF line.intact THEN [hist EXCEPT !.executed = @ \cup {line.frame.id}]
                    ELSE [hist EXCEPT !.misread = @ \cup {line.frame.id}]
<1>1. /\ toDev # <<>> /\ toDev' = Tail(toDev) /\ UNCHANGED <<cfg, host, toHost>>
      /\ toDev \in Seq(CommandLine) /\ dev.out \in Seq(ResponseLine) /\ toHost \in Seq(ResponseLine)
      /\ dev.crc \in BOOLEAN
      BY DEF ProcessLine, Form
<1>2. /\ line \in CommandLine /\ line = toDev[1] /\ Len(toDev') = Len(toDev) - 1
      /\ Len(toDev) \in Nat
      /\ \A k \in 1..(Len(toDev) - 1) : k + 1 \in 1..Len(toDev) /\ toDev'[k] = toDev[k + 1]
      BY <1>1, ShorterType
<1>3. ThinnedCommands(toDev, toDev')
      BY <1>2 DEF ThinnedCommands
<1>4. line.crc \in BOOLEAN /\ line.intact \in BOOLEAN /\ line.reply \in BOOLEAN
      /\ line.frame \in Frame /\ NoFrame \in Frame /\ crc \in BOOLEAN /\ crc = AnswerCrc
      BY <1>1, <1>2 DEF CommandLine, NoFrame, Frame, FrameId, AnswerCrc, Sound
<1>5. /\ ~ValidateChecksum(line) => ~Sound(line) /\ (~line.crc => dev.crc)
      /\ ValidateChecksum(line) /\ ~line.intact => ~crc
      /\ line.intact => Interpretations(line) = {"command"}
      BY <1>1, <1>4 DEF ValidateChecksum, Interpretations, Sound
<1>6. \/ ~ValidateChecksum(line) /\ Answer(<<refusal>>) /\ hist' = hist
      \/ ReadPending /\ Answer(<<okLine>> \o last) /\ hist' = taken
      \/ ~ReadPending /\ Answer(<<okLine>>) /\ hist' = hist
      \/ ~line.intact /\ ~crc /\ Answer(<<>>) /\ hist' = hist
      \/ /\ ~line.intact /\ ~crc /\ hist' = hist
         /\ \E error \in {"unknown", "malformed"} : Answer(<<complaint(error)>>)
  <2> HIDE DEF ValidateChecksum, ReadPending
  <2>1. CASE ~ValidateChecksum(line)
        BY <2>1 DEF ProcessLine
  <2>2. CASE ValidateChecksum(line) /\ line.intact
    <3>1. Interpretations(line) \cap ErrorKind = {} /\ "foreign" \notin Interpretations(line)
          BY <1>5, <2>2 DEF ErrorKind
    <3>2. IF ReadPending THEN Answer(<<okLine>> \o last) /\ hist' = taken
          ELSE Answer(<<okLine>>) /\ UNCHANGED hist
          BY <2>2, <3>1 DEF ProcessLine
    <3>3. QED  BY <3>2
  <2>3. CASE ValidateChecksum(line) /\ ~line.intact
    <3>1. ~crc
          BY <1>5, <2>3
    <3>2. crc = FALSE
          BY <1>4, <3>1
    <3>3. Interpretations(line) \cap ErrorKind = {"unknown", "malformed"}
          BY <2>3 DEF Interpretations, ErrorKind
    <3>4. \/ IF ReadPending THEN Answer(<<okLine>> \o last) /\ hist' = taken
             ELSE Answer(<<okLine>>) /\ UNCHANGED hist
          \/ (\E error \in {"unknown", "malformed"} : Answer(<<Response(error, NoFrame, crc)>>))
             /\ UNCHANGED hist
          \/ Answer(<<>>) /\ UNCHANGED hist
          BY <2>3, <3>3 DEF ProcessLine
    <3>5. QED  BY <2>3, <3>2, <3>4
  <2>4. QED  BY <2>1, <2>2, <2>3
<1>7. <<refusal>> \in Seq(ResponseLine) /\ <<okLine>> \in Seq(ResponseLine)
      /\ <<okLine>> \o last \in Seq(ResponseLine) /\ <<>> \in Seq(ResponseLine)
      /\ \A error \in {"unknown", "malformed"} : <<complaint(error)>> \in Seq(ResponseLine)
  <2>1. okLine \in ResponseLine /\ reply \in ResponseLine /\ refusal \in ResponseLine
        /\ \A error \in {"unknown", "malformed"} : complaint(error) \in ResponseLine
        BY <1>4, ResponseType DEF ErrorKind
  <2> HIDE DEF okLine, reply, refusal, complaint
  <2>2. QED  BY <2>1
<1>8. ASSUME NEW lines \in Seq(ResponseLine), Answer(lines)
      PROVE  Wire' = Wire \o lines
  <2>1. Wire' = toHost \o (dev.out \o lines)
        BY <1>1, <1>8 DEF Wire
  <2>2. \A s, t, u \in Seq(ResponseLine) : (s \o t) \o u = s \o (t \o u)
        BY ConcatAssociative, SMTT(60)
  <2>3. (toHost \o dev.out) \o lines = toHost \o (dev.out \o lines)
        BY ONLY <1>1, <1>8, <2>2
  <2>4. QED  BY <2>1, <2>3 DEF Wire
<1>9. \E lines \in Seq(ResponseLine) : Wire' = Wire \o lines /\ Handled(lines)
  <2> HIDE DEF Answer
  <2>1. CASE ~ValidateChecksum(line) /\ Answer(<<refusal>>) /\ hist' = hist
    <3>1. Handled(<<refusal>>)
          BY <1>4, <1>5, <2>1 DEF Refused, Handled
    <3> HIDE DEF refusal
    <3>2. QED  BY <1>7, <1>8, <2>1, <3>1
  <2>2. CASE ReadPending /\ Answer(<<okLine>> \o last) /\ hist' = taken
    <3>1. Handled(<<okLine>> \o last)
          BY <1>4, <2>2 DEF Executed, Handled
    <3> HIDE DEF okLine, last
    <3>2. QED  BY <1>7, <1>8, <2>2, <3>1
  <2>3. CASE ~ReadPending /\ Answer(<<okLine>>) /\ hist' = hist
    <3>1. Handled(<<okLine>>)
          BY <1>4, <2>3 DEF Dropped, Handled
    <3> HIDE DEF okLine
    <3>2. QED  BY <1>7, <1>8, <2>3, <3>1
  <2>4. CASE ~line.intact /\ ~crc /\ Answer(<<>>) /\ hist' = hist
    <3>1. Handled(<<>>)
          BY <1>4, <2>4 DEF Misunderstood, Handled
    <3>2. QED  BY <1>7, <1>8, <2>4, <3>1
  <2>5. ASSUME ~line.intact, ~crc, hist' = hist, NEW error \in {"unknown", "malformed"},
               Answer(<<complaint(error)>>)
        PROVE  \E lines \in Seq(ResponseLine) : Wire' = Wire \o lines /\ Handled(lines)
    <3>1. Handled(<<complaint(error)>>)
          BY <1>4, <2>5 DEF Misunderstood, Handled
    <3> HIDE DEF complaint
    <3>2. QED  BY <1>7, <1>8, <2>5, <3>1
  <2>6. QED  BY <1>6, <2>1, <2>2, <2>3, <2>4, <2>5
<1>10. QED  BY <1>1, <1>2, <1>3, <1>4, <1>9

-----------------------------------------------------------------------------
(* The host                                                                *)

\* What wait_for_ok makes of a line: a line that passes the checksum policy
\* with a checksum is taken for what it is.
LEMMA WaitCases ==
    ASSUME Form, wait_for_ok, NEW line, line = Head(toHost)
    PROVE  /\ host.pc = "ok" /\ toHost # <<>> /\ toHost' = Tail(toHost)
           /\ UNCHANGED <<cfg, toDev, dev>> /\ line \in ResponseLine
           /\ Accepted(line) /\ host.crc => line.crc /\ line.intact
           /\ \/ ~(Accepted(line) /\ line.intact) /\ host' = host /\ hist' = hist
              \/ /\ Accepted(line) /\ (line.intact => line.kind = "OK") /\ host' = Acked(host)
                 /\ hist' = [hist EXCEPT !.acked = @ \cup {<<host.txn, host.i>>}]
              \/ /\ Accepted(line) /\ (line.intact => line.kind = "rcv") /\ hist' = hist
                 /\ host' = [host EXCEPT !.pending = Append(@, line.frame)]
              \/ /\ Accepted(line) /\ hist' = hist
                 /\ \E error \in ErrorKind :
                       /\ line.intact => line.kind = error
                       /\ host' = Failed([host EXCEPT !.crc = @ \/ error = "checksum"],
                                         error \in {"checksum", "unknown"})
<1>1. /\ host.pc = "ok" /\ toHost # <<>> /\ toHost' = Tail(toHost) /\ UNCHANGED <<cfg, toDev, dev>>
      BY DEF wait_for_ok
<1>2. line \in ResponseLine /\ line.intact \in BOOLEAN /\ line.crc \in BOOLEAN
      /\ line.kind \in {"OK", "rcv"} \cup ErrorKind
  <2>1. line \in ResponseLine
        BY <1>1, ShorterType DEF Form
  <2>2. QED  BY <2>1 DEF ResponseLine
<1>3. Accepted(line) /\ host.crc => line.crc /\ line.intact
      BY <1>2 DEF Accepted
<1>4. line.intact => Readings(line) = {line.kind}
      BY DEF Readings
<1>5. line.intact => "unparsable" \notin Readings(line)
      BY <1>2, <1>4 DEF ErrorKind
<1>6. \A kind : line.intact /\ kind \in Readings(line) => line.kind = kind
      BY <1>4
<1>7. QED  BY <1>1, <1>2, <1>3, <1>5, <1>6 DEF wait_for_ok

\* What Acked changes: the operation is over, its next request is due, or the
\* reply is awaited.
LEMMA AckedEffect ==
    ASSUME Form, UartInv, Busy
    PROVE  /\ Acked(host).op = host.op /\ Acked(host).txn = host.txn
           /\ Acked(host).batch = host.batch /\ Acked(host).crc = host.crc
           /\ \/ /\ Acked(host).pc = "idle" /\ Acked(host).result = "ok"
                 /\ Acked(host).got = host.got
                 /\ host.op = "transaction" => ~Current(host).reply /\ host.i = Len(host.batch)
              \/ /\ Acked(host).pc = "send" /\ Acked(host).i = host.i + 1
                 /\ Acked(host).attempt = 0 /\ host.i < Len(host.batch)
                 /\ Acked(host).result = host.result /\ Acked(host).got = host.got
                 /\ Acked(host).pending = host.pending /\ ~Current(host).reply
              \/ /\ Acked(host).pc = "reply" /\ Acked(host).i = host.i
                 /\ Acked(host).attempt = host.attempt /\ Acked(host).result = host.result
                 /\ Acked(host).got = dispatch(host, Range(host.pending)).got
                 /\ Acked(host).pending = <<>> /\ Current(host).reply
<1> DEFINE h == [host EXCEPT !.flush = @ \/ host.attempt > 0]
           after == Acked(host)
<1>1. host \in HostType /\ host.i \in DOMAIN host.batch /\ host.i \in Nat
      /\ DOMAIN host.batch = 1..Len(host.batch) /\ Len(host.batch) \in Nat
      /\ host.op \in {"transaction", "write"}
      BY Emptiness DEF Form, Placed, Busy, UartInv, HostInv
<1>2. /\ h \in HostType /\ h.op = host.op /\ h.txn = host.txn /\ h.batch = host.batch
      /\ h.i = host.i /\ h.attempt = host.attempt /\ h.crc = host.crc
      /\ h.got = host.got /\ h.pending = host.pending /\ h.result = host.result
  <2>1. (host.flush \/ host.attempt > 0) \in BOOLEAN
        OBVIOUS
  <2>2. QED  BY <1>1, <2>1 DEF HostType
<1>3. /\ host.op = "write" => after = Ended(h, "ok")
      /\ host.op = "transaction" /\ Current(host).reply =>
            after = [dispatch(h, Range(host.pending)) EXCEPT !.pending = <<>>, !.pc = "reply"]
      /\ host.op = "transaction" /\ ~Current(host).reply => after = Advance(h)
      BY DEF Acked
<1> HIDE DEF h, after
<1>4. CASE host.op = "write"
  <2>1. after = [h EXCEPT !.pc = "idle", !.result = "ok"]
        BY <1>3, <1>4 DEF Ended
  <2>2. /\ after.op = host.op /\ after.txn = host.txn /\ after.batch = host.batch
        /\ after.crc = host.crc /\ after.pc = "idle" /\ after.result = "ok" /\ after.got = host.got
        BY <1>2, <2>1 DEF HostType
  <2>3. QED  BY <1>4, <2>2 DEF after
<1>5. CASE host.op = "transaction" /\ ~Current(host).reply
  <2>1. /\ after.op = host.op /\ after.txn = host.txn /\ after.batch = host.batch
        /\ after.crc = host.crc /\ after.got = host.got /\ after.pending = host.pending
        /\ \/ /\ after.pc = "send" /\ after.i = host.i + 1 /\ after.attempt = 0
              /\ host.i < Len(host.batch) /\ after.result = host.result
           \/ after.pc = "idle" /\ ~(host.i < Len(host.batch)) /\ after.result = "ok"
    <3> DEFINE next == Advance(h)
    <3>1. /\ next.op = h.op /\ next.txn = h.txn /\ next.batch = h.batch
          /\ next.crc = h.crc /\ next.got = h.got /\ next.pending = h.pending
          /\ \/ /\ next.pc = "send" /\ next.i = h.i + 1 /\ next.attempt = 0
                /\ h.i < Len(h.batch) /\ next.result = h.result
             \/ next.pc = "idle" /\ ~(h.i < Len(h.batch)) /\ next.result = "ok"
          BY <1>1, <1>2, AdvanceEffect
    <3> HIDE DEF next
    <3>2. after = next
          BY <1>3, <1>5 DEF next
    <3>3. QED  BY <1>2, <3>1, <3>2
  <2>2. ~(host.i < Len(host.batch)) => host.i = Len(host.batch)
        BY <1>1
  <2>3. QED  BY <1>5, <2>1, <2>2 DEF after
<1>6. CASE host.op = "transaction" /\ Current(host).reply
  <2> DEFINE frames == Range(host.pending)
             u == dispatch(h, frames)
  <2>1. frames \in SUBSET Frame
        BY <1>1 DEF HostType, Range
  <2>2. u = [h EXCEPT !.got = u.got] /\ u.got = dispatch(host, frames).got
    <3>1. u = [h EXCEPT !.got = u.got]
      <4> HIDE DEF frames
      <4>1. QED  BY <1>2, <2>1, DispatchType
    <3>2. DOMAIN u.got = DOMAIN h.got /\ u \in HostType
          BY <1>2, <2>1, DispatchType
    <3>3. u.got = [j \in DOMAIN h.got |-> h.got[j] \cup {f \in frames : j \in FirstMatch(h.batch, f)}]
          BY <1>2 DEF dispatch, HostType
    <3>4. dispatch(host, frames).got =
             [j \in DOMAIN host.got |-> host.got[j] \cup {f \in frames : j \in FirstMatch(host.batch, f)}]
          BY <1>1 DEF dispatch, HostType
    <3>5. QED  BY <1>2, <3>1, <3>3, <3>4
  <2>3. after = [u EXCEPT !.pending = <<>>, !.pc = "reply"]
        BY <1>3, <1>6
  <2> HIDE DEF u
  <2>4. /\ u.op = host.op /\ u.txn = host.txn /\ u.batch = host.batch /\ u.crc = host.crc
        /\ u.i = host.i /\ u.attempt = host.attempt /\ u.result = host.result
        /\ DOMAIN u = DOMAIN h
        BY <1>2, <2>2 DEF HostType
  <2>5. DOMAIN h = {"pc", "op", "txn", "batch", "i", "attempt", "crc", "flush", "recover",
                    "pending", "got", "result"}
        BY <1>2 DEF HostType
  <2>6. /\ after.op = host.op /\ after.txn = host.txn /\ after.batch = host.batch
        /\ after.crc = host.crc /\ after.pc = "reply" /\ after.i = host.i
        /\ after.attempt = host.attempt /\ after.result = host.result
        /\ after.got = dispatch(host, frames).got /\ after.pending = <<>>
        BY <2>2, <2>3, <2>4, <2>5
  <2>7. QED  BY <1>6, <2>6 DEF after
<1>7. QED  BY <1>1, <1>4, <1>5, <1>6

\* The command of an attempt goes behind those under way.
LEMMA WriteEffect ==
    ASSUME Form, UartInv, write_frame
    PROVE  /\ UNCHANGED <<cfg, dev, toHost, hist>> /\ Wire' = Wire /\ host.pc = "send"
           /\ host' = [host EXCEPT !.pc = "ok"]
           /\ Len(toDev') = Len(toDev) + 1 /\ Len(toDev) \in Nat
           /\ \A k \in 1..Len(toDev) : toDev'[k] = toDev[k]
           /\ toDev'[Len(toDev) + 1] = [frame |-> OwnFrame, reply |-> Current(host).reply,
                                        crc |-> host.crc, intact |-> TRUE, full |-> TRUE]
<1> DEFINE line == [frame |-> OwnFrame, reply |-> Current(host).reply, crc |-> host.crc,
                    intact |-> TRUE, full |-> TRUE]
<1>1. UNCHANGED <<cfg, dev, toHost, hist>> /\ host.pc = "send" /\ Busy
      /\ host' = [host EXCEPT !.pc = "ok"]
      BY DEF write_frame, Busy
<1>2. Wire' = Wire
      BY <1>1 DEF Wire
<1>3. ~(toDev # <<>> /\ ~Last(toDev).full)
  <2>1. Last(toDev) = toDev[Len(toDev)]
        BY DEF Last
  <2>2. toDev # <<>> => Len(toDev) \in 1..Len(toDev)
        BY Emptiness
  <2>3. QED  BY <1>1, <2>1, <2>2 DEF UartInv, HalfInv
<1>4. toDev' = Append(toDev, line)
      BY <1>3 DEF write_frame, Sent, OwnFrame
<1>5. line \in CommandLine
  <2>1. host.i \in Nat /\ host.txn \in Nat /\ host.batch \in Seq(RequestType) /\ host.crc \in BOOLEAN
        /\ host.i \in DOMAIN host.batch
        BY <1>1, Emptiness DEF Form, HostType, Placed
  <2>2. Current(host) \in RequestType
        BY <2>1 DEF Current
  <2>3. OwnFrame \in Frame
        BY <2>1, <2>2 DEF OwnFrame, Frame, FrameId, RequestType
  <2>4. QED  BY <2>1, <2>2, <2>3 DEF CommandLine, RequestType
<1> HIDE DEF line
<1>6. /\ Len(toDev') = Len(toDev) + 1 /\ Len(toDev) \in Nat
      /\ \A k \in 1..Len(toDev) : toDev'[k] = toDev[k]
      /\ toDev'[Len(toDev) + 1] = line
      BY <1>4, <1>5, ExtendedType, SMTT(60) DEF Form
<1>7. QED  BY <1>1, <1>2, <1>6 DEF line

-----------------------------------------------------------------------------
(* What was acknowledged was executed                                      *)

\* Nothing lost, nothing thinned.
LEMMA ThinnedSame ==
    ASSUME Form
    PROVE  Thinned(Wire, Wire) /\ ThinnedCommands(toDev, toDev)
<1>1. /\ \A k \in 1..Len(Wire) : k + 0 \in 1..Len(Wire) /\ k + 0 = k
      /\ Len(toDev) = Len(toDev) - 0
      /\ \A k \in 1..Len(toDev) : k + 0 \in 1..Len(toDev) /\ k + 0 = k
      BY WireType, Emptiness
<1>2. QED  BY <1>1 DEF Thinned, ThinnedCommands

\* An operation goes on, or ends, with no new line under way.
LEMMA ExecLess ==
    ASSUME ExecInv, Thinned(Wire, Wire'), ThinnedCommands(toDev, toDev'),
           Taken \subseteq Taken', hist'.acked \subseteq Taken',
           host'.crc, host'.pc # "idle" => Len(host'.batch) = 1,
           Busy' => Busy /\ host'.txn = host.txn
    PROVE  ExecInv'
<1>1. PICK d \in {0, 1} :
         \A k \in 1..Len(Wire') : k + d \in 1..Len(Wire) /\ Wire'[k].kind = Wire[k + d].kind
      BY DEF Thinned
<1>2. PICK c \in {0, 1} :
         \A k \in 1..Len(toDev') : k + c \in 1..Len(toDev) /\ toDev'[k].frame = toDev[k + c].frame
      BY DEF ThinnedCommands
<1>3. ASSUME Busy'
      PROVE  /\ \A k \in 1..Len(toDev') : toDev'[k].frame.id = <<host'.txn, 1>>
             /\ \A k \in 1..Len(Wire') :
                   Wire'[k].kind \in {"OK", "rcv"} => <<host'.txn, 1>> \in Taken'
      BY <1>1, <1>2, <1>3 DEF ExecInv
<1>4. QED  BY <1>3 DEF ExecInv

\* An operation starts to send with nothing under way.
LEMMA ExecStart ==
    ASSUME Form', host'.crc, host'.pc # "idle" => Len(host'.batch) = 1,
           hist'.acked \subseteq Taken', Quiet' \/ ~Busy'
    PROVE  ExecInv'
<1>1. Quiet' => Len(toDev') = 0 /\ Len(Wire') = 0
  <2>1. toHost' = <<>> /\ dev'.out = <<>> => Wire' = <<>>
        BY ConcatEmptySeq DEF Wire
  <2>2. Len(<<>>) = 0
        OBVIOUS
  <2>3. QED  BY <2>1, <2>2 DEF Quiet
<1>2. QED  BY <1>1 DEF ExecInv

\* The history keeps its type, and no step forgets an execution.
LEMMA HistNext ==
    ASSUME Form, HistForm, [Next]_vars
    PROVE  /\ HistForm' /\ Taken \subseteq Taken'
           /\ \/ hist'.acked = hist.acked
              \/ wait_for_ok /\ hist'.acked = hist.acked \cup {<<host.txn, host.i>>}
<1>1. CASE hist' = hist
      BY <1>1 DEF HistForm, Taken
<1>2. CASE Begin
  <2>1. hist' = [hist EXCEPT !.spent = 0]
        BY <1>2 DEF Begin
  <2>2. QED  BY <2>1 DEF HistForm, Taken
<1>3. CASE wait_for_ok /\ hist' # hist
  <2> DEFINE acked == hist.acked \cup {<<host.txn, host.i>>}
  <2>1. hist' = [hist EXCEPT !.acked = acked]
        BY <1>3 DEF wait_for_ok
  <2>2. acked \in SUBSET FrameId
        BY Emptiness DEF HistForm, FrameId
  <2> HIDE DEF acked
  <2>3. HistForm' /\ hist'.acked = acked /\ Taken' = Taken
        BY <2>1, <2>2 DEF HistForm, Taken
  <2>4. QED  BY <1>3, <2>3 DEF acked
<1>4. CASE ProcessLine /\ hist' # hist
  <2> DEFINE id == Head(toDev).frame.id
             executed == hist.executed \cup {id}
             misread == hist.misread \cup {id}
  <2>1. hist' = [hist EXCEPT !.executed = executed] \/ hist' = [hist EXCEPT !.misread = misread]
        BY <1>4 DEF ProcessLine
  <2>2. id \in FrameId
    <3>1. Head(toDev) \in CommandLine
          BY <1>4, ShorterType DEF ProcessLine, Form
    <3>2. QED  BY <3>1 DEF CommandLine, Frame
  <2> HIDE DEF id
  <2>3. executed \in SUBSET FrameId /\ misread \in SUBSET FrameId
        /\ hist.executed \subseteq executed /\ hist.misread \subseteq misread
        BY <2>2 DEF HistForm
  <2> HIDE DEF executed, misread
  <2>4. QED  BY <2>1, <2>3 DEF HistForm, Taken
<1>5. CASE LinkFault \/ DeviceReset
  <2> DEFINE faults == hist.faults + 1
             spent == hist.spent + 1
  <2>1. hist' = [hist EXCEPT !.faults = faults, !.spent = spent]
        BY <1>5 DEF LinkFault, DeviceReset, Fault
  <2>2. faults \in Nat /\ spent \in Nat
        BY DEF HistForm
  <2> HIDE DEF faults, spent
  <2>3. QED  BY <2>1, <2>2 DEF HistForm, Taken
<1>6. QED
  <2>1. \/ hist' = hist \/ Begin \/ wait_for_ok \/ ProcessLine \/ LinkFault \/ DeviceReset
        BY DEF Next, HostStep, vars, DrainLine, DrainEnd, write_frame, OkTimeout, receive_reply,
               ReplyDone, ReplyTimeout, read, Cancel, Poll
  <2>2. QED  BY <1>1, <1>2, <1>3, <1>4, <1>5, <2>1

\* The firmware takes what it acknowledges, or is sending the reply of an
\* earlier attempt.
LEMMA ExecProcess ==
    ASSUME Form, UartInv, HistForm, ExecInv, ProcessLine
    PROVE  ExecInv'
<1>1. UNCHANGED <<cfg, host>> /\ toDev # <<>> /\ toDev' = Tail(toDev) /\ toDev \in Seq(CommandLine)
      BY DEF ProcessLine, Form
<1>2. /\ Head(toDev) = toDev[1] /\ 1 \in 1..Len(toDev) /\ Len(toDev) \in Nat
      /\ Len(toDev') = Len(toDev) - 1
      /\ \A k \in 1..Len(toDev') : k + 1 \in 1..Len(toDev) /\ toDev'[k] = toDev[k + 1]
      BY <1>1, ShorterType
<1>3. Taken \subseteq Taken' /\ hist'.acked \subseteq Taken'
  <2>1. hist'.acked = hist.acked
        BY DEF ProcessLine, HistForm
  <2>2. Taken \subseteq Taken'
        BY HistNext DEF Next
  <2>3. QED  BY <2>1, <2>2 DEF ExecInv
<1>4. CASE ~Busy
      BY <1>1, <1>3, <1>4 DEF ExecInv, Busy
<1>5. CASE Busy
  <2>1. Head(toDev).frame.id = <<host.txn, 1>>
        BY <1>2, <1>5 DEF ExecInv
  <2>2. PICK lines \in Seq(ResponseLine) : Wire' = Wire \o lines /\ Handled(lines)
        BY ProcessWire
  <2>3. /\ Len(Wire') = Len(Wire) + Len(lines) /\ Len(Wire) \in Nat /\ Len(lines) \in Nat
        /\ \A k \in 1..Len(Wire) : Wire'[k] = Wire[k]
        /\ \A k \in 1..Len(lines) : Wire'[Len(Wire) + k] = lines[k]
        BY <2>2, WireType, ConcatType
  <2>4. \A k \in 1..Len(lines) : lines[k].kind \in {"OK", "rcv"} => <<host.txn, 1>> \in Taken'
    <3>1. CASE Refused(lines)
      <4>1. Len(lines) = 1 /\ lines[1] = Response("checksum", NoFrame, AnswerCrc)
            BY <3>1 DEF Refused
      <4>2. lines[1].kind = "checksum"
            BY <4>1 DEF Response
      <4>3. \A k \in 1..Len(lines) : k = 1
            BY <4>1
      <4>4. QED  BY <4>2, <4>3
    <3>2. CASE Executed(lines)
      <4>1. Head(toDev).frame.id \in hist'.executed \/ Head(toDev).frame.id \in hist'.misread
            BY <3>2 DEF Executed, HistForm
      <4>2. QED  BY <2>1, <4>1 DEF Taken
    <3>3. CASE Dropped(lines)
      <4>1. PICK k \in DOMAIN dev.out : dev.out[k].kind = "rcv"
            BY <3>3 DEF Dropped, ReadPending
      <4>2. dev.out \in Seq(ResponseLine)
            BY DEF Form
      <4>3. k \in 1..Len(dev.out) /\ Len(toHost) \in Nat /\ Len(dev.out) \in Nat
            BY <4>2, Emptiness
      <4>4. Len(toHost) + k \in 1..Len(Wire) /\ Wire[Len(toHost) + k] = dev.out[k]
            BY <4>3, WireType
      <4>5. <<host.txn, 1>> \in Taken
            BY <1>5, <4>1, <4>4 DEF ExecInv
      <4>6. QED  BY <1>3, <4>5
    <3>4. CASE Misunderstood(lines)
      <4>1. Len(lines) = 0 \/ (Len(lines) = 1 /\ lines[1].kind \in {"unknown", "malformed"})
            BY <3>4 DEF Misunderstood, Response
      <4>2. \A k \in 1..Len(lines) : k = 1 /\ lines[k].kind \in {"unknown", "malformed"}
            BY <4>1, SMTT(60)
      <4>3. QED  BY <4>2
    <3>5. QED  BY <2>2, <3>1, <3>2, <3>3, <3>4 DEF Handled
  <2>5. ASSUME NEW k \in 1..Len(Wire'), Wire'[k].kind \in {"OK", "rcv"}
        PROVE  <<host.txn, 1>> \in Taken'
    <3>1. CASE k \in 1..Len(Wire)
          BY <1>3, <1>5, <2>3, <2>5, <3>1 DEF ExecInv
    <3>2. CASE k \notin 1..Len(Wire)
      <4>1. k - Len(Wire) \in 1..Len(lines) /\ Len(Wire) + (k - Len(Wire)) = k
            BY <2>3, <3>2
      <4>2. QED  BY <2>3, <2>4, <2>5, <4>1
    <3>3. QED  BY <3>1, <3>2
  <2>6. \A k \in 1..Len(toDev') : toDev'[k].frame.id = <<host.txn, 1>>
        BY <1>2, <1>5 DEF ExecInv
  <2>7. QED  BY <1>1, <1>3, <2>5, <2>6 DEF ExecInv, Busy
<1>6. QED  BY <1>4, <1>5

\* A line read while an OK is awaited: an accepted OK speaks for its request.
LEMMA ExecWait ==
    ASSUME Form, UartInv, HistForm, ExecInv, wait_for_ok
    PROVE  ExecInv'
<1> DEFINE line == Head(toHost)
<1>1. host.pc = "ok" /\ Busy /\ toHost # <<>> /\ toHost' = Tail(toHost) /\ UNCHANGED <<cfg, toDev, dev>>
      BY WaitCases DEF Busy
<1>2. /\ line = Wire[1] /\ Len(Wire') = Len(Wire) - 1 /\ Len(Wire) \in Nat \ {0}
      /\ \A k \in 1..(Len(Wire) - 1) : Wire'[k] = Wire[k + 1]
      BY <1>1, TakeWire
<1>3. Thinned(Wire, Wire') /\ ThinnedCommands(toDev, toDev')
      BY <1>1, <1>2, TailThinned, ThinnedSame
<1>4. host.crc /\ Len(host.batch) = 1 /\ host.i = 1 /\ hist.acked \subseteq Taken
      /\ host \in HostType
  <2>1. Len(host.batch) = 1
        BY <1>1 DEF ExecInv
  <2>2. host.i \in 1..Len(host.batch)
        BY <1>1, Emptiness DEF Form, Placed
  <2>3. QED  BY <2>1, <2>2 DEF ExecInv, Form
<1>5. line.kind = "OK" => <<host.txn, host.i>> \in Taken
  <2>1. 1 \in 1..Len(Wire)
        BY <1>2
  <2>2. QED  BY <1>1, <1>2, <1>4, <2>1 DEF ExecInv
<1>6. /\ Accepted(line) /\ host.crc => line.crc /\ line.intact
      /\ \/ ~(Accepted(line) /\ line.intact) /\ host' = host /\ hist' = hist
         \/ /\ Accepted(line) /\ (line.intact => line.kind = "OK") /\ host' = Acked(host)
            /\ hist' = [hist EXCEPT !.acked = @ \cup {<<host.txn, host.i>>}]
         \/ /\ Accepted(line) /\ (line.intact => line.kind = "rcv") /\ hist' = hist
            /\ host' = [host EXCEPT !.pending = Append(@, line.frame)]
         \/ /\ Accepted(line) /\ hist' = hist
            /\ \E error \in ErrorKind :
                  /\ line.intact => line.kind = error
                  /\ host' = Failed([host EXCEPT !.crc = @ \/ error = "checksum"],
                                    error \in {"checksum", "unknown"})
      BY WaitCases
<1> HIDE DEF line
<1>0. hist' = hist => Taken' = Taken
      BY DEF Taken
<1>7. CASE host' = host /\ hist' = hist
      BY <1>0, <1>1, <1>3, <1>4, <1>7, ExecLess DEF Busy
<1>8. CASE /\ Accepted(line) /\ (line.intact => line.kind = "OK") /\ host' = Acked(host)
           /\ hist' = [hist EXCEPT !.acked = @ \cup {<<host.txn, host.i>>}]
  <2>1. hist'.acked = hist.acked \cup {<<host.txn, host.i>>} /\ Taken' = Taken
        BY <1>8 DEF HistForm, Taken
  <2>2. hist'.acked \subseteq Taken'
        BY <1>4, <1>5, <1>6, <1>8, <2>1
  <2>3. host'.crc = host.crc /\ host'.batch = host.batch /\ host'.txn = host.txn
        BY <1>1, <1>8, AckedEffect
  <2>4. QED  BY <1>1, <1>3, <1>4, <2>1, <2>2, <2>3, ExecLess
<1>9. CASE hist' = hist /\ host' = [host EXCEPT !.pending = Append(@, line.frame)]
  <2>1. host'.crc = host.crc /\ host'.batch = host.batch /\ host'.txn = host.txn
        BY <1>4, <1>9 DEF HostType
  <2>2. QED  BY <1>0, <1>1, <1>3, <1>4, <1>9, <2>1, ExecLess
<1>10. ASSUME NEW error \in ErrorKind, hist' = hist,
              host' = Failed([host EXCEPT !.crc = @ \/ error = "checksum"],
                             error \in {"checksum", "unknown"})
       PROVE  ExecInv'
  <2> DEFINE h == [host EXCEPT !.crc = @ \/ error = "checksum"]
             r == error \in {"checksum", "unknown"}
  <2>1. h \in HostType /\ h.txn = host.txn /\ h.batch = host.batch /\ h.crc /\ r \in BOOLEAN
    <3>1. (host.crc \/ error = "checksum") = TRUE
          BY <1>4
    <3>2. QED  BY <1>4, <3>1 DEF HostType
  <2>2. host' = Failed(h, r)
        BY <1>10
  <2> HIDE DEF h, r
  <2>3. host'.crc /\ host'.batch = host.batch /\ host'.txn = host.txn
        BY <2>1, <2>2, FailedEffect
  <2>4. QED  BY <1>0, <1>1, <1>3, <1>4, <1>10, <2>3, ExecLess
<1>11. QED  BY <1>6, <1>7, <1>8, <1>9, <1>10

\* A drain ends with nothing under way.
LEMMA DrainQuiet ==
    ASSUME Form, UartInv, DrainEnd
    PROVE  /\ host.pc = "drain" /\ UNCHANGED <<cfg, toDev, dev, toHost, hist>>
           /\ host'.crc = host.crc /\ host'.batch = host.batch /\ host'.txn = host.txn
           /\ host'.i = host.i /\ host'.attempt = host.attempt /\ host'.op = host.op
           /\ host'.pending = <<>> /\ host'.got = host.got
           /\ \A j \in DOMAIN host.got : host.got[j] = {}
           /\ \/ host'.pc = "idle" /\ host'.result = "ok" /\ host.op = "flush"
              \/ host'.pc = "send" /\ host'.result = host.result /\ Quiet
<1>1. /\ host.pc = "drain" /\ toHost = <<>> /\ dev.out = <<>> /\ host \in HostType
      /\ UNCHANGED <<cfg, toDev, dev, toHost, hist>> /\ ~Busy
      BY DEF DrainEnd, Form, Busy
<1>2. /\ host'.crc = host.crc /\ host'.batch = host.batch /\ host'.txn = host.txn
      /\ host'.i = host.i /\ host'.attempt = host.attempt /\ host'.op = host.op
      /\ host'.pending = host.pending /\ host'.got = host.got
      /\ \/ host'.pc = "idle" /\ host'.result = "ok" /\ host.op = "flush"
         \/ host'.pc = "send" /\ host'.result = host.result /\ host.op # "flush"
      BY <1>1 DEF DrainEnd, Ended, Started, HostType
<1>3. host.pending = <<>> /\ \A j \in DOMAIN host.got : host.got[j] = {}
      BY <1>1 DEF UartInv, RestInv
<1>4. host.op # "flush" => toDev = <<>>
  <2>1. \A k \in 1..Len(toDev) : ~toDev[k].full
        BY Emptiness DEF DrainEnd, Form
  <2>2. \A n \in Nat : n # 0 => 1 \in 1..n
        OBVIOUS
  <2>3. QED  BY <1>1, <2>1, <2>2, Emptiness DEF UartInv, HalfInv
<1>5. QED  BY <1>1, <1>2, <1>3, <1>4 DEF Quiet

\* The host's other steps: a new operation begins with nothing under way, and
\* a running one puts its own commands on the wire.
LEMMA ExecHost ==
    ASSUME Form, UartInv, Sequential, HistForm, ExecInv, OneRequest,
           \/ Begin \/ DrainEnd \/ write_frame \/ OkTimeout \/ receive_reply
           \/ ReplyDone \/ ReplyTimeout \/ Cancel
    PROVE  ExecInv'
<1>1. Form' /\ UartInv' /\ host \in HostType /\ HistForm'
      BY FormNext, HistNext, BeginInv, DrainEndInv, WriteInv, OkTimeoutInv, ReceiveInv, ReplyEndInv,
         CancelInv DEF Next, HostStep, Form
<1>2. /\ hist'.acked = hist.acked /\ Taken' = Taken /\ host.crc
      /\ hist'.acked \subseteq Taken'
  <2>1. hist' = hist \/ hist' = [hist EXCEPT !.spent = 0]
        BY DEF Begin, DrainEnd, write_frame, OkTimeout, receive_reply, ReplyDone, ReplyTimeout, Cancel
  <2>2. QED  BY <2>1 DEF HistForm, ExecInv, Taken
<1>3. CASE Begin
  <2>1. /\ host.pc = "idle" /\ UNCHANGED <<cfg, dev, toHost>> /\ host'.crc = host.crc
        /\ host'.batch \in cfg.batches \/ Len(host'.batch) = 1
        /\ \/ host'.pc = "drain"
           \/ ~host.flush /\ ~host.recover /\ host'.pc = "send" /\ toDev' = toDev
        BY <1>3, BeginEffect
  <2>2. Len(host'.batch) = 1
        BY <2>1 DEF OneRequest
  <2>3. Quiet' \/ ~Busy'
        BY <2>1 DEF UartInv, RestInv, Quiet, Busy
  <2>4. QED  BY <1>1, <1>2, <2>1, <2>2, <2>3, ExecStart
<1>4. CASE DrainEnd
  <2>1. host'.crc = host.crc /\ host'.batch = host.batch /\ host.pc = "drain"
        BY <1>4, DrainQuiet
  <2>2. Quiet' \/ ~Busy'
        BY <1>4, DrainQuiet DEF Quiet, Busy
  <2>3. QED  BY <1>1, <1>2, <2>1, <2>2, ExecStart DEF ExecInv
<1>5. CASE write_frame
  <2>1. /\ host.pc = "send" /\ host' = [host EXCEPT !.pc = "ok"] /\ Wire' = Wire
        /\ Len(toDev') = Len(toDev) + 1 /\ Len(toDev) \in Nat
        /\ \A k \in 1..Len(toDev) : toDev'[k] = toDev[k]
        /\ toDev'[Len(toDev) + 1] = [frame |-> OwnFrame, reply |-> Current(host).reply,
                                     crc |-> host.crc, intact |-> TRUE, full |-> TRUE]
        BY <1>5, WriteEffect
  <2>2. host'.crc = host.crc /\ host'.batch = host.batch /\ host'.txn = host.txn /\ host'.pc = "ok"
        BY <1>1, <2>1 DEF HostType
  <2>3. host.i = 1 /\ Busy
    <3>1. Len(host.batch) = 1 /\ host.i \in DOMAIN host.batch /\ host.batch \in Seq(RequestType)
          BY <1>1, <2>1 DEF ExecInv, Form, Placed, HostType
    <3>2. QED  BY <2>1, <3>1 DEF Busy
  <2>4. toDev'[Len(toDev) + 1].frame.id = <<host.txn, 1>>
        BY <1>2, <2>1, <2>3 DEF OwnFrame
  <2>5. \A k \in 1..Len(toDev') : k \in 1..Len(toDev) \/ k = Len(toDev) + 1
        BY <2>1
  <2>6. \A k \in 1..Len(toDev') : toDev'[k].frame.id = <<host.txn, 1>>
        BY <2>1, <2>3, <2>4, <2>5 DEF ExecInv
  <2>7. QED  BY <1>2, <2>1, <2>2, <2>3, <2>6 DEF ExecInv
<1>6. CASE OkTimeout \/ ReplyDone \/ ReplyTimeout
  <2>1. Busy /\ UNCHANGED <<toDev, dev, toHost>> /\ host.i \in DOMAIN host.batch
        BY <1>6 DEF OkTimeout, ReplyDone, ReplyTimeout, Busy, Form, Placed
  <2>2. host'.crc = host.crc /\ host'.batch = host.batch /\ host'.txn = host.txn
    <3>1. CASE OkTimeout
          BY <1>1, <3>1, FailedEffect DEF OkTimeout
    <3>2. CASE ReplyDone
          BY <1>1, <2>1, <3>2, AdvanceEffect DEF ReplyDone
    <3>3. CASE ReplyTimeout
      <4> DEFINE h == [host EXCEPT !.flush = TRUE]
      <4>1. /\ h \in HostType /\ h.crc = host.crc /\ h.batch = host.batch /\ h.txn = host.txn
            /\ h.i = host.i /\ host' = Advance(h)
            BY <1>1, <3>3 DEF ReplyTimeout, HostType
      <4> HIDE DEF h
      <4>2. QED  BY <2>1, <4>1, AdvanceEffect
    <3>4. QED  BY <1>6, <3>1, <3>2, <3>3
  <2>3. Wire' = Wire
        BY <2>1 DEF Wire
  <2>4. Thinned(Wire, Wire') /\ ThinnedCommands(toDev, toDev')
        BY <2>1, <2>3, ThinnedSame
  <2>5. Len(host'.batch) = 1
        BY <2>1, <2>2 DEF ExecInv, Busy
  <2>6. QED  BY <1>2, <2>1, <2>2, <2>4, <2>5, ExecLess
<1>7. CASE receive_reply
  <2>1. /\ host.pc = "reply" /\ toHost # <<>> /\ toHost' = Tail(toHost)
        /\ UNCHANGED <<cfg, toDev, dev>>
        BY <1>7 DEF receive_reply
  <2>2. host'.crc = host.crc /\ host'.batch = host.batch /\ host'.txn = host.txn
    <3>1. CASE host' = host
          BY <3>1
    <3>2. CASE host' = dispatch(host, {Head(toHost).frame})
          BY <1>1, <3>2 DEF dispatch, HostType
    <3>3. QED  BY <1>7, <3>1, <3>2 DEF receive_reply
  <2>3. Thinned(Wire, Wire') /\ ThinnedCommands(toDev, toDev')
        BY <2>1, TakeWire, TailThinned, ThinnedSame
  <2>4. Busy /\ Len(host'.batch) = 1
        BY <2>1, <2>2 DEF ExecInv, Busy
  <2>5. QED  BY <1>2, <2>2, <2>3, <2>4, ExecLess
<1>8. CASE Cancel
  <2>1. host'.crc = host.crc /\ host'.pc = "idle"
        BY <1>1, <1>8 DEF Cancel, HostType
  <2>2. QED  BY <1>1, <1>2, <2>1, ExecStart DEF Busy
<1>9. QED  BY <1>3, <1>4, <1>5, <1>6, <1>7, <1>8

\* Lines that move, get lost or garbled, and discarded ones.
LEMMA ExecLink ==
    ASSUME Form, HistForm, ExecInv, Poll \/ DrainLine \/ read \/ LinkFault \/ DeviceReset \/ UNCHANGED vars
    PROVE  ExecInv'
<1>1. Thinned(Wire, Wire') /\ ThinnedCommands(toDev, toDev')
  <2>1. CASE DrainLine \/ read \/ LinkFault \/ DeviceReset
        BY <2>1, LostLines
  <2>2. CASE Poll
    <3>1. Wire' = Wire /\ toDev' = toDev
          BY <2>2, PollWire DEF Poll
    <3>2. QED  BY <3>1, ThinnedSame
  <2>3. CASE UNCHANGED vars
    <3>1. Wire' = Wire /\ toDev' = toDev
          BY <2>3 DEF vars, Wire
    <3>2. QED  BY <3>1, ThinnedSame
  <2>4. QED  BY <2>1, <2>2, <2>3
<1>2. host'.crc = host.crc /\ host'.batch = host.batch /\ host'.txn = host.txn /\ host'.pc = host.pc
      BY DEF Poll, DrainLine, read, LinkFault, DeviceReset, Fault, vars, Form, HostType
<1>3. hist'.acked = hist.acked /\ Taken' = Taken
      BY DEF Poll, DrainLine, read, LinkFault, DeviceReset, Fault, vars, HistForm, Taken
<1>4. hist'.acked \subseteq Taken' /\ Taken \subseteq Taken'
      BY <1>3 DEF ExecInv
<1>5. host'.crc /\ (host'.pc # "idle" => Len(host'.batch) = 1) /\ (Busy' => Busy /\ host'.txn = host.txn)
      BY <1>2 DEF ExecInv, Busy
<1>6. QED  BY <1>1, <1>4, <1>5, ExecLess

\* Every step keeps the invariant.
LEMMA ExecNext ==
    ASSUME Form, UartInv, Sequential, HistForm, ExecInv, OneRequest, [Next]_vars
    PROVE  ExecInv'
BY ExecHost, ExecLink, ExecWait, ExecProcess DEF Next, HostStep

-----------------------------------------------------------------------------
(* An error means more faults than retries                                 *)

\* With answers in time, the link changes what is under way by a fault alone.
LEMMA RetryLink ==
    ASSUME Form, HistForm, RetryInv, Poll \/ DrainLine \/ read \/ LinkFault \/ DeviceReset \/ UNCHANGED vars
    PROVE  RetryInv'
<1>1. host'.crc = host.crc /\ host'.attempt = host.attempt /\ host'.result = host.result
      /\ host'.pc = host.pc /\ cfg' = cfg
      BY DEF Poll, DrainLine, read, LinkFault, DeviceReset, Fault, vars, Form, HostType
<1>2. hist.spent \in Nat /\ host.attempt \in Nat /\ cfg.retries \in Nat
      BY Emptiness, ScenarioForm DEF HistForm, Form
<1>3. CASE LinkFault \/ DeviceReset
  <2>1. hist'.spent = hist.spent + 1
        BY <1>3 DEF LinkFault, DeviceReset, Fault, HistForm
  <2>2. Thinned(Wire, Wire') /\ ThinnedCommands(toDev, toDev')
        BY <1>3, LostLines
  <2>3. OnlyReplies(Wire) => OnlyReplies(Wire') /\ OneOther(Wire')
    <3>1. OnlyReplies(Wire) => OnlyReplies(Wire')
          BY <2>2, ThinnedKeeps
    <3>2. OnlyReplies(Wire') => OneOther(Wire')
          BY DEF OnlyReplies, OneOther
    <3>3. QED  BY <3>1, <3>2
  <2>4. OneOther(Wire) => OneOther(Wire')
        BY <2>2, ThinnedKeeps
  <2>5. PICK d \in {0, 1} :
          /\ Len(toDev') = Len(toDev) - d
          /\ \A k \in 1..Len(toDev') : k + d \in 1..Len(toDev)
        BY <2>2 DEF ThinnedCommands
  <2>6. Len(toDev') \in Nat /\ (toDev' = <<>> <=> Len(toDev') = 0)
    <3>1. Form'
          BY <1>3, FaultForm
    <3>2. \A S : \A s \in Seq(S) : Len(s) \in Nat /\ (s = <<>> <=> Len(s) = 0)
          OBVIOUS
    <3>3. QED  BY <3>1, <3>2 DEF Form
  <2>7. toDev = <<>> => toDev' = <<>>
        BY <2>5, <2>6, Emptiness
  <2>8. Len(toDev) = 1 => toDev' = <<>> \/ Len(toDev') = 1
        BY <2>5, <2>6
  <2>9. host.pc # "idle" => hist'.spent > host.attempt
        BY <1>2, <2>1 DEF RetryInv
  <2>10. host.pc = "ok" => Asked' \/ Answered'
    <3> SUFFICES ASSUME host.pc = "ok" PROVE Asked' \/ Answered'
        OBVIOUS
    <3>1. hist'.spent # host'.attempt
          BY <1>1, <1>2, <2>1, <2>9
    <3>2. Asked \/ Answered
          BY DEF RetryInv
    <3>3. CASE Asked
          BY <2>3, <2>8, <3>1, <3>3 DEF Asked, Answered
    <3>4. CASE Answered
          BY <2>4, <2>7, <3>1, <3>4 DEF Answered
    <3>5. QED  BY <3>2, <3>3, <3>4
  <2>11. host.result = "err" => hist'.spent > cfg.retries
         BY <1>2, <2>1 DEF RetryInv
  <2>12. host.pc # "idle" => hist'.spent >= host.attempt
         BY <1>2, <2>1, <2>9
  <2>13. QED  BY <1>1, <2>3, <2>7, <2>10, <2>11, <2>12 DEF RetryInv
<1>4. CASE Poll \/ UNCHANGED vars
  <2>1. Wire' = Wire /\ toDev' = toDev /\ hist' = hist
        BY <1>4, PollWire DEF Poll, vars, Wire
  <2>2. QED  BY <1>1, <2>1 DEF RetryInv, Asked, Answered
<1>5. CASE DrainLine \/ read
  <2>1. hist' = hist /\ host.pc \in {"idle", "drain"}
        BY <1>5 DEF DrainLine, read
  <2>2. QED  BY <1>1, <2>1 DEF RetryInv
<1>6. QED  BY <1>3, <1>4, <1>5

\* The firmware answers an intact command with an intact OK.
LEMMA RetryProcess ==
    ASSUME Form, HistForm, RetryInv, ProcessLine
    PROVE  RetryInv'
<1>1. UNCHANGED <<cfg, host>> /\ toDev # <<>> /\ hist'.spent = hist.spent
      BY DEF ProcessLine, HistForm
<1>2. CASE host.pc \in {"idle", "drain"}
      BY <1>1, <1>2 DEF RetryInv
<1>3. CASE host.pc \notin {"idle", "drain"}
  <2>1. host.pc = "ok" /\ Asked
        BY <1>1, <1>3 DEF RetryInv, Answered, Form, HostType
  <2>2. hist.spent = host.attempt => Sound(Head(toDev))
    <3>1. Head(toDev) = toDev[1]
          BY <1>1, ShorterType DEF Form
    <3>2. QED  BY <2>1, <3>1 DEF Asked
  <2>3. /\ Len(toDev') = Len(toDev) - 1
        /\ \E lines \in Seq(ResponseLine) : Wire' = Wire \o lines /\ Handled(lines)
        BY ProcessWire
  <2>4. PICK lines \in Seq(ResponseLine) : Wire' = Wire \o lines /\ Handled(lines)
        BY <2>3
  <2>5. toDev' = <<>>
    <3>1. Form'
          BY ProcessForm
    <3>2. \A S : \A s \in Seq(S) : Len(s) = 0 => s = <<>>
          OBVIOUS
    <3>3. QED  BY <2>1, <2>3, <3>1, <3>2 DEF Asked, Form
  <2>6. /\ Len(Wire') = Len(Wire) + Len(lines) /\ Len(Wire) \in Nat /\ Len(lines) \in Nat
        /\ \A k \in 1..Len(Wire) : Wire'[k] = Wire[k]
        /\ \A k \in 1..Len(lines) : Wire'[Len(Wire) + k] = lines[k]
        BY <2>4, WireType, ConcatType
  <2> DEFINE okLine == Response("OK", NoFrame, AnswerCrc)
             reply == Response("rcv", Head(toDev).frame, AnswerCrc)
             refusal == Response("checksum", NoFrame, AnswerCrc)
             complaint(error) == Response(error, NoFrame, FALSE)
  <2>7. /\ \A k \in 1..Len(lines) : k # 1 => lines[k].kind = "rcv"
        /\ \A k \in 1..Len(lines) : Sound(lines[k]) => lines[k].kind \in {"rcv", "OK", "checksum"}
        /\ hist.spent = host.attempt =>
              1 \in 1..Len(lines) /\ lines[1].kind = "OK" /\ Sound(lines[1])
    <3>1. /\ okLine.kind = "OK" /\ okLine.intact /\ okLine.crc = AnswerCrc
          /\ reply.kind = "rcv" /\ refusal.kind = "checksum"
          /\ \A error \in {"unknown", "malformed"} : ~Sound(complaint(error))
          BY DEF Response, Sound
    <3>2. hist.spent = host.attempt => AnswerCrc /\ Sound(okLine)
          BY <2>2, <3>1 DEF AnswerCrc, Sound
    <3>3. CASE Refused(lines)
      <4>1. lines = <<refusal>> /\ ~Sound(Head(toDev))
            BY <2>2, <3>3 DEF Refused
      <4> HIDE DEF refusal
      <4>2. Len(lines) = 1 /\ lines[1] = refusal
            BY <4>1
      <4>3. \A k \in 1..Len(lines) : k = 1
            BY <4>2
      <4>4. QED  BY <2>2, <3>1, <4>1, <4>2, <4>3
    <3>4. CASE lines = <<okLine>>
      <4> HIDE DEF okLine
      <4>1. Len(lines) = 1 /\ lines[1] = okLine
            BY <3>4
      <4>2. \A k \in 1..Len(lines) : k = 1
            BY <4>1
      <4>3. QED  BY <3>1, <3>2, <4>1, <4>2
    <3>5. CASE lines = <<okLine>> \o <<reply>>
      <4> HIDE DEF okLine, reply
      <4>1. Len(lines) = 2 /\ lines[1] = okLine /\ lines[2] = reply
            BY <3>5
      <4>2. \A k \in 1..Len(lines) : k = 1 \/ k = 2
            BY <4>1
      <4>3. QED  BY <3>1, <3>2, <4>1, <4>2
    <3>6. Executed(lines) => lines = <<okLine>> \o <<reply>> \/ lines = <<okLine>>
      <4>1. <<okLine>> \o <<>> = <<okLine>>
            BY ConcatEmptySeq
      <4>2. Executed(lines) => lines = <<okLine>> \o (IF Head(toDev).reply THEN <<reply>> ELSE <<>>)
            BY DEF Executed
      <4> HIDE DEF okLine, reply
      <4>3. QED  BY <4>1, <4>2
    <3>7. Dropped(lines) => lines = <<okLine>>
          BY DEF Dropped
    <3>8. CASE Misunderstood(lines)
      <4>1. hist.spent # host.attempt
            BY <3>2, <3>8 DEF Misunderstood
      <4>2. lines = <<>> \/ \E error \in {"unknown", "malformed"} : lines = <<complaint(error)>>
            BY <3>8 DEF Misunderstood
      <4> HIDE DEF complaint
      <4>3. Len(lines) = 0 \/ (Len(lines) = 1 /\ ~Sound(lines[1]))
            BY <3>1, <4>2
      <4>4. QED  BY <4>1, <4>3
    <3>9. QED  BY <2>4, <3>3, <3>4, <3>5, <3>6, <3>7, <3>8 DEF Handled
  <2>8. \A k \in 1..Len(Wire') :
           \/ k \in 1..Len(Wire) /\ Wire'[k].kind = "rcv"
           \/ k = Len(Wire) + 1 /\ (Sound(Wire'[k]) => Wire'[k].kind \in {"rcv", "OK", "checksum"})
           \/ Wire'[k].kind = "rcv"
    <3> TAKE k \in 1..Len(Wire')
    <3>1. CASE k \in 1..Len(Wire)
          BY <2>1, <2>6, <3>1 DEF Asked, OnlyReplies
    <3>2. CASE k \notin 1..Len(Wire)
      <4> DEFINE m == k - Len(Wire)
      <4>1. m \in 1..Len(lines) /\ Len(Wire) + m = k
            BY <2>6, <3>2
      <4> HIDE DEF m
      <4>2. QED  BY <2>6, <2>7, <4>1
    <3>3. QED  BY <3>1, <3>2
  <2>9. OneOther(Wire')
        BY <2>8 DEF OneOther
  <2>10. hist.spent = host.attempt => SoundOk(Wire')
    <3> SUFFICES ASSUME hist.spent = host.attempt PROVE SoundOk(Wire')
        OBVIOUS
    <3>1. Len(Wire) + 1 \in 1..Len(Wire') /\ Wire'[Len(Wire) + 1] = lines[1]
          BY <2>6, <2>7
    <3>2. QED  BY <2>7, <3>1 DEF SoundOk
  <2>11. Answered'
         BY <1>1, <2>5, <2>9, <2>10 DEF Answered
  <2>12. QED  BY <1>1, <2>1, <2>11 DEF RetryInv
<1>4. QED  BY <1>2, <1>3

\* A line read while an OK is awaited: an attempt the faults have not caught
\* up with does not fail.
LEMMA RetryWait ==
    ASSUME Form, UartInv, HistForm, RetryInv, wait_for_ok
    PROVE  RetryInv'
<1> DEFINE line == Head(toHost)
<1>1. /\ host.pc = "ok" /\ Busy /\ toHost # <<>> /\ toHost' = Tail(toHost)
      /\ UNCHANGED <<cfg, toDev, dev>> /\ host \in HostType /\ host.crc /\ host.result # "err"
      BY WaitCases DEF Busy, Form, RetryInv
<1>2. /\ line = Wire[1] /\ Len(Wire') = Len(Wire) - 1 /\ Len(Wire) \in Nat \ {0} /\ Wire # <<>>
      /\ \A k \in 1..(Len(Wire) - 1) : Wire'[k] = Wire[k + 1]
      /\ 1 \in 1..Len(Wire)
      BY <1>1, TakeWire
<1>3. /\ OnlyReplies(Wire) => OnlyReplies(Wire') /\ line.kind = "rcv"
      /\ OneOther(Wire) => /\ OneOther(Wire')
                           /\ Sound(line) => line.kind \in {"rcv", "OK", "checksum"}
      /\ OneOther(Wire) /\ line.kind # "rcv" => OnlyReplies(Wire')
  <2>1. Thinned(Wire, Wire')
        BY <1>2, TailThinned
  <2>2. OneOther(Wire) /\ line.kind # "rcv" => OnlyReplies(Wire')
    <3> SUFFICES ASSUME OneOther(Wire), line.kind # "rcv", NEW k \in 1..Len(Wire')
                 PROVE  Wire'[k].kind = "rcv"
        BY DEF OnlyReplies
    <3>1. k + 1 \in 1..Len(Wire) /\ Wire'[k] = Wire[k + 1] /\ k + 1 # 1
          BY <1>2
    <3>2. QED  BY <1>2, <3>1 DEF OneOther
  <2>3. QED  BY <1>2, <2>1, <2>2, ThinnedKeeps, SMTT(60) DEF OnlyReplies, OneOther
<1>4. hist'.spent = hist.spent /\ hist.spent \in Nat /\ host.attempt \in Nat /\ cfg.retries \in Nat
      /\ hist.spent >= host.attempt
      BY <1>1, Emptiness, ScenarioForm DEF wait_for_ok, HistForm, Form, RetryInv
<1>5. /\ Accepted(line) => line.crc /\ line.intact
      /\ \/ ~(Accepted(line) /\ line.intact) /\ host' = host
         \/ Accepted(line) /\ line.kind = "OK" /\ host' = Acked(host)
         \/ /\ Accepted(line) /\ line.kind = "rcv"
            /\ host' = [host EXCEPT !.pending = Append(@, line.frame)]
         \/ /\ Accepted(line)
            /\ \E error \in ErrorKind :
                  /\ line.kind = error
                  /\ host' = Failed([host EXCEPT !.crc = @ \/ error = "checksum"],
                                    error \in {"checksum", "unknown"})
      BY <1>1, WaitCases
<1>6. Accepted(line) <=> Sound(line)
  <2>1. line \in ResponseLine
        BY <1>1, TakeWire
  <2>2. QED  BY <1>5, <2>1 DEF Accepted, ResponseLine, Sound
<1> HIDE DEF line
<1>7. SoundOk(Wire) /\ ~(line.kind = "OK" /\ Accepted(line)) => SoundOk(Wire')
  <2> SUFFICES ASSUME SoundOk(Wire), ~(line.kind = "OK" /\ Accepted(line)) PROVE SoundOk(Wire')
      OBVIOUS
  <2>1. PICK k \in 1..Len(Wire) : Wire[k].kind = "OK" /\ Sound(Wire[k])
        BY DEF SoundOk
  <2>2. k # 1
        BY <1>2, <1>6, <2>1
  <2>3. k - 1 \in 1..Len(Wire') /\ k - 1 \in 1..(Len(Wire) - 1) /\ (k - 1) + 1 = k
        BY <1>2, <2>2
  <2>4. Wire'[k - 1] = Wire[k]
        BY <1>2, <2>3
  <2>5. QED  BY <2>1, <2>3, <2>4 DEF SoundOk
<1>8. ASSUME host'.pc = "ok", host'.crc = host.crc, host'.attempt = host.attempt,
             host'.result = host.result, ~(line.kind = "OK" /\ Accepted(line))
      PROVE  RetryInv'
  <2>1. Asked => Asked'
        BY <1>1, <1>3, <1>4, <1>8 DEF Asked
  <2>2. Answered => Answered'
        BY <1>1, <1>3, <1>4, <1>7, <1>8 DEF Answered
  <2>3. QED  BY <1>1, <1>4, <1>8, <2>1, <2>2 DEF RetryInv
<1>9. CASE ~(Accepted(line) /\ line.intact) /\ host' = host
      BY <1>1, <1>5, <1>8, <1>9
<1>10. CASE Accepted(line) /\ line.kind = "rcv" /\ host' = [host EXCEPT !.pending = Append(@, line.frame)]
  <2>1. /\ host'.pc = host.pc /\ host'.crc = host.crc /\ host'.attempt = host.attempt
        /\ host'.result = host.result
        BY <1>1, <1>10 DEF HostType
  <2>2. QED  BY <1>1, <1>8, <1>10, <2>1
<1>11. line.kind # "rcv" => Answered
       BY <1>1, <1>3 DEF RetryInv, Asked
<1>12. CASE Accepted(line) /\ line.kind = "OK" /\ host' = Acked(host)
  <2>1. toDev' = <<>> /\ OnlyReplies(Wire')
        BY <1>1, <1>3, <1>11, <1>12 DEF Answered
  <2>2. /\ host'.crc = host.crc
        /\ \/ host'.pc = "idle" /\ host'.result = "ok"
           \/ host'.pc = "send" /\ host'.attempt = 0 /\ host'.result = host.result
           \/ host'.pc = "reply" /\ host'.attempt = host.attempt /\ host'.result = host.result
        BY <1>1, <1>12, AckedEffect
  <2>3. QED  BY <1>1, <1>4, <2>1, <2>2 DEF RetryInv
<1>13. ASSUME Accepted(line), NEW error \in ErrorKind, line.kind = error,
              host' = Failed([host EXCEPT !.crc = @ \/ error = "checksum"],
                             error \in {"checksum", "unknown"})
       PROVE  RetryInv'
  <2>1. error = "checksum" /\ Answered
        BY <1>3, <1>6, <1>11, <1>13 DEF ErrorKind, Answered
  <2>2. toDev' = <<>> /\ OnlyReplies(Wire')
        BY <1>1, <1>3, <1>13, <2>1 DEF Answered
  <2>3. hist.spent > host.attempt
    <3> SUFFICES ASSUME hist.spent = host.attempt PROVE FALSE
        BY <1>4
    <3>1. PICK k \in 1..Len(Wire) : Wire[k].kind = "OK"
          BY <2>1 DEF Answered, SoundOk
    <3>2. k = 1
          BY <1>2, <1>13, <2>1, <3>1 DEF Answered, OneOther
    <3>3. QED  BY <1>2, <1>13, <2>1, <3>1, <3>2
  <2> DEFINE h == [host EXCEPT !.crc = @ \/ error = "checksum"]
             after == Failed(h, TRUE)
  <2>4. h \in HostType /\ h.crc /\ h.attempt = host.attempt /\ h.result = host.result
    <3>1. (host.crc \/ error = "checksum") = TRUE
          BY <1>1
    <3>2. QED  BY <1>1, <3>1 DEF HostType
  <2>5. host' = after
        BY <1>13, <2>1
  <2> HIDE DEF h
  <2>6. /\ after.crc = h.crc
        /\ \/ after.pc = "send" /\ after.attempt = h.attempt + 1 /\ after.result = h.result
           \/ after.pc = "idle" /\ after.result = "err" /\ ~(h.attempt < cfg.retries)
        BY <2>4, FailedEffect
  <2> HIDE DEF after
  <2>7. hist.spent >= host.attempt + 1 /\ (~(host.attempt < cfg.retries) => hist.spent > cfg.retries)
        BY <1>4, <2>3
  <2>8. /\ host'.crc /\ (host'.result = "err" => host'.pc = "idle" /\ hist'.spent > cfg'.retries)
        /\ host'.pc # "idle" => hist'.spent >= host'.attempt
        /\ host'.pc # "ok"
        BY <1>1, <1>4, <2>4, <2>5, <2>6, <2>7
  <2>9. QED  BY <2>2, <2>8 DEF RetryInv
<1>14. QED  BY <1>5, <1>9, <1>10, <1>12, <1>13

\* The host's other steps: a deadline that passes with nothing under way is
\* the mark of a fault.
LEMMA RetryHost ==
    ASSUME Form, UartInv, Sequential, HistForm, RetryInv, Timely,
           \/ Begin \/ DrainEnd \/ write_frame \/ OkTimeout \/ receive_reply
           \/ ReplyDone \/ ReplyTimeout \/ Cancel
    PROVE  RetryInv'
<1>1. Form' /\ host \in HostType /\ HistForm' /\ cfg' = cfg
  <2>1. cfg' = cfg
        BY DEF Begin, DrainEnd, write_frame, OkTimeout, receive_reply, ReplyDone, ReplyTimeout, Cancel
  <2>2. QED  BY <2>1, FormNext, HistNext DEF Next, HostStep, Form
<1>2. hist.spent \in Nat /\ host.attempt \in Nat /\ cfg.retries \in Nat /\ host.crc
      BY Emptiness, ScenarioForm DEF HistForm, Form, RetryInv
<1>3. Quiet => toDev = <<>> /\ OnlyReplies(Wire) /\ Len(toDev) = 0
  <2>1. Quiet => toDev = <<>> /\ Len(Wire) = 0 /\ Len(toDev) = 0
        BY QuietWire, WireType, Emptiness
  <2>2. QED  BY <2>1 DEF OnlyReplies
<1>4. CASE Begin
  <2>1. /\ host.pc = "idle" /\ UNCHANGED <<cfg, dev, toHost>> /\ host'.crc = host.crc
        /\ host'.attempt = 0 /\ host'.result = "none" /\ hist' = [hist EXCEPT !.spent = 0]
        /\ \/ host'.pc = "drain"
           \/ ~host.flush /\ ~host.recover /\ host'.pc = "send" /\ toDev' = toDev
        BY <1>4, BeginEffect
  <2>2. hist'.spent = 0 /\ Wire' = Wire
        BY <2>1 DEF HistForm, Wire
  <2>3. host'.pc = "send" => toDev' = <<>> /\ OnlyReplies(Wire')
        BY <1>3, <2>1, <2>2 DEF UartInv, RestInv, Busy
  <2>4. QED  BY <1>2, <2>1, <2>2, <2>3 DEF RetryInv
<1>5. CASE DrainEnd
  <2>1. /\ host.pc = "drain" /\ UNCHANGED <<cfg, toDev, dev, toHost, hist>>
        /\ host'.crc = host.crc /\ host'.attempt = host.attempt
        /\ \/ host'.pc = "idle" /\ host'.result = "ok"
           \/ host'.pc = "send" /\ host'.result = host.result /\ Quiet
        BY <1>5, DrainQuiet
  <2>2. Wire' = Wire
        BY <2>1 DEF Wire
  <2>3. QED  BY <1>3, <2>1, <2>2 DEF RetryInv
<1>6. CASE write_frame
  <2>1. /\ UNCHANGED <<cfg, dev, toHost, hist>> /\ Wire' = Wire /\ host.pc = "send"
        /\ host' = [host EXCEPT !.pc = "ok"]
        /\ Len(toDev') = Len(toDev) + 1
        /\ toDev'[Len(toDev) + 1] = [frame |-> OwnFrame, reply |-> Current(host).reply,
                                     crc |-> host.crc, intact |-> TRUE, full |-> TRUE]
        BY <1>6, WriteEffect
  <2>2. /\ host'.pc = "ok" /\ host'.crc = host.crc /\ host'.attempt = host.attempt
        /\ host'.result = host.result
        BY <1>1, <2>1 DEF HostType
  <2>3. Len(toDev) = 0 /\ OnlyReplies(Wire)
        BY <2>1, Emptiness DEF RetryInv
  <2>4. Len(toDev') = 1 /\ Sound(toDev'[1])
        BY <1>2, <2>1, <2>3 DEF Sound
  <2>5. Asked'
        BY <2>1, <2>3, <2>4 DEF Asked
  <2>6. QED  BY <2>1, <2>2, <2>5 DEF RetryInv
<1>7. CASE OkTimeout
  <2>1. /\ host.pc = "ok" /\ Quiet /\ host' = Failed(host, TRUE)
        /\ UNCHANGED <<cfg, toDev, dev, toHost, hist>>
        BY <1>7 DEF OkTimeout, Timely
  <2>2. hist.spent > host.attempt
    <3> SUFFICES ASSUME hist.spent = host.attempt PROVE FALSE
        BY <1>2, <2>1 DEF RetryInv
    <3>1. Answered /\ Len(Wire) = 0
          BY <1>3, <2>1, QuietWire, WireType DEF RetryInv, Asked
    <3>2. QED  BY <3>1 DEF Answered, SoundOk
  <2> DEFINE after == Failed(host, TRUE)
  <2>3. /\ after.crc = host.crc
        /\ \/ after.pc = "send" /\ after.attempt = host.attempt + 1 /\ after.result = host.result
           \/ after.pc = "idle" /\ after.result = "err" /\ ~(host.attempt < cfg.retries)
        BY <1>1, FailedEffect
  <2>4. host' = after
        BY <2>1
  <2> HIDE DEF after
  <2>5. hist.spent >= host.attempt + 1 /\ (~(host.attempt < cfg.retries) => hist.spent > cfg.retries)
        BY <1>2, <2>2
  <2>6. Wire' = Wire /\ host.result # "err"
        BY <2>1 DEF Wire, RetryInv
  <2>7. /\ host'.crc /\ (host'.result = "err" => host'.pc = "idle" /\ hist'.spent > cfg'.retries)
        /\ host'.pc # "idle" => hist'.spent >= host'.attempt
        /\ host'.pc # "ok"
        BY <1>2, <2>1, <2>3, <2>4, <2>5, <2>6
  <2>8. QED  BY <1>3, <2>1, <2>6, <2>7 DEF RetryInv
<1>8. CASE ReplyDone \/ ReplyTimeout
  <2>1. /\ host.pc = "reply" /\ UNCHANGED <<cfg, toDev, dev, toHost, hist>>
        /\ host.i \in DOMAIN host.batch
        BY <1>8 DEF ReplyDone, ReplyTimeout, Form, Placed
  <2>2. /\ host'.crc = host.crc
        /\ \/ host'.pc = "send" /\ host'.attempt = 0 /\ host'.result = host.result
           \/ host'.pc = "idle" /\ host'.result = "ok"
    <3>1. CASE ReplyDone
          BY <1>1, <2>1, <3>1, AdvanceEffect DEF ReplyDone
    <3>2. CASE ReplyTimeout
      <4> DEFINE h == [host EXCEPT !.flush = TRUE]
      <4>1. /\ h \in HostType /\ h.crc = host.crc /\ h.batch = host.batch /\ h.result = host.result
            /\ h.i = host.i /\ host' = Advance(h)
            BY <1>1, <3>2 DEF ReplyTimeout, HostType
      <4> HIDE DEF h
      <4>2. QED  BY <2>1, <4>1, AdvanceEffect
    <3>3. QED  BY <1>8, <3>1, <3>2
  <2>3. Wire' = Wire
        BY <2>1 DEF Wire
  <2>4. QED  BY <1>2, <2>1, <2>2, <2>3 DEF RetryInv
<1>9. CASE receive_reply
  <2>1. /\ host.pc = "reply" /\ toHost # <<>> /\ toHost' = Tail(toHost)
        /\ UNCHANGED <<cfg, toDev, dev, hist>>
        BY <1>9 DEF receive_reply
  <2>2. /\ host'.pc = host.pc /\ host'.crc = host.crc /\ host'.attempt = host.attempt
        /\ host'.result = host.result
    <3>1. CASE host' = host
          BY <3>1
    <3>2. CASE host' = dispatch(host, {Head(toHost).frame})
          BY <1>1, <3>2 DEF dispatch, HostType
    <3>3. QED  BY <1>9, <3>1, <3>2 DEF receive_reply
  <2>3. OnlyReplies(Wire')
    <3>1. Thinned(Wire, Wire')
          BY <2>1, TakeWire, TailThinned
    <3>2. QED  BY <2>1, <3>1, ThinnedKeeps DEF RetryInv
  <2>4. QED  BY <2>1, <2>2, <2>3 DEF RetryInv
<1>10. CASE Cancel
  <2>1. host'.pc = "idle" /\ host'.crc = host.crc /\ host'.result = host.result /\ host.pc # "idle"
        BY <1>1, <1>10 DEF Cancel, HostType
  <2>2. QED  BY <2>1 DEF RetryInv
<1>11. QED  BY <1>4, <1>5, <1>6, <1>7, <1>8, <1>9, <1>10

\* Every step keeps the invariant.
LEMMA RetryNext ==
    ASSUME Form, UartInv, Sequential, HistForm, RetryInv, Timely, [Next]_vars
    PROVE  RetryInv'
BY RetryHost, RetryLink, RetryWait, RetryProcess DEF Next, HostStep

-----------------------------------------------------------------------------
(* Without a fault every request gets its own reply                        *)

\* A step of the link, or of an application that is not in a transaction.
LEMMA DistinctLink ==
    ASSUME Form, HistForm, DistinctInv,
           Poll \/ DrainLine \/ read \/ LinkFault \/ DeviceReset \/ UNCHANGED vars
    PROVE  DistinctInv'
<1>1. /\ host'.pc = host.pc /\ host'.result = host.result /\ host'.i = host.i /\ host'.op = host.op
      /\ host'.batch = host.batch /\ host'.got = host.got /\ host'.txn = host.txn
      /\ host'.crc = host.crc
      BY DEF Poll, DrainLine, read, LinkFault, DeviceReset, Fault, vars, Form, HostType
<1>2. CASE LinkFault \/ DeviceReset
  <2>1. hist'.spent = hist.spent + 1 /\ hist.spent \in Nat
        BY <1>2 DEF LinkFault, DeviceReset, Fault, HistForm
  <2>2. hist'.spent # 0
        BY <2>1
  <2>3. QED  BY <1>1, <2>2 DEF DistinctInv, Unhindered
<1>3. CASE Poll \/ UNCHANGED vars
  <2>1. Wire' = Wire /\ toDev' = toDev /\ hist' = hist /\ host' = host
        BY <1>3, PollWire DEF Poll, vars, Wire
  <2>2. QED
    BY <1>1, <2>1, ZenonT(60)
    DEF DistinctInv, Unhindered, Busy, InStep, Served, AtSend, Sending, Negotiated, Confirmed,
        AtReply, OwnFrame, Current
<1>4. CASE DrainLine \/ read
  <2>1. hist' = hist /\ ~Busy
        BY <1>4 DEF DrainLine, read, Busy
  <2>2. QED  BY <1>1, <2>1, ZenonT(60) DEF DistinctInv, Unhindered, Busy, Served
<1>5. QED  BY <1>2, <1>3, <1>4

\* The firmware refuses the command for want of a checksum, or executes it.
LEMMA DistinctProcess ==
    ASSUME Form, HistForm, DistinctInv, ProcessLine
    PROVE  DistinctInv'
<1>1. UNCHANGED <<cfg, host>> /\ toDev # <<>> /\ hist'.spent = hist.spent
      BY DEF ProcessLine, HistForm
<1>2. Unhindered' /\ Busy' => InStep'
  <2> SUFFICES ASSUME Unhindered, Busy PROVE InStep'
      BY <1>1 DEF Unhindered, Busy
  <2>1. InStep /\ host.pc = "ok" /\ Sending
        BY <1>1 DEF DistinctInv, InStep, AtSend, AtReply, Negotiated, Confirmed, Busy
  <2>2. /\ Head(toDev) = toDev[1] /\ Head(toDev).intact /\ Head(toDev).frame = OwnFrame
        /\ Head(toDev).reply = Current(host).reply /\ Head(toDev).crc = host.crc
    <3>1. Head(toDev) = toDev[1]
          BY <1>1, ShorterType DEF Form
    <3>2. QED  BY <2>1, <3>1 DEF Sending
  <2>3. /\ Len(toDev') = Len(toDev) - 1
        /\ \E lines \in Seq(ResponseLine) : Wire' = Wire \o lines /\ Handled(lines)
        BY ProcessWire
  <2>4. PICK lines \in Seq(ResponseLine) : Wire' = Wire \o lines /\ Handled(lines)
        BY <2>3
  <2>5. toDev' = <<>>
    <3>1. Form'
          BY ProcessForm
    <3>2. \A S : \A s \in Seq(S) : Len(s) = 0 => s = <<>>
          OBVIOUS
    <3>3. QED  BY <2>1, <2>3, <3>1, <3>2 DEF Sending, Form
  <2>6. Wire' = lines
        BY <2>1, <2>4, ConcatEmptySeq DEF Sending
  <2>7. ReadPending
    <3>1. dev.out = <<>>
          BY <2>1, WireType DEF Sending
    <3>2. QED  BY <3>1 DEF ReadPending
  <2> DEFINE okLine == Response("OK", NoFrame, AnswerCrc)
             reply == Response("rcv", OwnFrame, AnswerCrc)
             refusal == Response("checksum", NoFrame, AnswerCrc)
  <2>8. /\ okLine.kind = "OK" /\ okLine.intact /\ okLine.crc = AnswerCrc
        /\ reply.kind = "rcv" /\ reply.intact /\ reply.crc = AnswerCrc /\ reply.frame = OwnFrame
        /\ refusal.kind = "checksum" /\ refusal.intact
        BY DEF Response
  <2>9. host.crc => AnswerCrc
        BY <2>2 DEF AnswerCrc, Sound
  <2>10. CASE Refused(lines)
    <3>1. lines = <<refusal>> /\ ~host.crc
          BY <2>2, <2>10 DEF Refused, Sound
    <3> HIDE DEF refusal
    <3>2. Len(lines) = 1 /\ lines[1] = refusal
          BY <3>1
    <3>3. Negotiated'
          BY <1>1, <2>5, <2>6, <2>8, <3>1, <3>2 DEF Negotiated
    <3>4. QED  BY <1>1, <2>1, <3>3 DEF InStep, Served
  <2>11. CASE Executed(lines)
    <3>1. lines = <<okLine>> \o (IF Current(host).reply THEN <<reply>> ELSE <<>>)
          BY <2>2, <2>11 DEF Executed
    <3> HIDE DEF okLine, reply
    <3>2. CASE Current(host).reply
      <4>1. Len(lines) = 2 /\ lines[1] = okLine /\ lines[2] = reply
            BY <3>1, <3>2
      <4>2. \A k \in 1..Len(lines) : k = 1 \/ k = 2
            BY <4>1
      <4>3. Accurate(lines, host.crc)
            BY <2>8, <2>9, <4>1, <4>2 DEF Accurate
      <4>4. Confirmed'
            BY <1>1, <2>5, <2>6, <2>8, <3>2, <4>1, <4>3 DEF Confirmed, OwnFrame, Current
      <4>5. QED  BY <1>1, <2>1, <4>4 DEF InStep, Served
    <3>3. CASE ~Current(host).reply
      <4>1. Len(lines) = 1 /\ lines[1] = okLine
            BY <3>1, <3>3
      <4>2. \A k \in 1..Len(lines) : k = 1
            BY <4>1
      <4>3. Accurate(lines, host.crc)
            BY <2>8, <2>9, <4>1, <4>2 DEF Accurate
      <4>4. Confirmed'
            BY <1>1, <2>5, <2>6, <2>8, <3>3, <4>1, <4>3 DEF Confirmed, OwnFrame, Current
      <4>5. QED  BY <1>1, <2>1, <4>4 DEF InStep, Served
    <3>4. QED  BY <3>2, <3>3
  <2>12. ~Dropped(lines) /\ ~Misunderstood(lines)
         BY <2>2, <2>7 DEF Dropped, Misunderstood
  <2>13. QED  BY <2>4, <2>10, <2>11, <2>12 DEF Handled
<1>3. Unhindered' /\ host'.result = "ok" => Served(host', Len(host'.batch))
      BY <1>1 DEF DistinctInv, Unhindered
<1>4. QED  BY <1>1, <1>2, <1>3 DEF DistinctInv

\* A reply goes to its own request alone.
LEMMA OwnServed ==
    ASSUME Form, UartInv, Busy, Distinct(host.batch),
           NEW got, got = dispatch(host, {OwnFrame}).got, OwnFrame \in Frame
    PROVE  /\ DOMAIN got = DOMAIN host.got /\ OwnFrame \in got[host.i]
           /\ \A j \in DOMAIN host.got : host.got[j] \subseteq got[j]
           /\ \A j \in DOMAIN host.got : j > host.i => got[j] = host.got[j]
<1>1. /\ host \in HostType /\ DOMAIN host.got = DOMAIN host.batch /\ host.i \in DOMAIN host.batch
      /\ host.batch \in Seq(RequestType) /\ host.i \in Nat
      BY Emptiness DEF Form, Placed, UartInv, HostInv, Busy
<1>2. /\ DOMAIN got = DOMAIN host.got
      /\ \A j \in DOMAIN host.got :
            got[j] = host.got[j] \cup {f \in {OwnFrame} : j \in FirstMatch(host.batch, f)}
      BY <1>1, DispatchType
<1>3. host.i \in FirstMatch(host.batch, OwnFrame)
  <2>1. Matches(host.batch[host.i], OwnFrame)
        BY DEF Matches, OwnFrame, Current
  <2>2. \A k \in 1..(host.i - 1) : ~Matches(host.batch[k], OwnFrame)
        BY <1>1 DEF Distinct, Matches, OwnFrame, Current
  <2>3. QED  BY <1>1, <2>1, <2>2 DEF FirstMatch
<1>4. \A j \in DOMAIN host.got : j > host.i => j \notin FirstMatch(host.batch, OwnFrame)
  <2>1. \A j \in DOMAIN host.got : j \in Nat
        BY <1>1
  <2>2. QED  BY <1>1, <2>1, OwnMatch
<1>5. QED  BY <1>1, <1>2, <1>3, <1>4

\* The host reads the refusal, and tries again with a checksum, or the OK.
LEMMA DistinctWait ==
    ASSUME Form, UartInv, HistForm, DistinctInv, wait_for_ok
    PROVE  DistinctInv'
<1> DEFINE line == Head(toHost)
           h(error) == [host EXCEPT !.crc = @ \/ error = "checksum"]
           after(error) == Failed(h(error), error \in {"checksum", "unknown"})
<1>1. /\ host.pc = "ok" /\ Busy /\ toHost # <<>> /\ toHost' = Tail(toHost)
      /\ UNCHANGED <<cfg, toDev, dev>> /\ host \in HostType /\ host.result = "none"
      /\ host.i \in DOMAIN host.batch /\ DOMAIN host.batch = 1..Len(host.batch)
      /\ Len(host.batch) \in Nat /\ host.i \in Nat /\ DOMAIN host.got = DOMAIN host.batch
  <2>1. host.pc = "ok" /\ toHost # <<>> /\ toHost' = Tail(toHost) /\ UNCHANGED <<cfg, toDev, dev>>
        BY WaitCases
  <2>2. QED  BY <2>1, Emptiness DEF Form, Placed, Busy, DistinctInv, UartInv, HostInv
<1>2. /\ line = Wire[1] /\ Len(Wire') = Len(Wire) - 1 /\ Len(Wire) \in Nat \ {0} /\ Wire # <<>>
      /\ \A k \in 1..(Len(Wire) - 1) : Wire'[k] = Wire[k + 1]
      /\ Wire' \in Seq(ResponseLine)
      BY <1>1, TakeWire
<1>3. \A error \in ErrorKind :
        /\ after(error).op = host.op /\ after(error).batch = host.batch
        /\ after(error).txn = host.txn /\ after(error).got = host.got
        /\ after(error).pending = host.pending /\ after(error).i = host.i
        /\ after(error).crc = (host.crc \/ error = "checksum")
        /\ \/ after(error).pc = "send" /\ after(error).result = "none"
           \/ after(error).pc = "idle" /\ after(error).result = "err"
  <2> TAKE error \in ErrorKind
  <2>1. /\ h(error) \in HostType /\ h(error).op = host.op /\ h(error).batch = host.batch
        /\ h(error).txn = host.txn /\ h(error).got = host.got /\ h(error).pending = host.pending
        /\ h(error).i = host.i /\ h(error).result = "none"
        /\ h(error).crc = (host.crc \/ error = "checksum")
    <3>1. (host.crc \/ error = "checksum") \in BOOLEAN
          OBVIOUS
    <3>2. QED  BY <1>1, <3>1 DEF HostType
  <2> HIDE DEF h
  <2> DEFINE before == h(error)
             retryable == error \in {"checksum", "unknown"}
             failed == Failed(before, retryable)
  <2>2. retryable \in BOOLEAN /\ before \in HostType
        BY <2>1
  <2>3. after(error) = failed /\ before = h(error)
        OBVIOUS
  <2> HIDE DEF before, retryable
  <2>4. /\ failed.op = before.op /\ failed.batch = before.batch /\ failed.txn = before.txn
        /\ failed.got = before.got /\ failed.pending = before.pending /\ failed.i = before.i
        /\ failed.crc = before.crc
        /\ \/ failed.pc = "send" /\ failed.result = before.result
           \/ failed.pc = "idle" /\ failed.result = "err"
        BY <2>2, FailedEffect
  <2> HIDE DEF failed, after
  <2>5. QED  BY <2>1, <2>3, <2>4
<1>4. \/ ~(Accepted(line) /\ line.intact) /\ host' = host /\ hist' = hist
      \/ /\ Accepted(line) /\ (line.intact => line.kind = "OK") /\ host' = Acked(host)
         /\ hist' = [hist EXCEPT !.acked = @ \cup {<<host.txn, host.i>>}]
      \/ /\ Accepted(line) /\ (line.intact => line.kind = "rcv") /\ hist' = hist
         /\ host' = [host EXCEPT !.pending = Append(@, line.frame)]
      \/ /\ Accepted(line) /\ hist' = hist
         /\ \E error \in ErrorKind : (line.intact => line.kind = error) /\ host' = after(error)
      BY WaitCases
<1> HIDE DEF after, h
<1>5. /\ host'.op = host.op /\ host'.batch = host.batch /\ host'.txn = host.txn
      /\ hist'.spent = hist.spent /\ host'.pc # "drain"
      /\ host'.pc # "idle" => host'.result = "none"
  <2>1. hist'.spent = hist.spent
        BY <1>4 DEF HistForm
  <2>2. CASE host' = host
        BY <1>1, <2>1, <2>2
  <2>3. CASE host' = Acked(host)
        BY <1>1, <2>1, <2>3, AckedEffect
  <2>4. CASE host' = [host EXCEPT !.pending = Append(@, line.frame)]
        BY <1>1, <2>1, <2>4 DEF HostType
  <2>5. CASE \E error \in ErrorKind : host' = after(error)
        BY <1>3, <2>1, <2>5
  <2>6. QED  BY <1>4, <2>2, <2>3, <2>4, <2>5
<1>6. ASSUME Unhindered
      PROVE  (Busy' => InStep') /\ (host'.result = "ok" => Served(host', Len(host'.batch)))
  <2>1. InStep /\ (Negotiated \/ Confirmed)
        BY <1>1, <1>2, <1>6 DEF DistinctInv, InStep, Sending
  <2>2. CASE Negotiated
    <3>1. Len(Wire) = 1 /\ line.kind = "checksum" /\ line.intact /\ ~host.crc /\ toDev = <<>>
          BY <1>2, <2>2 DEF Negotiated
    <3>2. Accepted(line)
      <4>1. line \in ResponseLine
            BY <1>1, TakeWire
      <4>2. QED  BY <3>1, <4>1 DEF Accepted
    <3>3. host' = after("checksum")
          BY <1>4, <3>1, <3>2
    <3>4. /\ host'.got = host.got /\ host'.pending = host.pending /\ host'.i = host.i
          /\ \/ host'.pc = "send" /\ host'.result = "none"
             \/ host'.pc = "idle" /\ host'.result = "err"
          BY <1>3, <3>3 DEF ErrorKind
    <3>5. AtSend'
      <4>1. \A S : \A s \in Seq(S) : Len(s) = 0 => s = <<>>
            OBVIOUS
      <4>2. Len(Wire') = 0
            BY <1>2, <3>1
      <4>3. QED  BY <1>1, <1>2, <3>1, <4>1, <4>2 DEF AtSend
    <3>6. /\ host'.pending = <<>> /\ Served(host', host'.i - 1)
          /\ \A j \in DOMAIN host'.got : j > host'.i \/ j = host'.i => host'.got[j] = {}
      <4>1. host'.pending = <<>>
            BY <2>1, <3>4 DEF InStep
      <4>2. Served(host, host.i - 1)
            BY <2>1 DEF InStep
      <4>3. Served(host', host'.i - 1)
            BY <1>5, <3>4, <4>2 DEF Served
      <4>4. \A j \in DOMAIN host.got : j > host.i \/ j = host.i => host.got[j] = {}
            BY <1>1, <2>1 DEF InStep
      <4>5. QED  BY <3>4, <4>1, <4>3, <4>4
    <3>7. host'.pc = "send" => InStep'
          BY <3>5, <3>6 DEF InStep
    <3>8. host'.result # "ok" /\ (host'.pc = "send" \/ host'.pc = "idle")
          BY <3>4
    <3>9. QED  BY <3>7, <3>8 DEF Busy
  <2>3. CASE Confirmed
    <3>1. /\ line.kind = "OK" /\ line.intact /\ toDev = <<>> /\ (host.crc => line.crc)
          /\ Accurate(Wire, host.crc)
          /\ Len(Wire) = (IF Current(host).reply THEN 2 ELSE 1)
          /\ Current(host).reply => Wire[2].kind = "rcv" /\ Wire[2].frame = OwnFrame
          BY <1>2, <2>3 DEF Confirmed, Accurate
    <3>2. Accepted(line)
      <4>1. line \in ResponseLine
            BY <1>1, TakeWire
      <4>2. QED  BY <3>1, <4>1 DEF Accepted, ResponseLine
    <3>3. host' = Acked(host)
          BY <1>4, <3>1, <3>2 DEF ErrorKind
    <3>4. host.op = "transaction"
          BY <1>6 DEF Unhindered
    <3>5. /\ host'.crc = host.crc
          /\ \/ /\ host'.pc = "idle" /\ host'.result = "ok" /\ host'.got = host.got
                /\ ~Current(host).reply /\ host.i = Len(host.batch)
             \/ /\ host'.pc = "send" /\ host.i < Len(host.batch) /\ ~Current(host).reply
             \/ /\ host'.pc = "reply" /\ host'.i = host.i /\ host'.result = "none"
                /\ host'.got = dispatch(host, Range(host.pending)).got
                /\ host'.pending = <<>> /\ Current(host).reply
          BY <1>1, <3>3, <3>4, AckedEffect
    <3>6. CASE host'.pc = "idle"
      <4>1. /\ host'.result = "ok" /\ host'.got = host.got /\ ~Current(host).reply
            /\ host.i = Len(host.batch)
            BY <3>5, <3>6
      <4>2. \A j \in 1..Len(host.batch) : j \in 1..(host.i - 1) \/ j = host.i
            BY <1>1, <4>1
      <4>3. Served(host', Len(host'.batch))
            BY <1>5, <2>1, <4>1, <4>2, ZenonT(60) DEF InStep, Served, Current
      <4>4. QED  BY <3>6, <4>3 DEF Busy
    <3>7. CASE host'.pc = "send"
      <4>1. Len(host.batch) \in DOMAIN host.batch /\ host.i \in 1..(Len(host.batch) - 1)
            BY <1>1, <3>5, <3>7
      <4>2. QED  BY <1>6, <3>5, <3>7, <4>1 DEF Unhindered, Distinct, Current
    <3>8. CASE host'.pc = "reply"
      <4>1. host'.got = host.got
        <5>1. Range(host.pending) = {}
              BY <2>1 DEF InStep, Range
        <5>2. \A frames \in SUBSET Frame : frames = {} => dispatch(host, frames).got = host.got
          <6> TAKE frames \in SUBSET Frame
          <6> HAVE frames = {}
          <6>1. dispatch(host, frames).got =
                   [j \in DOMAIN host.got |-> host.got[j] \cup {f \in frames : j \in FirstMatch(host.batch, f)}]
                BY <1>1 DEF dispatch, HostType
          <6>2. \A j \in DOMAIN host.got :
                   host.got[j] \cup {f \in frames : j \in FirstMatch(host.batch, f)} = host.got[j]
                OBVIOUS
          <6>3. host.got = [j \in DOMAIN host.got |-> host.got[j]]
                BY <1>1 DEF HostType
          <6>4. QED  BY <6>1, <6>2, <6>3
        <5>3. {} \in SUBSET Frame
              OBVIOUS
        <5>4. QED  BY <3>5, <3>8, <5>1, <5>2, <5>3
      <4>2. /\ host'.i = host.i /\ host'.pending = <<>> /\ Current(host).reply
            /\ host'.result = "none"
            BY <3>5, <3>8
      <4>3. AtReply'
        <5>1. Len(Wire) = 2 /\ Len(Wire') = 1 /\ Wire'[1] = Wire[2]
              BY <1>2, <3>1, <4>2
        <5>2. Accurate(Wire', host.crc)
          <6>1. \A k \in 1..1 : k = 1
                OBVIOUS
          <6>2. 2 \in 1..2
                OBVIOUS
          <6>3. QED  BY <3>1, <5>1, <6>1, <6>2 DEF Accurate
        <5>3. host.got[host.i] = {}
              BY <1>1, <2>1 DEF InStep
        <5>4. OwnFrame' = OwnFrame
              BY <1>5, <4>2 DEF OwnFrame, Current
        <5>5. Wire'[1].kind = "rcv" /\ Wire'[1].frame = OwnFrame'
              BY <3>1, <4>2, <5>1, <5>4
        <5>6. toDev' = <<>> /\ host'.crc = host.crc /\ host'.got[host'.i] = {}
              BY <1>1, <3>1, <3>5, <4>1, <4>2, <5>3
        <5>7. Accurate(Wire', host'.crc)
              BY <3>5, <5>2
        <5>8. QED  BY ONLY <5>1, <5>5, <5>6, <5>7 DEF AtReply, Accurate
      <4>4. Served(host', host'.i - 1)
        <5>1. Served(host, host.i - 1)
              BY <2>1 DEF InStep
        <5>2. QED  BY <1>5, <4>1, <4>2, <5>1 DEF Served
      <4>5. \A j \in DOMAIN host.got : j > host.i => host.got[j] = {}
            BY <2>1 DEF InStep
      <4>6. InStep'
            BY <3>8, <4>1, <4>2, <4>3, <4>4, <4>5 DEF InStep
      <4>7. QED  BY <3>8, <4>2, <4>6
    <3>9. QED  BY <3>5, <3>6, <3>7, <3>8
  <2>4. QED  BY <2>1, <2>2, <2>3
<1>7. QED  BY <1>5, <1>6 DEF DistinctInv, Unhindered

\* An operation begins with nothing under way and nothing received.
LEMMA DistinctBegin ==
    ASSUME Form, UartInv, DistinctInv, Begin \/ DrainEnd
    PROVE  DistinctInv'
<1>1. ASSUME Quiet', host'.pc = "send", host'.i = 1, host'.pending = <<>>,
             \A j \in DOMAIN host'.got : host'.got[j] = {}
      PROVE  InStep'
  <2>1. AtSend'
        BY <1>1 DEF Quiet, AtSend, Wire
  <2>2. Served(host', host'.i - 1)
    <3>1. 1..(1 - 1) = {}
          OBVIOUS
    <3>2. QED  BY <1>1, <3>1 DEF Served
  <2>3. QED  BY <1>1, <2>1, <2>2 DEF InStep
<1>2. CASE Begin
  <2>1. /\ host.pc = "idle" /\ UNCHANGED <<cfg, dev, toHost>>
        /\ \A j \in DOMAIN host'.got : host'.got[j] = {}
        /\ host'.i = 1 /\ host'.result = "none"
        /\ \/ host'.pc = "drain"
           \/ /\ ~host.flush /\ ~host.recover /\ host'.pc = "send" /\ toDev' = toDev
              /\ host'.pending = host.pending
        BY <1>2, BeginEffect
  <2>2. host'.pc = "send" => InStep'
    <3>1. host'.pc = "send" => Quiet' /\ host'.pending = <<>>
          BY <2>1 DEF UartInv, RestInv, Busy, Quiet
    <3>2. QED  BY <1>1, <2>1, <3>1
  <2>3. QED  BY <2>1, <2>2 DEF DistinctInv, Busy
<1>3. CASE DrainEnd
  <2>1. /\ host.pc = "drain" /\ UNCHANGED <<cfg, toDev, dev, toHost, hist>>
        /\ host'.i = host.i /\ host'.op = host.op /\ host'.pending = <<>> /\ host'.got = host.got
        /\ \A j \in DOMAIN host.got : host.got[j] = {}
        /\ \/ host'.pc = "idle" /\ host'.result = "ok" /\ host.op = "flush"
           \/ host'.pc = "send" /\ host'.result = host.result /\ Quiet
        BY <1>3, DrainQuiet
  <2>2. host.i = 1 /\ host.result = "none"
        BY <2>1 DEF DistinctInv
  <2>3. host'.pc = "send" => InStep'
    <3>1. host'.pc = "send" => Quiet'
          BY <2>1 DEF Quiet
    <3>2. QED  BY <1>1, <2>1, <2>2, <3>1
  <2>4. QED  BY <2>1, <2>2, <2>3 DEF DistinctInv, Unhindered, Busy
<1>4. QED  BY <1>2, <1>3

\* The reply that is under way is read and goes to the request that waits.
LEMMA DistinctReceive ==
    ASSUME Form, UartInv, DistinctInv, receive_reply
    PROVE  DistinctInv'
<1> DEFINE line == Head(toHost)
<1>1. /\ host.pc = "reply" /\ host.got[host.i] = {} /\ toHost # <<>> /\ toHost' = Tail(toHost)
      /\ UNCHANGED <<cfg, toDev, dev, hist>> /\ Busy /\ host \in HostType
      /\ host.i \in DOMAIN host.batch /\ host.i \in Nat /\ DOMAIN host.got = DOMAIN host.batch
      /\ \/ Accepted(line) /\ "rcv" \in Readings(line) /\ host' = dispatch(host, {line.frame})
         \/ (~Accepted(line) \/ Readings(line) # {"rcv"}) /\ host' = host
      BY Emptiness DEF receive_reply, Busy, Form, Placed, UartInv, HostInv, Satisfied
<1>2. /\ line = Wire[1] /\ Len(Wire') = Len(Wire) - 1 /\ Wire' \in Seq(ResponseLine)
      /\ line \in ResponseLine
      BY <1>1, TakeWire
<1>3. /\ host'.pc = host.pc /\ host'.result = host.result /\ host'.op = host.op /\ host'.i = host.i
      /\ host'.batch = host.batch /\ host'.txn = host.txn /\ host'.crc = host.crc
      /\ host'.pending = host.pending
  <2>1. CASE host' = host
        BY <2>1
  <2>2. CASE host' = dispatch(host, {line.frame})
        BY <1>1, <2>2 DEF dispatch, HostType
  <2>3. QED  BY <1>1, <2>1, <2>2
<1>4. host.result = "none"
      BY <1>1 DEF DistinctInv
<1>5. ASSUME Unhindered PROVE InStep'
  <2>1. InStep /\ AtReply
        BY <1>1, <1>5 DEF DistinctInv, InStep
  <2>2. /\ toDev = <<>> /\ Accurate(Wire, host.crc) /\ Len(Wire) = 1 /\ line.kind = "rcv"
        /\ line.frame = OwnFrame
        BY <1>1, <1>2, <2>1 DEF AtReply
  <2>3. Accepted(line) /\ Readings(line) = {"rcv"}
        BY <1>2, <2>2 DEF Accurate, Accepted, Readings, ResponseLine
  <2> DEFINE got == dispatch(host, {OwnFrame}).got
  <2>4. host'.got = got
        BY <1>1, <2>2, <2>3
  <2>5. OwnFrame \in Frame
        BY <1>2, <2>2 DEF ResponseLine
  <2>6. /\ DOMAIN got = DOMAIN host.got /\ OwnFrame \in got[host.i]
        /\ \A j \in DOMAIN host.got : host.got[j] \subseteq got[j]
        /\ \A j \in DOMAIN host.got : j > host.i => got[j] = host.got[j]
        BY <1>1, <1>5, <2>5, OwnServed DEF Unhindered
  <2> HIDE DEF got, line
  <2>7. Served(host', host'.i - 1)
    <3>1. Served(host, host.i - 1)
          BY <2>1 DEF InStep
    <3>2. \A j \in 1..(host.i - 1) : j \in DOMAIN host.got
          BY <1>1 DEF HostType
    <3>3. QED  BY <1>3, <2>4, <2>6, <3>1, <3>2 DEF Served
  <2>8. \A j \in DOMAIN host'.got : j > host'.i => host'.got[j] = {}
        BY <1>3, <2>1, <2>4, <2>6 DEF InStep
  <2>9. AtReply'
    <3>1. \A S : \A s \in Seq(S) : Len(s) = 0 => s = <<>>
          OBVIOUS
    <3>2. Wire' = <<>>
          BY <1>2, <2>2, <3>1
    <3>3. \A k \in 1..Len(<<>>) : FALSE
          OBVIOUS
    <3>4. OwnFrame' \in host'.got[host'.i] /\ toDev' = <<>>
          BY <1>1, <1>3, <2>2, <2>4, <2>6 DEF OwnFrame, Current
    <3>5. QED  BY ONLY <3>2, <3>3, <3>4 DEF AtReply, Accurate
  <2>10. QED  BY <1>1, <1>3, <2>1, <2>7, <2>8, <2>9 DEF InStep
<1>6. QED  BY <1>1, <1>3, <1>4, <1>5 DEF DistinctInv, Unhindered, Busy

\* A request that has its reply gives way to the next, or ends the transaction.
LEMMA DistinctDone ==
    ASSUME Form, UartInv, DistinctInv, ReplyDone
    PROVE  DistinctInv'
<1>1. /\ host.pc = "reply" /\ host.got[host.i] # {} /\ host' = Advance(host)
      /\ UNCHANGED <<cfg, toDev, dev, toHost, hist>> /\ Busy /\ host \in HostType
      /\ host.i \in DOMAIN host.batch /\ host.i \in Nat /\ DOMAIN host.batch = 1..Len(host.batch)
      /\ Len(host.batch) \in Nat /\ DOMAIN host.got = DOMAIN host.batch /\ host.result = "none"
      BY Emptiness
      DEF ReplyDone, Satisfied, Busy, Form, Placed, DistinctInv, UartInv, HostInv
<1>2. /\ host'.op = host.op /\ host'.txn = host.txn /\ host'.batch = host.batch
      /\ host'.got = host.got /\ host'.pending = host.pending
      /\ \/ /\ host'.pc = "send" /\ host'.i = host.i + 1 /\ host.i < Len(host.batch)
            /\ host'.result = host.result
         \/ host'.pc = "idle" /\ host.i = Len(host.batch) /\ host'.result = "ok"
  <2>1. ~(host.i < Len(host.batch)) => host.i = Len(host.batch)
        BY <1>1
  <2>2. QED  BY <1>1, <2>1, AdvanceEffect
<1>3. ASSUME Unhindered
      PROVE  /\ toDev = <<>> /\ Wire' = <<>> /\ host.pending = <<>> /\ Served(host, host.i)
             /\ \A j \in DOMAIN host.got : j > host.i => host.got[j] = {}
  <2>1. InStep /\ AtReply
        BY <1>1, <1>3 DEF DistinctInv, InStep
  <2>2. toDev = <<>> /\ Wire = <<>> /\ OwnFrame \in host.got[host.i]
        BY <1>1, <2>1 DEF AtReply
  <2>3. Wire' = Wire
        BY <1>1 DEF Wire
  <2>4. \A j \in 1..host.i : j \in 1..(host.i - 1) \/ j = host.i
        BY <1>1
  <2>5. OwnFrame.id = <<host.txn, host.i>>
        BY DEF OwnFrame
  <2>6. Served(host, host.i - 1)
        BY <2>1 DEF InStep
  <2>7. Served(host, host.i)
        BY <2>2, <2>4, <2>5, <2>6 DEF Served
  <2>8. QED  BY <2>1, <2>2, <2>3, <2>7 DEF InStep
<1>4. CASE host'.pc = "send"
  <2>1. ASSUME Unhindered PROVE InStep'
    <3>1. AtSend' /\ host'.pending = <<>>
          BY <1>1, <1>2, <1>3, <2>1 DEF AtSend
    <3>2. host'.i - 1 = host.i
          BY <1>1, <1>2, <1>4
    <3>3. Served(host', host'.i - 1)
      <4>1. Served(host, host.i)
            BY <1>3, <2>1
      <4>2. QED  BY <1>2, <3>2, <4>1 DEF Served
    <3>4. \A j \in DOMAIN host'.got : j > host'.i \/ j = host'.i => host'.got[j] = {}
      <4>1. \A j \in DOMAIN host.got : j > host.i => host.got[j] = {}
            BY <1>3, <2>1
      <4>2. \A j \in DOMAIN host.got : j \in Nat
            BY <1>1
      <4>3. host'.i = host.i + 1
            BY <1>2, <1>4
      <4>4. \A j \in DOMAIN host.got : j > host'.i \/ j = host'.i => j > host.i
            BY <1>1, <4>2, <4>3
      <4>5. QED  BY <1>2, <4>1, <4>4
    <3>5. QED  BY <1>4, <3>1, <3>3, <3>4 DEF InStep
  <2>2. QED  BY <1>1, <1>2, <1>4, <2>1 DEF DistinctInv, Unhindered, Busy
<1>5. CASE host'.pc = "idle"
  <2>1. Unhindered => Served(host', Len(host'.batch))
    <3>1. host.i = Len(host.batch)
          BY <1>2, <1>5
    <3>2. Unhindered => Served(host, Len(host.batch))
          BY <1>3, <3>1
    <3>3. QED  BY <1>2, <3>2 DEF Served
  <2>2. QED  BY <1>1, <1>2, <1>5, <2>1 DEF DistinctInv, Unhindered, Busy
<1>6. QED  BY <1>2, <1>4, <1>5

\* The command goes out, the operation is dropped, or a deadline passes, which
\* answers in time do not let happen to an unhindered transaction.
LEMMA DistinctHost ==
    ASSUME Form, UartInv, DistinctInv, ~cfg.late,
           write_frame \/ OkTimeout \/ ReplyTimeout \/ Cancel
    PROVE  DistinctInv'
<1>1. host \in HostType
      BY DEF Form
<1>2. CASE write_frame
  <2>1. /\ UNCHANGED <<cfg, dev, toHost, hist>> /\ Wire' = Wire /\ host.pc = "send"
        /\ host' = [host EXCEPT !.pc = "ok"]
        /\ Len(toDev') = Len(toDev) + 1
        /\ toDev'[Len(toDev) + 1] = [frame |-> OwnFrame, reply |-> Current(host).reply,
                                     crc |-> host.crc, intact |-> TRUE, full |-> TRUE]
        BY <1>2, WriteEffect
  <2>2. /\ host'.pc = "ok" /\ host'.result = host.result /\ host'.op = host.op /\ host'.i = host.i
        /\ host'.batch = host.batch /\ host'.txn = host.txn /\ host'.crc = host.crc
        /\ host'.pending = host.pending /\ host'.got = host.got
        BY <1>1, <2>1 DEF HostType
  <2>3. ASSUME Unhindered PROVE InStep'
    <3>1. InStep /\ AtSend
          BY <2>1, <2>3 DEF DistinctInv, InStep, Busy
    <3>2. Len(toDev) = 0
          BY <3>1 DEF AtSend
    <3>3. /\ Len(toDev') = 1 /\ toDev'[1].frame = OwnFrame /\ toDev'[1].reply = Current(host).reply
          /\ toDev'[1].intact /\ toDev'[1].crc = host.crc
          BY <2>1, <3>2
    <3>4. OwnFrame' = OwnFrame /\ Current(host') = Current(host)
          BY <2>2 DEF OwnFrame, Current
    <3>5. Sending'
          BY <2>1, <2>2, <3>1, <3>3, <3>4 DEF Sending, AtSend
    <3>6. Served(host', host'.i - 1)
      <4>1. Served(host, host.i - 1)
            BY <3>1 DEF InStep
      <4>2. QED  BY <2>2, <4>1 DEF Served
    <3>7. /\ host'.pending = <<>>
          /\ \A j \in DOMAIN host'.got : j > host'.i \/ j = host'.i => host'.got[j] = {}
          BY <2>1, <2>2, <3>1 DEF InStep
    <3>8. QED  BY <2>2, <3>5, <3>6, <3>7 DEF InStep
  <2>4. QED  BY <2>1, <2>2, <2>3 DEF DistinctInv, Unhindered, Busy
<1>3. CASE OkTimeout \/ ReplyTimeout
  <2>1. /\ Quiet /\ Busy /\ UNCHANGED <<cfg, toDev, dev, toHost, hist>> /\ host.pc # "drain"
        /\ host.result = "none" /\ host.i \in DOMAIN host.batch
        BY <1>3 DEF OkTimeout, ReplyTimeout, Busy, DistinctInv, Form, Placed
  <2>2. Quiet => toDev = <<>> /\ Len(toDev) = 0 /\ Len(Wire) = 0
        BY QuietWire, WireType, Emptiness
  <2>3. ~Unhindered
    <3> SUFFICES ASSUME Unhindered PROVE FALSE
        OBVIOUS
    <3>1. InStep
          BY <2>1 DEF DistinctInv
    <3>2. CASE OkTimeout
          BY <2>1, <2>2, <3>1, <3>2 DEF OkTimeout, InStep, Sending, Negotiated, Confirmed
    <3>3. CASE ReplyTimeout
          BY <2>1, <2>2, <3>1, <3>3 DEF ReplyTimeout, InStep, AtReply, Satisfied
    <3>4. QED  BY <1>3, <3>2, <3>3
  <2>4. /\ host'.op = host.op /\ host'.batch = host.batch /\ host'.pc # "drain"
        /\ host'.pc # "idle" => host'.result = "none"
    <3>1. CASE OkTimeout
          BY <1>1, <2>1, <3>1, FailedEffect DEF OkTimeout
    <3>2. CASE ReplyTimeout
      <4> DEFINE h == [host EXCEPT !.flush = TRUE]
      <4>1. /\ h \in HostType /\ h.op = host.op /\ h.batch = host.batch /\ h.result = host.result
            /\ h.i = host.i /\ host' = Advance(h)
            BY <1>1, <3>2 DEF ReplyTimeout, HostType
      <4> HIDE DEF h
      <4>2. QED  BY <2>1, <4>1, AdvanceEffect
    <3>3. QED  BY <1>3, <3>1, <3>2
  <2>5. QED  BY <2>1, <2>3, <2>4 DEF DistinctInv, Unhindered
<1>4. CASE Cancel
  <2>1. host.pc # "idle" /\ host'.pc = "idle" /\ host'.result = host.result
        BY <1>1, <1>4 DEF Cancel, HostType
  <2>2. QED  BY <2>1 DEF DistinctInv, Busy
<1>5. QED  BY <1>2, <1>3, <1>4

\* Every step keeps the invariant.
LEMMA DistinctNext ==
    ASSUME Form, UartInv, HistForm, DistinctInv, ~cfg.late, [Next]_vars
    PROVE  DistinctInv'
BY DistinctLink, DistinctProcess, DistinctWait, DistinctBegin, DistinctReceive, DistinctDone,
   DistinctHost DEF Next, HostStep

-----------------------------------------------------------------------------
(* The results                                                             *)

FaultInv ==
    /\ UartSafe /\ HistForm
    /\ OneRequest => ExecInv
    /\ Timely => RetryInv
    /\ Sequential /\ ~cfg.late => DistinctInv

\* The invariant holds when the transport is opened.
LEMMA FaultInit == Init => FaultInv
<1> SUFFICES ASSUME Init PROVE FaultInv
    OBVIOUS
<1>1. /\ host.pc = "idle" /\ host.op = "none" /\ host.crc = cfg.checksum /\ host.result = "none"
      /\ hist = [acked |-> {}, executed |-> {}, misread |-> {}, faults |-> 0, spent |-> 0]
      BY DEF Init, IdleHost
<1>2. HistForm
      BY <1>1 DEF HistForm
<1>3. OneRequest => ExecInv
      BY <1>1 DEF ExecInv, OneRequest, Busy
<1>4. Timely => RetryInv
      BY <1>1 DEF RetryInv, Timely
<1>5. DistinctInv
      BY <1>1 DEF DistinctInv, Unhindered, Busy
<1>6. QED  BY <1>2, <1>3, <1>4, <1>5, UartSafeInit DEF FaultInv

\* Every step keeps it.
LEMMA FaultNext == FaultInv /\ [Next]_vars => FaultInv'
<1> SUFFICES ASSUME FaultInv, [Next]_vars PROVE FaultInv'
    OBVIOUS
<1>1. cfg' = cfg
  <2>1. CASE HostStep
        BY <2>1 DEF HostStep, DrainLine, DrainEnd, write_frame, wait_for_ok, OkTimeout,
                    receive_reply, ReplyDone, ReplyTimeout
  <2>2. CASE Begin \/ read \/ Cancel
        BY <2>2 DEF Begin, read, Cancel
  <2>3. CASE ProcessLine \/ Poll \/ LinkFault \/ DeviceReset \/ UNCHANGED vars
        BY <2>3 DEF ProcessLine, Poll, LinkFault, DeviceReset, Fault, vars
  <2>4. QED  BY <2>1, <2>2, <2>3 DEF Next
<1>2. UartSafe /\ HistForm /\ Form /\ (Sequential => UartInv)
      BY DEF FaultInv, UartSafe
<1>3. UartSafe' /\ HistForm'
      BY <1>2, UartSafeNext, HistNext
<1>4. /\ OneRequest' <=> OneRequest
      /\ Timely' <=> Timely
      /\ Sequential' <=> Sequential
      BY <1>1 DEF OneRequest, Timely, Sequential
<1>5. OneRequest => ExecInv'
      BY <1>2, ExecNext DEF FaultInv, OneRequest
<1>6. Timely => RetryInv'
      BY <1>2, RetryNext DEF FaultInv, Timely
<1>7. Sequential /\ ~cfg.late => DistinctInv'
      BY <1>2, DistinctNext DEF FaultInv
<1>8. QED  BY <1>1, <1>3, <1>4, <1>5, <1>6, <1>7 DEF FaultInv

LEMMA FaultAlways == Spec => []FaultInv
BY FaultInit, FaultNext, PTL DEF Spec

\* One request at a time on a checksummed link, a frame that send_frame took for
\* acknowledged was executed by the firmware, as it was sent or, where its checksum
\* was garbled away before ValidateChecksum required one, as something else; for
\* every number of retries and whatever is lost, garbled, late, dropped or restarted.
THEOREM AcknowledgedIsExecuted == Spec => []TransactionsExecuteAcked
<1>1. FaultInv => TransactionsExecuteAcked
      BY DEF FaultInv, OneRequest, Sequential, ExecInv, TransactionsExecuteAcked, Taken
<1>2. QED  BY <1>1, FaultAlways, PTL

\* With checksums on and answers in time, send_frame gives up only after each
\* of its max_retries + 1 attempts met a fault of its own.
THEOREM RetriesOutlastFaults == Spec => [](Sequential => RetriesAbsorbFaults)
<1>1. FaultInv => (Sequential => RetriesAbsorbFaults)
  <2> SUFFICES ASSUME FaultInv, Sequential, host.result = "err", cfg.checksum, ~cfg.late
               PROVE  hist.spent > cfg.retries
      BY DEF RetriesAbsorbFaults
  <2>1. RetryInv
        BY DEF FaultInv, Timely
  <2>2. QED  BY <2>1 DEF RetryInv
<1>2. QED  BY <1>1, FaultAlways, PTL

\* Without a fault, a transaction whose requests accept no reply of a later one
\* hands every request its own (transaction, dispatch_frame), whether or not
\* checksums have to be negotiated first.
THEOREM UnhinderedRepliesArrive == Spec => [](Sequential => DistinctRepliesReachTheirRequest)
<1>1. FaultInv => (Sequential => DistinctRepliesReachTheirRequest)
  <2> SUFFICES ASSUME FaultInv, Sequential, host.op = "transaction", host.result = "ok",
                      hist.spent = 0, ~cfg.late,
                      \A j \in DOMAIN host.batch : \A k \in 1..(j - 1) :
                          host.batch[k].reply /\ host.batch[k].kind # host.batch[j].kind
               PROVE  \A j \in DOMAIN host.batch : host.batch[j].reply =>
                          \E f \in host.got[j] : f.id = <<host.txn, j>>
      BY DEF DistinctRepliesReachTheirRequest
  <2>1. DistinctInv /\ Unhindered
        BY DEF FaultInv, Unhindered, Distinct
  <2>2. Served(host, Len(host.batch))
        BY <2>1 DEF DistinctInv
  <2>3. DOMAIN host.batch = 1..Len(host.batch)
        BY DEF FaultInv, UartSafe, Form, HostType
  <2>4. QED  BY <2>2, <2>3 DEF Served
<1>2. QED  BY <1>1, FaultAlways, PTL
=============================================================================
