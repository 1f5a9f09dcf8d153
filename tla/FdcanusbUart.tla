---------------------------- MODULE FdcanusbUart ----------------------------
(***************************************************************************)
(* A moteus controlled over a TTL UART: the Rust transport in UART mode    *)
(* (lib/rust/moteus/src/transport/fdcanusb.rs and, with Async, its tokio   *)
(* twin async_fdcanusb.rs) against the line server in the firmware         *)
(* (fw/uart_fdcanusb_micro_server.h), over a link that loses and garbles   *)
(* lines.                                                                  *)
(*                                                                         *)
(* The transport sends one frame at a time, retries it until an OK comes   *)
(* back, then waits for its reply.  Lines that may still be under way when *)
(* an operation gives up are remembered in needs_flush (and, when a future *)
(* is dropped, needs_recovery), and the next operation drains them first.  *)
(***************************************************************************)
EXTENDS Integers, Sequences, SequencesExt

CONSTANT Scenarios   \* the configurations and applications to check

\* A request built by Request::from_command.  `kind' is the class of reply
\* its content filter accepts.
RequestType == [reply: BOOLEAN, kind: {"query", "diagnostic"}]

\* A scenario fixes the transport (async is TRUE for AsyncFdcanusbDevice), its
\* FdcanusbOptions (checksum is checksum_enabled, retries is max_retries), the
\* operations the application uses and the request sequences it submits,
\* whether an answer may arrive after the deadline that awaits it, and two
\* bounds: operations started, and link faults and device restarts.
ASSUME UartAssumption ==
    \A s \in Scenarios :
        /\ s.batches \subseteq Seq(RequestType) \ {<<>>}
        /\ s.ops \subseteq {"transaction", "write", "flush", "read"}
        /\ s.async \in BOOLEAN /\ s.checksum \in BOOLEAN /\ s.late \in BOOLEAN
        /\ s.retries \in Nat /\ s.maxOps \in Nat /\ s.maxFaults \in Nat

VARIABLES
    cfg,     \* the scenario, fixed when the transport is opened
    host,    \* the transport object and the operation it is running
    toDev,   \* lines from the host the firmware has not processed
    dev,     \* the firmware: checksum_active_ and its write buffers
    toHost,  \* lines from the firmware the host has not read
    hist     \* history: frames acknowledged to the application, frames the
             \* firmware executed as they were sent or misread as something
             \* else, faults so far and since the operation began

vars == <<cfg, host, toDev, dev, toHost, hist>>

-----------------------------------------------------------------------------
(* Lines and frames                                                        *)

\* A frame is named by its operation and its place in the batch.
FrameId == Nat \X Nat
NoFrame == [id |-> <<0, 0>>, kind |-> "query"]
Frame == [id: FrameId, kind: {"query", "diagnostic"}]

\* "can send ...": crc is a trailing " *XX" as the receiver finds it, full the
\* newline.  A line with intact = FALSE arrives with other bytes than were sent.
CommandLine == [frame: Frame, reply: BOOLEAN, crc: BOOLEAN, intact: BOOLEAN, full: BOOLEAN]

\* "OK", "rcv ...", "ERR checksum", "ERR unknown command" or another ERR.
ErrorKind == {"checksum", "unknown", "malformed"}
ResponseLine ==
    [kind: {"OK", "rcv"} \cup ErrorKind, frame: Frame, crc: BOOLEAN, intact: BOOLEAN]

Response(kind, frame, crc) ==
    [kind |-> kind, frame |-> frame, crc |-> crc, intact |-> TRUE]

-----------------------------------------------------------------------------
(* The host                                                                *)

IdleHost ==
    [pc |-> "idle", op |-> "none", txn |-> 0, batch |-> <<>>, i |-> 0,
     attempt |-> 0, crc |-> cfg.checksum, flush |-> FALSE, recover |-> FALSE,
     pending |-> <<>>, got |-> <<>>, result |-> "none"]

Current(h) == h.batch[h.i]
Quiet == toDev = <<>> /\ dev.out = <<>> /\ toHost = <<>>
Ended(h, result) == [h EXCEPT !.pc = "idle", !.result = result]

\* Mutant: the content filter is not consulted.
RoutingOnlyMatches(request, frame) == TRUE

\* FrameFilter of a request: a request without reply has FrameFilter::Any.
Matches(request, frame) == ~request.reply \/ request.kind = frame.kind

\* dispatch_frame: a frame goes to the first request whose filter matches.
FirstMatch(batch, frame) ==
    {j \in 1..Len(batch) :
        /\ Matches(batch[j], frame)
        /\ \A k \in 1..(j - 1) : ~Matches(batch[k], frame)}

dispatch(h, frames) ==
    [h EXCEPT !.got = [j \in DOMAIN h.got |->
        h.got[j] \cup {f \in frames : j \in FirstMatch(h.batch, f)}]]

\* Mutant: one request too many.
OverrunAdvance(h) ==
    IF h.i <= Len(h.batch)
    THEN [h EXCEPT !.i = @ + 1, !.attempt = 0, !.pc = "send"]
    ELSE [Ended(h, "ok") EXCEPT !.recover = FALSE]

\* The next request of a transaction, or its end.
Advance(h) ==
    IF h.i < Len(h.batch)
    THEN [h EXCEPT !.i = @ + 1, !.attempt = 0, !.pc = "send"]
    ELSE [Ended(h, "ok") EXCEPT !.recover = FALSE]

\* Mutant: a retried command leaves no mark.
ForgetfulAcked(h) ==
    CASE h.op = "write" -> Ended(h, "ok")
      [] h.op = "transaction" /\ Current(h).reply ->
            [dispatch(h, Range(h.pending)) EXCEPT !.pending = <<>>, !.pc = "reply"]
      [] OTHER -> Advance(h)

\* send_frame returns Ok: what a retried command still has under way must be
\* flushed later.  A request with a reply then takes over the frames that
\* arrived before the OK.
Acked(h) ==
    LET t == [h EXCEPT !.flush = @ \/ h.attempt > 0] IN
    CASE h.op = "write" -> Ended(t, "ok")
      [] h.op = "transaction" /\ Current(h).reply ->
            [dispatch(t, Range(h.pending)) EXCEPT !.pending = <<>>, !.pc = "reply"]
      [] OTHER -> Advance(t)

\* Mutant: one attempt too few.
ImpatientFailed(h, retryable) ==
    IF retryable /\ h.attempt + 1 < cfg.retries
    THEN [h EXCEPT !.attempt = @ + 1, !.pc = "send"]
    ELSE [Ended(h, "err") EXCEPT !.flush = TRUE]

\* send_frame after a failed wait_for_ok.
Failed(h, retryable) ==
    IF retryable /\ h.attempt < cfg.retries
    THEN [h EXCEPT !.attempt = @ + 1, !.pc = "send"]
    ELSE [Ended(h, "err") EXCEPT !.flush = TRUE]

Started(h) == [h EXCEPT !.pc = "send", !.recover = cfg.async /\ h.op = "transaction"]

\* recover_impl sends a bare newline that ends a half-written command.
Terminated(lines) ==
    IF lines # <<>> /\ ~Last(lines).full
    THEN Front(lines) \o <<[Last(lines) EXCEPT !.full = TRUE]>> ELSE lines

\* transaction(), write() and flush() up to their first wait.
Begin ==
    /\ host.pc = "idle" /\ host.txn < cfg.maxOps
    /\ \E op \in cfg.ops \ {"read"} :
       \E batch \in IF op = "transaction" THEN cfg.batches
                    ELSE {<<[reply |-> FALSE, kind |-> "query"]>>} :
          LET h == [host EXCEPT !.op = op, !.txn = @ + 1, !.batch = batch, !.i = 1,
                      !.attempt = 0, !.result = "none", !.got = [j \in 1..Len(batch) |-> {}]]
              dirty == host.flush \/ host.recover
          IN IF op = "flush" \/ dirty
             THEN /\ host' = [h EXCEPT !.pc = "drain", !.pending = <<>>]
                  /\ toDev' = IF op # "flush" /\ host.recover THEN Terminated(toDev) ELSE toDev
             ELSE host' = Started(h) /\ UNCHANGED toDev
    /\ hist' = [hist EXCEPT !.spent = 0]
    /\ UNCHANGED <<cfg, dev, toHost>>

\* drain_input / recover_impl discard whatever arrives for 20 or 50 ms.
DrainLine ==
    /\ host.pc = "drain" /\ toHost # <<>>
    /\ toHost' = Tail(toHost)
    /\ UNCHANGED <<cfg, host, toDev, dev, hist>>

\* The drain is assumed to outlast every answer: the firmware responds within
\* milliseconds.
DrainEnd ==
    /\ host.pc = "drain"
    /\ toHost = <<>> /\ dev.out = <<>> /\ \A k \in DOMAIN toDev : ~toDev[k].full
    /\ host' = IF host.op = "flush" THEN [Ended(host, "ok") EXCEPT !.flush = FALSE]
               ELSE [Started(host) EXCEPT !.flush = FALSE]
    /\ UNCHANGED <<cfg, toDev, dev, toHost, hist>>

\* write_frame.  A half-written command and this one form one garbled line.
Sent ==
    LET line == [frame |-> [id |-> <<host.txn, host.i>>, kind |-> Current(host).kind],
                 reply |-> Current(host).reply, crc |-> host.crc,
                 intact |-> TRUE, full |-> TRUE]
    IN IF toDev # <<>> /\ ~Last(toDev).full
       THEN Front(toDev) \o <<[line EXCEPT !.intact = FALSE]>> ELSE Append(toDev, line)

write_frame ==
    /\ host.pc = "send"
    /\ toDev' = Sent
    /\ host' = [host EXCEPT !.pc = "ok"]
    /\ UNCHANGED <<cfg, dev, toHost, hist>>

\* apply_checksum_policy: strip_checksum sees no checksum in a line that does
\* not end in one, be it that its " *XX" was garbled.
Accepted(line) == IF line.crc THEN line.intact ELSE ~host.crc

\* What an accepted line may look like: without a checksum a garbled line may
\* still pass, look like an error, or be an unparsable frame.
Readings(line) ==
    IF line.intact THEN {line.kind} ELSE {line.kind, "malformed", "unparsable"}

\* wait_for_ok_timeout, one line.
wait_for_ok ==
    /\ host.pc = "ok" /\ toHost # <<>>
    /\ toHost' = Tail(toHost)
    /\ LET line == Head(toHost) IN
       \/ /\ ~Accepted(line)
          /\ UNCHANGED <<host, hist>>
       \/ /\ Accepted(line) /\ "OK" \in Readings(line)
          /\ host' = Acked(host)
          /\ hist' = [hist EXCEPT !.acked = @ \cup {<<host.txn, host.i>>}]
       \/ /\ Accepted(line) /\ "rcv" \in Readings(line)
          /\ host' = [host EXCEPT !.pending = Append(@, line.frame)]
          /\ UNCHANGED hist
       \/ /\ Accepted(line) /\ "unparsable" \in Readings(line)
          /\ UNCHANGED <<host, hist>>
       \/ /\ Accepted(line)
          /\ \E error \in Readings(line) \cap ErrorKind :
                host' = Failed([host EXCEPT !.crc = @ \/ error = "checksum"],
                               error \in {"checksum", "unknown"})
          /\ UNCHANGED hist
    /\ UNCHANGED <<cfg, toDev, dev>>

\* Mutant: the deadline is only looked at when a line arrives.
DeafOkTimeout ==
    /\ host.pc = "ok" /\ toHost # <<>> /\ (cfg.late \/ Quiet)
    /\ host' = Failed(host, TRUE)
    /\ UNCHANGED <<cfg, toDev, dev, toHost, hist>>

\* read_line_deadline expires: retried like a retryable error.
OkTimeout ==
    /\ host.pc = "ok" /\ (cfg.late \/ Quiet)
    /\ host' = Failed(host, TRUE)
    /\ UNCHANGED <<cfg, toDev, dev, toHost, hist>>

Satisfied == host.got[host.i] # {}

\* receive_replies_uart, one line, and its two ways out.
receive_reply ==
    /\ host.pc = "reply" /\ ~Satisfied /\ toHost # <<>>
    /\ toHost' = Tail(toHost)
    /\ LET line == Head(toHost) IN
       \/ /\ Accepted(line) /\ "rcv" \in Readings(line)
          /\ host' = dispatch(host, {line.frame})
       \/ /\ ~Accepted(line) \/ Readings(line) # {"rcv"}
          /\ UNCHANGED host
    /\ UNCHANGED <<cfg, toDev, dev, hist>>

ReplyDone ==
    /\ host.pc = "reply" /\ Satisfied
    /\ host' = Advance(host)
    /\ UNCHANGED <<cfg, toDev, dev, toHost, hist>>

\* Mutant: a missing reply is tolerated without a trace.
SilentReplyTimeout ==
    /\ host.pc = "reply" /\ ~Satisfied /\ (cfg.late \/ Quiet)
    /\ host' = Advance(host)
    /\ UNCHANGED <<cfg, toDev, dev, toHost, hist>>

\* Timeout: the shortfall is tolerated.
ReplyTimeout ==
    /\ host.pc = "reply" /\ ~Satisfied /\ (cfg.late \/ Quiet)
    /\ host' = Advance([host EXCEPT !.flush = TRUE])
    /\ UNCHANGED <<cfg, toDev, dev, toHost, hist>>

\* read(), for the application: a buffered frame, else the next line.
read ==
    /\ host.pc = "idle" /\ "read" \in cfg.ops
    /\ \/ /\ host.pending # <<>>
          /\ host' = [host EXCEPT !.pending = Front(@)]
          /\ UNCHANGED toHost
       \/ /\ host.pending = <<>> /\ toHost # <<>>
          /\ toHost' = Tail(toHost)
          /\ UNCHANGED host
    /\ UNCHANGED <<cfg, toDev, dev, hist>>

\* Mutant: a dropped future is taken for a finished one.
CleanCancel ==
    /\ cfg.async /\ host.pc # "idle"
    /\ host' = [host EXCEPT !.pc = "idle", !.recover = FALSE]
    /\ UNCHANGED <<cfg, toDev, dev, toHost, hist>>

\* The future of the operation is dropped at one of its awaits; dropping
\* write_all may leave half a command on the wire.
Cancel ==
    /\ cfg.async /\ host.pc # "idle"
    /\ host' = [host EXCEPT !.pc = "idle"]
    /\ \/ UNCHANGED toDev
       \/ /\ host.pc = "send"
          /\ toDev' = LET line == Last(Sent)
                      IN IF toDev # <<>> /\ ~Last(toDev).full THEN toDev
                         ELSE Append(toDev, [line EXCEPT !.crc = FALSE, !.intact = FALSE,
                                                         !.full = FALSE])
    /\ UNCHANGED <<cfg, dev, toHost, hist>>

-----------------------------------------------------------------------------
(* The firmware                                                            *)

\* AsyncWrite tracks one reply until its buffer has been sent; until then the
\* multiplex server has no read outstanding.
ReadPending == \A k \in DOMAIN dev.out : dev.out[k].kind # "rcv"

\* ValidateChecksum: until checksum_active_ a line that ends in no " *XX", as one
\* whose checksum was garbled away, passes for a line without.
ValidateChecksum(line) == IF line.crc THEN line.intact ELSE ~dev.crc

\* What the firmware makes of a line that passed: without a checksum a garbled
\* one may be taken for a command, refused, or carry another prefix.
Interpretations(line) ==
    IF line.intact THEN {"command"} ELSE {"command", "unknown", "malformed", "foreign"}

\* ProcessLine: the OK precedes the delivery, and a command that finds no
\* pending read is acknowledged and dropped.
ProcessLine ==
    /\ toDev # <<>> /\ Head(toDev).full
    /\ toDev' = Tail(toDev)
    /\ LET line == Head(toDev)
           crc == dev.crc \/ (line.crc /\ line.intact)
           Answer(lines) == dev' = [crc |-> crc, out |-> dev.out \o lines]
       IN \/ /\ ~ValidateChecksum(line)
             /\ Answer(<<Response("checksum", NoFrame, crc)>>)
             /\ UNCHANGED hist
          \/ /\ ValidateChecksum(line) /\ "command" \in Interpretations(line)
             /\ IF ReadPending
                THEN /\ Answer(<<Response("OK", NoFrame, crc)>> \o
                               (IF line.reply THEN <<Response("rcv", line.frame, crc)>>
                                ELSE <<>>))
                     /\ hist' = IF line.intact
                                THEN [hist EXCEPT !.executed = @ \cup {line.frame.id}]
                                ELSE [hist EXCEPT !.misread = @ \cup {line.frame.id}]
                ELSE Answer(<<Response("OK", NoFrame, crc)>>) /\ UNCHANGED hist
          \/ /\ ValidateChecksum(line)
             /\ \E error \in Interpretations(line) \cap ErrorKind :
                   Answer(<<Response(error, NoFrame, crc)>>)
             /\ UNCHANGED hist
          \/ /\ ValidateChecksum(line) /\ "foreign" \in Interpretations(line)
             /\ Answer(<<>>)
             /\ UNCHANGED hist
    /\ UNCHANGED <<cfg, host, toHost>>

\* Poll: a line of the write buffers has been sent by DMA.
Poll ==
    /\ dev.out # <<>>
    /\ toHost' = Append(toHost, Head(dev.out))
    /\ dev' = [dev EXCEPT !.out = Tail(@)]
    /\ UNCHANGED <<cfg, host, toDev, hist>>

-----------------------------------------------------------------------------
(* Faults                                                                  *)

Fault ==
    /\ hist.faults < cfg.maxFaults
    /\ hist' = [hist EXCEPT !.faults = @ + 1, !.spent = @ + 1]
    /\ UNCHANGED <<cfg, host>>

\* What noise may make of a line: its " *XX" may be among the bytes that change,
\* and the end of a line without ("bF") may come to look like one.
Garbled(line) == {[line EXCEPT !.intact = FALSE, !.crc = crc] : crc \in BOOLEAN}

\* The first line is lost or garbled.
Disturbed(lines) ==
    {Tail(lines)} \cup {<<line>> \o Tail(lines) : line \in Garbled(Head(lines))}

LinkFault ==
    /\ Fault /\ UNCHANGED dev
    /\ \/ /\ toDev # <<>> /\ Head(toDev).full
          /\ toDev' \in Disturbed(toDev)
          /\ UNCHANGED toHost
       \/ /\ toHost # <<>>
          /\ toHost' \in Disturbed(toHost)
          /\ UNCHANGED toDev

\* The controller restarts and forgets its buffers and checksum_active_.
DeviceReset ==
    /\ Fault /\ (dev.crc \/ dev.out # <<>>)
    /\ dev' = [crc |-> FALSE, out |-> <<>>]
    /\ UNCHANGED <<cfg, toDev, toHost>>

-----------------------------------------------------------------------------
Init ==
    /\ cfg \in Scenarios
    /\ host = IdleHost
    /\ toDev = <<>> /\ toHost = <<>>
    /\ \E crc \in BOOLEAN : dev = [crc |-> crc, out |-> <<>>]
    /\ hist = [acked |-> {}, executed |-> {}, misread |-> {}, faults |-> 0, spent |-> 0]

HostStep ==
    \/ DrainLine \/ DrainEnd \/ write_frame \/ wait_for_ok \/ OkTimeout
    \/ receive_reply \/ ReplyDone \/ ReplyTimeout

Next ==
    \/ Begin \/ HostStep \/ read \/ Cancel
    \/ ProcessLine \/ Poll \/ LinkFault \/ DeviceReset

Spec == Init /\ [][Next]_vars

\* A started call keeps running until its deadlines pass, and the firmware
\* polls its UART.  Nothing obliges the application to call or the link to fail.
FairSpec == Spec /\ WF_vars(HostStep) /\ WF_vars(ProcessLine) /\ WF_vars(Poll)

-----------------------------------------------------------------------------
(* Properties                                                              *)

\* Host, firmware and every line on the wire keep their types.
TypeOK ==
    /\ cfg \in Scenarios
    /\ host \in [pc: {"idle", "drain", "send", "ok", "reply"},
                 op: cfg.ops \cup {"none"}, txn: 0..cfg.maxOps, batch: Seq(RequestType), i: Nat,
                 attempt: 0..cfg.retries, crc: BOOLEAN, flush: BOOLEAN, recover: BOOLEAN,
                 pending: Seq(Frame), got: Seq(SUBSET Frame), result: {"none", "ok", "err"}]
    /\ host.pc # "idle" => host.i \in DOMAIN host.batch
    /\ toDev \in Seq(CommandLine)
    /\ dev \in [crc: BOOLEAN, out: Seq(ResponseLine)]
    /\ toHost \in Seq(ResponseLine)

\* "flushes them first so they are not misattributed": a reply handed to a
\* request was produced by the transaction the request belongs to, whatever
\* was lost, repeated, late or cancelled before.
NoStaleReply ==
    \A j \in DOMAIN host.got : \A f \in host.got[j] : f.id[1] = host.txn

\* needs_flush / needs_recovery: when neither is set between operations,
\* nothing of an earlier operation is buffered or on the wire.
FlushFlagged ==
    host.pc = "idle" /\ ~host.flush /\ ~host.recover => Quiet /\ host.pending = <<>>

\* "each acknowledged (with retries)": a frame the transport took for
\* acknowledged was executed by the firmware.
AckedMeansExecuted == hist.acked \subseteq hist.executed

\* The same where it holds: on a checksummed link, one request at a time,
\* whatever is lost, late or dropped.  It fails for a frame that the firmware
\* misread: before its checksum_active_ it takes a command whose checksum was
\* garbled too, the host discards the reply, which has no checksum, and the
\* retry may come while that reply is leaving: the firmware acknowledges and
\* drops a command then.  It also fails for async writes (write() sets no
\* needs_recovery, so a dropped one leaves its OK to the next frame) and for the
\* request that follows a retried one in its transaction, which is dropped alike.
TransactionsExecuteAcked ==
    (/\ cfg.checksum /\ ~(cfg.async /\ "write" \in cfg.ops)
     /\ \A batch \in cfg.batches : Len(batch) = 1)
    => hist.acked \subseteq hist.executed \cup hist.misread

\* With checksums on and answers in time, an operation reports an error only
\* after every one of its max_retries + 1 attempts met a fault of its own.
RetriesAbsorbFaults ==
    host.result = "err" /\ cfg.checksum /\ ~cfg.late => hist.spent > cfg.retries

\* A transaction that met no fault hands every request its own reply, when
\* answers arrive in time and the requests' content filters tell the replies
\* apart: no request accepts what a later one awaits.
DistinctRepliesReachTheirRequest ==
    (/\ host.op = "transaction" /\ host.result = "ok" /\ hist.spent = 0 /\ ~cfg.late
     /\ \A j \in DOMAIN host.batch : \A k \in 1..(j - 1) :
            host.batch[k].reply /\ host.batch[k].kind # host.batch[j].kind)
    => \A j \in DOMAIN host.batch : host.batch[j].reply =>
           \E f \in host.got[j] : f.id = <<host.txn, j>>

\* A started operation returns: no retry or drain goes on for ever.
OperationEnds == host.pc # "idle" ~> host.pc = "idle"
=============================================================================
