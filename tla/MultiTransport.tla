--------------------------- MODULE MultiTransport ---------------------------
(***************************************************************************)
(* The firmware's main loop and its links: the CAN-FD server, the UART     *)
(* line servers of the two aux ports, the server that multiplexes them     *)
(* (fw/multi_transport_datagram_server.h) and the register server behind   *)
(* it.  A single thread polls them in a fixed order (fw/moteus.cc), so     *)
(* every poll is one action; but a poll runs callbacks that deliver a      *)
(* frame, write its reply and start the next read, all within that poll.   *)
(*                                                                         *)
(* Each operator takes the firmware state before a call and returns the    *)
(* one after it.  The multiplex server (mjlib) is external: it keeps one   *)
(* read outstanding and starts the next one when the reply to a frame has  *)
(* been written, or at once when there is none.                            *)
(***************************************************************************)
EXTENDS RegisterServer

CONSTANTS
    Requests,    \* what hosts send: records without the id of FrameType
    QueueLimit,  \* bound: frames waiting on a link
    MaxFrames,   \* bound: frames sent
    MaxConfigs   \* bound: configuration updates of the aux ports

RequestType == [writes: Seq(WriteKind), reply: BOOLEAN, bytes: BOOLEAN]

ASSUME MultiTransportAssumption ==
    /\ Requests \subseteq RequestType
    /\ QueueLimit \in Nat /\ MaxFrames \in Nat /\ MaxConfigs \in Nat

VARIABLES
    fw,     \* the links' servers and the server that multiplexes them
    controller, \* the register server
    loop,   \* the poll the main loop makes next
    line,   \* frames waiting on each link
    hist    \* history: frames sent, configuration updates, frames and
            \* commands delivered, and the last frame delivered

vars == <<fw, controller, loop, line, hist>>

AuxPort == {"aux1", "aux2"}
Link == {"can"} \cup AuxPort
None == "none"

\* A UartFdcanusbMicroServer: does it exist, is a read registered with it
\* (current_read_callback_), is a reply being sent (pending_write_callback_)
\* and has its DMA finished.
UartServer == [alive: BOOLEAN, read: BOOLEAN, writing: BOOLEAN, dma: {"busy", "finished"}]
Absent == [alive |-> FALSE, read |-> FALSE, writing |-> FALSE, dma |-> "finished"]
NewServer == [Absent EXCEPT !.alive = TRUE]

FirmwareType ==
    [canRead: BOOLEAN,          \* FDCanMicroServer::current_read_callback_
     uart: [AuxPort -> UartServer],
     active: AuxPort \cup {None},  \* uart_server_
     pendingRead: BOOLEAN,      \* pending_read_callback_
     canInFlight: BOOLEAN, uartInFlight: BOOLEAN,
     pendingWrite: BOOLEAN,     \* pending_uart_write_callback_
     asserted: {"none", "read", "write"}]  \* an MJ_ASSERT that failed

MJ_ASSERT(f, ok, name) ==
    IF ok \/ f.asserted # "none" THEN f ELSE [f EXCEPT !.asserted = name]

Running == fw.asserted = "none"

-----------------------------------------------------------------------------
(* Reads and writes                                                        *)

FDCanAsyncRead(f) ==
    [MJ_ASSERT(f, ~f.canRead, "read") EXCEPT !.canRead = TRUE]
UartAsyncRead(f, p) ==
    [MJ_ASSERT(f, ~f.uart[p].read, "read") EXCEPT !.uart[p].read = TRUE]

StartCanRead(f) ==
    IF f.canInFlight THEN f ELSE FDCanAsyncRead([f EXCEPT !.canInFlight = TRUE])
StartUartRead(f) ==
    IF f.active = None \/ f.uartInFlight THEN f
    ELSE UartAsyncRead([f EXCEPT !.uartInFlight = TRUE], f.active)

AsyncRead(f) ==
    StartUartRead(StartCanRead(
        [MJ_ASSERT(f, ~f.pendingRead, "read") EXCEPT !.pendingRead = TRUE]))

\* AsyncWrite of the reply to a frame from `link'.  The CAN write completes
\* within the call; the UART write when its DMA has; without UART at once,
\* with an error.  Completion starts the next read.
AsyncWrite(f, link) ==
    IF link = "can" \/ f.active = None THEN AsyncRead(f)
    ELSE [MJ_ASSERT(f, ~f.uart[f.active].writing, "write") EXCEPT
             !.pendingWrite = TRUE,
             !.uart[f.active] = [@ EXCEPT !.writing = TRUE, !.dma = "busy"]]

\* The multiplex server answers a frame that asks for it and is not discarded.
Answered(frame) == frame.reply /\ ~ProcessFrame(controller, frame).discard

\* HandleCanRead and HandleUartRead once their flag is cleared: without a
\* pending read the frame is dropped, an empty one only restarts the read.
Delivered(f, frame) == f.pendingRead /\ frame.bytes
DeliverRead(f, link, frame) ==
    IF ~f.pendingRead THEN f
    ELSE IF frame.bytes /\ Answered(frame)
         THEN AsyncWrite([f EXCEPT !.pendingRead = FALSE], link)
         ELSE AsyncRead([f EXCEPT !.pendingRead = FALSE])

HandleCanRead(f, frame) ==
    DeliverRead([f EXCEPT !.canRead = FALSE, !.canInFlight = FALSE], "can", frame)
HandleUartRead(f, p, frame) ==
    DeliverRead([f EXCEPT !.uart[p].read = FALSE, !.uartInFlight = FALSE], p, frame)

\* The completion callback AsyncWrite gives to the UART server: it takes
\* whatever callback is stored by then.
WriteFinished(f, p) ==
    LET g == [f EXCEPT !.uart[p].writing = FALSE]
    IN  IF g.pendingWrite THEN AsyncRead([g EXCEPT !.pendingWrite = FALSE]) ELSE g

-----------------------------------------------------------------------------
(* Changing the UART                                                       *)

\* Mutants: the old server's read is still counted as under way; the callback
\* of a reply the old server will never finish is not called.
DeafSetActiveUartServer(f, new) ==
    IF new = f.active THEN f
    ELSE LET g == [f EXCEPT !.active = new]
             h == IF g.pendingWrite THEN AsyncRead([g EXCEPT !.pendingWrite = FALSE]) ELSE g
         IN  IF h.pendingRead THEN StartUartRead(h) ELSE h
ForgetfulSetActiveUartServer(f, new) ==
    IF new = f.active THEN f
    ELSE LET g == [f EXCEPT !.active = new, !.uartInFlight = FALSE]
         IN  IF g.pendingRead THEN StartUartRead(g) ELSE g

SetActiveUartServer(f, new) ==
    IF new = f.active THEN f
    ELSE LET g == [f EXCEPT !.active = new, !.uartInFlight = @ /\ f.active = None]
             h == IF g.pendingWrite THEN AsyncRead([g EXCEPT !.pendingWrite = FALSE]) ELSE g
         IN  IF h.pendingRead THEN StartUartRead(h) ELSE h

\* aux1 takes priority over aux2.
FirstPort(ports) ==
    IF "aux1" \in ports THEN "aux1" ELSE IF "aux2" \in ports THEN "aux2" ELSE None

\* Mutant: the port that changed wins.
GreedyUartServerChanged(f, p, present) ==
    LET serving == {q \in AuxPort \ {p} : f.uart[q].alive}
    IN  SetActiveUartServer(f, IF present THEN p ELSE FirstPort(serving))

\* The callbacks of the aux ports, with the server they announce (or none).
UartServerChanged(f, p, present) ==
    LET serving == {q \in AuxPort \ {p} : f.uart[q].alive} \cup (IF present THEN {p} ELSE {})
    IN  SetActiveUartServer(f, FirstPort(serving))

\* AuxPort::HandleConfigUpdate announces that its server goes away, destroys
\* it, and creates and announces a new one when the UART mode is kSerial.
HandleConfigUpdate(f, p, serial) ==
    LET gone == [UartServerChanged(f, p, FALSE) EXCEPT !.uart[p] = Absent]
    IN  IF serial THEN UartServerChanged([gone EXCEPT !.uart[p] = NewServer], p, TRUE)
        ELSE gone

-----------------------------------------------------------------------------
(* The main loop                                                           *)

\* A host sends a frame on a link.
Arrive ==
    /\ hist.sent < MaxFrames
    /\ \E link \in Link, request \in Requests :
          /\ link \in AuxPort => fw.uart[link].alive
          /\ Len(line[link]) < QueueLimit
          /\ line' = [line EXCEPT ![link] =
                Append(@, [id |-> hist.sent + 1, writes |-> request.writes,
                           reply |-> request.reply, bytes |-> request.bytes])]
    /\ hist' = [hist EXCEPT !.sent = @ + 1]
    /\ UNCHANGED <<fw, controller, loop>>

\* The register server sees the frames that are delivered.
ReceiveFrame(f, frame) ==
    IF Delivered(f, frame)
    THEN /\ controller' = ProcessFrame(controller, frame)
         /\ hist' = [hist EXCEPT !.delivered = @ \cup {frame}, !.last = {frame}]
    ELSE UNCHANGED <<controller, hist>>

\* FDCanMicroServer::Poll: the frame stays in the hardware without a read.
PollCan ==
    /\ Running /\ loop = "can"
    /\ IF fw.canRead /\ line["can"] # <<>>
       THEN /\ fw' = HandleCanRead(fw, Head(line["can"]))
            /\ line' = [line EXCEPT !["can"] = Tail(@)]
            /\ ReceiveFrame(fw, Head(line["can"]))
       ELSE UNCHANGED <<fw, controller, line, hist>>
    /\ loop' = "uart"

\* UartFdcanusbMicroServer::Poll: finish a DMA write, then take one line,
\* which is acknowledged but dropped without a read.
PollUartOf(p) ==
    \E f \in {IF fw.uart[p].writing /\ fw.uart[p].dma = "finished"
             THEN WriteFinished(fw, p) ELSE fw} :
        IF line[p] = <<>> THEN fw' = f /\ UNCHANGED <<controller, line, hist>>
        ELSE /\ fw' = IF f.uart[p].read THEN HandleUartRead(f, p, Head(line[p])) ELSE f
             /\ line' = [line EXCEPT ![p] = Tail(@)]
             /\ IF f.uart[p].read THEN ReceiveFrame(f, Head(line[p])) ELSE UNCHANGED <<controller, hist>>

PollUart ==
    /\ Running /\ loop = "uart"
    /\ IF fw.active = None THEN UNCHANGED <<fw, controller, line, hist>> ELSE PollUartOf(fw.active)
    /\ loop' = "controller"

\* The UART hardware has sent a reply, polled or not.
DmaFinish ==
    /\ Running
    /\ \E p \in AuxPort :
          /\ fw.uart[p].dma = "busy"
          /\ fw' = [fw EXCEPT !.uart[p].dma = "finished"]
    /\ UNCHANGED <<controller, loop, line, hist>>

\* MoteusController::Poll: bldc_.Command(command_).
PollController ==
    /\ Running /\ loop = "controller"
    /\ controller' = [controller EXCEPT !.valid = FALSE]
    /\ hist' = IF controller.valid
               THEN [hist EXCEPT !.commands = @ \cup {controller.command}] ELSE hist
    /\ loop' = "config" /\ UNCHANGED <<fw, line>>

\* The rest of the loop, in which a diagnostic command may change the
\* configuration of an aux port.
PollRest ==
    /\ Running /\ loop = "config"
    /\ loop' = "can" /\ UNCHANGED <<fw, controller, line, hist>>

ConfigUpdate ==
    /\ Running /\ loop = "config" /\ hist.configs < MaxConfigs
    /\ \E p \in AuxPort, serial \in BOOLEAN :
          /\ fw' = HandleConfigUpdate(fw, p, serial)
          /\ line' = [line EXCEPT ![p] = <<>>]
    /\ hist' = [hist EXCEPT !.configs = @ + 1]
    /\ loop' = "can" /\ UNCHANGED controller

-----------------------------------------------------------------------------
\* Power on with either, both or none of the ports configured as kSerial;
\* multiplex_protocol.Start makes the first read.
Booted(serial) ==
    AsyncRead([canRead |-> FALSE,
               uart |-> [p \in AuxPort |-> IF p \in serial THEN NewServer ELSE Absent],
               active |-> FirstPort(serial),
               pendingRead |-> FALSE, canInFlight |-> FALSE, uartInFlight |-> FALSE,
               pendingWrite |-> FALSE, asserted |-> "none"])

Init ==
    /\ \E serial \in SUBSET AuxPort : fw = Booted(serial)
    /\ controller = InitController
    /\ loop = "can"
    /\ line = [link \in Link |-> <<>>]
    /\ hist = [sent |-> 0, configs |-> 0, delivered |-> {}, commands |-> {}, last |-> {}]

LoopStep == PollCan \/ PollUart \/ PollController \/ PollRest

Next == Arrive \/ LoopStep \/ ConfigUpdate \/ DmaFinish

Spec == Init /\ [][Next]_vars

\* The main loop never blocks, and a DMA transfer ends.  Nothing obliges a
\* host to send or to change the configuration.
Fairness == WF_vars(LoopStep) /\ WF_vars(DmaFinish)
FairSpec == Spec /\ Fairness

-----------------------------------------------------------------------------
(* Properties                                                              *)

HistoryType ==
    [sent: 0..MaxFrames, configs: 0..MaxConfigs, delivered: SUBSET FrameType,
     commands: SUBSET CommandData, last: SUBSET FrameType]

\* Every object keeps its type, a frame that was discarded leaves no command for
\* the next poll (discard_all_, command_valid_), and links hold at most
\* QueueLimit frames.
TypeOK ==
    /\ fw \in FirmwareType /\ controller \in ControllerType
    /\ controller.discard => ~controller.valid
    /\ loop \in {"can", "uart", "controller", "config"}
    /\ line \in [Link -> Seq(FrameType)]
    /\ \A link \in Link : Len(line[link]) <= QueueLimit
    /\ hist \in HistoryType

\* The reader waits for exactly one thing: a frame, with a read registered at
\* the CAN server and at the active UART server (no link goes deaf when the
\* UART changes), or the end of a reply the active UART server is sending.
Listening ==
    Running =>
        \/ /\ fw.pendingRead /\ ~fw.pendingWrite /\ fw.canRead
           /\ fw.active # None => fw.uart[fw.active].read
        \/ /\ fw.pendingWrite /\ ~fw.pendingRead
           /\ fw.active # None /\ fw.uart[fw.active].writing

\* "aux1 takes priority over aux2 when both are available", after any sequence
\* of configuration updates, and a destroyed server is never the active one.
PriorityKept ==
    fw.active = FirstPort({p \in AuxPort : fw.uart[p].alive})

\* What the servo is given is the command of one frame
\* that was delivered and not discarded, whole, and never mixed with what
\* other frames wrote between it and the poll.
CommandsWhole ==
    \A c \in hist.commands :
        \E frame \in hist.delivered : Commanding(frame) /\ c = Commanded(frame)

\* The last frame delivered before a poll is the one the servo obeys.
LastCommandApplied ==
    loop = "config" => \A frame \in hist.last :
        Commanding(frame) => Commanded(frame) \in hist.commands

\* After a reply the reader listens again, whatever happens to the UART.
ReadsAgain == fw.pendingWrite ~> (fw.pendingRead \/ ~Running)

\* MJ_ASSERT(!current_read_callback_) and MJ_ASSERT(!pending_read_callback_):
\* no read is started where one is registered.
NoReadAssert == fw.asserted # "read"
=============================================================================
