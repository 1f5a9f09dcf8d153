----------------------- MODULE MultiTransport_proofs -----------------------
(***************************************************************************)
(* For every set of requests and every number of frames and configuration  *)
(* updates: the reader always waits for a frame on every link or for the   *)
(* end of one reply, the active UART is the one with priority, and what    *)
(* the servo is given is the command of one frame, the last one when no    *)
(* other has come.                                                         *)
(*                                                                         *)
(* Listening is not inductive.  What a poll finds in flight must agree     *)
(* with what the servers have registered (InFlight), and between two reads *)
(* a call passes through states in which nothing is pending (Between).     *)
(* The command of a frame is assembled by a recursion over its writes; its *)
(* value is found by induction (Induction), write by write.                *)
(***************************************************************************)
EXTENDS MultiTransport, Induction, TLAPS

\* The flags of the multiplexing server agree with the links' servers.
InFlight(f) ==
    /\ f.canInFlight = f.canRead
    /\ f.uartInFlight => f.active # None /\ f.uart[f.active].read

Reading(f) ==
    /\ f.pendingRead /\ ~f.pendingWrite /\ f.canRead
    /\ f.active # None => f.uartInFlight

Replying(f) ==
    /\ f.pendingWrite /\ ~f.pendingRead
    /\ f.active # None /\ f.uart[f.active].writing

\* Nothing pending: the only state in which AsyncRead or AsyncWrite is called.
Between(f) ==
    /\ f \in FirmwareType
    /\ f.asserted = "none" => InFlight(f) /\ ~f.pendingRead /\ ~f.pendingWrite

Waiting(f) ==
    /\ f \in FirmwareType
    /\ f.asserted = "none" => InFlight(f) /\ (Reading(f) \/ Replying(f))

\* A call that changes neither the active server nor which servers exist.
SamePorts(f, g) ==
    /\ g.active = f.active
    /\ \A p \in AuxPort : g.uart[p].alive = f.uart[p].alive

Priority(f) == f.active = FirstPort({p \in AuxPort : f.uart[p].alive})

IndInv == Waiting(fw) /\ Priority(fw)

-----------------------------------------------------------------------------
\* MJ_ASSERT changes at most the record of the first failed assertion.
LEMMA AssertEffect ==
    ASSUME NEW f \in FirmwareType, NEW ok \in BOOLEAN, NEW name \in {"read", "write"}
    PROVE  /\ MJ_ASSERT(f, ok, name) \in FirmwareType
           /\ MJ_ASSERT(f, ok, name).asserted = "none" =>
                 ok /\ f.asserted = "none" /\ MJ_ASSERT(f, ok, name) = f
           /\ SamePorts(f, MJ_ASSERT(f, ok, name))
           /\ MJ_ASSERT(f, ok, name).uart = f.uart
BY DEF MJ_ASSERT, FirmwareType, SamePorts, UartServer

\* Registering or taking a read, and starting or ending a reply, change one
\* field of one UART server.
LEMMA ReadEdit ==
    ASSUME NEW U \in [AuxPort -> UartServer], NEW p \in AuxPort, NEW b \in BOOLEAN
    PROVE  LET V == [U EXCEPT ![p] = [@ EXCEPT !.read = b]] IN
           /\ V \in [AuxPort -> UartServer] /\ V[p].read = b
           /\ \A q \in AuxPort : V[q].alive = U[q].alive /\ V[q].writing = U[q].writing
<1>1. [U[p] EXCEPT !.read = b] \in UartServer
      BY DEF UartServer
<1>2. QED  BY <1>1 DEF UartServer

\* Registering a read at the active UART server: it is registered and counted
\* unless the server already had one, in which case the assertion fails.
LEMMA StartUartReadEffect ==
    ASSUME NEW f \in FirmwareType,
           f.asserted = "none" => InFlight(f)
    PROVE  LET g == StartUartRead(f) IN
           /\ g \in FirmwareType
           /\ SamePorts(f, g)
           /\ g.asserted = "none" =>
                 /\ f.asserted = "none" /\ InFlight(g)
                 /\ g.active # None => g.uartInFlight
                 /\ g.pendingRead = f.pendingRead /\ g.pendingWrite = f.pendingWrite
                 /\ g.canRead = f.canRead
<1> DEFINE e == [f EXCEPT !.uartInFlight = TRUE]
           m == MJ_ASSERT(e, ~e.uart[f.active].read, "read")
<1>1. CASE f.active = None \/ f.uartInFlight
      BY <1>1, SMTT(60) DEF StartUartRead, SamePorts, InFlight
<1>2. CASE ~(f.active = None \/ f.uartInFlight)
  <2>1. e \in FirmwareType /\ f.active \in AuxPort
        BY <1>2 DEF FirmwareType, None
  <2>2. /\ m \in FirmwareType /\ SamePorts(e, m) /\ m.uart = e.uart
        /\ m.asserted = "none" => ~e.uart[f.active].read /\ e.asserted = "none" /\ m = e
    <3>1. (~e.uart[f.active].read) \in BOOLEAN
          BY <2>1 DEF FirmwareType, UartServer
    <3>2. QED  BY <2>1, <3>1, AssertEffect
  <2>3. StartUartRead(f) = [m EXCEPT !.uart[f.active].read = TRUE]
        BY <1>2 DEF StartUartRead, UartAsyncRead
  <2>4. e.uart = f.uart /\ e.active = f.active /\ e.asserted = f.asserted
        BY SMTT(60) DEF FirmwareType
  <2> DEFINE g == StartUartRead(f)
             u == [m.uart EXCEPT ![f.active] = [@ EXCEPT !.read = TRUE]]
  <2>5. g \in FirmwareType /\ SamePorts(f, g) /\ g.uart = u
    <3>1. m.uart \in [AuxPort -> UartServer]
          BY <2>2 DEF FirmwareType
    <3>2. u \in [AuxPort -> UartServer]
          BY <2>1, <3>1, ReadEdit, ZenonT(60)
    <3>3. g = [m EXCEPT !.uart = u]
          BY <2>3
    <3>4. g \in FirmwareType /\ g.uart = u /\ g.active = m.active
          BY <2>2, <3>2, <3>3 DEF FirmwareType
    <3>5. \A p \in AuxPort : u[p].alive = f.uart[p].alive
          BY <2>1, <2>2, <2>4, <3>1, SMTT(60) DEF UartServer
    <3>6. g.active = f.active
          BY <2>2, <2>4, <3>4, ZenonT(60) DEF SamePorts
    <3>7. QED  BY <3>4, <3>5, <3>6 DEF SamePorts
  <2>6. ASSUME StartUartRead(f).asserted = "none"
        PROVE  /\ f.asserted = "none" /\ InFlight(StartUartRead(f))
               /\ StartUartRead(f).active # None => StartUartRead(f).uartInFlight
               /\ StartUartRead(f).pendingRead = f.pendingRead
               /\ StartUartRead(f).pendingWrite = f.pendingWrite
               /\ StartUartRead(f).canRead = f.canRead
    <3>1. m.asserted = "none"
          BY <2>2, <2>3, <2>6 DEF FirmwareType
    <3>2. m = e /\ f.asserted = "none"
          BY <2>2, <2>4, <3>1
    <3>3. /\ g.uartInFlight /\ g.pendingRead = f.pendingRead
          /\ g.pendingWrite = f.pendingWrite
          /\ g.canRead = f.canRead /\ g.canInFlight = f.canInFlight
          /\ g.active = f.active /\ g.uart = u
          BY <2>2, <2>3, <2>5, <3>2, ZenonT(60) DEF FirmwareType
    <3>4. u[f.active].read
          BY <2>1, <2>2, <2>4, <3>2 DEF FirmwareType, UartServer
    <3>5. InFlight(g)
          BY <1>2, <3>2, <3>3, <3>4 DEF InFlight
    <3>6. QED  BY <3>2, <3>3, <3>5
  <2>7. QED  BY <2>5, <2>6
<1>3. QED  BY <1>1, <1>2

\* Registering a read at the CAN server.
LEMMA StartCanReadEffect ==
    ASSUME NEW f \in FirmwareType,
           f.asserted = "none" => InFlight(f)
    PROVE  LET g == StartCanRead(f) IN
           /\ g \in FirmwareType
           /\ SamePorts(f, g)
           /\ g.asserted = "none" =>
                 /\ f.asserted = "none" /\ InFlight(g) /\ g.canRead
                 /\ g.pendingRead = f.pendingRead /\ g.pendingWrite = f.pendingWrite
<1> DEFINE e == [f EXCEPT !.canInFlight = TRUE]
           m == MJ_ASSERT(e, ~e.canRead, "read")
           g == StartCanRead(f)
<1>1. CASE f.canInFlight
      BY <1>1 DEF StartCanRead, SamePorts, InFlight
<1>2. CASE ~f.canInFlight
  <2>1. e \in FirmwareType /\ (~e.canRead) \in BOOLEAN
        BY DEF FirmwareType
  <2>2. /\ m \in FirmwareType /\ SamePorts(e, m) /\ m.uart = e.uart
        /\ m.asserted = "none" => e.asserted = "none" /\ m = e
        BY <2>1, AssertEffect
  <2>3. g = [m EXCEPT !.canRead = TRUE]
        BY <1>2 DEF StartCanRead, FDCanAsyncRead
  <2>4. g \in FirmwareType /\ SamePorts(f, g)
        BY <2>2, <2>3 DEF FirmwareType, SamePorts
  <2>5. g.asserted = m.asserted
        BY <2>2, <2>3 DEF FirmwareType
  <2>6. ASSUME g.asserted = "none"
        PROVE  /\ f.asserted = "none" /\ InFlight(g) /\ g.canRead
               /\ g.pendingRead = f.pendingRead /\ g.pendingWrite = f.pendingWrite
    <3>1. m = e /\ f.asserted = "none"
          BY <2>2, <2>5, <2>6 DEF FirmwareType
    <3>2. QED  BY <2>3, <3>1, ZenonT(60) DEF FirmwareType, InFlight
  <2>7. QED  BY <2>4, <2>6
<1>3. QED  BY <1>1, <1>2

\* AsyncRead, called with nothing pending, leaves a read at every link.
LEMMA AsyncReadEffect ==
    ASSUME NEW f, Between(f)
    PROVE  Waiting(AsyncRead(f)) /\ SamePorts(f, AsyncRead(f))
           /\ (AsyncRead(f).asserted = "none" => AsyncRead(f).pendingRead)
<1> DEFINE m == MJ_ASSERT(f, ~f.pendingRead, "read")
           e == [m EXCEPT !.pendingRead = TRUE]
           c == StartCanRead(e)
           g == StartUartRead(c)
<1>1. f \in FirmwareType /\ (~f.pendingRead) \in BOOLEAN
      BY DEF Between, FirmwareType
<1>2. m \in FirmwareType /\ SamePorts(f, m) /\ (m.asserted = "none" => f.asserted = "none" /\ m = f)
      BY <1>1, AssertEffect
<1>3. e \in FirmwareType /\ SamePorts(f, e) /\ e.asserted = m.asserted
      BY <1>2 DEF FirmwareType, SamePorts
<1>4. e.asserted = "none" => InFlight(e) /\ e.pendingRead /\ ~e.pendingWrite
  <2>1. SUFFICES ASSUME m = f, f.asserted = "none"
                 PROVE  InFlight(e) /\ e.pendingRead /\ ~e.pendingWrite
        BY <1>2, <1>3
  <2>2. /\ e.canInFlight = f.canInFlight /\ e.canRead = f.canRead
        /\ e.uartInFlight = f.uartInFlight /\ e.uart = f.uart /\ e.active = f.active
        /\ e.pendingRead /\ e.pendingWrite = f.pendingWrite
        BY <1>1, <2>1 DEF FirmwareType
  <2>3. QED  BY <2>1, <2>2 DEF InFlight, Between
<1>5. /\ c \in FirmwareType /\ SamePorts(e, c)
      /\ c.asserted = "none" =>
            e.asserted = "none" /\ InFlight(c) /\ c.canRead
            /\ c.pendingRead = e.pendingRead /\ c.pendingWrite = e.pendingWrite
      BY <1>3, <1>4, StartCanReadEffect
<1>6. /\ g \in FirmwareType /\ SamePorts(c, g)
      /\ g.asserted = "none" =>
            /\ c.asserted = "none" /\ InFlight(g) /\ (g.active # None => g.uartInFlight)
            /\ g.pendingRead = c.pendingRead /\ g.pendingWrite = c.pendingWrite
            /\ g.canRead = c.canRead
      BY <1>5, StartUartReadEffect
<1>7. AsyncRead(f) = g
      BY DEF AsyncRead
<1>8. SamePorts(f, g)
      BY <1>3, <1>5, <1>6 DEF SamePorts
<1>9. g.asserted = "none" => InFlight(g) /\ Reading(g)
      BY <1>4, <1>5, <1>6 DEF Reading
<1>10. QED  BY <1>6, <1>7, <1>8, <1>9 DEF Waiting, Reading

\* AsyncWrite, called with nothing pending, starts a read or a reply.
LEMMA AsyncWriteEffect ==
    ASSUME NEW f, NEW link, Between(f)
    PROVE  Waiting(AsyncWrite(f, link)) /\ SamePorts(f, AsyncWrite(f, link))
<1> DEFINE g == AsyncWrite(f, link)
           m == MJ_ASSERT(f, ~f.uart[f.active].writing, "write")
           r == [m.uart[f.active] EXCEPT !.writing = TRUE, !.dma = "busy"]
           u == [m.uart EXCEPT ![f.active] = r]
<1>1. CASE link = "can" \/ f.active = None
      BY <1>1, AsyncReadEffect DEF AsyncWrite
<1>2. CASE ~(link = "can" \/ f.active = None)
  <2>1. f \in FirmwareType /\ f.active \in AuxPort /\ (~f.uart[f.active].writing) \in BOOLEAN
        BY <1>2 DEF Between, FirmwareType, UartServer
  <2>2. /\ m \in FirmwareType /\ SamePorts(f, m) /\ m.uart = f.uart
        /\ m.asserted = "none" => f.asserted = "none" /\ m = f
        BY <2>1, AssertEffect
  <2>3. m.uart \in [AuxPort -> UartServer] /\ m.uart[f.active] \in UartServer
        BY <2>1, <2>2 DEF FirmwareType
  <2>4. r \in UartServer /\ r.writing /\ r.alive = m.uart[f.active].alive
        /\ r.read = m.uart[f.active].read
        BY <2>3 DEF UartServer
  <2>5. /\ u \in [AuxPort -> UartServer] /\ u[f.active] = r
        /\ \A p \in AuxPort : u[p].alive = m.uart[p].alive
        BY <2>1, <2>3, <2>4
  <2>6. g = [m EXCEPT !.pendingWrite = TRUE, !.uart = u]
        BY <1>2, <2>2 DEF AsyncWrite, FirmwareType
  <2> HIDE DEF g, m, r, u
  <2>7. /\ g \in FirmwareType /\ g.uart = u /\ g.pendingWrite /\ g.active = m.active
        /\ g.pendingRead = m.pendingRead /\ g.asserted = m.asserted
        /\ g.canRead = m.canRead /\ g.canInFlight = m.canInFlight
        /\ g.uartInFlight = m.uartInFlight
        BY <2>2, <2>5, <2>6 DEF FirmwareType
  <2>8. SamePorts(f, g)
        BY <2>2, <2>5, <2>7 DEF SamePorts
  <2>9. g.asserted = "none" => InFlight(g) /\ Replying(g)
        BY <1>2, <2>2, <2>4, <2>5, <2>7 DEF InFlight, Replying, Between
  <2>10. QED  BY <2>7, <2>8, <2>9 DEF Waiting, g
<1>3. QED  BY <1>1, <1>2

\* A link's read has completed: the frame is dropped while a reply is being
\* sent, and otherwise leads to the next read or to a reply.
LEMMA DeliverReadEffect ==
    ASSUME NEW f \in FirmwareType, NEW link, NEW frame,
           f.asserted = "none" =>
               InFlight(f) /\ (IF f.pendingRead THEN ~f.pendingWrite ELSE Replying(f))
    PROVE  /\ Waiting(DeliverRead(f, link, frame))
           /\ SamePorts(f, DeliverRead(f, link, frame))
<1> DEFINE e == [f EXCEPT !.pendingRead = FALSE]
<1>1. CASE ~f.pendingRead
      BY <1>1 DEF DeliverRead, Waiting, SamePorts
<1>2. CASE f.pendingRead
  <2>1. /\ e \in FirmwareType /\ SamePorts(f, e)
        /\ e.asserted = f.asserted /\ e.pendingWrite = f.pendingWrite /\ ~e.pendingRead
        /\ e.canRead = f.canRead /\ e.canInFlight = f.canInFlight
        /\ e.uartInFlight = f.uartInFlight /\ e.uart = f.uart /\ e.active = f.active
        BY DEF FirmwareType, SamePorts
  <2>2. Between(e)
        BY <1>2, <2>1 DEF Between, InFlight
  <2>3. DeliverRead(f, link, frame) \in {AsyncWrite(e, link), AsyncRead(e)}
        BY <1>2 DEF DeliverRead
  <2>4. \A g \in {AsyncWrite(e, link), AsyncRead(e)} : Waiting(g) /\ SamePorts(e, g)
        BY <2>2, AsyncReadEffect, AsyncWriteEffect
  <2>5. QED  BY <2>1, <2>3, <2>4 DEF SamePorts
<1>3. QED  BY <1>1, <1>2

\* A frame from the CAN server.
LEMMA HandleCanReadEffect ==
    ASSUME NEW f, NEW frame, Waiting(f)
    PROVE  /\ Waiting(HandleCanRead(f, frame))
           /\ SamePorts(f, HandleCanRead(f, frame))
<1> DEFINE e == [f EXCEPT !.canRead = FALSE, !.canInFlight = FALSE]
<1>1. /\ f \in FirmwareType /\ e \in FirmwareType /\ SamePorts(f, e)
      /\ e.asserted = f.asserted /\ e.pendingWrite = f.pendingWrite
      /\ e.pendingRead = f.pendingRead /\ e.canRead = e.canInFlight
      /\ e.uartInFlight = f.uartInFlight /\ e.uart = f.uart /\ e.active = f.active
      BY DEF Waiting, FirmwareType, SamePorts
<1> HIDE DEF e
<1>2. e.asserted = "none" =>
          InFlight(e) /\ (IF e.pendingRead THEN ~e.pendingWrite ELSE Replying(e))
      BY <1>1 DEF Waiting, InFlight, Reading, Replying
<1>3. HandleCanRead(f, frame) = DeliverRead(e, "can", frame)
      BY DEF HandleCanRead, e
<1>4. QED  BY <1>1, <1>2, <1>3, DeliverReadEffect DEF SamePorts

\* A frame from the active UART server.
LEMMA HandleUartReadEffect ==
    ASSUME NEW f, NEW frame, NEW p \in AuxPort, Waiting(f), p = f.active
    PROVE  /\ Waiting(HandleUartRead(f, p, frame))
           /\ SamePorts(f, HandleUartRead(f, p, frame))
<1> DEFINE u == [f.uart EXCEPT ![p] = [@ EXCEPT !.read = FALSE]]
           e == [f EXCEPT !.uart = u, !.uartInFlight = FALSE]
<1>1. f \in FirmwareType /\ f.uart \in [AuxPort -> UartServer]
      BY DEF Waiting, FirmwareType
<1>2. /\ u \in [AuxPort -> UartServer]
      /\ \A q \in AuxPort : u[q].alive = f.uart[q].alive /\ u[q].writing = f.uart[q].writing
  <2>1. [f.uart[p] EXCEPT !.read = FALSE] \in UartServer
        BY <1>1 DEF UartServer
  <2>2. QED  BY <1>1, <2>1 DEF UartServer
<1>3. HandleUartRead(f, p, frame) = DeliverRead(e, p, frame)
      BY <1>1 DEF HandleUartRead, FirmwareType
<1> HIDE DEF u
<1>4. /\ e \in FirmwareType /\ e.uart = u /\ e.active = f.active
      /\ e.asserted = f.asserted /\ e.pendingWrite = f.pendingWrite
      /\ e.pendingRead = f.pendingRead /\ e.canRead = f.canRead
      /\ e.canInFlight = f.canInFlight /\ ~e.uartInFlight
      BY <1>1, <1>2 DEF FirmwareType
<1> HIDE DEF e
<1>5. SamePorts(f, e)
      BY <1>2, <1>4 DEF SamePorts
<1>6. e.asserted = "none" =>
          InFlight(e) /\ (IF e.pendingRead THEN ~e.pendingWrite ELSE Replying(e))
      BY <1>2, <1>4 DEF Waiting, InFlight, Reading, Replying
<1>7. QED  BY <1>3, <1>4, <1>5, <1>6, DeliverReadEffect DEF SamePorts

\* The end of a reply starts the next read; the late end of one that was
\* given up earlier changes nothing.
LEMMA WriteFinishedEffect ==
    ASSUME NEW f, NEW p \in AuxPort, Waiting(f), p = f.active
    PROVE  Waiting(WriteFinished(f, p)) /\ SamePorts(f, WriteFinished(f, p))
<1> DEFINE u == [f.uart EXCEPT ![p] = [@ EXCEPT !.writing = FALSE]]
           g == [f EXCEPT !.uart = u]
           e == [g EXCEPT !.pendingWrite = FALSE]
<1>1. f \in FirmwareType /\ f.uart \in [AuxPort -> UartServer]
      BY DEF Waiting, FirmwareType
<1>2. /\ u \in [AuxPort -> UartServer]
      /\ \A q \in AuxPort : u[q].alive = f.uart[q].alive /\ u[q].read = f.uart[q].read
  <2>1. [f.uart[p] EXCEPT !.writing = FALSE] \in UartServer
        BY <1>1 DEF UartServer
  <2>2. QED  BY <1>1, <2>1 DEF UartServer
<1>3. WriteFinished(f, p) = IF g.pendingWrite THEN AsyncRead(e) ELSE g
      BY <1>1 DEF WriteFinished, FirmwareType
<1> HIDE DEF u
<1>4. /\ g \in FirmwareType /\ g.uart = u /\ g.active = f.active
      /\ g.asserted = f.asserted /\ g.pendingWrite = f.pendingWrite
      /\ g.pendingRead = f.pendingRead /\ g.canRead = f.canRead
      /\ g.canInFlight = f.canInFlight /\ g.uartInFlight = f.uartInFlight
      BY <1>1, <1>2 DEF FirmwareType
<1> HIDE DEF g
<1>5. /\ e \in FirmwareType /\ e.uart = u /\ e.active = f.active
      /\ e.asserted = f.asserted /\ ~e.pendingWrite
      /\ e.pendingRead = f.pendingRead /\ e.canRead = f.canRead
      /\ e.canInFlight = f.canInFlight /\ e.uartInFlight = f.uartInFlight
      BY <1>4 DEF FirmwareType
<1> HIDE DEF e
<1>6. SamePorts(f, g) /\ SamePorts(f, e)
      BY <1>2, <1>4, <1>5 DEF SamePorts
<1>7. CASE g.pendingWrite
  <2>1. Between(e)
        BY <1>2, <1>4, <1>5, <1>7 DEF Between, Waiting, InFlight, Reading, Replying
  <2>2. Waiting(AsyncRead(e)) /\ SamePorts(e, AsyncRead(e))
        BY <2>1, AsyncReadEffect
  <2>3. QED  BY <1>3, <1>6, <1>7, <2>2 DEF SamePorts
<1>8. CASE ~g.pendingWrite
  <2>1. Waiting(g)
        BY <1>2, <1>4, <1>8 DEF Waiting, InFlight, Reading, Replying
  <2>2. QED  BY <1>3, <1>6, <1>8, <2>1
<1>9. QED  BY <1>7, <1>8

-----------------------------------------------------------------------------
\* Changing the active server, whatever was under way at the old one: a reply
\* given up becomes a read, and a read is started at the new server.
LEMMA SetActiveUartServerEffect ==
    ASSUME NEW f, NEW new \in AuxPort \cup {None}, Waiting(f)
    PROVE  LET s == SetActiveUartServer(f, new) IN
           /\ Waiting(s) /\ s.active = new
           /\ \A p \in AuxPort : s.uart[p].alive = f.uart[p].alive
<1> DEFINE s == SetActiveUartServer(f, new)
           g == [f EXCEPT !.active = new, !.uartInFlight = @ /\ f.active = None]
           e == [g EXCEPT !.pendingWrite = FALSE]
           h == IF g.pendingWrite THEN AsyncRead(e) ELSE g
<1>1. CASE new = f.active
      BY <1>1 DEF SetActiveUartServer
<1>2. CASE new # f.active
  <2>1. s = IF h.pendingRead THEN StartUartRead(h) ELSE h
        BY <1>2 DEF SetActiveUartServer
  <2>2. /\ f \in FirmwareType /\ g \in FirmwareType /\ g.active = new
        /\ g.uartInFlight = (f.uartInFlight /\ f.active = None)
        /\ g.asserted = f.asserted /\ g.pendingWrite = f.pendingWrite
        /\ g.pendingRead = f.pendingRead /\ g.canRead = f.canRead
        /\ g.canInFlight = f.canInFlight /\ g.uart = f.uart
        BY DEF Waiting, FirmwareType
  <2> HIDE DEF g
  <2>3. /\ e \in FirmwareType /\ e.active = new /\ e.uartInFlight = g.uartInFlight
        /\ e.asserted = f.asserted /\ ~e.pendingWrite
        /\ e.pendingRead = f.pendingRead /\ e.canRead = f.canRead
        /\ e.canInFlight = f.canInFlight /\ e.uart = f.uart
        BY <2>2 DEF FirmwareType
  <2> HIDE DEF e
  <2>4. /\ h \in FirmwareType /\ h.active = new
        /\ \A p \in AuxPort : h.uart[p].alive = f.uart[p].alive
        /\ h.asserted = "none" =>
              InFlight(h) /\ h.pendingRead /\ ~h.pendingWrite /\ h.canRead
    <3>1. CASE g.pendingWrite
      <4>1. Between(e)
            BY <2>2, <2>3, <3>1 DEF Between, Waiting, InFlight, Reading, Replying
      <4>2. h = AsyncRead(e)
            BY <3>1
      <4>3. Waiting(h) /\ SamePorts(e, h) /\ (h.asserted = "none" => h.pendingRead)
            BY <4>1, <4>2, AsyncReadEffect
      <4> HIDE DEF h
      <4>4. QED  BY <2>3, <4>3 DEF Waiting, SamePorts, Reading, Replying
    <3>2. CASE ~g.pendingWrite
          BY <2>2, <3>2 DEF Waiting, InFlight, Reading, Replying
    <3>3. QED  BY <3>1, <3>2
  <2> HIDE DEF h
  <2>5. CASE h.pendingRead
    <3>1. s = StartUartRead(h)
          BY <2>1, <2>5
    <3> HIDE DEF s
    <3>2. /\ s \in FirmwareType /\ SamePorts(h, s)
          /\ s.asserted = "none" =>
                /\ h.asserted = "none" /\ InFlight(s) /\ (s.active # None => s.uartInFlight)
                /\ s.pendingRead = h.pendingRead /\ s.pendingWrite = h.pendingWrite
                /\ s.canRead = h.canRead
          BY <2>4, <3>1, StartUartReadEffect
    <3>3. Waiting(s)
          BY <2>4, <3>2 DEF Waiting, Reading
    <3>4. QED  BY <2>4, <3>2, <3>3 DEF SamePorts, s
  <2>6. CASE ~h.pendingRead
    <3>1. s = h
          BY <2>1, <2>6
    <3> HIDE DEF s
    <3>2. Waiting(h)
          BY <2>4, <2>6 DEF Waiting
    <3>3. QED  BY <2>4, <3>1, <3>2 DEF s
  <2>7. QED  BY <2>5, <2>6
<1>3. QED  BY <1>1, <1>2

\* The server of a port that is not the active one may be replaced freely.
LEMMA ReplaceServer ==
    ASSUME NEW f, NEW p \in AuxPort, NEW server \in UartServer, Waiting(f), p # f.active
    PROVE  LET g == [f EXCEPT !.uart[p] = server] IN
           /\ Waiting(g) /\ g.active = f.active
           /\ g.uart = [f.uart EXCEPT ![p] = server]
<1> DEFINE g == [f EXCEPT !.uart[p] = server]
           u == [f.uart EXCEPT ![p] = server]
<1>1. /\ f \in FirmwareType /\ f.uart \in [AuxPort -> UartServer]
      /\ u \in [AuxPort -> UartServer] /\ g = [f EXCEPT !.uart = u]
      BY DEF Waiting, FirmwareType
<1>2. f.active # None => u[f.active] = f.uart[f.active]
      BY <1>1 DEF FirmwareType
<1> HIDE DEF u
<1>3. /\ g \in FirmwareType /\ g.uart = u /\ g.active = f.active
      /\ g.asserted = f.asserted /\ g.pendingWrite = f.pendingWrite
      /\ g.pendingRead = f.pendingRead /\ g.canRead = f.canRead
      /\ g.canInFlight = f.canInFlight /\ g.uartInFlight = f.uartInFlight
      BY <1>1 DEF FirmwareType
<1> HIDE DEF g
<1>4. Waiting(g)
      BY <1>2, <1>3 DEF Waiting, InFlight, Reading, Replying
<1>5. QED  BY <1>3, <1>4 DEF g, u

\* The ports that serve apart from p.
Others(f, p) == {q \in AuxPort \ {p} : f.uart[q].alive}

\* The choice is always a port or none.
LEMMA FirstPortType == \A S : FirstPort(S) \in AuxPort \cup {None}
BY DEF FirstPort, AuxPort

\* A change of one port's configuration keeps the reader waiting and leaves
\* the port with priority active.
LEMMA HandleConfigUpdateEffect ==
    ASSUME NEW f, NEW p \in AuxPort, NEW serial \in BOOLEAN, Waiting(f)
    PROVE  Waiting(HandleConfigUpdate(f, p, serial)) /\ Priority(HandleConfigUpdate(f, p, serial))
<1> DEFINE a == UartServerChanged(f, p, FALSE)
           gone == [a EXCEPT !.uart[p] = Absent]
           fresh == [gone EXCEPT !.uart[p] = NewServer]
           z == UartServerChanged(fresh, p, TRUE)
<1>1. HandleConfigUpdate(f, p, serial) = IF serial THEN z ELSE gone
      BY DEF HandleConfigUpdate
<1>2. Absent \in UartServer /\ ~Absent.alive /\ NewServer \in UartServer /\ NewServer.alive
      BY DEF Absent, NewServer, UartServer
<1>3. FirstPort(Others(f, p)) # p
      BY DEF Others, FirstPort, AuxPort, None
<1>4. Waiting(a) /\ a.active = FirstPort(Others(f, p)) /\ a.active # p
      /\ \A q \in AuxPort : a.uart[q].alive = f.uart[q].alive
  <2>1. a = SetActiveUartServer(f, FirstPort(Others(f, p)))
    <3>1. Others(f, p) \cup {} = Others(f, p)
          OBVIOUS
    <3>2. QED  BY <3>1 DEF UartServerChanged, Others
  <2> HIDE DEF a
  <2>2. QED  BY <1>3, <2>1, FirstPortType, SetActiveUartServerEffect
<1> HIDE DEF a
<1>5. Waiting(gone) /\ gone.active = a.active /\ gone.uart = [a.uart EXCEPT ![p] = Absent]
      BY <1>2, <1>4, ReplaceServer
<1>6. \A q \in AuxPort : gone.uart[q].alive = (q # p /\ f.uart[q].alive)
  <2>1. a.uart \in [AuxPort -> UartServer]
        BY <1>4 DEF Waiting, FirmwareType
  <2>2. QED  BY <1>2, <1>4, <1>5, <2>1 DEF UartServer
<1> HIDE DEF gone
<1>7. CASE ~serial
  <2>1. {q \in AuxPort : gone.uart[q].alive} = Others(f, p)
        BY <1>6 DEF Others
  <2>2. Priority(gone)
        BY <1>4, <1>5, <2>1 DEF Priority
  <2>3. QED  BY <1>1, <1>5, <1>7, <2>2
<1>8. CASE serial
  <2>1. Waiting(fresh) /\ fresh.uart = [gone.uart EXCEPT ![p] = NewServer]
        BY <1>2, <1>4, <1>5, ReplaceServer
  <2>2. \A q \in AuxPort : fresh.uart[q].alive = (q = p \/ gone.uart[q].alive)
    <3>1. gone.uart \in [AuxPort -> UartServer]
          BY <1>5 DEF Waiting, FirmwareType
    <3>2. QED  BY <1>2, <2>1, <3>1 DEF UartServer
  <2> HIDE DEF fresh
  <2>3. /\ Waiting(z) /\ z.active = FirstPort(Others(fresh, p) \cup {p})
        /\ \A q \in AuxPort : z.uart[q].alive = fresh.uart[q].alive
    <3> DEFINE new == FirstPort(Others(fresh, p) \cup {p})
    <3>1. z = SetActiveUartServer(fresh, new)
          BY DEF UartServerChanged, Others
    <3>2. new \in AuxPort \cup {None}
          BY FirstPortType
    <3> HIDE DEF z, new
    <3>3. Waiting(z) /\ z.active = new
          /\ \A q \in AuxPort : z.uart[q].alive = fresh.uart[q].alive
          BY <2>1, <3>1, <3>2, SetActiveUartServerEffect, ZenonT(60)
    <3>4. QED  BY <3>3 DEF new
  <2> HIDE DEF z
  <2>4. {q \in AuxPort : z.uart[q].alive} = Others(fresh, p) \cup {p}
        BY <2>2, <2>3 DEF Others
  <2>5. Priority(z)
        BY <2>3, <2>4 DEF Priority
  <2>6. QED  BY <1>1, <1>8, <2>3, <2>5
<1>9. QED  BY <1>7, <1>8

-----------------------------------------------------------------------------
\* A call that keeps the ports keeps the priority.
LEMMA SamePortsPriority ==
    ASSUME NEW f, NEW g, Priority(f), SamePorts(f, g)
    PROVE  Priority(g)
<1>1. {p \in AuxPort : g.uart[p].alive} = {p \in AuxPort : f.uart[p].alive}
      BY DEF SamePorts
<1>2. QED  BY <1>1 DEF Priority, SamePorts

\* Power on, for every choice of serial ports.
LEMMA InitIndInv == Init => IndInv
<1>1. SUFFICES ASSUME NEW serial \in SUBSET AuxPort, fw = Booted(serial)
               PROVE  IndInv
      BY DEF Init
<1> DEFINE f == [canRead |-> FALSE,
                 uart |-> [p \in AuxPort |-> IF p \in serial THEN NewServer ELSE Absent],
                 active |-> FirstPort(serial),
                 pendingRead |-> FALSE, canInFlight |-> FALSE, uartInFlight |-> FALSE,
                 pendingWrite |-> FALSE, asserted |-> "none"]
<1>2. Absent \in UartServer /\ ~Absent.alive /\ NewServer \in UartServer /\ NewServer.alive
      BY DEF Absent, NewServer, UartServer
<1>3. FirstPort(serial) \in AuxPort \cup {None}
      BY DEF FirstPort, AuxPort
<1>4. Between(f)
      BY <1>2, <1>3 DEF Between, FirmwareType, InFlight
<1>5. {p \in AuxPort : f.uart[p].alive} = serial
      BY <1>2
<1>6. Priority(f)
      BY <1>5 DEF Priority
<1>7. fw = AsyncRead(f)
      BY <1>1 DEF Booted
<1>8. QED  BY <1>4, <1>6, <1>7, AsyncReadEffect, SamePortsPriority DEF IndInv

\* One step per action that touches the links' servers.
LEMMA NextIndInv == IndInv /\ [Next]_vars => IndInv'
<1> SUFFICES ASSUME IndInv, [Next]_vars
             PROVE  IndInv'
    OBVIOUS
<1>1. CASE UNCHANGED fw
      BY <1>1 DEF IndInv, Waiting, Priority, InFlight, Reading, Replying
<1>2. ASSUME PollCan, fw' # fw
      PROVE  IndInv'
  <2>1. fw' = HandleCanRead(fw, Head(line["can"]))
        BY <1>2 DEF PollCan
  <2>2. Waiting(fw') /\ SamePorts(fw, fw')
        BY <2>1, HandleCanReadEffect DEF IndInv
  <2>3. Priority(fw')
        BY <2>2, SamePortsPriority DEF IndInv
  <2>4. QED  BY <2>2, <2>3 DEF IndInv
<1>3. ASSUME PollUart, fw' # fw
      PROVE  IndInv'
  <2> DEFINE p == fw.active
             f == IF fw.uart[p].writing /\ fw.uart[p].dma = "finished"
                  THEN WriteFinished(fw, p) ELSE fw
  <2>1. p \in AuxPort /\ PollUartOf(p)
        BY <1>3 DEF PollUart, IndInv, Waiting, FirmwareType
  <2>2. fw' \in {f, HandleUartRead(f, p, Head(line[p]))}
        BY <2>1 DEF PollUartOf
  <2>3. Waiting(f) /\ SamePorts(fw, f)
        BY <2>1, WriteFinishedEffect DEF IndInv, SamePorts
  <2> HIDE DEF f
  <2>4. Waiting(fw') /\ SamePorts(fw, fw')
    <3>1. CASE fw' = f
          BY <2>3, <3>1
    <3>2. CASE fw' = HandleUartRead(f, p, Head(line[p]))
      <4>1. p = f.active
            BY <2>3 DEF SamePorts
      <4>2. Waiting(fw') /\ SamePorts(f, fw')
            BY <2>1, <2>3, <3>2, <4>1, HandleUartReadEffect
      <4>3. QED  BY <2>3, <4>2 DEF SamePorts
    <3>3. QED  BY <2>2, <3>1, <3>2
  <2>5. Priority(fw')
        BY <2>4, SamePortsPriority DEF IndInv
  <2>6. QED  BY <2>4, <2>5 DEF IndInv
<1>4. ASSUME ConfigUpdate
      PROVE  IndInv'
  <2>1. PICK p \in AuxPort, serial \in BOOLEAN : fw' = HandleConfigUpdate(fw, p, serial)
        BY <1>4 DEF ConfigUpdate
  <2>2. Waiting(fw') /\ Priority(fw')
        BY <2>1, HandleConfigUpdateEffect DEF IndInv
  <2>3. QED  BY <2>2 DEF IndInv
<1>5. ASSUME DmaFinish
      PROVE  IndInv'
  <2>1. PICK p \in AuxPort : fw' = [fw EXCEPT !.uart[p].dma = "finished"]
        BY <1>5 DEF DmaFinish
  <2> DEFINE u == [fw.uart EXCEPT ![p] = [@ EXCEPT !.dma = "finished"]]
  <2>2. fw \in FirmwareType /\ fw.uart \in [AuxPort -> UartServer]
        BY DEF IndInv, Waiting, FirmwareType
  <2>3. /\ u \in [AuxPort -> UartServer]
        /\ \A q \in AuxPort : /\ u[q].alive = fw.uart[q].alive /\ u[q].read = fw.uart[q].read
                              /\ u[q].writing = fw.uart[q].writing
    <3>1. [fw.uart[p] EXCEPT !.dma = "finished"] \in UartServer
          BY <2>2 DEF UartServer
    <3>2. QED  BY <2>2, <3>1 DEF UartServer
  <2>4. fw' = [fw EXCEPT !.uart = u]
        BY <2>1, <2>2 DEF FirmwareType
  <2> HIDE DEF u
  <2>5. /\ fw' \in FirmwareType /\ fw'.uart = u /\ fw'.active = fw.active
        /\ fw'.asserted = fw.asserted /\ fw'.pendingWrite = fw.pendingWrite
        /\ fw'.pendingRead = fw.pendingRead /\ fw'.canRead = fw.canRead
        /\ fw'.canInFlight = fw.canInFlight /\ fw'.uartInFlight = fw.uartInFlight
        BY <2>2, <2>3, <2>4 DEF FirmwareType
  <2>6. SamePorts(fw, fw')
        BY <2>3, <2>5 DEF SamePorts
  <2>7. Waiting(fw')
    <3>1. fw.active # None => fw.active \in AuxPort
          BY <2>2 DEF FirmwareType
    <3>2. QED  BY <2>3, <2>5, <3>1 DEF IndInv, Waiting, InFlight, Reading, Replying
  <2>8. QED  BY <2>6, <2>7, SamePortsPriority DEF IndInv
<1>6. QED
      BY <1>1, <1>2, <1>3, <1>4, <1>5
      DEF Next, LoopStep, Arrive, PollController, PollRest, vars

\* What the two properties need of the invariant.
LEMMA IndInvImplies == IndInv => Listening /\ PriorityKept
  BY DEF IndInv, Waiting, InFlight, Reading, Replying, Priority,
         Listening, PriorityKept, Running

\* The reader never goes deaf and never waits for a reply nobody sends, over
\* every interleaving of frames, replies and configuration updates
\* (MultiTransportDatagramServer, SetActiveUartServer).
THEOREM ReaderListens == Spec => []Listening
<1>1. Spec => []IndInv
      BY InitIndInv, NextIndInv, PTL DEF Spec
<1>2. QED  BY <1>1, IndInvImplies, PTL

\* The active UART server is the existing one with priority, after every
\* sequence of configuration updates (MoteusController's UART callbacks).
THEOREM ActivePortHasPriority == Spec => []PriorityKept
<1>1. Spec => []IndInv
      BY InitIndInv, NextIndInv, PTL DEF Spec
<1>2. QED  BY <1>1, IndInvImplies, PTL

-----------------------------------------------------------------------------
(* What the writes of one frame make of the controller                     *)

\* Mode write m is the last of the first k writes of frame f.
LastMode(f, m, k) ==
    /\ m \in 1..k /\ f.writes[m] = "mode"
    /\ \A j \in (m + 1)..k : f.writes[j] # "mode"

\* The fields written after write m, as far as write k.
FieldsUpTo(f, m, k) ==
    {<<f.id, j>> : j \in {j \in (m + 1)..k : f.writes[j] = "field"}}

\* The command of the frame as far as write k, when its last mode is write m.
CommandUpTo(f, m, k) ==
    [mode |-> <<f.id, m>>, fields |-> FieldsUpTo(f, m, k)]

\* The controller d after the first k writes of frame f: whatever it held
\* before the frame is gone once a mode has been written.
Assembled(d, f, k) ==
    /\ d \in ControllerType
    /\ d.discard <=> \E j \in 1..k : f.writes[j] = "otherUuid"
    /\ ~d.discard => /\ d.valid <=> \E m \in 1..k : LastMode(f, m, k)
                     /\ d.valid <=> \E m \in 1..k : f.writes[m] = "mode"
                     /\ \A m \in 1..k : LastMode(f, m, k) => d.command = CommandUpTo(f, m, k)

\* A write leaves a controller.
LEMMA WriteType ==
    ASSUME NEW c \in ControllerType, NEW f \in FrameType, NEW k \in 1..Len(f.writes)
    PROVE  Write(c, f, k) \in ControllerType
<1>1. <<f.id, k>> \in Nat \X Nat
      BY DEF FrameType
<1>2. CASE c.discard \/ f.writes[k] \notin {"mode", "field", "otherUuid"}
      BY <1>2 DEF Write
<1>3. CASE ~c.discard /\ f.writes[k] = "mode"
      BY <1>1, <1>3 DEF Write, ControllerType, CommandData
<1>4. CASE ~c.discard /\ f.writes[k] = "field"
  <2>1. [c.command EXCEPT !.fields = @ \cup {<<f.id, k>>}] \in CommandData
        BY <1>1 DEF ControllerType, CommandData
  <2>2. QED  BY <1>4, <2>1 DEF Write, ControllerType
<1>5. CASE ~c.discard /\ f.writes[k] = "otherUuid"
      BY <1>5 DEF Write, ControllerType
<1>6. QED  BY <1>2, <1>3, <1>4, <1>5

\* The recursion that runs the writes of a frame is well defined.
LEMMA WrittenRuns ==
    ASSUME NEW c \in ControllerType, NEW f \in FrameType
    PROVE  /\ Len(f.writes) \in Nat
           /\ Written(c, f)[0] = StartFrame(c)
           /\ \A k \in 1..Len(f.writes) : Written(c, f)[k] = Write(Written(c, f)[k - 1], f, k)
<1> DEFINE N == Len(f.writes)
           step == [n \in Nat |-> [d \in ControllerType |->
                       IF n + 1 \in 1..N THEN Write(d, f, n + 1) ELSE d]]
           IsRun(r) == r = [k \in 0..N |-> IF k = 0 THEN StartFrame(c) ELSE Write(r[k - 1], f, k)]
<1>1. N \in Nat /\ StartFrame(c) \in ControllerType
  <2>1. N \in Nat
        BY DEF FrameType
  <2>2. QED  BY <2>1 DEF StartFrame, ControllerType
<1>2. step \in [Nat -> [ControllerType -> ControllerType]]
      BY <1>1, WriteType
<1>3. PICK g : Approximates(g, N, ControllerType, StartFrame(c), step)
  <2> HIDE DEF step, N
  <2> QED  BY <1>1, <1>2, PrimitiveRecursion
<1>4. IsRun(g)
  <2>1. ASSUME NEW k \in 0..N
        PROVE  g[k] = IF k = 0 THEN StartFrame(c) ELSE Write(g[k - 1], f, k)
    <3>1. CASE k = 0
          BY <1>3, <3>1 DEF Approximates
    <3>2. CASE k # 0
      <4>1. k - 1 \in 0..(N - 1) /\ k - 1 \in 0..N /\ k - 1 \in Nat /\ (k - 1) + 1 = k
            BY <1>1, <3>2
      <4>2. g[k] = step[k - 1][g[k - 1]] /\ g[k - 1] \in ControllerType
        <5> HIDE DEF step
        <5> QED  BY <1>3, <4>1 DEF Approximates
      <4>3. QED  BY <3>2, <4>1, <4>2
    <3>3. QED  BY <3>1, <3>2
  <2>2. DOMAIN g = 0..N /\ g = [k \in 0..N |-> g[k]]
    <3> HIDE DEF step
    <3> QED  BY <1>3 DEF Approximates
  <2>3. QED  BY <2>1, <2>2
<1>5. IsRun(Written(c, f))
  <2>1. Written(c, f) = CHOOSE r : IsRun(r)
        BY DEF Written
  <2>2. QED
    <3> HIDE DEF IsRun
    <3> QED  BY <1>4, <2>1
<1> DEFINE r == Written(c, f)
<1>6. r = [k \in 0..N |-> IF k = 0 THEN StartFrame(c) ELSE Write(r[k - 1], f, k)]
      BY <1>5
<1>7. 0 \in 0..N /\ \A k \in 1..N : k \in 0..N /\ k # 0
      BY <1>1
<1>8. QED
  <2> HIDE DEF r
  <2>1. r[0] = StartFrame(c) /\ \A k \in 1..N : r[k] = Write(r[k - 1], f, k)
        BY <1>6, <1>7
  <2>2. QED  BY <1>1, <2>1 DEF r

\* One write carries the description from k writes to k + 1.
LEMMA WriteAssembles ==
    ASSUME NEW d, NEW f \in FrameType, NEW k \in Nat, k + 1 \in 1..Len(f.writes),
           Assembled(d, f, k)
    PROVE  Assembled(Write(d, f, k + 1), f, k + 1)
<1> DEFINE e == Write(d, f, k + 1)
           w == f.writes[k + 1]
<1>1. d \in ControllerType /\ e \in ControllerType /\ w \in WriteKind
      BY WriteType DEF Assembled, FrameType
<1>2. \A j \in 1..(k + 1) : j \in 1..k \/ j = k + 1
      OBVIOUS
<1>3. \A m \in 1..k : LastMode(f, m, k + 1) <=> LastMode(f, m, k) /\ w # "mode"
  <2> TAKE m \in 1..k
  <2>1. \A j \in (m + 1)..(k + 1) : j \in (m + 1)..k \/ j = k + 1
        OBVIOUS
  <2>2. k + 1 \in (m + 1)..(k + 1) /\ m \in 1..(k + 1)
        OBVIOUS
  <2>3. QED  BY <2>1, <2>2 DEF LastMode
<1>4. LastMode(f, k + 1, k + 1) <=> w = "mode"
      BY DEF LastMode
<1>5. \A m \in 1..k : FieldsUpTo(f, m, k + 1) =
          FieldsUpTo(f, m, k) \cup (IF w = "field" THEN {<<f.id, k + 1>>} ELSE {})
  <2> TAKE m \in 1..k
  <2>1. {j \in (m + 1)..(k + 1) : f.writes[j] = "field"} =
            {j \in (m + 1)..k : f.writes[j] = "field"} \cup (IF w = "field" THEN {k + 1} ELSE {})
    <3>1. \A j : j \in (m + 1)..(k + 1) <=> j \in (m + 1)..k \/ j = k + 1
          OBVIOUS
    <3>2. QED  BY <3>1
  <2>2. QED  BY <2>1 DEF FieldsUpTo
<1>6. CASE d.discard
  <2>1. e = d
        BY <1>6 DEF Write
  <2>2. QED  BY <1>1, <1>6, <2>1 DEF Assembled
<1>7. CASE ~d.discard /\ w = "otherUuid"
  <2>1. e.discard
        BY <1>1, <1>7 DEF Write, ControllerType
  <2>2. QED  BY <1>1, <1>7, <2>1 DEF Assembled
<1>8. CASE ~d.discard /\ w = "mode"
  <2>1. /\ e.valid /\ ~e.discard
        /\ e.command = [mode |-> <<f.id, k + 1>>, fields |-> {}]
        BY <1>1, <1>8 DEF Write, ControllerType
  <2>2. CommandUpTo(f, k + 1, k + 1) = [mode |-> <<f.id, k + 1>>, fields |-> {}]
    <3>1. (k + 1 + 1)..(k + 1) = {}
          OBVIOUS
    <3>2. {<<f.id, j>> : j \in {j \in (k + 1 + 1)..(k + 1) : f.writes[j] = "field"}} = {}
          BY <3>1
    <3>3. QED  BY <3>2 DEF CommandUpTo, FieldsUpTo
  <2>3. \A m \in 1..(k + 1) : LastMode(f, m, k + 1) => m = k + 1
        BY <1>2, <1>3, <1>8
  <2>4. k + 1 \in 1..(k + 1)
        OBVIOUS
  <2>5. ~\E j \in 1..(k + 1) : f.writes[j] = "otherUuid"
        BY <1>2, <1>8 DEF Assembled
  <2>6. QED  BY <1>1, <1>4, <1>8, <2>1, <2>2, <2>3, <2>4, <2>5 DEF Assembled
<1>9. CASE ~d.discard /\ w = "field"
  <2>1. e.valid = d.valid /\ e.discard = d.discard
        /\ e.command = [mode |-> d.command.mode, fields |-> d.command.fields \cup {<<f.id, k + 1>>}]
        BY <1>1, <1>9 DEF Write, ControllerType, CommandData
  <2>2. ASSUME NEW m \in 1..(k + 1), LastMode(f, m, k + 1)
        PROVE  e.command = CommandUpTo(f, m, k + 1)
    <3>1. m \in 1..k /\ LastMode(f, m, k)
          BY <1>2, <1>3, <1>4, <1>9, <2>2
    <3>2. d.command = CommandUpTo(f, m, k)
          BY <1>9, <3>1 DEF Assembled
    <3>3. d.command.mode = <<f.id, m>> /\ d.command.fields = FieldsUpTo(f, m, k)
          BY <3>2 DEF CommandUpTo
    <3>4. d.command.fields \cup {<<f.id, k + 1>>} = FieldsUpTo(f, m, k + 1)
          BY <1>5, <1>9, <3>1, <3>3
    <3>5. QED  BY <2>1, <3>3, <3>4 DEF CommandUpTo
  <2>3. ~\E j \in 1..(k + 1) : f.writes[j] = "otherUuid"
        BY <1>2, <1>9 DEF Assembled
  <2>4. (\E m \in 1..(k + 1) : LastMode(f, m, k + 1)) <=> \E m \in 1..k : LastMode(f, m, k)
        BY <1>2, <1>3, <1>4, <1>9
  <2>5. (\E m \in 1..(k + 1) : f.writes[m] = "mode") <=> \E m \in 1..k : f.writes[m] = "mode"
        BY <1>2, <1>9
  <2>6. QED  BY <1>1, <1>9, <2>1, <2>2, <2>3, <2>4, <2>5 DEF Assembled
<1>10. CASE ~d.discard /\ w = "badMode"
  <2>1. e = d
        BY <1>10 DEF Write
  <2>2. \A m \in 1..k : CommandUpTo(f, m, k + 1) = CommandUpTo(f, m, k)
        BY <1>5, <1>10 DEF CommandUpTo
  <2>3. (\E m \in 1..(k + 1) : LastMode(f, m, k + 1)) <=> \E m \in 1..k : LastMode(f, m, k)
        BY <1>2, <1>3, <1>4, <1>10
  <2>4. (\E m \in 1..(k + 1) : f.writes[m] = "mode") <=> \E m \in 1..k : f.writes[m] = "mode"
        BY <1>2, <1>10
  <2>5. \A m \in 1..(k + 1) : LastMode(f, m, k + 1) => m \in 1..k /\ LastMode(f, m, k)
        BY <1>2, <1>3, <1>4, <1>10
  <2>6. ~\E j \in 1..(k + 1) : f.writes[j] = "otherUuid"
        BY <1>2, <1>10 DEF Assembled
  <2>7. QED  BY <1>1, <1>10, <2>1, <2>2, <2>3, <2>4, <2>5, <2>6 DEF Assembled
<1>11. QED  BY <1>1, <1>6, <1>7, <1>8, <1>9, <1>10 DEF WriteKind

\* A frame commands the servo exactly when the reference says so, with the
\* command it says, whatever the controller held before.
LEMMA FrameCommands ==
    ASSUME NEW c \in ControllerType, NEW f \in FrameType
    PROVE  /\ ProcessFrame(c, f) \in ControllerType
           /\ ProcessFrame(c, f).discard => ~ProcessFrame(c, f).valid
           /\ ProcessFrame(c, f).valid <=> Commanding(f)
           /\ Commanding(f) => ProcessFrame(c, f).command = Commanded(f)
<1> DEFINE N == Len(f.writes)
           r == Written(c, f)
           S == {k \in Nat : Assembled(r[k], f, k)}
<1>1. /\ N \in Nat /\ r[0] = StartFrame(c)
      /\ \A k \in 1..N : r[k] = Write(r[k - 1], f, k)
      BY WrittenRuns
<1>2. 0 \in S
  <2>1. StartFrame(c) \in ControllerType /\ ~StartFrame(c).valid /\ ~StartFrame(c).discard
        BY DEF StartFrame, ControllerType
  <2>2. 1..0 = {}
        OBVIOUS
  <2>3. QED  BY <1>1, <2>1, <2>2 DEF Assembled
<1>3. ASSUME NEW k \in 0..(N - 1), k \in S
      PROVE  k + 1 \in S
  <2>1. k + 1 \in 1..N /\ r[k + 1] = Write(r[(k + 1) - 1], f, k + 1) /\ (k + 1) - 1 = k
        BY <1>1
  <2>2. Assembled(r[k], f, k) /\ k \in Nat
        BY <1>3
  <2>3. Assembled(r[k + 1], f, k + 1)
    <3> HIDE DEF r
    <3> QED  BY <2>1, <2>2, WriteAssembles
  <2>4. QED  BY <2>3
<1>4. Assembled(r[N], f, N)
  <2>1. \A k \in 0..N : k \in S
    <3> HIDE DEF S
    <3> QED  BY <1>1, <1>2, <1>3, IntervalInduction
  <2>2. QED  BY <1>1, <2>1
<1> DEFINE d == r[N]
<1>5. d \in ControllerType /\ ProcessFrame(c, f) = CompleteFrame(d)
      BY <1>4 DEF ProcessFrame, Assembled
<1>6. DOMAIN f.writes = 1..N
      BY DEF FrameType
<1> HIDE DEF d, r
<1>7. /\ ProcessFrame(c, f) \in ControllerType
      /\ ProcessFrame(c, f).discard = d.discard
      /\ ProcessFrame(c, f).valid <=> d.valid /\ ~d.discard
      /\ ProcessFrame(c, f).command = d.command
      BY <1>5 DEF CompleteFrame, ControllerType
<1>8. d.valid /\ ~d.discard <=> Commanding(f)
      BY <1>4, <1>6 DEF Assembled, Commanding, Modes, d
<1>9. ASSUME Commanding(f)
      PROVE  d.command = Commanded(f)
  <2>1. PICK m \in 1..N : LastMode(f, m, N)
        BY <1>4, <1>8, <1>9 DEF Assembled, d
  <2>2. m \in Modes(f) /\ \A j \in Modes(f) : j <= m
        BY <1>1, <1>6, <2>1 DEF Modes, LastMode
  <2>3. \A k \in Modes(f) : (\A j \in Modes(f) : j <= k) => k = m
        BY <1>1, <1>6, <2>2 DEF Modes
  <2>4. (CHOOSE k \in Modes(f) : \A j \in Modes(f) : j <= k) = m
        BY <2>2, <2>3
  <2>5. {j \in DOMAIN f.writes : j > m /\ f.writes[j] = "field"} =
            {j \in (m + 1)..N : f.writes[j] = "field"}
        BY <1>1, <1>6
  <2>6. Commanded(f) = CommandUpTo(f, m, N)
        BY <2>4, <2>5 DEF Commanded, CommandUpTo, FieldsUpTo
  <2>7. QED  BY <1>4, <1>8, <1>9, <2>1, <2>6 DEF Assembled, d
<1>10. QED  BY <1>7, <1>8, <1>9

-----------------------------------------------------------------------------
(* Frames become commands whole                                            *)

\* The command waiting for the poll is that of a delivered frame.
CommandWaiting ==
    controller.valid =>
        \E frame \in hist.delivered : Commanding(frame) /\ controller.command = Commanded(frame)

\* The command of the last frame is waiting until the poll has taken it.
LastWaitsOrApplied ==
    \A frame \in hist.last : Commanding(frame) =>
        \/ Commanded(frame) \in hist.commands
        \/ loop # "config" /\ controller.valid /\ controller.command = Commanded(frame)

FrameInv ==
    TypeOK /\ hist.last \subseteq hist.delivered /\ CommandsWhole /\ CommandWaiting /\ LastWaitsOrApplied

\* A frame that a poll delivers, or drops.
LEMMA ReceiveFrameEffect ==
    ASSUME FrameInv, NEW f, NEW frame \in FrameType, ReceiveFrame(f, frame),
           loop # "config", loop' # "config"
    PROVE  /\ controller' \in ControllerType
           /\ controller'.discard => ~controller'.valid
           /\ hist' \in HistoryType
           /\ hist'.last \subseteq hist'.delivered
           /\ CommandsWhole' /\ CommandWaiting' /\ LastWaitsOrApplied'
<1>1. CASE ~Delivered(f, frame)
      BY <1>1 DEF ReceiveFrame, FrameInv, TypeOK, CommandWaiting, LastWaitsOrApplied, CommandsWhole
<1>2. CASE Delivered(f, frame)
  <2>1. controller' = ProcessFrame(controller, frame)
        /\ hist' = [hist EXCEPT !.delivered = @ \cup {frame}, !.last = {frame}]
        BY <1>2 DEF ReceiveFrame
  <2>2. /\ controller' \in ControllerType
        /\ controller'.discard => ~controller'.valid
        /\ controller'.valid <=> Commanding(frame)
        /\ Commanding(frame) => controller'.command = Commanded(frame)
        BY <2>1, FrameCommands DEF FrameInv, TypeOK
  <2>3. /\ hist' \in HistoryType
        /\ hist'.last = {frame} /\ hist'.delivered = hist.delivered \cup {frame}
        /\ hist'.commands = hist.commands
        BY <2>1 DEF FrameInv, TypeOK, HistoryType
  <2>4. CommandWaiting' /\ LastWaitsOrApplied'
        BY <2>2, <2>3 DEF CommandWaiting, LastWaitsOrApplied
  <2>5. CommandsWhole'
        BY <2>3 DEF FrameInv, CommandsWhole
  <2>6. QED  BY <2>2, <2>3, <2>4, <2>5
<1>3. QED  BY <1>1, <1>2

\* What a link holds once a frame is taken off it.
LEMMA TakeFrame ==
    ASSUME TypeOK, NEW link \in Link, line[link] # <<>>
    PROVE  LET rest == [line EXCEPT ![link] = Tail(@)] IN
           /\ Head(line[link]) \in FrameType
           /\ rest \in [Link -> Seq(FrameType)]
           /\ \A l \in Link : Len(rest[l]) <= QueueLimit
<1>1. line[link] \in Seq(FrameType) /\ Len(line[link]) <= QueueLimit
      BY DEF TypeOK
<1>2. /\ Head(line[link]) \in FrameType /\ Tail(line[link]) \in Seq(FrameType)
      /\ Len(Tail(line[link])) <= QueueLimit
      BY <1>1, MultiTransportAssumption
<1>3. QED  BY <1>2 DEF TypeOK

LEMMA InitFrameInv == Init => FrameInv
<1> SUFFICES ASSUME Init
             PROVE  FrameInv
    OBVIOUS
<1>1. fw \in FirmwareType
      BY InitIndInv DEF IndInv, Waiting
<1>2. controller \in ControllerType /\ ~controller.valid
      BY DEF Init, InitController, ControllerType, CommandData
<1>3. line \in [Link -> Seq(FrameType)] /\ \A link \in Link : Len(line[link]) <= QueueLimit
      BY MultiTransportAssumption DEF Init
<1>4. QED
      BY <1>1, <1>2, <1>3, MultiTransportAssumption
      DEF Init, FrameInv, TypeOK, HistoryType, CommandsWhole, CommandWaiting, LastWaitsOrApplied

LEMMA NextFrameInv ==
    ASSUME FrameInv, IndInv', [Next]_vars
    PROVE  FrameInv'
<1>1. fw' \in FirmwareType
      BY DEF IndInv, Waiting
<1>2. CASE UNCHANGED <<controller, loop, line, hist>>
      BY <1>1, <1>2 DEF FrameInv, TypeOK, CommandsWhole, CommandWaiting, LastWaitsOrApplied
<1>3. ASSUME Arrive
      PROVE  FrameInv'
  <2>1. PICK link \in Link, request \in Requests :
           /\ Len(line[link]) < QueueLimit
           /\ line' = [line EXCEPT ![link] =
                 Append(@, [id |-> hist.sent + 1, writes |-> request.writes,
                            reply |-> request.reply, bytes |-> request.bytes])]
        BY <1>3 DEF Arrive
  <2>2. hist.sent \in Nat /\ hist.sent < MaxFrames
        BY <1>3, MultiTransportAssumption DEF Arrive, FrameInv, TypeOK, HistoryType
  <2> DEFINE frame == [id |-> hist.sent + 1, writes |-> request.writes,
                       reply |-> request.reply, bytes |-> request.bytes]
  <2>3. frame \in FrameType
        BY <2>2, MultiTransportAssumption DEF FrameType, RequestType
  <2>4. line[link] \in Seq(FrameType)
        BY DEF FrameInv, TypeOK
  <2>5. Append(line[link], frame) \in Seq(FrameType)
        /\ Len(Append(line[link], frame)) <= QueueLimit
    <3> HIDE DEF frame
    <3> QED  BY <2>1, <2>3, <2>4, MultiTransportAssumption
  <2>6. line' \in [Link -> Seq(FrameType)] /\ \A l \in Link : Len(line'[l]) <= QueueLimit
    <3>1. line' = [line EXCEPT ![link] = Append(line[link], frame)]
          BY <2>1
    <3> HIDE DEF frame
    <3>2. QED  BY <2>5, <3>1 DEF FrameInv, TypeOK
  <2>7. hist' = [hist EXCEPT !.sent = @ + 1]
        BY <1>3 DEF Arrive
  <2>8. /\ hist' \in HistoryType
        /\ hist'.delivered = hist.delivered /\ hist'.last = hist.last
        /\ hist'.commands = hist.commands
    <3>1. hist \in HistoryType /\ hist.sent + 1 \in 0..MaxFrames
          BY <2>2, MultiTransportAssumption DEF FrameInv, TypeOK
    <3>2. QED  BY <2>7, <3>1 DEF HistoryType
  <2>9. UNCHANGED <<controller, loop>>
        BY <1>3 DEF Arrive
  <2>10. QED
         BY <1>1, <2>6, <2>8, <2>9
         DEF FrameInv, TypeOK, CommandsWhole, CommandWaiting, LastWaitsOrApplied
\* A poll of a link that takes no frame, or hands one to ReceiveFrame.
<1>4. ASSUME loop # "config", loop' \in {"uart", "controller"}, UNCHANGED <<controller, line, hist>>
      PROVE  FrameInv'
      BY <1>1, <1>4 DEF FrameInv, TypeOK, CommandsWhole, CommandWaiting, LastWaitsOrApplied
<1>5. ASSUME loop # "config", loop' \in {"uart", "controller"}, NEW link \in Link, line[link] # <<>>,
             line' = [line EXCEPT ![link] = Tail(@)],
             \/ UNCHANGED <<controller, hist>>
             \/ \E f : ReceiveFrame(f, Head(line[link]))
      PROVE  FrameInv'
  <2>1. /\ Head(line[link]) \in FrameType
        /\ line' \in [Link -> Seq(FrameType)]
        /\ \A l \in Link : Len(line'[l]) <= QueueLimit
        BY <1>5, TakeFrame DEF FrameInv
  <2>2. CASE UNCHANGED <<controller, hist>>
        BY <1>1, <1>5, <2>1, <2>2
        DEF FrameInv, TypeOK, CommandsWhole, CommandWaiting, LastWaitsOrApplied
  <2>3. CASE \E f : ReceiveFrame(f, Head(line[link]))
    <3>1. PICK f : ReceiveFrame(f, Head(line[link]))
          BY <2>3
    <3>2. loop' # "config"
          BY <1>5
    <3>3. QED  BY <1>1, <1>5, <2>1, <3>1, <3>2, ReceiveFrameEffect DEF FrameInv, TypeOK
  <2>4. QED  BY <1>5, <2>2, <2>3
<1>6. ASSUME PollCan
      PROVE  FrameInv'
  <2>1. loop # "config" /\ loop' \in {"uart", "controller"} /\ "can" \in Link
        BY <1>6 DEF PollCan, Link
  <2>2. \/ UNCHANGED <<controller, line, hist>>
        \/ /\ line["can"] # <<>> /\ line' = [line EXCEPT !["can"] = Tail(@)]
           /\ ReceiveFrame(fw, Head(line["can"]))
        BY <1>6 DEF PollCan
  <2>3. QED  BY <1>4, <1>5, <2>1, <2>2
<1>7. ASSUME PollUart
      PROVE  FrameInv'
  <2>1. loop # "config" /\ loop' \in {"uart", "controller"}
        BY <1>7 DEF PollUart
  <2>2. CASE fw.active = None
        BY <1>4, <1>7, <2>1, <2>2 DEF PollUart
  <2>3. CASE fw.active # None
    <3> DEFINE p == fw.active
    <3>1. p \in Link /\ PollUartOf(p)
          BY <1>7, <2>3 DEF PollUart, FrameInv, TypeOK, FirmwareType, Link
    <3>2. \/ UNCHANGED <<controller, line, hist>>
          \/ /\ line[p] # <<>> /\ line' = [line EXCEPT ![p] = Tail(@)]
             /\ UNCHANGED <<controller, hist>> \/ \E f : ReceiveFrame(f, Head(line[p]))
          BY <3>1 DEF PollUartOf
    <3>3. QED  BY <1>4, <1>5, <2>1, <3>1, <3>2
  <2>4. QED  BY <2>2, <2>3
<1>8. ASSUME PollController
      PROVE  FrameInv'
  <2>1. /\ controller' = [controller EXCEPT !.valid = FALSE]
        /\ hist' = IF controller.valid
                   THEN [hist EXCEPT !.commands = @ \cup {controller.command}] ELSE hist
        /\ loop # "config" /\ loop' = "config" /\ UNCHANGED <<fw, line>>
        BY <1>8 DEF PollController
  <2>2. controller' \in ControllerType /\ ~controller'.valid
        /\ controller.command \in CommandData
        BY <2>1 DEF FrameInv, TypeOK, ControllerType
  <2>3. /\ hist' \in HistoryType
        /\ hist'.delivered = hist.delivered /\ hist'.last = hist.last
        /\ hist'.commands = hist.commands \cup (IF controller.valid THEN {controller.command} ELSE {})
        BY <2>1, <2>2 DEF FrameInv, TypeOK, HistoryType
  <2>4. CommandsWhole'
        BY <2>3 DEF FrameInv, CommandsWhole, CommandWaiting
  <2>5. CommandWaiting' /\ LastWaitsOrApplied'
        BY <2>1, <2>2, <2>3 DEF FrameInv, CommandWaiting, LastWaitsOrApplied
  <2>6. QED  BY <1>1, <2>1, <2>2, <2>3, <2>4, <2>5 DEF FrameInv, TypeOK
<1>9. ASSUME PollRest
      PROVE  FrameInv'
      BY <1>1, <1>9 DEF PollRest, FrameInv, TypeOK, CommandsWhole, CommandWaiting, LastWaitsOrApplied
<1>10. ASSUME ConfigUpdate
       PROVE  FrameInv'
  <2>1. PICK p \in AuxPort : line' = [line EXCEPT ![p] = <<>>]
        BY <1>10 DEF ConfigUpdate
  <2>2. line' \in [Link -> Seq(FrameType)] /\ \A l \in Link : Len(line'[l]) <= QueueLimit
    <3>1. <<>> \in Seq(FrameType) /\ Len(<<>>) <= QueueLimit
          BY MultiTransportAssumption
    <3>2. QED  BY <2>1, <3>1 DEF FrameInv, TypeOK
  <2>3. hist' = [hist EXCEPT !.configs = @ + 1] /\ hist.configs < MaxConfigs
        /\ loop = "config" /\ loop' = "can" /\ UNCHANGED controller
        BY <1>10 DEF ConfigUpdate
  <2>4. /\ hist' \in HistoryType
        /\ hist'.delivered = hist.delivered /\ hist'.last = hist.last
        /\ hist'.commands = hist.commands
    <3>1. hist \in HistoryType /\ hist.configs + 1 \in 0..MaxConfigs
          BY <2>3, MultiTransportAssumption DEF FrameInv, TypeOK, HistoryType
    <3>2. QED  BY <2>3, <3>1 DEF HistoryType
  <2>5. QED
        BY <1>1, <2>2, <2>3, <2>4
        DEF FrameInv, TypeOK, CommandsWhole, CommandWaiting, LastWaitsOrApplied
<1>11. QED
       BY <1>2, <1>3, <1>6, <1>7, <1>8, <1>9, <1>10 DEF Next, LoopStep, DmaFinish, vars

\* Both invariants hold of every behaviour.
LEMMA FrameInvariance == Spec => []FrameInv
<1>1. Spec => []IndInv
      BY InitIndInv, NextIndInv, PTL DEF Spec
<1>2. IndInv /\ [Next]_vars => IndInv'
      BY NextIndInv
<1>3. FrameInv /\ IndInv' /\ [Next]_vars => FrameInv'
      BY NextFrameInv
<1>4. QED  BY <1>1, <1>2, <1>3, InitFrameInv, PTL DEF Spec

\* What the three properties need of the invariant.
LEMMA FrameInvImplies == FrameInv => TypeOK /\ CommandsWhole /\ LastCommandApplied
  BY DEF FrameInv, LastWaitsOrApplied, LastCommandApplied

\* Servers, links and controller keep their types, and no link holds more than
\* QueueLimit frames.
THEOREM FirmwareTypeCorrect == Spec => []TypeOK
  BY FrameInvariance, FrameInvImplies, PTL

\* What the servo is given is the command of one delivered frame, never a
\* mixture of frames (StartFrame, Write, CompleteFrame).
THEOREM CommandsAreWhole == Spec => []CommandsWhole
  BY FrameInvariance, FrameInvImplies, PTL

\* The servo obeys the last frame delivered before Poll hands over command_:
\* when that frame commands, what it commands is applied or waits.
THEOREM LastCommandObeyed == Spec => []LastCommandApplied
  BY FrameInvariance, FrameInvImplies, PTL
=============================================================================
