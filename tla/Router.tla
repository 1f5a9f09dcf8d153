------------------------------- MODULE Router -------------------------------
(***************************************************************************)
(* The transport router of the Rust library: Router                        *)
(* (lib/rust/moteus/src/transport/mod.rs) and, with cfg.async, AsyncRouter *)
(* (async_transport.rs), over CAN transport devices: SocketCAN             *)
(* (socketcan.rs, async_socketcan.rs) and fdcanusb adapters in pipelined   *)
(* mode (fdcanusb.rs, async_fdcanusb.rs).                                  *)
(*                                                                         *)
(* A cycle looks every request up in a table of addresses, probing the     *)
(* buses for an address it does not know, groups the requests by device    *)
(* and runs one or more transactions per device: one device after the      *)
(* other, or all of them in parallel tasks when async.  The buses carry    *)
(* controllers that answer, late or never.                                 *)
(***************************************************************************)
EXTENDS Integers, Sequences, FiniteSets, SequencesExt

CONSTANT Scenarios   \* the transports, buses and applications to check

None == 0            \* Option::None of a channel, parent, child or CAN id
Host == 0            \* source_id of the controllers
Broadcast == 127     \* 0x7F
Stranger == 126      \* another host that shares a bus

\* DeviceAddress: a UUID-only address has the CAN id 0x7F, td is
\* transport_device.
can_id(id) == [id |-> id, uuid |-> <<>>, td |-> None]
uuid(prefix) == [id |-> Broadcast, uuid |-> prefix, td |-> None]
with_transport_device(address, d) == [address EXCEPT !.td = d]
NoAddress == can_id(None)

\* A frame to controllers: mask is the UUID prefix written to UUID_MASK,
\* asks the registers read ("mode", "uuid" or nothing).
NoFrame == [dest |-> None, mask |-> <<>>, asks |-> "nothing"]

\* Request::new: replies are expected when arbitration bit 15 is set and
\* filtered by source unless the frame is a broadcast.
Request(frame) ==
    [frame |-> frame, channel |-> None, from |-> frame.dest, mine |-> FALSE,
     expected |-> IF frame.asks = "nothing" THEN 0 ELSE 1, address |-> NoAddress]

\* Controller::prepare_command and Request::from_command.
from_command(address, asks) ==
    [frame |-> [dest |-> address.id,
                mask |-> IF address.id = Broadcast THEN address.uuid ELSE <<>>,
                asks |-> asks],
     channel |-> address.td,
     from |-> IF asks = "nothing" THEN Broadcast ELSE address.id,
     mine |-> asks # "nothing",
     expected |-> IF asks = "nothing" THEN 0 ELSE 1,
     address |-> address]

\* Request::receive_only(FrameFilter::Any)
receive_only(expected) ==
    [Request(NoFrame) EXCEPT !.from = Broadcast, !.expected = expected]

\* FrameFilter::matches
matches(request, reply) ==
    /\ request.from \in {Broadcast, reply.source}
    /\ request.mine => reply.to = Host

\* A device, a controller and a request as the program can have them.  Indices
\* beyond the devices, which Router ignores and AsyncRouter panics on, are left
\* out; an address is of one of the two kinds DeviceAddress has constructors for.
\* CAN ids range from 1 to 126 (docs/guides/configuration.md:39).
DeviceInfos(count) ==
    [kind: {"socketcan", "fdcanusb"}, parent: 0..count, parentOnly: BOOLEAN, txSafe: BOOLEAN]
ServerInfos(count) == [bus: 1..count, id: 1..126, uuid: Seq(Nat)]
Addresses == [id: Nat, uuid: Seq(Nat), td: Nat]
Requests(count) ==
    [frame: [dest: Nat, mask: Seq(Nat), asks: {"mode", "uuid", "nothing"}], channel: 0..count,
     from: Nat, mine: BOOLEAN, expected: Nat, address: Addresses]

WellAddressed(request) ==
    /\ request.address.id # Broadcast => request.address.uuid = <<>>
    /\ request.frame # NoFrame =>
          IF request.address = NoAddress THEN request.frame.mask = <<>>
          ELSE request.frame = from_command(request.address, request.frame.asks).frame

\* Adapters have their own serial port: none is reached through another.
\* Controllers are on devices that have a bus, and each one that has a UUID has
\* its own: all are of one length, so that none begins with another.
Wired(devices, controllers) ==
    /\ \A d \in DOMAIN devices : devices[d].kind = "fdcanusb" =>
          devices[d].parent = None /\ ~devices[d].parentOnly
    /\ \A k \in DOMAIN controllers : ~devices[controllers[k].bus].parentOnly
    /\ \A j, k \in DOMAIN controllers :
          (j # k /\ controllers[j].uuid # <<>>) => ~IsPrefix(controllers[j].uuid, controllers[k].uuid)

\* A scenario: the flavour of the library, its devices (kind, parent and what
\* TransportDeviceInfo says of them), the controllers on the buses, what the
\* application does, whether an answer may come after the deadline that awaits
\* it, the disturbances that may happen, and bounds on both.  write() sends one
\* frame and waits for no reply.
ASSUME RouterAssumption ==
    \A s \in Scenarios :
        /\ s.async \in BOOLEAN /\ s.late \in BOOLEAN
        /\ s.maxOps \in Nat /\ s.maxFaults \in Nat
        /\ s.faults \subseteq {"lost", "error", "stranger", "move", "cancel"}
        /\ s.ops \subseteq {"discover", "read", "flush", "clear"}
        /\ s.devices \in Seq(DeviceInfos(Len(s.devices))) /\ Len(s.devices) > 0
        /\ s.servers \in Seq(ServerInfos(Len(s.devices))) /\ Wired(s.devices, s.servers)
        /\ s.routes \in [DOMAIN s.routes -> 1..Len(s.devices)]
        /\ \A call \in s.calls :
              /\ call.op \in {"cycle", "write"} /\ call.requests \in Seq(Requests(Len(s.devices)))
              /\ \A i \in DOMAIN call.requests : WellAddressed(call.requests[i])
              /\ call.op = "write" => Len(call.requests) = 1 /\ call.requests[1].expected = 0

VARIABLES
    cfg,      \* the scenario
    servers,  \* controllers: bus, CAN id and UUID (<<>> when not mask capable)
    router,   \* the routing table and the operation it is running
    dev,      \* the transport devices
    bus,      \* answers that have not reached the device
    hist      \* history: what controllers executed in this operation, routes
              \* learned since the last move, disturbances

vars == <<cfg, servers, router, dev, bus, hist>>

Devices == DOMAIN cfg.devices
Info(d) == cfg.devices[d]
Fd(d) == Info(d).kind = "fdcanusb"

\* Devices with a bus of their own that may be sent to with nothing attached.
HasBus(d) == ~Info(d).parentOnly
\* Mutant: a broadcast goes to the devices that need no parent only.
RootTargets == {d \in Devices : HasBus(d) /\ Info(d).txSafe /\ Info(d).parent = None}

BroadcastTargets == {d \in Devices : HasBus(d) /\ Info(d).txSafe}

\* compute_parent_indices
ParentIndices == {IF Info(d).parent # None THEN Info(d).parent ELSE d : d \in Devices}

-----------------------------------------------------------------------------
(* Controllers                                                             *)

\* A controller answers to its id and to broadcasts; a UUID_MASK that does not
\* match makes it discard the frame, one that has no such register ignores it.
Accepts(server, frame) ==
    /\ frame.dest \in {server.id, Broadcast}
    /\ server.uuid = <<>> \/ IsPrefix(frame.mask, server.uuid)

Listeners(b, frame) == {s \in DOMAIN servers : servers[s].bus = b /\ Accepts(servers[s], frame)}

\* The bus an entry's frame ends up on: that of the child behind a parent.
BusOf(d, entry) == IF entry.child # None THEN entry.child ELSE d

Answers(d, entry) ==
    IF entry.request.frame.asks = "nothing" THEN {}
    ELSE {[server |-> s, source |-> servers[s].id, to |-> Host,
           uuid |-> IF entry.request.frame.asks = "uuid" THEN servers[s].uuid ELSE <<>>,
           cause |-> <<router.n, entry.req>>] :
          s \in Listeners(BusOf(d, entry), entry.request.frame)}

\* What sending entries on device d makes the controllers do.
Executions(d, entries) ==
    UNION {{<<router.n, e.req, s>> : s \in Listeners(BusOf(d, e), e.request.frame)} : e \in entries}

\* Device d puts entries on its bus.
Transmit(d, entries) ==
    hist' = [hist EXCEPT !.executed = @ \cup {e \in Executions(d, entries) : e[2] > 0}]
AnswersTo(d, entries) == UNION {Answers(d, e) : e \in entries}

-----------------------------------------------------------------------------
(* Starting an operation                                                   *)

IdleDevice ==
    [pc |-> "idle", rx |-> <<>>, pending |-> 0, flush |-> FALSE, recover |-> FALSE]

NoWork == [d \in Devices |-> <<>>]
InOrder == [d \in Devices |-> d]

Entry(i, request, child) == [req |-> i, request |-> request, child |-> child]

\* What is gathered for one device: broadcasts that expect replies, and the rest.
NoGroup == [broadcast_with_reply |-> <<>>, other |-> <<>>]

\* The transactions of one device: broadcasts that expect replies one at a
\* time, then the rest as one batch.  Async tasks recover the device first.
Transactions(group) ==
    LET queries == group.broadcast_with_reply
        n == Len(queries)
    IN [k \in 1..(n + IF group.other = <<>> THEN 0 ELSE 1) |->
           [entries |-> IF k <= n THEN <<queries[k]>> ELSE group.other, bwr |-> k <= n, first |-> k = 1]]

CanStart == router.pc = "idle" /\ router.n < cfg.maxOps

Started(op, requests) ==
    [router EXCEPT !.n = @ + 1, !.op = op, !.requests = requests, !.i = 1,
                   !.groups = [d \in Devices |-> NoGroup], !.work = NoWork, !.order = InOrder, !.failed = FALSE, !.result = "none",
                   !.responses = [i \in 0..Len(requests) |-> {}], !.found = {}]

Called(op) == [Started(op, <<>>) EXCEPT !.result = "ok"]

Begin(r) ==
    /\ router' = r
    /\ hist' = [hist EXCEPT !.executed = {}]

\* cycle(), and write() with the frame it sends.  A cycle over a single device
\* hands it every request as it is.
Cycle ==
    /\ CanStart
    /\ \E call \in cfg.calls :
       LET r == Started(call.op, call.requests)
           whole == [NoGroup EXCEPT !.other =
                        [i \in DOMAIN call.requests |-> Entry(i, call.requests[i], None)]]
       IN Begin(IF Len(cfg.devices) = 1 /\ call.op = "cycle"
                THEN [r EXCEPT !.pc = "run", !.work = <<Transactions(whole)>>]
                ELSE [r EXCEPT !.pc = "resolve"])
    /\ UNCHANGED <<cfg, servers, dev, bus>>

\* discover()
Discover ==
    /\ CanStart /\ "discover" \in cfg.ops
    /\ Begin([Started("discover", <<>>) EXCEPT !.pc = "flush"])
    /\ UNCHANGED <<cfg, servers, dev, bus>>

\* flush() of an adapter takes everything that arrives within its 50 ms;
\* SocketCAN stops at the first quiet moment, so later answers survive it.
Flushed(ds) ==
    /\ dev' = [d \in Devices |-> IF d \notin ds THEN dev[d]
                  ELSE [dev[d] EXCEPT !.rx = <<>>, !.pending = 0, !.flush = FALSE]]
    /\ \E late \in SUBSET UNION {bus[d] : d \in {d \in ds : ~Fd(d)}} :
          bus' = [d \in Devices |-> IF d \in ds THEN bus[d] \cap late ELSE bus[d]]

\* read(): a device's pending frames, last first, then its next frame.  The
\* async read waits on the first device for as long as it takes.
read ==
    /\ CanStart /\ "read" \in cfg.ops
    /\ \E d \in ParentIndices :
          /\ cfg.async => \A e \in ParentIndices : d <= e
          /\ dev[d].rx # <<>>
          /\ dev' = [dev EXCEPT
                 ![d].rx = RemoveAt(@, IF dev[d].pending > 0 THEN dev[d].pending ELSE 1),
                 ![d].pending = IF @ > 0 THEN @ - 1 ELSE 0]
    /\ Begin(Called("read"))
    /\ UNCHANGED <<cfg, servers, bus>>

flush_read ==
    /\ CanStart /\ "flush" \in cfg.ops
    /\ Flushed(ParentIndices)
    /\ Begin(Called("flush"))
    /\ UNCHANGED <<cfg, servers>>

clear_routes ==
    /\ CanStart /\ "clear" \in cfg.ops /\ router.routes # <<>>
    /\ router' = [Called("clear") EXCEPT !.routes = <<>>]
    /\ hist' = [hist EXCEPT !.fresh = {}, !.executed = {}]
    /\ UNCHANGED <<cfg, servers, dev, bus>>

-----------------------------------------------------------------------------
(* Grouping requests by device                                             *)

\* get_device_for_address
Lookup(address) ==
    IF Len(cfg.devices) = 1 THEN {1}
    ELSE IF address \in DOMAIN router.routes THEN {router.routes[address]} ELSE {}

\* A request goes to the parent of its target, marked with the child; write()
\* goes straight to the device.
route_via_parent(target) ==
    LET parent == IF router.op = "cycle" THEN Info(target).parent ELSE None
    IN [send |-> IF parent # None THEN parent ELSE target,
        child |-> IF parent # None THEN target ELSE None]

\* A broadcast that names no UUID goes to every bus.
IsTrueBroadcast(request) == request.frame.dest = Broadcast /\ request.address.uuid = <<>>

LookupAddress(request) ==
    IF request.address # NoAddress THEN request.address ELSE can_id(request.frame.dest)

\* The devices a request goes to.
Targets(request) ==
    IF request.channel # None THEN {request.channel}
    ELSE IF request.frame = NoFrame THEN {}
    ELSE IF IsTrueBroadcast(request) THEN BroadcastTargets
    ELSE Lookup(LookupAddress(request))

\* The address is in no table: it must be probed for.
Unknown(request) ==
    /\ request.channel = None /\ request.frame # NoFrame
    /\ ~IsTrueBroadcast(request) /\ Lookup(LookupAddress(request)) = {}

\* What request i adds to the work of device d.
Dispatches(i, d) ==
    {Entry(i, router.requests[i], route_via_parent(t).child) :
        t \in {t \in Targets(router.requests[i]) : route_via_parent(t).send = d}}

\* The groups with those of request i.
Grouped(i) ==
    LET request == router.requests[i]
        bwr == request.channel = None /\ IsTrueBroadcast(request) /\ request.expected > 0
        added(d) == SetToSeq(Dispatches(i, d))
    IN [d \in Devices |->
           IF bwr THEN [router.groups[d] EXCEPT !.broadcast_with_reply = @ \o added(d)]
           ELSE [router.groups[d] EXCEPT !.other = @ \o added(d)]]

Sought == router.requests[router.i]

\* Mutant: what is already grouped is sent before the next address is resolved.
EagerResolve ==
    /\ router.pc = "resolve" /\ router.i <= Len(router.requests) /\ ~Unknown(Sought)
    /\ router' = [router EXCEPT !.i = @ + 1, !.groups = Grouped(router.i)]
    /\ \E d \in Devices : Transmit(d, Dispatches(router.i, d))
    /\ UNCHANGED <<cfg, servers, dev, bus>>

Resolve ==
    /\ router.pc = "resolve" /\ router.i <= Len(router.requests) /\ ~Unknown(Sought)
    /\ router' = [router EXCEPT !.i = @ + 1, !.groups = Grouped(router.i)]
    /\ UNCHANGED <<cfg, servers, dev, bus, hist>>

\* Every request has a device: each device gets its transactions.  The devices
\* take their turn in the order of a HashMap.
Execute ==
    /\ router.pc = "resolve" /\ router.i > Len(router.requests)
    /\ \E order \in IF router.op = "cycle" /\ ~cfg.async THEN SetToSeqs(Devices) ELSE {InOrder} :
          router' = [router EXCEPT !.pc = "run", !.order = order,
              !.work = [d \in Devices |-> Transactions(router.groups[d])]]
    /\ UNCHANGED <<cfg, servers, dev, bus, hist>>

-----------------------------------------------------------------------------
(* Discovery                                                               *)

\* discover_device flushes every device, discover() the parents.
StartProbe ==
    /\ router.pc = "resolve" /\ router.i <= Len(router.requests) /\ Unknown(Sought)
    /\ router' = [router EXCEPT !.pc = "flush", !.work = NoWork, !.order = InOrder]
    /\ UNCHANGED <<cfg, servers, dev, bus, hist>>

\* Mutant: the flush before a probe is forgotten.
FlushNone ==
    /\ router.pc = "flush"
    /\ router' = [router EXCEPT !.pc = "ask"]
    /\ UNCHANGED <<cfg, servers, dev, bus, hist>>

FlushAll ==
    /\ router.pc = "flush"
    /\ Flushed(IF router.op = "discover" THEN ParentIndices ELSE Devices)
    /\ router' = [router EXCEPT !.pc = "ask"]
    /\ UNCHANGED <<cfg, servers, hist>>

\* make_uuid_query_frame(): the UUID registers of everyone; 127 replies are
\* more than come, so that answers are collected until the timeout.
UuidQuery == [Request([dest |-> Broadcast, mask |-> <<>>, asks |-> "uuid"]) EXCEPT !.expected = 127]

\* The frame that is sent to find out who is where: a query of the mode for the
\* address sought, or of the UUIDs.
Probe ==
    IF router.op = "discover" THEN UuidQuery
    ELSE LET a == LookupAddress(Sought)
         IN Request([dest |-> a.id, mask |-> IF a.id = Broadcast THEN a.uuid ELSE <<>>,
                     asks |-> "mode"])

Asking(work) == [router EXCEPT !.pc = "probe", !.work = work, !.responses[0] = {}]
Sole(entry) == <<[entries |-> <<entry>>, bwr |-> TRUE, first |-> TRUE]>>

\* Blocking: a transaction per bus, one device after the other.
AskInTurn ==
    /\ router.pc = "ask" /\ ~cfg.async
    /\ router' = Asking([d \in Devices |->
                     IF d \in BroadcastTargets THEN Sole(Entry(0, Probe, None)) ELSE <<>>])
    /\ UNCHANGED <<cfg, servers, dev, bus, hist>>

\* Async: the probe is written to every bus (which recovers an adapter), then
\* tasks receive on all devices in parallel.
AskInParallel ==
    /\ router.pc = "ask" /\ cfg.async
    /\ LET entry == Entry(0, Probe, None)
           receive == Entry(0, receive_only(Probe.expected), None)
           drained == {d \in BroadcastTargets : Fd(d) /\ dev[d].recover}
       IN /\ dev' = [d \in Devices |-> IF d \in drained
                        THEN [dev[d] EXCEPT !.rx = <<>>, !.pending = 0, !.recover = FALSE]
                        ELSE dev[d]]
          /\ bus' = [d \in Devices |-> (IF d \in drained THEN {} ELSE bus[d])
                        \cup (IF d \in BroadcastTargets THEN Answers(d, entry) ELSE {})]
          /\ router' = Asking([d \in Devices |-> IF HasBus(d) THEN Sole(receive) ELSE <<>>])
    /\ UNCHANGED <<cfg, servers, hist>>

AllDone == \A d \in Devices : router.work[d] = <<>>

\* Exactly one bus must have answered.
Conclusive(found) == Cardinality(found) = 1

ProbeEnd ==
    /\ router.pc = "probe" /\ router.op # "discover" /\ AllDone
    /\ LET found == {r.channel : r \in {r \in router.responses[0] : r.frame.source # Broadcast}}
           address == LookupAddress(Sought)
       IN IF Conclusive(found)
          THEN /\ router' = [router EXCEPT !.pc = "resolve",
                     !.routes = [a \in DOMAIN @ \cup {address} |->
                                   IF a = address THEN CHOOSE d \in found : TRUE ELSE @[a]]]
               /\ hist' = [hist EXCEPT !.fresh = @ \cup {address}]
          ELSE /\ router' = [router EXCEPT !.pc = "idle",
                     !.result = IF found = {} THEN "not found" ELSE "ambiguous"]
               /\ UNCHANGED hist
    /\ UNCHANGED <<cfg, servers, dev, bus>>

\* resolve_addresses: the CAN id if no other controller on the bus has it, else
\* the shortest UUID prefix no other controller has, else the CAN id as it was.
OwnPrefixes(info, infos) ==
    {p \in Prefixes(info.uuid) \ {<<>>} : \A o \in infos \ {info} : ~IsPrefix(p, o.uuid)}

Shortest(prefixes) == CHOOSE p \in prefixes : \A q \in prefixes : Len(p) <= Len(q)

\* Mutant: the shortest prefix is used whether or not it is unique.
ShortPrefixAddress(info, infos) ==
    IF \A o \in infos \ {info} : <<o.id, o.channel>> # <<info.id, info.channel>>
    THEN with_transport_device(can_id(info.id), info.channel)
    ELSE IF info.uuid = <<>> THEN NoAddress
    ELSE with_transport_device(uuid(SubSeq(info.uuid, 1, 1)), info.channel)

UniqueAddress(info, infos) ==
    IF \A o \in infos \ {info} : <<o.id, o.channel>> # <<info.id, info.channel>>
    THEN with_transport_device(can_id(info.id), info.channel)
    ELSE IF info.uuid = <<>> THEN NoAddress
    ELSE IF OwnPrefixes(info, infos) = {} THEN can_id(info.id)
    ELSE with_transport_device(uuid(Shortest(OwnPrefixes(info, infos))), info.channel)

resolve_addresses(infos) ==
    {[info |-> info, address |-> UniqueAddress(info, infos)] : info \in infos}

\* What an answer to the query of the UUIDs tells of a controller.
DeviceInfo(r) ==
    [id |-> r.frame.source, uuid |-> r.frame.uuid, channel |-> r.channel, server |-> r.frame.server]

\* Frames addressed to another host are skipped.
DiscoverEnd ==
    /\ router.pc = "probe" /\ router.op = "discover" /\ AllDone
    /\ LET mine == {r \in router.responses[0] : r.frame.source # Broadcast /\ r.frame.to = Host}
       IN router' = [router EXCEPT !.pc = "idle", !.result = "ok",
              !.found = resolve_addresses({DeviceInfo(r) : r \in mine})]
    /\ UNCHANGED <<cfg, servers, dev, bus, hist>>

-----------------------------------------------------------------------------
(* Transactions                                                            *)

Running == router.pc \in {"probe", "run"}
Txn(d) == Head(router.work[d])

\* The replies that the entries of a transaction expect together.
Total(entries) ==
    LET total[k \in 0..Len(entries)] ==
            IF k = 0 THEN 0 ELSE total[k - 1] + entries[k].request.expected
    IN total[Len(entries)]
Expected(d) == Total(Txn(d).entries)

\* Those of the first k entries that have a frame to send.
Frames(d, k) ==
    {Txn(d).entries[j] : j \in {j \in 1..k : Txn(d).entries[j].request.frame # NoFrame}}

\* write() sends outside of any transaction.
Writing == router.pc = "run" /\ router.op = "write"

\* Tasks run side by side; otherwise a device finishes before the next starts.
InTurn == ~cfg.async \/ Writing
MyTurn(d) ==
    InTurn => \E k \in DOMAIN router.order :
                 router.order[k] = d /\ \A j \in 1..(k - 1) : router.work[router.order[j]] = <<>>

\* What a device drops before a transaction: adapters everything under way,
\* SocketCAN (in a task, after a cancelled cycle) what has arrived.
Drains(d) == Fd(d) /\ (dev[d].flush \/ dev[d].recover)
\* Mutant: a task recovers its device whether or not it needs to.
AlwaysClears(d) == cfg.async /\ Txn(d).first

Clears(d) == dev[d].recover /\ Txn(d).first /\ ~Writing

\* needs_recovery while device d sends: set for the whole of an async
\* transaction, left by write() as it was, or as recover() left it.
Recovering(d) == IF Writing THEN dev[d].recover /\ ~Fd(d) ELSE cfg.async

\* A transaction that fails is dropped when it is a probe or a broadcast that
\* awaits replies; any other ends the operation, or the device's part of it.
Failed(r, d) ==
    LET silent == Txn(d).bwr /\ (r.pc = "probe" \/ ~cfg.async)
    IN IF silent THEN [r EXCEPT !.work[d] = Tail(@)]
       ELSE [r EXCEPT !.failed = TRUE,
                      !.work = IF InTurn THEN NoWork ELSE [r.work EXCEPT ![d] = Tail(r.work[d])]]

\* An error marks an adapter for flushing, unless write() could not even send.
Broken(d, device) ==
    [device EXCEPT !.pc = "idle", !.flush = @ \/ (Fd(d) /\ (~Writing \/ device.pc = "ok")),
                   !.recover = Recovering(d)]

\* All frames of the transaction are written; an error may cut it short.
Send(d) ==
    /\ Running /\ router.work[d] # <<>> /\ dev[d].pc = "idle" /\ MyTurn(d)
    /\ LET cleared == IF Drains(d) \/ Clears(d)
                      THEN [dev[d] EXCEPT !.rx = <<>>, !.pending = 0, !.flush = FALSE] ELSE dev[d]
           arriving == IF Drains(d) THEN {} ELSE bus[d]
           total == Len(Txn(d).entries)
       IN \E sent \in 0..total :
          /\ Transmit(d, Frames(d, sent))
          /\ bus' = [bus EXCEPT ![d] = arriving \cup AnswersTo(d, Frames(d, sent))]
          /\ \/ /\ sent = total
                /\ dev' = [dev EXCEPT ![d] =
                     [cleared EXCEPT !.pc = IF Fd(d) /\ Frames(d, total) # {} THEN "ok" ELSE "receive",
                                     !.recover = Recovering(d)]]
                /\ UNCHANGED <<router>>
             \/ /\ sent < total /\ Txn(d).entries[sent + 1].request.frame # NoFrame
                /\ "error" \in cfg.faults /\ router.spent < cfg.maxFaults
                /\ dev' = [dev EXCEPT ![d] = Broken(d, cleared)]
                /\ router' = [Failed(router, d) EXCEPT !.spent = @ + 1]
    /\ UNCHANGED <<cfg, servers>>

\* wait_for_ok: the adapter confirms every frame; the replies that come before
\* its last OK are kept in pending_frames.
WaitOk(d) ==
    /\ dev[d].pc = "ok"
    /\ \E k \in dev[d].pending..Len(dev[d].rx) :
          dev' = [dev EXCEPT ![d].pc = "receive", ![d].pending = k]
    /\ UNCHANGED <<cfg, servers, router, bus, hist>>

\* The adapter reports an error, or its OK does not come.
OkFails(d) ==
    /\ dev[d].pc = "ok" /\ "error" \in cfg.faults /\ router.spent < cfg.maxFaults
    /\ dev' = [dev EXCEPT ![d] = Broken(d, dev[d])]
    /\ router' = [Failed(router, d) EXCEPT !.spent = @ + 1]
    /\ UNCHANGED <<cfg, servers, bus, hist>>

\* dispatch_frame: a frame goes to the first request that matches it.
FirstMatch(entries, frame) ==
    {k \in DOMAIN entries :
        /\ matches(entries[k].request, frame)
        /\ \A j \in 1..(k - 1) : ~matches(entries[j].request, frame)}

Dispatched(d, frames) ==
    [i \in DOMAIN router.responses |-> router.responses[i] \cup
        {[frame |-> f, channel |-> d] : f \in {f \in Range(frames) :
            \E k \in FirstMatch(Txn(d).entries, f) : Txn(d).entries[k].req = i}}]

Answered(d, frames) ==
    [router EXCEPT !.responses = Dispatched(d, frames), !.work[d] = Tail(@)]

\* Mutant: the frames taken from pending_frames still count as pending.
PendingKept(d) ==
    LET n == IF dev[d].pending >= Expected(d) THEN dev[d].pending ELSE Expected(d)
    IN /\ dev[d].pc = "receive" /\ Len(dev[d].rx) >= n
       /\ router' = Answered(d, SubSeq(dev[d].rx, 1, n))
       /\ dev' = [dev EXCEPT ![d].pc = "idle", ![d].recover = @ /\ Writing,
                     ![d].rx = SubSeq(@, n + 1, Len(@))]
       /\ UNCHANGED <<cfg, servers, bus, hist>>

\* receive_frames: any frame counts as one of the replies expected.
Complete(d) ==
    LET taken == IF dev[d].pending >= Expected(d) THEN dev[d].pending ELSE Expected(d)
        n == IF Expected(d) = 0 THEN 0 ELSE taken
    IN /\ dev[d].pc = "receive" /\ Len(dev[d].rx) >= n
       /\ router' = Answered(d, SubSeq(dev[d].rx, 1, n))
       /\ dev' = [dev EXCEPT ![d].pc = "idle", ![d].recover = @ /\ Writing,
                     ![d].rx = SubSeq(@, n + 1, Len(@)), ![d].pending = IF n = 0 THEN @ ELSE 0]
       /\ UNCHANGED <<cfg, servers, bus, hist>>

\* Mutant: a timeout leaves no mark on the adapter.
UnmarkedTimeout(d) ==
    /\ dev[d].pc = "receive" /\ Len(dev[d].rx) < Expected(d)
    /\ cfg.late \/ bus[d] = {}
    /\ router' = Answered(d, dev[d].rx)
    /\ dev' = [dev EXCEPT ![d] = [IdleDevice EXCEPT !.flush = dev[d].flush]]
    /\ UNCHANGED <<cfg, servers, bus, hist>>

\* Mutant: a partial set of replies is waited for without a deadline.
PatientTimeout(d) ==
    /\ dev[d].pc = "receive" /\ Len(dev[d].rx) < Expected(d) /\ dev[d].rx = <<>>
    /\ cfg.late \/ bus[d] = {}
    /\ router' = Answered(d, dev[d].rx)
    /\ dev' = [dev EXCEPT ![d] = [IdleDevice EXCEPT !.flush = dev[d].flush \/ Fd(d)]]
    /\ UNCHANGED <<cfg, servers, bus, hist>>

\* The replies do not all come in time: those that did are used, and an
\* adapter is marked for flushing.
ReceiveTimeout(d) ==
    /\ dev[d].pc = "receive" /\ Len(dev[d].rx) < Expected(d)
    /\ cfg.late \/ bus[d] = {}
    /\ router' = Answered(d, dev[d].rx)
    /\ dev' = [dev EXCEPT ![d] = [IdleDevice EXCEPT !.flush = dev[d].flush \/ Fd(d)]]
    /\ UNCHANGED <<cfg, servers, bus, hist>>

RunEnd ==
    /\ router.pc = "run" /\ AllDone
    /\ router' = [router EXCEPT !.pc = "idle", !.result = IF router.failed THEN "err" ELSE "ok"]
    /\ UNCHANGED <<cfg, servers, dev, bus, hist>>

\* The future of an async operation is dropped, and its tasks with it: frames a
\* task had received are lost.
Cancel ==
    /\ cfg.async /\ "cancel" \in cfg.faults /\ router.pc # "idle" /\ router.spent < cfg.maxFaults
    /\ \E lost \in [Devices -> 0..2] :
          /\ \A d \in Devices : lost[d] <= IF dev[d].pc = "receive" THEN Len(dev[d].rx) ELSE 0
          /\ dev' = [d \in Devices |->
                 [dev[d] EXCEPT !.pc = "idle", !.rx = SubSeq(@, lost[d] + 1, Len(@)),
                                !.pending = IF dev[d].pc = "receive" THEN 0 ELSE @]]
    /\ router' = [router EXCEPT !.pc = "idle", !.work = NoWork, !.result = "cancelled",
                                !.spent = @ + 1]
    /\ UNCHANGED <<cfg, servers, bus, hist>>

-----------------------------------------------------------------------------
(* The buses                                                               *)

Deliver(d) ==
    /\ \E reply \in bus[d] :
          /\ bus' = [bus EXCEPT ![d] = @ \ {reply}]
          /\ dev' = [dev EXCEPT ![d].rx = Append(@, reply)]
    /\ UNCHANGED <<cfg, servers, router, hist>>

CanFault(kind) == kind \in cfg.faults /\ router.spent < cfg.maxFaults
Spend == router' = [router EXCEPT !.spent = @ + 1]

Lose ==
    /\ CanFault("lost") /\ Spend
    /\ \E d \in Devices : \E reply \in bus[d] : bus' = [bus EXCEPT ![d] = @ \ {reply}]
    /\ UNCHANGED <<cfg, servers, dev, hist>>

\* Another host talks to a controller of the bus.
StrangerTalks ==
    /\ CanFault("stranger") /\ Spend
    /\ \E s \in DOMAIN servers :
          bus' = [bus EXCEPT ![servers[s].bus] = @ \cup
                    {[server |-> s, source |-> servers[s].id, to |-> Stranger, uuid |-> <<>>,
                      cause |-> <<0, router.spent>>]}]
    /\ UNCHANGED <<cfg, servers, dev, hist>>

\* A controller is moved to another bus while nothing runs.
Move ==
    /\ CanFault("move") /\ router.pc = "idle" /\ Spend
    /\ \E s \in DOMAIN servers : \E d \in {d \in Devices : HasBus(d)} \ {servers[s].bus} :
          servers' = [servers EXCEPT ![s].bus = d]
    /\ hist' = [hist EXCEPT !.fresh = {}, !.moved = TRUE]
    /\ UNCHANGED <<cfg, dev, bus>>

-----------------------------------------------------------------------------
(* Specification                                                           *)

\* add_route has filled the table with the CAN ids the application knows.
Init ==
    /\ cfg \in Scenarios
    /\ servers = cfg.servers
    /\ router = [pc |-> "idle", n |-> 0, op |-> "none", requests |-> <<>>, i |-> 1,
                 groups |-> [d \in Devices |-> NoGroup], work |-> NoWork, order |-> InOrder, failed |-> FALSE,
                 result |-> "none", responses |-> [i \in {0} |-> {}], routes |-> cfg.routes,
                 found |-> {}, spent |-> 0]
    /\ dev = [d \in Devices |-> IdleDevice]
    /\ bus = [d \in Devices |-> {}]
    /\ hist = [executed |-> {}, fresh |-> {}, moved |-> FALSE]

DeviceStep(d) ==
    Send(d) \/ WaitOk(d) \/ OkFails(d) \/ Complete(d) \/ ReceiveTimeout(d)

\* What the program does next while an operation runs.
RouterStep ==
    \/ Resolve \/ Execute \/ StartProbe \/ FlushAll \/ AskInTurn \/ AskInParallel
    \/ ProbeEnd \/ DiscoverEnd \/ RunEnd
    \/ \E d \in Devices : DeviceStep(d)

Application == Cycle \/ Discover \/ read \/ flush_read \/ clear_routes \/ Cancel

Disturbance == Lose \/ StrangerTalks \/ Move

Next == Application \/ RouterStep \/ (\E d \in Devices : Deliver(d)) \/ Disturbance

Spec == Init /\ [][Next]_vars

\* Blocking calls and tasks run on; an answer under way arrives or is lost.
FairSpec == Spec /\ WF_vars(RouterStep) /\ WF_vars(\E d \in Devices : Deliver(d))

-----------------------------------------------------------------------------
(* Properties                                                              *)

Reply == [server: DOMAIN servers, source: Nat, to: {Host, Stranger}, uuid: Seq(Nat),
          cause: Nat \X Nat]

\* Type invariant of the router, its devices and the buses.
TypeOK ==
    /\ router.pc \in {"idle", "resolve", "flush", "ask", "probe", "run"}
    /\ router.n \in 0..cfg.maxOps /\ router.spent \in 0..cfg.maxFaults
    /\ router.i \in 1..(Len(router.requests) + 1)
    /\ DOMAIN router.responses = 0..Len(router.requests)
    /\ \A a \in DOMAIN router.routes : router.routes[a] \in Devices
    /\ \A d \in Devices :
          /\ dev[d].pc \in {"idle", "ok", "receive"}
          /\ dev[d].pc # "idle" => router.work[d] # <<>>
          /\ dev[d].rx \in Seq(Reply) /\ dev[d].pending \in 0..Len(dev[d].rx)
          /\ bus[d] \subseteq Reply

Adapters == \A d \in Devices : Fd(d)
BroadcastQuery(request) == IsTrueBroadcast(request) /\ request.expected > 0

\* The controllers a frame may reach on a bus, wherever they have moved to.
Reached(b, frame) ==
    {s \in DOMAIN servers : (servers[s].bus = b \/ hist.moved) /\ Accepts(servers[s], frame)}

\* A request that the router may have to probe for.
MayProbe(request) ==
    /\ Len(cfg.devices) > 1 /\ request.channel = None /\ request.frame # NoFrame
    /\ ~IsTrueBroadcast(request)
    /\ LookupAddress(request) \notin DOMAIN cfg.routes \/ "clear" \in cfg.ops

\* An operation asks for fewer answers than some bus sends: a request, the probe
\* for its address, or the query of the UUIDs.
Crowded == "discover" \in cfg.ops /\ Len(cfg.servers) > UuidQuery.expected
Surplus ==
    \/ Crowded
    \/ \E call \in cfg.calls : \E request \in Range(call.requests) : \E b \in Devices :
          LET reached == Cardinality(Reached(b, request.frame))
          IN \/ request.frame.asks # "nothing" /\ reached > request.expected
             \/ MayProbe(request) /\ reached > 1
Disturbed == cfg.late \/ router.spent > 0

\* No probe is dropped half way.
ProbesEnd ==
    "cancel" \in cfg.faults =>
        /\ "discover" \notin cfg.ops
        /\ \A call \in cfg.calls : \A request \in Range(call.requests) : ~MayProbe(request)

\* Over adapters, a cycle hands the application only answers to its own
\* requests: what an earlier operation or a probe left behind (a timeout, an
\* error, a dropped future) has been drained.  This needs a bus without other
\* hosts, and operations that never expect fewer answers than controllers send.
\* FdcanusbDevice needs_flush, AsyncFdcanusbDevice needs_recovery.
Attentive == Adapters /\ ~Surplus /\ "stranger" \notin cfg.faults /\ ProbesEnd
ResponsesAnswerTheirRequest ==
    (Attentive /\ router.op = "cycle")
    => \A i \in DOMAIN router.requests : \A r \in router.responses[i] :
          r.frame.cause \in {router.n} \X DOMAIN router.requests

\* What answers a probe can only be the controller it asks for: adapters have
\* been flushed before, and the blocking router filters by CAN id.  SocketCAN may
\* hold a late answer of a controller that has moved since, or that is behind
\* another device that hands over what it sends.
CanIdsOnly == \A call \in cfg.calls : \A i \in DOMAIN call.requests : call.requests[i].address.uuid = <<>>
OwnQueues == \A d \in Devices : Info(d).parent # None => Info(Info(d).parent).parentOnly
ProbesConclusive ==
    \/ Adapters /\ "stranger" \notin cfg.faults
    \/ ~cfg.async /\ CanIdsOnly /\ (Adapters \/ (~hist.moved /\ OwnQueues))

\* A route learned by probing names the bus the controller is on, until the
\* controller is moved.  discover_device, routing_table.
FreshRoutesHold ==
    ProbesConclusive
    => \A a \in hist.fresh \cap DOMAIN router.routes :
          \E s \in DOMAIN servers :
              /\ servers[s].bus = router.routes[a]
              /\ Accepts(servers[s], [dest |-> a.id, mask |-> a.uuid, asks |-> "mode"])

\* The controllers a request is meant for.
Wanted(request) ==
    {s \in DOMAIN servers :
        /\ Accepts(servers[s], request.frame)
        /\ servers[s].bus \in IF request.channel # None THEN {request.channel}
                              ELSE {d \in Devices : Info(d).txSafe /\ ~Info(d).parentOnly}}

\* An operation that reports success has sent each request to every controller
\* it is meant for, wherever they are; a broadcast that awaits replies may miss
\* a bus that failed, since its errors are dropped by the blocking router.
\* execute_cycle, write.
OkMeansExecuted ==
    (router.op \in {"cycle", "write"} /\ router.result = "ok" /\ ~hist.moved)
    => \A i \in DOMAIN router.requests :
         LET request == router.requests[i]
             wanted == Wanted(request)
         IN \/ request.frame = NoFrame
            \/ BroadcastQuery(request) /\ ~cfg.async /\ router.spent > 0
            \/ ~IsTrueBroadcast(request) /\ Cardinality({servers[s].bus : s \in wanted}) > 1
            \/ \A s \in wanted : <<router.n, i, s>> \in hist.executed

\* An address that is found nowhere, or twice, fails the operation before any of
\* its frames is sent.  execute_cycle resolves every request before it executes.
LookupErrorSendsNothing ==
    router.result \in {"not found", "ambiguous"} => hist.executed = {}

\* Without disturbances, a controller on some bus is found.
FindsController ==
    router.result = "not found" => Wanted([Sought EXCEPT !.frame = Probe.frame]) = {}
DiscoveryFindsController ==
    (~Disturbed /\ (Adapters \/ ~Surplus)) => FindsController

\* The documentation of AsyncRouter: "Cancel safe" (async_transport.rs).
CancelSafeDiscovery == ~cfg.late => FindsController

\* The controllers an address of discover() reaches.
Addressed(address) ==
    {s \in Listeners(address.td, from_command(address, "mode").frame) :
        address.uuid = <<>> \/ servers[s].uuid # <<>>}

\* Without disturbances, discover() lists every controller, each with an address
\* that reaches it and no other controller (by a UUID, none other that has one:
\* a controller without them obeys any mask).  resolve_addresses.
DiscoveredAddressesUnique ==
    (/\ router.op = "discover" /\ router.result = "ok" /\ ~Disturbed
     /\ (Adapters /\ ~Crowded) \/ ~Surplus)
    => /\ {f.info.server : f \in router.found} =
              {s \in DOMAIN servers : Info(servers[s].bus).txSafe}
       /\ \A f \in router.found :
              f.address # NoAddress => Addressed(f.address) = {f.info.server}
       /\ \A f \in router.found : f.address = NoAddress => f.info.uuid = <<>>

\* Every operation ends: retries, timeouts and errors never leave a task or a
\* device waiting on another.
OperationEnds == router.pc # "idle" ~> router.pc = "idle"
=============================================================================
