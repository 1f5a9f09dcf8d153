---------------------------- MODULE Router_proofs ----------------------------
(***************************************************************************)
(* What holds of the router for every number and kind of devices, every    *)
(* set of controllers, requests and calls, and any bound on operations and *)
(* disturbances.                                                           *)
(***************************************************************************)
EXTENDS Router, Induction, SequenceTheorems, FiniteSetTheorems, TLAPS

RouterFields ==
    {"pc", "n", "op", "requests", "i", "groups", "work", "order", "failed", "result", "responses",
     "routes", "found", "spent"}
Operations == {"none", "cycle", "write", "discover", "read", "flush", "clear"}
Results == {"none", "ok", "err", "cancelled", "not found", "ambiguous"}

Entries == [req: Nat, request: Requests(Len(cfg.devices)), child: 0..Len(cfg.devices)]
Txns == [entries: Seq(Entries), bwr: BOOLEAN, first: BOOLEAN]
Groups == [broadcast_with_reply: Seq(Entries), other: Seq(Entries)]
Received == [frame: Reply, channel: Devices]
DeviceStates ==
    [pc: {"idle", "ok", "receive"}, rx: Seq(Reply), pending: Nat, flush: BOOLEAN, recover: BOOLEAN]

\* The router: while it probes for an address, there is a request that has it.
RouterOK(r) ==
    /\ DOMAIN r = RouterFields
    /\ r.pc \in {"idle", "resolve", "flush", "ask", "probe", "run"}
    /\ r.n \in 0..cfg.maxOps /\ r.spent \in 0..cfg.maxFaults
    /\ r.op \in Operations /\ r.result \in Results /\ r.failed \in BOOLEAN
    /\ r.requests \in Seq(Requests(Len(cfg.devices))) /\ r.i \in 1..(Len(r.requests) + 1)
    /\ \A i \in 1..Len(r.requests) : WellAddressed(r.requests[i])
    /\ r.groups \in [Devices -> Groups] /\ r.work \in [Devices -> Seq(Txns)]
    /\ r.order \in Seq(Devices)
    /\ DOMAIN r.responses = 0..Len(r.requests)
    /\ \A i \in DOMAIN r.responses : r.responses[i] \subseteq Received
    /\ \A a \in DOMAIN r.routes : r.routes[a] \in Devices
    /\ r.pc \in {"flush", "ask", "probe"} /\ r.op # "discover" => r.i <= Len(r.requests)

DevicesOK(states) ==
    /\ states \in [Devices -> DeviceStates]
    /\ \A d \in Devices : states[d].pending <= Len(states[d].rx)

TypesInv ==
    /\ cfg \in Scenarios
    /\ servers \in Seq(ServerInfos(Len(cfg.devices)))
    /\ RouterOK(router) /\ DevicesOK(dev) /\ bus \in [Devices -> SUBSET Reply]
    /\ DOMAIN hist = {"executed", "fresh", "moved"}

\* A device that is not idle has a transaction, in an operation that runs, and
\* it is its turn.
ControlInv ==
    \A d \in Devices : dev[d].pc # "idle" => Running /\ router.work[d] # <<>> /\ MyTurn(d)

\* What the parts of a scenario are.
LEMMA ConfigParts ==
    ASSUME cfg \in Scenarios
    PROVE  /\ cfg.async \in BOOLEAN /\ cfg.late \in BOOLEAN /\ cfg.maxOps \in Nat
           /\ cfg.maxFaults \in Nat /\ cfg.faults \subseteq {"lost", "error", "stranger", "move", "cancel"}
           /\ cfg.ops \subseteq {"discover", "read", "flush", "clear"}
           /\ cfg.devices \in Seq(DeviceInfos(Len(cfg.devices))) /\ Len(cfg.devices) \in Nat \ {0}
           /\ Devices = 1..Len(cfg.devices) /\ 1 \in Devices
           /\ cfg.servers \in Seq(ServerInfos(Len(cfg.devices)))
           /\ cfg.routes \in [DOMAIN cfg.routes -> Devices]
           /\ \A call \in cfg.calls :
                 /\ call.op \in {"cycle", "write"}
                 /\ call.requests \in Seq(Requests(Len(cfg.devices)))
                 /\ \A i \in 1..Len(call.requests) : WellAddressed(call.requests[i])
<1>1. /\ cfg.devices \in Seq(DeviceInfos(Len(cfg.devices))) /\ Len(cfg.devices) > 0
      /\ cfg.routes \in [DOMAIN cfg.routes -> 1..Len(cfg.devices)]
      BY RouterAssumption
<1>2. Len(cfg.devices) \in Nat /\ Devices = 1..Len(cfg.devices)
      BY <1>1 DEF Devices
<1>3. ASSUME NEW call \in cfg.calls
      PROVE  /\ call.op \in {"cycle", "write"}
             /\ call.requests \in Seq(Requests(Len(cfg.devices)))
             /\ \A i \in 1..Len(call.requests) : WellAddressed(call.requests[i])
  <2>1. /\ call.op \in {"cycle", "write"} /\ call.requests \in Seq(Requests(Len(cfg.devices)))
        /\ \A i \in DOMAIN call.requests : WellAddressed(call.requests[i])
        BY <1>3, RouterAssumption
  <2>2. DOMAIN call.requests = 1..Len(call.requests)
        BY <2>1
  <2>3. QED  BY <2>1, <2>2
<1>4. QED  BY <1>1, <1>2, <1>3, RouterAssumption

\* What is known of a device.
LEMMA DeviceParts ==
    ASSUME cfg \in Scenarios, NEW d \in Devices
    PROVE  /\ Info(d).parent \in {None} \cup Devices /\ Info(d).parentOnly \in BOOLEAN
           /\ Info(d).txSafe \in BOOLEAN /\ Fd(d) \in BOOLEAN /\ d \in Nat \ {0}
<1>1. /\ cfg.devices \in Seq(DeviceInfos(Len(cfg.devices))) /\ Len(cfg.devices) \in Nat
      /\ Devices = 1..Len(cfg.devices)
      BY ConfigParts
<1>2. cfg.devices[d] \in DeviceInfos(Len(cfg.devices))
      BY <1>1
<1>3. QED  BY <1>1, <1>2 DEF Info, Fd, DeviceInfos, None

\* Steps keep the scenario and who the controllers are, and with them the types.
LEMMA TypesKept ==
    ASSUME TypesInv, cfg' = cfg, servers' \in Seq(ServerInfos(Len(cfg.devices))),
           Len(servers') = Len(servers), RouterOK(router'), DevicesOK(dev'),
           bus' \in [Devices -> SUBSET Reply], DOMAIN hist' = {"executed", "fresh", "moved"}
    PROVE  TypesInv'
<1>1. Devices' = Devices /\ DOMAIN servers' = DOMAIN servers
  <2>1. servers \in Seq(ServerInfos(Len(cfg.devices)))
        BY DEF TypesInv
  <2>2. QED  BY <2>1 DEF Devices
<1>2. Reply' = Reply
      BY <1>1 DEF Reply
<1>3. Entries' = Entries
      BY DEF Entries
<1>4. Txns' = Txns /\ Groups' = Groups
      BY <1>3 DEF Txns, Groups
<1>5. Received' = Received /\ DeviceStates' = DeviceStates
      BY <1>1, <1>2 DEF Received, DeviceStates
<1>6. RouterOK(router)'
      BY <1>1, <1>4, <1>5 DEF RouterOK
<1>7. DevicesOK(dev)'
      BY <1>1, <1>5 DEF DevicesOK
<1>8. QED  BY <1>1, <1>2, <1>6, <1>7 DEF TypesInv

(***************************************************************************)
(* What the operators return                                               *)
(***************************************************************************)

\* A function on the numbers from one is a sequence.
LEMMA FunctionAsSeq ==
    ASSUME NEW S, NEW n \in Nat, NEW s \in [1..n -> S]
    PROVE  s \in Seq(S) /\ Len(s) = n
  OBVIOUS

\* A finite set is listed by a sequence.
LEMMA SetToSeqLists ==
    ASSUME NEW S, IsFiniteSet(S)
    PROVE  SetToSeq(S) \in Seq(S) /\ Range(SetToSeq(S)) = S
<1> DEFINE n == Cardinality(S)
<1>1. n \in Nat
      BY FS_CardinalityType
<1>2. PICK f : f \in Bijection(1..n, S)
  <2>1. PICK m \in Nat : ExistsBijection(1..m, S)
        BY FS_NatBijection
  <2>2. m = n
        BY <2>1, FS_CountingElements
  <2>3. QED  BY <2>1, <2>2 DEF ExistsBijection
<1>3. f \in [1..n -> S] /\ IsInjective(f)
      BY <1>2 DEF Bijection, Injection, IsInjective
<1>4. SetToSeq(S) \in [1..n -> S] /\ IsInjective(SetToSeq(S))
      BY <1>3 DEF SetToSeq
<1> DEFINE s == SetToSeq(S)
<1> HIDE DEF s
<1>5. s \in [1..n -> S] /\ \A i, j \in 1..n : s[i] = s[j] => i = j
      BY <1>4 DEF s, IsInjective
<1>6. s \in Seq(S)
      BY <1>1, <1>5
<1>7. s \in Injection(1..n, S)
      BY <1>5 DEF Injection, IsInjective
<1>8. Range(s) = S
  <2>1. Cardinality(1..n) = n /\ IsFiniteSet(1..n)
        BY <1>1, FS_Interval
  <2>2. s \in Surjection(1..n, S)
        BY <1>7, <2>1, FS_Injection
  <2>3. QED  BY <1>5, <2>2 DEF Surjection, Range
<1>9. QED  BY <1>6, <1>8 DEF s

\* The transactions of a group.
LEMMA TransactionsType ==
    ASSUME NEW g \in Groups
    PROVE  Transactions(g) \in Seq(Txns)
<1> DEFINE q == g.broadcast_with_reply
           n == Len(q)
           m == n + IF g.other = <<>> THEN 0 ELSE 1
           f == [k \in 1..m |-> [entries |-> IF k <= n THEN <<q[k]>> ELSE g.other,
                                 bwr |-> k <= n, first |-> k = 1]]
<1>1. q \in Seq(Entries) /\ g.other \in Seq(Entries) /\ n \in Nat /\ m \in Nat
      BY DEF Groups
<1>2. ASSUME NEW k \in 1..m
      PROVE  f[k] \in Txns
  <2>1. (IF k <= n THEN <<q[k]>> ELSE g.other) \in Seq(Entries)
    <3>1. CASE k <= n
      <4>1. q[k] \in Entries
            BY <1>1, <3>1
      <4>2. \A S : \A x \in S : <<x>> \in Seq(S)
            OBVIOUS
      <4>3. QED  BY <3>1, <4>1, <4>2
    <3>2. QED  BY <1>1, <3>1
  <2>2. (k <= n) \in BOOLEAN /\ (k = 1) \in BOOLEAN
        OBVIOUS
  <2> DEFINE es == IF k <= n THEN <<q[k]>> ELSE g.other
  <2>3. f[k] = [entries |-> es, bwr |-> k <= n, first |-> k = 1]
        OBVIOUS
  <2> HIDE DEF es, f, n
  <2>4. QED  BY <2>1, <2>2, <2>3 DEF Txns, es
<1>3. f \in [1..m -> Txns]
      BY <1>2
<1>4. Transactions(g) = f
      BY DEF Transactions
<1>5. QED
  <2> HIDE DEF f, m
  <2> QED  BY <1>1, <1>3, <1>4, FunctionAsSeq

\* A sequence with one element.
LEMMA SoleType ==
    ASSUME NEW e \in Entries
    PROVE  Sole(e) \in Seq(Txns)
<1>1. \A S : \A x \in S : <<x>> \in Seq(S)
      OBVIOUS
<1> DEFINE t == [entries |-> <<e>>, bwr |-> TRUE, first |-> TRUE]
<1>2. t \in Txns
      BY <1>1 DEF Txns
<1> HIDE DEF t
<1>3. <<t>> \in Seq(Txns)
      BY <1>1, <1>2
<1>4. QED  BY <1>3 DEF Sole, t

\* Devices are a finite set of indices.
LEMMA DevicesFinite ==
    ASSUME cfg \in Scenarios
    PROVE  IsFiniteSet(Devices)
<1>1. Devices = 1..Len(cfg.devices) /\ Len(cfg.devices) \in Nat
      BY ConfigParts
<1>2. QED  BY <1>1, FS_Interval

\* Requests go to devices.
LEMMA TargetsType ==
    ASSUME TypesInv, NEW request \in Requests(Len(cfg.devices))
    PROVE  Targets(request) \subseteq Devices
<1>1. cfg \in Scenarios /\ RouterOK(router)
      BY DEF TypesInv
<1>2. Devices = 1..Len(cfg.devices) /\ 1 \in Devices
      BY <1>1, ConfigParts
<1>3. \A a \in DOMAIN router.routes : router.routes[a] \in Devices
      BY <1>1 DEF RouterOK
<1>4. request.channel = None \/ request.channel \in Devices
      BY <1>2 DEF Requests, None
<1>5. Lookup(LookupAddress(request)) \subseteq Devices
      BY <1>2, <1>3 DEF Lookup
<1>6. BroadcastTargets \subseteq Devices
      BY DEF BroadcastTargets
<1>7. QED  BY <1>4, <1>5, <1>6 DEF Targets

\* A request is sent through a device.
LEMMA RouteType ==
    ASSUME cfg \in Scenarios, NEW t \in Devices
    PROVE  /\ route_via_parent(t).send \in Devices
           /\ route_via_parent(t).child \in 0..Len(cfg.devices)
           /\ BusOf(route_via_parent(t).send, [child |-> route_via_parent(t).child]) = t
<1>1. Info(t).parent \in {None} \cup Devices /\ t \in Nat \ {0} /\ Devices = 1..Len(cfg.devices)
      BY DeviceParts, ConfigParts
<1>2. QED  BY <1>1 DEF route_via_parent, None, BusOf

\* What a request adds to the work of a device.
LEMMA DispatchesType ==
    ASSUME TypesInv, NEW i \in 1..Len(router.requests), NEW d \in Devices
    PROVE  Dispatches(i, d) \subseteq Entries /\ IsFiniteSet(Dispatches(i, d))
<1> DEFINE request == router.requests[i]
           T == {t \in Targets(request) : route_via_parent(t).send = d}
           f == [t \in T |-> Entry(i, request, route_via_parent(t).child)]
<1>1. cfg \in Scenarios /\ router.requests \in Seq(Requests(Len(cfg.devices)))
      BY DEF TypesInv, RouterOK
<1>2. request \in Requests(Len(cfg.devices)) /\ i \in Nat
      BY <1>1
<1>3. T \subseteq Devices
      BY <1>2, TargetsType
<1>4. \A t \in T : Entry(i, request, route_via_parent(t).child) \in Entries
  <2>1. ASSUME NEW t \in T
        PROVE  Entry(i, request, route_via_parent(t).child) \in Entries
    <3>1. route_via_parent(t).child \in 0..Len(cfg.devices)
          BY <1>1, <1>3, RouteType
    <3> HIDE DEF request
    <3>2. QED  BY <1>2, <3>1 DEF Entry, Entries
  <2>2. QED  BY <2>1
<1>5. Dispatches(i, d) = {Entry(i, request, route_via_parent(t).child) : t \in T}
      BY DEF Dispatches
<1> HIDE DEF request, T
<1>6. IsFiniteSet(T)
      BY <1>1, <1>3, DevicesFinite, FS_Subset
<1>7. f \in Surjection(T, Dispatches(i, d))
      BY <1>5 DEF Surjection
<1>8. QED  BY <1>4, <1>5, <1>6, <1>7, FS_Surjection

\* The groups to which a request is added.
LEMMA GroupedType ==
    ASSUME TypesInv, NEW i \in 1..Len(router.requests)
    PROVE  Grouped(i) \in [Devices -> Groups]
<1> DEFINE request == router.requests[i]
           bwr == request.channel = None /\ IsTrueBroadcast(request) /\ request.expected > 0
           g(d) == router.groups[d]
           added(d) == SetToSeq(Dispatches(i, d))
           first(d) == g(d).broadcast_with_reply \o added(d)
           rest(d) == g(d).other \o added(d)
<1>1. router.groups \in [Devices -> Groups]
      BY DEF TypesInv, RouterOK
<1>2. ASSUME NEW d \in Devices
      PROVE  /\ [g(d) EXCEPT !.broadcast_with_reply = first(d)] \in Groups
             /\ [g(d) EXCEPT !.other = rest(d)] \in Groups
  <2>1. added(d) \in Seq(Entries)
    <3>1. added(d) \in Seq(Dispatches(i, d)) /\ Dispatches(i, d) \subseteq Entries
          BY DispatchesType, SetToSeqLists
    <3>2. \A A, B : A \subseteq B => Seq(A) \subseteq Seq(B)
          OBVIOUS
    <3>3. QED  BY <3>1, <3>2
  <2>2. g(d) \in Groups
        BY <1>1
  <2> HIDE DEF g, added
  <2>3. first(d) \in Seq(Entries) /\ rest(d) \in Seq(Entries)
        BY <2>1, <2>2, ConcatProperties DEF Groups
  <2> HIDE DEF first, rest
  <2>4. QED  BY <2>2, <2>3 DEF Groups
<1>3. Grouped(i) = [d \in Devices |-> IF bwr THEN [g(d) EXCEPT !.broadcast_with_reply = first(d)]
                                      ELSE [g(d) EXCEPT !.other = rest(d)]]
      BY DEF Grouped
<1> HIDE DEF g, first, rest, bwr
<1>4. QED  BY <1>2, <1>3

\* The replies that the first entries of a transaction expect.
LEMMA TotalSteps ==
    ASSUME NEW es \in Seq(Entries)
    PROVE  \E t \in [0..Len(es) -> Nat] :
               /\ t[0] = 0 /\ \A k \in 1..Len(es) : t[k] = t[k - 1] + es[k].request.expected
               /\ Total(es) = t[Len(es)]
<1> DEFINE N == Len(es)
           step == [n \in Nat |-> [x \in Nat |->
                       IF n + 1 \in 1..N THEN x + es[n + 1].request.expected ELSE x]]
           IsTotal(t) == t = [k \in 0..N |-> IF k = 0 THEN 0 ELSE t[k - 1] + es[k].request.expected]
<1>1. N \in Nat
      OBVIOUS
<1>2. \A k \in 1..N : es[k].request.expected \in Nat
  <2>1. ASSUME NEW k \in 1..N
        PROVE  es[k].request.expected \in Nat
    <3>1. es[k] \in Entries
          OBVIOUS
    <3>2. QED  BY <3>1 DEF Entries, Requests
  <2>2. QED  BY <2>1
<1>3. step \in [Nat -> [Nat -> Nat]]
  <2>1. ASSUME NEW n \in Nat, NEW x \in Nat
        PROVE  (IF n + 1 \in 1..N THEN x + es[n + 1].request.expected ELSE x) \in Nat
        BY <1>2
  <2>2. QED  BY <2>1
<1>4. PICK g : Approximates(g, N, Nat, 0, step)
  <2> HIDE DEF step, N
  <2> QED  BY <1>1, <1>3, PrimitiveRecursion
<1>5. g \in [0..N -> Nat]
  <2> HIDE DEF step, N
  <2> QED  BY <1>4 DEF Approximates
<1>6. IsTotal(g)
  <2>1. ASSUME NEW k \in 0..N
        PROVE  g[k] = IF k = 0 THEN 0 ELSE g[k - 1] + es[k].request.expected
    <3>1. CASE k = 0
          BY <1>4, <3>1 DEF Approximates
    <3>2. CASE k # 0
      <4>1. k - 1 \in 0..(N - 1) /\ k - 1 \in 0..N /\ k - 1 \in Nat /\ (k - 1) + 1 = k
            BY <1>1, <3>2
      <4>2. g[k] = step[k - 1][g[k - 1]] /\ g[k - 1] \in Nat
        <5> HIDE DEF step
        <5> QED  BY <1>4, <4>1 DEF Approximates
      <4>3. QED  BY <3>2, <4>1, <4>2
    <3>3. QED  BY <3>1, <3>2
  <2>2. g = [k \in 0..N |-> g[k]]
        BY <1>5
  <2>3. QED  BY <2>1, <2>2
<1> DEFINE r == CHOOSE t : IsTotal(t)
<1>7. IsTotal(r)
  <2> HIDE DEF IsTotal
  <2> QED  BY <1>6
<1>8. \A k \in 0..N : r[k] \in Nat
  <2> DEFINE S == {k \in 0..N : r[k] \in Nat}
  <2>1. 0 \in S
    <3> HIDE DEF r
    <3> QED  BY <1>1, <1>7
  <2>2. ASSUME NEW n \in 0..(N - 1), n \in S
        PROVE  n + 1 \in S
    <3> HIDE DEF r
    <3>1. n + 1 \in 0..N /\ n + 1 # 0 /\ n + 1 \in 1..N /\ (n + 1) - 1 = n
          BY <1>1
    <3>2. r[n + 1] = r[n] + es[n + 1].request.expected
      <4> HIDE DEF N
      <4> QED  BY <1>7, <3>1
    <3>3. QED  BY <1>2, <2>2, <3>1, <3>2
  <2>3. \A k \in 0..N : k \in S
    <3> HIDE DEF S, N
    <3> QED  BY <1>1, <2>1, <2>2, IntervalInduction
  <2>4. QED  BY <2>3
<1>9. Total(es) = r[N]
      BY DEF Total
<1>10. r \in [0..N -> Nat] /\ r[0] = 0 /\ \A k \in 1..N : r[k] = r[k - 1] + es[k].request.expected
  <2> HIDE DEF r
  <2>1. DOMAIN r = 0..N /\ r = [k \in 0..N |-> r[k]]
    <3> HIDE DEF N
    <3> QED  BY <1>7
  <2>2. r[0] = 0
    <3> HIDE DEF N
    <3> QED  BY <1>1, <1>7
  <2>3. ASSUME NEW k \in 1..N
        PROVE  r[k] = r[k - 1] + es[k].request.expected
    <3>1. k \in 0..N /\ k # 0
          BY <1>1
    <3> HIDE DEF N
    <3>2. QED  BY <1>7, <3>1
  <2>4. QED  BY <1>8, <2>1, <2>2, <2>3
<1>11. QED
  <2> HIDE DEF r
  <2> QED  BY <1>9, <1>10

\* What the entries of a transaction expect is a number.
LEMMA ExpectedType ==
    ASSUME NEW es \in Seq(Entries)
    PROVE  Total(es) \in Nat
  BY TotalSteps

\* Answers are replies.
LEMMA AnswersType ==
    ASSUME TypesInv, NEW d, NEW entry \in Entries
    PROVE  Answers(d, entry) \subseteq Reply
<1>1. router.n \in Nat /\ entry.req \in Nat
  <2>1. cfg \in Scenarios /\ router.n \in 0..cfg.maxOps
        BY DEF TypesInv, RouterOK
  <2>2. cfg.maxOps \in Nat
        BY <2>1, ConfigParts
  <2>3. QED  BY <2>1, <2>2 DEF Entries
<1>2. ASSUME NEW s \in Listeners(BusOf(d, entry), entry.request.frame),
             NEW u \in {servers[s].uuid, <<>>}
      PROVE  [server |-> s, source |-> servers[s].id, to |-> Host, uuid |-> u,
              cause |-> <<router.n, entry.req>>] \in Reply
  <2>1. s \in DOMAIN servers
        BY DEF Listeners
  <2>2. servers[s] \in ServerInfos(Len(cfg.devices))
    <3>1. servers \in Seq(ServerInfos(Len(cfg.devices)))
          BY DEF TypesInv
    <3>2. QED  BY <2>1, <3>1
  <2>3. servers[s].id \in Nat /\ servers[s].uuid \in Seq(Nat)
    <3>1. servers[s].id \in 1..126 /\ servers[s].uuid \in Seq(Nat)
          BY <2>2 DEF ServerInfos
    <3>2. \A n \in 1..126 : n \in Nat
          OBVIOUS
    <3>3. QED  BY <3>1, <3>2, Zenon
  <2>4. u \in Seq(Nat)
    <3>1. \A S : <<>> \in Seq(S)
          OBVIOUS
    <3>2. QED  BY <2>3, <3>1
  <2>5. QED  BY <1>1, <2>1, <2>3, <2>4 DEF Reply
<1>3. QED  BY <1>2 DEF Answers

LEMMA AnswersToType ==
    ASSUME TypesInv, NEW d, NEW entries, entries \subseteq Entries
    PROVE  AnswersTo(d, entries) \subseteq Reply
<1>1. \A e \in entries : Answers(d, e) \subseteq Reply
      BY AnswersType
<1>2. QED  BY <1>1 DEF AnswersTo

\* The transaction a device is at.
LEMMA TxnType ==
    ASSUME TypesInv, NEW d \in Devices, router.work[d] # <<>>
    PROVE  /\ Txn(d) \in Txns /\ Tail(router.work[d]) \in Seq(Txns)
           /\ Expected(d) \in Nat
           /\ Len(Txn(d).entries) \in Nat
           /\ \A k \in 0..Len(Txn(d).entries) : Frames(d, k) \subseteq Entries
<1>1. router.work[d] \in Seq(Txns)
      BY DEF TypesInv, RouterOK
<1>2. Txn(d) \in Txns /\ Tail(router.work[d]) \in Seq(Txns)
  <2>1. \A S : \A s \in Seq(S) : s # <<>> => Head(s) \in S /\ Tail(s) \in Seq(S)
        OBVIOUS
  <2>2. QED  BY <1>1, <2>1 DEF Txn
<1>3. Txn(d).entries \in Seq(Entries)
      BY <1>2 DEF Txns
<1>4. Expected(d) \in Nat
      BY <1>3, ExpectedType DEF Expected
<1> DEFINE es == Txn(d).entries
<1>5. ASSUME NEW k \in 0..Len(es)
      PROVE  Frames(d, k) \subseteq Entries
  <2> HIDE DEF es
  <2>1. \A j \in 1..k : es[j] \in Entries
        BY <1>3 DEF es
  <2>2. QED  BY <2>1 DEF Frames, es
<1>6. QED  BY <1>2, <1>3, <1>4, <1>5

\* A probe is a broadcast that no request has asked for.
LEMMA ProbeType ==
    ASSUME TypesInv, router.op = "discover" \/ router.i <= Len(router.requests)
    PROVE  /\ Probe \in Requests(Len(cfg.devices)) /\ Probe.expected \in Nat
           /\ Entry(0, Probe, None) \in Entries
           /\ Entry(0, receive_only(Probe.expected), None) \in Entries
<1>1. cfg \in Scenarios /\ router.requests \in Seq(Requests(Len(cfg.devices))) /\ router.i \in Nat \ {0}
      BY DEF TypesInv, RouterOK
<1>2. Len(cfg.devices) \in Nat /\ 0 \in 0..Len(cfg.devices)
      BY <1>1, ConfigParts
<1>3. can_id(0) \in Addresses /\ \A n \in Nat : can_id(n) \in Addresses
  <2>1. \A S : <<>> \in Seq(S)
        OBVIOUS
  <2>2. QED  BY <2>1 DEF can_id, Addresses, None
<1>4. ASSUME NEW f \in [dest: Nat, mask: Seq(Nat), asks: {"mode", "uuid", "nothing"}]
      PROVE  Request(f) \in Requests(Len(cfg.devices))
  <2>1. NoAddress \in Addresses
        BY <1>3 DEF NoAddress, None
  <2>2. f.dest \in Nat
        OBVIOUS
  <2>3. (IF f.asks = "nothing" THEN 0 ELSE 1) \in Nat
        OBVIOUS
  <2>4. QED  BY <1>2, <2>1, <2>2, <2>3 DEF Request, Requests, None
<1>5. ASSUME NEW r \in Requests(Len(cfg.devices)), NEW n \in Nat, NEW b \in Nat
      PROVE  /\ [r EXCEPT !.expected = n] \in Requests(Len(cfg.devices))
             /\ [r EXCEPT !.from = b, !.expected = n] \in Requests(Len(cfg.devices))
      BY DEF Requests
<1>6. Probe \in Requests(Len(cfg.devices))
  <2>1. CASE router.op = "discover"
    <3>1. [dest |-> Broadcast, mask |-> <<>>, asks |-> "uuid"] \in
              [dest: Nat, mask: Seq(Nat), asks: {"mode", "uuid", "nothing"}]
          BY DEF Broadcast
    <3>2. QED  BY <1>4, <1>5, <2>1, <3>1, ZenonT(60) DEF Probe, UuidQuery
  <2>2. CASE router.op # "discover"
    <3>1. router.requests[router.i] \in Requests(Len(cfg.devices))
          BY <1>1, <2>2
    <3>2. Sought.address \in Addresses /\ Sought.frame.dest \in Nat
          BY <3>1 DEF Requests, Sought
    <3>3. LookupAddress(Sought) \in Addresses
          BY <1>3, <3>2 DEF LookupAddress
    <3> DEFINE a == LookupAddress(Sought)
    <3>4. a.id \in Nat /\ a.uuid \in Seq(Nat)
          BY <3>3 DEF Addresses
    <3>5. [dest |-> a.id, mask |-> IF a.id = Broadcast THEN a.uuid ELSE <<>>, asks |-> "mode"] \in
              [dest: Nat, mask: Seq(Nat), asks: {"mode", "uuid", "nothing"}]
      <4> HIDE DEF a
      <4> QED  BY <3>4
    <3>6. QED  BY <1>4, <2>2, <3>5 DEF Probe
  <2>3. QED  BY <2>1, <2>2
<1>7. Probe.expected \in Nat
      BY <1>6 DEF Requests
<1>8. receive_only(Probe.expected) \in Requests(Len(cfg.devices))
  <2>1. NoFrame \in [dest: Nat, mask: Seq(Nat), asks: {"mode", "uuid", "nothing"}]
        BY DEF NoFrame, None
  <2>2. QED  BY <1>4, <1>5, <1>7, <2>1, ZenonT(60) DEF receive_only, Broadcast
<1>9. \A r \in Requests(Len(cfg.devices)) : Entry(0, r, None) \in Entries
      BY <1>2 DEF Entry, Entries, None
<1>10. QED  BY <1>6, <1>7, <1>8, <1>9

(***************************************************************************)
(* Turns                                                                   *)
(***************************************************************************)

\* In turn, only one device with work can have it.
LEMMA OneTurn ==
    ASSUME TypesInv, NEW d \in Devices, NEW e \in Devices, InTurn, MyTurn(d), MyTurn(e),
           router.work[d] # <<>>, router.work[e] # <<>>
    PROVE  d = e
<1>1. PICK k \in DOMAIN router.order :
          router.order[k] = d /\ \A j \in 1..(k - 1) : router.work[router.order[j]] = <<>>
      BY DEF MyTurn
<1>2. PICK l \in DOMAIN router.order :
          router.order[l] = e /\ \A j \in 1..(l - 1) : router.work[router.order[j]] = <<>>
      BY DEF MyTurn
<1>3. k \in Nat \ {0} /\ l \in Nat \ {0}
  <2>1. router.order \in Seq(Devices)
        BY DEF TypesInv, RouterOK
  <2>2. QED  BY <2>1
<1>4. ~(k < l) /\ ~(l < k)
      BY <1>1, <1>2, <1>3
<1>5. k = l
      BY <1>3, <1>4
<1>6. QED  BY <1>1, <1>2, <1>5

\* Between operations, before transactions and after them, devices are idle.
LEMMA Idle ==
    ASSUME ControlInv, ~Running \/ AllDone
    PROVE  \A d \in Devices : dev[d].pc = "idle"
  BY DEF ControlInv, AllDone

LEMMA IdleControl ==
    ASSUME cfg' = cfg, \A d \in Devices : dev'[d].pc = "idle"
    PROVE  ControlInv'
  BY DEF ControlInv, Devices

\* Nothing that decides about turns changes, and no device starts.
LEMMA SameControl ==
    ASSUME ControlInv, cfg' = cfg, router'.pc = router.pc, router'.op = router.op,
           router'.work = router.work, router'.order = router.order,
           \A d \in Devices : dev'[d].pc # "idle" => dev[d].pc # "idle"
    PROVE  ControlInv'
<1>1. ASSUME NEW d \in Devices, dev'[d].pc # "idle"
      PROVE  Running' /\ router'.work[d] # <<>> /\ MyTurn(d)'
  <2>1. Running /\ router.work[d] # <<>> /\ MyTurn(d)
        BY <1>1 DEF ControlInv
  <2>2. QED  BY <2>1 DEF Running, MyTurn, InTurn, Writing
<1>2. QED  BY <1>1 DEF ControlInv, Devices

\* A device starts, or ends its transaction.
LEMMA TurnControl ==
    ASSUME TypesInv, ControlInv, NEW d \in Devices, Running, router.work[d] # <<>>, MyTurn(d),
           cfg' = cfg, router'.pc = router.pc, router'.op = router.op, router'.order = router.order,
           \A e \in Devices \ {d} : dev'[e] = dev[e],
           \/ router'.work = router.work
           \/ /\ dev'[d].pc = "idle"
              /\ ~InTurn => \A e \in Devices \ {d} : router'.work[e] = router.work[e]
    PROVE  ControlInv'
<1>1. ASSUME NEW e \in Devices, dev'[e].pc # "idle"
      PROVE  Running' /\ router'.work[e] # <<>> /\ MyTurn(e)'
  <2>1. Running /\ router.work[e] # <<>> /\ MyTurn(e)
    <3>1. CASE e = d
          BY <3>1 DEF MyTurn
    <3>2. CASE e # d
      <4>1. dev[e].pc # "idle"
            BY <1>1, <3>2
      <4>2. QED  BY <4>1 DEF ControlInv
    <3>3. QED  BY <3>1, <3>2
  <2>2. CASE router'.work = router.work
        BY <2>1, <2>2 DEF Running, MyTurn, InTurn, Writing
  <2>3. CASE /\ e # d
             /\ ~InTurn => router'.work[e] = router.work[e]
    <3>1. ~InTurn
          BY <2>1, <2>3, OneTurn
    <3>2. router'.work[e] = router.work[e] /\ ~InTurn' /\ Running'
          BY <2>1, <2>3, <3>1 DEF InTurn, Writing, Running
    <3>3. QED  BY <2>1, <3>2 DEF MyTurn
  <2>4. QED  BY <1>1, <2>2, <2>3
<1>2. QED  BY <1>1 DEF ControlInv, Devices

(***************************************************************************)
(* Types and turns, operation by operation                                 *)
(***************************************************************************)

\* What starting an operation leaves of the router.
LEMMA StartedFields ==
    ASSUME TypesInv, NEW op, NEW requests, NEW r, r = Started(op, requests)
    PROVE  /\ DOMAIN r = RouterFields /\ r.pc = router.pc /\ r.n = router.n + 1 /\ r.op = op
           /\ r.requests = requests /\ r.i = 1 /\ r.groups = [d \in Devices |-> NoGroup]
           /\ r.work = NoWork /\ r.order = InOrder /\ r.failed = FALSE /\ r.result = "none"
           /\ r.responses = [i \in 0..Len(requests) |-> {}] /\ r.routes = router.routes
           /\ r.found = {} /\ r.spent = router.spent
<1>1. DOMAIN router = RouterFields
      BY DEF TypesInv, RouterOK
<1>2. QED  BY <1>1 DEF Started, RouterFields

\* No work and the order of the devices.
LEMMA DefaultsType ==
    ASSUME cfg \in Scenarios
    PROVE  /\ NoWork \in [Devices -> Seq(Txns)] /\ InOrder \in Seq(Devices)
           /\ [d \in Devices |-> NoGroup] \in [Devices -> Groups]
<1>1. \A S : <<>> \in Seq(S)
      OBVIOUS
<1>2. NoGroup \in Groups
      BY <1>1 DEF NoGroup, Groups
<1>3. Devices = 1..Len(cfg.devices) /\ Len(cfg.devices) \in Nat
      BY ConfigParts
<1>4. InOrder \in [1..Len(cfg.devices) -> Devices]
      BY <1>3 DEF InOrder
<1>5. InOrder \in Seq(Devices)
      BY <1>3, <1>4, FunctionAsSeq
<1>6. QED  BY <1>1, <1>2, <1>5 DEF NoWork

\* An operation that starts.
LEMMA StartedOK ==
    ASSUME TypesInv, CanStart, NEW op \in Operations,
           NEW requests \in Seq(Requests(Len(cfg.devices))),
           \A i \in 1..Len(requests) : WellAddressed(requests[i])
    PROVE  RouterOK(Started(op, requests))
<1>1. PICK r : r = Started(op, requests)
      OBVIOUS
<1>2. /\ DOMAIN r = RouterFields /\ r.pc = router.pc /\ r.n = router.n + 1 /\ r.op = op
      /\ r.requests = requests /\ r.i = 1 /\ r.groups = [d \in Devices |-> NoGroup]
      /\ r.work = NoWork /\ r.order = InOrder /\ r.failed = FALSE /\ r.result = "none"
      /\ r.responses = [i \in 0..Len(requests) |-> {}] /\ r.routes = router.routes
      /\ r.found = {} /\ r.spent = router.spent
      BY <1>1, StartedFields
<1>3. cfg \in Scenarios /\ router.n \in 0..cfg.maxOps /\ router.spent \in 0..cfg.maxFaults
      BY DEF TypesInv, RouterOK
<1>4. cfg.maxOps \in Nat /\ router.n < cfg.maxOps /\ router.pc = "idle"
      BY <1>3, ConfigParts DEF CanStart
<1>5. r.n \in 0..cfg.maxOps /\ r.i \in 1..(Len(r.requests) + 1)
      BY <1>2, <1>3, <1>4
<1>6. r.groups \in [Devices -> Groups] /\ r.work \in [Devices -> Seq(Txns)] /\ r.order \in Seq(Devices)
      BY <1>2, <1>3, DefaultsType
<1>7. DOMAIN r.responses = 0..Len(r.requests) /\ \A i \in DOMAIN r.responses : r.responses[i] \subseteq Received
      BY <1>2
<1>8. \A a \in DOMAIN r.routes : r.routes[a] \in Devices
      BY <1>2 DEF TypesInv, RouterOK
<1>9. r.result \in Results /\ r.failed \in BOOLEAN
      BY <1>2 DEF Results
<1>10. RouterOK(r)
      BY <1>2, <1>3, <1>4, <1>5, <1>6, <1>7, <1>8, <1>9 DEF RouterOK
<1>11. QED  BY <1>1, <1>10

\* A call without requests.
LEMMA CalledOK ==
    ASSUME TypesInv, CanStart, NEW op \in Operations
    PROVE  /\ RouterOK(Called(op)) /\ Called(op).pc = "idle" /\ RouterOK(Started(op, <<>>))
           /\ RouterOK([Called(op) EXCEPT !.routes = <<>>])
<1>1. \A S : <<>> \in Seq(S)
      OBVIOUS
<1>2. PICK r : r = Started(op, <<>>)
      OBVIOUS
<1>3. RouterOK(r) /\ DOMAIN r = RouterFields /\ r.pc = "idle"
  <2>1. <<>> \in Seq(Requests(Len(cfg.devices))) /\ \A i \in 1..Len(<<>>) : FALSE
        BY <1>1
  <2>2. RouterOK(Started(op, <<>>))
        BY <2>1, StartedOK, Zenon
  <2>3. RouterOK(r)
        BY ONLY <1>2, <2>2
  <2>4. DOMAIN router = RouterFields /\ router.pc = "idle"
        BY DEF TypesInv, RouterOK, CanStart
  <2>5. r.pc = "idle"
        BY ONLY <1>2, <2>4 DEF Started, RouterFields
  <2>6. QED  BY <2>3, <2>5 DEF RouterOK
<1>4. RouterOK([r EXCEPT !.result = "ok"]) /\ [r EXCEPT !.result = "ok"].pc = "idle"
      BY <1>3 DEF RouterOK, RouterFields, Results
<1>5. RouterOK([[r EXCEPT !.result = "ok"] EXCEPT !.routes = <<>>])
  <2>1. PICK q : q = [r EXCEPT !.result = "ok"]
        OBVIOUS
  <2>2. RouterOK(q) /\ \A a \in DOMAIN <<>> : FALSE
        BY <1>4, <2>1
  <2>3. RouterOK([q EXCEPT !.routes = <<>>])
        BY <2>2 DEF RouterOK, RouterFields
  <2>4. QED  BY <2>1, <2>3
<1>6. QED  BY <1>2, <1>3, <1>4, <1>5 DEF Called

\* What a call keeps.
LEMMA DevicesKept ==
    ASSUME TypesInv
    PROVE  /\ cfg \in Scenarios /\ RouterOK(router) /\ DevicesOK(dev) /\ bus \in [Devices -> SUBSET Reply]
           /\ servers \in Seq(ServerInfos(Len(cfg.devices)))
           /\ DOMAIN hist = {"executed", "fresh", "moved"}
  BY DEF TypesInv

LEMMA CycleTypes ==
    ASSUME TypesInv, ControlInv, Cycle
    PROVE  TypesInv' /\ ControlInv'
<1>1. PICK call \in cfg.calls :
       LET r == Started(call.op, call.requests)
           whole == [NoGroup EXCEPT !.other =
                        [i \in DOMAIN call.requests |-> Entry(i, call.requests[i], None)]]
       IN Begin(IF Len(cfg.devices) = 1 /\ call.op = "cycle"
                THEN [r EXCEPT !.pc = "run", !.work = <<Transactions(whole)>>]
                ELSE [r EXCEPT !.pc = "resolve"])
      BY DEF Cycle
<1> DEFINE r == Started(call.op, call.requests)
           es == [i \in DOMAIN call.requests |-> Entry(i, call.requests[i], None)]
           w == <<Transactions([NoGroup EXCEPT !.other = es])>>
<1>2. /\ cfg' = cfg /\ servers' = servers /\ dev' = dev /\ bus' = bus /\ CanStart
      BY DEF Cycle
<1>3. cfg \in Scenarios /\ call.op \in {"cycle", "write"}
      /\ call.requests \in Seq(Requests(Len(cfg.devices)))
      /\ \A i \in 1..Len(call.requests) : WellAddressed(call.requests[i])
      BY ConfigParts, DevicesKept
<1>4. RouterOK(r)
      BY <1>2, <1>3, StartedOK DEF Operations
<1>5. DOMAIN r = RouterFields
      BY <1>4 DEF RouterOK
<1>6. RouterOK([r EXCEPT !.pc = "resolve"])
  <2> HIDE DEF r
  <2> QED  BY <1>4, <1>5 DEF RouterOK, RouterFields
<1>7. ASSUME Len(cfg.devices) = 1
      PROVE  RouterOK(router')
  <2>1. es \in Seq(Entries)
    <3>1. ASSUME NEW i \in 1..Len(call.requests)
          PROVE  Entry(i, call.requests[i], None) \in Entries
      <4>1. call.requests[i] \in Requests(Len(cfg.devices))
            BY <1>3
      <4>2. QED  BY <1>7, <4>1 DEF Entry, Entries, None
    <3>2. DOMAIN call.requests = 1..Len(call.requests) /\ Len(call.requests) \in Nat
          BY <1>3
    <3>3. QED  BY <3>1, <3>2, FunctionAsSeq
  <2>2. [NoGroup EXCEPT !.other = es] \in Groups
    <3>1. \A S : <<>> \in Seq(S)
          OBVIOUS
    <3> HIDE DEF es
    <3>2. QED  BY <2>1, <3>1 DEF NoGroup, Groups
  <2>3. w \in [Devices -> Seq(Txns)]
    <3>1. Transactions([NoGroup EXCEPT !.other = es]) \in Seq(Txns)
          BY <2>2, TransactionsType
    <3>2. Devices = 1..1
          BY <1>3, <1>7, ConfigParts
    <3>3. \A S : \A x \in S : <<x>> \in [1..1 -> S]
          OBVIOUS
    <3>4. QED  BY <3>1, <3>2, <3>3
  <2>4. RouterOK([r EXCEPT !.pc = "run", !.work = w])
    <3> HIDE DEF r, w
    <3> QED  BY <1>4, <1>5, <2>3 DEF RouterOK, RouterFields
  <2>5. router' = [r EXCEPT !.pc = "run", !.work = w] \/ router' = [r EXCEPT !.pc = "resolve"]
        BY <1>1, Zenon DEF Begin
  <2>6. QED  BY <1>6, <2>4, <2>5
<1>8. RouterOK(router')
  <2>1. CASE Len(cfg.devices) # 1
    <3>1. router' = [r EXCEPT !.pc = "resolve"]
      <4> HIDE DEF r
      <4> QED  BY <1>1, <2>1 DEF Begin, r
    <3>2. QED  BY <1>6, <3>1
  <2>2. QED  BY <1>7, <2>1
<1>9. DOMAIN hist' = {"executed", "fresh", "moved"}
      BY <1>1, DevicesKept DEF Begin
<1>10. TypesInv'
      BY <1>2, <1>8, <1>9, DevicesKept, TypesKept
<1>11. ControlInv'
      BY <1>2, Idle, IdleControl DEF CanStart, Running
<1>12. QED  BY <1>10, <1>11

\* Removing and appending replies.
LEMMA SequencesOfReplies ==
    ASSUME NEW S, NEW s \in Seq(S)
    PROVE  /\ <<>> \in Seq(S) /\ Len(<<>>) = 0 /\ Len(s) \in Nat
           /\ \A x \in S : Append(s, x) \in Seq(S) /\ Len(Append(s, x)) = Len(s) + 1
           /\ \A n \in 0..Len(s) : /\ SubSeq(s, n + 1, Len(s)) \in Seq(S)
                                   /\ Len(SubSeq(s, n + 1, Len(s))) = Len(s) - n
                                   /\ SubSeq(s, 1, n) \in Seq(S) /\ Len(SubSeq(s, 1, n)) = n
           /\ \A n \in 1..Len(s) : RemoveAt(s, n) \in Seq(S) /\ Len(RemoveAt(s, n)) = Len(s) - 1
<1>1. <<>> \in Seq(S) /\ Len(<<>>) = 0 /\ Len(s) \in Nat
      OBVIOUS
<1>2. \A x \in S : Append(s, x) \in Seq(S) /\ Len(Append(s, x)) = Len(s) + 1
      OBVIOUS
<1>3. ASSUME NEW n \in 0..Len(s)
      PROVE  /\ SubSeq(s, n + 1, Len(s)) \in Seq(S) /\ Len(SubSeq(s, n + 1, Len(s))) = Len(s) - n
             /\ SubSeq(s, 1, n) \in Seq(S) /\ Len(SubSeq(s, 1, n)) = n
  <2>1. \A i \in 1..n : i \in 1..Len(s)
        BY <1>1
  <2>2. \A i \in (n + 1)..Len(s) : i \in 1..Len(s)
        BY <1>1
  <2>3. SubSeq(s, 1, n) \in Seq(S) /\ Len(SubSeq(s, 1, n)) = n
        BY <1>1, <2>1
  <2>4. SubSeq(s, n + 1, Len(s)) \in Seq(S) /\ Len(SubSeq(s, n + 1, Len(s))) = Len(s) - n
        BY <1>1, <2>2
  <2>5. QED  BY <2>3, <2>4
<1>4. ASSUME NEW n \in 1..Len(s)
      PROVE  RemoveAt(s, n) \in Seq(S) /\ Len(RemoveAt(s, n)) = Len(s) - 1
  <2>1. n - 1 \in 0..Len(s) /\ n \in 0..Len(s)
        BY <1>1
  <2>2. /\ SubSeq(s, n + 1, Len(s)) \in Seq(S) /\ Len(SubSeq(s, n + 1, Len(s))) = Len(s) - n
        /\ SubSeq(s, 1, n - 1) \in Seq(S) /\ Len(SubSeq(s, 1, n - 1)) = n - 1
        BY <1>3, <2>1
  <2> DEFINE t == SubSeq(s, 1, n - 1)
             u == SubSeq(s, n + 1, Len(s))
  <2>3. t \o u \in Seq(S) /\ Len(t \o u) = Len(s) - 1
    <3> HIDE DEF t, u
    <3>1. t \in Seq(S) /\ u \in Seq(S) /\ Len(t) = n - 1 /\ Len(u) = Len(s) - n
          BY <2>2 DEF t, u
    <3>2. t \o u \in Seq(S) /\ Len(t \o u) = Len(t) + Len(u)
          BY <3>1, ConcatProperties
    <3>3. QED  BY <1>1, <3>1, <3>2
  <2>4. QED  BY <2>3 DEF RemoveAt
<1>5. QED  BY <1>1, <1>2, <1>3, <1>4

\* A device whose queue changes.
LEMMA DeviceChange ==
    ASSUME NEW s \in DeviceStates, NEW rx \in Seq(Reply), NEW n \in Nat
    PROVE  /\ [s EXCEPT !.rx = rx, !.pending = n] \in DeviceStates
           /\ [s EXCEPT !.rx = rx, !.pending = n, !.flush = FALSE] \in DeviceStates
           /\ [s EXCEPT !.rx = rx, !.pending = n, !.recover = FALSE] \in DeviceStates
           /\ [s EXCEPT !.rx = rx] \in DeviceStates
  BY DEF DeviceStates

\* A device whose queue is emptied.
LEMMA DeviceEmptied ==
    ASSUME NEW s \in DeviceStates
    PROVE  /\ [s EXCEPT !.rx = <<>>, !.pending = 0, !.flush = FALSE] \in DeviceStates
           /\ [s EXCEPT !.rx = <<>>, !.pending = 0, !.recover = FALSE] \in DeviceStates
<1>1. PICK e : e = <<>>
      OBVIOUS
<1>2. e \in Seq(Reply)
      BY <1>1
<1>3. /\ [s EXCEPT !.rx = e, !.pending = 0, !.flush = FALSE] \in DeviceStates
      /\ [s EXCEPT !.rx = e, !.pending = 0, !.recover = FALSE] \in DeviceStates
      BY <1>2 DEF DeviceStates
<1>4. QED  BY <1>1, <1>3

\* Flushing devices.
LEMMA FlushedTypes ==
    ASSUME TypesInv, NEW ds, Flushed(ds)
    PROVE  /\ DevicesOK(dev') /\ bus' \in [Devices -> SUBSET Reply]
           /\ \A d \in Devices : dev'[d].pc = dev[d].pc
<1>1. dev \in [Devices -> DeviceStates] /\ bus \in [Devices -> SUBSET Reply]
      BY DEF TypesInv, DevicesOK
<1>2. dev' = [d \in Devices |-> IF d \notin ds THEN dev[d]
                ELSE [dev[d] EXCEPT !.rx = <<>>, !.pending = 0, !.flush = FALSE]]
      BY DEF Flushed
<1>3. ASSUME NEW d \in Devices
      PROVE  /\ dev'[d] \in DeviceStates /\ dev'[d].pending <= Len(dev'[d].rx)
             /\ dev'[d].pc = dev[d].pc
  <2>1. CASE d \notin ds
        BY <1>1, <1>2, <2>1 DEF TypesInv, DevicesOK
  <2>2. CASE d \in ds
    <3>1. dev'[d] = [dev[d] EXCEPT !.rx = <<>>, !.pending = 0, !.flush = FALSE]
          BY <1>2, <2>2
    <3>2. dev[d] \in DeviceStates /\ <<>> \in Seq(Reply) /\ Len(<<>>) = 0
          BY <1>1
    <3>3. dev'[d] \in DeviceStates
          BY ONLY <3>1, <3>2, DeviceEmptied, Zenon
    <3>4. dev'[d].rx = <<>> /\ dev'[d].pending = 0 /\ dev'[d].pc = dev[d].pc
          BY ONLY <3>1, <3>2 DEF DeviceStates
    <3>5. QED  BY <3>2, <3>3, <3>4
  <2>3. QED  BY <2>1, <2>2
<1>4. DevicesOK(dev')
      BY <1>2, <1>3 DEF DevicesOK
<1>5. bus' \in [Devices -> SUBSET Reply]
  <2>1. PICK late : bus' = [d \in Devices |-> IF d \in ds THEN bus[d] \cap late ELSE bus[d]]
        BY DEF Flushed
  <2>2. QED  BY <1>1, <2>1
<1>6. QED  BY <1>3, <1>4, <1>5

LEMMA DiscoverTypes ==
    ASSUME TypesInv, ControlInv, Discover
    PROVE  TypesInv' /\ ControlInv'
<1>1. /\ cfg' = cfg /\ servers' = servers /\ dev' = dev /\ bus' = bus /\ CanStart
      /\ router' = [Started("discover", <<>>) EXCEPT !.pc = "flush"]
      /\ DOMAIN hist' = {"executed", "fresh", "moved"}
      BY DevicesKept DEF Discover, Begin
<1>2. PICK r : r = Started("discover", <<>>)
      OBVIOUS
<1>3. RouterOK(r)
      BY <1>1, <1>2, CalledOK DEF Operations
<1>4. r.op = "discover"
  <2>1. DOMAIN router = RouterFields
        BY DevicesKept DEF RouterOK
  <2>2. QED  BY ONLY <1>2, <2>1 DEF Started, RouterFields
<1>5. RouterOK([r EXCEPT !.pc = "flush"])
      BY <1>3, <1>4 DEF RouterOK, RouterFields
<1>6. TypesInv'
      BY <1>1, <1>2, <1>5, DevicesKept, TypesKept
<1>7. ControlInv'
      BY <1>1, Idle, IdleControl DEF CanStart, Running
<1>8. QED  BY <1>6, <1>7

LEMMA ReadTypes ==
    ASSUME TypesInv, ControlInv, read
    PROVE  TypesInv' /\ ControlInv'
<1>1. /\ cfg' = cfg /\ servers' = servers /\ bus' = bus /\ CanStart
      /\ router' = Called("read") /\ DOMAIN hist' = {"executed", "fresh", "moved"}
      BY DevicesKept DEF read, Begin
<1>2. PICK d \in ParentIndices :
          /\ dev[d].rx # <<>>
          /\ dev' = [dev EXCEPT
                 ![d].rx = RemoveAt(@, IF dev[d].pending > 0 THEN dev[d].pending ELSE 1),
                 ![d].pending = IF @ > 0 THEN @ - 1 ELSE 0]
      BY DEF read
<1>3. d \in Devices
  <2>1. \A e \in Devices : Info(e).parent # None => Info(e).parent \in Devices
        BY DevicesKept, DeviceParts
  <2>2. QED  BY <2>1 DEF ParentIndices
<1>4. dev[d] \in DeviceStates /\ dev[d].pending <= Len(dev[d].rx) /\ dev \in [Devices -> DeviceStates]
      BY <1>3, DevicesKept DEF DevicesOK
<1>5. dev[d].rx \in Seq(Reply) /\ dev[d].pending \in Nat
      BY <1>4 DEF DeviceStates
<1> DEFINE n == IF dev[d].pending > 0 THEN dev[d].pending ELSE 1
           m == IF dev[d].pending > 0 THEN dev[d].pending - 1 ELSE 0
           s == [dev[d] EXCEPT !.rx = RemoveAt(dev[d].rx, n), !.pending = m]
<1>6. Len(dev[d].rx) \in Nat \ {0}
      BY <1>2, <1>5
<1>7. n \in 1..Len(dev[d].rx) /\ m \in Nat /\ m <= Len(dev[d].rx) - 1
      BY <1>4, <1>5, <1>6
<1>8. RemoveAt(dev[d].rx, n) \in Seq(Reply) /\ Len(RemoveAt(dev[d].rx, n)) = Len(dev[d].rx) - 1
  <2> HIDE DEF n
  <2> QED  BY <1>5, <1>7, SequencesOfReplies
<1>9. dev' = [dev EXCEPT ![d] = s]
      BY <1>2, <1>4
<1>10. s \in DeviceStates /\ s.pending = m /\ s.rx = RemoveAt(dev[d].rx, n) /\ s.pc = dev[d].pc
  <2> HIDE DEF m, n
  <2> QED  BY <1>4, <1>7, <1>8, DeviceChange DEF DeviceStates
<1>11. DevicesOK(dev') /\ \A e \in Devices : dev'[e].pc = dev[e].pc
  <2> HIDE DEF s, m, n
  <2> QED  BY <1>3, <1>4, <1>7, <1>8, <1>9, <1>10, DevicesKept DEF DevicesOK
<1>12. RouterOK(router')
      BY <1>1, CalledOK DEF Operations
<1>13. TypesInv'
      BY <1>1, <1>11, <1>12, DevicesKept, TypesKept
<1>14. ControlInv'
      BY <1>1, <1>11, Idle, IdleControl DEF CanStart, Running
<1>15. QED  BY <1>13, <1>14

LEMMA FlushReadTypes ==
    ASSUME TypesInv, ControlInv, flush_read
    PROVE  TypesInv' /\ ControlInv'
<1>1. /\ cfg' = cfg /\ servers' = servers /\ CanStart /\ Flushed(ParentIndices)
      /\ router' = Called("flush") /\ DOMAIN hist' = {"executed", "fresh", "moved"}
      BY DevicesKept DEF flush_read, Begin
<1>2. RouterOK(router')
      BY <1>1, CalledOK DEF Operations
<1>3. TypesInv'
      BY <1>1, <1>2, DevicesKept, FlushedTypes, TypesKept
<1>4. ControlInv'
      BY <1>1, FlushedTypes, Idle, IdleControl DEF CanStart, Running
<1>5. QED  BY <1>3, <1>4

LEMMA ClearTypes ==
    ASSUME TypesInv, ControlInv, clear_routes
    PROVE  TypesInv' /\ ControlInv'
<1>1. /\ cfg' = cfg /\ servers' = servers /\ dev' = dev /\ bus' = bus /\ CanStart
      /\ router' = [Called("clear") EXCEPT !.routes = <<>>]
      /\ DOMAIN hist' = {"executed", "fresh", "moved"}
      BY DevicesKept DEF clear_routes
<1>2. RouterOK(router')
      BY <1>1, CalledOK DEF Operations
<1>3. TypesInv'
      BY <1>1, <1>2, DevicesKept, TypesKept
<1>4. ControlInv'
      BY <1>1, Idle, IdleControl DEF CanStart, Running
<1>5. QED  BY <1>3, <1>4

LEMMA ResolveTypes ==
    ASSUME TypesInv, ControlInv, Resolve
    PROVE  TypesInv' /\ ControlInv'
<1>1. /\ cfg' = cfg /\ servers' = servers /\ dev' = dev /\ bus' = bus /\ hist' = hist
      /\ router.pc = "resolve" /\ router.i <= Len(router.requests)
      /\ router' = [router EXCEPT !.i = @ + 1, !.groups = Grouped(router.i)]
      BY DEF Resolve
<1>2. RouterOK(router)
      BY DevicesKept
<1>3. router.i \in 1..Len(router.requests) /\ router.i + 1 \in 1..(Len(router.requests) + 1)
  <2>1. router.i \in 1..(Len(router.requests) + 1) /\ Len(router.requests) \in Nat
        BY <1>2 DEF RouterOK
  <2>2. QED  BY <1>1, <2>1
<1>4. PICK g : g = Grouped(router.i)
      OBVIOUS
<1>5. g \in [Devices -> Groups]
      BY <1>3, <1>4, GroupedType
<1>6. router' = [router EXCEPT !.i = @ + 1, !.groups = g]
      BY <1>1, <1>4
<1>7. RouterOK(router')
      BY <1>1, <1>2, <1>3, <1>5, <1>6, ZenonT(60) DEF RouterOK, RouterFields
<1>8. TypesInv'
      BY <1>1, <1>7, DevicesKept, TypesKept
<1>9. ControlInv'
      BY <1>1, Idle, IdleControl DEF Running
<1>10. QED  BY <1>8, <1>9

LEMMA ExecuteTypes ==
    ASSUME TypesInv, ControlInv, Execute
    PROVE  TypesInv' /\ ControlInv'
<1> DEFINE w == [d \in Devices |-> Transactions(router.groups[d])]
<1>1. /\ cfg' = cfg /\ servers' = servers /\ dev' = dev /\ bus' = bus /\ hist' = hist
      /\ router.pc = "resolve"
      BY SMTT(60) DEF Execute
<1>2. PICK order \in IF router.op = "cycle" /\ ~cfg.async THEN SetToSeqs(Devices) ELSE {InOrder} :
          router' = [router EXCEPT !.pc = "run", !.order = order, !.work = w]
      BY DEF Execute
<1>3. RouterOK(router) /\ cfg \in Scenarios
      BY DevicesKept
<1>4. order \in Seq(Devices)
  <2>1. ASSUME NEW f \in SetToSeqs(Devices)
        PROVE  f \in Seq(Devices)
    <3>1. f \in [1..Cardinality(Devices) -> Devices]
          BY DEF SetToSeqs
    <3>2. Cardinality(Devices) \in Nat
          BY <1>3, DevicesFinite, FS_CardinalityType
    <3>3. QED  BY <3>1, <3>2, FunctionAsSeq
  <2>2. InOrder \in Seq(Devices)
        BY <1>3, DefaultsType
  <2>3. QED  BY <2>1, <2>2
<1>5. w \in [Devices -> Seq(Txns)]
  <2>1. router.groups \in [Devices -> Groups]
        BY <1>3 DEF RouterOK
  <2>2. QED  BY <2>1, TransactionsType
<1>6. RouterOK(router')
  <2> HIDE DEF w
  <2> QED  BY <1>2, <1>3, <1>4, <1>5 DEF RouterOK, RouterFields
<1>7. TypesInv'
      BY <1>1, <1>6, DevicesKept, TypesKept
<1>8. ControlInv'
      BY <1>1, Idle, IdleControl DEF Running
<1>9. QED  BY <1>7, <1>8

LEMMA StartProbeTypes ==
    ASSUME TypesInv, ControlInv, StartProbe
    PROVE  TypesInv' /\ ControlInv'
<1>1. /\ cfg' = cfg /\ servers' = servers /\ dev' = dev /\ bus' = bus /\ hist' = hist
      /\ router.pc = "resolve" /\ router.i <= Len(router.requests)
      /\ router' = [router EXCEPT !.pc = "flush", !.work = NoWork, !.order = InOrder]
      BY DEF StartProbe
<1>2. RouterOK(router) /\ cfg \in Scenarios
      BY DevicesKept
<1>3. NoWork \in [Devices -> Seq(Txns)] /\ InOrder \in Seq(Devices)
      BY <1>2, DefaultsType
<1>4. RouterOK(router')
      BY <1>1, <1>2, <1>3 DEF RouterOK, RouterFields
<1>5. TypesInv'
      BY <1>1, <1>4, DevicesKept, TypesKept
<1>6. ControlInv'
      BY <1>1, Idle, IdleControl DEF Running
<1>7. QED  BY <1>5, <1>6

LEMMA FlushAllTypes ==
    ASSUME TypesInv, ControlInv, FlushAll
    PROVE  TypesInv' /\ ControlInv'
<1>1. PICK ds : Flushed(ds)
      BY DEF FlushAll
<1>2. /\ cfg' = cfg /\ servers' = servers /\ hist' = hist /\ router.pc = "flush"
      /\ router' = [router EXCEPT !.pc = "ask"]
      BY DEF FlushAll
<1>3. RouterOK(router)
      BY DevicesKept
<1>4. RouterOK(router')
      BY <1>2, <1>3 DEF RouterOK, RouterFields
<1>5. TypesInv'
      BY <1>1, <1>2, <1>4, DevicesKept, FlushedTypes, TypesKept
<1>6. ControlInv'
      BY <1>1, <1>2, FlushedTypes, Idle, IdleControl DEF Running
<1>7. QED  BY <1>5, <1>6

\* A probe that is about to be asked.
LEMMA AskingOK ==
    ASSUME TypesInv, router.pc = "ask", NEW w \in [Devices -> Seq(Txns)]
    PROVE  RouterOK(Asking(w))
<1>1. RouterOK(router)
      BY DevicesKept
<1>2. PICK rs : rs = [router.responses EXCEPT ![0] = {}]
      OBVIOUS
<1>3. DOMAIN rs = 0..Len(router.requests) /\ \A i \in DOMAIN rs : rs[i] \subseteq Received
      BY <1>1, <1>2 DEF RouterOK
<1>4. Asking(w) = [router EXCEPT !.pc = "probe", !.work = w, !.responses = rs]
      BY <1>2 DEF Asking
<1>5. RouterOK([router EXCEPT !.pc = "probe", !.work = w, !.responses = rs])
      BY <1>1, <1>3 DEF RouterOK, RouterFields
<1>6. QED  BY <1>4, <1>5

LEMMA AskInTurnTypes ==
    ASSUME TypesInv, ControlInv, AskInTurn
    PROVE  TypesInv' /\ ControlInv'
<1> DEFINE w == [d \in Devices |-> IF d \in BroadcastTargets THEN Sole(Entry(0, Probe, None)) ELSE <<>>]
<1>1. /\ cfg' = cfg /\ servers' = servers /\ dev' = dev /\ bus' = bus /\ hist' = hist
      /\ router.pc = "ask" /\ router' = Asking(w)
      BY DEF AskInTurn
<1>2. router.op = "discover" \/ router.i <= Len(router.requests)
      BY <1>1, DevicesKept DEF RouterOK
<1>3. Sole(Entry(0, Probe, None)) \in Seq(Txns) /\ <<>> \in Seq(Txns)
  <2>1. \A S : <<>> \in Seq(S)
        OBVIOUS
  <2>2. QED  BY <1>2, <2>1, ProbeType, SoleType
<1>4. w \in [Devices -> Seq(Txns)]
      BY <1>3
<1>5. RouterOK(router')
  <2> HIDE DEF w
  <2> QED  BY <1>1, <1>4, AskingOK
<1>6. TypesInv'
      BY <1>1, <1>5, DevicesKept, TypesKept
<1>7. ControlInv'
      BY <1>1, Idle, IdleControl DEF Running
<1>8. QED  BY <1>6, <1>7

LEMMA AskInParallelTypes ==
    ASSUME TypesInv, ControlInv, AskInParallel
    PROVE  TypesInv' /\ ControlInv'
<1> DEFINE entry == Entry(0, Probe, None)
           receive == Entry(0, receive_only(Probe.expected), None)
           drained == {d \in BroadcastTargets : Fd(d) /\ dev[d].recover}
           w == [d \in Devices |-> IF HasBus(d) THEN Sole(receive) ELSE <<>>]
<1>1. /\ cfg' = cfg /\ servers' = servers /\ hist' = hist
      /\ router.pc = "ask" /\ router' = Asking(w)
      /\ dev' = [d \in Devices |-> IF d \in drained
                    THEN [dev[d] EXCEPT !.rx = <<>>, !.pending = 0, !.recover = FALSE]
                    ELSE dev[d]]
      /\ bus' = [d \in Devices |-> (IF d \in drained THEN {} ELSE bus[d])
                    \cup (IF d \in BroadcastTargets THEN Answers(d, entry) ELSE {})]
      BY ZenonT(40) DEF AskInParallel
<1>2. router.op = "discover" \/ router.i <= Len(router.requests)
  <2>1. router.pc = "ask" /\ RouterOK(router)
        BY DevicesKept DEF AskInParallel
  <2>2. QED  BY <2>1 DEF RouterOK
<1>3. entry \in Entries /\ receive \in Entries
      BY <1>2, ProbeType
<1> HIDE DEF entry, receive, drained
<1>4. w \in [Devices -> Seq(Txns)]
  <2>1. \A S : <<>> \in Seq(S)
        OBVIOUS
  <2>2. QED  BY <1>3, <2>1, SoleType
<1>5. RouterOK(router')
  <2> HIDE DEF w
  <2> QED  BY <1>1, <1>4, AskingOK
<1>6. bus' \in [Devices -> SUBSET Reply]
  <2>1. \A d \in Devices : Answers(d, entry) \subseteq Reply /\ bus[d] \subseteq Reply
        BY <1>3, AnswersType, DevicesKept
  <2>2. QED  BY <1>1, <2>1
<1>7. ASSUME NEW d \in Devices
      PROVE  /\ dev'[d] \in DeviceStates /\ dev'[d].pending <= Len(dev'[d].rx)
             /\ dev'[d].pc = dev[d].pc
  <2>1. dev[d] \in DeviceStates /\ dev[d].pending <= Len(dev[d].rx) /\ Len(<<>>) = 0
        BY DevicesKept DEF DevicesOK
  <2>2. CASE d \in drained
    <3>1. dev'[d] = [dev[d] EXCEPT !.rx = <<>>, !.pending = 0, !.recover = FALSE]
          BY <1>1, <2>2
    <3>2. dev'[d] \in DeviceStates
          BY ONLY <2>1, <3>1, DeviceEmptied, Zenon
    <3>3. dev'[d].rx = <<>> /\ dev'[d].pending = 0 /\ dev'[d].pc = dev[d].pc
          BY ONLY <2>1, <3>1 DEF DeviceStates
    <3>4. QED  BY <2>1, <3>2, <3>3
  <2>3. QED  BY <1>1, <2>1, <2>2
<1>8. DevicesOK(dev')
      BY <1>1, <1>7 DEF DevicesOK
<1>9. TypesInv'
      BY <1>1, <1>5, <1>6, <1>8, DevicesKept, TypesKept
<1>10. ControlInv'
      BY <1>1, <1>7, Idle, IdleControl DEF Running
<1>11. QED  BY <1>9, <1>10

LEMMA ProbeEndTypes ==
    ASSUME TypesInv, ControlInv, ProbeEnd
    PROVE  TypesInv' /\ ControlInv'
<1> DEFINE found == {r.channel : r \in {r \in router.responses[0] : r.frame.source # Broadcast}}
           address == LookupAddress(Sought)
           routes == [a \in DOMAIN router.routes \cup {address} |->
                         IF a = address THEN CHOOSE d \in found : TRUE ELSE router.routes[a]]
<1>1. /\ cfg' = cfg /\ servers' = servers /\ dev' = dev /\ bus' = bus
      /\ router.pc = "probe" /\ router.op # "discover" /\ AllDone
      BY DEF ProbeEnd
<1>2. \/ /\ Conclusive(found)
         /\ router' = [router EXCEPT !.pc = "resolve", !.routes = routes]
         /\ hist' = [hist EXCEPT !.fresh = @ \cup {address}]
      \/ /\ \E result \in {"not found", "ambiguous"} :
               router' = [router EXCEPT !.pc = "idle", !.result = result]
         /\ hist' = hist
  <2>1. CASE Conclusive(found)
        BY <2>1 DEF ProbeEnd
  <2>2. CASE ~Conclusive(found)
    <3>1. /\ router' = [router EXCEPT !.pc = "idle",
                           !.result = IF found = {} THEN "not found" ELSE "ambiguous"]
          /\ hist' = hist
          BY <2>2 DEF ProbeEnd
    <3> HIDE DEF found
    <3>2. QED  BY <3>1
  <2>3. QED  BY <2>1, <2>2
<1>3. RouterOK(router)
      BY DevicesKept
<1>4. found \subseteq Devices
  <2>1. router.responses[0] \subseteq Received
    <3>1. router.requests \in Seq(Requests(Len(cfg.devices)))
          BY <1>3 DEF RouterOK
    <3>2. 0 \in 0..Len(router.requests)
          BY <3>1
    <3>3. QED  BY <1>3, <3>2 DEF RouterOK
  <2>2. QED  BY <2>1 DEF Received
<1> HIDE DEF found
<1>5. ASSUME Conclusive(found)
      PROVE  \A a \in DOMAIN routes : routes[a] \in Devices
  <2>1. found # {}
        BY <1>5, FS_EmptySet DEF Conclusive
  <2>2. (CHOOSE d \in found : TRUE) \in Devices
        BY <1>4, <2>1
  <2>3. \A a \in DOMAIN router.routes : router.routes[a] \in Devices
        BY <1>3 DEF RouterOK
  <2>4. QED  BY <2>2, <2>3
<1> HIDE DEF routes, address
<1>6. RouterOK(router')
  <2>1. CASE Conclusive(found) /\ router' = [router EXCEPT !.pc = "resolve", !.routes = routes]
        BY <1>3, <1>5, <2>1 DEF RouterOK, RouterFields
  <2>2. ASSUME NEW result \in {"not found", "ambiguous"},
               router' = [router EXCEPT !.pc = "idle", !.result = result]
        PROVE  RouterOK(router')
        BY <1>3, <2>2 DEF RouterOK, RouterFields, Results
  <2>3. QED  BY <1>2, <2>1, <2>2
<1>7. DOMAIN hist' = {"executed", "fresh", "moved"}
      BY <1>2, DevicesKept
<1>8. TypesInv'
      BY <1>1, <1>6, <1>7, DevicesKept, TypesKept
<1>9. ControlInv'
      BY <1>1, Idle, IdleControl
<1>10. QED  BY <1>8, <1>9

LEMMA EndTypes ==
    ASSUME TypesInv, ControlInv, DiscoverEnd \/ RunEnd
    PROVE  TypesInv' /\ ControlInv'
<1>1. PICK result \in Results :
          \/ \E found : router' = [router EXCEPT !.pc = "idle", !.result = result, !.found = found]
          \/ router' = [router EXCEPT !.pc = "idle", !.result = result]
  <2>1. CASE DiscoverEnd
        BY <2>1 DEF DiscoverEnd, Results
  <2>2. CASE RunEnd
    <3>1. router' = [router EXCEPT !.pc = "idle", !.result = IF router.failed THEN "err" ELSE "ok"]
          BY <2>2 DEF RunEnd
    <3>2. QED  BY <3>1 DEF Results
  <2>3. QED  BY <2>1, <2>2, ZenonT(60)
<1>2. /\ cfg' = cfg /\ servers' = servers /\ dev' = dev /\ bus' = bus /\ hist' = hist /\ AllDone
      BY DEF DiscoverEnd, RunEnd
<1>3. RouterOK(router)
      BY DevicesKept
<1>4. RouterOK(router')
      BY <1>1, <1>3, ZenonT(60) DEF RouterOK, RouterFields
<1>5. TypesInv'
      BY <1>2, <1>4, DevicesKept, TypesKept
<1>6. ControlInv'
      BY <1>2, Idle, IdleControl
<1>7. QED  BY <1>5, <1>6, SMTT(60)

LEMMA CancelTypes ==
    ASSUME TypesInv, ControlInv, Cancel
    PROVE  TypesInv' /\ ControlInv'
<1>1. PICK lost \in [Devices -> 0..2] :
          /\ \A d \in Devices : lost[d] <= IF dev[d].pc = "receive" THEN Len(dev[d].rx) ELSE 0
          /\ dev' = [d \in Devices |->
                 [dev[d] EXCEPT !.pc = "idle", !.rx = SubSeq(@, lost[d] + 1, Len(@)),
                                !.pending = IF dev[d].pc = "receive" THEN 0 ELSE @]]
      BY ZenonT(40) DEF Cancel
<1>2. /\ cfg' = cfg /\ servers' = servers /\ bus' = bus /\ hist' = hist
      /\ router.spent < cfg.maxFaults
      /\ router' = [router EXCEPT !.pc = "idle", !.work = NoWork, !.result = "cancelled",
                                  !.spent = @ + 1]
      BY ZenonT(40) DEF Cancel
<1>3. RouterOK(router) /\ cfg \in Scenarios
      BY DevicesKept
<1>4. router.spent + 1 \in 0..cfg.maxFaults /\ NoWork \in [Devices -> Seq(Txns)]
  <2>1. cfg.maxFaults \in Nat /\ router.spent \in 0..cfg.maxFaults
        BY <1>3, ConfigParts DEF RouterOK
  <2>2. QED  BY <1>2, <1>3, <2>1, DefaultsType
<1>5. RouterOK(router')
      BY <1>2, <1>3, <1>4 DEF RouterOK, RouterFields, Results
<1>6. ASSUME NEW d \in Devices
      PROVE  /\ dev'[d] \in DeviceStates /\ dev'[d].pending <= Len(dev'[d].rx)
             /\ dev'[d].pc = "idle"
  <2>1. dev[d] \in DeviceStates /\ dev[d].pending <= Len(dev[d].rx)
        BY DevicesKept DEF DevicesOK
  <2>2. dev[d].rx \in Seq(Reply) /\ dev[d].pending \in Nat
        BY <2>1 DEF DeviceStates
  <2>3. Len(dev[d].rx) \in Nat
        BY <2>2
  <2>4. lost[d] \in 0..Len(dev[d].rx)
    <3>1. lost[d] \in 0..2 /\ lost[d] <= IF dev[d].pc = "receive" THEN Len(dev[d].rx) ELSE 0
          BY <1>1
    <3>2. QED  BY <2>3, <3>1
  <2>5. PICK rx : rx = SubSeq(dev[d].rx, lost[d] + 1, Len(dev[d].rx))
        OBVIOUS
  <2>6. rx \in Seq(Reply) /\ Len(rx) = Len(dev[d].rx) - lost[d]
        BY <2>2, <2>4, <2>5, SequencesOfReplies, SMTT(60)
  <2>7. PICK n : n = IF dev[d].pc = "receive" THEN 0 ELSE dev[d].pending
        OBVIOUS
  <2>8. n \in Nat /\ n <= Len(rx)
    <3>1. dev[d].pc # "receive" => lost[d] = 0
      <4>1. lost[d] \in 0..2 /\ lost[d] <= IF dev[d].pc = "receive" THEN Len(dev[d].rx) ELSE 0
            BY <1>1
      <4>2. QED  BY <4>1
    <3>2. QED  BY <2>1, <2>2, <2>3, <2>4, <2>6, <2>7, <3>1
  <2>9. dev'[d] = [dev[d] EXCEPT !.pc = "idle", !.rx = rx, !.pending = n]
        BY <1>1, <2>1, <2>5, <2>7
  <2>10. /\ dev'[d] \in DeviceStates /\ dev'[d].pc = "idle" /\ dev'[d].rx = rx
         /\ dev'[d].pending = n
        BY ONLY <2>1, <2>6, <2>8, <2>9 DEF DeviceStates
  <2>11. QED  BY <2>6, <2>8, <2>10
<1>7. DevicesOK(dev')
      BY <1>1, <1>6 DEF DevicesOK
<1>8. TypesInv'
      BY <1>2, <1>5, <1>7, DevicesKept, TypesKept
<1>9. ControlInv'
      BY <1>2, <1>6, IdleControl
<1>10. QED  BY <1>8, <1>9

\* A transaction that fails leaves the device's queue shorter or, in turn, none.
LEMMA FailedOK ==
    ASSUME TypesInv, NEW d \in Devices, router.work[d] # <<>>, router.spent < cfg.maxFaults,
           NEW r, r = [Failed(router, d) EXCEPT !.spent = @ + 1]
    PROVE  /\ RouterOK(r) /\ r.pc = router.pc /\ r.op = router.op /\ r.order = router.order
           /\ \/ r.work = [router.work EXCEPT ![d] = Tail(@)]
              \/ InTurn /\ r.work = NoWork
<1>1. RouterOK(router) /\ cfg \in Scenarios
      BY DevicesKept
<1>2. router.work \in [Devices -> Seq(Txns)] /\ Tail(router.work[d]) \in Seq(Txns)
      BY <1>1, TxnType DEF RouterOK
<1>3. router.spent + 1 \in 0..cfg.maxFaults /\ NoWork \in [Devices -> Seq(Txns)]
  <2>1. cfg.maxFaults \in Nat /\ router.spent \in 0..cfg.maxFaults
        BY <1>1, ConfigParts DEF RouterOK
  <2>2. QED  BY <1>1, <2>1, DefaultsType
<1>4. PICK w : w = [router.work EXCEPT ![d] = Tail(@)]
      OBVIOUS
<1>5. w \in [Devices -> Seq(Txns)]
      BY <1>2, <1>4
<1>6. \/ Failed(router, d) = [router EXCEPT !.work = w]
      \/ Failed(router, d) = [router EXCEPT !.failed = TRUE, !.work = w]
      \/ InTurn /\ Failed(router, d) = [router EXCEPT !.failed = TRUE, !.work = NoWork]
      BY <1>4 DEF Failed
<1>7. PICK v \in [Devices -> Seq(Txns)] :
         /\ v = w \/ (InTurn /\ v = NoWork)
         /\ \/ Failed(router, d) = [router EXCEPT !.work = v]
            \/ Failed(router, d) = [router EXCEPT !.failed = TRUE, !.work = v]
      BY <1>3, <1>5, <1>6
<1>8. \/ r = [[router EXCEPT !.work = v] EXCEPT !.spent = @ + 1]
      \/ r = [[router EXCEPT !.failed = TRUE, !.work = v] EXCEPT !.spent = @ + 1]
      BY <1>7
<1>9. /\ RouterOK(r) /\ r.pc = router.pc /\ r.op = router.op /\ r.order = router.order
      /\ r.work = v
      BY <1>1, <1>3, <1>8, ZenonT(60) DEF RouterOK, RouterFields
<1>10. QED  BY <1>4, <1>7, <1>9

\* A device after an error: idle, with what it has received.
LEMMA BrokenOK ==
    ASSUME TypesInv, NEW d \in Devices, NEW s \in DeviceStates
    PROVE  /\ Broken(d, s) \in DeviceStates /\ Broken(d, s).pc = "idle"
           /\ Broken(d, s).rx = s.rx /\ Broken(d, s).pending = s.pending
           /\ Recovering(d) \in BOOLEAN
<1>1. cfg \in Scenarios /\ dev[d] \in DeviceStates
      BY DevicesKept DEF DevicesOK
<1>2. cfg.async \in BOOLEAN /\ dev[d].recover \in BOOLEAN
      BY <1>1, ConfigParts DEF DeviceStates
<1>3. Recovering(d) \in BOOLEAN
      BY <1>2 DEF Recovering
<1>4. PICK f \in BOOLEAN : f = (s.flush \/ (Fd(d) /\ (~Writing \/ s.pc = "ok")))
  <2>1. s.flush \in BOOLEAN
        BY DEF DeviceStates
  <2>2. (s.flush \/ (Fd(d) /\ (~Writing \/ s.pc = "ok"))) \in BOOLEAN
        BY <2>1
  <2>3. QED  BY <2>2
<1>5. PICK b \in BOOLEAN : b = Recovering(d)
      BY <1>3
<1>6. Broken(d, s) = [s EXCEPT !.pc = "idle", !.flush = f, !.recover = b]
      BY <1>4, <1>5 DEF Broken
<1>7. QED  BY <1>3, <1>6 DEF DeviceStates

\* One device changes.
LEMMA OneDevice ==
    ASSUME TypesInv, NEW d \in Devices, NEW s \in DeviceStates, s.pending <= Len(s.rx),
           dev' = [dev EXCEPT ![d] = s]
    PROVE  /\ DevicesOK(dev') /\ dev'[d] = s
           /\ \A e \in Devices \ {d} : dev'[e] = dev[e]
<1>1. dev \in [Devices -> DeviceStates] /\ \A e \in Devices : dev[e].pending <= Len(dev[e].rx)
      BY DevicesKept DEF DevicesOK
<1>2. QED  BY <1>1 DEF DevicesOK

LEMMA SendTypes ==
    ASSUME TypesInv, ControlInv, NEW d \in Devices, Send(d)
    PROVE  TypesInv' /\ ControlInv'
<1>1. PICK s : s = IF Drains(d) \/ Clears(d)
                   THEN [dev[d] EXCEPT !.rx = <<>>, !.pending = 0, !.flush = FALSE] ELSE dev[d]
      OBVIOUS
<1>2. PICK sent \in 0..Len(Txn(d).entries) :
          /\ Transmit(d, Frames(d, sent))
          /\ bus' = [bus EXCEPT ![d] = (IF Drains(d) THEN {} ELSE bus[d]) \cup AnswersTo(d, Frames(d, sent))]
          /\ \/ /\ dev' = [dev EXCEPT ![d] =
                     [s EXCEPT !.pc = IF Fd(d) /\ Frames(d, Len(Txn(d).entries)) # {} THEN "ok" ELSE "receive",
                               !.recover = Recovering(d)]]
                /\ router' = router
             \/ /\ router.spent < cfg.maxFaults
                /\ dev' = [dev EXCEPT ![d] = Broken(d, s)]
                /\ router' = [Failed(router, d) EXCEPT !.spent = @ + 1]
      BY <1>1, ZenonT(60) DEF Send
<1>3. /\ Running /\ router.work[d] # <<>> /\ dev[d].pc = "idle" /\ MyTurn(d)
      /\ cfg' = cfg /\ servers' = servers
      BY ZenonT(40) DEF Send
<1>4. dev[d] \in DeviceStates /\ dev[d].pending <= Len(dev[d].rx)
      BY DevicesKept DEF DevicesOK
<1>5. s \in DeviceStates /\ s.pending <= Len(s.rx)
  <2>1. CASE s = dev[d]
        BY <1>4, <2>1
  <2>2. CASE s = [dev[d] EXCEPT !.rx = <<>>, !.pending = 0, !.flush = FALSE]
    <3>1. s \in DeviceStates
          BY ONLY <1>4, <2>2, DeviceEmptied, Zenon
    <3>2. s.rx = <<>> /\ s.pending = 0
          BY ONLY <1>4, <2>2 DEF DeviceStates
    <3>3. QED  BY <3>1, <3>2
  <2>3. QED  BY <1>1, <2>1, <2>2
<1>6. /\ Broken(d, s) \in DeviceStates /\ Broken(d, s).pc = "idle"
      /\ Broken(d, s).pending <= Len(Broken(d, s).rx)
      BY <1>5, BrokenOK
<1>7. PICK t \in DeviceStates :
         /\ dev' = [dev EXCEPT ![d] = t] /\ t.pending <= Len(t.rx)
         /\ \/ router' = router
            \/ /\ t.pc = "idle" /\ router.spent < cfg.maxFaults
               /\ router' = [Failed(router, d) EXCEPT !.spent = @ + 1]
  <2>1. CASE /\ router.spent < cfg.maxFaults
             /\ dev' = [dev EXCEPT ![d] = Broken(d, s)]
             /\ router' = [Failed(router, d) EXCEPT !.spent = @ + 1]
    <3>1. PICK t \in DeviceStates : t = Broken(d, s) /\ t.pc = "idle" /\ t.pending <= Len(t.rx)
          BY <1>6
    <3>2. QED  BY <2>1, <3>1
  <2>2. CASE /\ dev' = [dev EXCEPT ![d] =
                     [s EXCEPT !.pc = IF Fd(d) /\ Frames(d, Len(Txn(d).entries)) # {} THEN "ok" ELSE "receive",
                               !.recover = Recovering(d)]]
             /\ router' = router
    <3>1. PICK p \in {"ok", "receive"} : p = IF Fd(d) /\ Frames(d, Len(Txn(d).entries)) # {} THEN "ok" ELSE "receive"
          OBVIOUS
    <3>2. PICK b \in BOOLEAN : b = Recovering(d)
          BY <1>5, BrokenOK
    <3>3. PICK t : t = [s EXCEPT !.pc = p, !.recover = b]
          OBVIOUS
    <3>4. t \in DeviceStates /\ t.pending <= Len(t.rx)
      <4>1. s \in DeviceStates /\ p \in {"ok", "receive"} /\ b \in BOOLEAN
            BY <1>5
      <4>2. t \in DeviceStates /\ t.pending = s.pending /\ t.rx = s.rx
            BY ONLY <4>1, <3>3 DEF DeviceStates
      <4>3. QED  BY <1>5, <4>2
    <3>5. dev' = [dev EXCEPT ![d] = t]
          BY <2>2, <3>1, <3>2, <3>3
    <3>6. QED  BY <2>2, <3>4, <3>5
  <2>3. QED
    <3> HIDE DEF Failed
    <3> QED  BY ONLY <1>2, <2>1, <2>2
<1>8. /\ DevicesOK(dev') /\ dev'[d] = t
      /\ \A e \in Devices \ {d} : dev'[e] = dev[e]
      BY <1>7, OneDevice
<1>9. /\ RouterOK(router') /\ router'.pc = router.pc /\ router'.op = router.op
       /\ router'.order = router.order
       /\ \/ router'.work = router.work
          \/ t.pc = "idle" /\ router'.work = [router.work EXCEPT ![d] = Tail(@)]
          \/ t.pc = "idle" /\ InTurn
  <2>1. CASE router' = router
        BY <2>1, DevicesKept
  <2>2. CASE /\ t.pc = "idle" /\ router.spent < cfg.maxFaults
             /\ router' = [Failed(router, d) EXCEPT !.spent = @ + 1]
    <3>1. PICK r : r = [Failed(router, d) EXCEPT !.spent = @ + 1]
          OBVIOUS
    <3>2. /\ RouterOK(r) /\ r.pc = router.pc /\ r.op = router.op /\ r.order = router.order
          /\ \/ r.work = [router.work EXCEPT ![d] = Tail(@)]
             \/ InTurn /\ r.work = NoWork
          BY <1>3, <2>2, <3>1, FailedOK
    <3>3. router' = r
          BY <2>2, <3>1
    <3>4. QED  BY ONLY <2>2, <3>2, <3>3
  <2>3. QED  BY <1>7, <2>1, <2>2
<1>10. bus' \in [Devices -> SUBSET Reply]
  <2>1. AnswersTo(d, Frames(d, sent)) \subseteq Reply
        BY <1>2, <1>3, TxnType, AnswersToType
  <2>2. bus \in [Devices -> SUBSET Reply]
        BY DevicesKept
  <2>3. QED  BY <1>2, <2>1, <2>2
<1>11. DOMAIN hist' = {"executed", "fresh", "moved"}
      BY <1>2, DevicesKept DEF Transmit
<1>12. TypesInv'
      BY <1>3, <1>8, <1>9, <1>10, <1>11, DevicesKept, TypesKept
<1>13. ControlInv'
  <2>1. router.work \in [Devices -> Seq(Txns)]
        BY DevicesKept DEF RouterOK
  <2>2. \/ router'.work = router.work
        \/ /\ dev'[d].pc = "idle"
           /\ ~InTurn => \A e \in Devices \ {d} : router'.work[e] = router.work[e]
        BY <1>8, <1>9, <2>1
  <2>3. QED  BY <1>3, <1>8, <1>9, <2>2, TurnControl
<1>14. QED  BY <1>12, <1>13

LEMMA WaitOkTypes ==
    ASSUME TypesInv, ControlInv, NEW d \in Devices, WaitOk(d)
    PROVE  TypesInv' /\ ControlInv'
<1>1. PICK k \in dev[d].pending..Len(dev[d].rx) :
          dev' = [dev EXCEPT ![d].pc = "receive", ![d].pending = k]
      BY ZenonT(40) DEF WaitOk
<1>2. /\ cfg' = cfg /\ servers' = servers /\ router' = router /\ bus' = bus /\ hist' = hist
      /\ dev[d].pc = "ok"
      BY ZenonT(40) DEF WaitOk
<1>3. dev[d] \in DeviceStates /\ dev \in [Devices -> DeviceStates]
      BY DevicesKept DEF DevicesOK
<1>4. PICK s : s = [dev[d] EXCEPT !.pc = "receive", !.pending = k]
      OBVIOUS
<1>5. k \in Nat /\ k <= Len(dev[d].rx)
  <2>1. dev[d].pending \in Nat /\ dev[d].rx \in Seq(Reply)
        BY <1>3 DEF DeviceStates
  <2>2. QED  BY <2>1
<1>6. s \in DeviceStates /\ s.pending <= Len(s.rx)
      BY <1>3, <1>4, <1>5 DEF DeviceStates
<1>7. dev' = [dev EXCEPT ![d] = s]
      BY <1>1, <1>3, <1>4
<1>8. DevicesOK(dev') /\ \A e \in Devices \ {d} : dev'[e] = dev[e]
      BY <1>6, <1>7, OneDevice
<1>9. TypesInv'
      BY <1>2, <1>8, DevicesKept, TypesKept
<1>10. ControlInv'
  <2>1. \A e \in Devices : dev'[e].pc # "idle" => dev[e].pc # "idle"
        BY <1>2, <1>8
  <2>2. QED  BY <1>2, <2>1, SameControl
<1>11. QED  BY <1>9, <1>10

LEMMA OkFailsTypes ==
    ASSUME TypesInv, ControlInv, NEW d \in Devices, OkFails(d)
    PROVE  TypesInv' /\ ControlInv'
<1>1. /\ cfg' = cfg /\ servers' = servers /\ bus' = bus /\ hist' = hist
      /\ dev[d].pc = "ok" /\ router.spent < cfg.maxFaults
      /\ dev' = [dev EXCEPT ![d] = Broken(d, dev[d])]
      BY DEF OkFails
<1>2. PICK r : r = [Failed(router, d) EXCEPT !.spent = @ + 1] /\ router' = r
      BY DEF OkFails
<1>3. Running /\ router.work[d] # <<>> /\ MyTurn(d)
      BY <1>1 DEF ControlInv
<1>4. /\ RouterOK(r) /\ r.pc = router.pc /\ r.op = router.op /\ r.order = router.order
      /\ \/ r.work = [router.work EXCEPT ![d] = Tail(@)]
         \/ InTurn /\ r.work = NoWork
      BY <1>1, <1>2, <1>3, FailedOK
<1>5. dev[d] \in DeviceStates /\ dev[d].pending <= Len(dev[d].rx)
      BY DevicesKept DEF DevicesOK
<1>6. PICK t : t = Broken(d, dev[d])
      OBVIOUS
<1>7. t \in DeviceStates /\ t.pc = "idle" /\ t.pending <= Len(t.rx)
      BY <1>5, <1>6, BrokenOK
<1>8. /\ DevicesOK(dev') /\ dev'[d] = t
      /\ \A e \in Devices \ {d} : dev'[e] = dev[e]
      BY <1>1, <1>6, <1>7, OneDevice
<1>9. TypesInv'
      BY <1>1, <1>2, <1>4, <1>8, DevicesKept, TypesKept
<1>10. ControlInv'
  <2>1. router.work \in [Devices -> Seq(Txns)]
        BY DevicesKept DEF RouterOK
  <2>2. ~InTurn => \A e \in Devices \ {d} : router'.work[e] = router.work[e]
        BY <1>2, <1>4, <2>1
  <2>3. QED  BY <1>1, <1>2, <1>3, <1>4, <1>7, <1>8, <2>2, TurnControl
<1>11. QED  BY <1>9, <1>10

\* What is left to do when device d has completed a transaction.
WorkLeft(d) == [router.work EXCEPT ![d] = Tail(@)]

\* A device completes its transaction and hands over what it has received.
LEMMA AnsweredOK ==
    ASSUME TypesInv, NEW d \in Devices, router.work[d] # <<>>,
           NEW frames \in Seq(Reply), NEW r, r = Answered(d, frames)
    PROVE  /\ RouterOK(r) /\ r.pc = router.pc /\ r.op = router.op /\ r.order = router.order
           /\ r.work = WorkLeft(d)
           /\ r.responses = Dispatched(d, frames) /\ r.requests = router.requests
           /\ r.n = router.n /\ r.i = router.i /\ r.routes = router.routes /\ r.spent = router.spent
           /\ r.result = router.result /\ r.failed = router.failed /\ r.groups = router.groups
<1>1. RouterOK(router)
      BY DevicesKept
<1>2. PICK w : w = WorkLeft(d)
      OBVIOUS
<1>3. w \in [Devices -> Seq(Txns)]
  <2>1. router.work \in [Devices -> Seq(Txns)] /\ Tail(router.work[d]) \in Seq(Txns)
        BY <1>1, TxnType DEF RouterOK
  <2>2. QED  BY <1>2, <2>1 DEF WorkLeft
<1>4. PICK rs : rs = Dispatched(d, frames)
      OBVIOUS
<1>5. DOMAIN rs = 0..Len(router.requests) /\ \A i \in DOMAIN rs : rs[i] \subseteq Received
  <2>1. /\ DOMAIN router.responses = 0..Len(router.requests)
        /\ \A i \in DOMAIN router.responses : router.responses[i] \subseteq Received
        BY <1>1 DEF RouterOK
  <2>2. \A f \in Range(frames) : [frame |-> f, channel |-> d] \in Received
    <3>1. ASSUME NEW f \in Range(frames)
          PROVE  [frame |-> f, channel |-> d] \in Received
      <4>1. f \in Reply
            BY <3>1 DEF Range
      <4>2. QED  BY <4>1 DEF Received
    <3>2. QED  BY <3>1
  <2> DEFINE new(i) == {[frame |-> f, channel |-> d] : f \in {f \in Range(frames) :
                 \E k \in FirstMatch(Txn(d).entries, f) : Txn(d).entries[k].req = i}}
  <2>3. \A i : new(i) \subseteq Received
        BY <2>2
  <2>4. rs = [i \in DOMAIN router.responses |-> router.responses[i] \cup new(i)]
        BY <1>4 DEF Dispatched
  <2> HIDE DEF new
  <2>5. QED  BY <2>1, <2>3, <2>4
<1>6. r = [router EXCEPT !.responses = rs, !.work = w]
      BY <1>2, <1>4 DEF Answered, WorkLeft
<1>7. QED  BY <1>1, <1>2, <1>3, <1>4, <1>5, <1>6 DEF RouterOK, RouterFields

\* A device that completes is idle, and keeps what it has not handed over.
LEMMA FinishControl ==
    ASSUME TypesInv, ControlInv, NEW d \in Devices, dev[d].pc # "idle",
           NEW frames \in Seq(Reply), router' = Answered(d, frames),
           NEW s \in DeviceStates, s.pending <= Len(s.rx), s.pc = "idle",
           dev' = [dev EXCEPT ![d] = s], UNCHANGED <<cfg, servers, bus, hist>>
    PROVE  TypesInv' /\ ControlInv'
<1>1. Running /\ router.work[d] # <<>> /\ MyTurn(d)
      BY DEF ControlInv
<1>2. PICK r : r = Answered(d, frames)
      OBVIOUS
<1>3. /\ RouterOK(r) /\ r.pc = router.pc /\ r.op = router.op /\ r.order = router.order
      /\ r.work = WorkLeft(d) /\ router' = r
  <2>1. /\ RouterOK(r) /\ r.pc = router.pc /\ r.op = router.op /\ r.order = router.order
        /\ r.work = WorkLeft(d)
    <3>1. TypesInv /\ d \in Devices /\ router.work[d] # <<>> /\ frames \in Seq(Reply)
          BY <1>1
    <3>2. QED  BY ONLY <1>2, <3>1, AnsweredOK, Zenon
  <2>2. QED  BY <1>2, <2>1
<1>4. DevicesOK(dev') /\ dev'[d] = s /\ \A e \in Devices \ {d} : dev'[e] = dev[e]
      BY OneDevice
<1>5. TypesInv'
      BY <1>2, <1>3, <1>4, DevicesKept, TypesKept
<1>6. ControlInv'
  <2>1. router.work \in [Devices -> Seq(Txns)]
        BY DevicesKept DEF RouterOK
  <2>2. \A e \in Devices \ {d} : router'.work[e] = router.work[e]
        BY <1>2, <1>3, <2>1 DEF WorkLeft
  <2>3. QED  BY <1>1, <1>2, <1>3, <1>4, <2>2, TurnControl
<1>7. QED  BY <1>5, <1>6

LEMMA CompleteTypes ==
    ASSUME TypesInv, ControlInv, NEW d \in Devices, Complete(d)
    PROVE  TypesInv' /\ ControlInv'
<1> DEFINE taken == IF dev[d].pending >= Expected(d) THEN dev[d].pending ELSE Expected(d)
           n == IF Expected(d) = 0 THEN 0 ELSE taken
<1>1. /\ dev[d].pc = "receive" /\ Len(dev[d].rx) >= n
      /\ router' = Answered(d, SubSeq(dev[d].rx, 1, n))
      /\ dev' = [dev EXCEPT ![d].pc = "idle", ![d].recover = @ /\ Writing,
                     ![d].rx = SubSeq(@, n + 1, Len(@)), ![d].pending = IF n = 0 THEN @ ELSE 0]
      /\ UNCHANGED <<cfg, servers, bus, hist>>
      BY ZenonT(60) DEF Complete
<1>2. dev[d] \in DeviceStates /\ dev[d].pending <= Len(dev[d].rx) /\ dev \in [Devices -> DeviceStates]
      BY DevicesKept DEF DevicesOK
<1>3. /\ dev[d].rx \in Seq(Reply) /\ dev[d].pending \in Nat /\ dev[d].recover \in BOOLEAN
      /\ Len(dev[d].rx) \in Nat
      BY <1>2 DEF DeviceStates
<1>4. Expected(d) \in Nat
      BY <1>1, TxnType DEF ControlInv
<1>5. n \in 0..Len(dev[d].rx)
      BY <1>1, <1>3, <1>4
<1>6. PICK rx : rx = SubSeq(dev[d].rx, n + 1, Len(dev[d].rx))
      OBVIOUS
<1>7. PICK frames : frames = SubSeq(dev[d].rx, 1, n)
      OBVIOUS
<1>8. rx \in Seq(Reply) /\ Len(rx) = Len(dev[d].rx) - n /\ frames \in Seq(Reply)
  <2> HIDE DEF n
  <2> QED  BY <1>3, <1>5, <1>6, <1>7, SequencesOfReplies
<1>9. PICK p \in Nat : p = (IF n = 0 THEN dev[d].pending ELSE 0) /\ p <= Len(rx)
      BY <1>2, <1>3, <1>5, <1>8
<1>10. PICK b \in BOOLEAN : b = (dev[d].recover /\ Writing)
      BY <1>3
<1>11. PICK s : s = [dev[d] EXCEPT !.pc = "idle", !.recover = b, !.rx = rx, !.pending = p]
      OBVIOUS
<1>12. s \in DeviceStates /\ s.pc = "idle" /\ s.pending <= Len(s.rx)
  <2>1. s \in DeviceStates /\ s.pc = "idle" /\ s.pending = p /\ s.rx = rx
        BY <1>2, <1>8, <1>11 DEF DeviceStates
  <2>2. QED  BY <1>9, <2>1
<1> HIDE DEF n
<1>13. dev' = [dev EXCEPT ![d] = s]
  <2>1. dev' = [dev EXCEPT ![d].pc = "idle", ![d].recover = b, ![d].rx = rx, ![d].pending = p]
        BY <1>1, <1>2, <1>6, <1>9, <1>10
  <2>2. QED  BY ONLY <1>2, <1>11, <2>1
<1>14. QED  BY <1>1, <1>7, <1>8, <1>12, <1>13, FinishControl

LEMMA TimeoutTypes ==
    ASSUME TypesInv, ControlInv, NEW d \in Devices, ReceiveTimeout(d)
    PROVE  TypesInv' /\ ControlInv'
<1>1. PICK s : s = [IdleDevice EXCEPT !.flush = dev[d].flush \/ Fd(d)]
      OBVIOUS
<1>2. /\ dev[d].pc = "receive" /\ router' = Answered(d, dev[d].rx)
      /\ dev' = [dev EXCEPT ![d] = s] /\ UNCHANGED <<cfg, servers, bus, hist>>
      BY <1>1, ZenonT(40) DEF ReceiveTimeout
<1>3. dev[d] \in DeviceStates
      BY DevicesKept DEF DevicesOK
<1>4. dev[d].rx \in Seq(Reply) /\ dev[d].flush \in BOOLEAN
      BY <1>3 DEF DeviceStates
<1>5. s \in DeviceStates /\ s.pc = "idle" /\ s.pending <= Len(s.rx)
  <2>1. PICK e : e = <<>>
        OBVIOUS
  <2>2. e \in Seq(Reply) /\ Len(e) = 0
        BY <2>1
  <2>3. PICK f \in BOOLEAN : f = (dev[d].flush \/ Fd(d))
        BY <1>4
  <2>4. s = [pc |-> "idle", rx |-> e, pending |-> 0, flush |-> f, recover |-> FALSE]
        BY <1>1, <2>1, <2>3 DEF IdleDevice
  <2>5. QED  BY <2>2, <2>4 DEF DeviceStates
<1>6. QED  BY <1>2, <1>4, <1>5, FinishControl

(***************************************************************************)
(* The buses, and the theorem                                              *)
(***************************************************************************)

LEMMA DeliverTypes ==
    ASSUME TypesInv, ControlInv, NEW d \in Devices, Deliver(d)
    PROVE  TypesInv' /\ ControlInv'
<1>1. PICK reply \in bus[d] :
          /\ bus' = [bus EXCEPT ![d] = @ \ {reply}]
          /\ dev' = [dev EXCEPT ![d].rx = Append(@, reply)]
      BY DEF Deliver
<1>2. UNCHANGED <<cfg, servers, router, hist>>
      BY DEF Deliver
<1>3. bus \in [Devices -> SUBSET Reply] /\ dev \in [Devices -> DeviceStates]
      BY DevicesKept DEF DevicesOK
<1>4. dev[d] \in DeviceStates /\ dev[d].pending <= Len(dev[d].rx) /\ reply \in Reply
      BY <1>3, DevicesKept DEF DevicesOK
<1>5. dev[d].rx \in Seq(Reply) /\ dev[d].pending \in Nat
      BY <1>4 DEF DeviceStates
<1>6. PICK rx : rx = Append(dev[d].rx, reply)
      OBVIOUS
<1>7. rx \in Seq(Reply) /\ Len(rx) = Len(dev[d].rx) + 1 /\ Len(dev[d].rx) \in Nat
      BY <1>4, <1>5, <1>6
<1>8. PICK s : s = [dev[d] EXCEPT !.rx = rx]
      OBVIOUS
<1>9. s \in DeviceStates /\ s.pending <= Len(s.rx) /\ s.pc = dev[d].pc
      BY <1>4, <1>5, <1>7, <1>8, SMTT(60) DEF DeviceStates
<1>10. dev' = [dev EXCEPT ![d] = s]
      BY <1>1, <1>3, <1>6, <1>8
<1>11. DevicesOK(dev') /\ dev'[d] = s /\ \A e \in Devices \ {d} : dev'[e] = dev[e]
      BY <1>9, <1>10, OneDevice
<1>12. bus' \in [Devices -> SUBSET Reply]
      BY <1>1, <1>3
<1>13. TypesInv'
      BY <1>2, <1>11, <1>12, DevicesKept, TypesKept
<1>14. ControlInv'
  <2>1. \A e \in Devices : dev'[e].pc = dev[e].pc
        BY <1>9, <1>11
  <2>2. QED  BY <1>2, <2>1, SameControl
<1>15. QED  BY <1>13, <1>14

\* A disturbance is counted.
LEMMA SpendOK ==
    ASSUME TypesInv, ControlInv, Spend, router.spent < cfg.maxFaults, cfg' = cfg, dev' = dev
    PROVE  RouterOK(router') /\ ControlInv'
<1>1. RouterOK(router) /\ cfg \in Scenarios
      BY DevicesKept
<1>2. router.spent + 1 \in 0..cfg.maxFaults
  <2>1. cfg.maxFaults \in Nat /\ router.spent \in 0..cfg.maxFaults
        BY <1>1, ConfigParts DEF RouterOK
  <2>2. QED  BY <2>1
<1>3. /\ RouterOK(router') /\ router'.pc = router.pc /\ router'.op = router.op
      /\ router'.work = router.work /\ router'.order = router.order
      BY <1>1, <1>2 DEF Spend, RouterOK, RouterFields
<1>4. QED  BY <1>3, SameControl

LEMMA LoseTypes ==
    ASSUME TypesInv, ControlInv, Lose
    PROVE  TypesInv' /\ ControlInv'
<1>1. PICK d \in Devices : \E reply : bus' = [bus EXCEPT ![d] = @ \ {reply}]
      BY DEF Lose
<1>2. Spend /\ router.spent < cfg.maxFaults /\ UNCHANGED <<cfg, servers, dev, hist>>
      BY DEF Lose, CanFault
<1>3. bus' \in [Devices -> SUBSET Reply]
      BY <1>1, DevicesKept
<1>4. RouterOK(router') /\ ControlInv'
      BY <1>2, SpendOK
<1>5. QED  BY <1>2, <1>3, <1>4, DevicesKept, TypesKept

\* Controllers are on buses of devices.
LEMMA ServerParts ==
    ASSUME TypesInv, NEW s \in DOMAIN servers
    PROVE  /\ servers[s].bus \in Devices /\ servers[s].id \in Nat /\ servers[s].id \in 1..126
           /\ servers[s].uuid \in Seq(Nat)
           /\ DOMAIN servers = 1..Len(servers) /\ Len(servers) \in Nat
<1>1. servers \in Seq(ServerInfos(Len(cfg.devices))) /\ Devices = 1..Len(cfg.devices)
      BY DevicesKept, ConfigParts
<1>2. servers[s] \in ServerInfos(Len(cfg.devices))
      BY <1>1
<1>3. servers[s].bus \in 1..Len(cfg.devices) /\ servers[s].id \in 1..126 /\ servers[s].uuid \in Seq(Nat)
      BY <1>2 DEF ServerInfos
<1>4. \A n \in 1..126 : n \in Nat
      OBVIOUS
<1>5. servers[s].id \in Nat
      BY <1>3, <1>4, Zenon
<1>6. QED  BY <1>1, <1>3, <1>5

LEMMA StrangerTypes ==
    ASSUME TypesInv, ControlInv, StrangerTalks
    PROVE  TypesInv' /\ ControlInv'
<1>1. PICK s \in DOMAIN servers :
          bus' = [bus EXCEPT ![servers[s].bus] = @ \cup
                    {[server |-> s, source |-> servers[s].id, to |-> Stranger, uuid |-> <<>>,
                      cause |-> <<0, router.spent>>]}]
      BY DEF StrangerTalks
<1>2. Spend /\ router.spent < cfg.maxFaults /\ UNCHANGED <<cfg, servers, dev, hist>>
      BY DEF StrangerTalks, CanFault
<1>3. PICK reply : reply = [server |-> s, source |-> servers[s].id, to |-> Stranger, uuid |-> <<>>,
                            cause |-> <<0, router.spent>>]
      OBVIOUS
<1>4. reply \in Reply
  <2>1. cfg.maxFaults \in Nat /\ router.spent \in 0..cfg.maxFaults
        BY DevicesKept, ConfigParts DEF RouterOK
  <2>2. router.spent \in Nat /\ servers[s].id \in Nat
        BY <2>1, ServerParts
  <2>3. PICK e \in Seq(Nat) : e = <<>>
    <3>1. \A S : <<>> \in Seq(S)
          OBVIOUS
    <3>2. QED  BY <3>1
  <2>4. reply = [server |-> s, source |-> servers[s].id, to |-> Stranger, uuid |-> e,
                 cause |-> <<0, router.spent>>]
        BY <1>3, <2>3
  <2>5. QED  BY <2>2, <2>3, <2>4 DEF Reply
<1>5. bus' \in [Devices -> SUBSET Reply]
      BY <1>1, <1>3, <1>4, DevicesKept
<1>6. RouterOK(router') /\ ControlInv'
      BY <1>2, SpendOK
<1>7. QED  BY <1>2, <1>5, <1>6, DevicesKept, TypesKept

LEMMA MoveTypes ==
    ASSUME TypesInv, ControlInv, Move
    PROVE  TypesInv' /\ ControlInv'
<1>1. PICK s \in DOMAIN servers, d \in Devices : servers' = [servers EXCEPT ![s].bus = d]
      BY DEF Move
<1>2. /\ Spend /\ router.spent < cfg.maxFaults /\ UNCHANGED <<cfg, dev, bus>>
      /\ hist' = [hist EXCEPT !.fresh = {}, !.moved = TRUE]
      BY DEF Move, CanFault
<1>3. /\ servers' \in Seq(ServerInfos(Len(cfg.devices))) /\ Len(servers') = Len(servers)
  <2>1. servers \in Seq(ServerInfos(Len(cfg.devices))) /\ Devices = 1..Len(cfg.devices)
        BY DevicesKept, ConfigParts
  <2>2. PICK v : v = [servers[s] EXCEPT !.bus = d]
        OBVIOUS
  <2>3. v \in ServerInfos(Len(cfg.devices))
    <3>1. servers[s] \in ServerInfos(Len(cfg.devices))
          BY <2>1
    <3>2. QED  BY <2>1, <2>2, <3>1 DEF ServerInfos
  <2>4. servers' = [servers EXCEPT ![s] = v]
        BY <1>1, <2>2
  <2>5. QED  BY <2>1, <2>3, <2>4
<1>4. RouterOK(router') /\ ControlInv'
      BY <1>2, SpendOK
<1>5. QED  BY <1>2, <1>3, <1>4, DevicesKept, TypesKept

LEMMA TypesInit ==
    ASSUME Init
    PROVE  TypesInv /\ ControlInv
<1>1. cfg \in Scenarios /\ servers = cfg.servers
      BY DEF Init
<1>2. DOMAIN hist = {"executed", "fresh", "moved"}
      BY DEF Init
<1>3. DevicesOK(dev) /\ \A d \in Devices : dev[d].pc = "idle"
  <2>1. PICK e \in Seq(Reply) : e = <<>> /\ Len(e) = 0
    <3>1. \A S : <<>> \in Seq(S) /\ Len(<<>>) = 0
          OBVIOUS
    <3>2. QED  BY <3>1
  <2>2. dev = [d \in Devices |->
                  [pc |-> "idle", rx |-> e, pending |-> 0, flush |-> FALSE, recover |-> FALSE]]
        BY <2>1 DEF Init, IdleDevice
  <2>3. QED  BY <2>1, <2>2 DEF DevicesOK, DeviceStates
<1>4. bus \in [Devices -> SUBSET Reply]
      BY DEF Init
<1>5. servers \in Seq(ServerInfos(Len(cfg.devices)))
      BY <1>1, ConfigParts
<1>6. RouterOK(router)
  <2>1. /\ cfg.maxOps \in Nat /\ cfg.maxFaults \in Nat /\ \A a \in DOMAIN cfg.routes : cfg.routes[a] \in Devices
        BY <1>1, ConfigParts
  <2>2. /\ NoWork \in [Devices -> Seq(Txns)] /\ InOrder \in Seq(Devices)
        /\ [d \in Devices |-> NoGroup] \in [Devices -> Groups]
        BY <1>1, DefaultsType
  <2>3. PICK e \in Seq(Requests(Len(cfg.devices))) : e = <<>> /\ Len(e) = 0
    <3>1. \A S : <<>> \in Seq(S) /\ Len(<<>>) = 0
          OBVIOUS
    <3>2. QED  BY <3>1
  <2>4. router = [pc |-> "idle", n |-> 0, op |-> "none", requests |-> e, i |-> 1,
                 groups |-> [d \in Devices |-> NoGroup], work |-> NoWork, order |-> InOrder, failed |-> FALSE,
                 result |-> "none", responses |-> [i \in {0} |-> {}], routes |-> cfg.routes,
                 found |-> {}, spent |-> 0]
        BY <2>3 DEF Init
  <2> HIDE DEF NoWork, InOrder
  <2>5. router.responses = [i \in {0} |-> {}] /\ 0..0 = {0}
        BY <2>4
  <2>6. DOMAIN router.responses = 0..Len(router.requests)
        BY <2>3, <2>4
  <2>7. QED  BY <2>1, <2>2, <2>3, <2>4, <2>5, <2>6 DEF RouterOK, RouterFields, Operations, Results
<1>7. TypesInv
      BY <1>1, <1>2, <1>3, <1>4, <1>5, <1>6 DEF TypesInv
<1>8. QED  BY <1>3, <1>7 DEF ControlInv

LEMMA TypesNext ==
    ASSUME TypesInv, ControlInv, [Next]_vars
    PROVE  TypesInv' /\ ControlInv'
<1>1. CASE UNCHANGED vars
  <2>1. UNCHANGED <<cfg, servers, router, dev, bus, hist>>
        BY <1>1 DEF vars
  <2>2. TypesInv'
        BY <2>1, DevicesKept, TypesKept
  <2>3. QED  BY <2>1, <2>2, SameControl
<1>2. CASE Application
      BY <1>2, CycleTypes, DiscoverTypes, ReadTypes, FlushReadTypes, ClearTypes, CancelTypes
      DEF Application
<1>3. CASE \E d \in Devices : DeviceStep(d)
      BY <1>3, SendTypes, WaitOkTypes, OkFailsTypes, CompleteTypes, TimeoutTypes DEF DeviceStep
<1>4. CASE Resolve \/ Execute \/ StartProbe \/ FlushAll \/ AskInTurn \/ AskInParallel
              \/ ProbeEnd \/ DiscoverEnd \/ RunEnd
      BY <1>4, ResolveTypes, ExecuteTypes, StartProbeTypes, FlushAllTypes, AskInTurnTypes,
         AskInParallelTypes, ProbeEndTypes, EndTypes
<1>5. CASE \E d \in Devices : Deliver(d)
      BY <1>5, DeliverTypes
<1>6. CASE Disturbance
      BY <1>6, LoseTypes, StrangerTypes, MoveTypes DEF Disturbance
<1>7. QED  BY <1>1, <1>2, <1>3, <1>4, <1>5, <1>6 DEF Next, RouterStep

\* The router, its devices and the buses are always what their types say, and
\* every device that is at a transaction has one.
THEOREM TypeCorrect == Spec => []TypeOK
<1>1. Init => TypesInv /\ ControlInv
      BY TypesInit
<1>2. TypesInv /\ ControlInv /\ [Next]_vars => TypesInv' /\ ControlInv'
      BY TypesNext
<1>3. TypesInv /\ ControlInv => TypeOK
  <2> SUFFICES ASSUME TypesInv, ControlInv
               PROVE  TypeOK
      OBVIOUS
  <2>1. /\ router.pc \in {"idle", "resolve", "flush", "ask", "probe", "run"}
        /\ router.n \in 0..cfg.maxOps /\ router.spent \in 0..cfg.maxFaults
        /\ router.i \in 1..(Len(router.requests) + 1)
        /\ DOMAIN router.responses = 0..Len(router.requests)
        /\ \A a \in DOMAIN router.routes : router.routes[a] \in Devices
        BY DevicesKept DEF RouterOK
  <2>2. ASSUME NEW d \in Devices
        PROVE  /\ dev[d].pc \in {"idle", "ok", "receive"}
               /\ dev[d].pc # "idle" => router.work[d] # <<>>
               /\ dev[d].rx \in Seq(Reply) /\ dev[d].pending \in 0..Len(dev[d].rx)
               /\ bus[d] \subseteq Reply
    <3>1. dev[d] \in DeviceStates /\ dev[d].pending <= Len(dev[d].rx) /\ bus[d] \in SUBSET Reply
          BY DevicesKept DEF DevicesOK
    <3>2. /\ dev[d].pc \in {"idle", "ok", "receive"} /\ dev[d].rx \in Seq(Reply)
          /\ dev[d].pending \in Nat
          BY <3>1 DEF DeviceStates
    <3>3. dev[d].pc # "idle" => router.work[d] # <<>>
          BY DEF ControlInv
    <3>4. QED  BY <3>1, <3>2, <3>3
  <2>3. QED  BY <2>1, <2>2 DEF TypeOK
<1>4. QED  BY <1>1, <1>2, <1>3, PTL DEF Spec

(***************************************************************************)
(* Where requests, answers and routes are                                  *)
(***************************************************************************)

\* The entries of transactions and of what is gathered for them.
InTxns(ts) == UNION {Range(t.entries) : t \in Range(ts)}
InGroup(group) == Range(group.broadcast_with_reply) \cup Range(group.other)

\* What is put into groups and work: requests of the operation, on the way to
\* the bus they are meant for, or probes.
Asked(e) == e.req \in 1..Len(router.requests) /\ e.request = router.requests[e.req]
Placed(d, e) == e.child # None => Info(e.child).parent = d
ProbeEntry(d, e) ==
    /\ e.req = 0 /\ e.child = None
    /\ IF cfg.async THEN e.request = receive_only(Probe.expected)
       ELSE e.request = Probe /\ d \in BroadcastTargets

GroupsInv ==
    \A d \in Devices :
        /\ \A e \in InGroup(router.groups[d]) : Asked(e) /\ Placed(d, e)
        /\ \A e \in Range(router.groups[d].broadcast_with_reply) : BroadcastQuery(e.request)
WorkInv ==
    \A d \in Devices :
        /\ router.pc = "probe" => \A e \in InTxns(router.work[d]) : ProbeEntry(d, e)
        /\ router.pc = "run" =>
              /\ \A e \in InTxns(router.work[d]) : Asked(e) /\ Placed(d, e)
              /\ \A t \in Range(router.work[d]) : t.bwr =>
                     \A e \in Range(t.entries) : BroadcastQuery(e.request)

\* Nothing is executed before every address is known.
QuietInv ==
    /\ router.pc # "idle" => router.result = "none"
    /\ (router.pc \in {"resolve", "flush", "ask", "probe"} \/ router.result \in {"not found", "ambiguous"})
          => hist.executed = {}

\* Until a controller moves, routes are the application's or found by probing.
RoutesInv ==
    ~hist.moved =>
        /\ servers = cfg.servers
        /\ \A a \in DOMAIN router.routes :
              a \in hist.fresh \/ (a \in DOMAIN cfg.routes /\ router.routes[a] = cfg.routes[a])

\* A controller that answers to an address is on bus d.
FoundAt(a, d) ==
    /\ d \in BroadcastTargets
    /\ \E s \in DOMAIN servers :
          servers[s].bus = d /\ Accepts(servers[s], [dest |-> a.id, mask |-> a.uuid, asks |-> "mode"])
FreshInv ==
    ProbesConclusive => \A a \in hist.fresh \cap DOMAIN router.routes : FoundAt(a, router.routes[a])

\* The address that is being probed for is in no table.
Seeking == router.pc \in {"flush", "ask", "probe"} /\ router.op # "discover"
SoughtInv ==
    /\ Seeking => Unknown(Sought)
    /\ CanIdsOnly => \A i \in 1..Len(router.requests) : router.requests[i].address.uuid = <<>>

\* Where answers come from.
Arrived(d) == bus[d] \cup Range(dev[d].rx)
HonestInv == \A d \in Devices : \A r \in Arrived(d) : r.source = servers[r.server].id
NearInv ==
    ~hist.moved => \A d \in Devices : \A r \in Arrived(d) :
        servers[r.server].bus = d \/ Info(servers[r.server].bus).parent = d
CleanInv ==
    (Adapters /\ Seeking /\ router.pc # "flush") => \A d \in Devices : \A r \in Arrived(d) :
        /\ servers[r.server].bus = d
        /\ "stranger" \notin cfg.faults =>
              d \in BroadcastTargets /\ Accepts(servers[r.server], Probe.frame)
FoundInv ==
    (ProbesConclusive /\ Seeking /\ router.pc = "probe") => \A r \in router.responses[0] :
        r.frame.source # Broadcast =>
            /\ r.channel \in BroadcastTargets /\ servers[r.frame.server].bus = r.channel
            /\ Accepts(servers[r.frame.server], Probe.frame)

\* Routes of the application: if some bus that is probed has a controller of the
\* address, so has the one that is named.
GivenRoutesHold ==
    \A a \in DOMAIN cfg.routes :
        \/ FoundAt(a, cfg.routes[a])
        \/ ~\E d \in Devices : FoundAt(a, d)

\* The requests that need not be executed.
Excused(i) ==
    LET request == router.requests[i]
    IN \/ request.frame = NoFrame
       \/ BroadcastQuery(request) /\ ~cfg.async /\ router.spent > 0
       \/ ~IsTrueBroadcast(request) /\ Cardinality({servers[s].bus : s \in Wanted(request)}) > 1

\* What a device has yet to send.
ToSend(d) == InTxns(IF dev[d].pc = "idle" THEN router.work[d] ELSE Tail(router.work[d]))

\* An entry takes request i to the bus of controller s.
Reaches(e, i, s, d) == e.req = i /\ BusOf(d, e) = servers[s].bus
Planned(i, s) == \E d \in Devices : \E e \in InGroup(router.groups[d]) : Reaches(e, i, s, d)
Due(i, s) == \E d \in Devices : \E e \in ToSend(d) : Reaches(e, i, s, d)
Executed(i, s) == <<router.n, i, s>> \in hist.executed

Commanding == router.op \in {"cycle", "write"} /\ ~hist.moved /\ ProbesConclusive /\ GivenRoutesHold
Needed(i) == IF Excused(i) THEN {} ELSE Wanted(router.requests[i])
ExecInv ==
    Commanding =>
        /\ (router.pc \in {"resolve", "flush", "ask", "probe"}) =>
              \A i \in 1..(router.i - 1) : \A s \in Needed(i) : Planned(i, s)
        /\ (router.pc = "run" /\ ~router.failed) =>
              \A i \in 1..Len(router.requests) : \A s \in Needed(i) : Executed(i, s) \/ Due(i, s)
        /\ (router.pc = "idle" /\ router.result = "ok") =>
              \A i \in 1..Len(router.requests) : \A s \in Needed(i) : Executed(i, s)

(***************************************************************************)
(* What sequences contain                                                  *)
(***************************************************************************)

LEMMA RangeParts ==
    ASSUME NEW S, NEW s \in Seq(S)
    PROVE  /\ Range(s) \subseteq S /\ Range(<<>>) = {}
           /\ \A x : Range(<<x>>) = {x}
           /\ \A x \in S : Range(Append(s, x)) = Range(s) \cup {x}
           /\ \A n \in 0..Len(s) : /\ Range(SubSeq(s, n + 1, Len(s))) \subseteq Range(s)
                                   /\ Range(SubSeq(s, 1, n)) \subseteq Range(s)
           /\ \A n \in 1..Len(s) : Range(RemoveAt(s, n)) \subseteq Range(s)
           /\ \A t \in Seq(S) : Range(s \o t) = Range(s) \cup Range(t)
           /\ s # <<>> => Head(s) \in S /\ Tail(s) \in Seq(S) /\ Range(s) = {Head(s)} \cup Range(Tail(s))
<1>1. Len(s) \in Nat /\ DOMAIN s = 1..Len(s) /\ Range(s) = {s[i] : i \in 1..Len(s)}
      BY DEF Range
<1>2. Range(s) \subseteq S /\ Range(<<>>) = {}
      BY <1>1 DEF Range
<1>3. \A x : Range(<<x>>) = {x}
      BY DEF Range
<1>4. ASSUME NEW t \in Seq(S)
      PROVE  Range(s \o t) = Range(s) \cup Range(t)
  <2>1. Range(t) = {t[i] : i \in 1..Len(t)} /\ Len(t) \in Nat
        BY DEF Range
  <2>2. /\ DOMAIN (s \o t) = 1..(Len(s) + Len(t))
        /\ \A i \in 1..Len(s) : (s \o t)[i] = s[i]
        /\ \A i \in (Len(s) + 1)..(Len(s) + Len(t)) : (s \o t)[i] = t[i - Len(s)]
        BY <1>1, <2>1
  <2> DEFINE u == s \o t
  <2> HIDE DEF u
  <2>3. Range(u) = {u[i] : i \in 1..(Len(s) + Len(t))}
        BY <2>2 DEF Range, u
  <2>4. Range(u) \subseteq Range(s) \cup Range(t)
    <3>1. ASSUME NEW i \in 1..(Len(s) + Len(t))
          PROVE  u[i] \in Range(s) \cup Range(t)
      <4>1. CASE i \in 1..Len(s)
            BY <1>1, <2>2, <4>1 DEF u
      <4>2. CASE i \in (Len(s) + 1)..(Len(s) + Len(t))
        <5>1. i - Len(s) \in 1..Len(t)
              BY <1>1, <2>1, <4>2
        <5>2. QED  BY <2>1, <2>2, <4>2, <5>1 DEF u
      <4>3. QED  BY <1>1, <2>1, <4>1, <4>2
    <3>2. QED  BY <2>3, <3>1
  <2>5. Range(s) \subseteq Range(u)
    <3>1. \A i \in 1..Len(s) : i \in 1..(Len(s) + Len(t)) /\ u[i] = s[i]
          BY <1>1, <2>1, <2>2 DEF u
    <3>2. QED  BY <1>1, <2>3, <3>1
  <2>6. Range(t) \subseteq Range(u)
    <3>1. ASSUME NEW i \in 1..Len(t)
          PROVE  t[i] \in Range(u)
      <4>1. i + Len(s) \in (Len(s) + 1)..(Len(s) + Len(t)) /\ (i + Len(s)) - Len(s) = i
            /\ i + Len(s) \in 1..(Len(s) + Len(t))
            BY <1>1, <2>1
      <4>2. u[i + Len(s)] = t[i]
            BY <2>2, <4>1 DEF u
      <4>3. QED  BY <2>3, <4>1, <4>2
    <3>2. QED  BY <2>1, <3>1
  <2>7. QED  BY <2>4, <2>5, <2>6 DEF u
<1>5. \A x \in S : Range(Append(s, x)) = Range(s) \cup {x}
  <2>1. ASSUME NEW x \in S
        PROVE  Range(Append(s, x)) = Range(s) \cup {x}
    <3>1. Append(s, x) = s \o <<x>> /\ <<x>> \in Seq(S)
          OBVIOUS
    <3>2. Range(s \o <<x>>) = Range(s) \cup Range(<<x>>)
          BY <1>4, <3>1
    <3>3. QED  BY <1>3, <3>1, <3>2
  <2>2. QED  BY <2>1
<1>6. ASSUME NEW n \in 0..Len(s)
      PROVE  /\ Range(SubSeq(s, n + 1, Len(s))) \subseteq Range(s)
             /\ Range(SubSeq(s, 1, n)) \subseteq Range(s)
  <2> DEFINE t == SubSeq(s, 1, n)
             u == SubSeq(s, n + 1, Len(s))
  <2>1. DOMAIN t = 1..n /\ \A i \in 1..n : t[i] = s[i]
        BY <1>1
  <2>2. DOMAIN u = 1..(Len(s) - n) /\ \A i \in 1..(Len(s) - n) : u[i] = s[i + n]
        BY <1>1
  <2> HIDE DEF t, u
  <2>3. Range(t) \subseteq Range(s)
    <3>1. \A i \in 1..n : t[i] \in Range(s)
          BY <1>1, <2>1
    <3>2. QED  BY <2>1, <3>1 DEF Range
  <2>4. Range(u) \subseteq Range(s)
    <3>1. \A i \in 1..(Len(s) - n) : u[i] \in Range(s)
          BY <1>1, <2>2
    <3>2. QED  BY <2>2, <3>1 DEF Range
  <2>5. QED  BY <2>3, <2>4 DEF t, u
<1>7. ASSUME NEW n \in 1..Len(s)
      PROVE  Range(RemoveAt(s, n)) \subseteq Range(s)
  <2> DEFINE t == SubSeq(s, 1, n - 1)
             u == SubSeq(s, n + 1, Len(s))
  <2>1. n - 1 \in 0..Len(s) /\ n \in 0..Len(s)
        BY <1>1
  <2>2. t \in Seq(S) /\ u \in Seq(S) /\ Range(t) \subseteq Range(s) /\ Range(u) \subseteq Range(s)
        BY <1>6, <2>1, SequencesOfReplies
  <2>3. \A v, w \in Seq(S) : Range(v \o w) \subseteq Range(v) \cup Range(w)
    <3>1. ASSUME NEW v \in Seq(S), NEW w \in Seq(S)
          PROVE  Range(v \o w) \subseteq Range(v) \cup Range(w)
      <4>1. ASSUME NEW i \in 1..(Len(v) + Len(w))
            PROVE  (v \o w)[i] \in Range(v) \cup Range(w)
        <5>1. CASE i \in 1..Len(v)
              BY <5>1 DEF Range
        <5>2. CASE i \notin 1..Len(v)
          <6>1. (v \o w)[i] = w[i - Len(v)] /\ i - Len(v) \in 1..Len(w)
                BY <5>2
          <6>2. QED  BY <6>1 DEF Range
        <5>3. QED  BY <5>1, <5>2
      <4>2. DOMAIN (v \o w) = 1..(Len(v) + Len(w))
            OBVIOUS
      <4>3. QED  BY <4>1, <4>2 DEF Range
    <3>2. QED  BY <3>1
  <2>4. Range(t \o u) \subseteq Range(s)
    <3> HIDE DEF t, u
    <3> QED  BY <2>2, <2>3
  <2>5. QED  BY <2>4 DEF RemoveAt
<1>8. ASSUME s # <<>>
      PROVE  Head(s) \in S /\ Tail(s) \in Seq(S) /\ Range(s) = {Head(s)} \cup Range(Tail(s))
  <2>1. Head(s) = s[1] /\ Head(s) \in S /\ Tail(s) \in Seq(S) /\ Len(s) \in Nat \ {0}
        BY <1>8
  <2>2. DOMAIN Tail(s) = 1..(Len(s) - 1) /\ \A i \in 1..(Len(s) - 1) : Tail(s)[i] = s[i + 1]
        BY <1>8
  <2> DEFINE t == Tail(s)
  <2> HIDE DEF t
  <2>3. Range(t) = {t[i] : i \in 1..(Len(s) - 1)}
        BY <2>2 DEF Range, t
  <2>4. \A i \in 1..(Len(s) - 1) : t[i] = s[i + 1] /\ i + 1 \in 1..Len(s)
        BY <2>1, <2>2 DEF t
  <2>5. Range(t) \subseteq Range(s) /\ s[1] \in Range(s)
        BY <1>1, <2>1, <2>3, <2>4
  <2>6. \A i \in 1..Len(s) : s[i] = s[1] \/ s[i] \in Range(t)
    <3>1. ASSUME NEW i \in 1..Len(s), i # 1
          PROVE  s[i] \in Range(t)
      <4>1. i - 1 \in 1..(Len(s) - 1) /\ (i - 1) + 1 = i
            BY <2>1, <3>1
      <4>2. QED  BY <2>3, <2>4, <4>1
    <3>2. QED  BY <3>1
  <2>7. Range(s) = {s[1]} \cup Range(t)
        BY <1>1, <2>5, <2>6
  <2>8. QED  BY <2>1, <2>7 DEF t
<1>9. QED  BY <1>2, <1>3, <1>4, <1>5, <1>6, <1>7, <1>8

(***************************************************************************)
(* What steps change                                                       *)
(***************************************************************************)

\* A call that makes no transactions: r is the router after it.
LEMMA CalledFields ==
    ASSUME TypesInv, NEW op
    PROVE  /\ DOMAIN Called(op) = RouterFields
           /\ Called(op).pc = router.pc /\ Called(op).op = op /\ Called(op).requests = <<>>
           /\ Called(op).i = 1 /\ Called(op).groups = [d \in Devices |-> NoGroup]
           /\ Called(op).routes = router.routes /\ Called(op).result = "ok"
<1>1. PICK r : r = Started(op, <<>>)
      OBVIOUS
<1>3. /\ DOMAIN r = RouterFields /\ r.pc = router.pc /\ r.op = op /\ r.requests = <<>>
      /\ r.i = 1 /\ r.groups = [d \in Devices |-> NoGroup] /\ r.routes = router.routes
  <2>0. DOMAIN router = RouterFields
        BY DevicesKept DEF RouterOK
  <2>1. PICK none : none = <<>>
        OBVIOUS
  <2>2. r = Started(op, none)
        BY <1>1, <2>1
  <2>3. /\ DOMAIN r = RouterFields /\ r.pc = router.pc /\ r.n = router.n + 1 /\ r.op = op
        /\ r.requests = none /\ r.i = 1 /\ r.groups = [d \in Devices |-> NoGroup]
        /\ r.work = NoWork /\ r.order = InOrder /\ r.failed = FALSE /\ r.result = "none"
        /\ r.responses = [i \in 0..Len(none) |-> {}] /\ r.routes = router.routes
        /\ r.found = {} /\ r.spent = router.spent
        BY <2>0, <2>2 DEF Started, RouterFields
  <2>4. r.groups = [d \in Devices |-> NoGroup]
        BY <2>3, Zenon
  <2>5. r.requests = <<>>
        BY ONLY <2>1, <2>3
  <2>6. QED  BY <2>3, <2>4, <2>5, Zenon
<1>4. PICK q : q = [r EXCEPT !.result = "ok"]
      OBVIOUS
<1>5. /\ DOMAIN q = RouterFields /\ q.pc = router.pc /\ q.op = op /\ q.requests = <<>>
      /\ q.i = 1 /\ q.groups = [d \in Devices |-> NoGroup] /\ q.routes = router.routes
      /\ q.result = "ok"
      BY ONLY <1>3, <1>4 DEF RouterFields
<1>6. q = Called(op)
      BY ONLY <1>1, <1>4 DEF Called
<1>7. QED  BY ONLY <1>5, <1>6

Starting == Cycle \/ Discover \/ read \/ flush_read \/ clear_routes

\* An operation starts afresh.
Fresh ==
    /\ router.pc = "idle" /\ cfg' = cfg /\ servers' = servers
    /\ router'.groups = [d \in Devices |-> NoGroup] /\ router'.i = 1
    /\ \/ router'.routes = router.routes /\ hist'.fresh = hist.fresh
       \/ router'.routes = <<>> /\ hist'.fresh = {}
    /\ hist'.executed = {} /\ hist'.moved = hist.moved
    /\ router'.result \in {"none", "ok"} /\ (router'.pc # "idle" => router'.result = "none")
    /\ router'.pc = "flush" => router'.op = "discover"
    /\ router'.pc \in {"idle", "flush", "resolve", "run"}
    /\ router'.pc = "idle" => router'.op \notin {"cycle", "write"}
    /\ router'.pc = "run" => Cycle
    /\ \A i \in 1..Len(router'.requests) : \E call \in cfg.calls : \E j \in DOMAIN call.requests :
           router'.requests[i] = call.requests[j]
    /\ \A d \in Devices : Arrived(d)' \subseteq Arrived(d)

LEMMA CycleFresh ==
    ASSUME TypesInv, Cycle
    PROVE  Fresh
<1>1. PICK call \in cfg.calls :
       LET r == Started(call.op, call.requests)
           whole == [NoGroup EXCEPT !.other =
                        [i \in DOMAIN call.requests |-> Entry(i, call.requests[i], None)]]
       IN Begin(IF Len(cfg.devices) = 1 /\ call.op = "cycle"
                THEN [r EXCEPT !.pc = "run", !.work = <<Transactions(whole)>>]
                ELSE [r EXCEPT !.pc = "resolve"])
      BY DEF Cycle
<1>2. PICK r : r = Started(call.op, call.requests)
      OBVIOUS
<1>3. /\ DOMAIN r = RouterFields /\ r.requests = call.requests
      /\ r.i = 1 /\ r.groups = [d \in Devices |-> NoGroup] /\ r.routes = router.routes /\ r.result = "none"
  <2>0. DOMAIN router = RouterFields
        BY DevicesKept DEF RouterOK
  <2>1. PICK op, requests : op = call.op /\ requests = call.requests
        OBVIOUS
  <2>2. r = Started(op, requests)
        BY <1>2, <2>1
  <2>3. /\ DOMAIN r = RouterFields /\ r.pc = router.pc /\ r.n = router.n + 1 /\ r.op = op
        /\ r.requests = requests /\ r.i = 1 /\ r.groups = [d \in Devices |-> NoGroup]
        /\ r.work = NoWork /\ r.order = InOrder /\ r.failed = FALSE /\ r.result = "none"
        /\ r.responses = [i \in 0..Len(requests) |-> {}] /\ r.routes = router.routes
        /\ r.found = {} /\ r.spent = router.spent
        BY <2>0, <2>2 DEF Started, RouterFields
  <2>4. r.groups = [d \in Devices |-> NoGroup]
        BY <2>3, Zenon
  <2>5. r.requests = call.requests
        BY ONLY <2>1, <2>3
  <2>6. QED  BY <2>3, <2>4, <2>5, Zenon
<1>4. \/ \E w : router' = [r EXCEPT !.pc = "run", !.work = w]
      \/ router' = [r EXCEPT !.pc = "resolve"]
      BY <1>1, <1>2, Zenon DEF Begin
<1>5. /\ router'.requests = call.requests /\ router'.i = 1
      /\ router'.groups = [d \in Devices |-> NoGroup] /\ router'.routes = router.routes
      /\ router'.result = "none" /\ router'.pc \in {"resolve", "run"}
      BY ONLY <1>3, <1>4 DEF RouterFields
<1>6. hist' = [hist EXCEPT !.executed = {}]
      BY <1>1 DEF Begin
<1>7. hist'.executed = {} /\ hist'.fresh = hist.fresh /\ hist'.moved = hist.moved
      BY <1>6, DevicesKept
<1>8. router.pc = "idle" /\ cfg' = cfg /\ servers' = servers /\ dev' = dev /\ bus' = bus
      BY DEF Cycle, CanStart
<1>9. \A i \in 1..Len(router'.requests) : \E j \in DOMAIN call.requests :
          router'.requests[i] = call.requests[j]
  <2>1. call.requests \in Seq(Requests(Len(cfg.devices)))
        BY DevicesKept, ConfigParts
  <2>2. DOMAIN call.requests = 1..Len(call.requests)
        BY <2>1
  <2>3. QED  BY <1>5, <2>2
<1>10. \A d \in Devices : Arrived(d)' \subseteq Arrived(d)
      BY <1>8 DEF Arrived
<1>11. QED  BY <1>5, <1>7, <1>8, <1>9, <1>10 DEF Fresh

\* Flushing leaves nothing that had not arrived.
LEMMA FlushedArrived ==
    ASSUME TypesInv, NEW ds, Flushed(ds)
    PROVE  /\ \A d \in Devices : Arrived(d)' \subseteq Arrived(d)
           /\ \A d \in ds \cap Devices : (\A e \in ds : Fd(e) \/ bus[e] = {}) => Arrived(d)' = {}
<1>1. dev' = [d \in Devices |-> IF d \notin ds THEN dev[d]
                ELSE [dev[d] EXCEPT !.rx = <<>>, !.pending = 0, !.flush = FALSE]]
      BY DEF Flushed
<1>2. PICK late \in SUBSET UNION {bus[d] : d \in {d \in ds : ~Fd(d)}} :
          bus' = [d \in Devices |-> IF d \in ds THEN bus[d] \cap late ELSE bus[d]]
      BY DEF Flushed
<1>3. dev \in [Devices -> DeviceStates] /\ Range(<<>>) = {}
      BY DevicesKept DEF DevicesOK, Range
<1>4. ASSUME NEW d \in Devices, d \in ds
      PROVE  dev'[d].rx = <<>>
  <2>1. dev'[d] = [dev[d] EXCEPT !.rx = <<>>, !.pending = 0, !.flush = FALSE] /\ dev[d] \in DeviceStates
        BY <1>1, <1>3, <1>4
  <2>2. QED  BY ONLY <2>1 DEF DeviceStates
<1>5. ASSUME NEW d \in Devices
      PROVE  Arrived(d)' \subseteq Arrived(d)
  <2>1. bus'[d] \subseteq bus[d]
        BY <1>2
  <2>2. Range(dev'[d].rx) \subseteq Range(dev[d].rx)
    <3>1. CASE d \in ds
          BY <1>3, <1>4, <3>1
    <3>2. CASE d \notin ds
          BY <1>1, <3>2
    <3>3. QED  BY <3>1, <3>2
  <2>3. QED  BY <2>1, <2>2 DEF Arrived
<1>6. ASSUME NEW d \in ds \cap Devices, \A e \in ds : Fd(e) \/ bus[e] = {}
      PROVE  Arrived(d)' = {}
  <2>1. late = {}
        BY <1>2, <1>6
  <2>2. bus'[d] = {}
        BY <1>2, <2>1
  <2>3. QED  BY <1>3, <1>4, <2>2 DEF Arrived
<1>7. QED  BY <1>5, <1>6

\* Each call starts afresh.
LEMMA DiscoverFresh ==
    ASSUME TypesInv, Discover
    PROVE  Fresh
<1>1. /\ CanStart /\ cfg' = cfg /\ servers' = servers /\ dev' = dev /\ bus' = bus
      /\ router' = [Started("discover", <<>>) EXCEPT !.pc = "flush"]
      /\ hist' = [hist EXCEPT !.executed = {}]
      BY DEF Discover, Begin
<1>2. PICK none, op : none = <<>> /\ op = "discover"
      OBVIOUS
<1>3. PICK r : r = Started(op, none)
      OBVIOUS
<1>4. /\ DOMAIN r = RouterFields /\ r.requests = none /\ r.i = 1 /\ r.op = op
      /\ r.groups = [d \in Devices |-> NoGroup] /\ r.routes = router.routes /\ r.result = "none"
  <2>1. DOMAIN router = RouterFields
        BY DevicesKept DEF RouterOK
  <2>2. QED  BY <2>1, <1>3 DEF Started, RouterFields
<1>5. PICK q : q = [r EXCEPT !.pc = "flush"]
      OBVIOUS
<1>6. /\ DOMAIN q = RouterFields /\ q.requests = <<>> /\ q.i = 1 /\ q.op = "discover"
      /\ q.groups = [d \in Devices |-> NoGroup] /\ q.routes = router.routes /\ q.result = "none"
      /\ q.pc = "flush"
      BY ONLY <1>2, <1>4, <1>5 DEF RouterFields
<1>7. router' = q
      BY ONLY <1>1, <1>2, <1>3, <1>5
<1>8. \A d \in Devices : Arrived(d)' \subseteq Arrived(d)
      BY <1>1 DEF Arrived
<1>9. hist'.executed = {} /\ hist'.fresh = hist.fresh /\ hist'.moved = hist.moved
      BY <1>1, DevicesKept
<1>10. \A i \in 1..Len(router'.requests) : FALSE
  <2>1. Len(router'.requests) = 0
        BY ONLY <1>6, <1>7
  <2>2. QED  BY ONLY <2>1
<1>11. QED  BY <1>1, <1>6, <1>7, <1>8, <1>9, <1>10 DEF Fresh, CanStart

\* The other calls end at once.
LEMMA CalledFresh ==
    ASSUME TypesInv, CanStart, NEW op \in {"read", "flush"}, router' = Called(op),
           cfg' = cfg, servers' = servers, hist' = [hist EXCEPT !.executed = {}],
           \A d \in Devices : Arrived(d)' \subseteq Arrived(d)
    PROVE  Fresh
<1>1. PICK q : q = Called(op)
      OBVIOUS
<1>2. /\ DOMAIN q = RouterFields
      /\ q.pc = router.pc /\ q.op = op /\ q.requests = <<>>
      /\ q.i = 1 /\ q.groups = [d \in Devices |-> NoGroup]
      /\ q.routes = router.routes /\ q.result = "ok"
      BY <1>1, CalledFields
<1>3. router' = q
      BY <1>1
<1>4. hist'.executed = {} /\ hist'.fresh = hist.fresh /\ hist'.moved = hist.moved
      BY DevicesKept
<1>5. \A i \in 1..Len(router'.requests) : FALSE
  <2>1. Len(router'.requests) = 0
        BY ONLY <1>2, <1>3
  <2>2. QED  BY ONLY <2>1
<1>6. router.pc = "idle" /\ router'.pc = "idle"
      BY <1>2, <1>3 DEF CanStart
<1>7. QED  BY <1>2, <1>3, <1>4, <1>5, <1>6 DEF Fresh

LEMMA ReadFresh ==
    ASSUME TypesInv, read
    PROVE  Fresh
<1>1. /\ CanStart /\ cfg' = cfg /\ servers' = servers /\ bus' = bus
      /\ router' = Called("read") /\ hist' = [hist EXCEPT !.executed = {}]
      BY ZenonT(40) DEF read, Begin
<1>2. PICK d \in ParentIndices :
         /\ dev[d].rx # <<>>
         /\ dev' = [dev EXCEPT
                 ![d].rx = RemoveAt(@, IF dev[d].pending > 0 THEN dev[d].pending ELSE 1),
                 ![d].pending = IF @ > 0 THEN @ - 1 ELSE 0]
      BY ZenonT(40) DEF read
<1>3. dev \in [Devices -> DeviceStates] /\ \A e \in Devices : dev[e].pending <= Len(dev[e].rx)
      BY DevicesKept DEF DevicesOK
<1>4. ASSUME NEW e \in Devices
      PROVE  Range(dev'[e].rx) \subseteq Range(dev[e].rx)
  <2>1. CASE e = d
    <3>1. PICK n : n = IF dev[d].pending > 0 THEN dev[d].pending ELSE 1
          OBVIOUS
    <3>2. dev[d].rx \in Seq(Reply) /\ dev[d].pending \in Nat /\ dev[d].pending <= Len(dev[d].rx)
          /\ dev[d] \in DeviceStates
          BY <1>3, <2>1 DEF DeviceStates
    <3>3. n \in 1..Len(dev[d].rx)
          BY <1>2, <3>1, <3>2
    <3>4. Range(RemoveAt(dev[d].rx, n)) \subseteq Range(dev[d].rx)
          BY <3>2, <3>3, RangeParts
    <3>5. PICK p, x : /\ p = (IF dev[d].pending > 0 THEN dev[d].pending - 1 ELSE 0)
                      /\ x = RemoveAt(dev[d].rx, n)
          OBVIOUS
    <3>6. dev'[d] = [dev[d] EXCEPT !.rx = x, !.pending = p]
          BY <1>2, <1>3, <2>1, <3>1, <3>2, <3>5 DEF DeviceStates
    <3>7. dev'[d].rx = x
          BY ONLY <3>2, <3>6 DEF DeviceStates
    <3>8. QED  BY <2>1, <3>4, <3>5, <3>7
  <2>2. CASE e # d
        BY <1>2, <1>3, <2>2
  <2>3. QED  BY <2>1, <2>2
<1>5. \A e \in Devices : Arrived(e)' \subseteq Arrived(e)
      BY <1>1, <1>4 DEF Arrived
<1>6. PICK op \in {"read", "flush"} : op = "read"
      OBVIOUS
<1>7. QED  BY <1>1, <1>5, <1>6, CalledFresh

LEMMA FlushReadFresh ==
    ASSUME TypesInv, flush_read
    PROVE  Fresh
<1>1. /\ CanStart /\ cfg' = cfg /\ servers' = servers /\ Flushed(ParentIndices)
      /\ router' = Called("flush") /\ hist' = [hist EXCEPT !.executed = {}]
      BY ZenonT(40) DEF flush_read, Begin
<1>2. \A e \in Devices : Arrived(e)' \subseteq Arrived(e)
      BY <1>1, FlushedArrived
<1>3. PICK op \in {"read", "flush"} : op = "flush"
      OBVIOUS
<1>4. QED  BY <1>1, <1>2, <1>3, CalledFresh

LEMMA ClearFresh ==
    ASSUME TypesInv, clear_routes
    PROVE  Fresh
<1>1. /\ CanStart /\ cfg' = cfg /\ servers' = servers /\ dev' = dev /\ bus' = bus
      /\ router' = [Called("clear") EXCEPT !.routes = <<>>]
      /\ hist' = [hist EXCEPT !.fresh = {}, !.executed = {}]
      BY DEF clear_routes
<1>2. PICK op : op = "clear"
      OBVIOUS
<1>3. PICK q : q = Called(op)
      OBVIOUS
<1>4. /\ DOMAIN q = RouterFields
      /\ q.pc = router.pc /\ q.op = op /\ q.requests = <<>>
      /\ q.i = 1 /\ q.groups = [d \in Devices |-> NoGroup]
      /\ q.routes = router.routes /\ q.result = "ok"
      BY <1>3, CalledFields
<1>5. router' = [q EXCEPT !.routes = <<>>]
      BY ONLY <1>1, <1>2, <1>3
<1>6. /\ router'.pc = router.pc /\ router'.op = "clear" /\ router'.requests = <<>>
      /\ router'.i = 1 /\ router'.groups = [d \in Devices |-> NoGroup]
      /\ router'.routes = <<>> /\ router'.result = "ok"
      BY ONLY <1>2, <1>4, <1>5 DEF RouterFields
<1>7. hist'.executed = {} /\ hist'.fresh = {} /\ hist'.moved = hist.moved
      BY <1>1, DevicesKept
<1>8. \A i \in 1..Len(router'.requests) : FALSE
  <2>1. Len(router'.requests) = 0
        BY ONLY <1>6
  <2>2. QED  BY ONLY <2>1
<1>9. router.pc = "idle" /\ router'.pc = "idle"
      BY <1>1, <1>6 DEF CanStart
<1>10. \A d \in Devices : Arrived(d)' \subseteq Arrived(d)
      BY <1>1 DEF Arrived
<1>11. QED  BY <1>1, <1>6, <1>7, <1>8, <1>9, <1>10 DEF Fresh

LEMMA StartsFresh ==
    ASSUME TypesInv, Starting
    PROVE  Fresh
  BY CycleFresh, DiscoverFresh, ReadFresh, FlushReadFresh, ClearFresh DEF Starting

\* The call goes on, with the requests it has; with the plan it has; the routes
\* stay.
SameCall ==
    /\ cfg' = cfg /\ router'.n = router.n /\ router'.op = router.op
    /\ router'.requests = router.requests /\ router'.spent >= router.spent
SamePlan ==
    /\ SameCall /\ servers' = servers /\ hist'.moved = hist.moved
    /\ router'.i = router.i /\ router'.groups = router.groups
SameRoutes == router'.routes = router.routes /\ hist'.fresh = hist.fresh

\* A step of the router that is no more than a change of these fields.
LEMMA PlanKept ==
    ASSUME TypesInv, NEW r, router' = r, cfg' = cfg, servers' = servers,
           hist'.moved = hist.moved, hist'.fresh = hist.fresh,
           r.n = router.n, r.op = router.op, r.requests = router.requests,
           r.spent = router.spent \/ r.spent = router.spent + 1,
           r.i = router.i, r.groups = router.groups, r.routes = router.routes
    PROVE  SamePlan /\ SameRoutes
<1>1. router.spent \in Nat
  <2>1. router.spent \in 0..cfg.maxFaults
        BY DevicesKept DEF RouterOK
  <2>2. QED  BY <2>1
<1>2. r.spent >= router.spent
      BY <1>1
<1>3. QED  BY <1>2 DEF SamePlan, SameCall, SameRoutes

LEMMA ResolveParts ==
    ASSUME TypesInv, Resolve
    PROVE  /\ SameCall /\ SameRoutes /\ servers' = servers /\ hist' = hist /\ dev' = dev /\ bus' = bus
           /\ router.pc = "resolve" /\ router'.pc = "resolve" /\ router'.result = router.result
           /\ router'.failed = router.failed /\ router.i \in 1..Len(router.requests)
           /\ ~Unknown(Sought) /\ router'.i = router.i + 1 /\ router'.groups = Grouped(router.i)
<1>1. /\ router.pc = "resolve" /\ router.i <= Len(router.requests) /\ ~Unknown(Sought)
      /\ router' = [router EXCEPT !.i = @ + 1, !.groups = Grouped(router.i)]
      /\ cfg' = cfg /\ servers' = servers /\ hist' = hist /\ dev' = dev /\ bus' = bus
      BY DEF Resolve
<1>2. PICK g, k : g = Grouped(router.i) /\ k = router.i + 1
      OBVIOUS
<1>3. DOMAIN router = RouterFields /\ router.requests \in Seq(Requests(Len(cfg.devices)))
      /\ router.i \in 1..(Len(router.requests) + 1) /\ router.spent \in 0..cfg.maxFaults
      BY DevicesKept DEF RouterOK
<1>4. router' = [router EXCEPT !.i = k, !.groups = g]
      BY ONLY <1>1, <1>2
<1>5. /\ router'.pc = router.pc /\ router'.result = router.result /\ router'.failed = router.failed
      /\ router'.i = k /\ router'.groups = g /\ router'.n = router.n /\ router'.op = router.op
      /\ router'.requests = router.requests /\ router'.spent = router.spent
      /\ router'.routes = router.routes
      BY ONLY <1>3, <1>4 DEF RouterFields
<1>6. router.i \in 1..Len(router.requests) /\ router.spent >= router.spent
      BY <1>1, <1>3
<1>7. QED  BY <1>1, <1>2, <1>5, <1>6 DEF SameCall, SameRoutes

LEMMA ExecuteParts ==
    ASSUME TypesInv, Execute
    PROVE  /\ SamePlan /\ SameRoutes /\ hist' = hist /\ dev' = dev /\ bus' = bus
           /\ router.pc = "resolve" /\ router.i > Len(router.requests) /\ router'.pc = "run"
           /\ router'.work = [d \in Devices |-> Transactions(router.groups[d])]
           /\ router'.result = router.result /\ router'.failed = router.failed
<1>1. /\ router.pc = "resolve" /\ router.i > Len(router.requests)
      /\ cfg' = cfg /\ servers' = servers /\ hist' = hist /\ dev' = dev /\ bus' = bus
      /\ \E order : router' = [router EXCEPT !.pc = "run", !.order = order,
              !.work = [d \in Devices |-> Transactions(router.groups[d])]]
      BY DEF Execute
<1>2. PICK w : w = [d \in Devices |-> Transactions(router.groups[d])]
      OBVIOUS
<1>3. PICK order : router' = [router EXCEPT !.pc = "run", !.order = order, !.work = w]
      BY ONLY <1>1, <1>2
<1>4. DOMAIN router = RouterFields
      BY DevicesKept DEF RouterOK
<1>5. /\ router'.pc = "run" /\ router'.work = w /\ router'.result = router.result
      /\ router'.failed = router.failed /\ router'.n = router.n /\ router'.op = router.op
      /\ router'.requests = router.requests /\ router'.spent = router.spent /\ router'.i = router.i
      /\ router'.groups = router.groups /\ router'.routes = router.routes
      BY ONLY <1>3, <1>4 DEF RouterFields
<1>6. SamePlan /\ SameRoutes
      BY <1>1, <1>5, PlanKept
<1>7. QED  BY <1>1, <1>2, <1>5, <1>6, SMTT(60)

LEMMA StartProbeParts ==
    ASSUME TypesInv, StartProbe
    PROVE  /\ SamePlan /\ SameRoutes /\ hist' = hist /\ dev' = dev /\ bus' = bus
           /\ router.pc = "resolve" /\ router'.pc = "flush" /\ router'.result = router.result
           /\ Unknown(Sought)
<1>1. /\ router.pc = "resolve" /\ Unknown(Sought)
      /\ cfg' = cfg /\ servers' = servers /\ hist' = hist /\ dev' = dev /\ bus' = bus
      /\ router' = [router EXCEPT !.pc = "flush", !.work = NoWork, !.order = InOrder]
      BY DEF StartProbe
<1>2. DOMAIN router = RouterFields
      BY DevicesKept DEF RouterOK
<1>3. /\ router'.pc = "flush" /\ router'.result = router.result
      /\ router'.n = router.n /\ router'.op = router.op
      /\ router'.requests = router.requests /\ router'.spent = router.spent /\ router'.i = router.i
      /\ router'.groups = router.groups /\ router'.routes = router.routes
      BY ONLY <1>1, <1>2 DEF RouterFields
<1>4. SamePlan /\ SameRoutes
      BY <1>1, <1>3, PlanKept
<1>5. QED  BY <1>1, <1>3, <1>4

LEMMA FlushAllParts ==
    ASSUME TypesInv, FlushAll
    PROVE  /\ SamePlan /\ SameRoutes /\ hist' = hist
           /\ router.pc = "flush" /\ router'.pc = "ask" /\ router'.result = router.result
           /\ \A d \in Devices : Arrived(d)' \subseteq Arrived(d)
           /\ Adapters /\ router.op # "discover" => \A d \in Devices : Arrived(d)' = {}
<1>1. /\ router.pc = "flush" /\ router' = [router EXCEPT !.pc = "ask"]
      /\ cfg' = cfg /\ servers' = servers /\ hist' = hist
      /\ Flushed(IF router.op = "discover" THEN ParentIndices ELSE Devices)
      BY DEF FlushAll
<1>2. DOMAIN router = RouterFields
      BY DevicesKept DEF RouterOK
<1>3. /\ router'.pc = "ask" /\ router'.result = router.result
      /\ router'.n = router.n /\ router'.op = router.op
      /\ router'.requests = router.requests /\ router'.spent = router.spent /\ router'.i = router.i
      /\ router'.groups = router.groups /\ router'.routes = router.routes
      BY ONLY <1>1, <1>2 DEF RouterFields
<1>4. SamePlan /\ SameRoutes
      BY <1>1, <1>3, PlanKept
<1>5. PICK ds : /\ ds = (IF router.op = "discover" THEN ParentIndices ELSE Devices)
                /\ Flushed(ds)
      BY <1>1
<1>6. \A d \in Devices : Arrived(d)' \subseteq Arrived(d)
      BY <1>5, FlushedArrived
<1>7. ASSUME Adapters, router.op # "discover"
      PROVE  \A d \in Devices : Arrived(d)' = {}
  <2>1. ds = Devices /\ \A e \in ds : Fd(e)
        BY <1>5, <1>7 DEF Adapters
  <2>2. QED  BY <1>5, <2>1, FlushedArrived
<1>8. QED  BY <1>1, <1>3, <1>4, <1>6, <1>7

LEMMA SoleContents ==
    ASSUME NEW e
    PROVE  InTxns(Sole(e)) = {e} /\ InTxns(<<>>) = {}
<1>1. PICK t : t = [entries |-> <<e>>, bwr |-> TRUE, first |-> TRUE]
      OBVIOUS
<1>2. Sole(e) = <<t>> /\ t.entries = <<e>>
      BY <1>1 DEF Sole
<1>3. \A x : Range(<<x>>) = {x}
      BY DEF Range
<1>4. Range(Sole(e)) = {t} /\ Range(t.entries) = {e} /\ Range(<<>>) = {}
      BY <1>2, <1>3 DEF Range
<1>5. QED  BY <1>4 DEF InTxns

\* The frame that is sent to probe.
AskEntry == Entry(0, Probe, None)
AskAnswers(d) == IF cfg.async /\ d \in BroadcastTargets THEN Answers(d, AskEntry) ELSE {}

LEMMA AskParts ==
    ASSUME TypesInv, AskInTurn \/ AskInParallel
    PROVE  /\ SamePlan /\ SameRoutes /\ hist' = hist
           /\ router.pc = "ask" /\ router'.pc = "probe" /\ router'.result = router.result
           /\ router'.responses[0] = {}
           /\ \A d \in Devices : \A e \in InTxns(router'.work[d]) :
                 /\ e.req = 0 /\ e.child = None
                 /\ IF cfg.async THEN e.request = receive_only(Probe.expected)
                    ELSE e.request = Probe /\ d \in BroadcastTargets
           /\ \A d \in Devices : Arrived(d)' \subseteq Arrived(d) \cup AskAnswers(d)
<1>1. PICK w :
        /\ router.pc = "ask" /\ cfg' = cfg /\ servers' = servers /\ hist' = hist
        /\ router' = [router EXCEPT !.pc = "probe", !.work = w, !.responses[0] = {}]
        /\ \/ /\ ~cfg.async /\ dev' = dev /\ bus' = bus
              /\ w = [d \in Devices |-> IF d \in BroadcastTargets THEN Sole(AskEntry) ELSE <<>>]
           \/ /\ cfg.async
              /\ w = [d \in Devices |-> IF HasBus(d)
                         THEN Sole(Entry(0, receive_only(Probe.expected), None)) ELSE <<>>]
      BY ZenonT(60) DEF AskInTurn, AskInParallel, Asking, AskEntry
<1>2. DOMAIN router = RouterFields /\ DOMAIN router.responses = 0..Len(router.requests)
      BY DevicesKept DEF RouterOK
<1>3. PICK x : x = [router.responses EXCEPT ![0] = {}]
      OBVIOUS
<1>4. router' = [router EXCEPT !.pc = "probe", !.work = w, !.responses = x]
      BY ONLY <1>1, <1>3
<1>5. /\ router'.pc = "probe" /\ router'.work = w /\ router'.responses = x
      /\ router'.result = router.result /\ router'.n = router.n /\ router'.op = router.op
      /\ router'.requests = router.requests /\ router'.spent = router.spent /\ router'.i = router.i
      /\ router'.groups = router.groups /\ router'.routes = router.routes
      BY ONLY <1>2, <1>4 DEF RouterFields
<1>6. SamePlan /\ SameRoutes
      BY <1>1, <1>5, PlanKept
<1>7. router'.responses[0] = {}
  <2>1. router.requests \in Seq(Requests(Len(cfg.devices)))
        BY DevicesKept DEF RouterOK
  <2>2. 0 \in DOMAIN router.responses
        BY <1>2, <2>1
  <2>3. QED  BY <1>3, <1>5, <2>2
<1>8. ASSUME NEW d \in Devices, NEW e \in InTxns(router'.work[d])
      PROVE  /\ e.req = 0 /\ e.child = None
             /\ IF cfg.async THEN e.request = receive_only(Probe.expected)
                ELSE e.request = Probe /\ d \in BroadcastTargets
  <2>1. CASE ~cfg.async
    <3>1. w[d] = IF d \in BroadcastTargets THEN Sole(AskEntry) ELSE <<>>
          BY <1>1, <2>1
    <3>2. d \in BroadcastTargets /\ e = AskEntry
          BY <1>5, <1>8, <3>1, SoleContents
    <3>3. QED  BY <2>1, <3>2 DEF AskEntry, Entry
  <2>2. CASE cfg.async
    <3>1. PICK receive : receive = Entry(0, receive_only(Probe.expected), None)
          OBVIOUS
    <3>2. w[d] = IF HasBus(d) THEN Sole(receive) ELSE <<>>
          BY <1>1, <2>2, <3>1
    <3>3. e = receive
          BY <1>5, <1>8, <3>2, SoleContents
    <3>4. QED  BY <2>2, <3>1, <3>3 DEF Entry
  <2>3. QED  BY <2>1, <2>2
<1>9. ASSUME NEW d \in Devices
      PROVE  Arrived(d)' \subseteq Arrived(d) \cup AskAnswers(d)
  <2>1. CASE ~cfg.async
        BY <1>1, <2>1 DEF Arrived
  <2>2. CASE cfg.async
    <3>1. PICK drained :
            /\ dev' = [e \in Devices |-> IF e \in drained
                        THEN [dev[e] EXCEPT !.rx = <<>>, !.pending = 0, !.recover = FALSE]
                        ELSE dev[e]]
            /\ bus' = [e \in Devices |-> (IF e \in drained THEN {} ELSE bus[e])
                        \cup (IF e \in BroadcastTargets THEN Answers(e, AskEntry) ELSE {})]
          BY <2>2, ZenonT(60) DEF AskInTurn, AskInParallel, AskEntry
    <3>2. bus'[d] \subseteq bus[d] \cup AskAnswers(d)
          BY <2>2, <3>1 DEF AskAnswers
    <3>3. dev[d] \in DeviceStates
          BY DevicesKept DEF DevicesOK
    <3>4. Range(dev'[d].rx) \subseteq Range(dev[d].rx)
      <4>1. CASE d \in drained
        <5>1. dev'[d] = [dev[d] EXCEPT !.rx = <<>>, !.pending = 0, !.recover = FALSE]
              BY <3>1, <4>1
        <5>2. dev'[d].rx = <<>>
              BY ONLY <3>3, <5>1 DEF DeviceStates
        <5>3. QED  BY <5>2 DEF Range
      <4>2. CASE d \notin drained
            BY <3>1, <4>2
      <4>3. QED  BY <4>1, <4>2
    <3>5. QED  BY <3>2, <3>4 DEF Arrived
  <2>3. QED  BY <2>1, <2>2
<1>10. QED  BY <1>1, <1>5, <1>6, <1>7, <1>8, <1>9

\* A probe that has ended: one device answered, or the operation ends.
LEMMA ProbeEndParts ==
    ASSUME TypesInv, ProbeEnd
    PROVE  /\ SamePlan /\ hist'.executed = hist.executed /\ dev' = dev /\ bus' = bus
           /\ router.pc = "probe" /\ router.op # "discover"
           /\ \/ /\ router'.pc = "resolve" /\ router'.result = router.result
                 /\ hist'.fresh = hist.fresh \cup {LookupAddress(Sought)}
                 /\ \E r \in router.responses[0] :
                       /\ r.frame.source # Broadcast
                       /\ router'.routes =
                             [a \in DOMAIN router.routes \cup {LookupAddress(Sought)} |->
                                IF a = LookupAddress(Sought) THEN r.channel ELSE router.routes[a]]
              \/ /\ router'.pc = "idle" /\ router'.result \in {"not found", "ambiguous"}
                 /\ SameRoutes
<1> DEFINE found == {r.channel : r \in {r \in router.responses[0] : r.frame.source # Broadcast}}
           address == LookupAddress(Sought)
           routes == [a \in DOMAIN router.routes \cup {address} |->
                         IF a = address THEN CHOOSE d \in found : TRUE ELSE router.routes[a]]
<1>1. /\ router.pc = "probe" /\ router.op # "discover"
      /\ cfg' = cfg /\ servers' = servers /\ dev' = dev /\ bus' = bus
      /\ \/ /\ Conclusive(found) /\ router' = [router EXCEPT !.pc = "resolve", !.routes = routes]
            /\ hist' = [hist EXCEPT !.fresh = @ \cup {address}]
         \/ /\ router' = [router EXCEPT !.pc = "idle",
                   !.result = IF found = {} THEN "not found" ELSE "ambiguous"]
            /\ hist' = hist
      BY ZenonT(60) DEF ProbeEnd
<1>2. DOMAIN router = RouterFields /\ DOMAIN hist = {"executed", "fresh", "moved"}
      BY DevicesKept DEF RouterOK
<1>3. /\ router'.n = router.n /\ router'.op = router.op
      /\ router'.requests = router.requests /\ router'.spent = router.spent /\ router'.i = router.i
      /\ router'.groups = router.groups
  <2>1. PICK p, t, s : \/ router' = [router EXCEPT !.pc = p, !.routes = t]
                       \/ router' = [router EXCEPT !.pc = p, !.result = s]
        BY ONLY <1>1
  <2>2. QED  BY ONLY <1>2, <2>1 DEF RouterFields
<1>4. hist'.executed = hist.executed /\ hist'.moved = hist.moved
      BY <1>1, <1>2
<1>5. SamePlan
  <2>1. router.spent \in 0..cfg.maxFaults
        BY DevicesKept DEF RouterOK
  <2>2. router'.spent >= router.spent
        BY <1>3, <2>1
  <2>3. QED  BY <1>1, <1>3, <1>4, <2>2 DEF SamePlan, SameCall
<1>6. CASE /\ Conclusive(found) /\ router' = [router EXCEPT !.pc = "resolve", !.routes = routes]
           /\ hist' = [hist EXCEPT !.fresh = @ \cup {address}]
  <2>1. hist'.fresh = hist.fresh \cup {address}
        BY <1>2, <1>6
  <2>2. PICK t : t = routes
        OBVIOUS
  <2>3. router' = [router EXCEPT !.pc = "resolve", !.routes = t]
        BY ONLY <1>6, <2>2
  <2>4. router'.pc = "resolve" /\ router'.result = router.result /\ router'.routes = t
        BY ONLY <1>2, <2>3 DEF RouterFields
  <2>5. found # {}
    <3>1. Cardinality(found) = 1
          BY <1>6 DEF Conclusive
    <3>2. QED  BY <3>1, FS_EmptySet
  <2>6. (CHOOSE d \in found : TRUE) \in found
    <3> HIDE DEF found
    <3> QED  BY <2>5
  <2>7. PICK r \in router.responses[0] :
           r.frame.source # Broadcast /\ r.channel = CHOOSE d \in found : TRUE
        BY <2>6
  <2>8. t = [a \in DOMAIN router.routes \cup {address} |->
                IF a = address THEN r.channel ELSE router.routes[a]]
        BY ONLY <2>2, <2>7
  <2>9. QED  BY <1>1, <1>4, <1>5, <2>1, <2>4, <2>7, <2>8
<1>7. CASE /\ router' = [router EXCEPT !.pc = "idle",
                   !.result = IF found = {} THEN "not found" ELSE "ambiguous"]
           /\ hist' = hist
  <2>1. PICK s \in {"not found", "ambiguous"} : s = IF found = {} THEN "not found" ELSE "ambiguous"
        OBVIOUS
  <2>2. router' = [router EXCEPT !.pc = "idle", !.result = s]
        BY ONLY <1>7, <2>1
  <2>3. router'.pc = "idle" /\ router'.result = s /\ router'.routes = router.routes
        BY ONLY <1>2, <2>2 DEF RouterFields
  <2>4. QED  BY <1>1, <1>4, <1>5, <1>7, <2>3 DEF SameRoutes
<1>8. QED  BY <1>1, <1>6, <1>7

LEMMA EndParts ==
    ASSUME TypesInv, DiscoverEnd \/ RunEnd
    PROVE  /\ SamePlan /\ SameRoutes /\ hist' = hist /\ dev' = dev /\ bus' = bus
           /\ router'.pc = "idle" /\ router'.result \in {"ok", "err"}
           /\ \/ router.pc = "probe" /\ router.op = "discover"
              \/ /\ router.pc = "run" /\ AllDone
                 /\ router'.result = "ok" => ~router.failed
<1>1. DOMAIN router = RouterFields
      BY DevicesKept DEF RouterOK
<1>2. CASE DiscoverEnd
  <2>1. /\ router.pc = "probe" /\ router.op = "discover"
        /\ cfg' = cfg /\ servers' = servers /\ hist' = hist /\ dev' = dev /\ bus' = bus
        /\ \E f : router' = [router EXCEPT !.pc = "idle", !.result = "ok", !.found = f]
        BY <1>2 DEF DiscoverEnd
  <2>2. /\ router'.pc = "idle" /\ router'.result = "ok" /\ router'.n = router.n /\ router'.op = router.op
        /\ router'.requests = router.requests /\ router'.spent = router.spent /\ router'.i = router.i
        /\ router'.groups = router.groups /\ router'.routes = router.routes
        BY ONLY <1>1, <2>1 DEF RouterFields
  <2>3. SamePlan /\ SameRoutes
        BY <2>1, <2>2, PlanKept
  <2>4. QED  BY <2>1, <2>2, <2>3
<1>3. CASE RunEnd
  <2>1. /\ router.pc = "run" /\ AllDone
        /\ cfg' = cfg /\ servers' = servers /\ hist' = hist /\ dev' = dev /\ bus' = bus
        /\ router' = [router EXCEPT !.pc = "idle", !.result = IF router.failed THEN "err" ELSE "ok"]
        BY <1>3 DEF RunEnd
  <2>2. PICK s \in {"ok", "err"} : s = IF router.failed THEN "err" ELSE "ok"
        OBVIOUS
  <2>3. router' = [router EXCEPT !.pc = "idle", !.result = s]
        BY ONLY <2>1, <2>2
  <2>4. /\ router'.pc = "idle" /\ router'.result = s /\ router'.n = router.n /\ router'.op = router.op
        /\ router'.requests = router.requests /\ router'.spent = router.spent /\ router'.i = router.i
        /\ router'.groups = router.groups /\ router'.routes = router.routes
        BY ONLY <1>1, <2>3 DEF RouterFields
  <2>5. SamePlan /\ SameRoutes
        BY <2>1, <2>4, PlanKept, ZenonT(60)
  <2>6. QED  BY <2>1, <2>2, <2>4, <2>5
<1>4. QED  BY <1>2, <1>3

LEMMA CancelParts ==
    ASSUME TypesInv, Cancel
    PROVE  /\ SamePlan /\ SameRoutes /\ hist' = hist
           /\ router'.pc = "idle" /\ router'.result = "cancelled"
           /\ \A d \in Devices : Arrived(d)' \subseteq Arrived(d)
<1>1. PICK lost \in [Devices -> 0..2] :
         /\ \A d \in Devices : lost[d] <= IF dev[d].pc = "receive" THEN Len(dev[d].rx) ELSE 0
         /\ dev' = [d \in Devices |->
                 [dev[d] EXCEPT !.pc = "idle", !.rx = SubSeq(@, lost[d] + 1, Len(@)),
                                !.pending = IF dev[d].pc = "receive" THEN 0 ELSE @]]
      BY ZenonT(40) DEF Cancel
<1>2. /\ cfg' = cfg /\ servers' = servers /\ bus' = bus /\ hist' = hist
      /\ router' = [router EXCEPT !.pc = "idle", !.work = NoWork, !.result = "cancelled",
                                  !.spent = @ + 1]
      BY ZenonT(40) DEF Cancel
<1>3. DOMAIN router = RouterFields
      BY DevicesKept DEF RouterOK
<1>4. PICK k : k = router.spent + 1
      OBVIOUS
<1>5. router' = [router EXCEPT !.pc = "idle", !.work = NoWork, !.result = "cancelled", !.spent = k]
      BY ONLY <1>2, <1>4
<1>6. /\ router'.pc = "idle" /\ router'.result = "cancelled" /\ router'.n = router.n
      /\ router'.op = router.op /\ router'.requests = router.requests
      /\ router'.spent = k /\ router'.i = router.i
      /\ router'.groups = router.groups /\ router'.routes = router.routes
      BY ONLY <1>3, <1>5 DEF RouterFields
<1>7. SamePlan /\ SameRoutes
      BY <1>2, <1>4, <1>6, PlanKept
<1>8. ASSUME NEW d \in Devices
      PROVE  Arrived(d)' \subseteq Arrived(d)
  <2>1. dev[d] \in DeviceStates /\ dev[d].rx \in Seq(Reply)
        BY DevicesKept DEF DevicesOK, DeviceStates
  <2>2. PICK x, p : /\ x = SubSeq(dev[d].rx, lost[d] + 1, Len(dev[d].rx))
                    /\ dev'[d] = [dev[d] EXCEPT !.pc = "idle", !.rx = x, !.pending = p]
        BY <1>1
  <2>3. dev'[d].rx = x
        BY ONLY <2>1, <2>2 DEF DeviceStates
  <2>4. lost[d] \in 0..Len(dev[d].rx)
    <3>1. lost[d] \in 0..2 /\ Len(dev[d].rx) \in Nat
          BY <2>1
    <3>2. lost[d] <= IF dev[d].pc = "receive" THEN Len(dev[d].rx) ELSE 0
          BY <1>1
    <3>3. QED  BY ONLY <3>1, <3>2
  <2>5. Range(x) \subseteq Range(dev[d].rx)
        BY <2>1, <2>2, <2>4, RangeParts
  <2>6. QED  BY <1>2, <2>3, <2>5 DEF Arrived
<1>9. QED  BY <1>2, <1>6, <1>7, <1>8

\* What another host makes the controllers of bus d say.
Overheard(d) ==
    {r \in Reply : /\ "stranger" \in cfg.faults
                   /\ servers[r.server].bus = d /\ r.source = servers[r.server].id}

\* A step of a bus: the operation does not notice.
Unnoticed ==
    /\ SamePlan /\ SameRoutes /\ hist' = hist
    /\ router'.pc = router.pc /\ router'.result = router.result /\ router'.work = router.work
    /\ router'.failed = router.failed /\ router'.responses = router.responses
    /\ \A d \in Devices : /\ dev'[d].pc = dev[d].pc
                          /\ Arrived(d)' \subseteq Arrived(d) \cup Overheard(d)

LEMMA DeliverParts ==
    ASSUME TypesInv, NEW d \in Devices, Deliver(d)
    PROVE  Unnoticed
<1>1. PICK reply \in bus[d] :
          /\ bus' = [bus EXCEPT ![d] = @ \ {reply}]
          /\ dev' = [dev EXCEPT ![d].rx = Append(@, reply)]
      BY DEF Deliver
<1>2. cfg' = cfg /\ servers' = servers /\ router' = router /\ hist' = hist
      BY DEF Deliver
<1>3. SamePlan /\ SameRoutes
      BY <1>2, PlanKept
<1>4. /\ dev \in [Devices -> DeviceStates] /\ bus \in [Devices -> SUBSET Reply]
      BY DevicesKept DEF DevicesOK
<1>5. ASSUME NEW e \in Devices
      PROVE  dev'[e].pc = dev[e].pc /\ Arrived(e)' \subseteq Arrived(e)
  <2>1. CASE e # d
        BY <1>1, <1>4, <2>1 DEF Arrived
  <2>2. CASE e = d
    <3>1. dev[d] \in DeviceStates /\ dev[d].rx \in Seq(Reply) /\ reply \in Reply
          BY <1>1, <1>4 DEF DeviceStates
    <3>2. PICK x : x = Append(dev[d].rx, reply)
          OBVIOUS
    <3>3. dev'[d] = [dev[d] EXCEPT !.rx = x]
          BY <1>1, <1>4, <3>2
    <3>4. dev'[d].pc = dev[d].pc /\ dev'[d].rx = x
          BY ONLY <3>1, <3>3 DEF DeviceStates
    <3>5. Range(x) = Range(dev[d].rx) \cup {reply}
          BY <3>1, <3>2, RangeParts
    <3>6. bus'[d] \subseteq bus[d]
          BY <1>1, <1>4
    <3>7. QED  BY <1>1, <2>2, <3>4, <3>5, <3>6 DEF Arrived
  <2>3. QED  BY <2>1, <2>2
<1>6. QED  BY <1>2, <1>3, <1>5 DEF Unnoticed

LEMMA SpendParts ==
    ASSUME TypesInv, Spend, cfg' = cfg, servers' = servers, hist' = hist
    PROVE  /\ SamePlan /\ SameRoutes
           /\ router'.pc = router.pc /\ router'.result = router.result /\ router'.work = router.work
           /\ router'.failed = router.failed /\ router'.responses = router.responses
<1>1. DOMAIN router = RouterFields
      BY DevicesKept DEF RouterOK
<1>2. PICK k : k = router.spent + 1
      OBVIOUS
<1>3. router' = [router EXCEPT !.spent = k]
      BY <1>2 DEF Spend
<1>4. /\ router'.pc = router.pc /\ router'.result = router.result /\ router'.n = router.n
      /\ router'.op = router.op /\ router'.requests = router.requests
      /\ router'.spent = k /\ router'.i = router.i /\ router'.work = router.work
      /\ router'.groups = router.groups /\ router'.routes = router.routes
      /\ router'.failed = router.failed /\ router'.responses = router.responses
      BY ONLY <1>1, <1>3 DEF RouterFields
<1>5. SamePlan /\ SameRoutes
      BY <1>2, <1>4, PlanKept
<1>6. QED  BY <1>4, <1>5

LEMMA LoseParts ==
    ASSUME TypesInv, Lose
    PROVE  Unnoticed
<1>1. PICK d \in Devices : \E reply \in bus[d] : bus' = [bus EXCEPT ![d] = @ \ {reply}]
      BY DEF Lose
<1>2. Spend /\ cfg' = cfg /\ servers' = servers /\ hist' = hist /\ dev' = dev
      BY DEF Lose
<1>3. bus \in [Devices -> SUBSET Reply]
      BY DevicesKept
<1>4. \A e \in Devices : bus'[e] \subseteq bus[e]
      BY <1>1, <1>3
<1>5. \A e \in Devices : dev'[e].pc = dev[e].pc /\ Arrived(e)' \subseteq Arrived(e)
      BY <1>2, <1>4 DEF Arrived
<1>6. QED  BY <1>2, <1>5, SpendParts DEF Unnoticed

LEMMA StrangerParts ==
    ASSUME TypesInv, StrangerTalks
    PROVE  Unnoticed
<1>1. PICK s \in DOMAIN servers :
          bus' = [bus EXCEPT ![servers[s].bus] = @ \cup
                    {[server |-> s, source |-> servers[s].id, to |-> Stranger, uuid |-> <<>>,
                      cause |-> <<0, router.spent>>]}]
      BY ZenonT(40) DEF StrangerTalks
<1>2. Spend /\ cfg' = cfg /\ servers' = servers /\ hist' = hist /\ dev' = dev
      /\ "stranger" \in cfg.faults
      BY DEF StrangerTalks, CanFault
<1>3. PICK r : r = [server |-> s, source |-> servers[s].id, to |-> Stranger, uuid |-> <<>>,
                    cause |-> <<0, router.spent>>]
      OBVIOUS
<1>4. r.server = s /\ r.source = servers[s].id
      BY ONLY <1>3
<1>5. bus \in [Devices -> SUBSET Reply] /\ router.spent \in Nat
  <2>1. router.spent \in 0..cfg.maxFaults
        BY DevicesKept DEF RouterOK
  <2>2. QED  BY <2>1, DevicesKept
<1>6. r \in Reply
  <2>1. servers[s].id \in Nat
        BY <1>1, ServerParts
  <2>2. <<0, router.spent>> \in Nat \X Nat /\ <<>> \in Seq(Nat)
        BY <1>5
  <2>3. QED  BY <1>1, <1>3, <2>1, <2>2 DEF Reply
<1>7. bus' = [bus EXCEPT ![servers[s].bus] = @ \cup {r}]
      BY <1>1, <1>3
<1>8. \A e \in Devices : bus'[e] \subseteq bus[e] \cup Overheard(e)
  <2>1. ASSUME NEW e \in Devices
        PROVE  bus'[e] \subseteq bus[e] \cup Overheard(e)
    <3>1. CASE e = servers[s].bus
          BY <1>2, <1>4, <1>5, <1>6, <1>7, <3>1 DEF Overheard
    <3>2. CASE e # servers[s].bus
          BY <1>5, <1>7, <3>2
    <3>3. QED  BY <3>1, <3>2
  <2>2. QED  BY <2>1
<1>9. \A e \in Devices : dev'[e].pc = dev[e].pc /\ Arrived(e)' \subseteq Arrived(e) \cup Overheard(e)
      BY <1>2, <1>8 DEF Arrived
<1>10. QED  BY <1>2, <1>9, SpendParts DEF Unnoticed

LEMMA MoveParts ==
    ASSUME TypesInv, Move
    PROVE  /\ SameCall /\ dev' = dev /\ bus' = bus /\ hist'.executed = hist.executed
           /\ hist'.moved /\ hist'.fresh = {} /\ router.pc = "idle" /\ router'.pc = "idle"
           /\ router'.result = router.result /\ router'.groups = router.groups
           /\ DOMAIN servers' = DOMAIN servers
           /\ \A s \in DOMAIN servers : servers'[s].id = servers[s].id
<1>1. PICK s \in DOMAIN servers, d \in Devices : servers' = [servers EXCEPT ![s].bus = d]
      BY DEF Move
<1>2. Spend /\ cfg' = cfg /\ dev' = dev /\ bus' = bus /\ router.pc = "idle"
      /\ hist' = [hist EXCEPT !.fresh = {}, !.moved = TRUE]
      BY DEF Move
<1>3. hist'.executed = hist.executed /\ hist'.moved = TRUE /\ hist'.fresh = {}
      BY <1>2, DevicesKept
<1>4. DOMAIN router = RouterFields /\ router.spent \in 0..cfg.maxFaults
      BY DevicesKept DEF RouterOK
<1>5. PICK k : k = router.spent + 1
      OBVIOUS
<1>6. router' = [router EXCEPT !.spent = k]
      BY <1>2, <1>5 DEF Spend
<1>7. /\ router'.pc = router.pc /\ router'.result = router.result /\ router'.n = router.n
      /\ router'.op = router.op /\ router'.requests = router.requests
      /\ router'.spent = k /\ router'.groups = router.groups
      BY ONLY <1>4, <1>6 DEF RouterFields
<1>8. k >= router.spent
      BY <1>4, <1>5
<1>9. servers \in Seq(ServerInfos(Len(cfg.devices)))
      BY DevicesKept
<1>10. /\ DOMAIN servers' = DOMAIN servers
       /\ \A t \in DOMAIN servers : servers'[t].id = servers[t].id
  <2>1. \A t \in DOMAIN servers : servers[t] \in ServerInfos(Len(cfg.devices))
        BY <1>9
  <2>2. PICK x : x = [servers[s] EXCEPT !.bus = d]
        OBVIOUS
  <2>3. x.id = servers[s].id
        BY <1>1, <2>1, <2>2 DEF ServerInfos
  <2>4. servers' = [servers EXCEPT ![s] = x]
        BY <1>1, <2>2
  <2>5. QED  BY <1>1, <1>9, <2>3, <2>4
<1>11. QED  BY <1>2, <1>3, <1>7, <1>8, <1>10 DEF SameCall

(***************************************************************************)
(* What a device does                                                      *)
(***************************************************************************)

\* All frames of a transaction, what is executed when they are sent, and what
\* they are answered.
AllFrames(d) == Frames(d, Len(Txn(d).entries))
Effects(d, entries) == {x \in Executions(d, entries) : x[2] > 0}

\* The transaction fails, silently or not.
GivesUp(d) ==
    /\ dev'[d].pc = "idle" /\ router'.spent = router.spent + 1
    /\ router'.responses = router.responses
    /\ \/ /\ Txn(d).bwr /\ (router.pc = "probe" \/ ~cfg.async)
          /\ router'.failed = router.failed /\ router'.work = WorkLeft(d)
       \/ /\ router'.failed /\ router'.work \in {NoWork, WorkLeft(d)}
          /\ ~InTurn => router'.work = WorkLeft(d)

\* It succeeds with some of what has been received.
Finishes(d) ==
    /\ dev[d].pc # "idle" /\ dev'[d].pc = "idle"
    /\ router'.failed = router.failed /\ router'.work = WorkLeft(d)
    /\ \E frames \in Seq(Reply) :
          Range(frames) \subseteq Range(dev[d].rx) /\ router'.responses = Dispatched(d, frames)

Works(d) ==
    /\ SamePlan /\ SameRoutes /\ Running /\ router.work[d] # <<>>
    /\ router'.pc = router.pc /\ router'.result = router.result
    /\ \A e \in Devices \ {d} : dev'[e] = dev[e] /\ bus'[e] = bus[e]
    /\ hist.executed \subseteq hist'.executed
    /\ hist'.executed \subseteq hist.executed \cup Effects(d, AllFrames(d))
    /\ Arrived(d)' \subseteq Arrived(d) \cup AnswersTo(d, AllFrames(d))
    /\ \/ /\ router' = router /\ dev'[d].pc # "idle"
          /\ dev[d].pc = "idle" => Effects(d, AllFrames(d)) \subseteq hist'.executed
       \/ GivesUp(d)
       \/ Finishes(d)

\* A failed transaction, field by field.
LEMMA FailedParts ==
    ASSUME TypesInv, NEW d \in Devices, router.work[d] # <<>>,
           router' = [Failed(router, d) EXCEPT !.spent = @ + 1],
           dev'[d].pc = "idle", cfg' = cfg, servers' = servers, hist'.moved = hist.moved,
           hist'.fresh = hist.fresh
    PROVE  SamePlan /\ SameRoutes /\ router'.pc = router.pc /\ router'.result = router.result /\ GivesUp(d)
<1>1. DOMAIN router = RouterFields
      BY DevicesKept DEF RouterOK
<1>2. PICK w : w = WorkLeft(d)
      OBVIOUS
<1>3. \/ /\ Txn(d).bwr /\ (router.pc = "probe" \/ ~cfg.async)
         /\ Failed(router, d) = [router EXCEPT !.work = w]
      \/ Failed(router, d) = [router EXCEPT !.failed = TRUE, !.work = w]
      \/ InTurn /\ Failed(router, d) = [router EXCEPT !.failed = TRUE, !.work = NoWork]
      BY <1>2 DEF Failed, WorkLeft
<1>4. PICK v : /\ v \in {NoWork, w} /\ (~InTurn => v = w)
               /\ \/ /\ v = w /\ Txn(d).bwr /\ (router.pc = "probe" \/ ~cfg.async)
                     /\ Failed(router, d) = [router EXCEPT !.work = v]
                  \/ Failed(router, d) = [router EXCEPT !.failed = TRUE, !.work = v]
      BY <1>3
<1>5. PICK f : f = Failed(router, d)
      OBVIOUS
<1>6. /\ DOMAIN f = RouterFields /\ f.pc = router.pc /\ f.n = router.n /\ f.op = router.op
      /\ f.requests = router.requests /\ f.i = router.i /\ f.groups = router.groups
      /\ f.result = router.result /\ f.routes = router.routes /\ f.spent = router.spent
      /\ f.work = v /\ f.responses = router.responses
      /\ \/ /\ v = w /\ Txn(d).bwr /\ (router.pc = "probe" \/ ~cfg.async) /\ f.failed = router.failed
         \/ f.failed = TRUE
  <2>1. CASE f = [router EXCEPT !.failed = TRUE, !.work = v]
        BY ONLY <1>1, <2>1 DEF RouterFields
  <2>2. CASE /\ v = w /\ Txn(d).bwr /\ (router.pc = "probe" \/ ~cfg.async)
             /\ f = [router EXCEPT !.work = v]
        BY ONLY <1>1, <2>2 DEF RouterFields
  <2>3. QED  BY ONLY <1>4, <1>5, <2>1, <2>2
<1>7. PICK k : k = f.spent + 1
      OBVIOUS
<1>8. router' = [f EXCEPT !.spent = k]
      BY ONLY <1>5, <1>7, router' = [Failed(router, d) EXCEPT !.spent = @ + 1]
<1>9. /\ router'.pc = f.pc /\ router'.n = f.n /\ router'.op = f.op
      /\ router'.requests = f.requests /\ router'.i = f.i /\ router'.groups = f.groups
      /\ router'.result = f.result /\ router'.routes = f.routes /\ router'.spent = k
      /\ router'.work = f.work /\ router'.responses = f.responses /\ router'.failed = f.failed
      BY ONLY <1>6, <1>8 DEF RouterFields
<1>10. SamePlan /\ SameRoutes
      BY <1>6, <1>7, <1>9, PlanKept, ZenonT(60)
<1>11. GivesUp(d)
      BY <1>2, <1>4, <1>6, <1>7, <1>9 DEF GivesUp
<1>12. QED  BY <1>6, <1>9, <1>10, <1>11

\* A prefix of a transaction's frames.
LEMMA SomeFrames ==
    ASSUME TypesInv, NEW d \in Devices, router.work[d] # <<>>, NEW k \in 0..Len(Txn(d).entries)
    PROVE  /\ Effects(d, Frames(d, k)) \subseteq Effects(d, AllFrames(d))
           /\ AnswersTo(d, Frames(d, k)) \subseteq AnswersTo(d, AllFrames(d))
<1>1. Len(Txn(d).entries) \in Nat
      BY TxnType
<1>2. Frames(d, k) \subseteq AllFrames(d)
      BY <1>1 DEF Frames, AllFrames
<1>3. Executions(d, Frames(d, k)) \subseteq Executions(d, AllFrames(d))
      BY <1>2 DEF Executions
<1>4. QED  BY <1>2, <1>3 DEF Effects, AnswersTo

LEMMA SendParts ==
    ASSUME TypesInv, ControlInv, NEW d \in Devices, Send(d)
    PROVE  Works(d)
<1>1. PICK s : s = IF Drains(d) \/ Clears(d)
                   THEN [dev[d] EXCEPT !.rx = <<>>, !.pending = 0, !.flush = FALSE] ELSE dev[d]
      OBVIOUS
<1>2. PICK sent \in 0..Len(Txn(d).entries) :
          /\ Transmit(d, Frames(d, sent))
          /\ bus' = [bus EXCEPT ![d] = (IF Drains(d) THEN {} ELSE bus[d]) \cup AnswersTo(d, Frames(d, sent))]
          /\ \/ /\ sent = Len(Txn(d).entries)
                /\ dev' = [dev EXCEPT ![d] =
                     [s EXCEPT !.pc = IF Fd(d) /\ Frames(d, Len(Txn(d).entries)) # {} THEN "ok" ELSE "receive",
                               !.recover = Recovering(d)]]
                /\ router' = router
             \/ /\ dev' = [dev EXCEPT ![d] = Broken(d, s)]
                /\ router' = [Failed(router, d) EXCEPT !.spent = @ + 1]
      BY <1>1, ZenonT(60) DEF Send
<1>3. /\ Running /\ router.work[d] # <<>> /\ dev[d].pc = "idle"
      /\ cfg' = cfg /\ servers' = servers
      BY ZenonT(40) DEF Send
<1>4. dev[d] \in DeviceStates /\ dev \in [Devices -> DeviceStates] /\ bus \in [Devices -> SUBSET Reply]
      BY DevicesKept DEF DevicesOK
<1>5. s \in DeviceStates /\ Range(s.rx) \subseteq Range(dev[d].rx)
  <2>1. CASE s = dev[d]
        BY <1>4, <2>1
  <2>2. CASE s = [dev[d] EXCEPT !.rx = <<>>, !.pending = 0, !.flush = FALSE]
    <3>1. s \in DeviceStates
          BY ONLY <1>4, <2>2, DeviceEmptied, Zenon
    <3>2. s.rx = <<>>
          BY ONLY <1>4, <2>2 DEF DeviceStates
    <3>3. QED  BY <3>1, <3>2 DEF Range
  <2>3. QED  BY <1>1, <2>1, <2>2
<1>6. /\ hist'.executed = hist.executed \cup Effects(d, Frames(d, sent))
      /\ hist'.fresh = hist.fresh /\ hist'.moved = hist.moved
  <2>1. PICK x : x = hist.executed \cup Effects(d, Frames(d, sent))
        OBVIOUS
  <2>2. hist' = [hist EXCEPT !.executed = x]
        BY <1>2, <2>1 DEF Transmit, Effects
  <2>3. QED  BY <2>1, <2>2, DevicesKept
<1>7. /\ Effects(d, Frames(d, sent)) \subseteq Effects(d, AllFrames(d))
      /\ AnswersTo(d, Frames(d, sent)) \subseteq AnswersTo(d, AllFrames(d))
      BY <1>3, SomeFrames
<1>8. /\ hist.executed \subseteq hist'.executed
      /\ hist'.executed \subseteq hist.executed \cup Effects(d, AllFrames(d))
      BY <1>6, <1>7
<1>9. /\ bus'[d] \subseteq bus[d] \cup AnswersTo(d, AllFrames(d))
      /\ \A e \in Devices \ {d} : bus'[e] = bus[e]
      BY <1>2, <1>4, <1>7
<1>10. CASE /\ sent = Len(Txn(d).entries)
            /\ dev' = [dev EXCEPT ![d] =
                     [s EXCEPT !.pc = IF Fd(d) /\ Frames(d, Len(Txn(d).entries)) # {} THEN "ok" ELSE "receive",
                               !.recover = Recovering(d)]]
            /\ router' = router
  <2>1. PICK p \in {"ok", "receive"} : p = IF Fd(d) /\ Frames(d, Len(Txn(d).entries)) # {} THEN "ok" ELSE "receive"
        OBVIOUS
  <2>2. PICK b : b = Recovering(d)
        OBVIOUS
  <2>3. PICK t : t = [s EXCEPT !.pc = p, !.recover = b]
        OBVIOUS
  <2>4. t.pc = p /\ t.rx = s.rx
        BY ONLY <1>5, <2>3 DEF DeviceStates
  <2>5. dev' = [dev EXCEPT ![d] = t]
        BY <1>10, <2>1, <2>2, <2>3
  <2>6. dev'[d] = t /\ \A e \in Devices \ {d} : dev'[e] = dev[e]
        BY <1>4, <2>5
  <2>7. dev'[d].pc # "idle" /\ Arrived(d)' \subseteq Arrived(d) \cup AnswersTo(d, AllFrames(d))
        BY <1>5, <1>9, <2>4, <2>6 DEF Arrived
  <2>8. Effects(d, AllFrames(d)) \subseteq hist'.executed
        BY <1>6, <1>10 DEF AllFrames
  <2>9. SamePlan /\ SameRoutes
        BY <1>3, <1>6, <1>10, PlanKept
  <2>10. router'.pc = router.pc /\ router'.result = router.result
        BY <1>10
  <2>11. QED  BY <1>3, <1>8, <1>9, <1>10, <2>6, <2>7, <2>8, <2>9, <2>10 DEF Works
<1>11. CASE /\ dev' = [dev EXCEPT ![d] = Broken(d, s)]
            /\ router' = [Failed(router, d) EXCEPT !.spent = @ + 1]
  <2>1. Broken(d, s).pc = "idle" /\ Broken(d, s).rx = s.rx
        BY <1>5, BrokenOK
  <2>2. PICK t : t = Broken(d, s)
        OBVIOUS
  <2>3. dev'[d] = t /\ \A e \in Devices \ {d} : dev'[e] = dev[e]
        BY <1>4, <1>11, <2>2
  <2>4. dev'[d].pc = "idle" /\ Arrived(d)' \subseteq Arrived(d) \cup AnswersTo(d, AllFrames(d))
        BY <1>5, <1>9, <2>1, <2>2, <2>3 DEF Arrived
  <2>5. SamePlan /\ SameRoutes /\ router'.pc = router.pc /\ router'.result = router.result /\ GivesUp(d)
        BY <1>3, <1>6, <1>11, <2>4, FailedParts
  <2>6. QED  BY <1>3, <1>8, <1>9, <2>3, <2>4, <2>5 DEF Works
<1>12. QED
  <2> HIDE DEF Failed, Broken
  <2> QED  BY ONLY <1>2, <1>10, <1>11

LEMMA WaitOkParts ==
    ASSUME TypesInv, ControlInv, NEW d \in Devices, WaitOk(d)
    PROVE  Works(d)
<1>1. PICK k \in dev[d].pending..Len(dev[d].rx) :
          dev' = [dev EXCEPT ![d].pc = "receive", ![d].pending = k]
      BY ZenonT(40) DEF WaitOk
<1>2. /\ cfg' = cfg /\ servers' = servers /\ router' = router /\ bus' = bus /\ hist' = hist
      /\ dev[d].pc = "ok"
      BY ZenonT(40) DEF WaitOk
<1>3. dev[d] \in DeviceStates /\ dev \in [Devices -> DeviceStates]
      BY DevicesKept DEF DevicesOK
<1>4. PICK s : s = [dev[d] EXCEPT !.pc = "receive", !.pending = k]
      OBVIOUS
<1>5. dev' = [dev EXCEPT ![d] = s]
      BY <1>1, <1>3, <1>4
<1>6. dev'[d] = s /\ \A e \in Devices \ {d} : dev'[e] = dev[e]
      BY <1>3, <1>5
<1>7. s.pc = "receive" /\ s.rx = dev[d].rx
      BY ONLY <1>3, <1>4 DEF DeviceStates
<1>8. Arrived(d)' = Arrived(d)
      BY <1>2, <1>6, <1>7 DEF Arrived
<1>9. Running /\ router.work[d] # <<>>
      BY <1>2 DEF ControlInv
<1>10. SamePlan /\ SameRoutes
      BY <1>2, PlanKept
<1>11. router'.pc = router.pc /\ router'.result = router.result /\ hist'.executed = hist.executed
      BY <1>2
<1>12. QED  BY <1>2, <1>6, <1>7, <1>8, <1>9, <1>10, <1>11 DEF Works

LEMMA OkFailsParts ==
    ASSUME TypesInv, ControlInv, NEW d \in Devices, OkFails(d)
    PROVE  Works(d)
<1>1. /\ cfg' = cfg /\ servers' = servers /\ bus' = bus /\ hist' = hist
      /\ dev[d].pc = "ok"
      /\ dev' = [dev EXCEPT ![d] = Broken(d, dev[d])]
      /\ router' = [Failed(router, d) EXCEPT !.spent = @ + 1]
      BY ZenonT(40) DEF OkFails
<1>2. dev[d] \in DeviceStates /\ dev \in [Devices -> DeviceStates]
      BY DevicesKept DEF DevicesOK
<1>3. Broken(d, dev[d]).pc = "idle" /\ Broken(d, dev[d]).rx = dev[d].rx
      BY <1>2, BrokenOK
<1>4. PICK t : t = Broken(d, dev[d])
      OBVIOUS
<1>5. dev'[d] = t /\ \A e \in Devices \ {d} : dev'[e] = dev[e]
      BY <1>1, <1>2, <1>4
<1>6. dev'[d].pc = "idle" /\ Arrived(d)' = Arrived(d)
      BY <1>1, <1>3, <1>4, <1>5 DEF Arrived
<1>7. Running /\ router.work[d] # <<>>
      BY <1>1 DEF ControlInv
<1>8. SamePlan /\ SameRoutes /\ router'.pc = router.pc /\ router'.result = router.result /\ GivesUp(d)
      BY <1>1, <1>6, <1>7, FailedParts
<1>9. QED  BY <1>1, <1>5, <1>6, <1>7, <1>8 DEF Works

\* A transaction that ends with what has been received.
LEMMA FinishParts ==
    ASSUME TypesInv, ControlInv, NEW d \in Devices, dev[d].pc # "idle",
           NEW frames \in Seq(Reply), Range(frames) \subseteq Range(dev[d].rx),
           router' = Answered(d, frames), NEW s, s.pc = "idle", Range(s.rx) \subseteq Range(dev[d].rx),
           dev' = [dev EXCEPT ![d] = s], UNCHANGED <<cfg, servers, bus, hist>>
    PROVE  Works(d)
<1>1. Running /\ router.work[d] # <<>>
      BY DEF ControlInv
<1>2. PICK r : r = Answered(d, frames)
      OBVIOUS
<1>3. /\ RouterOK(r) /\ r.pc = router.pc /\ r.op = router.op /\ r.order = router.order
      /\ r.work = WorkLeft(d)
      /\ r.responses = Dispatched(d, frames) /\ r.requests = router.requests
      /\ r.n = router.n /\ r.i = router.i /\ r.routes = router.routes /\ r.spent = router.spent
      /\ r.result = router.result /\ r.failed = router.failed /\ r.groups = router.groups
  <2>1. TypesInv /\ d \in Devices /\ router.work[d] # <<>> /\ frames \in Seq(Reply)
        BY <1>1
  <2>2. QED  BY ONLY <1>2, <2>1, AnsweredOK, ZenonT(60)
<1>4. router' = r
      BY <1>2
<1>5. dev \in [Devices -> DeviceStates]
      BY DevicesKept DEF DevicesOK
<1>6. dev'[d] = s /\ \A e \in Devices \ {d} : dev'[e] = dev[e]
      BY <1>5
<1>7. dev'[d].pc = "idle" /\ Arrived(d)' \subseteq Arrived(d)
      BY <1>6 DEF Arrived
<1>8. /\ router'.pc = r.pc /\ router'.op = r.op /\ router'.work = r.work
      /\ router'.responses = r.responses /\ router'.requests = r.requests
      /\ router'.failed = r.failed /\ router'.result = r.result
      BY <1>4
<1>9. Finishes(d)
      BY <1>3, <1>7, <1>8 DEF Finishes
<1>10. SamePlan /\ SameRoutes
      BY <1>3, <1>4, PlanKept
<1>11. router'.pc = router.pc /\ router'.result = router.result
      BY <1>3, <1>8
<1>12. QED  BY <1>1, <1>6, <1>7, <1>9, <1>10, <1>11 DEF Works

LEMMA CompleteParts ==
    ASSUME TypesInv, ControlInv, NEW d \in Devices, Complete(d)
    PROVE  Works(d)
<1> DEFINE taken == IF dev[d].pending >= Expected(d) THEN dev[d].pending ELSE Expected(d)
           n == IF Expected(d) = 0 THEN 0 ELSE taken
<1>1. /\ dev[d].pc = "receive" /\ Len(dev[d].rx) >= n
      /\ router' = Answered(d, SubSeq(dev[d].rx, 1, n))
      /\ dev' = [dev EXCEPT ![d].pc = "idle", ![d].recover = @ /\ Writing,
                     ![d].rx = SubSeq(@, n + 1, Len(@)), ![d].pending = IF n = 0 THEN @ ELSE 0]
      /\ UNCHANGED <<cfg, servers, bus, hist>>
      BY ZenonT(60) DEF Complete
<1>2. dev[d] \in DeviceStates /\ dev \in [Devices -> DeviceStates]
      BY DevicesKept DEF DevicesOK
<1>3. dev[d].rx \in Seq(Reply) /\ dev[d].pending \in Nat /\ Len(dev[d].rx) \in Nat
      BY <1>2 DEF DeviceStates
<1>4. Expected(d) \in Nat
      BY <1>1, TxnType DEF ControlInv
<1>5. n \in 0..Len(dev[d].rx)
      BY <1>1, <1>3, <1>4
<1>6. PICK rx, frames, p, b :
         /\ rx = SubSeq(dev[d].rx, n + 1, Len(dev[d].rx)) /\ frames = SubSeq(dev[d].rx, 1, n)
         /\ p = (IF n = 0 THEN dev[d].pending ELSE 0) /\ b = (dev[d].recover /\ Writing)
      OBVIOUS
<1>7. /\ Range(rx) \subseteq Range(dev[d].rx) /\ Range(frames) \subseteq Range(dev[d].rx)
      /\ frames \in Seq(Reply)
  <2> HIDE DEF n
  <2>1. frames \in Seq(Reply)
        BY <1>3, <1>5, <1>6, SequencesOfReplies
  <2>2. QED  BY <1>3, <1>5, <1>6, <2>1, RangeParts
<1>8. PICK s : s = [dev[d] EXCEPT !.pc = "idle", !.recover = b, !.rx = rx, !.pending = p]
      OBVIOUS
<1>9. s.pc = "idle" /\ s.rx = rx
      BY ONLY <1>2, <1>8 DEF DeviceStates
<1> HIDE DEF n
<1>10. dev' = [dev EXCEPT ![d] = s]
  <2>1. dev' = [dev EXCEPT ![d].pc = "idle", ![d].recover = b, ![d].rx = rx, ![d].pending = p]
        BY <1>1, <1>2, <1>6
  <2>2. QED  BY ONLY <1>2, <1>8, <2>1
<1>11. router' = Answered(d, frames)
      BY <1>1, <1>6
<1>12. QED  BY <1>1, <1>7, <1>9, <1>10, <1>11, FinishParts

LEMMA TimeoutParts ==
    ASSUME TypesInv, ControlInv, NEW d \in Devices, ReceiveTimeout(d)
    PROVE  Works(d)
<1>1. PICK s : s = [IdleDevice EXCEPT !.flush = dev[d].flush \/ Fd(d)]
      OBVIOUS
<1>2. /\ dev[d].pc = "receive" /\ router' = Answered(d, dev[d].rx)
      /\ dev' = [dev EXCEPT ![d] = s] /\ UNCHANGED <<cfg, servers, bus, hist>>
      BY <1>1, ZenonT(40) DEF ReceiveTimeout
<1>3. dev[d].rx \in Seq(Reply)
      BY DevicesKept DEF DevicesOK, DeviceStates
<1>4. s.pc = "idle" /\ s.rx = <<>>
      BY <1>1 DEF IdleDevice
<1>5. Range(s.rx) = {}
      BY <1>4 DEF Range
<1>6. QED  BY <1>2, <1>3, <1>4, <1>5, FinishParts

\* Every step is one of these.
LEMMA DeviceWorks ==
    ASSUME TypesInv, ControlInv, NEW d \in Devices, DeviceStep(d)
    PROVE  Works(d)
  BY SendParts, WaitOkParts, OkFailsParts, CompleteParts, TimeoutParts DEF DeviceStep

Probing == StartProbe \/ FlushAll \/ AskInTurn \/ AskInParallel \/ ProbeEnd
Ending == DiscoverEnd \/ RunEnd \/ Cancel

LEMMA AllSteps ==
    ASSUME TypesInv, ControlInv, [Next]_vars
    PROVE  \/ Starting \/ Resolve \/ Execute \/ Probing \/ Ending \/ Move \/ Unnoticed
           \/ \E d \in Devices : Works(d)
<1>1. CASE Application
      BY <1>1 DEF Application, Starting, Ending
<1>2. CASE RouterStep
      BY <1>2, DeviceWorks DEF RouterStep, Probing, Ending
<1>3. CASE \E d \in Devices : Deliver(d)
      BY <1>3, DeliverParts
<1>4. CASE Disturbance
      BY <1>4, LoseParts, StrangerParts DEF Disturbance
<1>5. CASE UNCHANGED vars
  <2>1. cfg' = cfg /\ servers' = servers /\ router' = router /\ dev' = dev /\ bus' = bus /\ hist' = hist
        BY <1>5 DEF vars
  <2>2. SamePlan /\ SameRoutes
        BY <2>1, PlanKept
  <2>3. \A d \in Devices : dev'[d].pc = dev[d].pc /\ Arrived(d)' = Arrived(d)
        BY <2>1 DEF Arrived
  <2>4. Unnoticed
        BY <2>1, <2>2, <2>3 DEF Unnoticed
  <2>5. QED  BY <2>4
<1>6. QED  BY <1>1, <1>2, <1>3, <1>4, <1>5 DEF Next

(***************************************************************************)
(* What is gathered and what is done                                       *)
(***************************************************************************)

\* What depends on the configuration alone.
LEMMA ConfigKept ==
    ASSUME cfg' = cfg
    PROVE  /\ Devices' = Devices /\ BroadcastTargets' = BroadcastTargets
           /\ Adapters' = Adapters /\ OwnQueues' = OwnQueues /\ CanIdsOnly' = CanIdsOnly
           /\ \A d : Info(d)' = Info(d) /\ Fd(d)' = Fd(d)
<1>1. Devices' = Devices /\ \A d : Info(d)' = Info(d)
      BY DEF Devices, Info
<1>2. \A d : Fd(d)' = Fd(d) /\ HasBus(d)' = HasBus(d)
      BY DEF Fd, HasBus, Info
<1>3. BroadcastTargets' = BroadcastTargets
      BY <1>1, <1>2 DEF BroadcastTargets
<1>4. Adapters' = Adapters /\ OwnQueues' = OwnQueues /\ CanIdsOnly' = CanIdsOnly
      BY <1>1, <1>2 DEF Adapters, OwnQueues, CanIdsOnly
<1>5. QED  BY <1>1, <1>2, <1>3, <1>4

\* What depends on the request in hand as well.
LEMMA SoughtKept ==
    ASSUME SamePlan
    PROVE  /\ Sought' = Sought /\ Probe' = Probe /\ LookupAddress(Sought)' = LookupAddress(Sought)
           /\ \A d, e : (ProbeEntry(d, e)' <=> ProbeEntry(d, e)) /\ (Placed(d, e)' <=> Placed(d, e))
           /\ \A e : Asked(e)' <=> Asked(e)
<1>1. cfg' = cfg /\ router'.requests = router.requests /\ router'.i = router.i /\ router'.op = router.op
      BY DEF SamePlan, SameCall
<1>2. Sought' = Sought
      BY <1>1 DEF Sought
<1>3. LookupAddress(Sought)' = LookupAddress(Sought)
      BY <1>2 DEF LookupAddress
<1>4. Probe' = Probe
      BY <1>1, <1>3 DEF Probe
<1>5. BroadcastTargets' = BroadcastTargets /\ \A d : Info(d)' = Info(d)
      BY <1>1, ConfigKept
<1>6. \A d, e : ProbeEntry(d, e)' <=> ProbeEntry(d, e)
      BY <1>1, <1>4, <1>5 DEF ProbeEntry
<1>7. \A d, e : Placed(d, e)' <=> Placed(d, e)
      BY <1>5 DEF Placed
<1>8. \A e : Asked(e)' <=> Asked(e)
      BY <1>1 DEF Asked
<1>9. QED  BY <1>2, <1>3, <1>4, <1>6, <1>7, <1>8

\* What a request adds is an entry for it on the way to its target.
LEMMA DispatchesPlaced ==
    ASSUME TypesInv, NEW i \in 1..Len(router.requests), NEW d \in Devices, NEW e \in Dispatches(i, d)
    PROVE  Asked(e) /\ Placed(d, e) /\ e.req = i
<1>1. PICK t : /\ route_via_parent(t).send = d
               /\ e = Entry(i, router.requests[i], route_via_parent(t).child)
      BY DEF Dispatches
<1>2. e.req = i /\ e.request = router.requests[i] /\ e.child = route_via_parent(t).child
      BY <1>1 DEF Entry
<1>3. e.child # None => e.child = t /\ Info(t).parent = d
      BY <1>1, <1>2 DEF route_via_parent
<1>4. QED  BY <1>2, <1>3 DEF Asked, Placed

\* A group with what a request adds.
LEMMA GroupedContents ==
    ASSUME TypesInv, NEW i \in 1..Len(router.requests), NEW d \in Devices
    PROVE  /\ InGroup(Grouped(i)[d]) = InGroup(router.groups[d]) \cup Dispatches(i, d)
           /\ \A e \in Range(Grouped(i)[d].broadcast_with_reply) :
                 \/ e \in Range(router.groups[d].broadcast_with_reply)
                 \/ e \in Dispatches(i, d) /\ BroadcastQuery(router.requests[i])
<1> DEFINE request == router.requests[i]
           bwr == request.channel = None /\ IsTrueBroadcast(request) /\ request.expected > 0
<1>1. PICK g, added : g = router.groups[d] /\ added = SetToSeq(Dispatches(i, d))
      OBVIOUS
<1>2. g \in Groups
      BY <1>1, DevicesKept DEF RouterOK
<1>3. added \in Seq(Entries) /\ Range(added) = Dispatches(i, d)
  <2>1. /\ added \in Seq(Dispatches(i, d)) /\ Dispatches(i, d) \subseteq Entries
        /\ Range(added) = Dispatches(i, d)
        BY <1>1, DispatchesType, SetToSeqLists
  <2>2. \A A, B : A \subseteq B => Seq(A) \subseteq Seq(B)
        OBVIOUS
  <2>3. QED  BY <2>1, <2>2
<1>4. PICK first, rest : first = g.broadcast_with_reply \o added /\ rest = g.other \o added
      OBVIOUS
<1>5. /\ Range(first) = Range(g.broadcast_with_reply) \cup Range(added)
      /\ Range(rest) = Range(g.other) \cup Range(added)
  <2>1. g.broadcast_with_reply \in Seq(Entries) /\ g.other \in Seq(Entries)
        BY <1>2 DEF Groups
  <2>2. QED  BY <1>3, <1>4, <2>1, RangeParts
<1>6. Grouped(i)[d] = IF bwr THEN [g EXCEPT !.broadcast_with_reply = first]
                      ELSE [g EXCEPT !.other = rest]
      BY <1>1, <1>4 DEF Grouped
<1>7. CASE bwr
  <2>1. Grouped(i)[d] = [g EXCEPT !.broadcast_with_reply = first]
        BY <1>6, <1>7
  <2>2. Grouped(i)[d].broadcast_with_reply = first /\ Grouped(i)[d].other = g.other
        BY ONLY <1>2, <2>1 DEF Groups
  <2>3. BroadcastQuery(router.requests[i])
        BY <1>7 DEF BroadcastQuery
  <2>4. QED  BY <1>1, <1>3, <1>5, <2>2, <2>3 DEF InGroup
<1>8. CASE ~bwr
  <2>1. Grouped(i)[d] = [g EXCEPT !.other = rest]
        BY <1>6, <1>8
  <2>2. Grouped(i)[d].broadcast_with_reply = g.broadcast_with_reply /\ Grouped(i)[d].other = rest
        BY ONLY <1>2, <2>1 DEF Groups
  <2>3. QED  BY <1>1, <1>3, <1>5, <2>2 DEF InGroup
<1>9. QED  BY <1>7, <1>8

\* The transactions of a group are made of what is in it.
LEMMA TransactionsContents ==
    ASSUME NEW g \in Groups
    PROVE  /\ InTxns(Transactions(g)) = InGroup(g)
           /\ \A t \in Range(Transactions(g)) : t.bwr => Range(t.entries) \subseteq Range(g.broadcast_with_reply)
           /\ g.broadcast_with_reply = <<>> => \A t \in Range(Transactions(g)) : ~t.bwr
<1>1. PICK q, o, n, c, m :
         /\ q = g.broadcast_with_reply /\ o = g.other /\ n = Len(q)
         /\ c = (IF o = <<>> THEN 0 ELSE 1) /\ m = n + c
      OBVIOUS
<1> DEFINE f == [k \in 1..m |-> [entries |-> IF k <= n THEN <<q[k]>> ELSE o,
                                 bwr |-> k <= n, first |-> k = 1]]
<1>2. Transactions(g) = f
      BY <1>1 DEF Transactions
<1>3. q \in Seq(Entries) /\ o \in Seq(Entries)
      BY <1>1 DEF Groups
<1>4. n \in Nat /\ c \in {0, 1} /\ m \in Nat /\ Range(q) = {q[k] : k \in 1..n}
  <2>1. n \in Nat /\ DOMAIN q = 1..n
        BY <1>1, <1>3
  <2>2. c \in {0, 1} /\ m = n + c
        BY <1>1, Zenon
  <2>3. m \in Nat
        BY ONLY <2>1, <2>2
  <2>4. QED  BY <2>1, <2>2, <2>3 DEF Range
<1>5. ASSUME NEW k \in 1..m
      PROVE  /\ k <= n => f[k].bwr = TRUE /\ Range(f[k].entries) = {q[k]}
             /\ k > n => ~f[k].bwr /\ Range(f[k].entries) = Range(o)
  <2>1. PICK es, b, one : es = (IF k <= n THEN <<q[k]>> ELSE o) /\ b = (k <= n) /\ one = (k = 1)
        OBVIOUS
  <2>2. f[k] = [entries |-> es, bwr |-> b, first |-> one]
        BY <2>1
  <2>3. f[k].entries = es /\ f[k].bwr = b
        BY ONLY <2>2
  <2> HIDE DEF f
  <2>4. Range(<<q[k]>>) = {q[k]}
        BY DEF Range
  <2>5. CASE k <= n
    <3>1. es = <<q[k]>>
          BY <2>1, <2>5, Zenon
    <3>2. b = TRUE
          BY ONLY <2>1, <2>5
    <3>3. ~(k > n)
          BY ONLY <1>4, <2>5
    <3>4. QED  BY <2>3, <2>4, <3>1, <3>2, <3>3
  <2>6. CASE ~(k <= n)
    <3>1. es = o
          BY <2>1, <2>6, Zenon
    <3>2. ~b
          BY <2>1, <2>6, Zenon
    <3>3. QED  BY <2>3, <2>6, <3>1, <3>2
  <2>7. QED  BY <2>5, <2>6
<1>6. Range(f) = {f[k] : k \in 1..m}
      BY DEF Range
<1> HIDE DEF f
<1>7. (o # <<>> => n + 1 \in 1..m) /\ n <= m
  <2>1. o # <<>> => c = 1
        BY <1>1, Zenon
  <2>2. m = n + c /\ n \in Nat /\ c \in {0, 1}
        BY <1>1, <1>4, Zenon
  <2>3. n <= m /\ (c = 1 => n + 1 \in 1..m)
        BY ONLY <2>2
  <2>4. QED  BY ONLY <2>1, <2>3
<1>8. o = <<>> => Range(o) = {}
      BY DEF Range
<1>9. \A k \in 1..m : k <= n => k \in 1..n
      BY <1>4
<1>10. \A k \in 1..n : k \in 1..m /\ k <= n
      BY <1>4, <1>7
<1>11. InTxns(Transactions(g)) = InGroup(g)
  <2>1. ASSUME NEW e \in InTxns(Transactions(g))
        PROVE  e \in InGroup(g)
    <3>1. PICK k \in 1..m : e \in Range(f[k].entries)
          BY <1>2, <1>6, <2>1 DEF InTxns
    <3>2. CASE k <= n
      <4>1. e = q[k] /\ k \in 1..n
            BY <1>5, <1>9, <3>1, <3>2
      <4>2. QED  BY <1>1, <1>4, <4>1 DEF InGroup
    <3>3. CASE k > n
          BY <1>1, <1>5, <3>1, <3>3 DEF InGroup
    <3>4. QED  BY <1>4, <3>2, <3>3
  <2>2. ASSUME NEW e \in InGroup(g)
        PROVE  e \in InTxns(Transactions(g))
    <3>1. CASE e \in Range(q)
      <4>1. PICK k \in 1..n : e = q[k]
            BY <1>4, <3>1
      <4>2. k \in 1..m /\ Range(f[k].entries) = {q[k]}
            BY <1>5, <1>10
      <4>3. f[k] \in Range(f) /\ e \in Range(f[k].entries)
            BY <1>6, <4>1, <4>2
      <4>4. QED  BY <1>2, <4>3 DEF InTxns
    <3>2. CASE e \in Range(o)
      <4>1. n + 1 \in 1..m /\ n + 1 > n
            BY <1>4, <1>7, <1>8, <3>2
      <4>2. Range(f[n + 1].entries) = Range(o) /\ f[n + 1] \in Range(f)
            BY <1>5, <1>6, <4>1
      <4>3. QED  BY <1>2, <3>2, <4>2 DEF InTxns
    <3>3. QED  BY <1>1, <2>2, <3>1, <3>2 DEF InGroup
  <2>3. QED  BY <2>1, <2>2
<1>12. ASSUME NEW t \in Range(Transactions(g)), t.bwr
       PROVE  Range(t.entries) \subseteq Range(q) /\ q # <<>>
  <2>1. PICK k \in 1..m : t = f[k]
        BY <1>2, <1>6
  <2>2. k <= n
    <3>1. k <= n \/ k > n
          BY ONLY <1>4
    <3>2. CASE k > n
      <4>1. ~f[k].bwr
            BY <1>5, <3>2
      <4>2. QED  BY <1>12, <2>1, <4>1
    <3>3. QED  BY <3>1, <3>2
  <2>3. k \in 1..n /\ Range(t.entries) = {q[k]}
        BY <1>5, <1>9, <2>1, <2>2
  <2>4. q # <<>>
        BY <1>1, <2>3
  <2>5. QED  BY <1>4, <2>3, <2>4
<1>13. QED  BY <1>1, <1>11, <1>12

(***************************************************************************)
(* What is gathered and what is run                                        *)
(***************************************************************************)

\* Every other step goes on with the plan.
LEMMA PlanGoesOn ==
    ASSUME TypesInv, Execute \/ Probing \/ Ending \/ Unnoticed \/ \E d \in Devices : Works(d)
    PROVE  SamePlan
<1>1. CASE Execute
      BY <1>1, ExecuteParts
<1>2. CASE Probing
      BY <1>2, StartProbeParts, FlushAllParts, AskParts, ProbeEndParts DEF Probing
<1>3. CASE Ending
      BY <1>3, EndParts, CancelParts DEF Ending
<1>4. CASE Unnoticed
      BY <1>4 DEF Unnoticed
<1>5. CASE \E d \in Devices : Works(d)
      BY <1>5 DEF Works
<1>6. QED  BY <1>1, <1>2, <1>3, <1>4, <1>5

\* Groups and requests that stay.
LEMMA GroupsStay ==
    ASSUME GroupsInv, SameCall, router'.groups = router.groups
    PROVE  GroupsInv'
<1>1. cfg' = cfg /\ router'.requests = router.requests
      BY DEF SameCall
<1>2. Devices' = Devices /\ \A d : Info(d)' = Info(d)
      BY <1>1, ConfigKept
<1>3. \A e : Asked(e)' <=> Asked(e)
      BY <1>1 DEF Asked
<1>4. \A d, e : Placed(d, e)' <=> Placed(d, e)
      BY <1>2 DEF Placed
<1>5. \A r : BroadcastQuery(r)' <=> BroadcastQuery(r)
      OBVIOUS
<1>6. QED  BY <1>2, <1>3, <1>4, <1>5 DEF GroupsInv

LEMMA GroupsNext ==
    ASSUME TypesInv, ControlInv, GroupsInv, [Next]_vars
    PROVE  GroupsInv'
<1>1. CASE Starting
  <2>1. Fresh
        BY <1>1, StartsFresh
  <2>2. cfg' = cfg /\ router'.groups = [d \in Devices |-> NoGroup]
        BY <2>1 DEF Fresh
  <2>3. Devices' = Devices
        BY <2>2, ConfigKept
  <2>4. Range(NoGroup.broadcast_with_reply) = {} /\ InGroup(NoGroup) = {}
        BY DEF NoGroup, InGroup, Range
  <2>5. QED  BY <2>2, <2>3, <2>4 DEF GroupsInv
<1>2. CASE Resolve
  <2>1. /\ SameCall /\ router.i \in 1..Len(router.requests) /\ router'.groups = Grouped(router.i)
        BY <1>2, ResolveParts
  <2>2. cfg' = cfg /\ router'.requests = router.requests
        BY <2>1 DEF SameCall
  <2>3. Devices' = Devices /\ \A d : Info(d)' = Info(d)
        BY <2>2, ConfigKept
  <2>4. \A e : Asked(e)' <=> Asked(e)
        BY <2>2 DEF Asked
  <2>5. \A d, e : Placed(d, e)' <=> Placed(d, e)
        BY <2>3 DEF Placed
  <2>6. ASSUME NEW d \in Devices, NEW e \in InGroup(router'.groups[d])
        PROVE  Asked(e)' /\ Placed(d, e)'
    <3>1. e \in InGroup(router.groups[d]) \/ e \in Dispatches(router.i, d)
          BY <2>1, <2>6, GroupedContents
    <3>2. Asked(e) /\ Placed(d, e)
          BY <2>1, <3>1, DispatchesPlaced DEF GroupsInv
    <3>3. QED  BY <2>4, <2>5, <3>2
  <2>7. ASSUME NEW d \in Devices, NEW e \in Range(router'.groups[d].broadcast_with_reply)
        PROVE  BroadcastQuery(e.request)
    <3>1. CASE e \in Range(router.groups[d].broadcast_with_reply)
          BY <3>1 DEF GroupsInv
    <3>2. CASE e \in Dispatches(router.i, d) /\ BroadcastQuery(router.requests[router.i])
      <4>1. Asked(e) /\ e.req = router.i
            BY <2>1, <3>2, DispatchesPlaced
      <4>2. QED  BY <3>2, <4>1 DEF Asked
    <3>3. QED  BY <2>1, <2>7, <3>1, <3>2, GroupedContents
  <2>8. QED  BY <2>3, <2>6, <2>7 DEF GroupsInv
<1>3. CASE Move
      BY <1>3, MoveParts, GroupsStay
<1>4. CASE Execute \/ Probing \/ Ending \/ Unnoticed \/ \E d \in Devices : Works(d)
  <2>1. SamePlan
        BY <1>4, PlanGoesOn
  <2>2. QED  BY <2>1, GroupsStay DEF SamePlan
<1>5. QED  BY <1>1, <1>2, <1>3, <1>4, AllSteps

\* A cycle over a single device hands it every request.
LEMMA CycleRuns ==
    ASSUME TypesInv, Cycle, router'.pc = "run"
    PROVE  /\ Devices = {1}
           /\ InTxns(router'.work[1]) =
                 {Entry(i, router'.requests[i], None) : i \in 1..Len(router'.requests)}
           /\ \A t \in Range(router'.work[1]) : ~t.bwr
<1>1. PICK call \in cfg.calls :
       LET r == Started(call.op, call.requests)
           whole == [NoGroup EXCEPT !.other =
                        [i \in DOMAIN call.requests |-> Entry(i, call.requests[i], None)]]
       IN Begin(IF Len(cfg.devices) = 1 /\ call.op = "cycle"
                THEN [r EXCEPT !.pc = "run", !.work = <<Transactions(whole)>>]
                ELSE [r EXCEPT !.pc = "resolve"])
      BY DEF Cycle
<1> DEFINE es == [i \in DOMAIN call.requests |-> Entry(i, call.requests[i], None)]
<1>2. PICK r : r = Started(call.op, call.requests)
      OBVIOUS
<1>3. PICK g : g = [NoGroup EXCEPT !.other = es]
      OBVIOUS
<1>4. DOMAIN router = RouterFields
      BY DevicesKept DEF RouterOK
<1>5. DOMAIN r = RouterFields /\ r.requests = call.requests
  <2>1. PICK op, requests : op = call.op /\ requests = call.requests
        OBVIOUS
  <2>2. r = Started(op, requests)
        BY <1>2, <2>1
  <2>3. DOMAIN r = RouterFields /\ r.requests = requests
        BY <1>4, <2>2 DEF Started, RouterFields
  <2>4. QED  BY <2>1, <2>3
<1>6. Len(cfg.devices) = 1 /\ router' = [r EXCEPT !.pc = "run", !.work = <<Transactions(g)>>]
  <2>1. \/ /\ Len(cfg.devices) = 1
           /\ router' = [r EXCEPT !.pc = "run", !.work = <<Transactions(g)>>]
        \/ router' = [r EXCEPT !.pc = "resolve"]
        BY <1>1, <1>2, <1>3, Zenon DEF Begin
  <2>2. router' # [r EXCEPT !.pc = "resolve"]
    <3>1. ASSUME router' = [r EXCEPT !.pc = "resolve"]
          PROVE  router'.pc = "resolve"
          BY ONLY <1>5, <3>1 DEF RouterFields
    <3>2. QED  BY <3>1
  <2>3. QED  BY <2>1, <2>2
<1>7. router'.requests = call.requests /\ router'.work = <<Transactions(g)>>
      BY ONLY <1>5, <1>6 DEF RouterFields
<1>8. /\ call.requests \in Seq(Requests(Len(cfg.devices))) /\ Devices = 1..Len(cfg.devices)
      BY DevicesKept, ConfigParts
<1>9. Devices = {1} /\ router'.work[1] = Transactions(g)
      BY <1>6, <1>7, <1>8
<1>10. g.broadcast_with_reply = <<>> /\ g.other = es
      BY ONLY <1>3 DEF NoGroup
<1>11. /\ DOMAIN call.requests = 1..Len(call.requests)
       /\ Range(es) = {Entry(i, call.requests[i], None) : i \in 1..Len(call.requests)}
  <2>1. DOMAIN call.requests = 1..Len(call.requests)
        BY <1>8
  <2>2. Range(es) = {Entry(i, call.requests[i], None) : i \in DOMAIN call.requests}
        BY Zenon DEF Range
  <2>3. QED  BY <2>1, <2>2
<1>12. es \in Seq(Entries)
  <2>1. ASSUME NEW i \in 1..Len(call.requests)
        PROVE  Entry(i, call.requests[i], None) \in Entries
    <3>1. call.requests[i] \in Requests(Len(cfg.devices))
          BY <1>8
    <3>2. QED  BY <1>6, <3>1 DEF Entry, Entries, None
  <2>2. QED  BY <1>8, <1>11, <2>1, FunctionAsSeq
<1> HIDE DEF es
<1>13. g \in Groups
  <2>1. \A S : <<>> \in Seq(S)
        OBVIOUS
  <2>2. QED  BY <1>3, <1>12, <2>1 DEF NoGroup, Groups
<1>14. Range(<<>>) = {}
      BY DEF Range
<1>15. InGroup(g) = Range(es)
      BY <1>10, <1>14 DEF InGroup
<1>16. InTxns(router'.work[1]) = Range(es) /\ \A t \in Range(router'.work[1]) : ~t.bwr
      BY <1>9, <1>10, <1>13, <1>15, TransactionsContents
<1>17. QED  BY <1>7, <1>9, <1>11, <1>16

\* A transaction less.
LEMMA WorkLeftParts ==
    ASSUME TypesInv, NEW d \in Devices, router.work[d] # <<>>
    PROVE  /\ router.work[d] \in Seq(Txns) /\ WorkLeft(d)[d] = Tail(router.work[d])
           /\ Txn(d) \in Range(router.work[d])
           /\ Range(router.work[d]) = {Txn(d)} \cup Range(Tail(router.work[d]))
           /\ \A e \in Devices \ {d} : WorkLeft(d)[e] = router.work[e]
<1>1. router.work \in [Devices -> Seq(Txns)]
      BY DevicesKept DEF RouterOK
<1>2. /\ WorkLeft(d)[d] = Tail(router.work[d])
      /\ \A e \in Devices \ {d} : WorkLeft(d)[e] = router.work[e]
      BY <1>1 DEF WorkLeft
<1>3. router.work[d] \in Seq(Txns)
      BY <1>1
<1>4. Range(router.work[d]) = {Head(router.work[d])} \cup Range(Tail(router.work[d]))
      BY <1>3, RangeParts
<1>5. QED  BY <1>2, <1>3, <1>4 DEF Txn

\* Devices that work have less to do.
LEMMA WorkShrinks ==
    ASSUME TypesInv, NEW d \in Devices, Works(d)
    PROVE  \A e \in Devices : Range(router'.work[e]) \subseteq Range(router.work[e])
<1>1. router.work[d] # <<>> /\ router'.work \in {router.work, NoWork, WorkLeft(d)}
      BY DEF Works, GivesUp, Finishes
<1>2. \A e \in Devices : NoWork[e] = <<>>
      BY DEF NoWork
<1>3. Range(<<>>) = {}
      BY DEF Range
<1>4. \A e \in Devices : Range(WorkLeft(d)[e]) \subseteq Range(router.work[e])
      BY <1>1, WorkLeftParts
<1>5. QED  BY <1>1, <1>2, <1>3, <1>4

LEMMA WorkStays ==
    ASSUME WorkInv, SamePlan, router'.pc = router.pc,
           \A d \in Devices : Range(router'.work[d]) \subseteq Range(router.work[d])
    PROVE  WorkInv'
<1>1. cfg' = cfg
      BY DEF SamePlan, SameCall
<1>2. Devices' = Devices
      BY <1>1, ConfigKept
<1>3. \A d \in Devices : InTxns(router'.work[d]) \subseteq InTxns(router.work[d])
      BY DEF InTxns
<1>4. /\ \A d, e : (ProbeEntry(d, e)' <=> ProbeEntry(d, e)) /\ (Placed(d, e)' <=> Placed(d, e))
      /\ \A e : Asked(e)' <=> Asked(e)
      BY SoughtKept
<1>5. ASSUME NEW d \in Devices
      PROVE  /\ router'.pc = "probe" => \A e \in InTxns(router'.work[d]) : ProbeEntry(d, e)'
             /\ router'.pc = "run" =>
                   /\ \A e \in InTxns(router'.work[d]) : Asked(e)' /\ Placed(d, e)'
                   /\ \A t \in Range(router'.work[d]) : t.bwr =>
                          \A e \in Range(t.entries) : BroadcastQuery(e.request)
      BY <1>3, <1>4 DEF WorkInv
<1>6. QED  BY <1>2, <1>5 DEF WorkInv

LEMMA WorkNext ==
    ASSUME TypesInv, ControlInv, GroupsInv, WorkInv, [Next]_vars
    PROVE  WorkInv'
<1>1. CASE router'.pc \notin {"probe", "run"}
      BY <1>1 DEF WorkInv
<1>2. CASE Starting /\ router'.pc \in {"probe", "run"}
  <2>1. Fresh
        BY <1>2, StartsFresh
  <2>2. router'.pc = "run" /\ Cycle /\ cfg' = cfg
        BY <1>2, <2>1 DEF Fresh
  <2>3. /\ Devices = {1}
        /\ InTxns(router'.work[1]) =
              {Entry(i, router'.requests[i], None) : i \in 1..Len(router'.requests)}
        /\ \A t \in Range(router'.work[1]) : ~t.bwr
        BY <2>2, CycleRuns
  <2>4. \A e \in InTxns(router'.work[1]) : Asked(e)' /\ Placed(1, e)'
        BY <2>3 DEF Asked, Placed, Entry
  <2>5. Devices' = Devices
        BY <2>2, ConfigKept
  <2>6. QED  BY <2>2, <2>3, <2>4, <2>5 DEF WorkInv
<1>3. CASE Execute
  <2>1. /\ SamePlan /\ router'.pc = "run"
        /\ router'.work = [d \in Devices |-> Transactions(router.groups[d])]
        BY <1>3, ExecuteParts
  <2>2. Devices' = Devices
        BY <2>1, ConfigKept DEF SamePlan, SameCall
  <2>3. ASSUME NEW d \in Devices
        PROVE  /\ \A e \in InTxns(router'.work[d]) : Asked(e) /\ Placed(d, e)
               /\ \A t \in Range(router'.work[d]) : t.bwr =>
                      \A e \in Range(t.entries) : BroadcastQuery(e.request)
    <3>1. router.groups[d] \in Groups /\ router'.work[d] = Transactions(router.groups[d])
          BY <2>1, DevicesKept DEF RouterOK
    <3>2. /\ \A e \in InGroup(router.groups[d]) : Asked(e) /\ Placed(d, e)
          /\ \A e \in Range(router.groups[d].broadcast_with_reply) : BroadcastQuery(e.request)
          BY DEF GroupsInv
    <3>3. QED  BY <3>1, <3>2, TransactionsContents
  <2>4. \A d, e : (Placed(d, e)' <=> Placed(d, e)) /\ (Asked(e)' <=> Asked(e))
        BY <2>1, SoughtKept
  <2>5. QED  BY <2>1, <2>2, <2>3, <2>4 DEF WorkInv
<1>4. CASE AskInTurn \/ AskInParallel
  <2>1. /\ SamePlan /\ router'.pc = "probe"
        /\ \A d \in Devices : \A e \in InTxns(router'.work[d]) :
              /\ e.req = 0 /\ e.child = None
              /\ IF cfg.async THEN e.request = receive_only(Probe.expected)
                 ELSE e.request = Probe /\ d \in BroadcastTargets
        BY <1>4, AskParts
  <2>2. \A d \in Devices : \A e \in InTxns(router'.work[d]) : ProbeEntry(d, e)
        BY <2>1 DEF ProbeEntry
  <2>3. \A d, e : ProbeEntry(d, e)' <=> ProbeEntry(d, e)
        BY <2>1, SoughtKept
  <2>4. Devices' = Devices
        BY <2>1, ConfigKept DEF SamePlan, SameCall
  <2>5. QED  BY <2>1, <2>2, <2>3, <2>4 DEF WorkInv
<1>5. CASE Unnoticed
  <2>1. SamePlan /\ router'.pc = router.pc /\ router'.work = router.work
        BY <1>5 DEF Unnoticed
  <2>2. QED  BY <2>1, WorkStays
<1>6. CASE \E d \in Devices : Works(d)
  <2>1. SamePlan /\ router'.pc = router.pc
        BY <1>6 DEF Works
  <2>2. QED  BY <1>6, <2>1, WorkShrinks, WorkStays
<1>7. CASE Resolve \/ StartProbe \/ FlushAll \/ ProbeEnd \/ Ending \/ Move
  <2>1. router'.pc \notin {"probe", "run"}
        BY <1>7, ResolveParts, StartProbeParts, FlushAllParts, ProbeEndParts, EndParts, CancelParts,
           MoveParts DEF Ending
  <2>2. QED  BY <1>1, <2>1
<1>8. QED  BY <1>1, <1>2, <1>3, <1>4, <1>5, <1>6, <1>7, AllSteps DEF Probing

\* The frames of a transaction are those of its entries.
LEMMA FramesWithin ==
    ASSUME TypesInv, NEW d \in Devices, router.work[d] # <<>>
    PROVE  /\ AllFrames(d) = {e \in Range(Txn(d).entries) : e.request.frame # NoFrame}
           /\ AllFrames(d) \subseteq InTxns(router.work[d])
           /\ Txn(d).entries \in Seq(Entries)
<1>1. Txn(d) \in Range(router.work[d])
      BY WorkLeftParts
<1>2. Txn(d) \in Txns
      BY TxnType
<1>3. Txn(d).entries \in Seq(Entries)
      BY <1>2 DEF Txns
<1> DEFINE es == Txn(d).entries
<1> HIDE DEF es
<1>4. DOMAIN es = 1..Len(es)
      BY <1>3 DEF es
<1>5. AllFrames(d) = {es[j] : j \in {j \in 1..Len(es) : es[j].request.frame # NoFrame}}
      BY DEF AllFrames, Frames, es
<1>6. AllFrames(d) = {e \in Range(es) : e.request.frame # NoFrame}
      BY <1>4, <1>5 DEF Range
<1>7. Range(es) \subseteq InTxns(router.work[d])
      BY <1>1 DEF InTxns, es
<1>8. QED  BY <1>3, <1>6, <1>7 DEF es

\* Probes execute nothing.
LEMMA ProbesQuiet ==
    ASSUME TypesInv, NEW d \in Devices, router.work[d] # <<>>, WorkInv, router.pc = "probe"
    PROVE  Effects(d, AllFrames(d)) = {}
<1>1. \A e \in AllFrames(d) : e.req = 0
      BY FramesWithin DEF WorkInv, ProbeEntry
<1>2. ASSUME NEW x \in Executions(d, AllFrames(d))
      PROVE  x[2] = 0
  <2>1. PICK e \in AllFrames(d) :
           x \in {<<router.n, e.req, s>> : s \in Listeners(BusOf(d, e), e.request.frame)}
        BY <1>2 DEF Executions
  <2>2. QED  BY <1>1, <2>1
<1>3. QED  BY <1>2 DEF Effects

LEMMA QuietNext ==
    ASSUME TypesInv, ControlInv, WorkInv, QuietInv, [Next]_vars
    PROVE  QuietInv'
<1>1. CASE Starting
  <2>1. Fresh
        BY <1>1, StartsFresh
  <2>2. QED  BY <2>1 DEF Fresh, QuietInv
<1>2. CASE Resolve
      BY <1>2, ResolveParts DEF QuietInv
<1>3. CASE Execute
      BY <1>3, ExecuteParts DEF QuietInv
<1>4. CASE Probing
  <2>1. CASE StartProbe
        BY <2>1, StartProbeParts DEF QuietInv
  <2>2. CASE FlushAll
        BY <2>2, FlushAllParts DEF QuietInv
  <2>3. CASE AskInTurn \/ AskInParallel
        BY <2>3, AskParts DEF QuietInv
  <2>4. CASE ProbeEnd
        BY <2>4, ProbeEndParts DEF QuietInv
  <2>5. QED  BY <1>4, <2>1, <2>2, <2>3, <2>4 DEF Probing
<1>5. CASE Ending
      BY <1>5, EndParts, CancelParts DEF Ending, QuietInv
<1>6. CASE Move
      BY <1>6, MoveParts DEF QuietInv
<1>7. CASE Unnoticed
      BY <1>7 DEF Unnoticed, QuietInv
<1>8. ASSUME NEW d \in Devices, Works(d)
      PROVE  QuietInv'
  <2>1. /\ router.pc \in {"probe", "run"} /\ router'.pc = router.pc /\ router'.result = router.result
        /\ hist'.executed \subseteq hist.executed \cup Effects(d, AllFrames(d))
        /\ router.work[d] # <<>>
        BY <1>8 DEF Works, Running
  <2>2. CASE router.pc = "probe"
        BY <2>1, <2>2, ProbesQuiet DEF QuietInv
  <2>3. CASE router.pc = "run"
        BY <2>1, <2>3 DEF QuietInv
  <2>4. QED  BY <2>1, <2>2, <2>3
<1>9. QED  BY <1>1, <1>2, <1>3, <1>4, <1>5, <1>6, <1>7, <1>8, AllSteps

\* Initially nothing is planned, run or executed.
LEMMA PlansInit ==
    ASSUME Init
    PROVE  GroupsInv /\ WorkInv /\ QuietInv
<1>1. /\ router.pc = "idle" /\ router.groups = [d \in Devices |-> NoGroup] /\ router.result = "none"
      BY DEF Init
<1>2. Range(NoGroup.broadcast_with_reply) = {} /\ InGroup(NoGroup) = {}
      BY DEF NoGroup, InGroup, Range
<1>3. GroupsInv
      BY <1>1, <1>2 DEF GroupsInv
<1>4. QED  BY <1>1, <1>3 DEF WorkInv, QuietInv

\* LookupErrorSendsNothing: an address that is found nowhere, or twice, fails the
\* operation before any of its frames is sent, since every request is resolved
\* before the first transaction.
THEOREM LookupErrorIsSilent == Spec => []LookupErrorSendsNothing
<1> DEFINE Inv == TypesInv /\ ControlInv /\ GroupsInv /\ WorkInv /\ QuietInv
<1>1. Init => Inv
      BY TypesInit, PlansInit
<1>2. Inv /\ [Next]_vars => Inv'
  <2> SUFFICES ASSUME Inv, [Next]_vars
               PROVE  Inv'
      OBVIOUS
  <2>1. TypesInv' /\ ControlInv'
        BY TypesNext
  <2>2. GroupsInv' /\ WorkInv' /\ QuietInv'
        BY GroupsNext, WorkNext, QuietNext
  <2>3. QED  BY <2>1, <2>2
<1>3. Inv => LookupErrorSendsNothing
      BY DEF QuietInv, LookupErrorSendsNothing
<1>4. QED
  <2> HIDE DEF Inv
  <2> QED  BY <1>1, <1>2, <1>3, PTL DEF Spec

(***************************************************************************)
(* Routes that probing has found                                           *)
(***************************************************************************)

\* Only Move changes where controllers are, only a start changes the requests.
LEMMA StepKeeps ==
    ASSUME TypesInv, ControlInv, [Next]_vars
    PROVE  /\ cfg' = cfg /\ (hist.moved => hist'.moved)
           /\ Move \/ (servers' = servers /\ hist'.moved = hist.moved)
           /\ Starting \/ router'.requests = router.requests
<1>1. CASE Starting
  <2>1. Fresh
        BY <1>1, StartsFresh
  <2>2. QED  BY <1>1, <2>1 DEF Fresh
<1>2. CASE Resolve
  <2>1. SameCall /\ servers' = servers /\ hist' = hist
        BY <1>2, ResolveParts
  <2>2. QED  BY <2>1 DEF SameCall
<1>3. CASE Move
  <2>1. SameCall /\ hist'.moved
        BY <1>3, MoveParts
  <2>2. QED  BY <1>3, <2>1 DEF SameCall
<1>4. CASE Execute \/ Probing \/ Ending \/ Unnoticed \/ \E d \in Devices : Works(d)
  <2>1. SamePlan
        BY <1>4, PlanGoesOn
  <2>2. QED  BY <2>1 DEF SamePlan, SameCall
<1>5. QED  BY <1>1, <1>2, <1>3, <1>4, AllSteps

\* Probes are conclusive until controllers move.
LEMMA ConclusiveKept ==
    ASSUME cfg' = cfg, hist.moved => hist'.moved
    PROVE  ProbesConclusive' => ProbesConclusive
<1>1. Adapters' = Adapters /\ OwnQueues' = OwnQueues /\ CanIdsOnly' = CanIdsOnly
      BY ConfigKept
<1>2. QED  BY <1>1 DEF ProbesConclusive

\* Who answers.
LEMMA AnswersFrom ==
    ASSUME NEW d, NEW e, NEW r \in Answers(d, e)
    PROVE  /\ r.server \in DOMAIN servers /\ r.source = servers[r.server].id
           /\ servers[r.server].bus = BusOf(d, e) /\ Accepts(servers[r.server], e.request.frame)
<1>1. PICK s \in Listeners(BusOf(d, e), e.request.frame) : r.server = s /\ r.source = servers[s].id
      BY DEF Answers
<1>2. QED  BY <1>1 DEF Listeners

\* The devices' own types.
LEMMA ArrivedType ==
    ASSUME TypesInv, NEW d \in Devices
    PROVE  Arrived(d) \subseteq Reply
<1>1. dev[d] \in DeviceStates /\ bus[d] \subseteq Reply
      BY DevicesKept DEF DevicesOK
<1>2. dev[d].rx \in Seq(Reply)
      BY <1>1 DEF DeviceStates
<1>3. Range(dev[d].rx) \subseteq Reply
      BY <1>2, RangeParts
<1>4. QED  BY <1>1, <1>3 DEF Arrived

\* What arrives at a device comes from its bus or that of a child, and bears
\* the CAN id of who sent it.
LEMMA ArrivedNext ==
    ASSUME TypesInv, ControlInv, WorkInv, [Next]_vars, NEW d \in Devices, NEW r \in Arrived(d)'
    PROVE  \/ r \in Arrived(d)
           \/ /\ servers' = servers /\ r.source = servers[r.server].id
              /\ servers[r.server].bus = d \/ Info(servers[r.server].bus).parent = d
<1>1. CASE Starting
  <2>1. Fresh
        BY <1>1, StartsFresh
  <2>2. QED  BY <2>1 DEF Fresh
<1>2. CASE Resolve \/ Execute \/ StartProbe \/ ProbeEnd \/ DiscoverEnd \/ RunEnd \/ Move
  <2>1. dev' = dev /\ bus' = bus
        BY <1>2, ResolveParts, ExecuteParts, StartProbeParts, ProbeEndParts, EndParts, MoveParts
  <2>2. QED  BY <2>1 DEF Arrived
<1>3. CASE FlushAll \/ Cancel
  <2>1. Arrived(d)' \subseteq Arrived(d)
        BY <1>3, FlushAllParts, CancelParts
  <2>2. QED  BY <2>1
<1>4. CASE AskInTurn \/ AskInParallel
  <2>1. servers' = servers /\ Arrived(d)' \subseteq Arrived(d) \cup AskAnswers(d)
        BY <1>4, AskParts DEF SamePlan
  <2>2. CASE r \in AskAnswers(d)
    <3>1. r \in Answers(d, AskEntry)
          BY <2>2 DEF AskAnswers
    <3>2. BusOf(d, AskEntry) = d
          BY DEF BusOf, AskEntry, Entry
    <3>3. QED  BY <2>1, <3>1, <3>2, AnswersFrom
  <2>3. QED  BY <2>1, <2>2
<1>5. CASE Unnoticed
  <2>1. servers' = servers /\ Arrived(d)' \subseteq Arrived(d) \cup Overheard(d)
        BY <1>5 DEF Unnoticed, SamePlan
  <2>2. QED  BY <2>1 DEF Overheard
<1>6. ASSUME NEW c \in Devices, Works(c)
      PROVE  \/ r \in Arrived(d)
             \/ /\ servers' = servers /\ r.source = servers[r.server].id
                /\ servers[r.server].bus = d \/ Info(servers[r.server].bus).parent = d
  <2>1. /\ servers' = servers /\ router.pc \in {"probe", "run"} /\ router.work[c] # <<>>
        /\ Arrived(c)' \subseteq Arrived(c) \cup AnswersTo(c, AllFrames(c))
        /\ \A e \in Devices \ {c} : dev'[e] = dev[e] /\ bus'[e] = bus[e]
        BY <1>6 DEF Works, SamePlan, Running
  <2>2. CASE c # d
    <3>1. Arrived(d)' = Arrived(d)
          BY <2>1, <2>2 DEF Arrived
    <3>2. QED  BY <3>1
  <2>3. CASE c = d /\ r \in AnswersTo(d, AllFrames(d))
    <3>1. PICK e \in AllFrames(d) : r \in Answers(d, e)
          BY <2>3 DEF AnswersTo
    <3>2. e \in InTxns(router.work[d])
          BY <2>1, <2>3, <3>1, FramesWithin
    <3>3. e.child = None \/ Info(e.child).parent = d
          BY <2>1, <3>2 DEF WorkInv, ProbeEntry, Placed
    <3>4. BusOf(d, e) = d \/ Info(BusOf(d, e)).parent = d
          BY <3>3 DEF BusOf
    <3>5. QED  BY <2>1, <3>1, <3>4, AnswersFrom
  <2>4. QED  BY <2>1, <2>2, <2>3
<1>7. QED  BY <1>1, <1>2, <1>3, <1>4, <1>5, <1>6, AllSteps DEF Probing, Ending

LEMMA NearNext ==
    ASSUME TypesInv, ControlInv, WorkInv, HonestInv, NearInv, [Next]_vars
    PROVE  HonestInv' /\ NearInv'
<1>1. cfg' = cfg /\ (Move \/ (servers' = servers /\ hist'.moved = hist.moved))
      BY StepKeeps
<1>2. Devices' = Devices /\ \A b : Info(b)' = Info(b)
      BY <1>1, ConfigKept
<1>3. CASE Move
  <2>1. /\ dev' = dev /\ bus' = bus /\ hist'.moved
        /\ \A s \in DOMAIN servers : servers'[s].id = servers[s].id
        BY <1>3, MoveParts
  <2>2. \A d \in Devices : Arrived(d)' = Arrived(d) /\ Arrived(d) \subseteq Reply
        BY <2>1, ArrivedType DEF Arrived
  <2>3. \A r \in Reply : r.server \in DOMAIN servers
        BY DEF Reply
  <2>4. HonestInv'
        BY <1>2, <2>1, <2>2, <2>3 DEF HonestInv
  <2>5. QED  BY <2>1, <2>4 DEF NearInv
<1>4. CASE servers' = servers /\ hist'.moved = hist.moved
  <2>1. ASSUME NEW d \in Devices, NEW r \in Arrived(d)'
        PROVE  /\ r.source = servers'[r.server].id
               /\ ~hist'.moved => \/ servers'[r.server].bus = d
                                  \/ Info(servers'[r.server].bus).parent = d
        BY <1>4, ArrivedNext DEF HonestInv, NearInv
  <2>2. ASSUME NEW d \in Devices, NEW r \in Arrived(d)', ~hist'.moved
        PROVE  servers'[r.server].bus = d \/ Info(servers[r.server].bus)'.parent = d
    <3>1. Info(servers[r.server].bus)' = Info(servers'[r.server].bus)
          BY <1>1 DEF Info
    <3>2. QED  BY <2>1, <2>2, <3>1
  <2>3. QED  BY <1>2, <2>1, <2>2 DEF HonestInv, NearInv
<1>5. QED  BY <1>1, <1>3, <1>4

\* Whether an address is known depends on the plan and the routes.
LEMMA UnknownKept ==
    ASSUME SamePlan, router'.routes = router.routes
    PROVE  Unknown(Sought)' <=> Unknown(Sought)
<1>1. cfg' = cfg /\ Sought' = Sought /\ LookupAddress(Sought)' = LookupAddress(Sought)
      BY SoughtKept DEF SamePlan, SameCall
<1>2. Lookup(LookupAddress(Sought))' = Lookup(LookupAddress(Sought))
      BY <1>1 DEF Lookup
<1>3. IsTrueBroadcast(Sought)' <=> IsTrueBroadcast(Sought)
      BY <1>1 DEF IsTrueBroadcast
<1>4. QED  BY <1>1, <1>2, <1>3 DEF Unknown

\* Steps that go on probing keep the plan and the routes.
LEMMA SeekingKept ==
    ASSUME TypesInv, ControlInv, [Next]_vars, Seeking'
    PROVE  /\ SamePlan /\ SameRoutes /\ (StartProbe \/ Seeking)
           /\ StartProbe \/ FlushAll \/ AskInTurn \/ AskInParallel \/ Unnoticed \/ \E d \in Devices : Works(d)
<1>1. CASE Starting
  <2>1. Fresh
        BY <1>1, StartsFresh
  <2>2. QED  BY <2>1 DEF Fresh, Seeking
<1>2. CASE Resolve \/ Execute \/ ProbeEnd \/ Ending \/ Move
  <2>1. router'.pc \notin {"flush", "ask", "probe"}
        BY <1>2, ResolveParts, ExecuteParts, ProbeEndParts, EndParts, CancelParts, MoveParts DEF Ending
  <2>2. QED  BY <2>1 DEF Seeking
<1>3. CASE StartProbe
      BY <1>3, StartProbeParts
<1>4. CASE FlushAll
      BY <1>4, FlushAllParts DEF Seeking, SamePlan, SameCall
<1>5. CASE AskInTurn \/ AskInParallel
      BY <1>5, AskParts DEF Seeking, SamePlan, SameCall
<1>6. CASE Unnoticed
      BY <1>6 DEF Unnoticed, Seeking, SamePlan, SameCall
<1>7. CASE \E d \in Devices : Works(d)
      BY <1>7 DEF Works, Seeking, SamePlan, SameCall
<1>8. QED  BY <1>1, <1>2, <1>3, <1>4, <1>5, <1>6, <1>7, AllSteps DEF Probing

LEMMA SoughtNext ==
    ASSUME TypesInv, ControlInv, SoughtInv, [Next]_vars
    PROVE  SoughtInv'
<1>1. ASSUME Seeking'
      PROVE  Unknown(Sought)'
  <2>1. SamePlan /\ router'.routes = router.routes /\ (StartProbe \/ Seeking)
        BY <1>1, SeekingKept DEF SameRoutes
  <2>2. Unknown(Sought)
        BY <2>1, StartProbeParts DEF SoughtInv
  <2>3. QED  BY <2>1, <2>2, UnknownKept
<1>2. ASSUME CanIdsOnly', NEW i \in 1..Len(router'.requests)
      PROVE  router'.requests[i].address.uuid = <<>>
  <2>1. CanIdsOnly
        BY <1>2, StepKeeps, ConfigKept
  <2>2. CASE Starting
    <3>1. PICK call \in cfg.calls : \E j \in DOMAIN call.requests :
              router'.requests[i] = call.requests[j]
          BY <1>2, <2>2, StartsFresh DEF Fresh
    <3>2. QED  BY <2>1, <3>1 DEF CanIdsOnly
  <2>3. CASE router'.requests = router.requests
        BY <1>2, <2>1, <2>3 DEF SoughtInv
  <2>4. QED  BY <2>2, <2>3, StepKeeps
<1>3. QED  BY <1>1, <1>2 DEF SoughtInv

\* What the probe for an address asks.
LEMMA ProbeAsks ==
    ASSUME TypesInv, Seeking
    PROVE  LET a == LookupAddress(Sought)
           IN /\ Probe.from = a.id
              /\ Probe.frame = [dest |-> a.id, mask |-> a.uuid, asks |-> "mode"]
              /\ Unknown(Sought) /\ Sought.address.uuid = <<>> => a.id # Broadcast /\ a.uuid = <<>>
<1> DEFINE a == LookupAddress(Sought)
<1>1. Sought \in Requests(Len(cfg.devices)) /\ WellAddressed(Sought)
  <2>1. /\ router.requests \in Seq(Requests(Len(cfg.devices))) /\ router.i \in 1..Len(router.requests)
        /\ WellAddressed(router.requests[router.i])
        BY DevicesKept DEF RouterOK, Seeking
  <2>2. QED  BY <2>1 DEF Sought
<1>2. a.id # Broadcast => a.uuid = <<>>
  <2>1. NoAddress.uuid = <<>> /\ \A n : can_id(n).uuid = <<>>
        BY DEF NoAddress, can_id
  <2>2. QED  BY <1>1, <2>1 DEF WellAddressed, LookupAddress
<1>3. Probe = Request([dest |-> a.id, mask |-> IF a.id = Broadcast THEN a.uuid ELSE <<>>, asks |-> "mode"])
      BY DEF Probe, Seeking
<1>4. /\ Probe.from = a.id
      /\ Probe.frame = [dest |-> a.id, mask |-> IF a.id = Broadcast THEN a.uuid ELSE <<>>, asks |-> "mode"]
      BY <1>3 DEF Request
<1>5. (IF a.id = Broadcast THEN a.uuid ELSE <<>>) = a.uuid
      BY <1>2
<1>6. ASSUME Unknown(Sought), Sought.address.uuid = <<>>
      PROVE  a.id # Broadcast /\ a.uuid = <<>>
  <2>1. Sought.frame # NoFrame /\ Sought.frame.dest # Broadcast
        BY <1>6 DEF Unknown, IsTrueBroadcast
  <2>2. CASE Sought.address = NoAddress
        BY <2>1, <2>2 DEF LookupAddress, can_id
  <2>3. CASE Sought.address # NoAddress
    <3>1. Sought.frame.dest = Sought.address.id
      <4>1. Sought.frame = from_command(Sought.address, Sought.frame.asks).frame
            BY <1>1, <2>1, <2>3 DEF WellAddressed
      <4>2. from_command(Sought.address, Sought.frame.asks).frame.dest = Sought.address.id
            BY DEF from_command
      <4>3. QED  BY <4>1, <4>2
    <3>2. QED  BY <1>6, <2>1, <2>3, <3>1 DEF LookupAddress
  <2>4. QED  BY <2>2, <2>3
<1>7. QED  BY <1>4, <1>5, <1>6

\* Probes that wait on the devices send no frames: only the blocking router's do.
LEMMA ProbeAnswers ==
    ASSUME TypesInv, WorkInv, router.pc = "probe", NEW d \in Devices, router.work[d] # <<>>,
           NEW r \in AnswersTo(d, AllFrames(d))
    PROVE  /\ d \in BroadcastTargets /\ servers[r.server].bus = d
           /\ Accepts(servers[r.server], Probe.frame)
<1>1. PICK e \in AllFrames(d) : r \in Answers(d, e)
      BY DEF AnswersTo
<1>2. ProbeEntry(d, e) /\ e.request.frame # NoFrame
      BY <1>1, FramesWithin DEF WorkInv
<1>3. ~cfg.async
  <2>1. receive_only(Probe.expected).frame = NoFrame
        BY DEF receive_only, Request
  <2>2. QED  BY <1>2, <2>1 DEF ProbeEntry
<1>4. e.request = Probe /\ d \in BroadcastTargets /\ BusOf(d, e) = d
      BY <1>2, <1>3 DEF ProbeEntry, BusOf
<1>5. QED  BY <1>1, <1>4, AnswersFrom

LEMMA CleanNext ==
    ASSUME TypesInv, ControlInv, WorkInv, CleanInv, [Next]_vars
    PROVE  CleanInv'
<1> SUFFICES ASSUME Adapters', Seeking', router'.pc # "flush"
             PROVE  \A d \in Devices : \A r \in Arrived(d)' :
                       /\ servers'[r.server].bus = d
                       /\ "stranger" \notin cfg'.faults =>
                             d \in BroadcastTargets' /\ Accepts(servers[r.server], Probe.frame)'
  <2>1. Devices' = Devices
        BY StepKeeps, ConfigKept
  <2>2. QED  BY <2>1 DEF CleanInv
<1>1. /\ SamePlan /\ (StartProbe \/ Seeking)
      /\ StartProbe \/ FlushAll \/ AskInTurn \/ AskInParallel \/ Unnoticed \/ \E d \in Devices : Works(d)
      BY SeekingKept
<1>2. /\ cfg' = cfg /\ servers' = servers /\ Adapters /\ BroadcastTargets' = BroadcastTargets
      /\ Probe' = Probe
  <2>1. cfg' = cfg /\ servers' = servers
        BY <1>1 DEF SamePlan, SameCall
  <2>2. QED  BY <1>1, <2>1, ConfigKept, SoughtKept
<1>3. \A s : Accepts(servers[s], Probe.frame)' <=> Accepts(servers[s], Probe.frame)
      BY <1>2 DEF Accepts
<1> DEFINE Clean(d, r) ==
              /\ servers[r.server].bus = d
              /\ "stranger" \notin cfg.faults =>
                    d \in BroadcastTargets /\ Accepts(servers[r.server], Probe.frame)
<1>4. (Seeking /\ router.pc # "flush") => \A d \in Devices : \A r \in Arrived(d) : Clean(d, r)
      BY <1>2 DEF CleanInv
<1>5. SUFFICES ASSUME NEW d \in Devices, NEW r \in Arrived(d)'
               PROVE  Clean(d, r)
      BY <1>2, <1>3
<1> HIDE DEF Clean
<1>6. CASE StartProbe
      BY <1>6, StartProbeParts
<1>7. CASE FlushAll
  <2>1. router.op # "discover"
        BY <1>1 DEF Seeking, SamePlan, SameCall
  <2>2. Arrived(d)' = {}
        BY <1>2, <1>7, <2>1, FlushAllParts
  <2>3. QED  BY <1>5, <2>2
<1>8. CASE AskInTurn \/ AskInParallel
  <2>1. router.pc = "ask" /\ Arrived(d)' \subseteq Arrived(d) \cup AskAnswers(d)
        BY <1>8, AskParts
  <2>2. CASE r \in Arrived(d)
    <3>1. Seeking
          BY <1>1, <2>1, StartProbeParts
    <3>2. QED  BY <1>4, <2>1, <2>2, <3>1
  <2>3. CASE r \in AskAnswers(d)
    <3>1. d \in BroadcastTargets /\ r \in Answers(d, AskEntry)
          BY <2>3 DEF AskAnswers
    <3>2. BusOf(d, AskEntry) = d /\ AskEntry.request = Probe
          BY DEF BusOf, AskEntry, Entry
    <3>3. QED  BY <3>1, <3>2, AnswersFrom DEF Clean
  <2>4. QED  BY <1>5, <2>1, <2>2, <2>3
<1>9. CASE Unnoticed
  <2>1. router'.pc = router.pc /\ Arrived(d)' \subseteq Arrived(d) \cup Overheard(d)
        BY <1>9 DEF Unnoticed
  <2>2. CASE r \in Arrived(d)
    <3>1. Seeking
      <4>1. SamePlan
            BY <1>1
      <4>2. QED  BY <2>1, <4>1 DEF Seeking, SamePlan, SameCall
    <3>2. QED  BY <1>4, <2>1, <2>2, <3>1
  <2>3. CASE r \in Overheard(d)
        BY <2>3 DEF Overheard, Clean
  <2>4. QED  BY <1>5, <2>1, <2>2, <2>3
<1>10. ASSUME NEW c \in Devices, Works(c)
       PROVE  Clean(d, r)
  <2>1. /\ router'.pc = router.pc /\ router.pc \in {"probe", "run"} /\ router.work[c] # <<>>
        /\ Arrived(c)' \subseteq Arrived(c) \cup AnswersTo(c, AllFrames(c))
        /\ \A e \in Devices \ {c} : dev'[e] = dev[e] /\ bus'[e] = bus[e]
        BY <1>10 DEF Works, Running
  <2>2. Seeking /\ router.pc = "probe"
    <3>1. SamePlan
          BY <1>1
    <3>2. QED  BY <2>1, <3>1 DEF Seeking, SamePlan, SameCall
  <2>3. CASE r \in Arrived(d)
        BY <1>4, <2>2, <2>3
  <2>4. CASE c = d /\ r \in AnswersTo(d, AllFrames(d))
        BY <2>1, <2>2, <2>4, ProbeAnswers DEF Clean
  <2>5. r \in Arrived(d) \/ (c = d /\ r \in AnswersTo(d, AllFrames(d)))
    <3>1. CASE c = d
          BY <1>5, <2>1, <3>1
    <3>2. CASE c # d
      <4>1. Arrived(d)' = Arrived(d)
            BY <2>1, <3>2 DEF Arrived
      <4>2. QED  BY <1>5, <4>1
    <3>3. QED  BY <3>1, <3>2
  <2>6. QED  BY <2>3, <2>4, <2>5
<1>11. QED  BY <1>1, <1>6, <1>7, <1>8, <1>9, <1>10

\* What a probe takes for its answer is one.
LEMMA ProbeFinds ==
    ASSUME TypesInv, WorkInv, SoughtInv, HonestInv, NearInv, CleanInv, ProbesConclusive,
           Seeking, router.pc = "probe", NEW d \in Devices, NEW r \in Arrived(d),
           NEW e \in InTxns(router.work[d]), matches(e.request, r)
    PROVE  /\ d \in BroadcastTargets /\ servers[r.server].bus = d
           /\ Accepts(servers[r.server], Probe.frame)
<1>1. CASE Adapters /\ "stranger" \notin cfg.faults
      BY <1>1 DEF CleanInv
<1>2. CASE ~cfg.async /\ CanIdsOnly /\ (Adapters \/ (~hist.moved /\ OwnQueues))
  <2>1. e.request = Probe /\ d \in BroadcastTargets
        BY <1>2 DEF WorkInv, ProbeEntry
  <2> DEFINE a == LookupAddress(Sought)
  <2>2. Unknown(Sought) /\ Sought.address.uuid = <<>>
    <3>1. router.i \in 1..Len(router.requests)
          BY DevicesKept DEF RouterOK, Seeking
    <3>2. QED  BY <1>2, <3>1 DEF SoughtInv, Sought
  <2>3. /\ Probe.from = a.id /\ a.id # Broadcast
        /\ Probe.frame = [dest |-> a.id, mask |-> <<>>, asks |-> "mode"]
        BY <2>2, ProbeAsks
  <2>4. r \in Reply /\ r.source = servers[r.server].id
        BY ArrivedType DEF HonestInv
  <2>5. servers[r.server].id = a.id
        BY <2>1, <2>3, <2>4 DEF matches
  <2>6. Accepts(servers[r.server], Probe.frame)
    <3>1. servers[r.server] \in ServerInfos(Len(cfg.devices))
          BY <2>4, DevicesKept DEF Reply
    <3>2. servers[r.server].uuid \in Seq(Nat)
          BY <3>1 DEF ServerInfos
    <3>3. \A u \in Seq(Nat) : IsPrefix(<<>>, u)
          BY DEF IsPrefix
    <3>4. IsPrefix(<<>>, servers[r.server].uuid)
          BY <3>2, <3>3
    <3> HIDE DEF a
    <3>5. QED  BY <2>3, <2>5, <3>4 DEF Accepts
  <2>7. servers[r.server].bus = d
    <3>1. CASE Adapters
          BY <3>1 DEF CleanInv
    <3>2. CASE ~hist.moved /\ OwnQueues
      <4>1. servers[r.server].bus = d \/ Info(servers[r.server].bus).parent = d
            BY <3>2 DEF NearInv
      <4>2. servers[r.server].bus \in Devices
        <5>1. servers[r.server] \in ServerInfos(Len(cfg.devices))
              BY <2>4, DevicesKept DEF Reply
        <5>2. QED  BY <5>1, DevicesKept, ConfigParts DEF ServerInfos
      <4>3. ~Info(d).parentOnly /\ d # None
            BY <2>1, DevicesKept, DeviceParts DEF BroadcastTargets, HasBus, None
      <4>4. Info(servers[r.server].bus).parent # d
            BY <3>2, <4>2, <4>3 DEF OwnQueues
      <4>5. QED  BY <4>1, <4>4
    <3>3. QED  BY <1>2, <3>1, <3>2
  <2>8. QED  BY <2>1, <2>6, <2>7
<1>3. QED  BY <1>1, <1>2 DEF ProbesConclusive

LEMMA FoundNext ==
    ASSUME TypesInv, ControlInv, WorkInv, SoughtInv, HonestInv, NearInv, CleanInv, FoundInv, [Next]_vars
    PROVE  FoundInv'
<1> DEFINE Found(r) ==
              r.frame.source # Broadcast =>
                  /\ r.channel \in BroadcastTargets /\ servers[r.frame.server].bus = r.channel
                  /\ Accepts(servers[r.frame.server], Probe.frame)
<1> SUFFICES ASSUME ProbesConclusive', Seeking', router'.pc = "probe"
             PROVE  \A r \in router'.responses[0] : Found(r)'
      BY DEF FoundInv
<1>1. /\ SamePlan /\ ProbesConclusive /\ (StartProbe \/ Seeking)
      /\ StartProbe \/ FlushAll \/ AskInTurn \/ AskInParallel \/ Unnoticed \/ \E d \in Devices : Works(d)
      BY SeekingKept, StepKeeps, ConclusiveKept
<1>2. /\ servers' = servers /\ BroadcastTargets' = BroadcastTargets /\ Probe' = Probe
      BY <1>1, ConfigKept, SoughtKept DEF SamePlan, SameCall
<1>3. \A r : Found(r) => Found(r)'
      BY <1>2 DEF Accepts
<1>4. (Seeking /\ router.pc = "probe") => \A r \in router.responses[0] : Found(r)
      BY <1>1 DEF FoundInv
<1> SUFFICES ASSUME NEW r \in router'.responses[0]
             PROVE  Found(r)
      BY <1>3
<1> HIDE DEF Found
<1>5. CASE StartProbe \/ FlushAll
      BY <1>5, StartProbeParts, FlushAllParts
<1>6. CASE AskInTurn \/ AskInParallel
      BY <1>6, AskParts
<1>7. router'.pc = router.pc => Seeking
      BY <1>1 DEF Seeking, SamePlan, SameCall
<1>8. CASE Unnoticed
      BY <1>4, <1>7, <1>8 DEF Unnoticed
<1>9. ASSUME NEW d \in Devices, Works(d)
      PROVE  Found(r)
  <2>1. router'.pc = router.pc /\ router.work[d] # <<>> /\ Seeking /\ router.pc = "probe"
        BY <1>7, <1>9 DEF Works
  <2>2. CASE router'.responses = router.responses
        BY <1>4, <2>1, <2>2
  <2>3. CASE \E frames \in Seq(Reply) :
                Range(frames) \subseteq Range(dev[d].rx) /\ router'.responses = Dispatched(d, frames)
    <3>1. PICK frames \in Seq(Reply) :
                Range(frames) \subseteq Range(dev[d].rx) /\ router'.responses = Dispatched(d, frames)
          BY <2>3
    <3>2. 0 \in DOMAIN router.responses
      <4>1. DOMAIN router.responses = 0..Len(router.requests) /\ Len(router.requests) \in Nat
            BY DevicesKept DEF RouterOK
      <4>2. QED  BY <4>1
    <3>3. r \in router.responses[0] \cup
             {[frame |-> f, channel |-> d] : f \in {f \in Range(frames) :
                 \E k \in FirstMatch(Txn(d).entries, f) : Txn(d).entries[k].req = 0}}
          BY <3>1, <3>2 DEF Dispatched
    <3>4. CASE r \in router.responses[0]
          BY <1>4, <2>1, <3>4
    <3>5. ASSUME NEW f \in Range(frames), r = [frame |-> f, channel |-> d],
                 NEW k \in FirstMatch(Txn(d).entries, f)
          PROVE  Found(r)
      <4>1. f \in Arrived(d)
            BY <3>1, <3>5 DEF Arrived
      <4>2. k \in DOMAIN Txn(d).entries /\ matches(Txn(d).entries[k].request, f)
            BY DEF FirstMatch
      <4>3. Txn(d).entries[k] \in InTxns(router.work[d])
        <5>1. Txn(d) \in Range(router.work[d])
              BY <2>1, WorkLeftParts
        <5>2. QED  BY <4>2, <5>1 DEF InTxns, Range
      <4>4. r.frame = f /\ r.channel = d
            BY <3>5
      <4>5. /\ d \in BroadcastTargets /\ servers[f.server].bus = d
            /\ Accepts(servers[f.server], Probe.frame)
            BY <1>1, <2>1, <4>1, <4>2, <4>3, ProbeFinds
      <4>6. QED  BY <4>4, <4>5 DEF Found
    <3>6. QED  BY <3>3, <3>4, <3>5
  <2>4. QED  BY <1>9, <2>2, <2>3 DEF Works, GivesUp, Finishes
<1>10. QED  BY <1>1, <1>5, <1>6, <1>8, <1>9

LEMMA FreshNext ==
    ASSUME TypesInv, ControlInv, FoundInv, FreshInv, [Next]_vars
    PROVE  FreshInv'
<1> SUFFICES ASSUME ProbesConclusive', NEW a \in hist'.fresh \cap DOMAIN router'.routes
             PROVE  FoundAt(a, router.routes[a])'
      BY DEF FreshInv
<1>1. cfg' = cfg /\ ProbesConclusive /\ (Move \/ servers' = servers)
      BY StepKeeps, ConclusiveKept
<1>2. ASSUME servers' = servers, FoundAt(a, router'.routes[a])
      PROVE  FoundAt(a, router.routes[a])'
  <2>1. BroadcastTargets' = BroadcastTargets
        BY <1>1, ConfigKept
  <2>2. QED  BY <1>2, <2>1 DEF FoundAt, Accepts
<1>3. CASE Move
      BY <1>3, MoveParts
<1>4. CASE servers' = servers /\ SameRoutes
      BY <1>2, <1>1, <1>4 DEF FreshInv, SameRoutes
<1>5. CASE Starting
  <2>1. Fresh
        BY <1>5, StartsFresh
  <2>2. servers' = servers /\ (SameRoutes \/ hist'.fresh = {})
        BY <2>1 DEF Fresh, SameRoutes
  <2>3. QED  BY <1>4, <2>2
<1>6. CASE ProbeEnd
  <2>1. /\ SamePlan /\ router.pc = "probe" /\ router.op # "discover" /\ servers' = servers
        BY <1>6, ProbeEndParts DEF SamePlan
  <2>2. CASE SameRoutes
        BY <1>4, <2>1, <2>2
  <2>3. ASSUME hist'.fresh = hist.fresh \cup {LookupAddress(Sought)},
               NEW r \in router.responses[0], r.frame.source # Broadcast,
               router'.routes = [b \in DOMAIN router.routes \cup {LookupAddress(Sought)} |->
                                    IF b = LookupAddress(Sought) THEN r.channel ELSE router.routes[b]]
        PROVE  FoundAt(a, router'.routes[a])
    <3>1. CASE a = LookupAddress(Sought)
      <4>1. Seeking
            BY <2>1 DEF Seeking
      <4>2. /\ r.channel \in BroadcastTargets /\ servers[r.frame.server].bus = r.channel
            /\ Accepts(servers[r.frame.server], Probe.frame)
            BY <1>1, <2>1, <2>3, <4>1 DEF FoundInv
      <4>3. Probe.frame = [dest |-> a.id, mask |-> a.uuid, asks |-> "mode"]
            BY <3>1, <4>1, ProbeAsks
      <4>4. r.frame.server \in DOMAIN servers
        <5>1. \A i \in DOMAIN router.responses : router.responses[i] \subseteq Received
              BY DevicesKept DEF RouterOK
        <5>2. 0 \in DOMAIN router.responses
          <6>1. DOMAIN router.responses = 0..Len(router.requests) /\ Len(router.requests) \in Nat
                BY DevicesKept DEF RouterOK
          <6>2. QED  BY <6>1
        <5>3. QED  BY <5>1, <5>2 DEF Received, Reply
      <4>5. router'.routes[a] = r.channel
            BY <2>3, <3>1
      <4>6. QED  BY <4>2, <4>3, <4>4, <4>5 DEF FoundAt
    <3>2. CASE a # LookupAddress(Sought)
      <4>1. a \in hist.fresh \cap DOMAIN router.routes /\ router'.routes[a] = router.routes[a]
            BY <2>3, <3>2
      <4>2. QED  BY <1>1, <4>1 DEF FreshInv
    <3>3. QED  BY <3>1, <3>2
  <2>4. QED  BY <1>2, <1>6, <2>1, <2>2, <2>3, ProbeEndParts
<1>7. CASE Resolve \/ Execute \/ StartProbe \/ FlushAll \/ AskInTurn \/ AskInParallel \/ Ending \/ Unnoticed
  <2>1. SameRoutes
        BY <1>7, ResolveParts, ExecuteParts, StartProbeParts, FlushAllParts, AskParts, EndParts,
           CancelParts DEF Ending, Unnoticed
  <2>2. QED  BY <1>1, <1>3, <1>4, <2>1
<1>8. CASE \E d \in Devices : Works(d)
  <2>1. SameRoutes
        BY <1>8 DEF Works
  <2>2. QED  BY <1>1, <1>3, <1>4, <2>1
<1>9. QED  BY <1>3, <1>5, <1>6, <1>7, <1>8, AllSteps DEF Probing

\* Initially nothing has arrived and no route has been learned.
LEMMA RoutesInit ==
    ASSUME Init, TypesInv
    PROVE  SoughtInv /\ HonestInv /\ NearInv /\ CleanInv /\ FoundInv /\ FreshInv
<1>1. /\ router.pc = "idle" /\ router.requests = <<>> /\ hist.fresh = {}
      /\ dev = [d \in Devices |-> IdleDevice] /\ bus = [d \in Devices |-> {}]
      BY DEF Init
<1>2. \A d \in Devices : Arrived(d) = {}
  <2>1. \A d \in Devices : dev[d].rx = <<>> /\ bus[d] = {}
        BY <1>1 DEF IdleDevice
  <2>2. Range(<<>>) = {}
        BY DEF Range
  <2>3. QED  BY <2>1, <2>2 DEF Arrived
<1>3. ~Seeking
      BY <1>1 DEF Seeking
<1>4. SoughtInv
  <2>1. Len(router.requests) = 0
        BY <1>1
  <2>2. QED  BY <1>3, <2>1 DEF SoughtInv
<1>5. QED  BY <1>1, <1>2, <1>3, <1>4 DEF HonestInv, NearInv, CleanInv, FoundInv, FreshInv

\* What is known of requests, answers and routes at every moment.
RouteInv ==
    /\ TypesInv /\ ControlInv /\ GroupsInv /\ WorkInv /\ QuietInv
    /\ SoughtInv /\ HonestInv /\ NearInv /\ CleanInv /\ FoundInv /\ FreshInv

LEMMA RouteInvInit ==
    ASSUME Init
    PROVE  RouteInv
  BY TypesInit, PlansInit, RoutesInit DEF RouteInv

LEMMA RouteInvNext ==
    ASSUME RouteInv, [Next]_vars
    PROVE  RouteInv'
<1>1. TypesInv' /\ ControlInv'
      BY TypesNext DEF RouteInv
<1>2. GroupsInv' /\ WorkInv' /\ QuietInv'
      BY GroupsNext, WorkNext, QuietNext DEF RouteInv
<1>3. SoughtInv' /\ HonestInv' /\ NearInv'
      BY SoughtNext, NearNext DEF RouteInv
<1>4. CleanInv' /\ FoundInv' /\ FreshInv'
      BY CleanNext, FoundNext, FreshNext DEF RouteInv
<1>5. QED  BY <1>1, <1>2, <1>3, <1>4 DEF RouteInv

\* FreshRoutesHold: a route learned by probing names the bus of a controller that
\* answers to the address, until it is moved, wherever only such a controller can
\* answer a probe: over flushed adapters, or with CAN ids and a queue per bus.
THEOREM FreshRoutesAreRight == Spec => []FreshRoutesHold
<1>1. Init => RouteInv
      BY RouteInvInit
<1>2. RouteInv /\ [Next]_vars => RouteInv'
      BY RouteInvNext
<1>3. RouteInv => FreshRoutesHold
      BY DEF RouteInv, FreshInv, FoundAt, FreshRoutesHold
<1>4. QED  BY <1>1, <1>2, <1>3, PTL DEF Spec

(***************************************************************************)
(* What success means                                                      *)
(***************************************************************************)

LEMMA RoutesNext ==
    ASSUME TypesInv, ControlInv, RoutesInv, [Next]_vars
    PROVE  RoutesInv'
<1> SUFFICES ASSUME ~hist'.moved
             PROVE  /\ servers' = cfg'.servers
                    /\ \A a \in DOMAIN router'.routes :
                          \/ a \in hist'.fresh
                          \/ a \in DOMAIN cfg'.routes /\ router'.routes[a] = cfg'.routes[a]
      BY DEF RoutesInv
<1>1. ~Move
      BY MoveParts
<1>2. cfg' = cfg /\ servers' = servers /\ ~hist.moved
      BY <1>1, StepKeeps
<1>3. /\ servers' = cfg'.servers
      /\ \A a \in DOMAIN router.routes :
            a \in hist.fresh \/ (a \in DOMAIN cfg.routes /\ router.routes[a] = cfg.routes[a])
      BY <1>2 DEF RoutesInv
<1>4. CASE SameRoutes
      BY <1>2, <1>3, <1>4 DEF SameRoutes
<1>5. CASE Starting
  <2>1. \/ router'.routes = router.routes /\ hist'.fresh = hist.fresh
        \/ router'.routes = <<>> /\ hist'.fresh = {}
        BY <1>5, StartsFresh DEF Fresh
  <2>2. DOMAIN <<>> = {}
        OBVIOUS
  <2>3. QED  BY <1>2, <1>3, <2>1, <2>2
<1>6. CASE ProbeEnd
  <2>1. \/ SameRoutes
        \/ /\ hist'.fresh = hist.fresh \cup {LookupAddress(Sought)}
           /\ \E r : router'.routes =
                 [a \in DOMAIN router.routes \cup {LookupAddress(Sought)} |->
                     IF a = LookupAddress(Sought) THEN r.channel ELSE router.routes[a]]
        BY <1>6, ProbeEndParts
  <2>2. QED  BY <1>2, <1>3, <1>4, <2>1
<1>7. CASE Resolve \/ Execute \/ StartProbe \/ FlushAll \/ AskInTurn \/ AskInParallel \/ Ending \/ Unnoticed
      BY <1>4, <1>7, ResolveParts, ExecuteParts, StartProbeParts, FlushAllParts, AskParts, EndParts,
         CancelParts DEF Ending, Unnoticed
<1>8. CASE \E d \in Devices : Works(d)
      BY <1>4, <1>8 DEF Works
<1>9. QED  BY <1>1, <1>5, <1>6, <1>7, <1>8, AllSteps DEF Probing

\* What a call needs depends on the call and on where controllers are; a
\* disturbance may excuse more.
LEMMA NeededKept ==
    ASSUME TypesInv, TypesInv', SameCall, servers' = servers, hist'.moved = hist.moved
    PROVE  /\ Commanding' => Commanding
           /\ \A i : Excused(i) => Excused(i)'
           /\ \A i : Wanted(router.requests[i])' = Wanted(router.requests[i])
           /\ \A i : Needed(i)' \subseteq Needed(i)
<1>1. /\ cfg' = cfg /\ router'.op = router.op /\ router'.requests = router.requests
      /\ router'.spent >= router.spent
      BY DEF SameCall
<1>2. ProbesConclusive' => ProbesConclusive
      BY <1>1, ConclusiveKept
<1>3. Devices' = Devices /\ BroadcastTargets' = BroadcastTargets /\ \A d : Info(d)' = Info(d)
      BY <1>1, ConfigKept
<1>4. GivenRoutesHold' => GivenRoutesHold
      BY <1>1, <1>3 DEF GivenRoutesHold, FoundAt, Accepts
<1>5. Commanding' => Commanding
      BY <1>1, <1>2, <1>4 DEF Commanding
<1>6. \A i : Wanted(router.requests[i])' = Wanted(router.requests[i])
      BY <1>1, <1>3 DEF Wanted, Accepts
<1>7. router.spent > 0 => router'.spent > 0
  <2>1. router.spent \in 0..cfg.maxFaults /\ router'.spent \in 0..cfg'.maxFaults
        BY DEF TypesInv, RouterOK
  <2>2. QED  BY <1>1, <2>1
<1>8. ASSUME NEW i, Excused(i)
      PROVE  Excused(i)'
  <2>1. {servers[s].bus : s \in Wanted(router.requests[i])}' = {servers[s].bus : s \in Wanted(router.requests[i])}
        BY <1>6
  <2>2. QED  BY <1>1, <1>7, <1>8, <2>1 DEF Excused
<1>9. \A i : Needed(i)' \subseteq Needed(i)
      BY <1>6, <1>8 DEF Needed
<1>10. QED  BY <1>5, <1>6, <1>8, <1>9

\* The address by which a request is looked up is the one its frame bears.
LEMMA AddressBorne ==
    ASSUME TypesInv, NEW i \in 1..Len(router.requests), router.requests[i].frame # NoFrame
    PROVE  LET a == LookupAddress(router.requests[i])
           IN \A s : Accepts(servers[s], router.requests[i].frame)
                     <=> Accepts(servers[s], [dest |-> a.id, mask |-> a.uuid, asks |-> "mode"])
<1> DEFINE request == router.requests[i]
           a == LookupAddress(request)
<1>1. WellAddressed(request)
      BY DevicesKept DEF RouterOK
<1>2. request.frame.dest = a.id /\ request.frame.mask = a.uuid
  <2>1. CASE request.address = NoAddress
    <3>1. a = can_id(request.frame.dest) /\ request.frame.mask = <<>>
          BY <1>1, <2>1 DEF LookupAddress, WellAddressed
    <3> HIDE DEF a
    <3>2. QED  BY <3>1 DEF can_id
  <2>2. CASE request.address # NoAddress
    <3>1. /\ a = request.address /\ request.frame = from_command(a, request.frame.asks).frame
          /\ a.id # Broadcast => a.uuid = <<>>
          BY <1>1, <2>2 DEF LookupAddress, WellAddressed
    <3> HIDE DEF a
    <3>2. \A asks : /\ from_command(a, asks).frame.dest = a.id
                    /\ from_command(a, asks).frame.mask = IF a.id = Broadcast THEN a.uuid ELSE <<>>
          BY DEF from_command
    <3>3. QED  BY <3>1, <3>2
  <2>3. QED  BY <2>1, <2>2
<1> HIDE DEF a, request
<1>3. \A s : Accepts(servers[s], request.frame)
             <=> Accepts(servers[s], [dest |-> a.id, mask |-> a.uuid, asks |-> "mode"])
      BY <1>2 DEF Accepts
<1>4. QED  BY <1>3 DEF a, request

\* Two controllers that a request needs are on one bus.
LEMMA OneBus ==
    ASSUME TypesInv, NEW i \in 1..Len(router.requests), ~Excused(i),
           ~IsTrueBroadcast(router.requests[i]),
           NEW s \in Wanted(router.requests[i]), NEW t \in Wanted(router.requests[i])
    PROVE  servers[s].bus = servers[t].bus
<1> DEFINE W == Wanted(router.requests[i])
           B == {servers[u].bus : u \in W}
<1>1. ~(Cardinality(B) > 1)
      BY DEF Excused
<1>2. W \subseteq DOMAIN servers
      BY DEF Wanted
<1>3. \A u \in DOMAIN servers : servers[u].bus \in Devices
  <2>1. servers \in Seq(ServerInfos(Len(cfg.devices))) /\ Devices = 1..Len(cfg.devices)
        BY DevicesKept, ConfigParts
  <2>2. \A u \in DOMAIN servers : servers[u] \in ServerInfos(Len(cfg.devices))
        BY <2>1
  <2>3. QED  BY <2>1, <2>2 DEF ServerInfos
<1>4. IsFiniteSet(B)
  <2>1. B \subseteq Devices /\ IsFiniteSet(Devices)
        BY <1>2, <1>3, DevicesKept, DevicesFinite
  <2>2. QED  BY <2>1, FS_Subset
<1>5. servers[s].bus \in B /\ servers[t].bus \in B
      OBVIOUS
<1> HIDE DEF B
<1>6. SUFFICES ASSUME servers[s].bus # servers[t].bus
               PROVE  FALSE
      OBVIOUS
<1> DEFINE P == {servers[s].bus, servers[t].bus}
<1>7. P \subseteq B /\ Cardinality(P) = 2
  <2>1. Cardinality(P) = 2
    <3>1. \A x, y : x # y => Cardinality({x, y}) = 2
      <4> SUFFICES ASSUME NEW x, NEW y, x # y
                   PROVE  Cardinality({x, y}) = 2
          OBVIOUS
      <4>1. IsFiniteSet({x}) /\ Cardinality({x}) = 1
            BY FS_Singleton
      <4>2. Cardinality({x} \cup {y}) = 1 + 1
            BY <4>1, FS_AddElement
      <4>3. {x} \cup {y} = {x, y}
            OBVIOUS
      <4>4. QED  BY <4>2, <4>3
    <3>2. QED  BY <1>6, <3>1
  <2>2. QED  BY <1>5, <2>1
<1>8. Cardinality(P) <= Cardinality(B) /\ Cardinality(B) \in Nat
      BY <1>4, <1>7, FS_Subset, FS_CardinalityType
<1>9. QED  BY <1>1, <1>7, <1>8

\* A request that is not unknown goes to the bus of every controller that needs it.
LEMMA TargetsReach ==
    ASSUME TypesInv, RoutesInv, FreshInv, Commanding, NEW i \in 1..Len(router.requests),
           ~Unknown(router.requests[i]), NEW s \in Needed(i)
    PROVE  servers[s].bus \in Targets(router.requests[i]) /\ servers[s].bus \in Devices
<1> DEFINE request == router.requests[i]
           a == LookupAddress(request)
<1>1. /\ ~Excused(i) /\ s \in Wanted(request)
      BY DEF Needed
<1>2. /\ request.frame # NoFrame /\ s \in DOMAIN servers /\ Accepts(servers[s], request.frame)
      /\ servers[s].bus \in IF request.channel # None THEN {request.channel}
                            ELSE {d \in Devices : Info(d).txSafe /\ ~Info(d).parentOnly}
      BY <1>1 DEF Excused, Wanted
<1>3. servers[s].bus \in Devices
  <2>1. servers \in Seq(ServerInfos(Len(cfg.devices))) /\ Devices = 1..Len(cfg.devices)
        BY DevicesKept, ConfigParts
  <2>2. servers[s] \in ServerInfos(Len(cfg.devices))
        BY <1>2, <2>1
  <2>3. QED  BY <2>1, <2>2 DEF ServerInfos
<1> HIDE DEF request
<1>4. CASE request.channel # None
      BY <1>2, <1>3, <1>4 DEF Targets, request
<1>5. CASE request.channel = None
  <2>1. servers[s].bus \in BroadcastTargets
        BY <1>2, <1>5 DEF BroadcastTargets, HasBus
  <2>2. CASE IsTrueBroadcast(request)
        BY <1>2, <1>3, <1>5, <2>1, <2>2 DEF Targets, request
  <2>3. CASE ~IsTrueBroadcast(request)
    <3>1. Targets(request) = Lookup(a) /\ Lookup(a) # {}
          BY <1>2, <1>5, <2>3 DEF Targets, Unknown, request
    <3>2. CASE Len(cfg.devices) = 1
      <4>1. Lookup(a) = {1} /\ Devices = 1..1
            BY <3>2, DevicesKept, ConfigParts DEF Lookup
      <4>2. QED  BY <1>3, <3>1, <4>1 DEF request
    <3>3. CASE Len(cfg.devices) # 1
      <4>1. a \in DOMAIN router.routes /\ Lookup(a) = {router.routes[a]}
            BY <3>1, <3>3 DEF Lookup
      <4>2. \A t : Accepts(servers[t], request.frame)
                   <=> Accepts(servers[t], [dest |-> a.id, mask |-> a.uuid, asks |-> "mode"])
            BY <1>2, AddressBorne DEF request
      <4>3. FoundAt(a, servers[s].bus)
            BY <1>2, <2>1, <4>2 DEF FoundAt
      <4>4. FoundAt(a, router.routes[a])
        <5>1. CASE a \in hist.fresh
              BY <4>1, <5>1 DEF FreshInv, Commanding
        <5>2. CASE a \in DOMAIN cfg.routes /\ router.routes[a] = cfg.routes[a]
              BY <1>3, <4>3, <5>2 DEF GivenRoutesHold, Commanding
        <5>3. QED  BY <4>1, <5>1, <5>2 DEF RoutesInv, Commanding
      <4>5. PICK t \in DOMAIN servers :
               /\ servers[t].bus = router.routes[a] /\ servers[t].bus \in BroadcastTargets
               /\ Accepts(servers[t], [dest |-> a.id, mask |-> a.uuid, asks |-> "mode"])
            BY <4>4 DEF FoundAt
      <4>6. t \in Wanted(request)
            BY <1>5, <4>2, <4>5 DEF Wanted, BroadcastTargets, HasBus
      <4>7. servers[s].bus = router.routes[a]
            BY <1>1, <2>3, <4>5, <4>6, OneBus DEF request
      <4>8. QED  BY <1>3, <3>1, <4>1, <4>7 DEF request
    <3>4. QED  BY <3>2, <3>3
  <2>4. QED  BY <2>2, <2>3
<1>6. QED  BY <1>4, <1>5

\* What a step that goes on with the plan leaves of it.
LEMMA PlannedKept ==
    ASSUME TypesInv, TypesInv', SamePlan, Commanding', ExecInv,
           router.pc \in {"resolve", "flush", "ask", "probe"}
    PROVE  \A i \in 1..(router'.i - 1) : \A s \in Needed(i)' : Planned(i, s)'
<1>1. /\ SameCall /\ servers' = servers /\ hist'.moved = hist.moved /\ cfg' = cfg
      /\ router'.i = router.i /\ router'.groups = router.groups
      BY DEF SamePlan, SameCall
<1>2. Commanding /\ \A i : Needed(i)' \subseteq Needed(i)
      BY <1>1, NeededKept
<1>3. \A i \in 1..(router.i - 1) : \A s \in Needed(i) : Planned(i, s)
      BY <1>2 DEF ExecInv
<1>4. Devices' = Devices
      BY <1>1, ConfigKept
<1>5. \A i, s : Planned(i, s) => Planned(i, s)'
      BY <1>1, <1>4 DEF Planned, Reaches, BusOf, InGroup
<1>6. QED  BY <1>1, <1>2, <1>3, <1>5

\* A cycle over a single device has all there is to send in that device's work.
LEMMA ExecStarts ==
    ASSUME TypesInv, ControlInv, TypesInv', Starting
    PROVE  ExecInv'
<1>1. Fresh
      BY StartsFresh
<1>2. SUFFICES ASSUME Commanding'
               PROVE  ExecInv'
      BY DEF ExecInv
<1>3. router'.op \in {"cycle", "write"}
      BY <1>2 DEF Commanding
<1>4. router'.pc \in {"resolve", "run"} /\ router'.i = 1
      BY <1>1, <1>3 DEF Fresh
<1>5. CASE router'.pc = "resolve"
  <2>1. 1..(router'.i - 1) = {}
        BY <1>4
  <2>2. QED  BY <1>5, <2>1 DEF ExecInv
<1>6. CASE router'.pc = "run"
  <2>1. Cycle /\ cfg' = cfg /\ servers' = servers /\ router.pc = "idle"
        BY <1>1, <1>6 DEF Fresh
  <2>2. /\ Devices = {1}
        /\ InTxns(router'.work[1]) =
              {Entry(i, router'.requests[i], None) : i \in 1..Len(router'.requests)}
        BY <1>6, <2>1, CycleRuns
  <2>3. dev'[1].pc = "idle"
    <3>1. dev' = dev
          BY <2>1 DEF Cycle
    <3>2. dev[1].pc = "idle"
          BY <2>1, <2>2, Idle DEF Running
    <3>3. QED  BY <3>1, <3>2
  <2>4. ASSUME NEW i \in 1..Len(router'.requests), NEW s \in Needed(i)'
        PROVE  Due(i, s)'
    <3>1. PICK e : e = Entry(i, router'.requests[i], None)
          OBVIOUS
    <3>2. e \in InTxns(router'.work[1]) /\ e.req = i /\ BusOf(1, e) = 1
          BY <2>2, <3>1 DEF Entry, BusOf
    <3>3. s \in DOMAIN servers'
      <4>1. s \in Wanted(router.requests[i])'
            BY <2>4 DEF Needed
      <4>2. QED  BY <4>1 DEF Wanted
    <3>4. servers'[s].bus = 1
      <4>1. servers \in Seq(ServerInfos(Len(cfg.devices))) /\ Devices = 1..Len(cfg.devices)
            BY DevicesKept, ConfigParts
      <4>2. servers[s] \in ServerInfos(Len(cfg.devices))
            BY <2>1, <3>3, <4>1
      <4>3. QED  BY <2>1, <2>2, <4>1, <4>2 DEF ServerInfos
    <3>5. ToSend(1)' = InTxns(router'.work[1])
          BY <2>3 DEF ToSend, InTxns
    <3>6. 1 \in Devices'
          BY <2>1, <2>2, ConfigKept
    <3>7. Reaches(e, i, s, 1)'
          BY <3>2, <3>4 DEF Reaches, BusOf
    <3>8. QED  BY <3>2, <3>5, <3>6, <3>7 DEF Due
  <2>5. QED  BY <1>6, <2>4 DEF ExecInv
<1>7. QED  BY <1>4, <1>5, <1>6

\* Resolving a request plans it for every controller that needs it.
LEMMA ExecResolves ==
    ASSUME TypesInv, TypesInv', RoutesInv, FreshInv, ExecInv, Resolve
    PROVE  ExecInv'
<1>1. /\ SameCall /\ servers' = servers /\ hist' = hist
      /\ router.pc = "resolve" /\ router'.pc = "resolve" /\ router.i \in 1..Len(router.requests)
      /\ ~Unknown(Sought) /\ router'.i = router.i + 1 /\ router'.groups = Grouped(router.i)
      BY ResolveParts
<1>2. SUFFICES ASSUME Commanding'
               PROVE  ExecInv'
      BY DEF ExecInv
<1>3. Commanding /\ \A i : Needed(i)' \subseteq Needed(i)
      BY <1>1, <1>2, NeededKept
<1>4. cfg' = cfg /\ Devices' = Devices /\ router'.requests = router.requests
      BY <1>1, ConfigKept DEF SameCall
<1>5. \A d \in Devices : InGroup(router'.groups[d]) = InGroup(router.groups[d]) \cup Dispatches(router.i, d)
      BY <1>1, GroupedContents
<1>6. \A e, i, s, d : Reaches(e, i, s, d)' <=> Reaches(e, i, s, d)
      BY <1>1 DEF Reaches, BusOf
<1>7. \A d \in Devices : InGroup(router.groups[d])' = InGroup(router'.groups[d])
      BY DEF InGroup
<1>8. ASSUME NEW i \in 1..(router'.i - 1), NEW s \in Needed(i)'
      PROVE  Planned(i, s)'
  <2>1. i \in 1..(router.i - 1) \/ i = router.i
        BY <1>1
  <2>2. CASE i \in 1..(router.i - 1)
    <3>1. Planned(i, s)
          BY <1>1, <1>3, <1>8, <2>2 DEF ExecInv
    <3>2. QED  BY <1>4, <1>5, <1>6, <1>7, <3>1 DEF Planned
  <2>3. CASE i = router.i
    <3>1. i \in 1..Len(router.requests) /\ ~Unknown(router.requests[i]) /\ s \in Needed(i)
          BY <1>1, <1>3, <1>8, <2>3 DEF Sought
    <3>2. PICK t \in Devices : t = servers[s].bus /\ t \in Targets(router.requests[i])
          BY <1>3, <3>1, TargetsReach
    <3>3. PICK d : d = route_via_parent(t).send
          OBVIOUS
    <3>4. PICK e : e = Entry(i, router.requests[i], route_via_parent(t).child)
          OBVIOUS
    <3>5. d \in Devices /\ BusOf(d, [child |-> route_via_parent(t).child]) = t
          BY <3>3, DevicesKept, RouteType
    <3>6. e \in Dispatches(i, d)
          BY <3>2, <3>3, <3>4 DEF Dispatches
    <3>7. e.req = i /\ BusOf(d, e) = t
      <4>1. e.req = i /\ e.child = route_via_parent(t).child
            BY <3>4 DEF Entry
      <4>2. QED  BY <3>5, <4>1 DEF BusOf
    <3>8. Reaches(e, i, s, d)
          BY <3>2, <3>7 DEF Reaches
    <3>9. QED  BY <1>4, <1>5, <1>6, <1>7, <2>3, <3>5, <3>6, <3>8 DEF Planned
  <2>4. QED  BY <2>1, <2>2, <2>3
<1>9. QED  BY <1>1, <1>8 DEF ExecInv

\* What is planned is due when the transactions are made.
LEMMA ExecExecutes ==
    ASSUME TypesInv, TypesInv', ControlInv, ExecInv, Execute
    PROVE  ExecInv'
<1>1. /\ SamePlan /\ dev' = dev
      /\ router.pc = "resolve" /\ router.i > Len(router.requests) /\ router'.pc = "run"
      /\ router'.work = [d \in Devices |-> Transactions(router.groups[d])]
      BY ExecuteParts
<1>2. SUFFICES ASSUME Commanding'
               PROVE  ExecInv'
      BY DEF ExecInv
<1>3. /\ SameCall /\ servers' = servers /\ hist'.moved = hist.moved /\ cfg' = cfg
      /\ router'.requests = router.requests
      BY <1>1 DEF SamePlan, SameCall
<1>4. Commanding /\ (\A i : Needed(i)' \subseteq Needed(i)) /\ Devices' = Devices
      BY <1>2, <1>3, NeededKept, ConfigKept
<1>5. ASSUME NEW d \in Devices
      PROVE  ToSend(d)' = InGroup(router.groups[d])
  <2>1. dev'[d].pc = "idle"
        BY <1>1, Idle DEF Running
  <2>2. router.groups[d] \in Groups
        BY DevicesKept DEF RouterOK
  <2>3. InTxns(Transactions(router.groups[d])) = InGroup(router.groups[d])
        BY <2>2, TransactionsContents
  <2>4. ToSend(d)' = InTxns(router'.work[d])
        BY <2>1 DEF ToSend, InTxns
  <2>5. QED  BY <1>1, <2>3, <2>4
<1>6. ASSUME NEW i \in 1..Len(router.requests), NEW s \in Needed(i)'
      PROVE  Due(i, s)'
  <2>1. i \in 1..(router.i - 1)
    <3>1. router.i \in 1..(Len(router.requests) + 1) /\ router.requests \in Seq(Requests(Len(cfg.devices)))
          BY DevicesKept DEF RouterOK
    <3>2. Len(router.requests) \in Nat
          BY <3>1
    <3>3. QED  BY <1>1, <3>1, <3>2
  <2>2. Planned(i, s)
        BY <1>1, <1>4, <1>6, <2>1 DEF ExecInv
  <2>3. PICK d \in Devices : \E e \in InGroup(router.groups[d]) : Reaches(e, i, s, d)
        BY <2>2 DEF Planned
  <2>4. PICK e \in ToSend(d)' : Reaches(e, i, s, d)
        BY <1>5, <2>3
  <2>5. Reaches(e, i, s, d)'
        BY <1>3, <2>4 DEF Reaches, BusOf
  <2>6. QED  BY <1>4, <2>4, <2>5 DEF Due
<1>7. QED  BY <1>1, <1>3, <1>6 DEF ExecInv

\* A device that works sends what is due, or is excused, or fails the operation.
LEMMA ExecWorks ==
    ASSUME TypesInv, TypesInv', WorkInv, ExecInv, NEW d \in Devices, Works(d),
           router.pc = "run"
    PROVE  ExecInv'
<1>1. /\ SamePlan /\ router.work[d] # <<>> /\ router'.pc = "run"
      /\ \A c \in Devices \ {d} : dev'[c] = dev[c]
      /\ hist.executed \subseteq hist'.executed
      BY DEF Works
<1>2. SUFFICES ASSUME Commanding', ~router'.failed
               PROVE  ExecInv'
      BY <1>1 DEF ExecInv
<1>3. /\ SameCall /\ servers' = servers /\ hist'.moved = hist.moved /\ cfg' = cfg
      /\ router'.requests = router.requests /\ router'.n = router.n
      BY <1>1 DEF SamePlan, SameCall
<1>4. Commanding /\ (\A i : Needed(i)' \subseteq Needed(i)) /\ Devices' = Devices
      BY <1>2, <1>3, NeededKept, ConfigKept
<1>5. \A e, i, s, c : Reaches(e, i, s, c)' <=> Reaches(e, i, s, c)
      BY <1>3 DEF Reaches, BusOf
<1>6. \A i, s : Executed(i, s) => Executed(i, s)'
      BY <1>1, <1>3 DEF Executed
<1>7. /\ \A c \in Devices \ {d} : WorkLeft(d)[c] = router.work[c]
      /\ WorkLeft(d)[d] = Tail(router.work[d])
      /\ Txn(d) \in Range(router.work[d])
      /\ Range(router.work[d]) = {Txn(d)} \cup Range(Tail(router.work[d]))
      BY <1>1, WorkLeftParts
<1>8. ~router.failed /\ router'.work \in {router.work, WorkLeft(d)}
      BY <1>2 DEF Works, GivesUp, Finishes
<1>9. \A c \in Devices \ {d} : ToSend(c)' = ToSend(c)
      BY <1>1, <1>7, <1>8 DEF ToSend, InTxns
<1>10. ASSUME NEW i \in 1..Len(router.requests), NEW s \in Needed(i)',
              NEW e \in ToSend(d), Reaches(e, i, s, d)
       PROVE  Executed(i, s)' \/ e \in ToSend(d)'
  <2>1. CASE /\ router' = router /\ dev'[d].pc # "idle"
             /\ dev[d].pc = "idle" => Effects(d, AllFrames(d)) \subseteq hist'.executed
    <3>1. CASE dev[d].pc # "idle"
      <4>1. ToSend(d)' = ToSend(d)
            BY <2>1, <3>1 DEF ToSend, InTxns
      <4>2. QED  BY <1>10, <4>1
    <3>2. CASE dev[d].pc = "idle"
      <4>1. ToSend(d)' = InTxns(Tail(router.work[d]))
            BY <2>1 DEF ToSend, InTxns
      <4>2. e \in InTxns(router.work[d])
            BY <1>10, <3>2 DEF ToSend
      <4>3. e \in Range(Txn(d).entries) \/ e \in InTxns(Tail(router.work[d]))
            BY <1>7, <4>2 DEF InTxns
      <4>4. ASSUME e \in Range(Txn(d).entries)
            PROVE  Executed(i, s)'
        <5>1. e.request = router.requests[i] /\ e.req = i
              BY <1>10, <4>2 DEF WorkInv, Asked, Reaches
        <5>2. ~Excused(i) /\ s \in Wanted(router.requests[i])
              BY <1>4, <1>10 DEF Needed
        <5>3. e \in AllFrames(d)
              BY <1>1, <4>4, <5>1, <5>2, FramesWithin DEF Excused
        <5>4. s \in Listeners(BusOf(d, e), e.request.frame)
              BY <1>3, <1>10, <5>1, <5>2 DEF Listeners, Wanted, Reaches
        <5>5. PICK x : x = <<router.n, e.req, s>>
              OBVIOUS
        <5>6. x \in Executions(d, AllFrames(d)) /\ x[2] > 0
              BY <5>1, <5>3, <5>4, <5>5 DEF Executions
        <5>7. x \in hist'.executed
              BY <2>1, <3>2, <5>6 DEF Effects
        <5>8. QED  BY <1>3, <5>1, <5>5, <5>7 DEF Executed
      <4>5. QED  BY <4>1, <4>3, <4>4
    <3>3. QED  BY <3>1, <3>2
  <2>2. CASE GivesUp(d)
    <3>1. /\ dev'[d].pc = "idle" /\ router'.spent = router.spent + 1
          /\ Txn(d).bwr /\ ~cfg.async /\ router'.work = WorkLeft(d)
          BY <1>1, <1>2, <2>2 DEF GivesUp
    <3>2. ToSend(d)' = InTxns(Tail(router.work[d]))
          BY <1>7, <3>1 DEF ToSend, InTxns
    <3>3. e \in Range(Txn(d).entries) \/ e \in InTxns(Tail(router.work[d]))
          BY <1>7, <1>10 DEF ToSend, InTxns
    <3>4. e \notin Range(Txn(d).entries)
      <4>1. SUFFICES ASSUME e \in Range(Txn(d).entries)
                     PROVE  FALSE
            OBVIOUS
      <4>2. e \in InTxns(router.work[d])
            BY <1>7, <4>1 DEF InTxns
      <4>3. e.request = router.requests[i] /\ BroadcastQuery(e.request)
            BY <1>7, <1>10, <3>1, <4>1, <4>2 DEF WorkInv, Asked, Reaches
      <4>4. router'.spent > 0
        <5>1. router.spent \in 0..cfg.maxFaults
              BY DevicesKept DEF RouterOK
        <5>2. QED  BY <3>1, <5>1
      <4>5. Excused(i)'
            BY <1>3, <3>1, <4>3, <4>4 DEF Excused, BroadcastQuery, IsTrueBroadcast
      <4>6. QED  BY <1>10, <4>5 DEF Needed
    <3>5. QED  BY <3>2, <3>3, <3>4
  <2>3. CASE Finishes(d)
    <3>1. dev[d].pc # "idle" /\ dev'[d].pc = "idle" /\ router'.work = WorkLeft(d)
          BY <2>3 DEF Finishes
    <3>2. ToSend(d) = InTxns(Tail(router.work[d]))
          BY <3>1 DEF ToSend
    <3>3. ToSend(d)' = InTxns(Tail(router.work[d]))
          BY <1>7, <3>1 DEF ToSend, InTxns
    <3>4. QED  BY <1>10, <3>2, <3>3
  <2>4. QED  BY <2>1, <2>2, <2>3 DEF Works
<1>11. ASSUME NEW i \in 1..Len(router'.requests), NEW s \in Needed(i)'
       PROVE  Executed(i, s)' \/ Due(i, s)'
  <2>1. i \in 1..Len(router.requests) /\ s \in Needed(i)
        BY <1>3, <1>4, <1>11
  <2>2. Executed(i, s) \/ Due(i, s)
        BY <1>4, <1>8, <2>1 DEF ExecInv
  <2>3. CASE Due(i, s)
    <3>1. PICK c \in Devices : \E e \in ToSend(c) : Reaches(e, i, s, c)
          BY <2>3 DEF Due
    <3>2. PICK e \in ToSend(c) : Reaches(e, i, s, c)
          BY <3>1
    <3>3. Executed(i, s)' \/ e \in ToSend(c)'
      <4>1. CASE c = d
            BY <1>10, <1>11, <2>1, <3>2, <4>1
      <4>2. CASE c # d
            BY <1>9, <3>2, <4>2
      <4>3. QED  BY <4>1, <4>2
    <3>4. Reaches(e, i, s, c)'
          BY <1>5, <3>2
    <3>5. QED  BY <1>4, <3>3, <3>4 DEF Due
  <2>4. QED  BY <1>6, <2>2, <2>3
<1>12. QED  BY <1>1, <1>11 DEF ExecInv

\* What the operation does not notice changes nothing of what is due.
LEMMA ExecUnnoticed ==
    ASSUME TypesInv, TypesInv', ExecInv, Unnoticed
    PROVE  ExecInv'
<1>1. /\ SamePlan /\ hist' = hist /\ router'.pc = router.pc /\ router'.result = router.result
      /\ router'.work = router.work /\ router'.failed = router.failed
      /\ \A d \in Devices : dev'[d].pc = dev[d].pc
      BY DEF Unnoticed
<1>2. SUFFICES ASSUME Commanding'
               PROVE  ExecInv'
      BY DEF ExecInv
<1>3. /\ SameCall /\ servers' = servers /\ hist'.moved = hist.moved /\ cfg' = cfg
      /\ router'.requests = router.requests /\ router'.n = router.n
      BY <1>1 DEF SamePlan, SameCall
<1>4. Commanding /\ (\A i : Needed(i)' \subseteq Needed(i)) /\ Devices' = Devices
      BY <1>2, <1>3, NeededKept, ConfigKept
<1>5. \A d \in Devices : ToSend(d)' = ToSend(d)
      BY <1>1 DEF ToSend, InTxns
<1>6. \A i, s : Due(i, s) => Due(i, s)'
  <2>1. \A e, i, s, d : Reaches(e, i, s, d)' <=> Reaches(e, i, s, d)
        BY <1>3 DEF Reaches, BusOf
  <2>2. QED  BY <1>4, <1>5, <2>1 DEF Due
<1>7. \A i, s : Executed(i, s) => Executed(i, s)'
      BY <1>1, <1>3 DEF Executed
<1>8. CASE router.pc \in {"resolve", "flush", "ask", "probe"}
      BY <1>1, <1>2, <1>8, PlannedKept DEF ExecInv
<1>9. CASE router.pc \notin {"resolve", "flush", "ask", "probe"}
      BY <1>1, <1>3, <1>4, <1>6, <1>7, <1>9 DEF ExecInv
<1>10. QED  BY <1>8, <1>9

\* An operation that ends well has nothing left to send.
LEMMA ExecEnds ==
    ASSUME TypesInv, TypesInv', ControlInv, ExecInv, RunEnd \/ DiscoverEnd
    PROVE  ExecInv'
<1>1. /\ SamePlan /\ hist' = hist /\ router'.pc = "idle"
      /\ \/ router.pc = "probe" /\ router.op = "discover"
         \/ /\ router.pc = "run" /\ AllDone
            /\ router'.result = "ok" => ~router.failed
      BY EndParts
<1>2. SUFFICES ASSUME Commanding', router'.result = "ok"
               PROVE  ExecInv'
      BY <1>1 DEF ExecInv
<1>3. /\ SameCall /\ servers' = servers /\ hist'.moved = hist.moved /\ cfg' = cfg
      /\ router'.requests = router.requests /\ router'.n = router.n
      BY <1>1 DEF SamePlan, SameCall
<1>4. Commanding /\ (\A i : Needed(i)' \subseteq Needed(i))
      BY <1>2, <1>3, NeededKept
<1>5. router.pc = "run" /\ AllDone /\ ~router.failed
      BY <1>1, <1>2, <1>4 DEF Commanding
<1>6. \A d \in Devices : ToSend(d) = {}
  <2>1. \A d \in Devices : dev[d].pc = "idle" /\ router.work[d] = <<>>
        BY <1>5, Idle DEF AllDone
  <2>2. InTxns(<<>>) = {}
        BY DEF InTxns, Range
  <2>3. QED  BY <2>1, <2>2 DEF ToSend
<1>7. \A i, s : ~Due(i, s)
      BY <1>6 DEF Due
<1>8. \A i, s : Executed(i, s) => Executed(i, s)'
      BY <1>1, <1>3 DEF Executed
<1>9. \A i \in 1..Len(router.requests) : \A s \in Needed(i) : Executed(i, s)
      BY <1>4, <1>5, <1>7 DEF ExecInv
<1>10. QED  BY <1>1, <1>3, <1>4, <1>8, <1>9 DEF ExecInv

LEMMA ExecNext ==
    ASSUME RouteInv, RouteInv', RoutesInv, ExecInv, [Next]_vars
    PROVE  ExecInv'
<1> USE DEF RouteInv
<1>1. CASE Starting
      BY <1>1, ExecStarts
<1>2. CASE Resolve
      BY <1>2, ExecResolves
<1>3. CASE Execute
      BY <1>3, ExecExecutes
<1>4. CASE StartProbe \/ FlushAll \/ AskInTurn \/ AskInParallel \/ ProbeEnd
  <2>1. /\ SamePlan /\ router.pc \in {"resolve", "flush", "ask", "probe"}
        /\ \/ router'.pc \in {"resolve", "flush", "ask", "probe"}
           \/ router'.pc = "idle" /\ router'.result # "ok"
        BY <1>4, StartProbeParts, FlushAllParts, AskParts, ProbeEndParts
  <2>2. QED  BY <2>1, PlannedKept DEF ExecInv
<1>5. CASE RunEnd \/ DiscoverEnd
      BY <1>5, ExecEnds
<1>6. CASE Cancel
      BY <1>6, CancelParts DEF ExecInv
<1>7. CASE Move
      BY <1>7, MoveParts DEF ExecInv, Commanding
<1>8. CASE Unnoticed
      BY <1>8, ExecUnnoticed
<1>9. ASSUME NEW d \in Devices, Works(d)
      PROVE  ExecInv'
  <2>1. SamePlan /\ router.pc \in {"probe", "run"} /\ router'.pc = router.pc
        BY <1>9 DEF Works, Running
  <2>2. CASE router.pc = "probe"
        BY <2>1, <2>2, PlannedKept DEF ExecInv
  <2>3. CASE router.pc = "run"
        BY <1>9, <2>3, ExecWorks
  <2>4. QED  BY <2>1, <2>2, <2>3
<1>10. QED  BY <1>1, <1>2, <1>3, <1>4, <1>5, <1>6, <1>7, <1>8, <1>9, AllSteps DEF Probing, Ending

\* OkMeansExecuted: an operation that reports success has sent each request to
\* every controller it is meant for, as long as probes are conclusive and the
\* routes the application has added are right.
THEOREM SuccessMeansExecuted ==
    Spec => [](ProbesConclusive /\ GivenRoutesHold => OkMeansExecuted)
<1> DEFINE Inv == RouteInv /\ RoutesInv /\ ExecInv
<1>1. Init => Inv
  <2> SUFFICES ASSUME Init
               PROVE  Inv
      OBVIOUS
  <2>1. RouteInv
        BY RouteInvInit
  <2>2. /\ router.pc = "idle" /\ router.result = "none" /\ router.routes = cfg.routes
        /\ servers = cfg.servers
        BY DEF Init
  <2>3. QED  BY <2>1, <2>2 DEF RoutesInv, ExecInv
<1>2. Inv /\ [Next]_vars => Inv'
  <2> SUFFICES ASSUME Inv, [Next]_vars
               PROVE  Inv'
      OBVIOUS
  <2>1. RouteInv'
        BY RouteInvNext
  <2>2. RoutesInv'
        BY RoutesNext DEF RouteInv
  <2>3. ExecInv'
        BY <2>1, ExecNext
  <2>4. QED  BY <2>1, <2>2, <2>3
<1>3. Inv => (ProbesConclusive /\ GivenRoutesHold => OkMeansExecuted)
  <2> SUFFICES ASSUME Inv, ProbesConclusive, GivenRoutesHold,
                      router.op \in {"cycle", "write"}, router.result = "ok", ~hist.moved,
                      NEW i \in DOMAIN router.requests, ~Excused(i),
                      NEW s \in Wanted(router.requests[i])
               PROVE  Executed(i, s)
      BY DEF OkMeansExecuted, Excused, Executed
  <2>1. Commanding
        BY DEF Commanding
  <2>2. router.pc = "idle"
        BY DEF RouteInv, QuietInv
  <2>3. i \in 1..Len(router.requests)
    <3>1. router.requests \in Seq(Requests(Len(cfg.devices)))
          BY DevicesKept DEF RouteInv, RouterOK
    <3>2. QED  BY <3>1
  <2>4. s \in Needed(i)
        BY DEF Needed
  <2>5. QED  BY <2>1, <2>2, <2>3, <2>4 DEF ExecInv
<1>4. QED
  <2> HIDE DEF Inv
  <2> QED  BY <1>1, <1>2, <1>3, PTL DEF Spec

(***************************************************************************)
(* What devices hold back                                                  *)
(***************************************************************************)

\* How devices and controllers are wired.
LEMMA WiringParts ==
    ASSUME cfg \in Scenarios
    PROVE  /\ \A d \in Devices : Fd(d) => Info(d).parent = None /\ HasBus(d)
           /\ \A k \in DOMAIN cfg.servers : HasBus(cfg.servers[k].bus)
           /\ \A j, k \in DOMAIN cfg.servers :
                 (j # k /\ cfg.servers[j].uuid # <<>>) => ~IsPrefix(cfg.servers[j].uuid, cfg.servers[k].uuid)
           /\ \A call \in cfg.calls : call.op = "write" =>
                 Len(call.requests) = 1 /\ call.requests[1].expected = 0
<1>1. Wired(cfg.devices, cfg.servers)
      BY RouterAssumption
<1>2. \A d \in Devices : Fd(d) => Info(d).parent = None /\ HasBus(d)
      BY <1>1 DEF Wired, Fd, Info, HasBus, Devices
<1>3. \A k \in DOMAIN cfg.servers : HasBus(cfg.servers[k].bus)
      BY <1>1 DEF Wired, HasBus, Info
<1>4. \A j, k \in DOMAIN cfg.servers :
         (j # k /\ cfg.servers[j].uuid # <<>>) => ~IsPrefix(cfg.servers[j].uuid, cfg.servers[k].uuid)
      BY <1>1 DEF Wired
<1>5. \A call \in cfg.calls : call.op = "write" =>
         Len(call.requests) = 1 /\ call.requests[1].expected = 0
      BY RouterAssumption
<1>6. QED  BY <1>2, <1>3, <1>4, <1>5

\* Sets that are no larger than what the entries expect are together no larger
\* than what they expect together.
LEMMA TotalBounds ==
    ASSUME NEW es \in Seq(Entries), NEW A,
           \A k \in 1..Len(es) : IsFiniteSet(A[k]) /\ Cardinality(A[k]) <= es[k].request.expected
    PROVE  LET all == UNION {A[k] : k \in 1..Len(es)}
           IN IsFiniteSet(all) /\ Cardinality(all) <= Total(es)
<1>1. PICK t \in [0..Len(es) -> Nat] :
         /\ t[0] = 0 /\ \A k \in 1..Len(es) : t[k] = t[k - 1] + es[k].request.expected
         /\ Total(es) = t[Len(es)]
      BY TotalSteps
<1> DEFINE N == Len(es)
           U(n) == UNION {A[k] : k \in 1..n}
           S == {n \in 0..N : IsFiniteSet(U(n)) /\ Cardinality(U(n)) <= t[n]}
<1>2. N \in Nat
      OBVIOUS
<1>3. 0 \in S
  <2>1. PICK X : X = U(0)
        OBVIOUS
  <2>2. X = {}
        BY <2>1
  <2>3. IsFiniteSet(X) /\ Cardinality(X) <= t[0]
        BY ONLY <1>1, <2>2, FS_EmptySet
  <2> HIDE DEF U
  <2>4. QED  BY <1>2, <2>1, <2>3
<1>4. ASSUME NEW n \in 0..(N - 1), n \in S
      PROVE  n + 1 \in S
  <2>1. n + 1 \in 1..N /\ n \in 0..N /\ n + 1 \in 0..N /\ n \in Nat /\ (n + 1) - 1 = n
        BY <1>2
  <2>2. U(n + 1) = U(n) \cup A[n + 1]
    <3>1. 1..(n + 1) = (1..n) \cup {n + 1}
          BY <2>1
    <3>2. QED  BY <3>1
  <2>3. IsFiniteSet(U(n)) /\ Cardinality(U(n)) <= t[n]
        BY <1>4
  <2>4. IsFiniteSet(A[n + 1]) /\ Cardinality(A[n + 1]) <= es[n + 1].request.expected
        BY <2>1
  <2>5. t[n + 1] = t[n] + es[n + 1].request.expected /\ t[n] \in Nat /\ t[n + 1] \in Nat
    <3> HIDE DEF N
    <3>1. t[n + 1] = t[(n + 1) - 1] + es[n + 1].request.expected
          BY <1>1, <2>1 DEF N
    <3>2. QED  BY <1>1, <2>1, <3>1 DEF N
  <2> HIDE DEF U, N
  <2>6. PICK X, Y, Z : X = U(n) /\ Y = A[n + 1] /\ Z = U(n + 1)
        OBVIOUS
  <2>7. /\ IsFiniteSet(Z) /\ Cardinality(Z) = Cardinality(X) + Cardinality(Y) - Cardinality(X \cap Y)
        /\ Cardinality(X) \in Nat /\ Cardinality(Y) \in Nat /\ Cardinality(X \cap Y) \in Nat
    <3>1. IsFiniteSet(X) /\ IsFiniteSet(Y) /\ Z = X \cup Y
          BY <2>2, <2>3, <2>4, <2>6
    <3>2. IsFiniteSet(X \cap Y)
          BY <3>1, FS_Subset
    <3>3. QED  BY ONLY <3>1, <3>2, FS_Union, FS_CardinalityType
  <2>8. es[n + 1].request.expected \in Nat
    <3>1. es[n + 1] \in Entries
          BY <2>1 DEF N
    <3>2. QED  BY <3>1 DEF Entries, Requests
  <2>9. Cardinality(U(n + 1)) <= t[n + 1]
        BY <2>3, <2>4, <2>5, <2>6, <2>7, <2>8
  <2>10. QED  BY <2>1, <2>6, <2>7, <2>9
<1>5. N \in S
  <2> HIDE DEF S, N
  <2>1. \A n \in 0..N : n \in S
        BY <1>2, <1>3, <1>4, IntervalInduction
  <2>2. QED  BY <1>2, <2>1
<1>6. QED  BY <1>1, <1>5

\* The call that an operation belongs to, and what it finds: nothing yet.
StartsCall ==
    /\ router.pc = "idle"
    /\ \/ \E call \in cfg.calls : router'.op = call.op /\ router'.requests = call.requests
       \/ router'.requests = <<>> /\ router'.op \in {"discover", "read", "flush", "clear"}
    /\ router'.op = "discover" => "discover" \in cfg.ops /\ router'.pc = "flush"
    /\ router'.routes = router.routes \/ "clear" \in cfg.ops
    /\ \A i \in DOMAIN router'.responses : router'.responses[i] = {}
    /\ router'.found = {} /\ router'.spent = router.spent
\* Flushing takes all that a device has.
Drainable(d) == Fd(d) \/ Arrived(d) = {}
StartsDevices ==
    \A d \in Devices :
        /\ dev'[d].pc = dev[d].pc /\ dev'[d].recover = dev[d].recover
        /\ \/ dev'[d].flush = dev[d].flush
           \/ ~dev'[d].flush /\ ((\A e \in Devices : Drainable(e)) => Arrived(d)' = {})

LEMMA CycleStarts ==
    ASSUME TypesInv, Cycle
    PROVE  StartsCall /\ StartsDevices
<1>1. PICK call \in cfg.calls :
       LET r == Started(call.op, call.requests)
           whole == [NoGroup EXCEPT !.other =
                        [i \in DOMAIN call.requests |-> Entry(i, call.requests[i], None)]]
       IN Begin(IF Len(cfg.devices) = 1 /\ call.op = "cycle"
                THEN [r EXCEPT !.pc = "run", !.work = <<Transactions(whole)>>]
                ELSE [r EXCEPT !.pc = "resolve"])
      BY DEF Cycle
<1>2. PICK op, requests : op = call.op /\ requests = call.requests
      OBVIOUS
<1>3. PICK r : r = Started(op, requests)
      OBVIOUS
<1>4. /\ DOMAIN r = RouterFields /\ r.op = op /\ r.requests = requests /\ r.spent = router.spent
      /\ r.responses = [i \in 0..Len(requests) |-> {}] /\ r.routes = router.routes /\ r.found = {}
  <2>1. DOMAIN router = RouterFields
        BY DevicesKept DEF RouterOK
  <2>2. QED  BY ONLY <2>1, <1>3 DEF Started, RouterFields
<1>5. \/ \E w : router' = [r EXCEPT !.pc = "run", !.work = w]
      \/ router' = [r EXCEPT !.pc = "resolve"]
      BY <1>1, <1>2, <1>3, Zenon DEF Begin
<1>6. /\ router'.op = op /\ router'.requests = requests /\ router'.spent = router.spent
      /\ router'.responses = [i \in 0..Len(requests) |-> {}] /\ router'.routes = router.routes
      /\ router'.found = {}
      BY ONLY <1>4, <1>5 DEF RouterFields
<1>7. router.pc = "idle" /\ dev' = dev
      BY DEF Cycle, CanStart
<1>8. call.op \in {"cycle", "write"}
      BY DevicesKept, ConfigParts
<1>9. \A i \in DOMAIN router'.responses : router'.responses[i] = {}
      BY ONLY <1>6
<1>10. StartsCall
      BY <1>2, <1>6, <1>7, <1>8, <1>9 DEF StartsCall
<1>11. StartsDevices
      BY <1>7 DEF StartsDevices
<1>12. QED  BY <1>10, <1>11

LEMMA DiscoverStarts ==
    ASSUME TypesInv, Discover
    PROVE  StartsCall /\ StartsDevices
<1>1. /\ CanStart /\ dev' = dev /\ "discover" \in cfg.ops
      /\ router' = [Started("discover", <<>>) EXCEPT !.pc = "flush"]
      BY DEF Discover, Begin
<1>2. PICK none, op : none = <<>> /\ op = "discover"
      OBVIOUS
<1>3. PICK r : r = Started(op, none)
      OBVIOUS
<1>4. /\ DOMAIN r = RouterFields /\ r.op = op /\ r.requests = none /\ r.spent = router.spent
      /\ r.responses = [i \in 0..Len(none) |-> {}] /\ r.routes = router.routes /\ r.found = {}
  <2>1. DOMAIN router = RouterFields
        BY DevicesKept DEF RouterOK
  <2>2. QED  BY ONLY <2>1, <1>3 DEF Started, RouterFields
<1>5. router' = [r EXCEPT !.pc = "flush"]
      BY ONLY <1>1, <1>2, <1>3
<1>6. /\ router'.pc = "flush" /\ router'.op = op /\ router'.requests = none /\ router'.spent = router.spent
      /\ router'.responses = [i \in 0..Len(none) |-> {}] /\ router'.routes = router.routes
      /\ router'.found = {}
      BY ONLY <1>4, <1>5 DEF RouterFields
<1>7. \A i \in DOMAIN router'.responses : router'.responses[i] = {}
      BY ONLY <1>6
<1>8. StartsCall
      BY <1>1, <1>2, <1>6, <1>7 DEF StartsCall, CanStart
<1>9. StartsDevices
      BY <1>1 DEF StartsDevices
<1>10. QED  BY <1>8, <1>9

\* The other calls.
LEMMA CalledStarts ==
    ASSUME TypesInv, CanStart, NEW op \in {"read", "flush", "clear"},
           NEW q, q = Called(op),
           \/ router' = q
           \/ op = "clear" /\ "clear" \in cfg.ops /\ router' = [q EXCEPT !.routes = <<>>]
    PROVE  StartsCall
<1>1. PICK none, o : none = <<>> /\ o = op
      OBVIOUS
<1>2. PICK r : r = Started(o, none)
      OBVIOUS
<1>3. /\ DOMAIN r = RouterFields /\ r.op = o /\ r.requests = none /\ r.spent = router.spent
      /\ r.responses = [i \in 0..Len(none) |-> {}] /\ r.routes = router.routes /\ r.found = {}
  <2>1. DOMAIN router = RouterFields
        BY DevicesKept DEF RouterOK
  <2>2. QED  BY ONLY <2>1, <1>2 DEF Started, RouterFields
<1>4. q = [r EXCEPT !.result = "ok"]
      BY <1>1, <1>2 DEF Called
<1>5. /\ DOMAIN q = RouterFields /\ q.op = o /\ q.requests = none /\ q.spent = router.spent
      /\ q.responses = [i \in 0..Len(none) |-> {}] /\ q.routes = router.routes /\ q.found = {}
      BY ONLY <1>3, <1>4 DEF RouterFields
<1>6. /\ router'.op = o /\ router'.requests = none /\ router'.spent = router.spent
      /\ router'.responses = [i \in 0..Len(none) |-> {}] /\ router'.found = {}
      /\ router'.routes = router.routes \/ "clear" \in cfg.ops
  <2>1. CASE router' = q
        BY ONLY <1>5, <2>1
  <2>2. CASE op = "clear" /\ "clear" \in cfg.ops /\ router' = [q EXCEPT !.routes = <<>>]
        BY ONLY <1>5, <2>2 DEF RouterFields
  <2>3. QED  BY <2>1, <2>2
<1>7. \A i \in DOMAIN router'.responses : router'.responses[i] = {}
      BY ONLY <1>6
<1>8. op # "discover" /\ op \in {"discover", "read", "flush", "clear"}
      OBVIOUS
<1>9. QED  BY <1>1, <1>6, <1>7, <1>8 DEF StartsCall, CanStart

LEMMA ReadStarts ==
    ASSUME TypesInv, read
    PROVE  StartsCall /\ StartsDevices
<1>1. CanStart /\ router' = Called("read")
      BY ZenonT(40) DEF read, Begin
<1>2. PICK d \in ParentIndices :
         dev' = [dev EXCEPT
                 ![d].rx = RemoveAt(@, IF dev[d].pending > 0 THEN dev[d].pending ELSE 1),
                 ![d].pending = IF @ > 0 THEN @ - 1 ELSE 0]
      BY ZenonT(40) DEF read
<1>3. dev \in [Devices -> DeviceStates]
      BY DevicesKept DEF DevicesOK
<1>4. ASSUME NEW e \in Devices
      PROVE  dev'[e].pc = dev[e].pc /\ dev'[e].flush = dev[e].flush /\ dev'[e].recover = dev[e].recover
  <2>1. CASE e # d
        BY <1>2, <1>3, <2>1
  <2>2. CASE e = d
    <3>1. PICK n : n = IF dev[d].pending > 0 THEN dev[d].pending ELSE 1
          OBVIOUS
    <3>2. PICK x, p : /\ p = (IF dev[d].pending > 0 THEN dev[d].pending - 1 ELSE 0)
                      /\ x = RemoveAt(dev[d].rx, n)
          OBVIOUS
    <3>3. dev[e] \in DeviceStates
          BY <1>3
    <3>4. dev'[e] = [dev[e] EXCEPT !.rx = x, !.pending = p]
          BY <1>2, <1>3, <2>2, <3>1, <3>2, <3>3 DEF DeviceStates
    <3>5. QED  BY ONLY <3>3, <3>4 DEF DeviceStates
  <2>3. QED  BY <2>1, <2>2
<1>5. PICK op \in {"read", "flush", "clear"} : op = "read"
      OBVIOUS
<1>6. StartsCall
      BY <1>1, <1>5, CalledStarts
<1>7. QED  BY <1>4, <1>6 DEF StartsDevices

\* Flushing clears the mark of a device, and what an adapter has.
LEMMA FlushedMarks ==
    ASSUME TypesInv, NEW ds, Flushed(ds), NEW d \in Devices
    PROVE  /\ dev'[d].pc = dev[d].pc /\ dev'[d].recover = dev[d].recover
           /\ d \notin ds => dev'[d].flush = dev[d].flush
           /\ d \in ds => ~dev'[d].flush
<1>1. dev' = [e \in Devices |-> IF e \notin ds THEN dev[e]
                ELSE [dev[e] EXCEPT !.rx = <<>>, !.pending = 0, !.flush = FALSE]]
      BY DEF Flushed
<1>2. dev[d] \in DeviceStates
      BY DevicesKept DEF DevicesOK
<1>3. CASE d \notin ds
  <2>1. dev'[d] = dev[d]
        BY <1>1, <1>3
  <2>2. QED  BY <1>3, <2>1
<1>4. CASE d \in ds
  <2>1. dev'[d] = [dev[d] EXCEPT !.rx = <<>>, !.pending = 0, !.flush = FALSE]
        BY <1>1, <1>4
  <2>2. dev'[d].pc = dev[d].pc /\ dev'[d].recover = dev[d].recover /\ ~dev'[d].flush
        BY ONLY <1>2, <2>1 DEF DeviceStates
  <2>3. QED  BY <1>4, <2>2
<1>5. QED  BY <1>3, <1>4

\* The parents are devices, and adapters are among them.
LEMMA ParentsDevices ==
    ASSUME TypesInv
    PROVE  ParentIndices \subseteq Devices /\ \A d \in Devices : Fd(d) => d \in ParentIndices
<1>1. \A d \in Devices : Info(d).parent \in {None} \cup Devices /\ (Fd(d) => Info(d).parent = None)
      BY DevicesKept, WiringParts, DeviceParts
<1>2. QED  BY <1>1 DEF ParentIndices

LEMMA FlushReadStarts ==
    ASSUME TypesInv, flush_read
    PROVE  StartsCall /\ StartsDevices
<1>1. CanStart /\ Flushed(ParentIndices) /\ router' = Called("flush")
      BY ZenonT(40) DEF flush_read, Begin
<1>2. PICK op \in {"read", "flush", "clear"} : op = "flush"
      OBVIOUS
<1>3. StartsCall
      BY <1>1, <1>2, CalledStarts
<1>4. ASSUME NEW d \in Devices
      PROVE  /\ dev'[d].pc = dev[d].pc /\ dev'[d].recover = dev[d].recover
             /\ \/ dev'[d].flush = dev[d].flush
                \/ ~dev'[d].flush /\ ((\A e \in Devices : Drainable(e)) => Arrived(d)' = {})
  <2>1. PICK ds : ds = ParentIndices
        OBVIOUS
  <2>2. Flushed(ds)
        BY <1>1, <2>1
  <2>3. CASE d \notin ds
        BY <2>2, <2>3, FlushedMarks
  <2>4. CASE d \in ds
    <3>1. dev'[d].pc = dev[d].pc /\ dev'[d].recover = dev[d].recover /\ ~dev'[d].flush
          BY <2>2, <2>4, FlushedMarks
    <3>2. ASSUME \A e \in Devices : Drainable(e)
          PROVE  Arrived(d)' = {}
      <4>1. \A e \in ds : Fd(e) \/ bus[e] = {}
            BY <2>1, <3>2, ParentsDevices DEF Drainable, Arrived
      <4>2. QED  BY <2>2, <2>4, <4>1, FlushedArrived
    <3>3. QED  BY <3>1, <3>2
  <2>5. QED  BY <2>3, <2>4
<1>5. QED  BY <1>3, <1>4 DEF StartsDevices

LEMMA ClearStarts ==
    ASSUME TypesInv, clear_routes
    PROVE  StartsCall /\ StartsDevices
<1>1. /\ CanStart /\ "clear" \in cfg.ops /\ dev' = dev
      /\ router' = [Called("clear") EXCEPT !.routes = <<>>]
      BY DEF clear_routes
<1>2. PICK op \in {"read", "flush", "clear"} : op = "clear"
      OBVIOUS
<1>3. PICK q : q = Called(op)
      OBVIOUS
<1>4. router' = [q EXCEPT !.routes = <<>>]
      BY ONLY <1>1, <1>2, <1>3
<1>5. StartsCall
      BY <1>1, <1>2, <1>3, <1>4, CalledStarts
<1>6. QED  BY <1>1, <1>5 DEF StartsDevices

LEMMA AllStart ==
    ASSUME TypesInv, Starting
    PROVE  StartsCall /\ StartsDevices
  BY CycleStarts, DiscoverStarts, ReadStarts, FlushReadStarts, ClearStarts DEF Starting

\* The requests of an operation are those of a call, and the routes of the
\* application stay until they are cleared.
CallInv ==
    /\ \/ router.requests = <<>>
       \/ \E call \in cfg.calls : router.op = call.op /\ router.requests = call.requests
    /\ router.op = "discover" => "discover" \in cfg.ops
    /\ "clear" \notin cfg.ops => \A a \in DOMAIN cfg.routes : a \in DOMAIN router.routes

\* Any step but a start goes on with the call, and forgets no route.
LEMMA RoutesGrow ==
    ASSUME TypesInv, ControlInv, [Next]_vars
    PROVE  \/ Starting
           \/ SameCall /\ \A a \in DOMAIN router.routes : a \in DOMAIN router'.routes
<1>1. CASE Resolve
      BY <1>1, ResolveParts DEF SameRoutes
<1>2. CASE Move
  <2>1. SameCall /\ Spend
        BY <1>2, MoveParts DEF Move
  <2>2. router'.routes = router.routes
    <3>1. DOMAIN router = RouterFields
          BY DevicesKept DEF RouterOK
    <3>2. PICK k : router' = [router EXCEPT !.spent = k]
          BY <2>1 DEF Spend
    <3>3. QED  BY ONLY <3>1, <3>2 DEF RouterFields
  <2>3. QED  BY <2>1, <2>2
<1>3. CASE ProbeEnd
  <2>1. SamePlan
        BY <1>3, ProbeEndParts
  <2>2. \A a \in DOMAIN router.routes : a \in DOMAIN router'.routes
    <3>1. CASE SameRoutes
          BY <3>1 DEF SameRoutes
    <3>2. CASE \E r : router'.routes =
                 [a \in DOMAIN router.routes \cup {LookupAddress(Sought)} |->
                    IF a = LookupAddress(Sought) THEN r.channel ELSE router.routes[a]]
          BY <3>2
    <3>3. QED  BY <1>3, <3>1, <3>2, ProbeEndParts
  <2>3. QED  BY <2>1, <2>2 DEF SamePlan
<1>4. CASE Execute \/ StartProbe \/ FlushAll \/ AskInTurn \/ AskInParallel \/ Ending \/ Unnoticed
  <2>1. SamePlan /\ SameRoutes
        BY <1>4, ExecuteParts, StartProbeParts, FlushAllParts, AskParts, EndParts, CancelParts
           DEF Ending, Unnoticed
  <2>2. QED  BY <2>1 DEF SamePlan, SameRoutes
<1>5. CASE \E d \in Devices : Works(d)
  <2>1. SamePlan /\ SameRoutes
        BY <1>5 DEF Works
  <2>2. QED  BY <2>1 DEF SamePlan, SameRoutes
<1>6. QED  BY <1>1, <1>2, <1>3, <1>4, <1>5, AllSteps DEF Probing

LEMMA CallNext ==
    ASSUME TypesInv, ControlInv, CallInv, [Next]_vars
    PROVE  CallInv'
<1>1. CASE Starting
  <2>1. cfg' = cfg
        BY <1>1, StartsFresh DEF Fresh
  <2>2. StartsCall
        BY <1>1, AllStart
  <2>3. QED  BY <2>1, <2>2 DEF CallInv, StartsCall
<1>2. CASE SameCall /\ \A a \in DOMAIN router.routes : a \in DOMAIN router'.routes
      BY <1>2 DEF CallInv, SameCall
<1>3. QED  BY <1>1, <1>2, RoutesGrow

\* A request of the operation is one of a call.
LEMMA RequestOfCall ==
    ASSUME TypesInv, CallInv, NEW i \in 1..Len(router.requests)
    PROVE  \E call \in cfg.calls :
               /\ router.op = call.op /\ router.requests = call.requests
               /\ router.requests[i] \in Range(call.requests)
<1>1. PICK call \in cfg.calls : router.op = call.op /\ router.requests = call.requests
  <2>1. router.requests # <<>>
        OBVIOUS
  <2>2. QED  BY <2>1 DEF CallInv
<1>2. call.requests \in Seq(Requests(Len(cfg.devices)))
      BY DevicesKept, ConfigParts
<1>3. router.requests[i] \in Range(call.requests)
      BY <1>1, <1>2 DEF Range
<1>4. QED  BY <1>1, <1>3

\* What is probed for is an address that may have to be.
LEMMA SeeksMayProbe ==
    ASSUME TypesInv, CallInv, SoughtInv, Seeking
    PROVE  /\ router.i \in 1..Len(router.requests) /\ MayProbe(Sought)
           /\ \E call \in cfg.calls : Sought \in Range(call.requests)
<1>1. router.i \in 1..Len(router.requests)
      BY DevicesKept DEF RouterOK, Seeking
<1>2. \E call \in cfg.calls : Sought \in Range(call.requests)
  <2>1. PICK i \in 1..Len(router.requests) : i = router.i
        BY <1>1
  <2>2. \E call \in cfg.calls : router.requests[i] \in Range(call.requests)
        BY RequestOfCall
  <2>3. QED  BY <2>1, <2>2 DEF Sought
<1>3. Unknown(Sought)
      BY DEF SoughtInv
<1>4. /\ Sought.channel = None /\ Sought.frame # NoFrame /\ ~IsTrueBroadcast(Sought)
      /\ Len(cfg.devices) # 1 /\ LookupAddress(Sought) \notin DOMAIN router.routes
      BY <1>3 DEF Unknown, Lookup
<1>5. Len(cfg.devices) > 1
  <2>1. PICK n : n = Len(cfg.devices)
        OBVIOUS
  <2>2. n \in Nat \ {0}
        BY <2>1, DevicesKept, ConfigParts
  <2>3. n # 1
        BY <1>4, <2>1, Zenon
  <2>4. n > 1
        BY <2>2, <2>3
  <2>5. QED  BY <2>1, <2>4, Zenon
<1>6. LookupAddress(Sought) \notin DOMAIN cfg.routes \/ "clear" \in cfg.ops
  <2>1. PICK a : a = LookupAddress(Sought)
        OBVIOUS
  <2>2. a \notin DOMAIN router.routes
        BY <1>4, <2>1
  <2>3. "clear" \notin cfg.ops => \A x \in DOMAIN cfg.routes : x \in DOMAIN router.routes
        BY DEF CallInv
  <2>4. QED  BY ONLY <2>1, <2>2, <2>3
<1>7. QED  BY <1>1, <1>2, <1>4, <1>5, <1>6 DEF MayProbe

\* The probe for an address reaches whom the request would.
LEMMA ProbeReaches ==
    ASSUME TypesInv, SoughtInv, Seeking, NEW server
    PROVE  Accepts(server, Probe.frame) <=> Accepts(server, Sought.frame)
<1> DEFINE a == LookupAddress(Sought)
<1>1. Probe.frame = [dest |-> a.id, mask |-> a.uuid, asks |-> "mode"]
      BY ProbeAsks
<1>2. WellAddressed(Sought)
      BY DevicesKept DEF RouterOK, Seeking, Sought
<1>3. Sought.frame # NoFrame
      BY DEF SoughtInv, Unknown
<1>4. Sought.frame.dest = a.id /\ Sought.frame.mask = a.uuid
  <2>1. CASE Sought.address = NoAddress
    <3>1. Sought.frame.mask = <<>> /\ a = can_id(Sought.frame.dest)
          BY <1>2, <1>3, <2>1 DEF WellAddressed, LookupAddress
    <3>2. QED  BY <3>1 DEF can_id
  <2>2. CASE Sought.address # NoAddress
    <3>1. /\ a = Sought.address /\ Sought.frame = from_command(a, Sought.frame.asks).frame
          /\ a.id # Broadcast => a.uuid = <<>>
          BY <1>2, <1>3, <2>2 DEF WellAddressed, LookupAddress
    <3>2. from_command(a, Sought.frame.asks).frame =
              [dest |-> a.id, mask |-> IF a.id = Broadcast THEN a.uuid ELSE <<>>, asks |-> Sought.frame.asks]
          BY DEF from_command
    <3>3. QED
      <4> HIDE DEF a
      <4>1. \A x, y, z : /\ [dest |-> x, mask |-> y, asks |-> z].dest = x
                         /\ [dest |-> x, mask |-> y, asks |-> z].mask = y
            OBVIOUS
      <4>2. QED  BY <3>1, <3>2, <4>1
  <2>3. QED  BY <2>1, <2>2
<1>5. Probe.frame.dest = a.id /\ Probe.frame.mask = a.uuid
      BY <1>1
<1>6. QED  BY <1>4, <1>5 DEF Accepts

(***************************************************************************)
(* Controllers stay who they are                                           *)
(***************************************************************************)

WhoInv ==
    /\ DOMAIN servers = DOMAIN cfg.servers
    /\ \A s \in DOMAIN servers :
          servers[s].id = cfg.servers[s].id /\ servers[s].uuid = cfg.servers[s].uuid

LEMMA MoveWho ==
    ASSUME TypesInv, Move
    PROVE  /\ DOMAIN servers' = DOMAIN servers
           /\ \A s \in DOMAIN servers : servers'[s].id = servers[s].id /\ servers'[s].uuid = servers[s].uuid
<1>1. PICK s \in DOMAIN servers, d \in Devices : servers' = [servers EXCEPT ![s].bus = d]
      BY DEF Move
<1>2. servers \in Seq(ServerInfos(Len(cfg.devices)))
      BY DevicesKept
<1>3. \A t \in DOMAIN servers : servers[t] \in ServerInfos(Len(cfg.devices))
      BY <1>2
<1>4. PICK x : x = [servers[s] EXCEPT !.bus = d]
      OBVIOUS
<1>5. x.id = servers[s].id /\ x.uuid = servers[s].uuid
      BY <1>1, <1>3, <1>4 DEF ServerInfos
<1>6. servers' = [servers EXCEPT ![s] = x]
      BY <1>1, <1>4
<1>7. QED  BY <1>1, <1>2, <1>5, <1>6

LEMMA WhoNext ==
    ASSUME TypesInv, ControlInv, WhoInv, [Next]_vars
    PROVE  WhoInv'
<1>1. cfg' = cfg
      BY StepKeeps
<1>2. CASE Move
  <2>1. /\ DOMAIN servers' = DOMAIN servers
        /\ \A s \in DOMAIN servers : servers'[s].id = servers[s].id /\ servers'[s].uuid = servers[s].uuid
        BY <1>2, MoveWho
  <2>2. QED  BY <1>1, <2>1 DEF WhoInv
<1>3. CASE servers' = servers
      BY <1>1, <1>3 DEF WhoInv
<1>4. QED  BY <1>2, <1>3, StepKeeps

\* Whom a frame may reach once controllers move.
LEMMA ReachedKept ==
    ASSUME TypesInv, ControlInv, [Next]_vars, NEW b, NEW frame
    PROVE  Reached(b, frame) \subseteq Reached(b, frame)'
<1>1. CASE Move
  <2>1. /\ DOMAIN servers' = DOMAIN servers
        /\ \A s \in DOMAIN servers : servers'[s].id = servers[s].id /\ servers'[s].uuid = servers[s].uuid
        BY <1>1, MoveWho
  <2>2. hist'.moved
        BY <1>1, MoveParts
  <2>3. \A s \in DOMAIN servers : Accepts(servers[s], frame) => Accepts(servers'[s], frame)
        BY <2>1 DEF Accepts
  <2>4. QED  BY <2>1, <2>2, <2>3 DEF Reached
<1>2. CASE servers' = servers /\ hist'.moved = hist.moved
      BY <1>2 DEF Reached
<1>3. QED  BY <1>1, <1>2, StepKeeps

\* Controllers are finite in number.
LEMMA ReachedFinite ==
    ASSUME TypesInv, NEW b, NEW frame
    PROVE  /\ IsFiniteSet(Reached(b, frame)) /\ Cardinality(Reached(b, frame)) \in Nat
           /\ IsFiniteSet(Listeners(b, frame)) /\ Listeners(b, frame) \subseteq Reached(b, frame)
           /\ Cardinality(Listeners(b, frame)) \in Nat
           /\ Cardinality(Listeners(b, frame)) <= Cardinality(Reached(b, frame))
<1>1. PICK R, L : R = Reached(b, frame) /\ L = Listeners(b, frame)
      OBVIOUS
<1>2. IsFiniteSet(DOMAIN servers)
  <2>1. DOMAIN servers = 1..Len(servers) /\ Len(servers) \in Nat
        BY DevicesKept
  <2>2. QED  BY <2>1, FS_Interval
<1>3. R \subseteq DOMAIN servers /\ L \subseteq R
      BY <1>1 DEF Reached, Listeners
<1>4. IsFiniteSet(R)
      BY ONLY <1>2, <1>3, FS_Subset
<1>5. IsFiniteSet(L) /\ Cardinality(L) <= Cardinality(R)
      BY ONLY <1>3, <1>4, FS_Subset
<1>6. Cardinality(R) \in Nat /\ Cardinality(L) \in Nat
      BY ONLY <1>4, <1>5, FS_CardinalityType
<1>7. QED  BY <1>1, <1>3, <1>4, <1>5, <1>6

\* Operations that ask for too little stay so.
LEMMA SurplusKept ==
    ASSUME TypesInv, TypesInv', ControlInv, [Next]_vars, Surplus
    PROVE  Surplus'
<1>1. cfg' = cfg
      BY StepKeeps
<1>2. CASE Crowded
      BY <1>1, <1>2 DEF Surplus, Crowded, UuidQuery, Request
<1>3. CASE \E call \in cfg.calls : \E request \in Range(call.requests) : \E b \in Devices :
          LET reached == Cardinality(Reached(b, request.frame))
          IN \/ request.frame.asks # "nothing" /\ reached > request.expected
             \/ MayProbe(request) /\ reached > 1
  <2>0. PICK call \in cfg.calls : \E request \in Range(call.requests) : \E b \in Devices :
             \/ request.frame.asks # "nothing" /\ Cardinality(Reached(b, request.frame)) > request.expected
             \/ MayProbe(request) /\ Cardinality(Reached(b, request.frame)) > 1
        BY <1>3
  <2>1. PICK request \in Range(call.requests), b \in Devices :
             \/ request.frame.asks # "nothing" /\ Cardinality(Reached(b, request.frame)) > request.expected
             \/ MayProbe(request) /\ Cardinality(Reached(b, request.frame)) > 1
        BY <2>0
  <2>2. PICK c, k : c = Cardinality(Reached(b, request.frame)) /\ k = Cardinality(Reached(b, request.frame)')
        OBVIOUS
  <2>3. c \in Nat /\ k \in Nat /\ c <= k
    <3>1. PICK R, Q : R = Reached(b, request.frame) /\ Q = Reached(b, request.frame)'
          OBVIOUS
    <3>2. R \subseteq Q
          BY <3>1, ReachedKept
    <3>3. IsFiniteSet(R)
          BY <3>1, ReachedFinite
    <3>4. IsFiniteSet(Q)
      <4>1. IsFiniteSet(DOMAIN servers')
        <5>1. servers' \in Seq(ServerInfos(Len(cfg'.devices)))
              BY DEF TypesInv
        <5>2. DOMAIN servers' = 1..Len(servers') /\ Len(servers') \in Nat
              BY <5>1
        <5>3. QED  BY <5>2, FS_Interval
      <4>2. Q \subseteq DOMAIN servers'
            BY <3>1 DEF Reached
      <4>3. QED  BY ONLY <4>1, <4>2, FS_Subset
    <3>5. Cardinality(R) \in Nat /\ Cardinality(Q) \in Nat /\ Cardinality(R) <= Cardinality(Q)
          BY ONLY <3>2, <3>3, <3>4, FS_Subset, FS_CardinalityType
    <3>6. QED  BY <2>2, <3>1, <3>5
  <2>4. request.expected \in Nat
    <3>1. call.requests \in Seq(Requests(Len(cfg.devices)))
          BY DevicesKept, ConfigParts
    <3>2. request \in Requests(Len(cfg.devices))
          BY <2>1, <3>1, RangeParts
    <3>3. QED  BY <3>2 DEF Requests
  <2>5. MayProbe(request)' <=> MayProbe(request)
        BY <1>1 DEF MayProbe, LookupAddress, IsTrueBroadcast, can_id
  <2>6. Devices' = Devices
        BY <1>1, ConfigKept
  <2>7. \/ request.frame.asks # "nothing" /\ k > request.expected
        \/ MayProbe(request)' /\ k > 1
        BY <2>1, <2>2, <2>3, <2>4, <2>5
  <2>8. QED  BY <1>1, <2>1, <2>2, <2>6, <2>7 DEF Surplus
<1>4. QED  BY <1>2, <1>3 DEF Surplus

LEMMA AttentiveKept ==
    ASSUME TypesInv, TypesInv', ControlInv, [Next]_vars, Attentive'
    PROVE  Attentive
<1>1. cfg' = cfg
      BY StepKeeps
<1>2. Adapters' = Adapters
      BY <1>1, ConfigKept
<1>3. ~Surplus
      BY SurplusKept DEF Attentive
<1>4. \A request : MayProbe(request)' <=> MayProbe(request)
      BY <1>1 DEF MayProbe, LookupAddress, IsTrueBroadcast, can_id
<1>5. ProbesEnd
      BY <1>1, <1>4 DEF Attentive, ProbesEnd
<1>6. QED  BY <1>1, <1>2, <1>3, <1>5 DEF Attentive

(***************************************************************************)
(* How many answers a transaction brings                                   *)
(***************************************************************************)

\* Answers name the operation and the request; there are no more of them than
\* listeners.
LEMMA AnswersCause ==
    ASSUME NEW d, NEW e, NEW r \in Answers(d, e)
    PROVE  r.cause = <<router.n, e.req>> /\ e.request.frame.asks # "nothing"
  BY DEF Answers

LEMMA AnswersFewer ==
    ASSUME TypesInv, NEW d, NEW e
    PROVE  /\ IsFiniteSet(Answers(d, e)) /\ Cardinality(Answers(d, e)) \in Nat
           /\ Cardinality(Answers(d, e)) <= Cardinality(Listeners(BusOf(d, e), e.request.frame))
<1>1. PICK L, A : L = Listeners(BusOf(d, e), e.request.frame) /\ A = Answers(d, e)
      OBVIOUS
<1>2. IsFiniteSet(L) /\ Cardinality(L) \in Nat
      BY <1>1, ReachedFinite
<1>3. CASE e.request.frame.asks = "nothing"
  <2>1. A = {}
        BY <1>1, <1>3 DEF Answers
  <2>2. IsFiniteSet(A) /\ Cardinality(A) = 0
        BY ONLY <2>1, FS_EmptySet
  <2>3. QED  BY <1>1, <1>2, <2>2
<1>4. CASE e.request.frame.asks # "nothing"
  <2> DEFINE answer == [s \in L |->
                          [server |-> s, source |-> servers[s].id, to |-> Host,
                           uuid |-> IF e.request.frame.asks = "uuid" THEN servers[s].uuid ELSE <<>>,
                           cause |-> <<router.n, e.req>>]]
  <2>1. A = {answer[s] : s \in L}
        BY <1>1, <1>4 DEF Answers
  <2>2. PICK f : f = answer
        OBVIOUS
  <2>3. A = {f[s] : s \in L} /\ f \in Surjection(L, A)
    <3> HIDE DEF answer
    <3>1. A = {f[s] : s \in L}
          BY <2>1, <2>2
    <3>2. DOMAIN f = L /\ f = [s \in L |-> f[s]]
          BY <2>2 DEF answer
    <3>3. QED  BY <3>1, <3>2 DEF Surjection
  <2>4. IsFiniteSet(A) /\ Cardinality(A) <= Cardinality(L)
        BY ONLY <1>2, <2>3, FS_Surjection
  <2>5. Cardinality(A) \in Nat
        BY ONLY <2>4, FS_CardinalityType
  <2>6. QED  BY <1>1, <2>4, <2>5
<1>5. QED  BY <1>3, <1>4

\* A bus answers a probe as often as is expected, at most.
LEMMA ProbeAnswered ==
    ASSUME TypesInv, CallInv, SoughtInv, WhoInv, ~Surplus,
           router.pc \in {"flush", "ask", "probe"}, NEW d \in Devices, NEW e,
           e.child = None, e.request = Probe
    PROVE  /\ IsFiniteSet(Answers(d, e)) /\ Cardinality(Answers(d, e)) \in Nat
           /\ Cardinality(Answers(d, e)) <= Probe.expected
<1>1. BusOf(d, e) = d /\ e.request.frame = Probe.frame
      BY DEF BusOf
<1>2. PICK a, l : a = Cardinality(Answers(d, e)) /\ l = Cardinality(Listeners(d, Probe.frame))
      OBVIOUS
<1>3. IsFiniteSet(Answers(d, e)) /\ a \in Nat /\ a <= l
      BY <1>1, <1>2, AnswersFewer
<1>4. l \in Nat
      BY <1>2, ReachedFinite
<1>5. CASE router.op = "discover"
  <2>1. PICK m, n : m = Len(servers) /\ n = Len(cfg.servers)
        OBVIOUS
  <2>2. m \in Nat /\ m = n
    <3>1. servers \in Seq(ServerInfos(Len(cfg.devices))) /\ cfg.servers \in Seq(ServerInfos(Len(cfg.devices)))
          BY DevicesKept, ConfigParts
    <3>2. DOMAIN servers = 1..m /\ DOMAIN cfg.servers = 1..n /\ m \in Nat /\ n \in Nat
          BY <2>1, <3>1
    <3>3. 1..m = 1..n
          BY <3>2 DEF WhoInv
    <3>4. QED  BY ONLY <3>2, <3>3
  <2>3. UuidQuery.expected = 127 /\ Probe.expected = 127
        BY <1>5 DEF Probe, UuidQuery, Request
  <2>4. n <= 127
    <3>1. ~(n > 127)
          BY <1>5, <2>1, <2>3 DEF Surplus, Crowded, CallInv
    <3>2. QED  BY <2>2, <3>1
  <2>5. l <= m
    <3>1. PICK L : L = Listeners(d, Probe.frame)
          OBVIOUS
    <3>2. DOMAIN servers = 1..m
          BY <2>1, DevicesKept
    <3>3. L \subseteq 1..m
          BY <3>1, <3>2 DEF Listeners
    <3>4. IsFiniteSet(1..m) /\ Cardinality(1..m) = m
      <4>1. 1 \in Int /\ m \in Int
            BY <2>2
      <4>2. QED  BY ONLY <2>2, <4>1, FS_Interval
    <3>5. Cardinality(L) <= Cardinality(1..m)
          BY ONLY <3>3, <3>4, FS_Subset
    <3>6. QED  BY <1>2, <3>1, <3>4, <3>5
  <2>6. QED  BY <1>2, <1>3, <1>4, <2>2, <2>3, <2>4, <2>5
<1>6. CASE router.op # "discover"
  <2>1. Seeking
        BY <1>6 DEF Seeking
  <2>2. MayProbe(Sought) /\ \E call \in cfg.calls : Sought \in Range(call.requests)
        BY <2>1, SeeksMayProbe
  <2>3. PICK k : k = Cardinality(Reached(d, Sought.frame))
        OBVIOUS
  <2>4. ~(k > 1)
        BY <2>2, <2>3 DEF Surplus
  <2>5. l <= k /\ k \in Nat
    <3>1. Reached(d, Probe.frame) = Reached(d, Sought.frame)
          BY <2>1, ProbeReaches DEF Reached
    <3>2. Cardinality(Reached(d, Probe.frame)) = k
          BY <2>3, <3>1
    <3>3. l <= Cardinality(Reached(d, Probe.frame)) /\ Cardinality(Reached(d, Probe.frame)) \in Nat
          BY <1>2, ReachedFinite
    <3>4. QED  BY <3>2, <3>3
  <2>6. Probe.expected = 1
        BY <1>6 DEF Probe, Request
  <2>7. QED  BY <1>2, <1>3, <1>4, <2>4, <2>5, <2>6
<1>7. QED  BY <1>5, <1>6

\* So it does every entry of a transaction.
LEMMA EntryAnswered ==
    ASSUME TypesInv, CallInv, SoughtInv, WhoInv, WorkInv, ~Surplus, Running,
           NEW d \in Devices, router.work[d] # <<>>, NEW e \in Range(Txn(d).entries)
    PROVE  /\ IsFiniteSet(Answers(d, e)) /\ Cardinality(Answers(d, e)) \in Nat
           /\ Cardinality(Answers(d, e)) <= e.request.expected
<1>1. Txn(d).entries \in Seq(Entries)
      BY TxnType DEF Txns
<1>2. e \in Entries /\ e.request.expected \in Nat
  <2>1. e \in Entries
        BY <1>1, RangeParts
  <2>2. QED  BY <2>1 DEF Entries, Requests
<1>3. e \in InTxns(router.work[d])
  <2>1. Txn(d) \in Range(router.work[d])
        BY WorkLeftParts
  <2>2. QED  BY <2>1 DEF InTxns
<1>4. CASE e.request.frame.asks = "nothing"
  <2>1. PICK A : A = Answers(d, e)
        OBVIOUS
  <2>2. A = {}
        BY <1>4, <2>1 DEF Answers
  <2>3. IsFiniteSet(A) /\ Cardinality(A) = 0
        BY ONLY <2>2, FS_EmptySet
  <2>4. QED  BY <1>2, <2>1, <2>3
<1>5. CASE e.request.frame.asks # "nothing" /\ router.pc = "probe"
  <2>1. ProbeEntry(d, e)
        BY <1>3, <1>5 DEF WorkInv
  <2>2. ~cfg.async
    <3>1. receive_only(Probe.expected).frame.asks = "nothing"
          BY DEF receive_only, Request, NoFrame
    <3>2. QED  BY <1>5, <2>1, <3>1 DEF ProbeEntry
  <2>3. e.child = None /\ e.request = Probe
        BY <2>1, <2>2 DEF ProbeEntry
  <2>4. QED  BY <1>5, <2>3, ProbeAnswered
<1>6. CASE e.request.frame.asks # "nothing" /\ router.pc = "run"
  <2>1. e.req \in 1..Len(router.requests) /\ e.request = router.requests[e.req]
        BY <1>3, <1>6 DEF WorkInv, Asked
  <2>2. \E call \in cfg.calls : e.request \in Range(call.requests)
        BY <2>1, RequestOfCall
  <2>3. PICK b : b = BusOf(d, e)
        OBVIOUS
  <2>4. b \in Devices
    <3>1. e.child \in 0..Len(cfg.devices)
          BY <1>2 DEF Entries
    <3>2. Devices = 1..Len(cfg.devices) /\ Len(cfg.devices) \in Nat
          BY DevicesKept, ConfigParts
    <3>3. QED  BY <2>3, <3>1, <3>2 DEF BusOf, None
  <2>5. PICK k, l : k = Cardinality(Reached(b, e.request.frame)) /\ l = Cardinality(Listeners(b, e.request.frame))
        OBVIOUS
  <2>6. ~(k > e.request.expected)
        BY <1>6, <2>2, <2>4, <2>5 DEF Surplus
  <2>7. k \in Nat /\ l \in Nat /\ l <= k
        BY <2>5, ReachedFinite
  <2>8. PICK a : a = Cardinality(Answers(d, e))
        OBVIOUS
  <2>9. IsFiniteSet(Answers(d, e)) /\ a \in Nat /\ a <= l
        BY <2>3, <2>5, <2>8, AnswersFewer
  <2>10. QED  BY <1>2, <2>6, <2>7, <2>8, <2>9
<1>7. QED  BY <1>4, <1>5, <1>6 DEF Running

\* And its frames together.
LEMMA FramesAnswered ==
    ASSUME TypesInv, CallInv, SoughtInv, WhoInv, WorkInv, ~Surplus, Running,
           NEW d \in Devices, router.work[d] # <<>>, NEW k \in 0..Len(Txn(d).entries)
    PROVE  /\ IsFiniteSet(AnswersTo(d, Frames(d, k)))
           /\ Cardinality(AnswersTo(d, Frames(d, k))) \in Nat
           /\ Cardinality(AnswersTo(d, Frames(d, k))) <= Expected(d)
<1>1. Txn(d).entries \in Seq(Entries) /\ Len(Txn(d).entries) \in Nat /\ Expected(d) \in Nat
      BY TxnType DEF Txns
<1>2. PICK es : es = Txn(d).entries
      OBVIOUS
<1> DEFINE A == [j \in 1..Len(es) |-> Answers(d, es[j])]
           all == UNION {A[j] : j \in 1..Len(es)}
<1>3. ASSUME NEW j \in 1..Len(es)
      PROVE  IsFiniteSet(A[j]) /\ Cardinality(A[j]) <= es[j].request.expected
  <2>1. es[j] \in Range(es)
        BY <1>1, <1>2 DEF Range
  <2>2. PICK e : e = es[j]
        OBVIOUS
  <2>3. IsFiniteSet(Answers(d, e)) /\ Cardinality(Answers(d, e)) <= e.request.expected
        BY <1>2, <2>1, <2>2, EntryAnswered
  <2>4. QED  BY <2>2, <2>3
<1>4. PICK X, Y : X = all /\ Y = AnswersTo(d, Frames(d, k))
      OBVIOUS
<1>5. IsFiniteSet(X) /\ Cardinality(X) <= Total(es)
  <2>1. es \in Seq(Entries)
        BY <1>1, <1>2
  <2> HIDE DEF A
  <2>2. QED  BY <1>3, <1>4, <2>1, TotalBounds
<1>6. Y \subseteq X
  <2>1. \A r \in Y : \E j \in 1..Len(es) : r \in Answers(d, es[j])
    <3>1. 1..k \subseteq 1..Len(es)
          BY <1>1, <1>2
    <3>2. QED  BY <1>2, <1>4, <3>1 DEF AnswersTo, Frames
  <2>2. QED  BY <1>4, <2>1
<1>7. IsFiniteSet(Y) /\ Cardinality(Y) <= Cardinality(X)
      BY ONLY <1>5, <1>6, FS_Subset
<1>8. Cardinality(X) \in Nat /\ Cardinality(Y) \in Nat
      BY ONLY <1>5, <1>7, FS_CardinalityType
<1>9. Total(es) = Expected(d)
      BY <1>2 DEF Expected
<1>10. QED
  <2> HIDE DEF all
  <2> QED  BY <1>1, <1>4, <1>5, <1>7, <1>8, <1>9

\* What is sent outside of a transaction brings no answers.
LEMMA WritesUnanswered ==
    ASSUME TypesInv, CallInv, SoughtInv, WhoInv, WorkInv, ~Surplus, Writing,
           NEW d \in Devices, router.work[d] # <<>>, NEW k \in 0..Len(Txn(d).entries)
    PROVE  AnswersTo(d, Frames(d, k)) = {}
<1>1. router.pc = "run" /\ router.op = "write" /\ Running
      BY DEF Writing, Running
<1>2. ASSUME NEW e \in Frames(d, k)
      PROVE  Answers(d, e) = {}
  <2>1. e \in Range(Txn(d).entries)
    <3>1. Txn(d).entries \in Seq(Entries) /\ Len(Txn(d).entries) \in Nat
          BY TxnType DEF Txns
    <3>2. 1..k \subseteq 1..Len(Txn(d).entries)
          BY <3>1
    <3>3. QED  BY <1>2, <3>1, <3>2 DEF Frames, Range
  <2>2. e.req \in 1..Len(router.requests) /\ e.request = router.requests[e.req]
    <3>1. Txn(d) \in Range(router.work[d])
          BY WorkLeftParts
    <3>2. e \in InTxns(router.work[d])
          BY <2>1, <3>1 DEF InTxns
    <3>3. QED  BY <1>1, <3>2 DEF WorkInv, Asked
  <2>3. PICK call \in cfg.calls : router.op = call.op /\ router.requests = call.requests
        BY <2>2, RequestOfCall
  <2>4. Len(call.requests) = 1 /\ call.requests[1].expected = 0
        BY <1>1, <2>3, DevicesKept, WiringParts
  <2>5. e.request.expected = 0
    <3>1. PICK i : i = e.req
          OBVIOUS
    <3>2. i \in 1..1
          BY <2>2, <2>3, <2>4, <3>1
    <3>3. i = 1
          BY <3>2
    <3>4. QED  BY <2>2, <2>3, <2>4, <3>1, <3>3
  <2>6. PICK A : A = Answers(d, e)
        OBVIOUS
  <2>7. IsFiniteSet(A) /\ Cardinality(A) \in Nat /\ Cardinality(A) <= 0
        BY <1>1, <2>1, <2>5, <2>6, EntryAnswered
  <2>8. A = {}
    <3>1. Cardinality(A) = 0
          BY <2>7
    <3>2. QED  BY ONLY <2>7, <3>1, FS_EmptySet
  <2>9. QED  BY <2>6, <2>8
<1>3. QED  BY <1>2 DEF AnswersTo

(***************************************************************************)
(* What devices hold back                                                  *)
(***************************************************************************)

\* The answers of the operation that is running, and no more than are expected.
Own(r) ==
    /\ r.cause \in {router.n} \X Nat
    /\ router.pc = "run" => r.cause \in {router.n} \X (1..Len(router.requests))
Few(d) ==
    /\ IsFiniteSet(bus[d]) /\ Cardinality(bus[d]) + Len(dev[d].rx) <= Expected(d)
    /\ \A r \in Arrived(d) : Own(r)

\* A device that waits for an answer to the probe that another wrote.
Awaits(d) == cfg.async /\ router.pc = "probe" /\ router.work[d] # <<>>
Marked(d) == dev[d].flush \/ dev[d].recover

\* A device at work has only what it waits for, and a task has marked it for the
\* case that it is dropped; any other is marked, or has nothing, or awaits it.
Settled(d) ==
    IF dev[d].pc # "idle"
    THEN /\ Few(d) /\ (Writing => Arrived(d) = {})
         /\ cfg.async /\ ~Writing => dev[d].recover
    ELSE Marked(d) \/ Arrived(d) = {} \/ (Awaits(d) /\ Few(d))
Quieted == router.pc = "ask" => \A d \in Devices : Arrived(d) = {}
AnswersOwn ==
    \A i \in 1..Len(router.requests) : \A r \in router.responses[i] :
        r.frame.cause \in {router.n} \X (1..Len(router.requests))
\* This is so over adapters, which are drained, and where nothing is disturbed.
Quiet == ~Disturbed /\ ~Surplus
AnswerInv == (Attentive \/ Quiet) => (\A d \in Devices : Settled(d)) /\ Quieted /\ AnswersOwn

\* Without disturbances only a transaction sets needs_recovery, for as long as
\* it takes, and only a timeout of an adapter sets needs_flush.
MarksFit(d) ==
    /\ dev[d].recover => dev[d].pc # "idle" /\ ~Writing
    /\ dev[d].flush => Fd(d)
MarksInv == ~Disturbed => \A d \in Devices : MarksFit(d)

\* A device without work keeps its mark or loses what it has.
LEMMA IdleSettled ==
    ASSUME NEW d, Settled(d), dev[d].pc = "idle", ~Awaits(d), dev'[d].pc = "idle",
           Arrived(d)' = {} \/ (Marked(d) => Marked(d)'), Arrived(d)' \subseteq Arrived(d)
    PROVE  Settled(d)'
<1>1. Marked(d) \/ Arrived(d) = {}
      BY DEF Settled
<1>2. Marked(d)' \/ Arrived(d)' = {}
      BY <1>1
<1>3. QED  BY <1>2 DEF Settled

\* A device that nothing touches stays as it is.
LEMMA StillSettled ==
    ASSUME NEW d, Settled(d), cfg' = cfg, router'.pc = router.pc, router'.n = router.n,
           router'.op = router.op, router'.requests = router.requests,
           dev'[d] = dev[d], bus'[d] = bus[d],
           (dev[d].pc # "idle" \/ Awaits(d)) => router'.work[d] = router.work[d]
    PROVE  Settled(d)'
<1>1. Arrived(d)' = Arrived(d) /\ (Marked(d)' <=> Marked(d)) /\ (Writing' <=> Writing)
      BY DEF Arrived, Marked, Writing
<1>2. \A r : Own(r)' <=> Own(r)
      BY DEF Own
<1>3. CASE dev[d].pc # "idle"
  <2>1. Expected(d)' = Expected(d)
        BY <1>3 DEF Expected, Txn
  <2>2. Few(d)' <=> Few(d)
        BY <1>1, <1>2, <2>1 DEF Few
  <2>3. QED  BY <1>1, <1>3, <2>2 DEF Settled
<1>4. CASE dev[d].pc = "idle" /\ Awaits(d)
  <2>1. Expected(d)' = Expected(d) /\ Awaits(d)'
        BY <1>4 DEF Expected, Txn, Awaits
  <2>2. Few(d)' <=> Few(d)
        BY <1>1, <1>2, <2>1 DEF Few
  <2>3. QED  BY <1>1, <1>4, <2>1, <2>2 DEF Settled
<1>5. CASE dev[d].pc = "idle" /\ ~Awaits(d)
      BY <1>1, <1>5, IdleSettled
<1>6. QED  BY <1>3, <1>4, <1>5

\* The devices that do not work wait for their turn or are parallel.
LEMMA OthersSettled ==
    ASSUME TypesInv, ControlInv, NEW d \in Devices, Works(d), MyTurn(d), NEW e \in Devices \ {d}, Settled(e)
    PROVE  Settled(e)'
<1>1. /\ cfg' = cfg /\ router'.pc = router.pc /\ router'.n = router.n /\ router'.op = router.op
      /\ router'.requests = router.requests /\ dev'[e] = dev[e] /\ bus'[e] = bus[e]
      BY DEF Works, SamePlan, SameCall
<1>2. ASSUME dev[e].pc # "idle" \/ Awaits(e)
      PROVE  ~InTurn
  <2>1. CASE dev[e].pc # "idle"
    <3>1. router.work[e] # <<>> /\ MyTurn(e)
          BY <2>1 DEF ControlInv
    <3>2. router.work[d] # <<>>
          BY DEF Works
    <3>3. QED  BY <3>1, <3>2, OneTurn
  <2>2. CASE Awaits(e)
        BY <2>2 DEF Awaits, InTurn, Writing
  <2>3. QED  BY <1>2, <2>1, <2>2
<1>3. ASSUME dev[e].pc # "idle" \/ Awaits(e)
      PROVE  router'.work[e] = router.work[e]
  <2>1. router' = router \/ GivesUp(d) \/ router'.work = WorkLeft(d)
        BY DEF Works, Finishes
  <2>2. WorkLeft(d)[e] = router.work[e]
    <3>1. router.work[d] # <<>>
          BY DEF Works
    <3>2. QED  BY <3>1, WorkLeftParts
  <2>3. ASSUME GivesUp(d)
        PROVE  router'.work = WorkLeft(d)
        BY <1>2, <1>3, <2>3 DEF GivesUp
  <2>4. QED  BY <2>1, <2>2, <2>3
<1>4. QED  BY <1>1, <1>3, StillSettled

\* What a transaction is answered is its own.
LEMMA FramesOwn ==
    ASSUME TypesInv, WorkInv, Running, NEW d \in Devices, router.work[d] # <<>>,
           NEW k \in 0..Len(Txn(d).entries), NEW r \in AnswersTo(d, Frames(d, k))
    PROVE  Own(r)
<1>1. PICK e \in Frames(d, k) : r \in Answers(d, e)
      BY DEF AnswersTo
<1>2. r.cause = <<router.n, e.req>>
      BY <1>1, AnswersCause
<1>3. Txn(d).entries \in Seq(Entries) /\ Len(Txn(d).entries) \in Nat
      BY TxnType DEF Txns
<1>4. e \in Range(Txn(d).entries)
  <2>1. 1..k \subseteq 1..Len(Txn(d).entries)
        BY <1>3
  <2>2. QED  BY <1>1, <1>3, <2>1 DEF Frames, Range
<1>5. e.req \in Nat
  <2>1. e \in Entries
        BY <1>3, <1>4, RangeParts
  <2>2. QED  BY <2>1 DEF Entries
<1>6. router.pc = "run" => e.req \in 1..Len(router.requests)
  <2>1. Txn(d) \in Range(router.work[d])
        BY WorkLeftParts
  <2>2. e \in InTxns(router.work[d])
        BY <1>4, <2>1 DEF InTxns
  <2>3. QED  BY <2>2 DEF WorkInv, Asked
<1>7. QED  BY <1>2, <1>5, <1>6 DEF Own

\* Tasks that await the answers to a probe have no frame to send.
LEMMA AwaitsSilent ==
    ASSUME TypesInv, WorkInv, NEW d \in Devices, Awaits(d), NEW k \in 0..Len(Txn(d).entries)
    PROVE  AnswersTo(d, Frames(d, k)) = {}
<1>1. cfg.async /\ router.pc = "probe" /\ router.work[d] # <<>>
      BY DEF Awaits
<1>2. ASSUME NEW e \in Frames(d, k)
      PROVE  FALSE
  <2>1. e \in Range(Txn(d).entries) /\ e.request.frame # NoFrame
    <3>1. Txn(d).entries \in Seq(Entries) /\ Len(Txn(d).entries) \in Nat
          BY <1>1, TxnType DEF Txns
    <3>2. 1..k \subseteq 1..Len(Txn(d).entries)
          BY <3>1
    <3>3. QED  BY <1>2, <3>1, <3>2 DEF Frames, Range
  <2>2. Txn(d) \in Range(router.work[d])
        BY <1>1, WorkLeftParts
  <2>3. e \in InTxns(router.work[d])
        BY <2>1, <2>2 DEF InTxns
  <2>4. e.request = receive_only(Probe.expected)
        BY <1>1, <2>3 DEF WorkInv, ProbeEntry
  <2>5. receive_only(Probe.expected).frame = NoFrame
        BY DEF receive_only, Request
  <2>6. QED  BY <2>1, <2>4, <2>5
<1>3. QED  BY <1>2 DEF AnswersTo

\* A device that has nothing has no bytes on its way.
LEMMA NothingArrived ==
    ASSUME TypesInv, NEW d \in Devices, Arrived(d) = {}
    PROVE  bus[d] = {} /\ dev[d].rx = <<>>
<1>1. dev[d].rx \in Seq(Reply)
      BY DevicesKept DEF DevicesOK, DeviceStates
<1>2. bus[d] = {} /\ Range(dev[d].rx) = {}
      BY DEF Arrived
<1>3. dev[d].rx = <<>>
  <2>1. dev[d].rx # <<>> => 1 \in DOMAIN dev[d].rx
        BY <1>1
  <2>2. QED  BY <1>2, <2>1 DEF Range
<1>4. QED  BY <1>2, <1>3

\* Sending drains an adapter that is marked.
LEMMA SendSettles ==
    ASSUME TypesInv, ControlInv, CallInv, SoughtInv, WhoInv, WorkInv, ~Surplus,
           NEW d \in Devices, Fd(d) \/ (~Marked(d) /\ router'.spent = router.spent),
           Settled(d), Send(d)
    PROVE  Settled(d)'
<1>1. PICK s : s = IF Drains(d) \/ Clears(d)
                   THEN [dev[d] EXCEPT !.rx = <<>>, !.pending = 0, !.flush = FALSE] ELSE dev[d]
      OBVIOUS
<1>2. PICK sent \in 0..Len(Txn(d).entries) :
          /\ bus' = [bus EXCEPT ![d] = (IF Drains(d) THEN {} ELSE bus[d]) \cup AnswersTo(d, Frames(d, sent))]
          /\ \/ /\ sent = Len(Txn(d).entries)
                /\ dev' = [dev EXCEPT ![d] =
                     [s EXCEPT !.pc = IF Fd(d) /\ Frames(d, Len(Txn(d).entries)) # {} THEN "ok" ELSE "receive",
                               !.recover = Recovering(d)]]
                /\ router' = router
             \/ /\ dev' = [dev EXCEPT ![d] = Broken(d, s)]
                /\ router' = [Failed(router, d) EXCEPT !.spent = @ + 1]
      BY <1>1, ZenonT(60) DEF Send
<1>3. /\ Running /\ router.work[d] # <<>> /\ dev[d].pc = "idle" /\ cfg' = cfg
      BY ZenonT(40) DEF Send
<1>4. dev[d] \in DeviceStates /\ dev \in [Devices -> DeviceStates] /\ bus \in [Devices -> SUBSET Reply]
      BY DevicesKept DEF DevicesOK
<1>5. s \in DeviceStates /\ s.pc = "idle"
  <2>1. CASE s = dev[d]
        BY <1>3, <1>4, <2>1
  <2>2. CASE s = [dev[d] EXCEPT !.rx = <<>>, !.pending = 0, !.flush = FALSE]
    <3>1. s \in DeviceStates
          BY ONLY <1>4, <2>2, DeviceEmptied, Zenon
    <3>2. s.pc = dev[d].pc
          BY ONLY <1>4, <2>2 DEF DeviceStates
    <3>3. QED  BY <1>3, <3>1, <3>2
  <2>3. QED  BY <1>1, <2>1, <2>2
<1>6. PICK K : K = AnswersTo(d, Frames(d, sent))
      OBVIOUS
<1>7. /\ IsFiniteSet(K) /\ Cardinality(K) \in Nat /\ Cardinality(K) <= Expected(d)
      /\ \A r \in K : Own(r)
      BY <1>2, <1>3, <1>6, FramesAnswered, FramesOwn
<1>8. Writing => K = {}
      BY <1>2, <1>3, <1>6, WritesUnanswered
<1>9. \/ bus'[d] = K /\ s.rx = <<>>
      \/ Awaits(d) /\ Few(d) /\ K = {} /\ bus'[d] = bus[d] /\ s.rx = dev[d].rx
  <2>1. CASE Drains(d)
    <3>1. bus'[d] = K
          BY <1>2, <1>4, <1>6, <2>1
    <3>2. s = [dev[d] EXCEPT !.rx = <<>>, !.pending = 0, !.flush = FALSE]
          BY <1>1, <2>1
    <3>3. s.rx = <<>>
          BY ONLY <1>4, <3>2 DEF DeviceStates
    <3>4. QED  BY <3>1, <3>3
  <2>2. CASE ~Drains(d)
    <3>1. ~Marked(d) /\ ~Clears(d)
          BY <2>2 DEF Drains, Marked, Clears
    <3>2. s = dev[d] /\ bus'[d] = bus[d] \cup K
          BY <1>1, <1>2, <1>4, <1>6, <2>2, <3>1
    <3>3. CASE Arrived(d) = {}
          BY <3>2, <3>3, NothingArrived
    <3>4. CASE Awaits(d) /\ Few(d)
      <4>1. K = {}
            BY <1>2, <1>6, <3>4, AwaitsSilent
      <4>2. QED  BY <3>2, <3>4, <4>1
    <3>5. QED  BY <1>3, <3>1, <3>3, <3>4 DEF Settled
  <2>3. QED  BY <2>1, <2>2
<1>10. CASE /\ sent = Len(Txn(d).entries)
            /\ dev' = [dev EXCEPT ![d] =
                     [s EXCEPT !.pc = IF Fd(d) /\ Frames(d, Len(Txn(d).entries)) # {} THEN "ok" ELSE "receive",
                               !.recover = Recovering(d)]]
            /\ router' = router
  <2>1. PICK p \in {"ok", "receive"} : p = IF Fd(d) /\ Frames(d, Len(Txn(d).entries)) # {} THEN "ok" ELSE "receive"
        OBVIOUS
  <2>2. PICK b : b = Recovering(d)
        OBVIOUS
  <2>3. PICK t : t = [s EXCEPT !.pc = p, !.recover = b]
        OBVIOUS
  <2>4. t.pc = p /\ t.rx = s.rx /\ t.recover = b
        BY ONLY <1>5, <2>3 DEF DeviceStates
  <2>5. dev' = [dev EXCEPT ![d] = t]
        BY <1>10, <2>1, <2>2, <2>3
  <2>6. dev'[d] = t
        BY <1>4, <2>5
  <2>7. dev'[d].pc # "idle" /\ dev'[d].rx = s.rx /\ dev'[d].recover = b
        BY <2>4, <2>6
  <2>8. Expected(d)' = Expected(d) /\ (Writing' <=> Writing) /\ cfg'.async = cfg.async
        BY <1>3, <1>10 DEF Expected, Txn, Writing
  <2>9. \A r : Own(r)' <=> Own(r)
        BY <1>10 DEF Own
  <2>10. Few(d)' /\ (Writing => Arrived(d)' = {})
    <3>1. CASE bus'[d] = K /\ s.rx = <<>>
      <4>1. dev'[d].rx = <<>> /\ Len(<<>>) = 0 /\ Arrived(d)' = K
            BY <2>7, <3>1 DEF Arrived, Range
      <4>2. Cardinality(bus'[d]) + Len(dev'[d].rx) <= Expected(d)'
        <5>1. Expected(d) \in Nat
              BY <1>3, TxnType
        <5>2. Cardinality(bus'[d]) = Cardinality(K) /\ Len(dev'[d].rx) = 0
              BY <3>1, <4>1
        <5>3. QED  BY <1>7, <2>8, <5>1, <5>2
      <4>3. QED  BY <1>7, <1>8, <2>9, <3>1, <4>1, <4>2 DEF Few
    <3>2. CASE Awaits(d) /\ Few(d) /\ K = {} /\ bus'[d] = bus[d] /\ s.rx = dev[d].rx
      <4>1. dev'[d].rx = dev[d].rx /\ Arrived(d)' = Arrived(d)
            BY <2>7, <3>2 DEF Arrived
      <4>2. Few(d)'
            BY <2>8, <2>9, <3>2, <4>1 DEF Few
      <4>3. ~Writing
            BY <3>2 DEF Awaits, Writing
      <4>4. QED  BY <4>2, <4>3
    <3>3. QED  BY <1>9, <3>1, <3>2
  <2>11. cfg.async /\ ~Writing => dev'[d].recover
        BY <2>2, <2>7 DEF Recovering
  <2>12. QED  BY <2>7, <2>8, <2>10, <2>11 DEF Settled
<1>11. CASE dev' = [dev EXCEPT ![d] = Broken(d, s)]
  <2>1. PICK t : t = Broken(d, s)
        OBVIOUS
  <2>2. dev'[d] = t
        BY <1>4, <1>11, <2>1
  <2>3. t.pc = "idle" /\ t.rx = s.rx
        BY <1>5, <2>1, BrokenOK
  <2>0. Fd(d)
    <3>1. GivesUp(d)
          BY <1>3, <2>2, <2>3, SendParts DEF Works, Finishes
    <3>2. router'.spent = router.spent + 1 /\ router.spent \in Nat
      <4>1. router.spent \in 0..cfg.maxFaults
            BY DevicesKept DEF RouterOK
      <4>2. QED  BY <3>1, <4>1 DEF GivesUp
    <3>3. QED  BY <3>2
  <2>4. CASE ~Writing
    <3>1. PICK f, b : f = (s.flush \/ (Fd(d) /\ (~Writing \/ s.pc = "ok"))) /\ b = Recovering(d)
          OBVIOUS
    <3>2. t = [s EXCEPT !.pc = "idle", !.flush = f, !.recover = b]
          BY <2>1, <3>1 DEF Broken
    <3>3. t.flush = f
          BY ONLY <1>5, <3>2 DEF DeviceStates
    <3>4. Marked(d)'
          BY <2>0, <2>2, <2>4, <3>1, <3>3 DEF Marked
    <3>5. QED  BY <2>2, <2>3, <3>4 DEF Settled
  <2>5. CASE Writing
    <3>1. bus'[d] = {} /\ s.rx = <<>>
          BY <1>8, <1>9, <2>5 DEF Awaits, Writing
    <3>2. Arrived(d)' = {}
          BY <2>2, <2>3, <3>1 DEF Arrived, Range
    <3>3. QED  BY <2>2, <2>3, <3>2 DEF Settled
  <2>6. QED  BY <2>4, <2>5
<1>12. QED
  <2> HIDE DEF Failed, Broken
  <2> QED  BY ONLY <1>2, <1>10, <1>11

LEMMA WaitOkSettles ==
    ASSUME TypesInv, ControlInv, NEW d \in Devices, Settled(d), WaitOk(d)
    PROVE  Settled(d)'
<1>1. PICK k : dev' = [dev EXCEPT ![d].pc = "receive", ![d].pending = k]
      BY ZenonT(40) DEF WaitOk
<1>2. cfg' = cfg /\ router' = router /\ bus' = bus /\ dev[d].pc # "idle"
      BY ZenonT(40) DEF WaitOk
<1>3. dev[d] \in DeviceStates /\ dev \in [Devices -> DeviceStates]
      BY DevicesKept DEF DevicesOK
<1>4. dev'[d] = [dev[d] EXCEPT !.pc = "receive", !.pending = k]
      BY <1>1, <1>3
<1>5. dev'[d].pc = "receive" /\ dev'[d].rx = dev[d].rx /\ dev'[d].recover = dev[d].recover
      BY ONLY <1>3, <1>4 DEF DeviceStates
<1>6. Arrived(d)' = Arrived(d) /\ Expected(d)' = Expected(d) /\ (Writing' <=> Writing)
      BY <1>2, <1>5 DEF Arrived, Expected, Txn, Writing
<1>7. \A r : Own(r)' <=> Own(r)
      BY <1>2 DEF Own
<1>8. Few(d) <=> Few(d)'
      BY <1>2, <1>5, <1>6, <1>7 DEF Few
<1>9. QED  BY <1>2, <1>5, <1>6, <1>8 DEF Settled

\* An adapter that fails is marked.
LEMMA OkFailsSettles ==
    ASSUME TypesInv, ControlInv, NEW d \in Devices, Fd(d), OkFails(d)
    PROVE  Settled(d)'
<1>1. PICK t : t = Broken(d, dev[d])
      OBVIOUS
<1>2. dev' = [dev EXCEPT ![d] = t] /\ dev[d].pc = "ok"
      BY <1>1, ZenonT(40) DEF OkFails
<1>3. dev[d] \in DeviceStates /\ dev \in [Devices -> DeviceStates]
      BY DevicesKept DEF DevicesOK
<1>4. dev'[d] = t
      BY <1>2, <1>3
<1>5. PICK f, b : f = (dev[d].flush \/ (Fd(d) /\ (~Writing \/ dev[d].pc = "ok"))) /\ b = Recovering(d)
      OBVIOUS
<1>6. t = [dev[d] EXCEPT !.pc = "idle", !.flush = f, !.recover = b]
      BY <1>1, <1>5 DEF Broken
<1>7. t.flush = f /\ t.pc = "idle"
      BY ONLY <1>3, <1>6 DEF DeviceStates
<1>8. QED  BY <1>2, <1>4, <1>5, <1>7 DEF Settled, Marked

\* A transaction that has all it expects leaves nothing.
LEMMA CompleteSettles ==
    ASSUME TypesInv, ControlInv, NEW d \in Devices, Settled(d), Complete(d)
    PROVE  Settled(d)'
<1> DEFINE taken == IF dev[d].pending >= Expected(d) THEN dev[d].pending ELSE Expected(d)
           n == IF Expected(d) = 0 THEN 0 ELSE taken
<1>1. /\ dev[d].pc = "receive" /\ Len(dev[d].rx) >= n /\ bus' = bus
      /\ dev' = [dev EXCEPT ![d].pc = "idle", ![d].recover = @ /\ Writing,
                     ![d].rx = SubSeq(@, n + 1, Len(@)), ![d].pending = IF n = 0 THEN @ ELSE 0]
      BY ZenonT(60) DEF Complete
<1>2. dev[d] \in DeviceStates /\ dev \in [Devices -> DeviceStates] /\ bus[d] \subseteq Reply
      BY DevicesKept DEF DevicesOK
<1>3. dev[d].rx \in Seq(Reply) /\ dev[d].pending \in Nat /\ Len(dev[d].rx) \in Nat
      /\ dev[d].pending <= Len(dev[d].rx)
      BY <1>2, DevicesKept DEF DeviceStates, DevicesOK
<1>4. Expected(d) \in Nat
      BY <1>1, TxnType DEF ControlInv
<1>5. Few(d)
      BY <1>1 DEF Settled
<1>6. PICK c : c = Cardinality(bus[d])
      OBVIOUS
<1>7. c \in Nat /\ c + Len(dev[d].rx) <= Expected(d)
      BY <1>5, <1>6, FS_CardinalityType DEF Few
<1>8. n = Len(dev[d].rx) /\ c = 0
  <2>1. PICK m, k, l : m = Expected(d) /\ k = dev[d].pending /\ l = Len(dev[d].rx)
        OBVIOUS
  <2>2. m \in Nat /\ k \in Nat /\ l \in Nat /\ k <= l /\ c + l <= m
        BY <1>3, <1>4, <1>7, <2>1
  <2>3. n = IF m = 0 THEN 0 ELSE IF k >= m THEN k ELSE m
        BY <2>1
  <2> HIDE DEF n
  <2>4. l >= n
        BY <1>1, <2>1
  <2>5. n = l /\ c = 0
        BY ONLY <1>7, <2>2, <2>3, <2>4
  <2>6. QED  BY <2>1, <2>5
<1>9. bus[d] = {}
      BY <1>5, <1>6, <1>8, FS_EmptySet DEF Few
<1>10. PICK x, p, b : /\ x = SubSeq(dev[d].rx, n + 1, Len(dev[d].rx))
                      /\ p = (IF n = 0 THEN dev[d].pending ELSE 0) /\ b = (dev[d].recover /\ Writing)
      OBVIOUS
<1> HIDE DEF n
<1>11. x = <<>> /\ Range(x) = {}
  <2>1. n \in 0..Len(dev[d].rx)
        BY <1>3, <1>8
  <2>2. x \in Seq(Reply) /\ Len(x) = Len(dev[d].rx) - n
        BY <1>3, <1>10, <2>1, SequencesOfReplies
  <2>3. Len(x) = 0
        BY <1>3, <1>8, <2>2
  <2>4. x = <<>>
        BY ONLY <2>2, <2>3, EmptySeq
  <2>5. QED  BY <2>4 DEF Range
<1>12. PICK s : s = [dev[d] EXCEPT !.pc = "idle", !.recover = b, !.rx = x, !.pending = p]
      OBVIOUS
<1>13. s.pc = "idle" /\ s.rx = x
      BY ONLY <1>2, <1>12 DEF DeviceStates
<1>14. dev'[d] = s
  <2>1. dev' = [dev EXCEPT ![d].pc = "idle", ![d].recover = b, ![d].rx = x, ![d].pending = p]
        BY <1>1, <1>2, <1>10
  <2>2. QED  BY ONLY <1>2, <1>12, <2>1
<1>15. Arrived(d)' = {}
  <2>1. bus'[d] = {} /\ Range(dev'[d].rx) = {}
        BY <1>1, <1>9, <1>11, <1>13, <1>14
  <2>2. QED  BY <2>1 DEF Arrived
<1>16. QED  BY <1>13, <1>14, <1>15 DEF Settled

\* An adapter whose replies are late is marked; where none is, none comes.
LEMMA TimeoutSettles ==
    ASSUME TypesInv, ControlInv, NEW d \in Devices, Fd(d) \/ ~cfg.late, ReceiveTimeout(d)
    PROVE  Settled(d)'
<1>1. PICK s : s = [IdleDevice EXCEPT !.flush = dev[d].flush \/ Fd(d)]
      OBVIOUS
<1>2. dev' = [dev EXCEPT ![d] = s] /\ bus' = bus /\ (cfg.late \/ bus[d] = {})
      BY <1>1, ZenonT(40) DEF ReceiveTimeout
<1>3. dev \in [Devices -> DeviceStates]
      BY DevicesKept DEF DevicesOK
<1>4. s.pc = "idle" /\ (Fd(d) => s.flush) /\ s.rx = <<>>
      BY <1>1 DEF IdleDevice
<1>5. dev'[d] = s
      BY <1>2, <1>3
<1>6. CASE Fd(d)
      BY <1>4, <1>5, <1>6 DEF Settled, Marked
<1>7. CASE ~cfg.late
  <2>1. Arrived(d)' = {}
        BY <1>2, <1>4, <1>5, <1>7 DEF Arrived, Range
  <2>2. QED  BY <1>4, <1>5, <2>1 DEF Settled
<1>8. QED  BY <1>6, <1>7

\* What is on its way is the device's or gets lost.
LEMMA BusSettles ==
    ASSUME TypesInv, ControlInv, NEW d \in Devices, Settled(d), cfg' = cfg,
           router'.pc = router.pc, router'.n = router.n, router'.op = router.op,
           router'.requests = router.requests, router'.work = router.work,
           dev'[d].pc = dev[d].pc, Marked(d) => Marked(d)', dev'[d].recover = dev[d].recover,
           Arrived(d)' \subseteq Arrived(d),
           IsFiniteSet(bus[d]) =>
               /\ IsFiniteSet(bus'[d])
               /\ Cardinality(bus'[d]) + Len(dev'[d].rx) <= Cardinality(bus[d]) + Len(dev[d].rx)
               /\ Cardinality(bus'[d]) + Len(dev'[d].rx) \in Nat
               /\ Cardinality(bus[d]) + Len(dev[d].rx) \in Nat
    PROVE  Settled(d)'
<1>1. Expected(d)' = Expected(d) /\ (Writing' <=> Writing) /\ (Awaits(d)' <=> Awaits(d))
      BY DEF Expected, Txn, Writing, Awaits
<1>2. \A r : Own(r)' <=> Own(r)
      BY DEF Own
<1>3. ASSUME Few(d), router.work[d] # <<>>
      PROVE  Few(d)'
  <2>1. Expected(d) \in Nat
        BY <1>3, TxnType
  <2>2. Cardinality(bus'[d]) + Len(dev'[d].rx) <= Expected(d)'
        BY <1>1, <1>3, <2>1 DEF Few
  <2>3. QED  BY <1>2, <1>3, <2>2 DEF Few
<1>4. CASE dev[d].pc # "idle" /\ router.work[d] # <<>>
      BY <1>1, <1>3, <1>4 DEF Settled
<1>5. CASE dev[d].pc = "idle"
      BY <1>1, <1>3, <1>5 DEF Settled, Awaits
<1>6. QED  BY <1>4, <1>5 DEF ControlInv

LEMMA DeliverSettles ==
    ASSUME TypesInv, ControlInv, NEW d \in Devices, Deliver(d), NEW e \in Devices, Settled(e)
    PROVE  Settled(e)'
<1>1. PICK reply \in bus[d] :
          /\ bus' = [bus EXCEPT ![d] = @ \ {reply}]
          /\ dev' = [dev EXCEPT ![d].rx = Append(@, reply)]
      BY DEF Deliver
<1>2. cfg' = cfg /\ servers' = servers /\ router' = router /\ hist' = hist
      BY DEF Deliver
<1>3. /\ dev \in [Devices -> DeviceStates] /\ bus \in [Devices -> SUBSET Reply]
      BY DevicesKept DEF DevicesOK
<1>4. CASE e # d
  <2>1. dev'[e] = dev[e] /\ bus'[e] = bus[e]
        BY <1>1, <1>3, <1>4
  <2>2. QED  BY <1>2, <2>1, StillSettled
<1>5. CASE e = d
  <2>1. dev[d] \in DeviceStates /\ dev[d].rx \in Seq(Reply) /\ reply \in Reply
        BY <1>1, <1>3 DEF DeviceStates
  <2>2. PICK x : x = Append(dev[d].rx, reply)
        OBVIOUS
  <2>3. dev'[d] = [dev[d] EXCEPT !.rx = x]
        BY <1>1, <1>3, <2>2
  <2>4. /\ dev'[d].pc = dev[d].pc /\ dev'[d].rx = x
        /\ dev'[d].flush = dev[d].flush /\ dev'[d].recover = dev[d].recover
        BY ONLY <2>1, <2>3 DEF DeviceStates
  <2>5. Range(x) = Range(dev[d].rx) \cup {reply}
        BY <2>1, <2>2, RangeParts
  <2>6. PICK B, C : B = bus[d] /\ C = bus'[d]
        OBVIOUS
  <2>7. C = B \ {reply} /\ reply \in B
        BY <1>1, <1>3, <2>6
  <2>8. Arrived(d)' \subseteq Arrived(d)
        BY <2>4, <2>5, <2>6, <2>7 DEF Arrived
  <2>9. Len(dev'[d].rx) = Len(dev[d].rx) + 1 /\ Len(dev[d].rx) \in Nat
        BY <2>1, <2>2, <2>4, SequencesOfReplies
  <2>10. ASSUME IsFiniteSet(B)
         PROVE  IsFiniteSet(C) /\ Cardinality(C) = Cardinality(B) - 1
                /\ Cardinality(B) \in Nat /\ Cardinality(C) \in Nat
    <3>1. IsFiniteSet(C) /\ Cardinality(C) = Cardinality(B) - 1
          BY ONLY <2>7, <2>10, FS_RemoveElement
    <3>2. QED  BY ONLY <2>10, <3>1, FS_CardinalityType
  <2>11. IsFiniteSet(bus[d]) =>
               /\ IsFiniteSet(bus'[d])
               /\ Cardinality(bus'[d]) + Len(dev'[d].rx) <= Cardinality(bus[d]) + Len(dev[d].rx)
               /\ Cardinality(bus'[d]) + Len(dev'[d].rx) \in Nat
               /\ Cardinality(bus[d]) + Len(dev[d].rx) \in Nat
        BY <2>6, <2>9, <2>10, SMTT(60)
  <2>12. Settled(d) /\ (Marked(d) => Marked(d)')
        BY <1>5, <2>4 DEF Marked
  <2>13. QED  BY <1>2, <1>5, <2>4, <2>8, <2>11, <2>12, BusSettles
<1>6. QED  BY <1>4, <1>5

LEMMA LoseSettles ==
    ASSUME TypesInv, ControlInv, Lose, NEW e \in Devices, Settled(e)
    PROVE  Settled(e)'
<1>1. PICK d \in Devices : \E reply \in bus[d] : bus' = [bus EXCEPT ![d] = @ \ {reply}]
      BY DEF Lose
<1>2. PICK reply \in bus[d] : bus' = [bus EXCEPT ![d] = @ \ {reply}]
      BY <1>1
<1>3. cfg' = cfg /\ servers' = servers /\ dev' = dev /\ hist' = hist /\ Spend
      BY DEF Lose
<1>4. /\ dev \in [Devices -> DeviceStates] /\ bus \in [Devices -> SUBSET Reply]
      BY DevicesKept DEF DevicesOK
<1>5. /\ router'.pc = router.pc /\ router'.work = router.work
      /\ router'.n = router.n /\ router'.op = router.op /\ router'.requests = router.requests
      BY <1>3, SpendParts DEF SamePlan, SameCall
<1>6. PICK B, C : B = bus[e] /\ C = bus'[e]
      OBVIOUS
<1>7. C \subseteq B
      BY <1>2, <1>4, <1>6
<1>8. Arrived(e)' \subseteq Arrived(e) /\ (Marked(e) => Marked(e)')
      BY <1>3, <1>6, <1>7 DEF Arrived, Marked
<1>9. Len(dev[e].rx) \in Nat
  <2>1. dev[e].rx \in Seq(Reply)
        BY <1>4 DEF DeviceStates
  <2>2. QED  BY <2>1
<1>10. ASSUME IsFiniteSet(B)
       PROVE  IsFiniteSet(C) /\ Cardinality(C) <= Cardinality(B)
              /\ Cardinality(B) \in Nat /\ Cardinality(C) \in Nat
  <2>1. IsFiniteSet(C) /\ Cardinality(C) <= Cardinality(B)
        BY ONLY <1>7, <1>10, FS_Subset
  <2>2. QED  BY ONLY <1>10, <2>1, FS_CardinalityType
<1>11. IsFiniteSet(bus[e]) =>
               /\ IsFiniteSet(bus'[e])
               /\ Cardinality(bus'[e]) + Len(dev'[e].rx) <= Cardinality(bus[e]) + Len(dev[e].rx)
               /\ Cardinality(bus'[e]) + Len(dev'[e].rx) \in Nat
               /\ Cardinality(bus[e]) + Len(dev[e].rx) \in Nat
      BY <1>3, <1>6, <1>9, <1>10, SMTT(60)
<1>12. dev'[e].pc = dev[e].pc /\ dev'[e].recover = dev[e].recover
      BY <1>3
<1>13. QED  BY <1>3, <1>5, <1>8, <1>11, <1>12, BusSettles

\* What is dropped half way is no probe.
LEMMA NoProbeDropped ==
    ASSUME TypesInv, CallInv, SoughtInv, ProbesEnd, "cancel" \in cfg.faults
    PROVE  router.pc \notin {"flush", "ask", "probe"}
<1>1. SUFFICES ASSUME router.pc \in {"flush", "ask", "probe"}
               PROVE  FALSE
      OBVIOUS
<1>2. CASE router.op = "discover"
      BY <1>2 DEF CallInv, ProbesEnd
<1>3. CASE router.op # "discover"
  <2>1. Seeking
        BY <1>1, <1>3 DEF Seeking
  <2>2. QED  BY <2>1, SeeksMayProbe DEF ProbesEnd
<1>4. QED  BY <1>2, <1>3

\* A dropped operation leaves its mark on every adapter that was at work.
LEMMA CancelSettles ==
    ASSUME TypesInv, ControlInv, CallInv, SoughtInv, ProbesEnd, Cancel, NEW d \in Devices, Settled(d)
    PROVE  Settled(d)'
<1>1. PICK lost :
         dev' = [e \in Devices |->
                 [dev[e] EXCEPT !.pc = "idle", !.rx = SubSeq(@, lost[e] + 1, Len(@)),
                                !.pending = IF dev[e].pc = "receive" THEN 0 ELSE @]]
      BY ZenonT(40) DEF Cancel
<1>2. cfg.async /\ "cancel" \in cfg.faults
      BY ZenonT(40) DEF Cancel
<1>3. Arrived(d)' \subseteq Arrived(d)
      BY CancelParts
<1>4. dev[d] \in DeviceStates
      BY DevicesKept DEF DevicesOK
<1>5. PICK x, p : dev'[d] = [dev[d] EXCEPT !.pc = "idle", !.rx = x, !.pending = p]
      BY <1>1
<1>6. dev'[d].pc = "idle" /\ dev'[d].flush = dev[d].flush /\ dev'[d].recover = dev[d].recover
      BY ONLY <1>4, <1>5 DEF DeviceStates
<1>7. ~Awaits(d)
      BY <1>2, NoProbeDropped DEF Awaits
<1>8. Marked(d) \/ Arrived(d) = {}
  <2>1. CASE dev[d].pc = "idle"
        BY <1>7, <2>1 DEF Settled
  <2>2. CASE dev[d].pc # "idle"
        BY <1>2, <2>2 DEF Settled, Marked
  <2>3. QED  BY <2>1, <2>2
<1>9. Marked(d)' \/ Arrived(d)' = {}
      BY <1>3, <1>6, <1>8 DEF Marked
<1>10. QED  BY <1>6, <1>9 DEF Settled

\* Flushing leaves nothing.
LEMMA FlushAllSettles ==
    ASSUME TypesInv, ControlInv, \A e \in Devices : Drainable(e), FlushAll, NEW d \in Devices
    PROVE  Settled(d)' /\ Arrived(d)' = {}
<1>1. PICK ds : ds = (IF router.op = "discover" THEN ParentIndices ELSE Devices)
      OBVIOUS
<1>2. Flushed(ds) /\ router.pc = "flush"
      BY <1>1 DEF FlushAll
<1>3. ds \subseteq Devices /\ (Fd(d) => d \in ds)
      BY <1>1, ParentsDevices
<1>4. Arrived(d)' = {}
  <2>1. \A e \in ds : Fd(e) \/ bus[e] = {}
        BY <1>3 DEF Drainable, Arrived
  <2>2. CASE d \in ds
        BY <1>2, <2>1, <2>2, FlushedArrived
  <2>3. CASE d \notin ds
    <3>1. Arrived(d) = {}
          BY <1>3, <2>3 DEF Drainable
    <3>2. QED  BY <1>2, <3>1, FlushedArrived
  <2>4. QED  BY <2>2, <2>3
<1>5. dev[d].pc = "idle"
      BY <1>2, Idle DEF Running
<1>6. dev'[d].pc = "idle"
      BY <1>2, <1>5, FlushedMarks
<1>7. QED  BY <1>4, <1>6 DEF Settled

\* One entry expects what its request does.
LEMMA TotalSole ==
    ASSUME NEW e \in Entries
    PROVE  Total(<<e>>) = e.request.expected
<1>1. PICK es : es = <<e>>
      OBVIOUS
<1>2. es \in Seq(Entries) /\ Len(es) = 1 /\ es[1] = e
      BY <1>1
<1>3. PICK t \in [0..Len(es) -> Nat] :
               /\ t[0] = 0 /\ \A k \in 1..Len(es) : t[k] = t[k - 1] + es[k].request.expected
               /\ Total(es) = t[Len(es)]
      BY <1>2, TotalSteps
<1>4. t[1] = t[0] + e.request.expected
  <2>1. 1 \in 1..Len(es) /\ 1 - 1 = 0
        BY <1>2
  <2>2. t[1] = t[1 - 1] + es[1].request.expected
        BY <1>3, <2>1
  <2>3. QED  BY <1>2, <2>1, <2>2
<1>5. e.request.expected \in Nat
      BY DEF Entries, Requests
<1>6. QED  BY <1>1, <1>2, <1>3, <1>4, <1>5

\* A probe is answered by as many as are expected, on buses that were quiet.
LEMMA AskSettles ==
    ASSUME TypesInv, TypesInv', ControlInv, CallInv, SoughtInv, WhoInv, ~Surplus,
           AskInTurn \/ AskInParallel, NEW d \in Devices, Arrived(d) = {}
    PROVE  Settled(d)'
<1>1. /\ cfg' = cfg /\ router.pc = "ask" /\ router'.pc = "probe" /\ router'.n = router.n
      /\ Arrived(d)' \subseteq AskAnswers(d)
      BY AskParts DEF SamePlan, SameCall
<1>2. dev'[d].pc = "idle"
  <2>1. dev[d].pc = "idle"
        BY <1>1, Idle DEF Running
  <2>2. CASE AskInTurn
        BY <2>1, <2>2 DEF AskInTurn
  <2>3. CASE AskInParallel
    <3>1. PICK drained : dev' = [e \in Devices |-> IF e \in drained
                        THEN [dev[e] EXCEPT !.rx = <<>>, !.pending = 0, !.recover = FALSE]
                        ELSE dev[e]]
          BY <2>3, ZenonT(60) DEF AskInParallel
    <3>2. dev[d] \in DeviceStates
          BY DevicesKept DEF DevicesOK
    <3>3. CASE d \in drained
      <4>1. dev'[d] = [dev[d] EXCEPT !.rx = <<>>, !.pending = 0, !.recover = FALSE]
            BY <3>1, <3>3
      <4>2. dev'[d].pc = dev[d].pc
            BY ONLY <3>2, <4>1 DEF DeviceStates
      <4>3. QED  BY <2>1, <4>2
    <3>4. CASE d \notin drained
          BY <2>1, <3>1, <3>4
    <3>5. QED  BY <3>3, <3>4
  <2>4. QED  BY <2>2, <2>3
<1>3. CASE ~(cfg.async /\ d \in BroadcastTargets)
  <2>1. Arrived(d)' = {}
        BY <1>1, <1>3 DEF AskAnswers
  <2>2. QED  BY <1>2, <2>1 DEF Settled
<1>4. CASE cfg.async /\ d \in BroadcastTargets
  <2>1. Arrived(d)' \subseteq Answers(d, AskEntry)
        BY <1>1, <1>4 DEF AskAnswers
  <2>2. dev'[d].rx = <<>> /\ Arrived(d)' = bus'[d]
    <3>1. PICK drained :
            /\ dev' = [e \in Devices |-> IF e \in drained
                        THEN [dev[e] EXCEPT !.rx = <<>>, !.pending = 0, !.recover = FALSE]
                        ELSE dev[e]]
          BY <1>4, ZenonT(60) DEF AskInTurn, AskInParallel, AskEntry
    <3>2. dev[d] \in DeviceStates /\ dev[d].rx = <<>>
          BY DevicesKept, NothingArrived DEF DevicesOK
    <3>3. dev'[d].rx = <<>>
      <4>1. CASE d \in drained
        <5>1. dev'[d] = [dev[d] EXCEPT !.rx = <<>>, !.pending = 0, !.recover = FALSE]
              BY <3>1, <4>1
        <5>2. QED  BY ONLY <3>2, <5>1 DEF DeviceStates
      <4>2. CASE d \notin drained
            BY <3>1, <3>2, <4>2
      <4>3. QED  BY <4>1, <4>2
    <3>4. Range(dev'[d].rx) = {}
          BY <3>3 DEF Range
    <3>5. QED  BY <3>3, <3>4 DEF Arrived
  <2>3. PICK receive : receive = Entry(0, receive_only(Probe.expected), None)
        OBVIOUS
  <2>4. router'.work[d] = Sole(receive)
    <3>1. PICK w : /\ router' = [router EXCEPT !.pc = "probe", !.work = w, !.responses[0] = {}]
                   /\ w = [e \in Devices |-> IF HasBus(e) THEN Sole(receive) ELSE <<>>]
          BY <1>4, <2>3, ZenonT(60) DEF AskInTurn, AskInParallel, Asking
    <3>2. DOMAIN router = RouterFields
          BY DevicesKept DEF RouterOK
    <3>3. PICK x : x = [router.responses EXCEPT ![0] = {}]
          OBVIOUS
    <3>4. router' = [router EXCEPT !.pc = "probe", !.work = w, !.responses = x]
          BY ONLY <3>1, <3>3
    <3>5. router'.work = w
          BY ONLY <3>2, <3>4 DEF RouterFields
    <3>6. HasBus(d)
          BY <1>4 DEF BroadcastTargets
    <3>7. QED  BY <3>1, <3>5, <3>6
  <2>5. receive \in Entries /\ receive.request.expected = Probe.expected
    <3>1. router.op = "discover" \/ router.i <= Len(router.requests)
          BY <1>1, DevicesKept DEF RouterOK
    <3>2. receive \in Entries
          BY <2>3, <3>1, ProbeType
    <3>3. receive.request.expected = Probe.expected
          BY <2>3 DEF Entry, receive_only, Request, NoFrame
    <3>4. QED  BY <3>2, <3>3
  <2>6. Awaits(d)' /\ Expected(d)' = Probe.expected
    <3>1. Sole(receive) # <<>> /\ Head(Sole(receive)).entries = <<receive>>
          BY DEF Sole
    <3>2. Expected(d)' = Total(<<receive>>)
          BY <2>4, <3>1 DEF Expected, Txn
    <3>3. Awaits(d)'
          BY <1>1, <1>4, <2>4, <3>1 DEF Awaits
    <3>4. QED  BY <2>5, <3>2, <3>3, TotalSole
  <2>7. PICK A, B : A = Answers(d, AskEntry) /\ B = bus'[d]
        OBVIOUS
  <2>8. IsFiniteSet(A) /\ Cardinality(A) \in Nat /\ Cardinality(A) <= Probe.expected
    <3>1. AskEntry.child = None /\ AskEntry.request = Probe
          BY DEF AskEntry, Entry
    <3>2. QED  BY <1>1, <2>7, <3>1, ProbeAnswered
  <2>9. IsFiniteSet(B) /\ Cardinality(B) \in Nat /\ Cardinality(B) <= Cardinality(A)
    <3>1. B \subseteq A
          BY <2>1, <2>2, <2>7
    <3>2. IsFiniteSet(B) /\ Cardinality(B) <= Cardinality(A)
          BY ONLY <2>8, <3>1, FS_Subset
    <3>3. QED  BY ONLY <3>2, FS_CardinalityType
  <2>10. Probe.expected \in Nat
    <3>1. router.op = "discover" \/ router.i <= Len(router.requests)
          BY <1>1, DevicesKept DEF RouterOK
    <3>2. QED  BY <3>1, ProbeType
  <2>11. Cardinality(bus'[d]) + Len(dev'[d].rx) <= Expected(d)'
    <3>1. Len(dev'[d].rx) = 0
          BY <2>2
    <3>2. QED  BY <2>6, <2>7, <2>8, <2>9, <2>10, <3>1
  <2>12. \A r \in Arrived(d)' : Own(r)'
    <3>1. ASSUME NEW r \in Arrived(d)'
          PROVE  Own(r)'
      <4>1. r.cause = <<router.n, 0>>
        <5>1. AskEntry.req = 0
              BY DEF AskEntry, Entry
        <5>2. QED  BY <2>1, <3>1, <5>1, AnswersCause
      <4>2. QED  BY <1>1, <4>1 DEF Own
    <3>2. QED  BY <3>1
  <2>13. Few(d)'
        BY <2>7, <2>9, <2>11, <2>12 DEF Few
  <2>14. QED  BY <1>2, <2>6, <2>13 DEF Settled
<1>5. QED  BY <1>3, <1>4

\* Only devices and starts change what requests have been answered.
LEMMA ResponsesStay ==
    ASSUME TypesInv,
           Resolve \/ Execute \/ Probing \/ Ending \/ Move \/ Lose \/ \E d \in Devices : Deliver(d)
    PROVE  /\ router'.n = router.n /\ router'.requests = router.requests
           /\ \A i \in 1..Len(router.requests) : router'.responses[i] = router.responses[i]
<1>1. DOMAIN router = RouterFields /\ DOMAIN router.responses = 0..Len(router.requests)
      BY DevicesKept DEF RouterOK
<1> DEFINE Stays == router'.responses = router.responses
<1>2. CASE Resolve
  <2>1. PICK g, k : router' = [router EXCEPT !.i = k, !.groups = g]
        BY <1>2 DEF Resolve
  <2>2. Stays
        BY ONLY <1>1, <2>1 DEF RouterFields
  <2>3. QED  BY <1>2, <2>2, ResolveParts DEF SameCall
<1>3. CASE Execute
  <2>1. PICK o, w : router' = [router EXCEPT !.pc = "run", !.order = o, !.work = w]
        BY <1>3 DEF Execute
  <2>2. Stays
        BY ONLY <1>1, <2>1 DEF RouterFields
  <2>3. QED  BY <1>3, <2>2, ExecuteParts, SMTT(60) DEF SamePlan, SameCall
<1>4. CASE StartProbe
  <2>1. router' = [router EXCEPT !.pc = "flush", !.work = NoWork, !.order = InOrder]
        BY <1>4 DEF StartProbe
  <2>2. Stays
        BY ONLY <1>1, <2>1 DEF RouterFields
  <2>3. QED  BY <1>4, <2>2, StartProbeParts DEF SamePlan, SameCall
<1>5. CASE FlushAll
  <2>1. router' = [router EXCEPT !.pc = "ask"]
        BY <1>5 DEF FlushAll
  <2>2. Stays
        BY ONLY <1>1, <2>1 DEF RouterFields
  <2>3. QED  BY <1>5, <2>2, FlushAllParts DEF SamePlan, SameCall
<1>6. CASE AskInTurn \/ AskInParallel
  <2>1. PICK w : router' = [router EXCEPT !.pc = "probe", !.work = w, !.responses[0] = {}]
        BY <1>6, ZenonT(60) DEF AskInTurn, AskInParallel, Asking
  <2>2. PICK x : x = [router.responses EXCEPT ![0] = {}]
        OBVIOUS
  <2>3. router' = [router EXCEPT !.pc = "probe", !.work = w, !.responses = x]
        BY ONLY <2>1, <2>2
  <2>4. router'.responses = x
        BY ONLY <1>1, <2>3 DEF RouterFields
  <2>5. \A i \in 1..Len(router.requests) : x[i] = router.responses[i]
    <3>1. Len(router.requests) \in Nat
          BY DevicesKept DEF RouterOK
    <3>2. QED  BY <1>1, <2>2, <3>1
  <2>6. QED  BY <1>6, <2>4, <2>5, AskParts DEF SamePlan, SameCall
<1>7. CASE ProbeEnd
  <2>1. \/ \E m : router' = [router EXCEPT !.pc = "resolve", !.routes = m]
        \/ \E o : router' = [router EXCEPT !.pc = "idle", !.result = o]
        BY <1>7, ZenonT(60) DEF ProbeEnd
  <2>2. Stays
        BY ONLY <1>1, <2>1 DEF RouterFields
  <2>3. QED  BY <1>7, <2>2, ProbeEndParts DEF SamePlan, SameCall
<1>8. CASE DiscoverEnd
  <2>1. PICK f : router' = [router EXCEPT !.pc = "idle", !.result = "ok", !.found = f]
        BY <1>8 DEF DiscoverEnd
  <2>2. Stays
        BY ONLY <1>1, <2>1 DEF RouterFields
  <2>3. QED  BY <1>8, <2>2, EndParts, SMTT(60) DEF SamePlan, SameCall
<1>9. CASE RunEnd
  <2>1. PICK o : router' = [router EXCEPT !.pc = "idle", !.result = o]
        BY <1>9 DEF RunEnd
  <2>2. Stays
        BY ONLY <1>1, <2>1 DEF RouterFields
  <2>3. QED  BY <1>9, <2>2, EndParts DEF SamePlan, SameCall
<1>10. CASE Cancel
  <2>1. PICK k : router' = [router EXCEPT !.pc = "idle", !.work = NoWork, !.result = "cancelled", !.spent = k]
        BY <1>10, ZenonT(40) DEF Cancel
  <2>2. Stays
        BY ONLY <1>1, <2>1 DEF RouterFields
  <2>3. QED  BY <1>10, <2>2, CancelParts DEF SamePlan, SameCall
<1>11. CASE Move
  <2>1. PICK k : router' = [router EXCEPT !.spent = k]
        BY <1>11 DEF Move, Spend
  <2>2. Stays
        BY ONLY <1>1, <2>1 DEF RouterFields
  <2>3. QED  BY <1>11, <2>2, MoveParts DEF SameCall
<1>12. CASE Lose \/ \E d \in Devices : Deliver(d)
      BY <1>12, LoseParts, DeliverParts DEF Unnoticed, SamePlan, SameCall
<1>13. QED
  <2> HIDE DEF Stays
  <2> QED  BY <1>2, <1>3, <1>4, <1>5, <1>6, <1>7, <1>8, <1>9, <1>10, <1>11, <1>12 DEF Probing, Ending

\* What a device hands over to requests is their own.
LEMMA WorksAnswers ==
    ASSUME TypesInv, ControlInv, WorkInv, AnswersOwn, NEW d \in Devices, Works(d), Settled(d)
    PROVE  AnswersOwn'
<1>1. /\ router'.n = router.n /\ router'.requests = router.requests
      /\ Running /\ router.work[d] # <<>>
      BY DEF Works, SamePlan, SameCall
<1>2. SUFFICES ASSUME NEW i \in 1..Len(router.requests), NEW r \in router'.responses[i]
               PROVE  r.frame.cause \in {router.n} \X (1..Len(router.requests))
      BY <1>1 DEF AnswersOwn
<1>3. CASE router'.responses = router.responses
      BY <1>2, <1>3 DEF AnswersOwn
<1>4. CASE Finishes(d)
  <2>1. PICK frames \in Seq(Reply) :
            Range(frames) \subseteq Range(dev[d].rx) /\ router'.responses = Dispatched(d, frames)
        BY <1>4 DEF Finishes
  <2>2. i \in DOMAIN router.responses
    <3>1. DOMAIN router.responses = 0..Len(router.requests) /\ Len(router.requests) \in Nat
          BY DevicesKept DEF RouterOK
    <3>2. QED  BY <3>1
  <2>3. r \in router.responses[i] \cup
           {[frame |-> f, channel |-> d] : f \in {f \in Range(frames) :
               \E k \in FirstMatch(Txn(d).entries, f) : Txn(d).entries[k].req = i}}
        BY <1>2, <2>1, <2>2 DEF Dispatched
  <2>4. CASE r \in router.responses[i]
        BY <2>4 DEF AnswersOwn
  <2>5. ASSUME NEW f \in Range(frames), r = [frame |-> f, channel |-> d],
               NEW k \in FirstMatch(Txn(d).entries, f), Txn(d).entries[k].req = i
        PROVE  r.frame.cause \in {router.n} \X (1..Len(router.requests))
    <3>1. dev[d].pc # "idle" /\ Few(d)
          BY <1>4 DEF Finishes, Settled
    <3>2. Own(f)
          BY <2>1, <3>1 DEF Few, Arrived
    <3>3. Txn(d).entries[k] \in InTxns(router.work[d])
      <4>1. Txn(d) \in Range(router.work[d])
            BY <1>1, WorkLeftParts
      <4>2. k \in DOMAIN Txn(d).entries
            BY DEF FirstMatch
      <4>3. QED  BY <4>1, <4>2 DEF InTxns, Range
    <3>4. router.pc # "probe"
      <4>1. i # 0
            BY <1>2
      <4>2. QED  BY <2>5, <3>3, <4>1 DEF WorkInv, ProbeEntry
    <3>5. r.frame = f
          BY <2>5
    <3>6. QED  BY <1>1, <3>2, <3>4, <3>5 DEF Own, Running
  <2>6. QED  BY <2>3, <2>4, <2>5
<1>5. QED  BY <1>3, <1>4 DEF Works, GivesUp

\* Every step, action by action.
LEMMA AllActions ==
    ASSUME [Next]_vars
    PROVE  \/ Starting \/ Resolve \/ Execute \/ Probing \/ Ending \/ Move \/ Lose \/ StrangerTalks
           \/ (\E d \in Devices : DeviceStep(d)) \/ (\E d \in Devices : Deliver(d)) \/ UNCHANGED vars
<1>1. CASE Application
      BY <1>1 DEF Application, Starting, Ending
<1>2. CASE RouterStep
      BY <1>2 DEF RouterStep, Probing, Ending
<1>3. CASE Disturbance
      BY <1>3 DEF Disturbance
<1>4. QED  BY <1>1, <1>2, <1>3 DEF Next

\* A run without disturbances had none before.
LEMMA DisturbedKept ==
    ASSUME TypesInv, TypesInv', ControlInv, [Next]_vars, ~Disturbed'
    PROVE  ~Disturbed /\ router.spent = 0 /\ router'.spent = 0 /\ ~cfg.late
<1>1. cfg' = cfg
      BY StepKeeps
<1>2. router'.spent >= router.spent
  <2>1. router.spent \in Nat
    <3>1. router.spent \in 0..cfg.maxFaults
          BY DevicesKept DEF RouterOK
    <3>2. QED  BY <3>1
  <2>2. CASE Starting
        BY <2>1, <2>2, AllStart DEF StartsCall
  <2>3. CASE ~Starting
        BY <2>3, AllSteps, ResolveParts, ExecuteParts, StartProbeParts, FlushAllParts, AskParts,
           ProbeEndParts, EndParts, CancelParts, MoveParts, ZenonT(60)
           DEF Probing, Ending, Unnoticed, Works, SamePlan, SameCall
  <2>4. QED  BY <2>2, <2>3
<1>3. router.spent \in Nat /\ router'.spent \in Nat
  <2>1. RouterOK(router) /\ RouterOK(router)'
        BY DEF TypesInv
  <2>2. router.spent \in 0..cfg.maxFaults /\ router'.spent \in 0..cfg'.maxFaults
        BY <2>1 DEF RouterOK
  <2>3. QED  BY <2>2
<1>4. ~cfg'.late /\ ~(router'.spent > 0)
      BY DEF Disturbed
<1>5. router.spent = 0 /\ router'.spent = 0
      BY <1>2, <1>3, <1>4
<1>6. QED  BY <1>1, <1>4, <1>5 DEF Disturbed

\* What spends from the bound on disturbances is one.
LEMMA DisturbancesSpend ==
    ASSUME TypesInv, Cancel \/ StrangerTalks \/ Lose \/ Move
    PROVE  router'.spent # router.spent
<1>1. DOMAIN router = RouterFields /\ router.spent \in Nat
  <2>1. DOMAIN router = RouterFields /\ router.spent \in 0..cfg.maxFaults
        BY DevicesKept DEF RouterOK
  <2>2. QED  BY <2>1
<1>2. PICK k : k = router.spent + 1
      OBVIOUS
<1>3. \/ router' = [router EXCEPT !.pc = "idle", !.work = NoWork, !.result = "cancelled", !.spent = k]
      \/ router' = [router EXCEPT !.spent = k]
      BY <1>2, ZenonT(60) DEF Cancel, StrangerTalks, Lose, Move, Spend
<1>4. router'.spent = k
      BY ONLY <1>1, <1>3 DEF RouterFields
<1>5. QED  BY <1>1, <1>2, <1>4

LEMMA OkFailsSpends ==
    ASSUME TypesInv, ControlInv, NEW d \in Devices, OkFails(d)
    PROVE  router'.spent # router.spent
<1>1. PICK t : t = Broken(d, dev[d])
      OBVIOUS
<1>2. /\ dev[d].pc = "ok" /\ dev' = [dev EXCEPT ![d] = t]
      /\ router' = [Failed(router, d) EXCEPT !.spent = @ + 1]
      /\ cfg' = cfg /\ servers' = servers /\ hist' = hist
      BY <1>1, ZenonT(40) DEF OkFails
<1>3. t.pc = "idle" /\ dev \in [Devices -> DeviceStates]
      BY <1>1, DevicesKept, BrokenOK DEF DevicesOK
<1>4. dev'[d].pc = "idle"
      BY <1>2, <1>3
<1>5. GivesUp(d)
  <2>1. router.work[d] # <<>>
        BY <1>2 DEF ControlInv
  <2>2. hist'.moved = hist.moved /\ hist'.fresh = hist.fresh
        BY <1>2
  <2>3. QED  BY <1>2, <1>4, <2>1, <2>2, FailedParts
<1>6. router.spent \in Nat
  <2>1. router.spent \in 0..cfg.maxFaults
        BY DevicesKept DEF RouterOK
  <2>2. QED  BY <2>1
<1>7. QED  BY <1>5, <1>6 DEF GivesUp

\* A device that sends without an error: what it had and what the frames bring.
LEMMA SendsOut ==
    ASSUME TypesInv, ControlInv, NEW d \in Devices, Send(d), router'.spent = router.spent
    PROVE  /\ router' = router /\ Running /\ router.work[d] # <<>> /\ dev[d].pc = "idle"
           /\ dev'[d].pc # "idle" /\ dev'[d].recover = Recovering(d)
           /\ dev'[d].flush => dev[d].flush
           /\ ~Marked(d) => /\ dev'[d].rx = dev[d].rx
                            /\ bus'[d] = bus[d] \cup AnswersTo(d, AllFrames(d))
<1>1. PICK s : s = IF Drains(d) \/ Clears(d)
                   THEN [dev[d] EXCEPT !.rx = <<>>, !.pending = 0, !.flush = FALSE] ELSE dev[d]
      OBVIOUS
<1>2. PICK sent \in 0..Len(Txn(d).entries) :
          /\ bus' = [bus EXCEPT ![d] = (IF Drains(d) THEN {} ELSE bus[d]) \cup AnswersTo(d, Frames(d, sent))]
          /\ \/ /\ sent = Len(Txn(d).entries)
                /\ dev' = [dev EXCEPT ![d] =
                     [s EXCEPT !.pc = IF Fd(d) /\ Frames(d, Len(Txn(d).entries)) # {} THEN "ok" ELSE "receive",
                               !.recover = Recovering(d)]]
                /\ router' = router
             \/ dev' = [dev EXCEPT ![d] = Broken(d, s)]
      BY <1>1, ZenonT(60) DEF Send
<1>3. Running /\ router.work[d] # <<>> /\ dev[d].pc = "idle"
      BY ZenonT(40) DEF Send
<1>4. dev[d] \in DeviceStates /\ dev \in [Devices -> DeviceStates] /\ bus \in [Devices -> SUBSET Reply]
      BY DevicesKept DEF DevicesOK
<1>5. s \in DeviceStates /\ s.pc = "idle" /\ (s.flush => dev[d].flush)
  <2>1. CASE s = dev[d]
        BY <1>3, <1>4, <2>1
  <2>2. CASE s = [dev[d] EXCEPT !.rx = <<>>, !.pending = 0, !.flush = FALSE]
    <3>1. s \in DeviceStates
          BY ONLY <1>4, <2>2, DeviceEmptied, Zenon
    <3>2. s.pc = dev[d].pc /\ s.flush = FALSE
          BY ONLY <1>4, <2>2 DEF DeviceStates
    <3>3. QED  BY <1>3, <3>1, <3>2
  <2>3. QED  BY <1>1, <2>1, <2>2
<1>6. dev'[d].pc # "idle"
  <2>1. Works(d)
        BY SendParts
  <2>2. ~Finishes(d)
        BY <1>3 DEF Finishes
  <2>3. ~GivesUp(d)
    <3>1. router.spent \in Nat
      <4>1. router.spent \in 0..cfg.maxFaults
            BY DevicesKept DEF RouterOK
      <4>2. QED  BY <4>1
    <3>2. QED  BY <3>1 DEF GivesUp
  <2>4. QED  BY <2>1, <2>2, <2>3 DEF Works
<1>7. dev' # [dev EXCEPT ![d] = Broken(d, s)]
  <2>1. Broken(d, s).pc = "idle"
        BY <1>5, BrokenOK
  <2>2. QED  BY <1>4, <1>6, <2>1
<1>8. PICK p, b : /\ p = (IF Fd(d) /\ Frames(d, Len(Txn(d).entries)) # {} THEN "ok" ELSE "receive")
                  /\ b = Recovering(d)
      OBVIOUS
<1>9. PICK t : t = [s EXCEPT !.pc = p, !.recover = b]
      OBVIOUS
<1>10. dev' = [dev EXCEPT ![d] = t] /\ router' = router /\ sent = Len(Txn(d).entries)
      BY <1>2, <1>7, <1>8, <1>9
<1>11. t.recover = b /\ t.flush = s.flush /\ t.rx = s.rx
      BY ONLY <1>5, <1>9 DEF DeviceStates
<1>12. dev'[d] = t
      BY <1>4, <1>10
<1>13. ASSUME ~Marked(d)
       PROVE  dev'[d].rx = dev[d].rx /\ bus'[d] = bus[d] \cup AnswersTo(d, AllFrames(d))
  <2>1. ~Drains(d) /\ ~Clears(d)
        BY <1>13 DEF Marked, Drains, Clears
  <2>2. s = dev[d]
        BY <1>1, <2>1
  <2>3. bus'[d] = bus[d] \cup AnswersTo(d, AllFrames(d))
        BY <1>2, <1>4, <1>10, <2>1 DEF AllFrames
  <2>4. QED  BY <1>11, <1>12, <2>2, <2>3
<1>14. QED  BY <1>3, <1>5, <1>6, <1>8, <1>10, <1>11, <1>12, <1>13

\* Between transactions the router leaves devices alone.
LEMMA RestStays ==
    ASSUME TypesInv, ControlInv,
           Resolve \/ Execute \/ StartProbe \/ ProbeEnd \/ DiscoverEnd \/ RunEnd \/ Move
    PROVE  dev' = dev /\ bus' = bus /\ (~Running \/ AllDone) /\ \A d \in Devices : dev[d].pc = "idle"
<1>1. dev' = dev /\ bus' = bus
  <2>1. CASE Resolve
        BY <2>1, SMTT(60) DEF Resolve
  <2>2. CASE Execute
        BY <2>2 DEF Execute
  <2>3. CASE StartProbe
        BY <2>3 DEF StartProbe
  <2>4. CASE ProbeEnd
        BY <2>4, ZenonT(40) DEF ProbeEnd
  <2>5. CASE DiscoverEnd
        BY <2>5, ZenonT(40) DEF DiscoverEnd
  <2>6. CASE RunEnd
        BY <2>6 DEF RunEnd
  <2>7. CASE Move
        BY <2>7, MoveParts
  <2>8. QED  BY <2>1, <2>2, <2>3, <2>4, <2>5, <2>6, <2>7
<1>2. ~Running \/ AllDone
      BY ZenonT(40) DEF Resolve, Execute, StartProbe, ProbeEnd, DiscoverEnd, RunEnd, Move, Running
<1>3. QED  BY <1>1, <1>2, Idle

\* They keep what they have.
LEMMA RestSettles ==
    ASSUME TypesInv, ControlInv, NEW d \in Devices, Settled(d),
           Resolve \/ Execute \/ StartProbe \/ ProbeEnd \/ DiscoverEnd \/ RunEnd \/ Move
    PROVE  Settled(d)'
<1>1. dev' = dev /\ bus' = bus /\ (~Running \/ AllDone) /\ dev[d].pc = "idle"
      BY RestStays
<1>2. ~Awaits(d)
      BY <1>1 DEF Awaits, AllDone, Running
<1>3. dev'[d].pc = "idle" /\ Arrived(d)' = Arrived(d) /\ (Marked(d) => Marked(d)')
      BY <1>1 DEF Arrived, Marked
<1>4. QED  BY <1>1, <1>2, <1>3, IdleSettled

\* So do devices of an operation that starts.
LEMMA StartSettles ==
    ASSUME TypesInv, ControlInv, \A e \in Devices : Drainable(e), Starting,
           NEW d \in Devices, Settled(d)
    PROVE  Settled(d)'
<1>1. Arrived(d)' \subseteq Arrived(d) /\ router.pc = "idle"
      BY StartsFresh DEF Fresh
<1>2. dev[d].pc = "idle" /\ ~Awaits(d)
      BY <1>1, Idle DEF Running, Awaits
<1>3. /\ dev'[d].pc = "idle"
      /\ Arrived(d)' = {} \/ (Marked(d) => Marked(d)')
      BY <1>2, AllStart DEF StartsDevices, Marked
<1>4. QED  BY <1>1, <1>2, <1>3, IdleSettled

\* What a probe leaves on a device: nothing but the answers it asks for.
ProbeItem == IF cfg.async THEN Entry(0, receive_only(Probe.expected), None) ELSE AskEntry
LEMMA AskDevices ==
    ASSUME TypesInv, AskInTurn \/ AskInParallel, NEW d \in Devices
    PROVE  /\ dev'[d].pc = dev[d].pc /\ dev'[d].flush = dev[d].flush
           /\ dev'[d].recover => dev[d].recover
           /\ Arrived(d) = {} => dev'[d].rx = <<>> /\ bus'[d] = AskAnswers(d)
           /\ router'.work[d] = IF (cfg.async /\ HasBus(d)) \/ (~cfg.async /\ d \in BroadcastTargets)
                                THEN Sole(ProbeItem) ELSE <<>>
<1>1. DOMAIN router = RouterFields /\ dev[d] \in DeviceStates /\ bus \in [Devices -> SUBSET Reply]
      BY DevicesKept DEF RouterOK, DevicesOK
<1>2. PICK x : x = [router.responses EXCEPT ![0] = {}]
      OBVIOUS
<1>3. CASE AskInTurn
  <2>1. /\ ~cfg.async /\ dev' = dev /\ bus' = bus
        /\ router' = Asking([e \in Devices |->
                     IF e \in BroadcastTargets THEN Sole(Entry(0, Probe, None)) ELSE <<>>])
        BY <1>3 DEF AskInTurn
  <2>2. PICK w : w = [e \in Devices |-> IF e \in BroadcastTargets THEN Sole(ProbeItem) ELSE <<>>]
        OBVIOUS
  <2>3. router' = [router EXCEPT !.pc = "probe", !.work = w, !.responses = x]
        BY <1>2, <2>1, <2>2 DEF Asking, ProbeItem, AskEntry
  <2>4. router'.work = w
        BY ONLY <1>1, <2>3 DEF RouterFields
  <2>5. router'.work[d] = IF d \in BroadcastTargets THEN Sole(ProbeItem) ELSE <<>>
        BY <2>2, <2>4
  <2>6. Arrived(d) = {} => dev'[d].rx = <<>> /\ bus'[d] = AskAnswers(d)
        BY <2>1, NothingArrived DEF AskAnswers
  <2>7. QED  BY <2>1, <2>5, <2>6
<1>4. CASE AskInParallel
  <2>1. PICK drained :
          /\ cfg.async
          /\ dev' = [e \in Devices |-> IF e \in drained
                        THEN [dev[e] EXCEPT !.rx = <<>>, !.pending = 0, !.recover = FALSE]
                        ELSE dev[e]]
          /\ bus' = [e \in Devices |-> (IF e \in drained THEN {} ELSE bus[e])
                        \cup (IF e \in BroadcastTargets THEN Answers(e, AskEntry) ELSE {})]
          /\ router' = Asking([e \in Devices |->
                     IF HasBus(e) THEN Sole(Entry(0, receive_only(Probe.expected), None)) ELSE <<>>])
        BY <1>4, ZenonT(60) DEF AskInParallel, AskEntry
  <2>2. PICK w : w = [e \in Devices |-> IF HasBus(e) THEN Sole(ProbeItem) ELSE <<>>]
        OBVIOUS
  <2>3. router' = [router EXCEPT !.pc = "probe", !.work = w, !.responses = x]
        BY <1>2, <2>1, <2>2 DEF Asking, ProbeItem
  <2>4. router'.work = w
        BY ONLY <1>1, <2>3 DEF RouterFields
  <2>5. router'.work[d] = IF HasBus(d) THEN Sole(ProbeItem) ELSE <<>>
        BY <2>2, <2>4
  <2>6. CASE d \in drained
    <3>1. dev'[d] = [dev[d] EXCEPT !.rx = <<>>, !.pending = 0, !.recover = FALSE]
          BY <2>1, <2>6
    <3>2. dev'[d].pc = dev[d].pc /\ dev'[d].flush = dev[d].flush /\ ~dev'[d].recover /\ dev'[d].rx = <<>>
          BY ONLY <1>1, <3>1 DEF DeviceStates
    <3>3. bus'[d] = AskAnswers(d)
          BY <2>1, <2>6 DEF AskAnswers
    <3>4. QED  BY <2>1, <2>5, <3>2, <3>3
  <2>7. CASE d \notin drained
    <3>1. dev'[d] = dev[d] /\ bus'[d] = bus[d] \cup AskAnswers(d)
          BY <2>1, <2>7 DEF AskAnswers
    <3>2. Arrived(d) = {} => dev'[d].rx = <<>> /\ bus'[d] = AskAnswers(d)
          BY <3>1, NothingArrived
    <3>3. QED  BY <2>1, <2>5, <3>1, <3>2
  <2>8. QED  BY <2>6, <2>7
<1>5. QED  BY <1>3, <1>4

\* What a device that delivers changes.
LEMMA DeliverDevice ==
    ASSUME TypesInv, NEW d \in Devices, Deliver(d)
    PROVE  /\ cfg' = cfg /\ servers' = servers /\ router' = router /\ hist' = hist
           /\ \A e \in Devices \ {d} : dev'[e] = dev[e] /\ bus'[e] = bus[e]
           /\ dev'[d].pc = dev[d].pc /\ dev'[d].flush = dev[d].flush /\ dev'[d].recover = dev[d].recover
           /\ \E reply \in bus[d] :
                 dev'[d].rx = Append(dev[d].rx, reply) /\ bus'[d] = bus[d] \ {reply}
<1>1. PICK reply \in bus[d] :
          /\ bus' = [bus EXCEPT ![d] = @ \ {reply}]
          /\ dev' = [dev EXCEPT ![d].rx = Append(@, reply)]
      BY DEF Deliver
<1>2. cfg' = cfg /\ servers' = servers /\ router' = router /\ hist' = hist
      BY DEF Deliver
<1>3. dev \in [Devices -> DeviceStates] /\ bus \in [Devices -> SUBSET Reply]
      BY DevicesKept DEF DevicesOK
<1>4. PICK x : x = Append(dev[d].rx, reply)
      OBVIOUS
<1>5. dev'[d] = [dev[d] EXCEPT !.rx = x] /\ dev[d] \in DeviceStates
      BY <1>1, <1>3, <1>4
<1>6. /\ dev'[d].pc = dev[d].pc /\ dev'[d].rx = x
      /\ dev'[d].flush = dev[d].flush /\ dev'[d].recover = dev[d].recover
      BY ONLY <1>5 DEF DeviceStates
<1>7. \A e \in Devices \ {d} : dev'[e] = dev[e] /\ bus'[e] = bus[e]
      BY <1>1, <1>3
<1>8. bus'[d] = bus[d] \ {reply}
      BY <1>1, <1>3
<1>9. QED  BY <1>2, <1>4, <1>6, <1>7, <1>8

\* Marks that are not set anew stay fit.
LEMMA MarksStay ==
    ASSUME NEW d, MarksFit(d), cfg' = cfg, dev'[d].pc = dev[d].pc,
           dev'[d].recover => dev[d].recover, dev'[d].flush => dev[d].flush,
           dev[d].pc = "idle" \/ (Writing' <=> Writing)
    PROVE  MarksFit(d)'
  BY DEF MarksFit, Fd, Info

\* What completes a transaction leaves on its device.
LEMMA CompleteDevice ==
    ASSUME TypesInv, ControlInv, NEW d \in Devices, Complete(d)
    PROVE  /\ dev[d].pc = "receive" /\ dev'[d].pc = "idle" /\ bus' = bus
           /\ dev'[d].flush = dev[d].flush /\ (dev'[d].recover <=> dev[d].recover /\ Writing)
           /\ \E n \in 0..Len(dev[d].rx) :
                 /\ n >= Expected(d) /\ (Expected(d) > 0 => n > 0)
                 /\ dev'[d].rx = SubSeq(dev[d].rx, n + 1, Len(dev[d].rx))
                 /\ router' = Answered(d, SubSeq(dev[d].rx, 1, n))
<1>1. PICK m, k, l : m = Expected(d) /\ k = dev[d].pending /\ l = Len(dev[d].rx)
      OBVIOUS
<1>2. PICK n : n = IF m = 0 THEN 0 ELSE IF k >= m THEN k ELSE m
      OBVIOUS
<1>3. PICK x, p, b : /\ x = SubSeq(dev[d].rx, n + 1, l)
                     /\ p = (IF n = 0 THEN dev[d].pending ELSE 0) /\ b = (dev[d].recover /\ Writing)
      OBVIOUS
<1>4. /\ dev[d].pc = "receive" /\ l >= n /\ bus' = bus
      /\ dev' = [dev EXCEPT ![d].pc = "idle", ![d].recover = b, ![d].rx = x, ![d].pending = p]
      /\ router' = Answered(d, SubSeq(dev[d].rx, 1, n))
  <2>1. /\ dev[d].pc = "receive" /\ l >= n /\ bus' = bus
        /\ dev' = [dev EXCEPT ![d].pc = "idle", ![d].recover = @ /\ Writing,
                     ![d].rx = SubSeq(@, n + 1, Len(@)), ![d].pending = IF n = 0 THEN @ ELSE 0]
        /\ router' = Answered(d, SubSeq(dev[d].rx, 1, n))
        BY <1>1, <1>2, ZenonT(60) DEF Complete
  <2>2. dev[d] \in DeviceStates /\ dev \in [Devices -> DeviceStates]
        BY DevicesKept DEF DevicesOK
  <2>3. QED  BY <1>1, <1>3, <2>1, <2>2
<1>5. dev[d] \in DeviceStates /\ dev \in [Devices -> DeviceStates]
      BY DevicesKept DEF DevicesOK
<1>6. PICK s : s = [dev[d] EXCEPT !.pc = "idle", !.recover = b, !.rx = x, !.pending = p]
      OBVIOUS
<1>7. dev' = [dev EXCEPT ![d] = s]
      BY ONLY <1>4, <1>5, <1>6
<1>8. dev'[d] = s
      BY <1>5, <1>7
<1>9. s.pc = "idle" /\ s.flush = dev[d].flush /\ s.recover = b /\ s.rx = x
      BY ONLY <1>5, <1>6 DEF DeviceStates
<1>10. m \in Nat /\ k \in Nat /\ l \in Nat
  <2>1. dev[d].rx \in Seq(Reply) /\ k \in Nat
        BY <1>1, <1>5 DEF DeviceStates
  <2>2. m \in Nat
        BY <1>1, <1>4, TxnType DEF ControlInv
  <2>3. QED  BY <1>1, <2>1, <2>2
<1>11. n \in 0..l /\ n >= m /\ (m > 0 => n > 0)
      BY ONLY <1>2, <1>4, <1>10
<1>12. QED  BY <1>1, <1>3, <1>4, <1>8, <1>9, <1>11

LEMMA MarksNext ==
    ASSUME TypesInv, TypesInv', ControlInv, MarksInv, [Next]_vars
    PROVE  MarksInv'
<1>1. SUFFICES ASSUME ~Disturbed', NEW d \in Devices
               PROVE  MarksFit(d)'
  <2>1. Devices' = Devices
        BY StepKeeps, ConfigKept
  <2>2. QED  BY <1>1, <2>1 DEF MarksInv
<1>2. /\ router'.spent = router.spent /\ ~cfg.late /\ cfg' = cfg /\ MarksFit(d)
  <2>1. ~Disturbed /\ router.spent = 0 /\ router'.spent = 0 /\ ~cfg.late
        BY <1>1, DisturbedKept
  <2>2. QED  BY <2>1, StepKeeps DEF MarksInv
<1>3. CASE Starting
  <2>1. dev[d].pc = "idle"
        BY <1>3, StartsFresh, Idle DEF Fresh, Running
  <2>2. /\ dev'[d].pc = dev[d].pc /\ dev'[d].recover = dev[d].recover
        /\ dev'[d].flush => dev[d].flush
        BY <1>3, AllStart DEF StartsDevices
  <2>3. QED  BY <1>2, <2>1, <2>2, MarksStay
<1>4. CASE Resolve \/ Execute \/ StartProbe \/ ProbeEnd \/ DiscoverEnd \/ RunEnd
  <2>1. dev' = dev /\ dev[d].pc = "idle"
        BY <1>4, RestStays
  <2>2. QED  BY <1>2, <2>1, MarksStay
<1>5. CASE FlushAll
  <2>1. PICK ds : ds = (IF router.op = "discover" THEN ParentIndices ELSE Devices)
        OBVIOUS
  <2>2. Flushed(ds) /\ dev[d].pc = "idle"
        BY <1>5, <2>1, Idle DEF FlushAll, Running
  <2>3. /\ dev'[d].pc = dev[d].pc /\ dev'[d].recover = dev[d].recover
        /\ dev'[d].flush => dev[d].flush
        BY <2>2, FlushedMarks
  <2>4. QED  BY <1>2, <2>2, <2>3, MarksStay
<1>6. CASE AskInTurn \/ AskInParallel
  <2>1. dev[d].pc = "idle"
        BY <1>6, AskParts, Idle DEF Running
  <2>2. /\ dev'[d].pc = dev[d].pc /\ dev'[d].flush = dev[d].flush
        /\ dev'[d].recover => dev[d].recover
        BY <1>6, AskDevices
  <2>3. QED  BY <1>2, <2>1, <2>2, MarksStay
<1>7. CASE Cancel \/ StrangerTalks \/ Lose \/ Move
      BY <1>2, <1>7, DisturbancesSpend
<1>8. ASSUME NEW e \in Devices, Deliver(e)
      PROVE  MarksFit(d)'
  <2>1. /\ router' = router /\ dev'[d].pc = dev[d].pc /\ dev'[d].flush = dev[d].flush
        /\ dev'[d].recover = dev[d].recover
        BY <1>8, DeliverDevice
  <2>2. QED  BY <1>2, <2>1, MarksStay DEF Writing
<1>9. ASSUME NEW e \in Devices, DeviceStep(e)
      PROVE  MarksFit(d)'
  <2>1. Works(e)
        BY <1>9, DeviceWorks
  <2>2. Writing' <=> Writing
        BY <2>1 DEF Works, SamePlan, SameCall, Writing
  <2>3. CASE d # e
    <3>1. dev'[d] = dev[d]
          BY <2>1, <2>3 DEF Works
    <3>2. QED  BY <1>2, <2>2, <3>1, MarksStay
  <2>4. CASE d = e /\ Send(d)
    <3>1. /\ dev[d].pc = "idle" /\ dev'[d].pc # "idle" /\ dev'[d].recover = Recovering(d)
          /\ dev'[d].flush => dev[d].flush
          BY <1>2, <2>4, SendsOut
    <3>2. Recovering(d) => ~Writing
          BY <1>2, <3>1 DEF Recovering, MarksFit
    <3>3. QED  BY <1>2, <2>2, <3>1, <3>2 DEF MarksFit, Fd, Info
  <2>5. CASE d = e /\ WaitOk(d)
    <3>1. PICK k : dev' = [dev EXCEPT ![d].pc = "receive", ![d].pending = k]
          BY <2>5, ZenonT(40) DEF WaitOk
    <3>2. dev[d].pc = "ok"
          BY <2>5, ZenonT(40) DEF WaitOk
    <3>3. dev[d] \in DeviceStates /\ dev \in [Devices -> DeviceStates]
          BY DevicesKept DEF DevicesOK
    <3>4. dev'[d] = [dev[d] EXCEPT !.pc = "receive", !.pending = k]
          BY <3>1, <3>3
    <3>5. dev'[d].pc = "receive" /\ dev'[d].flush = dev[d].flush /\ dev'[d].recover = dev[d].recover
          BY ONLY <3>3, <3>4 DEF DeviceStates
    <3>6. QED  BY <1>2, <2>2, <3>2, <3>5 DEF MarksFit, Fd, Info
  <2>6. CASE d = e /\ Complete(d)
    <3>1. dev'[d].flush = dev[d].flush /\ (dev'[d].recover <=> dev[d].recover /\ Writing)
          BY <2>6, CompleteDevice
    <3>2. QED  BY <1>2, <3>1 DEF MarksFit, Fd, Info
  <2>7. CASE d = e /\ ReceiveTimeout(d)
    <3>1. PICK s : s = [IdleDevice EXCEPT !.flush = dev[d].flush \/ Fd(d)]
          OBVIOUS
    <3>2. dev' = [dev EXCEPT ![d] = s]
          BY <2>7, <3>1, ZenonT(60) DEF ReceiveTimeout
    <3>3. dev \in [Devices -> DeviceStates]
          BY DevicesKept DEF DevicesOK
    <3>4. (s.flush => dev[d].flush \/ Fd(d)) /\ ~s.recover
          BY <3>1 DEF IdleDevice
    <3>5. dev'[d] = s
          BY <3>2, <3>3
    <3>6. QED  BY <1>2, <3>4, <3>5 DEF MarksFit, Fd, Info
  <2>8. ~OkFails(d) \/ d # e
        BY <1>2, OkFailsSpends
  <2>9. QED  BY <1>9, <2>3, <2>4, <2>5, <2>6, <2>7, <2>8 DEF DeviceStep
<1>10. CASE UNCHANGED vars
  <2>1. cfg' = cfg /\ router' = router /\ dev' = dev
        BY <1>10 DEF vars
  <2>2. QED  BY <1>2, <2>1, MarksStay DEF Writing
<1>11. QED  BY <1>3, <1>4, <1>5, <1>6, <1>7, <1>8, <1>9, <1>10, AllActions DEF Probing, Ending

\* Flushing between operations takes all there is.
LEMMA IdleDrainable ==
    ASSUME ControlInv, MarksInv, AnswerInv, Adapters \/ Quiet, router.pc \in {"idle", "flush"},
           NEW d \in Devices
    PROVE  Drainable(d)
<1>1. CASE Adapters
      BY <1>1 DEF Adapters, Drainable
<1>2. CASE Quiet
  <2>1. dev[d].pc = "idle" /\ ~Awaits(d)
        BY Idle DEF Running, Awaits
  <2>2. Marked(d) \/ Arrived(d) = {}
        BY <1>2, <2>1 DEF AnswerInv, Settled
  <2>3. MarksFit(d)
        BY <1>2 DEF Quiet, MarksInv
  <2>4. QED  BY <2>1, <2>2, <2>3 DEF Drainable, Marked, MarksFit
<1>3. QED  BY <1>1, <1>2

LEMMA AnswerNext ==
    ASSUME TypesInv, TypesInv', ControlInv, WorkInv, SoughtInv, CallInv, WhoInv, MarksInv, AnswerInv,
           [Next]_vars
    PROVE  AnswerInv'
<1>1. SUFFICES ASSUME (Attentive \/ Quiet)'
               PROVE  (\A d \in Devices : Settled(d)') /\ Quieted' /\ AnswersOwn'
  <2>1. Devices' = Devices
        BY StepKeeps, ConfigKept
  <2>2. QED  BY <1>1, <2>1 DEF AnswerInv
<1>2. /\ ~Surplus /\ (\A d \in Devices : Settled(d)) /\ Quieted /\ AnswersOwn
      /\ \/ Attentive
         \/ ~Disturbed /\ router'.spent = router.spent /\ ~cfg.late
  <2>1. CASE Attentive'
    <3>1. Attentive
          BY <2>1, AttentiveKept
    <3>2. QED  BY <3>1 DEF AnswerInv, Attentive
  <2>2. CASE Quiet'
    <3>1. ~Disturbed /\ router.spent = 0 /\ router'.spent = 0 /\ ~cfg.late
          BY <2>2, DisturbedKept DEF Quiet
    <3>2. ~Surplus
          BY <2>2, SurplusKept DEF Quiet
    <3>3. QED  BY <3>1, <3>2 DEF AnswerInv, Quiet
  <2>3. QED  BY <1>1, <2>1, <2>2
<1>3. Devices' = Devices /\ cfg' = cfg
      BY StepKeeps, ConfigKept
<1>4. /\ \A d \in Devices : Fd(d) \/ (MarksFit(d) /\ router'.spent = router.spent /\ ~cfg.late)
      /\ Attentive \/ ~(Cancel \/ StrangerTalks)
      BY <1>2, DisturbancesSpend DEF MarksInv, Attentive, Adapters
<1>5. ASSUME router.pc \in {"idle", "flush"}, NEW d \in Devices
      PROVE  Drainable(d)
  <2>1. Adapters \/ Quiet
        BY <1>2 DEF Attentive, Quiet
  <2>2. QED  BY <1>5, <2>1, IdleDrainable
<1>6. CASE Starting
  <2>1. \A d \in Devices : Settled(d)'
    <3>1. \A d \in Devices : Drainable(d)
          BY <1>6, <1>5, StartsFresh DEF Fresh
    <3>2. QED  BY <1>2, <1>6, <3>1, StartSettles
  <2>2. router'.pc # "ask"
        BY <1>6, StartsFresh DEF Fresh
  <2>3. AnswersOwn'
    <3>1. \A i \in DOMAIN router'.responses : router'.responses[i] = {}
          BY <1>6, AllStart DEF StartsCall
    <3>2. DOMAIN router'.responses = 0..Len(router'.requests) /\ Len(router'.requests) \in Nat
      <4>1. RouterOK(router)'
            BY DEF TypesInv
      <4>2. QED  BY <4>1 DEF RouterOK
    <3>3. \A i \in 1..Len(router'.requests) : router'.responses[i] = {}
          BY <3>1, <3>2
    <3>4. QED  BY <3>3 DEF AnswersOwn
  <2>4. QED  BY <2>1, <2>2, <2>3 DEF Quieted
<1>7. CASE Resolve \/ Execute \/ Probing \/ Ending \/ Move \/ Lose \/ \E d \in Devices : Deliver(d)
  <2>1. AnswersOwn'
        BY <1>2, <1>7, ResponsesStay DEF AnswersOwn
  <2>2. CASE Resolve \/ Execute \/ StartProbe \/ ProbeEnd \/ DiscoverEnd \/ RunEnd \/ Move
    <3>1. \A d \in Devices : Settled(d)'
          BY <1>2, <2>2, RestSettles
    <3>2. router'.pc # "ask"
          BY <2>2, ResolveParts, ExecuteParts, StartProbeParts, ProbeEndParts, EndParts, MoveParts
    <3>3. QED  BY <2>1, <3>1, <3>2 DEF Quieted
  <2>3. CASE FlushAll
    <3>1. \A d \in Devices : Settled(d)' /\ Arrived(d)' = {}
      <4>1. \A d \in Devices : Drainable(d)
            BY <1>5, <2>3 DEF FlushAll
      <4>2. QED  BY <2>3, <4>1, FlushAllSettles
    <3>2. QED  BY <1>3, <2>1, <3>1 DEF Quieted
  <2>4. CASE AskInTurn \/ AskInParallel
    <3>1. router.pc = "ask" /\ router'.pc = "probe"
          BY <2>4, AskParts
    <3>2. \A d \in Devices : Settled(d)'
          BY <1>2, <2>4, <3>1, AskSettles DEF Quieted
    <3>3. QED  BY <2>1, <3>1, <3>2 DEF Quieted
  <2>5. CASE Cancel
    <3>1. \A d \in Devices : Settled(d)'
      <4>1. ProbesEnd
            BY <1>4, <2>5 DEF Attentive
      <4>2. QED  BY <1>2, <2>5, <4>1, CancelSettles
    <3>2. router'.pc # "ask"
          BY <2>5, CancelParts
    <3>3. QED  BY <2>1, <3>1, <3>2 DEF Quieted
  <2>6. CASE Lose \/ \E d \in Devices : Deliver(d)
    <3>1. \A d \in Devices : Settled(d)'
          BY <1>2, <2>6, LoseSettles, DeliverSettles
    <3>2. router'.pc = router.pc /\ \E d \in Devices : bus[d] # {}
          BY <2>6, LoseParts, DeliverParts DEF Unnoticed, Lose, Deliver
    <3>3. Quieted'
          BY <1>2, <3>2 DEF Quieted, Arrived
    <3>4. QED  BY <2>1, <3>1, <3>3
  <2>7. QED  BY <1>7, <2>2, <2>3, <2>4, <2>5, <2>6 DEF Probing, Ending
<1>8. CASE StrangerTalks
      BY <1>8, <1>4 DEF StrangerTalks, CanFault, Attentive
<1>9. ASSUME NEW d \in Devices, DeviceStep(d)
      PROVE  (\A e \in Devices : Settled(e)') /\ Quieted' /\ AnswersOwn'
  <2>1. Works(d)
        BY <1>9, DeviceWorks
  <2>2. AnswersOwn'
        BY <1>2, <2>1, WorksAnswers
  <2>3. router'.pc # "ask"
        BY <2>1 DEF Works, Running
  <2>4. MyTurn(d)
    <3>1. CASE Send(d)
          BY <3>1, ZenonT(40) DEF Send
    <3>2. CASE dev[d].pc # "idle"
          BY <3>2 DEF ControlInv
    <3>3. Send(d) \/ dev[d].pc # "idle"
          BY <1>9, ZenonT(60) DEF DeviceStep, WaitOk, OkFails, Complete, ReceiveTimeout
    <3>4. QED  BY <3>1, <3>2, <3>3
  <2>5. \A e \in Devices \ {d} : Settled(e)'
        BY <1>2, <2>1, <2>4, OthersSettled
  <2>6. Settled(d)'
    <3>1. Fd(d) \/ (MarksFit(d) /\ router'.spent = router.spent /\ ~cfg.late)
          BY <1>4
    <3>2. CASE Send(d)
      <4>1. dev[d].pc = "idle"
            BY <3>2, ZenonT(40) DEF Send
      <4>2. Fd(d) \/ (~Marked(d) /\ router'.spent = router.spent)
            BY <3>1, <4>1 DEF MarksFit, Marked
      <4>3. QED  BY <1>2, <3>2, <4>2, SendSettles
    <3>3. CASE OkFails(d)
          BY <3>1, <3>3, OkFailsSettles, OkFailsSpends
    <3>4. QED  BY <1>2, <1>9, <3>1, <3>2, <3>3, WaitOkSettles, CompleteSettles, TimeoutSettles
               DEF DeviceStep
  <2>7. QED  BY <2>2, <2>3, <2>5, <2>6 DEF Quieted
<1>10. CASE UNCHANGED vars
  <2>1. /\ cfg' = cfg /\ servers' = servers /\ router' = router /\ dev' = dev /\ bus' = bus /\ hist' = hist
        BY <1>10 DEF vars
  <2>2. \A d \in Devices : Settled(d)' /\ Arrived(d)' = Arrived(d)
        BY <1>2, <2>1, StillSettled DEF Arrived
  <2>3. Quieted' /\ AnswersOwn'
        BY <1>2, <1>3, <2>1, <2>2 DEF Quieted, AnswersOwn
  <2>4. QED  BY <2>2, <2>3
<1>11. QED  BY <1>6, <1>7, <1>8, <1>9, <1>10, AllActions

\* What is known of answers at every moment.
ReplyInv == RouteInv /\ CallInv /\ WhoInv /\ MarksInv /\ AnswerInv

LEMMA ReplyInvInit ==
    ASSUME Init
    PROVE  ReplyInv
<1>1. RouteInv
      BY RouteInvInit
<1>2. /\ servers = cfg.servers /\ router.requests = <<>> /\ router.op = "none" /\ router.routes = cfg.routes
      /\ router.pc = "idle" /\ dev = [d \in Devices |-> IdleDevice] /\ bus = [d \in Devices |-> {}]
      BY DEF Init
<1>3. CallInv /\ WhoInv
      BY <1>2 DEF CallInv, WhoInv
<1>4. ASSUME NEW d \in Devices
      PROVE  Settled(d)
  <2>1. dev[d] = IdleDevice /\ bus[d] = {}
        BY <1>2
  <2>2. dev[d].pc = "idle" /\ dev[d].rx = <<>>
        BY <2>1 DEF IdleDevice
  <2>3. Arrived(d) = {}
        BY <2>1, <2>2 DEF Arrived, Range
  <2>4. QED  BY <2>2, <2>3 DEF Settled
<1>5. Quieted /\ AnswersOwn
      BY <1>2 DEF Quieted, AnswersOwn
<1>6. MarksInv
  <2>1. \A d \in Devices : dev[d] = IdleDevice
        BY <1>2
  <2>2. QED  BY <2>1 DEF MarksInv, MarksFit, IdleDevice
<1>7. QED  BY <1>1, <1>3, <1>4, <1>5, <1>6 DEF ReplyInv, AnswerInv

LEMMA ReplyInvNext ==
    ASSUME ReplyInv, [Next]_vars
    PROVE  ReplyInv'
<1>1. RouteInv /\ CallInv /\ WhoInv /\ MarksInv /\ AnswerInv
      BY DEF ReplyInv
<1>2. RouteInv'
      BY <1>1, RouteInvNext
<1>3. TypesInv /\ ControlInv /\ WorkInv /\ SoughtInv /\ TypesInv'
      BY <1>1, <1>2 DEF RouteInv
<1>4. CallInv' /\ WhoInv' /\ MarksInv'
      BY <1>1, <1>3, CallNext, WhoNext, MarksNext
<1>5. AnswerInv'
      BY <1>1, <1>3, AnswerNext
<1>6. QED  BY <1>2, <1>4, <1>5 DEF ReplyInv

\* ResponsesAnswerTheirRequest: over adapters, what a cycle hands to its requests
\* are answers to them, whatever timeouts, errors, probes and dropped futures
\* came before, as long as nothing answers more often than is expected.
THEOREM ResponsesAreAnswers == Spec => []ResponsesAnswerTheirRequest
<1>1. Init => ReplyInv
      BY ReplyInvInit
<1>2. ReplyInv /\ [Next]_vars => ReplyInv'
      BY ReplyInvNext
<1>3. ReplyInv => ResponsesAnswerTheirRequest
  <2>1. SUFFICES ASSUME ReplyInv, Attentive
                 PROVE  \A i \in DOMAIN router.requests : \A r \in router.responses[i] :
                            r.frame.cause \in {router.n} \X DOMAIN router.requests
        BY DEF ResponsesAnswerTheirRequest
  <2>2. AnswersOwn
        BY <2>1 DEF ReplyInv, AnswerInv
  <2>3. DOMAIN router.requests = 1..Len(router.requests)
    <3>1. router.requests \in Seq(Requests(Len(cfg.devices)))
          BY <2>1, DevicesKept DEF ReplyInv, RouteInv, RouterOK
    <3>2. QED  BY <3>1
  <2>4. QED  BY <2>2, <2>3 DEF AnswersOwn
<1>4. QED  BY <1>1, <1>2, <1>3, PTL DEF Spec
=============================================================================
