----------------------- MODULE Router_discovery_proofs ----------------------
(***************************************************************************)
(* What discovery by the router promises while nothing is late, lost or    *)
(* disturbed, for every number and kind of devices, every set of           *)
(* controllers, requests and calls, and any number of operations before:   *)
(*                                                                         *)
(*   - an address that is reported nowhere belongs to no controller of the *)
(*     buses that are asked;                                               *)
(*   - discover() lists every controller once, each with an address that   *)
(*     reaches it and no other.                                            *)
(*                                                                         *)
(* A probe finds its devices drained (StillInv), so what is under way      *)
(* while it runs is what its answers are, and what it has taken is part of *)
(* them (HearsInv).  That devices between operations hold nothing for      *)
(* which they are not marked is the invariant of Router_proofs (ReplyInv). *)
(***************************************************************************)
EXTENDS Router_proofs

(***************************************************************************)
(* What a probe hears                                                      *)
(***************************************************************************)

\* Nothing has been disturbed, and what buses send is taken or drained.
Calm == ~Disturbed /\ (Adapters \/ ~Surplus)

LEMMA CalmKept ==
    ASSUME TypesInv, TypesInv', ControlInv, [Next]_vars, Calm'
    PROVE  /\ Calm /\ router'.spent = router.spent /\ router.spent = 0 /\ ~cfg.late
           /\ cfg' = cfg /\ Devices' = Devices /\ servers' = servers
           /\ ~(Cancel \/ StrangerTalks \/ Lose \/ Move) /\ \A d \in Devices : ~OkFails(d)
<1>1. ~Disturbed /\ router.spent = 0 /\ router'.spent = 0 /\ ~cfg.late
      BY DisturbedKept DEF Calm
<1>2. cfg' = cfg /\ Devices' = Devices /\ Adapters' = Adapters
      BY StepKeeps, ConfigKept
<1>3. ~Surplus' => ~Surplus
      BY SurplusKept
<1>4. ~(Cancel \/ StrangerTalks \/ Lose \/ Move) /\ \A d \in Devices : ~OkFails(d)
      BY <1>1, DisturbancesSpend, OkFailsSpends
<1>5. servers' = servers
      BY <1>4, StepKeeps
<1>6. QED  BY <1>1, <1>2, <1>3, <1>4, <1>5 DEF Calm

\* A probe finds its devices with nothing to drain.
StillInv ==
    (Calm /\ router.pc = "ask") => \A d \in Devices : Arrived(d) = {} /\ ~dev[d].flush

LEMMA StillNext ==
    ASSUME TypesInv, TypesInv', ControlInv, MarksInv, AnswerInv, StillInv, [Next]_vars
    PROVE  StillInv'
<1>1. SUFFICES ASSUME Calm', router'.pc = "ask", NEW d \in Devices
               PROVE  Arrived(d)' = {} /\ ~dev'[d].flush
  <2>1. Devices' = Devices
        BY StepKeeps, ConfigKept
  <2>2. QED  BY <1>1, <2>1 DEF StillInv
<1>2. Calm /\ ~(Cancel \/ StrangerTalks \/ Lose \/ Move) /\ cfg' = cfg
      BY <1>1, CalmKept
<1>3. CASE FlushAll
  <2>1. PICK ds : ds = (IF router.op = "discover" THEN ParentIndices ELSE Devices)
        OBVIOUS
  <2>2. Flushed(ds) /\ router.pc = "flush"
        BY <1>3, <2>1 DEF FlushAll
  <2>3. \A e \in Devices : Drainable(e)
        BY <1>2, <2>2, IdleDrainable DEF Calm, Quiet
  <2>4. Arrived(d)' = {}
        BY <1>3, <2>3, FlushAllSettles
  <2>5. MarksFit(d)
        BY <1>2 DEF Calm, MarksInv
  <2>6. d \notin ds => ~Fd(d)
        BY <2>1, ParentsDevices
  <2>7. ~dev'[d].flush
        BY <2>2, <2>5, <2>6, FlushedMarks DEF MarksFit
  <2>8. QED  BY <2>4, <2>7
<1>4. CASE \E e \in Devices : Deliver(e)
  <2>1. PICK e \in Devices : Deliver(e)
        BY <1>4
  <2>2. router' = router /\ bus[e] # {}
        BY <2>1 DEF Deliver
  <2>3. Arrived(e) = {}
        BY <1>1, <1>2, <2>2 DEF StillInv
  <2>4. QED  BY <2>2, <2>3 DEF Arrived
<1>5. CASE UNCHANGED vars
      BY <1>1, <1>2, <1>5 DEF vars, StillInv, Arrived
<1>6. ASSUME NEW e \in Devices, DeviceStep(e)
      PROVE  FALSE
      BY <1>1, <1>6, DeviceWorks DEF Works, Running
<1>7. ~(AskInTurn \/ AskInParallel \/ Resolve \/ Execute \/ StartProbe \/ ProbeEnd \/ DiscoverEnd \/ RunEnd)
      BY <1>1, AskParts, ResolveParts, ExecuteParts, StartProbeParts, ProbeEndParts, EndParts
<1>8. ~Starting
      BY <1>1, StartsFresh DEF Fresh
<1>9. QED  BY <1>2, <1>3, <1>4, <1>5, <1>6, <1>7, <1>8, AllActions DEF Probing, Ending

\* What answers a probe on device d, and what the probe has taken there.
Coming(d) == IF d \in BroadcastTargets THEN Answers(d, AskEntry) ELSE {}
Gotten(d) == {r.frame : r \in {r \in router.responses[0] : r.channel = d}}

\* The answers to a probe come once each, and are taken: all of them when the
\* query of the UUIDs runs to its timeout, else one at least.
Hears(d) ==
    IF router.work[d] # <<>>
    THEN /\ router.work[d] = Sole(ProbeItem) /\ Gotten(d) = {} /\ ~dev[d].flush
         /\ ~cfg.async => d \in BroadcastTargets
         /\ IF cfg.async \/ dev[d].pc # "idle"
            THEN Arrived(d) = Coming(d) /\ Cardinality(bus[d]) + Len(dev[d].rx) <= Cardinality(Coming(d))
            ELSE Arrived(d) = {}
    ELSE /\ Gotten(d) \subseteq Coming(d) /\ (Coming(d) # {} => Gotten(d) # {})
         /\ (router.op = "discover" /\ ~Crowded) => Gotten(d) = Coming(d)
HearsInv == (Calm /\ router.pc = "probe") => \A d \in Devices : Hears(d)

\* What comes in answer to a probe is what the probe waits for.
LEMMA ComingParts ==
    ASSUME TypesInv, router.op = "discover" \/ router.i <= Len(router.requests), NEW d \in Devices
    PROVE  /\ IsFiniteSet(Coming(d)) /\ Cardinality(Coming(d)) \in Nat
           /\ \A r \in Coming(d) : matches(ProbeItem.request, r) /\ r.source # Broadcast /\ r.to = Host
           /\ ProbeItem \in Entries /\ ProbeItem.req = 0
           /\ ProbeItem.request.expected = Probe.expected
           /\ Probe.expected = IF router.op = "discover" THEN 127 ELSE 1
<1>1. /\ Probe \in Requests(Len(cfg.devices)) /\ Probe.from = Probe.frame.dest /\ ~Probe.mine
      /\ Probe.expected = IF router.op = "discover" THEN 127 ELSE 1
  <2>1. CASE router.op = "discover"
        BY <2>1, ProbeType DEF Probe, UuidQuery, Request
  <2>2. CASE router.op # "discover"
    <3>1. PICK f : /\ f = [dest |-> LookupAddress(Sought).id,
                           mask |-> IF LookupAddress(Sought).id = Broadcast THEN LookupAddress(Sought).uuid ELSE <<>>,
                           asks |-> "mode"]
                   /\ Probe = Request(f)
          BY <2>2 DEF Probe
    <3>2. f.asks = "mode"
          BY <3>1
    <3>3. Probe.from = f.dest /\ Probe.frame = f /\ ~Probe.mine /\ Probe.expected = 1
          BY ONLY <3>1, <3>2 DEF Request
    <3>4. QED  BY <2>2, <3>3, ProbeType
  <2>3. QED  BY <2>1, <2>2
<1>2. AskEntry \in Entries /\ Entry(0, receive_only(Probe.expected), None) \in Entries
      BY ProbeType DEF AskEntry
<1>3. /\ AskEntry.req = 0 /\ AskEntry.request = Probe /\ AskEntry.child = None
      /\ Entry(0, receive_only(Probe.expected), None).req = 0
      /\ Entry(0, receive_only(Probe.expected), None).request = receive_only(Probe.expected)
      BY DEF AskEntry, Entry
<1>4. /\ receive_only(Probe.expected).expected = Probe.expected /\ ~receive_only(Probe.expected).mine
      /\ receive_only(Probe.expected).from = Broadcast
      BY DEF receive_only, Request, NoFrame
<1>5. IsFiniteSet(Coming(d)) /\ Cardinality(Coming(d)) \in Nat
  <2>1. CASE d \in BroadcastTargets
        BY <2>1, AnswersFewer DEF Coming
  <2>2. CASE d \notin BroadcastTargets
    <3>1. PICK A : A = Coming(d)
          OBVIOUS
    <3>2. A = {}
          BY <2>2, <3>1 DEF Coming
    <3>3. IsFiniteSet(A) /\ Cardinality(A) = 0
          BY ONLY <3>2, FS_EmptySet
    <3>4. QED  BY <3>1, <3>3
  <2>3. QED  BY <2>1, <2>2
<1>6. ASSUME NEW r \in Coming(d)
      PROVE  matches(ProbeItem.request, r) /\ r.source # Broadcast /\ r.to = Host
  <2>1. r \in Answers(d, AskEntry)
        BY <1>6 DEF Coming
  <2>2. /\ r.server \in DOMAIN servers /\ r.source = servers[r.server].id
        /\ Accepts(servers[r.server], Probe.frame)
        BY <1>3, <2>1, AnswersFrom
  <2>3. r.to = Host
        BY <2>1 DEF Answers
  <2>4. r.source # Broadcast
    <3>1. servers \in Seq(ServerInfos(Len(cfg.devices)))
          BY DevicesKept
    <3>2. servers[r.server] \in ServerInfos(Len(cfg.devices))
          BY <2>2, <3>1
    <3>3. servers[r.server].id \in 1..126
          BY <3>2 DEF ServerInfos
    <3>4. Broadcast \notin 1..126
          BY DEF Broadcast
    <3>5. QED  BY <2>2, <3>3, <3>4, Zenon
  <2>5. Probe.frame.dest \in {r.source, Broadcast}
        BY <2>2 DEF Accepts
  <2>6. CASE cfg.async
        BY <1>3, <1>4, <2>3, <2>4, <2>6 DEF matches, ProbeItem
  <2>7. CASE ~cfg.async
        BY <1>1, <1>3, <2>3, <2>4, <2>5, <2>7 DEF matches, ProbeItem
  <2>8. QED  BY <2>6, <2>7
<1>7. QED
  <2> HIDE DEF Coming
  <2> QED  BY <1>1, <1>2, <1>3, <1>4, <1>5, <1>6 DEF ProbeItem

\* A transaction of one entry.
LEMMA SoleTxn ==
    ASSUME NEW d, NEW e \in Entries, router.work[d] = Sole(e)
    PROVE  /\ Txn(d).entries = <<e>> /\ Expected(d) = e.request.expected
           /\ Tail(router.work[d]) = <<>> /\ router.work[d] # <<>>
           /\ AllFrames(d) = IF e.request.frame # NoFrame THEN {e} ELSE {}
<1>1. PICK t : t = [entries |-> <<e>>, bwr |-> TRUE, first |-> TRUE]
      OBVIOUS
<1>2. router.work[d] = <<t>> /\ t.entries = <<e>>
      BY <1>1 DEF Sole
<1>3. Txn(d) = t /\ Tail(router.work[d]) = <<>> /\ router.work[d] # <<>>
      BY <1>2 DEF Txn
<1>4. Expected(d) = e.request.expected
      BY <1>2, <1>3, TotalSole DEF Expected
<1>5. AllFrames(d) = IF e.request.frame # NoFrame THEN {e} ELSE {}
  <2>1. Len(<<e>>) = 1 /\ 1..1 = {1} /\ <<e>>[1] = e
        OBVIOUS
  <2>2. AllFrames(d) = {<<e>>[j] : j \in {j \in {1} : <<e>>[j].request.frame # NoFrame}}
        BY <1>2, <1>3, <2>1 DEF AllFrames, Frames
  <2>3. QED  BY <2>1, <2>2
<1>6. QED  BY <1>2, <1>3, <1>4, <1>5

\* What is asked, and what comes, stays while the probe goes on.
LEMMA ComingKept ==
    ASSUME SamePlan, NEW d
    PROVE  Coming(d)' = Coming(d) /\ ProbeItem' = ProbeItem /\ (Crowded' <=> Crowded)
<1>1. Probe' = Probe
      BY SoughtKept
<1>2. cfg' = cfg /\ servers' = servers /\ router'.n = router.n
      BY DEF SamePlan, SameCall
<1>3. AskEntry' = AskEntry /\ ProbeItem' = ProbeItem
      BY <1>1, <1>2 DEF AskEntry, ProbeItem, Entry, receive_only, Request, NoFrame
<1>4. BroadcastTargets' = BroadcastTargets
      BY <1>2, ConfigKept
<1>5. \A b, frame : Listeners(b, frame)' = Listeners(b, frame)
      BY <1>2 DEF Listeners, Accepts
<1>6. Answers(d, AskEntry)' = Answers(d, AskEntry)
  <2>1. PICK e : e = AskEntry
        OBVIOUS
  <2>2. BusOf(d, e)' = BusOf(d, e)
        BY DEF BusOf
  <2>3. Answers(d, e)' = Answers(d, e)
        BY <1>2, <1>5, <2>2 DEF Answers
  <2>4. QED  BY <1>3, <2>1, <2>3
<1>7. Crowded' <=> Crowded
      BY <1>2 DEF Crowded, UuidQuery, Request
<1>8. QED  BY <1>3, <1>4, <1>6, <1>7 DEF Coming

\* What a device takes is not what others have taken.
LEMMA GottenOthers ==
    ASSUME TypesInv, NEW d, NEW frames, router'.responses = Dispatched(d, frames), NEW e, e # d
    PROVE  Gotten(e)' = Gotten(e)
<1>1. 0 \in DOMAIN router.responses
  <2>1. DOMAIN router.responses = 0..Len(router.requests) /\ Len(router.requests) \in Nat
        BY DevicesKept DEF RouterOK
  <2>2. QED  BY <2>1
<1>2. PICK F : router'.responses[0] = router.responses[0] \cup {[frame |-> f, channel |-> d] : f \in F}
      BY <1>1 DEF Dispatched
<1>3. \A r \in {[frame |-> f, channel |-> d] : f \in F} : r.channel = d
      OBVIOUS
<1>4. {r \in router'.responses[0] : r.channel = e} = {r \in router.responses[0] : r.channel = e}
      BY <1>2, <1>3
<1>5. QED  BY <1>4 DEF Gotten

\* A device that ends its part of a probe takes what has come.
LEMMA ProbeTakes ==
    ASSUME TypesInv, router.op = "discover" \/ router.i <= Len(router.requests), NEW d \in Devices,
           router.work[d] = Sole(ProbeItem), NEW frames \in Seq(Reply), Range(frames) \subseteq Coming(d),
           router' = Answered(d, frames)
    PROVE  router'.work[d] = <<>> /\ Gotten(d)' = Gotten(d) \cup Range(frames)
<1>1. DOMAIN router = RouterFields /\ DOMAIN router.responses = 0..Len(router.requests)
      /\ Len(router.requests) \in Nat /\ router.work \in [Devices -> Seq(Txns)]
      BY DevicesKept DEF RouterOK
<1>2. PICK x, w : x = Dispatched(d, frames) /\ w = WorkLeft(d)
      OBVIOUS
<1>3. router' = [router EXCEPT !.responses = x, !.work = w]
      BY <1>1, <1>2 DEF Answered, WorkLeft, RouterFields
<1>4. router'.responses = x /\ router'.work = w
      BY ONLY <1>1, <1>3 DEF RouterFields
<1>5. PICK e \in Entries : e = ProbeItem
      BY ComingParts
<1>6. Txn(d).entries = <<e>> /\ Tail(router.work[d]) = <<>>
      BY <1>5, SoleTxn
<1>7. router'.work[d] = <<>>
      BY <1>1, <1>2, <1>4, <1>6 DEF WorkLeft
<1>8. x[0] = router.responses[0] \cup {[frame |-> f, channel |-> d] : f \in Range(frames)}
  <2>1. 0 \in DOMAIN router.responses
        BY <1>1
  <2>2. ASSUME NEW f \in Range(frames)
        PROVE  \E k \in FirstMatch(Txn(d).entries, f) : Txn(d).entries[k].req = 0
    <3>1. matches(e.request, f) /\ e.req = 0
          BY <1>5, ComingParts
    <3>2. DOMAIN <<e>> = {1} /\ <<e>>[1] = e /\ 1..(1 - 1) = {}
          OBVIOUS
    <3>3. 1 \in FirstMatch(<<e>>, f)
          BY <3>1, <3>2 DEF FirstMatch
    <3>4. QED  BY <1>6, <3>1, <3>2, <3>3
  <2>3. x[0] = router.responses[0] \cup
           {[frame |-> f, channel |-> d] : f \in {f \in Range(frames) :
               \E k \in FirstMatch(Txn(d).entries, f) : Txn(d).entries[k].req = 0}}
        BY <1>2, <2>1 DEF Dispatched
  <2>4. QED  BY <2>2, <2>3
<1>9. Gotten(d)' = Gotten(d) \cup Range(frames)
  <2>1. PICK T : T = {[frame |-> f, channel |-> d] : f \in Range(frames)}
        OBVIOUS
  <2>2. \A r \in T : r.channel = d /\ r.frame \in Range(frames)
        BY <2>1
  <2>3. ASSUME NEW f \in Range(frames)
        PROVE  \E r \in T : r.frame = f /\ r.channel = d
    <3>1. PICK r : r = [frame |-> f, channel |-> d]
          OBVIOUS
    <3>2. r \in T
          BY ONLY <2>1, <2>3, <3>1
    <3>3. r.frame = f /\ r.channel = d
          BY ONLY <3>1
    <3>4. QED  BY <3>2, <3>3
  <2>4. router'.responses[0] = router.responses[0] \cup T
        BY <1>4, <1>8, <2>1
  <2>5. QED  BY <2>2, <2>3, <2>4 DEF Gotten
<1>10. QED  BY <1>7, <1>9

\* A device that nothing touches hears what it did.
LEMMA HearsStays ==
    ASSUME NEW d, Hears(d), SamePlan, dev'[d] = dev[d], bus'[d] = bus[d],
           router'.work[d] = router.work[d], Gotten(d)' = Gotten(d)
    PROVE  Hears(d)'
<1>1. Coming(d)' = Coming(d) /\ ProbeItem' = ProbeItem /\ (Crowded' <=> Crowded)
      BY ComingKept
<1>2. cfg' = cfg /\ router'.op = router.op /\ BroadcastTargets' = BroadcastTargets
      BY ConfigKept DEF SamePlan, SameCall
<1>3. Arrived(d)' = Arrived(d)
      BY DEF Arrived
<1>4. Sole(ProbeItem)' = Sole(ProbeItem)
      BY <1>1 DEF Sole
<1>5. QED
  <2> HIDE DEF Coming, Gotten
  <2> QED  BY <1>1, <1>2, <1>3, <1>4 DEF Hears

\* A frame that reaches the device stays part of what comes.
LEMMA HearsDelivers ==
    ASSUME TypesInv, router.pc = "probe", NEW d \in Devices, Hears(d), Deliver(d)
    PROVE  Hears(d)'
<1>1. /\ cfg' = cfg /\ servers' = servers /\ router' = router /\ hist' = hist
      /\ dev'[d].pc = dev[d].pc /\ dev'[d].flush = dev[d].flush
      BY DeliverDevice
<1>2. PICK reply \in bus[d] : dev'[d].rx = Append(dev[d].rx, reply) /\ bus'[d] = bus[d] \ {reply}
      BY DeliverDevice
<1>3. SamePlan
  <2>1. router.spent \in Nat
        BY DevicesKept, ConfigParts DEF RouterOK
  <2>2. QED  BY <1>1, <2>1 DEF SamePlan, SameCall
<1>4. Coming(d)' = Coming(d) /\ ProbeItem' = ProbeItem /\ (Crowded' <=> Crowded)
      BY <1>3, ComingKept
<1>5. BroadcastTargets' = BroadcastTargets /\ Gotten(d)' = Gotten(d) /\ Sole(ProbeItem)' = Sole(ProbeItem)
      BY <1>1, <1>4, ConfigKept DEF Gotten, Sole
<1>6. bus[d] \subseteq Reply /\ dev[d].rx \in Seq(Reply)
      BY DevicesKept DEF DevicesOK, DeviceStates
<1>7. Arrived(d)' = Arrived(d)
  <2>1. Range(Append(dev[d].rx, reply)) = Range(dev[d].rx) \cup {reply}
        BY <1>6, RangeParts
  <2>2. QED  BY <1>2, <2>1 DEF Arrived
<1>8. ASSUME router.work[d] # <<>>, cfg.async \/ dev[d].pc # "idle"
      PROVE  Cardinality(bus'[d]) + Len(dev'[d].rx) <= Cardinality(Coming(d))
  <2>1. Arrived(d) = Coming(d) /\ Cardinality(bus[d]) + Len(dev[d].rx) <= Cardinality(Coming(d))
        BY <1>8 DEF Hears
  <2>2. IsFiniteSet(Coming(d)) /\ bus[d] \subseteq Coming(d)
    <3>1. router.op = "discover" \/ router.i <= Len(router.requests)
          BY DevicesKept DEF RouterOK
    <3>2. IsFiniteSet(Coming(d))
          BY <3>1, ComingParts
    <3>3. bus[d] \subseteq Arrived(d)
          BY DEF Arrived
    <3>4. QED  BY <2>1, <3>2, <3>3
  <2>3. PICK B, C : B = bus[d] /\ C = Coming(d)
        OBVIOUS
  <2>4. IsFiniteSet(B)
        BY ONLY <2>2, <2>3, FS_Subset
  <2>5. Cardinality(B \ {reply}) = Cardinality(B) - 1 /\ Cardinality(B) \in Nat
        BY <2>3, <2>4, FS_RemoveElement, FS_CardinalityType
  <2>6. Len(dev'[d].rx) = Len(dev[d].rx) + 1 /\ Len(dev[d].rx) \in Nat
        BY <1>2, <1>6, SequencesOfReplies
  <2>7. PICK k, m, c : k = Cardinality(bus[d]) /\ m = Len(dev[d].rx) /\ c = Cardinality(Coming(d))
        OBVIOUS
  <2>8. k \in Nat /\ m \in Nat /\ k + m <= c
        BY ONLY <2>1, <2>3, <2>5, <2>6, <2>7
  <2>9. Cardinality(bus'[d]) = k - 1 /\ Len(dev'[d].rx) = m + 1
        BY ONLY <1>2, <2>3, <2>5, <2>6, <2>7
  <2>10. (k - 1) + (m + 1) = k + m
         BY ONLY <2>8
  <2>11. QED  BY ONLY <2>7, <2>8, <2>9, <2>10
<1>9. ASSUME router.work[d] # <<>>
      PROVE  cfg.async \/ dev[d].pc # "idle"
  <2>1. Arrived(d) # {}
        BY <1>2 DEF Arrived
  <2>2. QED  BY <1>9, <2>1 DEF Hears
<1>10. QED
  <2> HIDE DEF Coming, Gotten, Arrived
  <2> QED  BY <1>1, <1>4, <1>5, <1>7, <1>8, <1>9 DEF Hears

\* A device that has sent a probe hears what the controllers of its bus answer.
LEMMA HearsSends ==
    ASSUME TypesInv, ControlInv, Calm, MarksInv, router.pc = "probe", NEW d \in Devices, Hears(d),
           Send(d), router'.spent = router.spent, SamePlan
    PROVE  Hears(d)'
<1>1. router' = router /\ router.work[d] # <<>> /\ dev[d].pc = "idle" /\ dev'[d].pc # "idle"
      BY SendsOut
<1>2. ~dev[d].flush /\ ~dev[d].recover
      BY <1>1 DEF Hears, Calm, MarksInv, MarksFit
<1>3. ~dev'[d].flush /\ dev'[d].rx = dev[d].rx /\ bus'[d] = bus[d] \cup AnswersTo(d, AllFrames(d))
      BY <1>2, SendsOut DEF Marked
<1>4. Coming(d)' = Coming(d) /\ ProbeItem' = ProbeItem /\ (Crowded' <=> Crowded)
      BY ComingKept
<1>5. cfg' = cfg /\ BroadcastTargets' = BroadcastTargets /\ Gotten(d)' = Gotten(d) /\ Sole(ProbeItem)' = Sole(ProbeItem)
      BY <1>1, <1>4, ConfigKept DEF Gotten, Sole, SamePlan, SameCall
<1>6. router.op = "discover" \/ router.i <= Len(router.requests)
      BY DevicesKept DEF RouterOK
<1>7. PICK e \in Entries : e = ProbeItem
      BY <1>6, ComingParts
<1>8. AllFrames(d) = IF e.request.frame # NoFrame THEN {e} ELSE {}
      BY <1>1, <1>7, SoleTxn DEF Hears
<1>9. router.work[d] = Sole(ProbeItem) /\ (~cfg.async => d \in BroadcastTargets)
      BY <1>1 DEF Hears
<1>10. Arrived(d)' = Coming(d) /\ Cardinality(bus'[d]) + Len(dev'[d].rx) <= Cardinality(Coming(d))
  <2>1. CASE cfg.async
    <3>1. e.request.frame = NoFrame
          BY <1>7, <2>1 DEF ProbeItem, Entry, receive_only, Request
    <3>2. AnswersTo(d, AllFrames(d)) = {}
          BY <1>8, <3>1 DEF AnswersTo
    <3>3. bus'[d] = bus[d] /\ dev'[d].rx = dev[d].rx
          BY <1>3, <3>2
    <3>4. Arrived(d)' = Arrived(d)
          BY <3>3 DEF Arrived
    <3>5. QED
      <4> HIDE DEF Coming
      <4> QED  BY <1>1, <2>1, <3>3, <3>4 DEF Hears
  <2>2. CASE ~cfg.async
    <3>1. Arrived(d) = {} /\ d \in BroadcastTargets
          BY <1>1, <2>2 DEF Hears
    <3>2. bus[d] = {} /\ dev[d].rx = <<>>
          BY <3>1, NothingArrived
    <3>3. e = AskEntry
          BY <1>7, <2>2 DEF ProbeItem
    <3>4. AskEntry.request.frame # NoFrame
      <4>1. Probe.frame.asks # "nothing"
        <5>1. CASE router.op = "discover"
              BY <5>1 DEF Probe, UuidQuery, Request
        <5>2. CASE router.op # "discover"
              BY <5>2 DEF Probe, Request
        <5>3. QED  BY <5>1, <5>2
      <4>2. AskEntry.request = Probe
            BY DEF AskEntry, Entry
      <4>3. QED  BY <4>1, <4>2 DEF NoFrame
    <3>5. AllFrames(d) = {AskEntry}
          BY <1>8, <3>3, <3>4
    <3>6. AnswersTo(d, {AskEntry}) = Coming(d)
          BY <3>1 DEF AnswersTo, Coming
    <3>7. bus'[d] = Coming(d) /\ dev'[d].rx = <<>>
          BY <1>3, <3>2, <3>5, <3>6
    <3>8. Range(<<>>) = {} /\ Len(<<>>) = 0
          BY DEF Range
    <3>9. Arrived(d)' = Coming(d)
          BY <3>7, <3>8 DEF Arrived
    <3>10. Cardinality(Coming(d)) \in Nat
          BY <1>6, ComingParts
    <3>11. QED  BY <3>7, <3>8, <3>9, <3>10
  <2>3. QED  BY <2>1, <2>2
<1>11. QED
  <2> HIDE DEF Coming, Gotten, Arrived
  <2> QED  BY <1>1, <1>3, <1>4, <1>5, <1>9, <1>10 DEF Hears

\* A device whose frames are all confirmed goes on to receive.
LEMMA HearsWaits ==
    ASSUME TypesInv, ControlInv, router.pc = "probe", NEW d \in Devices, Hears(d), WaitOk(d)
    PROVE  Hears(d)'
<1>1. SamePlan /\ router' = router
      BY WaitOkParts DEF Works, WaitOk
<1>2. PICK k : dev' = [dev EXCEPT ![d].pc = "receive", ![d].pending = k]
      BY DEF WaitOk
<1>3. dev[d].pc = "ok" /\ dev \in [Devices -> DeviceStates] /\ bus' = bus
      BY DevicesKept DEF WaitOk, DevicesOK
<1>4. dev'[d].pc = "receive" /\ dev'[d].rx = dev[d].rx /\ dev'[d].flush = dev[d].flush
      BY ONLY <1>2, <1>3 DEF DeviceStates
<1>5. Coming(d)' = Coming(d) /\ ProbeItem' = ProbeItem /\ (Crowded' <=> Crowded)
      BY <1>1, ComingKept
<1>6. cfg' = cfg /\ BroadcastTargets' = BroadcastTargets /\ Gotten(d)' = Gotten(d) /\ Sole(ProbeItem)' = Sole(ProbeItem)
      BY <1>1, <1>5, ConfigKept DEF Gotten, Sole, SamePlan, SameCall
<1>7. Arrived(d)' = Arrived(d)
      BY <1>3, <1>4 DEF Arrived
<1>8. QED
  <2> HIDE DEF Coming, Gotten, Arrived
  <2> QED  BY <1>1, <1>3, <1>4, <1>5, <1>6, <1>7 DEF Hears

\* More than come to a bus are awaited by the query of the UUIDs, so that it
\* runs until nothing more comes.
LEMMA QueryWaits ==
    ASSUME TypesInv, CallInv, WhoInv, router.op = "discover", ~Crowded, NEW d \in Devices
    PROVE  Cardinality(Coming(d)) <= 127
<1>1. "discover" \in cfg.ops /\ Len(cfg.servers) \in Nat
      BY DevicesKept, ConfigParts DEF CallInv
<1>2. UuidQuery.expected = 127
      BY DEF UuidQuery, Request
<1>3. Len(cfg.servers) <= 127
      BY <1>1, <1>2 DEF Crowded
<1>4. PICK L : L = Listeners(BusOf(d, AskEntry), AskEntry.request.frame)
      OBVIOUS
<1>5. Cardinality(Answers(d, AskEntry)) <= Cardinality(L) /\ Cardinality(L) \in Nat
      /\ Cardinality(Answers(d, AskEntry)) \in Nat
      BY <1>4, AnswersFewer, ReachedFinite
<1>6. L \subseteq 1..Len(cfg.servers)
  <2>1. L \subseteq DOMAIN servers /\ DOMAIN servers = DOMAIN cfg.servers
        BY <1>4 DEF WhoInv, Listeners
  <2>2. cfg.servers \in Seq(ServerInfos(Len(cfg.devices)))
        BY DevicesKept, ConfigParts
  <2>3. DOMAIN cfg.servers = 1..Len(cfg.servers)
        BY <2>2
  <2>4. QED  BY <2>1, <2>3
<1>7. Cardinality(L) <= Len(cfg.servers)
  <2>1. PICK n \in Nat : n = Len(cfg.servers)
        BY <1>1
  <2>2. PICK N : N = 1..n
        OBVIOUS
  <2>3. IsFiniteSet(N) /\ Cardinality(N) = n
        BY <2>2, FS_Interval
  <2>4. L \subseteq N
        BY ONLY <1>6, <2>1, <2>2
  <2>5. Cardinality(L) <= Cardinality(N)
        BY ONLY <2>3, <2>4, FS_Subset
  <2>6. QED  BY <2>1, <2>3, <2>5
<1>8. CASE d \in BroadcastTargets
      BY <1>1, <1>3, <1>5, <1>7, <1>8 DEF Coming
<1>9. CASE d \notin BroadcastTargets
  <2>1. PICK A : A = Coming(d)
        OBVIOUS
  <2>2. A = {}
        BY <1>9, <2>1 DEF Coming
  <2>3. Cardinality(A) = 0
        BY ONLY <2>2, FS_EmptySet
  <2>4. QED  BY <2>1, <2>3
<1>10. QED  BY <1>8, <1>9

\* A device that ends its part of a probe has heard enough.
LEMMA HearsTakes ==
    ASSUME TypesInv, SamePlan, router.pc = "probe", NEW d \in Devices, Hears(d), router.work[d] # <<>>,
           NEW frames \in Seq(Reply), Range(frames) \subseteq Coming(d), router' = Answered(d, frames),
           Coming(d) # {} => Range(frames) # {},
           router.op = "discover" /\ ~Crowded => Range(frames) = Coming(d)
    PROVE  Hears(d)'
<1>1. router.work[d] = Sole(ProbeItem) /\ Gotten(d) = {}
      BY DEF Hears
<1>2. router.op = "discover" \/ router.i <= Len(router.requests)
      BY DevicesKept DEF RouterOK
<1>3. router'.work[d] = <<>> /\ Gotten(d)' = Range(frames)
  <2> HIDE DEF Coming, Gotten
  <2> QED  BY <1>1, <1>2, ProbeTakes
<1>4. Coming(d)' = Coming(d) /\ (Crowded' <=> Crowded)
      BY ComingKept
<1>5. router'.op = router.op
      BY DEF SamePlan, SameCall
<1>6. QED
  <2> HIDE DEF Coming, Gotten, Crowded
  <2> QED  BY <1>3, <1>4, <1>5 DEF Hears

LEMMA HearsTimesOut ==
    ASSUME TypesInv, ControlInv, Calm, router.pc = "probe", NEW d \in Devices, Hears(d), ReceiveTimeout(d)
    PROVE  Hears(d)'
<1>1. SamePlan /\ router.work[d] # <<>>
      BY TimeoutParts DEF Works
<1>2. bus[d] = {} /\ dev[d].pc = "receive" /\ router' = Answered(d, dev[d].rx)
      BY DEF ReceiveTimeout, Calm, Disturbed
<1>3. dev[d].rx \in Seq(Reply)
      BY DevicesKept DEF DevicesOK, DeviceStates
<1>4. Arrived(d) = Coming(d)
      BY <1>1, <1>2 DEF Hears
<1>5. Range(dev[d].rx) = Coming(d)
      BY <1>2, <1>4 DEF Arrived
<1>6. QED
  <2> HIDE DEF Coming, Crowded
  <2> QED  BY <1>1, <1>2, <1>3, <1>5, HearsTakes

LEMMA HearsCompletes ==
    ASSUME TypesInv, ControlInv, CallInv, WhoInv, router.pc = "probe", NEW d \in Devices, Hears(d), Complete(d)
    PROVE  Hears(d)'
<1>1. SamePlan /\ router.work[d] # <<>>
      BY CompleteParts DEF Works
<1>2. PICK rx : rx = dev[d].rx
      OBVIOUS
<1>3. rx \in Seq(Reply) /\ Len(rx) \in Nat
      BY <1>2, DevicesKept DEF DevicesOK, DeviceStates
<1>4. dev[d].pc = "receive"
      BY CompleteDevice
<1>5. PICK n \in 0..Len(rx) : /\ n >= Expected(d) /\ (Expected(d) > 0 => n > 0)
                              /\ router' = Answered(d, SubSeq(rx, 1, n))
      BY <1>2, CompleteDevice
<1>6. router.op = "discover" \/ router.i <= Len(router.requests)
      BY DevicesKept DEF RouterOK
<1>7. PICK e \in Entries : e = ProbeItem
      BY <1>6, ComingParts
<1>8. Expected(d) = IF router.op = "discover" THEN 127 ELSE 1
  <2>1. router.work[d] = Sole(e)
        BY <1>1, <1>7 DEF Hears
  <2>2. Expected(d) = e.request.expected
        BY <2>1, SoleTxn
  <2>3. QED  BY <1>6, <1>7, <2>2, ComingParts
<1>9. /\ Arrived(d) = Coming(d) /\ Cardinality(bus[d]) + Len(rx) <= Cardinality(Coming(d))
      BY <1>1, <1>2, <1>4 DEF Hears
<1>10. PICK f : f = SubSeq(rx, 1, n)
       OBVIOUS
<1>11. f \in Seq(Reply) /\ Len(f) = n /\ Range(f) \subseteq Range(rx)
       BY <1>3, <1>10, SequencesOfReplies, RangeParts
<1>12. Range(f) \subseteq Coming(d)
       BY <1>2, <1>9, <1>11 DEF Arrived
<1>13. Range(f) # {}
  <2>1. n > 0 /\ n \in Nat
        BY <1>5, <1>8
  <2>2. 1 \in DOMAIN f
        BY <1>11, <2>1
  <2>3. QED  BY <2>2 DEF Range
<1>14. ASSUME router.op = "discover", ~Crowded
       PROVE  Range(f) = Coming(d)
  <2>1. n >= 127 /\ n <= Len(rx)
        BY <1>3, <1>5, <1>8, <1>14
  <2>2. Cardinality(Coming(d)) <= 127 /\ Cardinality(Coming(d)) \in Nat
        BY <1>6, <1>14, QueryWaits, ComingParts
  <2>3. PICK B, C : B = bus[d] /\ C = Coming(d)
        OBVIOUS
  <2>4. IsFiniteSet(B)
    <3>1. IsFiniteSet(C)
          BY <1>6, <2>3, ComingParts
    <3>2. B \subseteq C
          BY <1>9, <2>3 DEF Arrived
    <3>3. QED  BY ONLY <3>1, <3>2, FS_Subset
  <2>5. Cardinality(B) \in Nat
        BY ONLY <2>4, FS_CardinalityType
  <2>6. Cardinality(B) = 0 /\ n = Len(rx)
    <3>1. PICK b, c, l : b = Cardinality(B) /\ c = Cardinality(Coming(d)) /\ l = Len(rx)
          OBVIOUS
    <3>2. b \in Nat /\ c \in Nat /\ l \in Nat /\ n \in Nat /\ b + l <= c /\ c <= 127 /\ n >= 127 /\ n <= l
          BY ONLY <1>3, <1>5, <1>9, <2>1, <2>2, <2>3, <2>5, <3>1
    <3>3. b = 0 /\ n = l
          BY ONLY <3>2
    <3>4. QED  BY ONLY <3>1, <3>3
  <2>7. B = {}
        BY ONLY <2>4, <2>6, FS_EmptySet
  <2>8. f = rx
        BY ONLY <1>3, <1>10, <2>6
  <2>9. QED  BY <1>2, <1>9, <2>3, <2>7, <2>8 DEF Arrived
<1>15. QED
  <2> HIDE DEF Coming, Crowded
  <2> QED  BY <1>1, <1>5, <1>10, <1>11, <1>12, <1>13, <1>14, HearsTakes

\* A probe is asked of devices that hold nothing.
LEMMA HearsAsks ==
    ASSUME TypesInv, ControlInv, Calm, StillInv, AskInTurn \/ AskInParallel, NEW d \in Devices
    PROVE  Hears(d)'
<1>1. SamePlan /\ router.pc = "ask" /\ router'.responses[0] = {}
      BY AskParts
<1>2. Arrived(d) = {} /\ ~dev[d].flush
      BY <1>1 DEF StillInv
<1>3. /\ dev'[d].pc = dev[d].pc /\ ~dev'[d].flush /\ dev'[d].rx = <<>> /\ bus'[d] = AskAnswers(d)
      /\ router'.work[d] = IF (cfg.async /\ HasBus(d)) \/ (~cfg.async /\ d \in BroadcastTargets)
                           THEN Sole(ProbeItem) ELSE <<>>
      BY <1>2, AskDevices
<1>4. dev[d].pc = "idle"
      BY <1>1 DEF ControlInv, Running
<1>5. Coming(d)' = Coming(d) /\ ProbeItem' = ProbeItem
      BY <1>1, ComingKept
<1>6. cfg' = cfg /\ BroadcastTargets' = BroadcastTargets /\ Sole(ProbeItem)' = Sole(ProbeItem)
      BY <1>1, <1>5, ConfigKept DEF Sole, SamePlan, SameCall
<1>7. Gotten(d)' = {}
      BY <1>1 DEF Gotten
<1>8. Range(<<>>) = {} /\ Len(<<>>) = 0
      BY DEF Range
<1>9. Arrived(d)' = AskAnswers(d)
      BY <1>3, <1>8 DEF Arrived
<1>10. AskAnswers(d) = IF cfg.async THEN Coming(d) ELSE {}
       BY DEF AskAnswers, Coming
<1>11. CASE router'.work[d] # <<>>
  <2>1. router'.work[d] = Sole(ProbeItem) /\ (~cfg.async => d \in BroadcastTargets)
        BY <1>3, <1>11
  <2>2. CASE cfg.async
    <3>1. router.op = "discover" \/ router.i <= Len(router.requests)
          BY <1>1, DevicesKept DEF RouterOK
    <3>2. Cardinality(Coming(d)) \in Nat
          BY <3>1, ComingParts
    <3>3. Cardinality(bus'[d]) + Len(dev'[d].rx) <= Cardinality(Coming(d))
          BY <1>3, <1>8, <1>10, <2>2, <3>2
    <3>4. QED
      <4> HIDE DEF Coming, Gotten, Arrived, AskAnswers
      <4> QED  BY <1>3, <1>5, <1>6, <1>7, <1>9, <1>10, <1>11, <2>1, <2>2, <3>3 DEF Hears
  <2>3. CASE ~cfg.async
    <3> HIDE DEF Coming, Gotten, Arrived, AskAnswers
    <3> QED  BY <1>3, <1>4, <1>5, <1>6, <1>7, <1>9, <1>10, <1>11, <2>1, <2>3 DEF Hears
  <2>4. QED  BY <2>2, <2>3
<1>12. CASE router'.work[d] = <<>>
  <2>1. Sole(ProbeItem) # <<>>
        BY DEF Sole
  <2>2. d \notin BroadcastTargets
        BY <1>3, <1>12, <2>1 DEF BroadcastTargets
  <2>3. Coming(d)' = {}
        BY <1>5, <2>2 DEF Coming
  <2>4. QED
    <3> HIDE DEF Coming, Gotten
    <3> QED  BY <1>7, <1>12, <2>3 DEF Hears
<1>13. QED  BY <1>11, <1>12

LEMMA HearsNext ==
    ASSUME TypesInv, TypesInv', ControlInv, CallInv, WhoInv, MarksInv, StillInv, HearsInv, [Next]_vars
    PROVE  HearsInv'
<1>1. SUFFICES ASSUME Calm', router'.pc = "probe", NEW d \in Devices
               PROVE  Hears(d)'
  <2>1. Devices' = Devices
        BY StepKeeps, ConfigKept
  <2>2. QED  BY <1>1, <2>1 DEF HearsInv
<1>2. /\ Calm /\ router'.spent = router.spent /\ cfg' = cfg /\ servers' = servers
      /\ ~(Cancel \/ StrangerTalks \/ Lose \/ Move) /\ \A e \in Devices : ~OkFails(e)
      BY <1>1, CalmKept
<1>3. router.pc = "probe" => Hears(d)
      BY <1>2 DEF HearsInv
<1>4. CASE AskInTurn \/ AskInParallel
      BY <1>2, <1>4, HearsAsks
<1>5. CASE \E e \in Devices : Deliver(e)
  <2>1. PICK e \in Devices : Deliver(e)
        BY <1>5
  <2>2. /\ cfg' = cfg /\ servers' = servers /\ router' = router /\ hist' = hist
        /\ \A a \in Devices \ {e} : dev'[a] = dev[a] /\ bus'[a] = bus[a]
        BY <2>1, DeliverDevice
  <2>3. SamePlan
    <3>1. router.spent \in Nat
          BY DevicesKept, ConfigParts DEF RouterOK
    <3>2. QED  BY <2>2, <3>1 DEF SamePlan, SameCall
  <2>4. CASE e = d
        BY <1>1, <1>3, <2>1, <2>2, <2>4, HearsDelivers
  <2>5. CASE e # d
    <3>1. Gotten(d)' = Gotten(d)
          BY <2>2 DEF Gotten
    <3>2. QED  BY <1>1, <1>3, <2>2, <2>3, <2>5, <3>1, HearsStays
  <2>6. QED  BY <2>4, <2>5
<1>6. CASE UNCHANGED vars
  <2>1. router' = router /\ cfg' = cfg /\ servers' = servers /\ hist' = hist /\ dev' = dev /\ bus' = bus
        BY <1>6 DEF vars
  <2>2. SamePlan
    <3>1. router.spent \in Nat
          BY DevicesKept, ConfigParts DEF RouterOK
    <3>2. QED  BY <2>1, <3>1 DEF SamePlan, SameCall
  <2>3. Gotten(d)' = Gotten(d)
        BY <2>1 DEF Gotten
  <2>4. QED  BY <1>1, <1>3, <2>1, <2>2, <2>3, HearsStays
<1>7. ASSUME NEW e \in Devices, DeviceStep(e)
      PROVE  Hears(d)'
  <2>1. Works(e)
        BY <1>7, DeviceWorks
  <2>2. SamePlan /\ router.pc = "probe" /\ Hears(d)
        BY <1>1, <1>3, <2>1 DEF Works
  <2>3. CASE e = d
    <3>1. CASE Send(d)
          BY <1>2, <2>2, <3>1, HearsSends
    <3>2. CASE WaitOk(d)
          BY <2>2, <3>2, HearsWaits
    <3>3. CASE Complete(d)
          BY <2>2, <3>3, HearsCompletes
    <3>4. CASE ReceiveTimeout(d)
          BY <1>2, <2>2, <3>4, HearsTimesOut
    <3>5. QED  BY <1>2, <1>7, <2>3, <3>1, <3>2, <3>3, <3>4 DEF DeviceStep
  <2>4. CASE e # d
    <3>1. dev'[d] = dev[d] /\ bus'[d] = bus[d] /\ router.work[e] # <<>>
          BY <2>1, <2>4 DEF Works
    <3>2. router'.work[d] = router.work[d] /\ Gotten(d)' = Gotten(d)
      <4>1. CASE router' = router
            BY <4>1 DEF Gotten
      <4>2. CASE Finishes(e)
        <5>1. PICK frames : router'.responses = Dispatched(e, frames)
              BY <4>2 DEF Finishes
        <5>2. Gotten(d)' = Gotten(d)
              BY <2>4, <5>1, GottenOthers
        <5>3. router'.work = WorkLeft(e)
              BY <4>2 DEF Finishes
        <5>4. WorkLeft(e)[d] = router.work[d]
              BY <2>4, <3>1, WorkLeftParts
        <5>5. QED  BY <5>2, <5>3, <5>4
      <4>3. ~GivesUp(e)
        <5>1. router.spent \in Nat
              BY DevicesKept, ConfigParts DEF RouterOK
        <5>2. QED  BY <1>2, <5>1 DEF GivesUp
      <4>4. QED  BY <2>1, <4>1, <4>2, <4>3 DEF Works
    <3>3. QED  BY <2>2, <3>1, <3>2, HearsStays
  <2>5. QED  BY <2>3, <2>4
<1>8. ~(Resolve \/ Execute \/ StartProbe \/ FlushAll \/ ProbeEnd \/ DiscoverEnd \/ RunEnd)
      BY <1>1, ResolveParts, ExecuteParts, StartProbeParts, FlushAllParts, ProbeEndParts, EndParts
<1>9. ~Starting
      BY <1>1, StartsFresh DEF Fresh
<1>10. QED  BY <1>2, <1>4, <1>5, <1>6, <1>7, <1>8, <1>9, AllActions DEF Probing, Ending

\* discover() starts by flushing; the controllers stay where they were.
ListingInv == router.op = "discover" => router.pc \notin {"resolve", "run"}
StaysInv == router.spent = 0 => servers = cfg.servers

LEMMA ListingNext ==
    ASSUME TypesInv, ControlInv, ListingInv, [Next]_vars
    PROVE  ListingInv'
<1>1. SUFFICES ASSUME router'.op = "discover"
               PROVE  router'.pc \notin {"resolve", "run"}
      BY DEF ListingInv
<1>2. CASE Starting
      BY <1>1, <1>2, AllStart DEF StartsCall
<1>3. CASE Unnoticed \/ \E d \in Devices : Works(d)
      BY <1>1, <1>3 DEF Unnoticed, Works, SamePlan, SameCall, ListingInv
<1>4. CASE Resolve \/ Execute \/ Probing
  <2>1. SameCall
        BY <1>4, ResolveParts, PlanGoesOn DEF SamePlan
  <2>2. router.op = "discover" /\ router.pc # "resolve"
        BY <1>1, <2>1 DEF SameCall, ListingInv
  <2>3. QED  BY <1>4, <2>2, ResolveParts, ExecuteParts, StartProbeParts, FlushAllParts, AskParts, ProbeEndParts
             DEF Probing
<1>5. CASE Ending \/ Move
      BY <1>5, EndParts, CancelParts, MoveParts DEF Ending
<1>6. QED  BY <1>2, <1>3, <1>4, <1>5, AllSteps

LEMMA StaysNext ==
    ASSUME TypesInv, TypesInv', ControlInv, StaysInv, [Next]_vars
    PROVE  StaysInv'
<1>1. SUFFICES ASSUME router'.spent = 0
               PROVE  servers' = cfg'.servers
      BY DEF StaysInv
<1>2. router.spent \in Nat
      BY DevicesKept, ConfigParts DEF RouterOK
<1>3. router.spent = 0
  <2>1. CASE Starting
        BY <1>1, <2>1, AllStart DEF StartsCall
  <2>2. CASE SameCall
        BY <1>1, <1>2, <2>2 DEF SameCall
  <2>3. QED  BY <2>1, <2>2, RoutesGrow
<1>4. ~Move
      BY <1>1, <1>3, DisturbancesSpend
<1>5. QED  BY <1>3, <1>4, StepKeeps DEF StaysInv

(***************************************************************************)
(* What discovery finds                                                    *)
(***************************************************************************)

\* A controller of a bus that is asked, and accepts the probe, answers it.
LEMMA AskedAnswers ==
    ASSUME NEW d \in BroadcastTargets, NEW s \in DOMAIN servers, servers[s].bus = d,
           Accepts(servers[s], Probe.frame)
    PROVE  \E f \in Coming(d) : f.server = s
<1>1. AskEntry.request = Probe /\ AskEntry.child = None
      BY DEF AskEntry, Entry
<1>2. Probe.frame.asks # "nothing"
  <2>1. CASE router.op = "discover"
        BY <2>1 DEF Probe, UuidQuery, Request
  <2>2. CASE router.op # "discover"
        BY <2>2 DEF Probe, Request
  <2>3. QED  BY <2>1, <2>2
<1>3. BusOf(d, AskEntry) = d
      BY <1>1 DEF BusOf
<1>4. s \in Listeners(d, Probe.frame)
      BY DEF Listeners
<1>5. PICK e : e = AskEntry
      OBVIOUS
<1>6. PICK f : f = [server |-> s, source |-> servers[s].id, to |-> Host,
                    uuid |-> IF e.request.frame.asks = "uuid" THEN servers[s].uuid ELSE <<>>,
                    cause |-> <<router.n, e.req>>]
      OBVIOUS
<1>7. s \in Listeners(BusOf(d, e), e.request.frame) /\ e.request.frame.asks # "nothing"
      BY <1>1, <1>2, <1>3, <1>4, <1>5
<1>8. f \in Answers(d, e)
  <2> HIDE DEF Listeners, BusOf
  <2> QED  BY ONLY <1>6, <1>7 DEF Answers
<1>9. f \in Coming(d) /\ f.server = s
      BY <1>5, <1>6, <1>8 DEF Coming
<1>10. QED  BY <1>9

\* Who has answered a probe, and an operation that found no one.
Heard == {r.channel : r \in {r \in router.responses[0] : r.frame.source # Broadcast}}
Nobody == router.result = "not found"

LEMMA NobodyHeard ==
    ASSUME TypesInv, QuietInv, ProbeEnd, Nobody'
    PROVE  Heard = {}
<1> DEFINE failure == IF Heard = {} THEN "not found" ELSE "ambiguous"
<1>1. /\ router.pc = "probe"
      /\ \/ \E p, t : router' = [router EXCEPT !.pc = p, !.routes = t]
         \/ router' = [router EXCEPT !.pc = "idle", !.result = failure]
      BY ZenonT(60) DEF ProbeEnd, Heard
<1>2. DOMAIN router = RouterFields
      BY DevicesKept DEF RouterOK
<1>3. router.result = "none"
      BY <1>1, Zenon DEF QuietInv
<1>4. CASE \E p, t : router' = [router EXCEPT !.pc = p, !.routes = t]
  <2>1. router'.result = "none"
        BY ONLY <1>2, <1>3, <1>4 DEF RouterFields
  <2>2. QED  BY ONLY <2>1, Nobody', Zenon DEF Nobody
<1>5. CASE router' = [router EXCEPT !.pc = "idle", !.result = failure]
  <2> HIDE DEF failure
  <2>1. router'.result = failure
        BY ONLY <1>2, <1>5 DEF RouterFields
  <2>2. QED  BY ONLY <2>1, Nobody', Zenon DEF Nobody, failure
<1>6. QED  BY <1>1, <1>4, <1>5, Zenon

\* A probe that nobody answers says that nobody has the address.
LEMMA SilenceMeansNobody ==
    ASSUME TypesInv, QuietInv, SoughtInv, HearsInv, Calm, ProbeEnd, Nobody'
    PROVE  Wanted([Sought EXCEPT !.frame = Probe.frame])' = {}
<1>1. Heard = {}
      BY NobodyHeard
<1>2. SamePlan /\ router.pc = "probe" /\ router.op # "discover" /\ AllDone
      BY ProbeEndParts DEF ProbeEnd
<1>3. router.i \in 1..Len(router.requests) /\ Unknown(Sought)
      BY <1>2, DevicesKept DEF RouterOK, SoughtInv, Seeking
<1>4. ASSUME NEW d \in Devices
      PROVE  Coming(d) = {}
  <2>1. Gotten(d) \subseteq Coming(d) /\ (Coming(d) # {} => Gotten(d) # {})
        BY <1>2 DEF AllDone, HearsInv, Hears
  <2>2. \A f \in Coming(d) : f.source # Broadcast
        BY <1>2, DevicesKept, ComingParts DEF RouterOK
  <2>3. SUFFICES ASSUME NEW f \in Gotten(d)
                 PROVE  FALSE
        BY <2>1
  <2>4. PICK r \in router.responses[0] : r.frame = f /\ r.channel = d
        BY <2>3 DEF Gotten
  <2>5. r.channel \in Heard
        BY <2>1, <2>2, <2>4 DEF Heard
  <2>6. QED  BY <1>1, <2>5
<1>5. PICK X : X = [Sought EXCEPT !.frame = Probe.frame]
      OBVIOUS
<1>6. X.frame = Probe.frame /\ X.channel = None
  <2>1. Sought \in Requests(Len(cfg.devices))
        BY <1>3, DevicesKept DEF RouterOK, Sought
  <2>2. Sought.channel = None
        BY <1>3 DEF Unknown
  <2>3. X.frame = Probe.frame /\ X.channel = Sought.channel
        BY ONLY <1>5, <2>1 DEF Requests
  <2>4. QED  BY <2>2, <2>3
<1>7. Wanted(X) = {}
  <2>1. SUFFICES ASSUME NEW s \in Wanted(X)
                 PROVE  FALSE
        OBVIOUS
  <2>2. s \in DOMAIN servers /\ Accepts(servers[s], Probe.frame)
        BY <1>6, <2>1 DEF Wanted
  <2>3. servers[s].bus \in {d \in Devices : Info(d).txSafe /\ ~Info(d).parentOnly}
        BY <1>6, <2>1 DEF Wanted
  <2>4. servers[s].bus \in BroadcastTargets
        BY <2>3 DEF BroadcastTargets, HasBus
  <2>5. Coming(servers[s].bus) # {}
        BY <2>2, <2>4, AskedAnswers
  <2>6. QED  BY <1>4, <2>3, <2>5
<1>8. Wanted(X)' = Wanted(X)
  <2>1. cfg' = cfg /\ servers' = servers /\ Devices' = Devices
        BY <1>2, ConfigKept DEF SamePlan, SameCall
  <2>2. QED  BY <2>1 DEF Wanted, Accepts, Info
<1>9. QED
  <2> HIDE DEF Wanted
  <2> QED  BY <1>2, <1>5, <1>7, <1>8, SoughtKept

\* What discover() can say of a controller, and those it can hear.
Seen(s) == [id |-> servers[s].id, uuid |-> servers[s].uuid, channel |-> servers[s].bus, server |-> s]
Listed == {s \in DOMAIN servers : Info(servers[s].bus).txSafe}

LEMMA ListedBuses ==
    ASSUME TypesInv, StaysInv, router.spent = 0, NEW s \in DOMAIN servers
    PROVE  /\ servers[s].bus \in Devices /\ servers[s].id \in 1..126 /\ servers[s].uuid \in Seq(Nat)
           /\ s \in Listed <=> servers[s].bus \in BroadcastTargets
<1>1. servers[s] \in ServerInfos(Len(cfg.devices))
  <2>1. servers \in Seq(ServerInfos(Len(cfg.devices)))
        BY DevicesKept
  <2>2. QED  BY <2>1
<1>2. servers[s].bus \in Devices /\ servers[s].id \in 1..126 /\ servers[s].uuid \in Seq(Nat)
      BY <1>1, DevicesKept, ConfigParts DEF ServerInfos
<1>3. HasBus(servers[s].bus)
      BY DevicesKept, WiringParts DEF StaysInv
<1>4. QED  BY <1>2, <1>3 DEF Listed, BroadcastTargets

\* The prefixes of a sequence.
LEMMA EmptyPrefix ==
    ASSUME NEW S, NEW t \in Seq(S)
    PROVE  IsPrefix(<<>>, t) /\ IsPrefix(t, t)
<1>1. Len(<<>>) = 0 /\ Len(t) \in Nat /\ SubSeq(<<>>, 1, 0) = <<>> /\ SubSeq(t, 1, 0) = <<>>
      OBVIOUS
<1>2. QED  BY <1>1 DEF IsPrefix

LEMMA PrefixParts ==
    ASSUME NEW S, NEW t \in Seq(S)
    PROVE  /\ t \in Prefixes(t)
           /\ \A p \in Prefixes(t) : p \in Seq(S) /\ Len(p) \in Nat /\ IsPrefix(p, t)
<1>1. PICK n, u : n = Len(t) /\ u = SubSeq(t, 1, n)
      OBVIOUS
<1>2. n \in Nat /\ n \in 0..n /\ u = t
      BY <1>1
<1>3. t \in Prefixes(t)
  <2>1. u \in {SubSeq(t, 1, l) : l \in 0..n}
        BY ONLY <1>1, <1>2
  <2>2. QED  BY <1>1, <1>2, <2>1, Zenon DEF Prefixes
<1>4. ASSUME NEW p \in Prefixes(t)
      PROVE  p \in Seq(S) /\ Len(p) \in Nat /\ IsPrefix(p, t)
  <2>1. PICK l \in 0..Len(t) : p = SubSeq(t, 1, l)
        BY <1>4 DEF Prefixes
  <2>2. p \in Seq(S) /\ Len(p) = l
        BY <2>1, SequencesOfReplies
  <2>3. SubSeq(p, 1, Len(p)) = p
        BY <2>2
  <2>4. l \in Nat /\ l <= Len(t)
        BY <1>1, <1>2, <2>1
  <2>5. QED  BY <2>1, <2>2, <2>3, <2>4 DEF IsPrefix
<1>5. QED  BY <1>3, <1>4

\* The query of the UUIDs tells of every controller it reaches, and of no other.
LEMMA QueryLists ==
    ASSUME TypesInv, StaysInv, HearsInv, Calm, ~Crowded, router.pc = "probe", router.op = "discover", AllDone
    PROVE  {DeviceInfo(r) : r \in {r \in router.responses[0] : r.frame.source # Broadcast /\ r.frame.to = Host}}
           = {Seen(s) : s \in Listed}
<1>1. \A d \in Devices : Gotten(d) = Coming(d)
      BY DEF AllDone, HearsInv, Hears
<1>2. router.spent = 0
      BY DevicesKept, ConfigParts DEF Calm, Disturbed, RouterOK
<1>3. Probe.frame = [dest |-> Broadcast, mask |-> <<>>, asks |-> "uuid"]
      BY DEF Probe, UuidQuery, Request
<1>4. AskEntry.request.frame.asks = "uuid" /\ AskEntry.request = Probe /\ AskEntry.child = None
      BY <1>3 DEF AskEntry, Entry
<1>5. ASSUME NEW r \in router.responses[0]
      PROVE  /\ r.frame.source # Broadcast /\ r.frame.to = Host
             /\ \E s \in Listed : DeviceInfo(r) = Seen(s)
  <2>1. r \in Received
    <3>1. 0 \in DOMAIN router.responses
      <4>1. DOMAIN router.responses = 0..Len(router.requests) /\ Len(router.requests) \in Nat
            BY DevicesKept DEF RouterOK
      <4>2. QED  BY <4>1
    <3>2. QED  BY <3>1, <1>5, DevicesKept DEF RouterOK
  <2>2. PICK d \in Devices : d = r.channel
        BY <2>1 DEF Received
  <2>3. r.frame \in Gotten(d)
        BY <1>5, <2>2 DEF Gotten
  <2>4. r.frame \in Coming(d)
        BY <1>1, <2>3
  <2>5. r.frame.source # Broadcast /\ r.frame.to = Host
        BY <2>4, ComingParts
  <2>6. d \in BroadcastTargets /\ r.frame \in Answers(d, AskEntry)
        BY <2>4 DEF Coming
  <2>7. PICK s \in Listeners(BusOf(d, AskEntry), AskEntry.request.frame) :
           /\ r.frame.server = s /\ r.frame.source = servers[s].id /\ r.frame.uuid = servers[s].uuid
    <3>1. PICK e : e = AskEntry
          OBVIOUS
    <3>2. e.request.frame.asks = "uuid"
          BY <1>4, <3>1
    <3>3. PICK s \in Listeners(BusOf(d, e), e.request.frame) :
             r.frame = [server |-> s, source |-> servers[s].id, to |-> Host,
                        uuid |-> IF e.request.frame.asks = "uuid" THEN servers[s].uuid ELSE <<>>,
                        cause |-> <<router.n, e.req>>]
      <4> HIDE DEF Listeners, BusOf, AskEntry
      <4> QED  BY <2>6, <3>1, <3>2 DEF Answers
    <3>4. r.frame.server = s /\ r.frame.source = servers[s].id /\ r.frame.uuid = servers[s].uuid
          BY ONLY <3>2, <3>3
    <3>5. QED  BY <3>1, <3>3, <3>4
  <2>8. s \in DOMAIN servers /\ servers[s].bus = d
        BY <1>4, <2>7 DEF Listeners, BusOf
  <2>9. s \in Listed
        BY <1>2, <2>6, <2>8, ListedBuses
  <2>10. DeviceInfo(r) = Seen(s)
         BY <2>2, <2>7, <2>8 DEF DeviceInfo, Seen
  <2>11. QED  BY <2>5, <2>9, <2>10
<1>6. ASSUME NEW s \in Listed
      PROVE  \E r \in router.responses[0] : DeviceInfo(r) = Seen(s)
  <2>1. s \in DOMAIN servers
        BY DEF Listed
  <2>2. servers[s].bus \in BroadcastTargets /\ servers[s].uuid \in Seq(Nat) /\ servers[s].bus \in Devices
        BY <1>2, <2>1, ListedBuses
  <2>3. Accepts(servers[s], Probe.frame)
    <3>1. IsPrefix(<<>>, servers[s].uuid)
          BY <2>2, EmptyPrefix
    <3>2. QED  BY <1>3, <3>1 DEF Accepts
  <2>4. PICK f \in Coming(servers[s].bus) : f.server = s
        BY <2>1, <2>2, <2>3, AskedAnswers
  <2>5. PICK r \in router.responses[0] : r.frame = f /\ r.channel = servers[s].bus
        BY <1>1, <2>2, <2>4 DEF Gotten
  <2>6. PICK t \in Listed : DeviceInfo(r) = Seen(t)
        BY <1>5
  <2>7. t = s
    <3>1. DeviceInfo(r).server = s
          BY <2>4, <2>5 DEF DeviceInfo
    <3>2. Seen(t).server = t
          BY DEF Seen
    <3>3. QED  BY <2>6, <3>1, <3>2
  <2>8. QED  BY <2>6, <2>7
<1>7. QED
  <2> HIDE DEF DeviceInfo, Seen, Listed
  <2> QED  BY <1>5, <1>6

\* The address that discover() gives a controller reaches that one and no other.
LEMMA AddressReaches ==
    ASSUME TypesInv, WhoInv, StaysInv, router.spent = 0, NEW infos, infos = {Seen(t) : t \in Listed},
           NEW s \in Listed, NEW a, a = UniqueAddress(Seen(s), infos)
    PROVE  IF a = NoAddress THEN servers[s].uuid = <<>> ELSE Addressed(a) = {s}
<1>1. PICK i, u, b : i = servers[s].id /\ u = servers[s].uuid /\ b = servers[s].bus
      OBVIOUS
<1>2. Seen(s).id = i /\ Seen(s).uuid = u /\ Seen(s).channel = b
      BY <1>1 DEF Seen
<1>3. s \in DOMAIN servers
      BY DEF Listed
<1>4. b \in Devices /\ i \in 1..126 /\ u \in Seq(Nat)
      BY <1>1, <1>3, ListedBuses
<1>5. ASSUME NEW t \in DOMAIN servers, servers[t].bus = b, t # s
      PROVE  /\ Seen(t) \in infos \ {Seen(s)} /\ Seen(t).id = servers[t].id
             /\ Seen(t).channel = b /\ Seen(t).uuid = servers[t].uuid
  <2>1. t \in Listed
        BY <1>1, <1>5 DEF Listed
  <2>2. Seen(t).server # Seen(s).server
        BY <1>5 DEF Seen
  <2>3. QED  BY <1>5, <2>1, <2>2 DEF Seen
<1>6. ASSUME NEW o \in infos \ {Seen(s)}
      PROVE  \E t \in DOMAIN servers : t # s /\ o.uuid = servers[t].uuid
  <2>1. PICK t \in Listed : o = Seen(t)
        BY <1>6
  <2>2. t # s
        BY <1>6, <2>1
  <2>3. o.uuid = servers[t].uuid
        BY <2>1 DEF Seen
  <2>4. QED  BY <2>2, <2>3 DEF Listed
<1>7. i # Broadcast /\ i # None /\ Broadcast # None
  <2>1. Broadcast \notin 1..126 /\ None \notin 1..126 /\ Broadcast # None
        BY DEF Broadcast, None
  <2>2. QED  BY <1>4, <2>1, Zenon
<1>8. CASE \A o \in infos \ {Seen(s)} : <<o.id, o.channel>> # <<i, b>>
  <2>1. a = with_transport_device(can_id(i), b)
        BY <1>2, <1>8 DEF UniqueAddress
  <2>2. a.id = i /\ a.uuid = <<>> /\ a.td = b
        BY <2>1 DEF with_transport_device, can_id
  <2>3. a # NoAddress
        BY <1>7, <2>2 DEF NoAddress, can_id
  <2>4. PICK f : f = from_command(a, "mode").frame
        OBVIOUS
  <2>5. f.dest = i /\ f.mask = <<>>
        BY <1>7, <2>2, <2>4 DEF from_command
  <2>6. Addressed(a) = {t \in DOMAIN servers : servers[t].bus = b /\ Accepts(servers[t], f)}
        BY <2>2, <2>4 DEF Addressed, Listeners
  <2>7. ASSUME NEW t \in DOMAIN servers, servers[t].bus = b
        PROVE  Accepts(servers[t], f) <=> t = s
    <3>1. servers[t].uuid = <<>> \/ IsPrefix(<<>>, servers[t].uuid)
          BY <2>7, ListedBuses, EmptyPrefix
    <3>2. Accepts(servers[t], f) <=> servers[t].id = i
          BY <1>7, <2>5, <3>1 DEF Accepts
    <3>3. t # s => servers[t].id # i
          BY <1>5, <1>8, <2>7
    <3>4. QED  BY <1>1, <3>2, <3>3
  <2>8. Addressed(a) = {s}
        BY <1>1, <1>3, <2>6, <2>7
  <2>9. QED  BY <2>3, <2>8
<1>9. ASSUME ~(\A o \in infos \ {Seen(s)} : <<o.id, o.channel>> # <<i, b>>)
      PROVE  IF a = NoAddress THEN servers[s].uuid = <<>> ELSE Addressed(a) = {s}
  <2>1. a = IF u = <<>> THEN NoAddress
            ELSE IF OwnPrefixes(Seen(s), infos) = {} THEN can_id(i)
            ELSE with_transport_device(uuid(Shortest(OwnPrefixes(Seen(s), infos))), b)
        BY <1>2, <1>9 DEF UniqueAddress
  <2>2. CASE u = <<>>
        BY <1>1, <2>1, <2>2
  <2>3. CASE u # <<>>
    <3>1. PICK P : P = OwnPrefixes(Seen(s), infos)
          OBVIOUS
    <3>2. P = {p \in Prefixes(u) \ {<<>>} : \A o \in infos \ {Seen(s)} : ~IsPrefix(p, o.uuid)}
          BY <1>2, <3>1 DEF OwnPrefixes
    <3>3. u \in P
      <4>1. ASSUME NEW o \in infos \ {Seen(s)}
            PROVE  ~IsPrefix(u, o.uuid)
        <5>1. PICK t \in DOMAIN servers : t # s /\ o.uuid = servers[t].uuid
              BY <1>6, <4>1
        <5>2. ~IsPrefix(cfg.servers[s].uuid, cfg.servers[t].uuid)
              BY <1>1, <1>3, <2>3, <5>1, DevicesKept, WiringParts DEF WhoInv
        <5>3. QED  BY <1>1, <1>3, <5>1, <5>2 DEF WhoInv
      <4>2. u \in Prefixes(u)
            BY <1>4, PrefixParts
      <4>3. QED  BY <2>3, <3>2, <4>1, <4>2
    <3>4. \A p \in P : p \in Seq(Nat) /\ Len(p) \in Nat /\ IsPrefix(p, u) /\ p # <<>>
          BY <1>4, <3>2, PrefixParts
    <3>5. PICK p : p = Shortest(P)
          OBVIOUS
    <3>6. p \in P
      <4>1. PICK L : L = {Len(q) : q \in P}
            OBVIOUS
      <4>2. L \subseteq Nat /\ L # {}
            BY <3>3, <3>4, <4>1
      <4>3. PICK l \in L : \A m \in L : l <= m
            BY <4>2, LeastNatural
      <4>4. \E q \in P : \A r \in P : Len(q) <= Len(r)
            BY <4>1, <4>3
      <4>5. QED  BY <3>5, <4>4 DEF Shortest
    <3>7. a = with_transport_device(uuid(p), b)
          BY <2>1, <2>3, <3>1, <3>3, <3>5
    <3>8. a.id = Broadcast /\ a.uuid = p /\ a.td = b
          BY <3>7 DEF with_transport_device, uuid
    <3>9. a # NoAddress
          BY <1>7, <3>8 DEF NoAddress, can_id
    <3>10. PICK f : f = from_command(a, "mode").frame
           OBVIOUS
    <3>11. f.dest = Broadcast /\ f.mask = p
           BY <3>8, <3>10 DEF from_command
    <3>12. Addressed(a) = {t \in DOMAIN servers : /\ servers[t].bus = b /\ Accepts(servers[t], f)
                                                  /\ servers[t].uuid # <<>>}
           BY <3>4, <3>6, <3>8, <3>10 DEF Addressed, Listeners
    <3>13. ASSUME NEW t \in DOMAIN servers, servers[t].bus = b
           PROVE  (Accepts(servers[t], f) /\ servers[t].uuid # <<>>) <=> t = s
      <4>1. (Accepts(servers[t], f) /\ servers[t].uuid # <<>>)
            <=> (servers[t].uuid # <<>> /\ IsPrefix(p, servers[t].uuid))
            BY <3>11 DEF Accepts
      <4>2. t # s => ~IsPrefix(p, servers[t].uuid)
            BY <1>5, <3>2, <3>6, <3>13
      <4>3. IsPrefix(p, servers[s].uuid) /\ servers[s].uuid # <<>>
            BY <1>1, <2>3, <3>4, <3>6
      <4>4. QED  BY <4>1, <4>2, <4>3
    <3>14. Addressed(a) = {s}
           BY <1>1, <1>3, <3>12, <3>13
    <3>15. QED  BY <3>9, <3>14
  <2>4. QED  BY <2>2, <2>3
<1>10. QED  BY <1>8, <1>9

\* What discover() has found, as DiscoveredAddressesUnique has it.
Lists ==
    (router.op = "discover" /\ router.result = "ok")
    => /\ {f.info.server : f \in router.found} = Listed
       /\ \A f \in router.found :
              f.address # NoAddress => Addressed(f.address) = {f.info.server}
       /\ \A f \in router.found : f.address = NoAddress => f.info.uuid = <<>>

LEMMA DiscoverEndLists ==
    ASSUME TypesInv, WhoInv, StaysInv, HearsInv, Calm, ~Crowded, DiscoverEnd
    PROVE  Lists'
<1>1. PICK infos : infos = {Seen(s) : s \in Listed}
      OBVIOUS
<1>2. /\ router.pc = "probe" /\ router.op = "discover" /\ AllDone
      /\ cfg' = cfg /\ servers' = servers
      BY DEF DiscoverEnd
<1>3. PICK mine : mine = {r \in router.responses[0] : r.frame.source # Broadcast /\ r.frame.to = Host}
      OBVIOUS
<1>4. {DeviceInfo(r) : r \in mine} = infos
      BY <1>1, <1>2, <1>3, QueryLists
<1>5. router' = [router EXCEPT !.pc = "idle", !.result = "ok",
              !.found = resolve_addresses({DeviceInfo(r) : r \in mine})]
      BY <1>3 DEF DiscoverEnd
<1>6. router'.found = resolve_addresses(infos)
  <2>1. PICK x : x = resolve_addresses(infos)
        OBVIOUS
  <2>2. router' = [router EXCEPT !.pc = "idle", !.result = "ok", !.found = x]
        BY ONLY <1>4, <1>5, <2>1
  <2>3. DOMAIN router = RouterFields
        BY DevicesKept DEF RouterOK
  <2>4. router'.found = x
        BY ONLY <2>2, <2>3 DEF RouterFields
  <2>5. QED  BY <2>1, <2>4
<1>7. router.spent = 0
      BY DevicesKept, ConfigParts DEF Calm, Disturbed, RouterOK
<1>8. ASSUME NEW f \in router'.found
      PROVE  \E s \in Listed : /\ f.info = Seen(s) /\ f.info.server = s /\ f.info.uuid = servers[s].uuid
                               /\ IF f.address = NoAddress THEN servers[s].uuid = <<>>
                                  ELSE Addressed(f.address) = {s}
  <2>1. PICK i \in infos : f = [info |-> i, address |-> UniqueAddress(i, infos)]
        BY <1>6, <1>8 DEF resolve_addresses
  <2>2. f.info = i /\ f.address = UniqueAddress(i, infos)
        BY ONLY <2>1
  <2>3. PICK s \in Listed : i = Seen(s)
        BY <1>1, <2>1
  <2>4. i.server = s /\ i.uuid = servers[s].uuid
        BY <2>3 DEF Seen
  <2>5. IF f.address = NoAddress THEN servers[s].uuid = <<>> ELSE Addressed(f.address) = {s}
        BY <1>1, <1>7, <2>2, <2>3, AddressReaches
  <2>6. QED  BY <2>2, <2>3, <2>4, <2>5
<1>9. ASSUME NEW s \in Listed
      PROVE  \E f \in router'.found : f.info.server = s
  <2>1. PICK f : f = [info |-> Seen(s), address |-> UniqueAddress(Seen(s), infos)]
        OBVIOUS
  <2>2. f \in router'.found
        BY <1>1, <1>6, <2>1 DEF resolve_addresses
  <2>3. f.info = Seen(s)
        BY ONLY <2>1
  <2>4. f.info.server = s
        BY <2>3 DEF Seen
  <2>5. QED  BY <2>2, <2>4
<1>10. Listed' = Listed
       BY <1>2 DEF Listed, Info
<1>11. \A a : Addressed(a)' = Addressed(a)
       BY <1>2 DEF Addressed, Listeners, Accepts
<1>12. QED
  <2> HIDE DEF Listed, Addressed, Seen
  <2> QED  BY <1>8, <1>9, <1>10, <1>11 DEF Lists

\* What the results say while nothing disturbs.
ResultInv == Calm => FindsController /\ (~Crowded => Lists)

LEMMA ResultNext ==
    ASSUME TypesInv, TypesInv', ControlInv, QuietInv, QuietInv', SoughtInv, WhoInv, HearsInv,
           ListingInv, StaysInv, ResultInv, [Next]_vars
    PROVE  ResultInv'
<1> DEFINE Named == Wanted([Sought EXCEPT !.frame = Probe.frame]) = {}
<1>1. (FindsController <=> (Nobody => Named)) /\ (FindsController' <=> (Nobody' => Named'))
      BY Zenon DEF FindsController, Nobody
<1>2. SUFFICES ASSUME Calm'
               PROVE  FindsController' /\ (~Crowded' => Lists')
      BY DEF ResultInv
<1>3. /\ Calm /\ cfg' = cfg /\ Devices' = Devices /\ servers' = servers
      /\ ~(Cancel \/ StrangerTalks \/ Lose \/ Move)
      BY <1>2, CalmKept
<1>4. Crowded' <=> Crowded
      BY <1>3 DEF Crowded, UuidQuery, Request
<1>5. router'.result = "none" => ~Nobody' /\ Lists'
  <2>1. router'.result = "none" => ~Nobody'
        BY Zenon DEF Nobody
  <2>2. QED  BY <2>1 DEF Lists
<1>6. router'.pc # "idle" => ~Nobody' /\ Lists'
      BY <1>5, Zenon DEF QuietInv
<1>7. CASE Starting
  <2>1. Fresh /\ StartsCall
        BY <1>7, StartsFresh, AllStart
  <2>2. ~Nobody'
    <3>1. router'.result \in {"none", "ok"}
          BY <2>1 DEF Fresh
    <3>2. QED  BY <3>1, Zenon DEF Nobody
  <2>3. Lists'
    <3>1. CASE router'.op = "discover"
          BY <1>6, <2>1, <3>1 DEF StartsCall
    <3>2. CASE router'.op # "discover"
          BY <3>2 DEF Lists
    <3>3. QED  BY <3>1, <3>2
  <2>4. QED
    <3> HIDE DEF Named
    <3> QED  BY <1>1, <2>2, <2>3
<1>8. CASE ProbeEnd
  <2>1. SamePlan /\ router.op # "discover"
        BY <1>8, ProbeEndParts
  <2>2. Lists'
        BY <2>1 DEF Lists, SamePlan, SameCall
  <2>3. Nobody' => Named'
        BY <1>3, <1>8, SilenceMeansNobody
  <2>4. QED
    <3> HIDE DEF Named
    <3> QED  BY <1>1, <2>2, <2>3
<1>9. CASE DiscoverEnd \/ RunEnd
  <2>1. ~Nobody'
    <3>1. router'.result \in {"ok", "err"}
          BY <1>9, EndParts
    <3>2. QED  BY <3>1, Zenon DEF Nobody
  <2>2. ~Crowded' => Lists'
    <3>1. CASE DiscoverEnd
          BY <1>3, <1>4, <3>1, DiscoverEndLists
    <3>2. CASE RunEnd
      <4>1. router.pc = "run" /\ SamePlan
            BY <3>2, EndParts DEF RunEnd
      <4>2. router'.op # "discover"
            BY <4>1 DEF ListingInv, SamePlan, SameCall
      <4>3. QED  BY <4>2 DEF Lists
    <3>3. QED  BY <1>9, <3>1, <3>2
  <2>3. QED
    <3> HIDE DEF Named
    <3> QED  BY <1>1, <2>1, <2>2
<1>10. CASE router' = router
  <2>1. Named' <=> Named
        BY <1>3, <1>10 DEF Wanted, Accepts, Info, Sought, Probe, LookupAddress
  <2>2. Nobody' <=> Nobody
        BY <1>10 DEF Nobody
  <2>3. Lists' <=> Lists
    <3>1. Listed' = Listed
          BY <1>3 DEF Listed, Info
    <3>2. \A a : Addressed(a)' = Addressed(a)
          BY <1>3 DEF Addressed, Listeners, Accepts
    <3>3. QED
      <4> HIDE DEF Listed, Addressed
      <4> QED  BY <1>10, <3>1, <3>2 DEF Lists
  <2>4. QED
    <3> HIDE DEF Named
    <3> QED  BY <1>1, <1>3, <1>4, <2>1, <2>2, <2>3 DEF ResultInv
<1>11. CASE router'.pc # "idle"
  <2> HIDE DEF Named
  <2> QED  BY <1>1, <1>6, <1>11
<1>12. ASSUME NEW d \in Devices, DeviceStep(d)
       PROVE  router'.pc # "idle"
       BY <1>12, DeviceWorks DEF Works, Running
<1>13. (Resolve \/ Execute \/ StartProbe \/ FlushAll \/ AskInTurn \/ AskInParallel) => router'.pc # "idle"
       BY ResolveParts, ExecuteParts, StartProbeParts, FlushAllParts, AskParts
<1>14. ((\E d \in Devices : Deliver(d)) \/ UNCHANGED vars) => router' = router
       BY DEF Deliver, vars
<1>15. QED  BY <1>3, <1>7, <1>8, <1>9, <1>10, <1>11, <1>12, <1>13, <1>14, AllActions DEF Probing, Ending

\* Everything at once.
FindInv == ReplyInv /\ StillInv /\ HearsInv /\ ListingInv /\ StaysInv /\ ResultInv

LEMMA FindInvInit ==
    ASSUME Init
    PROVE  FindInv
<1>1. ReplyInv
      BY ReplyInvInit
<1>2. router.pc = "idle" /\ router.op = "none" /\ router.result = "none" /\ servers = cfg.servers
      BY Zenon DEF Init
<1>3. StillInv /\ HearsInv /\ ListingInv /\ StaysInv /\ Lists
      BY <1>2 DEF StillInv, HearsInv, ListingInv, StaysInv, Lists
<1>4. FindsController
      BY <1>2, Zenon DEF FindsController
<1>5. QED  BY <1>1, <1>3, <1>4 DEF FindInv, ResultInv

LEMMA FindInvNext ==
    ASSUME FindInv, [Next]_vars
    PROVE  FindInv'
<1>1. ReplyInv /\ ReplyInv' /\ StillInv /\ HearsInv /\ ListingInv /\ StaysInv /\ ResultInv
      BY ReplyInvNext DEF FindInv
<1>2. /\ RouteInv /\ CallInv /\ WhoInv /\ MarksInv /\ AnswerInv /\ RouteInv'
      BY <1>1 DEF ReplyInv
<1>3. /\ TypesInv /\ ControlInv /\ QuietInv /\ SoughtInv
      /\ TypesInv' /\ QuietInv'
      BY <1>2 DEF RouteInv
<1>4. StillInv' /\ HearsInv' /\ ListingInv' /\ StaysInv'
      BY <1>1, <1>2, <1>3, StillNext, HearsNext, ListingNext, StaysNext
<1>5. ResultInv'
      BY <1>1, <1>2, <1>3, ResultNext
<1>6. QED  BY <1>1, <1>4, <1>5 DEF FindInv

\* DiscoveryFindsController: an address that discovery reports nowhere belongs to
\* no controller of the buses it asks, when nothing was lost, late or disturbed,
\* and buses are drained or send no more than is awaited.
THEOREM DiscoveryFinds == Spec => []DiscoveryFindsController
<1>1. Init => FindInv
      BY FindInvInit
<1>2. FindInv /\ [Next]_vars => FindInv'
      BY FindInvNext
<1>3. FindInv => DiscoveryFindsController
      BY DEF FindInv, ResultInv, Calm, DiscoveryFindsController
<1>4. QED  BY <1>1, <1>2, <1>3, PTL DEF Spec

\* DiscoveredAddressesUnique: what discover() lists is every controller of the
\* buses it asks, each with an address that reaches it and no other.
THEOREM DiscoveryIsUnique == Spec => []DiscoveredAddressesUnique
<1>1. Init => FindInv
      BY FindInvInit
<1>2. FindInv /\ [Next]_vars => FindInv'
      BY FindInvNext
<1>3. FindInv => DiscoveredAddressesUnique
  <2>1. SUFFICES ASSUME FindInv, ~Disturbed, (Adapters /\ ~Crowded) \/ ~Surplus
                 PROVE  Lists
        BY DEF DiscoveredAddressesUnique, Lists, Listed
  <2>2. Calm /\ ~Crowded
        BY <2>1 DEF Calm, Surplus
  <2>3. QED  BY <2>1, <2>2 DEF FindInv, ResultInv
<1>4. QED  BY <1>1, <1>2, <1>3, PTL DEF Spec
=============================================================================
