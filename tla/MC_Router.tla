------------------------------ MODULE MC_Router ------------------------------
(* Small instances of Router for TLC.                                       *)
EXTENDS Router

Adapter == [kind |-> "fdcanusb", parent |-> None, parentOnly |-> FALSE, txSafe |-> TRUE]
Socket == [Adapter EXCEPT !.kind = "socketcan"]
Parent == [Socket EXCEPT !.parentOnly = TRUE]
Child(parent) == [Socket EXCEPT !.parent = parent]

Controller(b, id, uid) == [bus |-> b, id |-> id, uuid |-> uid]
One == Controller(1, 1, <<1, 1>>)
Two == Controller(2, 2, <<1, 2>>)

Query(id) == from_command(can_id(id), "mode")
Stop(id) == from_command(can_id(id), "nothing")
cycle(requests) == [op |-> "cycle", requests |-> requests]
write(id) == [op |-> "write",
              requests |-> <<Request([dest |-> id, mask |-> <<>>, asks |-> "nothing"])>>]

\* Two adapters, late answers, errors and losses.
Late ==
    [async |-> FALSE, late |-> TRUE, devices |-> <<Adapter, Adapter>>, servers |-> <<One, Two>>,
     routes |-> <<>>, calls |-> {cycle(<<Query(1), Query(2)>>), cycle(<<Stop(2)>>)},
     ops |-> {"read"}, maxOps |-> 3, maxFaults |-> 1, faults |-> {"lost", "error"}]

\* Two SocketCAN interfaces, controllers that move or are absent.
Moving ==
    [Late EXCEPT !.late = FALSE, !.devices = <<Socket, Socket>>,
       !.calls = {cycle(<<Stop(1), Query(3)>>), cycle(<<Query(2), Query(Broadcast)>>), write(2)},
       !.ops = {"clear", "flush"}, !.faults = {"move", "stranger"}]

\* A parent device with two buses behind it.
Family ==
    [Late EXCEPT !.late = FALSE, !.devices = <<Parent, Child(1), Child(1)>>,
       !.servers = <<Controller(2, 1, <<1, 1>>), Controller(3, 2, <<>>)>>,
       !.calls = {cycle(<<Query(1), Query(Broadcast), Stop(Broadcast)>>), write(Broadcast)},
       !.ops = {}, !.faults = {"error"}]

\* Controllers that share a CAN id, one of them on the other bus as well.
Twins ==
    [Late EXCEPT !.late = FALSE,
       !.servers = <<One, Controller(1, 1, <<1, 2>>), Controller(2, 1, <<2, 1>>)>>,
       !.calls = {cycle(<<Query(1)>>), cycle(<<from_command(uuid(<<1, 2>>), "mode")>>)},
       !.ops = {"discover"}, !.faults = {"lost"}]

\* Async adapters: operations dropped at any await.
Dropping ==
    [Late EXCEPT !.async = TRUE, !.routes = can_id(1) :> 1 @@ can_id(2) :> 2,
       !.ops = {}, !.faults = {"cancel", "error"}]

\* The same, dropped while probing for addresses.
ProbesDropped ==
    [Dropping EXCEPT !.routes = <<>>, !.calls = {cycle(<<Query(1)>>), cycle(<<Stop(2)>>)},
       !.faults = {"cancel", "lost", "move"}]

\* Async SocketCAN, addresses probed for.
Probing ==
    [Late EXCEPT !.async = TRUE, !.late = FALSE, !.devices = <<Socket, Adapter>>,
       !.calls = {cycle(<<Query(2)>>), cycle(<<Stop(1), Query(3)>>), write(1)},
       !.ops = {"discover", "read"}, !.faults = {"lost"}]

Single == [Late EXCEPT !.devices = <<Socket>>, !.servers = <<One>>, !.calls = {cycle(<<Query(1)>>)}]

AllScenarios == {Late, Moving, Family, Twins, Dropping, ProbesDropped, Probing, Single}

CancelledProbe ==
    {[Probing EXCEPT !.devices = <<Socket, Socket>>, !.calls = {cycle(<<Query(2)>>)},
                     !.ops = {}, !.faults = {"cancel"}]}
=============================================================================
