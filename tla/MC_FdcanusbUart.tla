-------------------------- MODULE MC_FdcanusbUart --------------------------
(* Small instances of FdcanusbUart for TLC.                                *)
EXTENDS FdcanusbUart

Query == [reply |-> TRUE, kind |-> "query"]
Diagnostic == [reply |-> TRUE, kind |-> "diagnostic"]
NoReply == [reply |-> FALSE, kind |-> "query"]

\* The blocking transport, checksums negotiated on the way, late answers.
Negotiating ==
    [batches |-> {<<Query>>, <<Query, Diagnostic>>, <<NoReply, Query>>},
     ops |-> {"transaction", "write", "read"}, async |-> FALSE,
     checksum |-> FALSE, retries |-> 1, late |-> TRUE, maxOps |-> 3, maxFaults |-> 1]

\* The async transport: transactions and flushes dropped at any await.
Dropping ==
    [batches |-> {<<Query>>, <<NoReply>>}, ops |-> {"transaction", "flush"},
     async |-> TRUE, checksum |-> TRUE, retries |-> 1, late |-> TRUE,
     maxOps |-> 3, maxFaults |-> 2]

\* The same with writes.
DroppingWrites ==
    [Dropping EXCEPT !.ops = {"transaction", "write"}, !.maxOps = 2, !.maxFaults = 1]

\* Answers in time, as many faults as the retries absorb and one more.
Retrying ==
    [batches |-> {<<Query>>, <<Diagnostic, Query>>}, ops |-> {"transaction", "write"},
     async |-> FALSE, checksum |-> TRUE, retries |-> 2, late |-> FALSE,
     maxOps |-> 2, maxFaults |-> 3]

AllScenarios == {Negotiating, Dropping, Retrying}
WriteScenarios == {DroppingWrites}
=============================================================================
