------------------------- MODULE MC_MultiTransport -------------------------
(* Small instances of MultiTransport for TLC.                              *)
EXTENDS MultiTransport

Req(writes, reply) == [writes |-> writes, reply |-> reply, bytes |-> TRUE]

\* A command with a mode that does not exist, a query, fields alone, fields
\* and a mode before the mode that counts, a frame for another device with its
\* mode ahead of the mask, and an empty datagram.
MCRequests ==
    {Req(<<"mode", "badMode", "field">>, TRUE), Req(<<>>, TRUE), Req(<<"field">>, FALSE),
     Req(<<"field", "mode", "mode", "field">>, FALSE),
     Req(<<"mode", "otherUuid", "field">>, TRUE), [Req(<<>>, FALSE) EXCEPT !.bytes = FALSE]}

AssertRequests == {Req(<<>>, TRUE)}
=============================================================================
