------------------------------ MODULE ByteStream ------------------------------
(***************************************************************************)
(* What a reliable diagnostic stream promises: the bytes the device writes *)
(* are delivered to the application once each, in order, and no others.    *)
(***************************************************************************)
EXTENDS Sequences, SequencesExt

CONSTANT Byte

VARIABLES
    sent,       \* bytes the device has written, each one distinct
    delivered   \* bytes read() has returned

Init == sent \in Seq(Byte) /\ delivered = <<>>

Send == sent' \in Seq(Byte) /\ IsStrictPrefix(sent, sent') /\ UNCHANGED delivered

Deliver ==
    /\ IsStrictPrefix(delivered, delivered') /\ IsPrefix(delivered', sent)
    /\ UNCHANGED sent

Next == Send \/ Deliver

Spec == Init /\ [][Next]_<<sent, delivered>>
=============================================================================
