------------------------------ MODULE Multiplex ------------------------------
(***************************************************************************)
(* The register subframes of a CAN-FD frame: how the Rust library writes   *)
(* and parses them (lib/rust/moteus-protocol/src/multiplex.rs, frame.rs).  *)
(*                                                                         *)
(* A frame is a sequence of bytes.  A control byte is <<b>>; byte k of a   *)
(* value is <<raw, k>>, whatever its resolution makes of it.               *)
(***************************************************************************)
EXTENDS Scaling, SequencesExt

Capacity == 64
NOP == 80

Control(b) == <<b>>
IsControl(cell) == Len(cell) = 1
ValueBytes(raw, res) == [k \in 1..size[res] |-> <<raw, k>>]

-----------------------------------------------------------------------------
(* WriteCanData                                                            *)

write_u8(frame, b) == IF Len(frame) < Capacity THEN Append(frame, Control(b)) ELSE frame

\* A value that does not fit is left out altogether.
write_bytes(frame, bytes) == IF Len(frame) + Len(bytes) <= Capacity THEN frame \o bytes ELSE frame

\* Register addresses have at most two groups of seven bits.
write_varuint(frame, v) ==
    IF v < 128 THEN write_u8(frame, v)
    ELSE write_u8(write_u8(frame, 128 + (v % 128)), v \div 128)

\* pad_to_dlc: the sizes a CAN-FD frame can have
round_up_dlc(n) ==
    CHOOSE s \in 0..8 \cup {12, 16, 20, 24, 32, 48, 64} :
        s >= n /\ \A t \in 0..8 \cup {12, 16, 20, 24, 32, 48, 64} : t >= n => s <= t
\* Mutant: a frame is sent as long as it is.
Unpadded(frame) == frame
pad_to_dlc(frame) ==
    frame \o [k \in 1..(round_up_dlc(Len(frame)) - Len(frame)) |-> Control(NOP)]

-----------------------------------------------------------------------------
(* WriteCombiner                                                           *)

\* A block: base is 0 (write) or 16 (read), start the first register, fields
\* one record per register.
RunLength(fields, offset) ==
    LET different == {k \in (offset + 1)..Len(fields) : fields[k].res # fields[offset].res}
    IN (IF different = {} THEN Len(fields) + 1
        ELSE CHOOSE k \in different : \A j \in different : k <= j) - offset

\* The opening of a subframe that writes, reads or answers count registers.
Header(frame, base, res, count, register) ==
    LET command == base + type_code[res]
        opened == IF count <= 3 THEN write_u8(frame, command + count)
                  ELSE write_u8(write_u8(frame, command), count)
    IN write_varuint(opened, register)

\* Mutant: an ignored register does not end the run before it.
StickyNeedsHeader(current, res) == res # "Ignore" /\ current # res /\ current = "Ignore"

NeedsHeader(current, res) == res # "Ignore" /\ current # res

\* maybe_write() for the register at offset, and the value that follows it in
\* a write block.
maybe_write(frame, block, offset, current) ==
    LET f == block.fields[offset]
        headed == IF NeedsHeader(current, f.res)
                  THEN Header(frame, block.base, f.res, RunLength(block.fields, offset),
                              block.start + offset - 1)
                  ELSE frame
    IN IF f.res = "Ignore" \/ block.base = 16 THEN headed
       ELSE write_bytes(headed, ValueBytes(saturate(f.val, f.scale, f.res), f.res))

\* The loop over the registers of a block that every serialize() is.
WriteBlock(frame, block) ==
    LET Write(w, offset) == [frame |-> maybe_write(w.frame, block, offset, w.current),
                             current |-> block.fields[offset].res]
    IN FoldLeftDomain(Write, [frame |-> frame, current |-> "Ignore"], block.fields).frame

-----------------------------------------------------------------------------
(* FrameParser                                                             *)

\* rest is what is not parsed yet; remaining counts the registers left in the
\* block that began at the last command.
Parser(frame) == [rest |-> frame, remaining |-> 0, register |-> 0, res |-> "Ignore", type |-> "Response"]
Exhausted(p) == p.rest = <<>> /\ p.remaining = 0

\* The byte at the head of rest, 0 for a byte of a value.
HeadByte(rest) == IF IsControl(rest[1]) THEN rest[1][1] ELSE 0

read_varuint(rest) ==
    IF rest = <<>> THEN [v |-> 0, rest |-> rest]
    ELSE LET low == HeadByte(rest) IN
         IF low < 128 THEN [v |-> low, rest |-> Tail(rest)]
         ELSE IF Len(rest) = 1 THEN [v |-> low - 128, rest |-> <<>>]
         ELSE [v |-> low - 128 + (128 * HeadByte(Tail(rest))), rest |-> Tail(Tail(rest))]

Nothing == [kind |-> "none"]
Stuck(p) == [item |-> Nothing, p |-> [p EXCEPT !.rest = <<>>, !.remaining = 0]]

\* read_value: bytes that are not those of one value read as garbage.
Garbage == 77
Raw(bytes) == IF \A k \in DOMAIN bytes : bytes[k] = <<bytes[1][1], k>> THEN bytes[1][1] ELSE Garbage

\* One register of the current block.
Item(p) ==
    LET item == [kind |-> p.type, register |-> p.register, res |-> p.res, left |-> p.remaining]
        next == [p EXCEPT !.remaining = @ - 1, !.register = @ + 1]
        n == size[p.res]
    IN IF p.type = "Read" THEN [item |-> item @@ [raw |-> 0], p |-> next]
       ELSE IF Len(p.rest) < n THEN Stuck(p)
       ELSE [item |-> item @@ [raw |-> Raw(SubSeq(p.rest, 1, n))],
             p |-> [next EXCEPT !.rest = SubSeq(@, n + 1, Len(@))]]

next_from_block(p) == Item(p)

Kinds == <<"Write", "Read", "Response">>

parse_register_block(p) ==
    LET command == HeadByte(p.rest)
        short == command % 4
        after == Tail(p.rest)
        count == IF short # 0 THEN short ELSE IF after = <<>> THEN 0 ELSE HeadByte(after)
        address == read_varuint(IF short # 0 \/ after = <<>> THEN after ELSE Tail(after))
    IN IF count = 0
       THEN [item |-> Nothing, p |-> [p EXCEPT !.rest = IF after = <<>> THEN after ELSE Tail(after)]]
       ELSE Item([p EXCEPT !.rest = address.rest, !.remaining = count, !.register = address.v,
                           !.res = from_type_code(command), !.type = Kinds[(command \div 16) + 1]])

parse_error(p) ==
    LET register == read_varuint(Tail(p.rest))
        code == read_varuint(register.rest)
    IN [item |-> [kind |-> "Error", register |-> register.v], p |-> [p EXCEPT !.rest = code.rest]]

\* One turn of FrameParser::next: a register, a command, or a NOP that is
\* skipped.  Stream subframes do not occur in the frames modelled with it.
ParseNext(p) ==
    IF p.remaining > 0 THEN next_from_block(p)
    ELSE CASE HeadByte(p.rest) = NOP -> [item |-> Nothing, p |-> [p EXCEPT !.rest = Tail(@)]]
           [] HeadByte(p.rest) < 48 -> parse_register_block(p)
           [] HeadByte(p.rest) \in {48, 49} -> parse_error(p)
           [] OTHER -> Stuck(p)

RECURSIVE Items(_)
Items(p) ==
    IF Exhausted(p) THEN <<>>
    ELSE LET turn == ParseNext(p)
         IN (IF turn.item = Nothing THEN <<>> ELSE <<turn.item>>) \o Items(turn.p)

\* parse_frame: every subframe of a frame, in order.
parse_frame(frame) == Items(Parser(frame))
=============================================================================
