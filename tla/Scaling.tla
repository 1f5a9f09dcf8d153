------------------------------- MODULE Scaling -------------------------------
(***************************************************************************)
(* How register values are scaled to integers and back: resolution.rs and  *)
(* scaling.rs of lib/rust/moteus-protocol.                                 *)
(*                                                                         *)
(* A value is a number of its scale's int32 steps, which are the finest;   *)
(* NaN is the number that int32 reserves for it.                           *)
(***************************************************************************)
EXTENDS Integers

Resolution == {"Int8", "Int16", "Int32", "Float", "Ignore"}

size == [Int8 |-> 1, Int16 |-> 2, Int32 |-> 4, Float |-> 4, Ignore |-> 0]
type_code == [Int8 |-> 0, Int16 |-> 4, Int32 |-> 8, Float |-> 12]
from_type_code(code) == CHOOSE r \in DOMAIN type_code : type_code[r] = 4 * ((code \div 4) % 4)
max_value == [Int8 |-> 127, Int16 |-> 32767, Int32 |-> 2147483647]

\* The value each resolution reserves for NaN.
nan_value == [r \in DOMAIN max_value |-> -max_value[r] - 1]
NaN == nan_value["Int32"]

\* The steps of Int8 and Int16, as numbers of Int32 steps.
Scale ==
    [position |-> [Int8 |-> 1000, Int16 |-> 10], velocity |-> [Int8 |-> 10000, Int16 |-> 25],
     acceleration |-> [Int8 |-> 5000, Int16 |-> 100], torque |-> [Int8 |-> 500, Int16 |-> 10],
     pwm |-> [Int8 |-> 16909320, Int16 |-> 65538], voltage |-> [Int8 |-> 500, Int16 |-> 100],
     temperature |-> [Int8 |-> 1000, Int16 |-> 100], time |-> [Int8 |-> 10000, Int16 |-> 1000],
     current |-> [Int8 |-> 1000, Int16 |-> 100], power |-> [Int8 |-> 100000, Int16 |-> 500],
     int |-> [Int8 |-> 1, Int16 |-> 1]]

Lsb(scale, res) == IF res \in {"Int8", "Int16"} THEN Scale[scale][res] ELSE 1

\* value / scale, cast towards zero
Cast(v, lsb) == IF v >= 0 THEN v \div lsb ELSE -((-v) \div lsb)

\* saturate_i8, saturate_i16, saturate_i32; a float is sent as it is
saturate(v, scale, res) ==
    IF res = "Float" THEN v
    ELSE IF v = NaN THEN nan_value[res]
    ELSE LET scaled == Cast(v, Lsb(scale, res)) IN
         IF scaled > max_value[res] THEN max_value[res]
         ELSE IF scaled < -max_value[res] THEN -max_value[res]
         ELSE scaled


\* nanify_i8, nanify_i16, nanify_i32 and Value::to_f32
to_f32(raw, scale, res) ==
    IF res = "Float" THEN raw
    ELSE IF raw = nan_value[res] THEN NaN
    ELSE raw * Lsb(scale, res)

\* A value that res can carry at this scale.
InRange(v, scale, res) ==
    res = "Float" \/ (v # NaN /\ Cast(v, Lsb(scale, res)) \in -max_value[res]..max_value[res])
=============================================================================
