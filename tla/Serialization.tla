--------------------------- MODULE Serialization ---------------------------
(***************************************************************************)
(* serialize_to_type / deserialize_from_type / buffer_sizeof of           *)
(* src/ENIGMAsystem/SHELL/Universal_System/bufferstruct.cpp, as pure       *)
(* operators on byte sequences (bytes are 0..255, most significant first). *)
(*                                                                         *)
(* Integer types only: the float types are bit casts of IEEE values and    *)
(* are kept as their widths; buffer_u32 and buffer_u64 values above 2^31   *)
(* are outside TLC's integers and are not given values here.               *)
(***************************************************************************)
EXTENDS Integers, Sequences, SequencesExt

(* buffer_data_t enumerators. *)
IntTypes == {"u8", "s8", "bool", "u16", "s16", "s32"}
DataTypes == IntTypes \cup {"u32", "u64", "f16", "f32", "f64", "string", "text"}
SignedTypes == {"s8", "s16", "s32"}

(* buffer_sizeof *)
BufferSizeof(type) ==
  CASE type \in {"u8", "s8", "bool"} -> 1
    [] type \in {"u16", "s16", "f16"} -> 2
    [] type \in {"u32", "s32", "f32"} -> 4
    [] type \in {"u64", "f64"} -> 8
    [] OTHER -> 0

(* The doubles the `if (value > INTn_MAX) unsigned cast else signed cast`  *)
(* pair converts without undefined behaviour: the signed range below and  *)
(* the unsigned range above.                                               *)
CastRange(type) ==
  CASE type \in {"u8", "s8", "bool"} -> -128..255
    [] type \in {"u16", "s16"} -> -32768..65535
    [] type \in {"u32", "s32"} -> -2147483647..2147483647

(* Mutant: bytes emitted least significant first.                        *)
SerializeToTypeLittleEndian(value, type) ==
  [k \in 1..BufferSizeof(type) |-> (value \div (2^(8 * (k - 1)))) % 256]

(* Mutant: the shifts without the `& 0xff` mask.                          *)
SerializeToTypeUnmasked(value, type) ==
  LET w == BufferSizeof(type)
  IN  [k \in 1..w |-> value \div (2^(8 * (w - k)))]

(* serialize_to_type for an integer type: the value's two's-complement    *)
(* bits in BufferSizeof(type) bytes, most significant first (the shifts   *)
(* `(as_int >> 8*j) & 0xff`); \div is floor division, so a negative       *)
(* value yields its two's-complement bytes.                                *)
SerializeToType(value, type) ==
  LET w == BufferSizeof(type)
  IN  [k \in 1..w |-> (value \div (2^(8 * (w - k)))) % 256]

(* A string or text value of n characters: n non-NUL bytes and the        *)
(* terminating NUL that serialize_to_type appends.                         *)
SerializeString(n) == [k \in 1..n + 1 |-> IF k <= n THEN 65 ELSE 0]

(* deserialize_from_type for an integer type: `value = (value << 8) | b`  *)
(* over the bytes, then the signed types reinterpret the top bit.         *)
DeserializeFromType(bytes, type) ==
  LET top == IF type \in SignedTypes /\ bytes[1] >= 128 THEN bytes[1] - 256
             ELSE bytes[1]
  IN  FoldLeft(LAMBDA acc, b : acc * 256 + b, top, Tail(bytes))

(* Reference: the value of the type congruent to `value` modulo          *)
(* 2^(8 * width), i.e. the type's own reading of the value's low bytes,   *)
(* for a value in CastRange(type).                                         *)
TypeRange(type) ==
  CASE type \in {"u8", "bool"} -> 0..255
    [] type = "s8" -> -128..127
    [] type = "u16" -> 0..65535
    [] type = "s16" -> -32768..32767
    [] type = "s32" -> (-2147483647 - 1)..2147483647

AsType(value, type) ==
  CASE value \in TypeRange(type) -> value
    [] value < 0 -> value + 2^(8 * BufferSizeof(type))
    [] OTHER -> value - 2^(8 * BufferSizeof(type))

=============================================================================
