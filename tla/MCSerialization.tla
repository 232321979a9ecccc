--------------------------- MODULE MCSerialization ---------------------------
(* Checks serialize_to_type against deserialize_from_type for every value *)
(* of the 8- and 16-bit types that the casts convert without undefined    *)
(* behaviour, and for sampled 32-bit values: a value is serialized to     *)
(* bytes (as buffer_poke does), then the bytes are deserialized (as       *)
(* buffer_peek does).                                                      *)
EXTENDS Serialization

VARIABLES type, value, bytes, result
vars == <<type, value, bytes, result>>

Inputs(t) ==
  IF t = "s32"
  THEN {-2147483647 - 1, -16777217, -65536, -129, -1, 0, 1, 128, 65535,
        16777216, 2147483647}
  ELSE CastRange(t)

Init ==
  /\ type \in IntTypes
  /\ value \in Inputs(type)
  /\ bytes = <<>>
  /\ result = <<>>  \* no value read yet

Serialize ==
  /\ bytes = <<>>
  /\ bytes' = SerializeToType(value, type)
  /\ UNCHANGED <<type, value, result>>

Deserialize ==
  /\ bytes # <<>> /\ result = <<>>
  /\ result' = <<DeserializeFromType(bytes, type)>>
  /\ UNCHANGED <<type, value, bytes>>

Next == Serialize \/ Deserialize

Spec == Init /\ [][Next]_vars

TypeOK ==
  /\ type \in IntTypes /\ value \in Inputs(type)
  /\ bytes \in Seq(0..255)
  /\ result \in Seq(Int) /\ Len(result) <= 1

(* A value written with serialize_to_type (buffer_poke, buffer_write,     *)
(* buffer_fill) and read back with deserialize_from_type (buffer_peek,    *)
(* buffer_read) is the value converted to the type: the byte order, the   *)
(* width and the sign reinterpretation of the two functions agree.         *)
SerializationRoundTrip ==
  /\ bytes # <<>> => Len(bytes) = BufferSizeof(type)
  /\ result # <<>> => result[1] = AsType(value, type)
=============================================================================
