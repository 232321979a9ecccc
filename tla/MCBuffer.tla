------------------------------ MODULE MCBuffer ------------------------------
(* Model-checking instances of Buffer. *)
EXTENDS Buffer

MCSizeMod == 2^16

(* A value whose bytes are all ones and one whose high byte is zero. *)
MCValues == {-1, 1}

(* One value, byte 0xff, told apart from the zero fill of new bytes. *)
MCValueOnes == {-1}

(* Back one byte, and no offset (a rewind from the start). *)
MCSeekOffsets == {-1, 0}
=============================================================================
