------------------------------- MODULE Buffer -------------------------------
(***************************************************************************)
(* The binary buffers of src/ENIGMAsystem/SHELL/Universal_System/          *)
(* bufferstruct.cpp: the table `enigma::buffers` of buffer slots and the   *)
(* buffer_* functions that allocate, resize, write, load and copy them.    *)
(*                                                                         *)
(* `last` is a ghost: the arguments of the last call, when a property     *)
(* speaks of it.                                                           *)
(* `slots` is the AssetArray (index = buffer id + 1); a slot is a          *)
(* BinaryBuffer or empty.  `handles` are the ids the game holds, each with *)
(* the generation of the buffer it was given (a ghost that tells a reused  *)
(* slot apart).  `ub` collects the undefined behaviour a call reached:     *)
(* "oob_write" / "oob_read" (an index outside `data`), "div_zero" (an     *)
(* offset taken modulo an empty wrap buffer) and "bad_alloc" (a resize to *)
(* an impossible size).  size_t arithmetic is modulo SizeMod.              *)
(*                                                                         *)
(* BinaryBuffer (GetSize, Resize) and AssetArray (add, assign, destroy)   *)
(* are declared in headers outside src/; they are modelled as a vector's  *)
(* size and zero-filling resize, and as a growable table of owning slots. *)
(***************************************************************************)
EXTENDS Integers, Sequences, SequencesExt, FiniteSets, Serialization

CONSTANTS
  BufferTypes,   \* buffer_type_t values used: subset of {"grow","wrap","fixed","fast"}
  Sizes,         \* sizes passed to buffer_create / buffer_resize
  Alignments,    \* alignments passed to buffer_create
  Offsets,       \* offsets passed to buffer_poke / load_ext / copy
  CopySizes,     \* sizes passed to buffer_copy
  PokeTypes,     \* buffer_data_t values poked (integer types)
  Values,        \* numeric values poked
  FileSizes,     \* sizes of the files buffer_load / buffer_load_ext read
  FillSizes,     \* sizes passed to buffer_fill
  StreamTypes,   \* buffer_data_t values passed to buffer_write / buffer_read
  SeekOffsets,   \* offsets passed to buffer_seek
  MaxCreates,    \* bound on buffers created in a behaviour
  MaxSize,       \* bound on a buffer's size (calls that would exceed it are not issued)
  SizeMod        \* 2^width of size_t

ASSUME /\ BufferTypes \subseteq {"grow", "wrap", "fixed", "fast"}
       /\ PokeTypes \subseteq IntTypes
       /\ StreamTypes \subseteq IntTypes \cup {"string", "text"}
       /\ \A v \in Values, t \in PokeTypes : v \in CastRange(t)

FileByte == 7   \* the content of the files read
Chars == 1      \* length of the string value written by buffer_write

(* Bound on the position of a buffer: a stream call or seek that would    *)
(* move it further is not issued (the position itself is an unbounded     *)
(* size_t the code never checks).                                          *)
MaxPosition == MaxSize + 1

(* The positions explored: up to MaxPosition, and SIZE_MAX, where a seek  *)
(* to GetSize() - 1 of an empty buffer lands.                             *)
InPositionBound(p) == p <= MaxPosition \/ p = SizeMod - 1

VARIABLES slots, handles, created, ub, last
vars == <<slots, handles, created, ub, last>>

Empty == [live |-> FALSE, data |-> <<>>, position |-> 0, alignment |-> 1,
          type |-> "grow", gen |-> 0]

SizeT(x) == x % SizeMod
MinOf(a, b) == IF a <= b THEN a ELSE b
MaxOf(a, b) == IF a >= b THEN a ELSE b

(* The buffer with id `id` (ids are 0-based). *)
Buf(id) == slots[id + 1]
LiveIds == {id \in 0..Len(slots) - 1 : Buf(id).live}

(* std::copy of `bytes` to data.begin() + off: the bytes that land inside  *)
(* data; the rest would be written past its end.                           *)
WriteBytes(data, bytes, off) ==
  [i \in DOMAIN data |->
     IF i - 1 - off \in 0..Len(bytes) - 1 THEN bytes[i - off] ELSE data[i]]
OutOfRange(data, off, n) == n > 0 /\ off + n > Len(data)

(* BinaryBuffer::Resize: std::vector::resize, new bytes zero. *)
Resize(data, n) == [i \in 1..n |-> IF i <= Len(data) THEN data[i] ELSE 0]

(* Mutant: the null test of get_free_buffer inverted.                    *)
GetFreeBufferInverted ==
  IF \E i \in DOMAIN slots : slots[i].live
  THEN Min({i \in DOMAIN slots : slots[i].live}) - 1
  ELSE Len(slots)

(* enigma::get_free_buffer: the first empty slot, else the table's size. *)
GetFreeBuffer ==
  IF \E i \in DOMAIN slots : ~slots[i].live
  THEN Min({i \in DOMAIN slots : ~slots[i].live}) - 1
  ELSE Len(slots)

(* make_new_buffer: a BinaryBuffer of `size` zero bytes at position 0,     *)
(* added to the table or assigned to the free slot; returns its id.        *)
MakeNewBuffer(size, type, alignment) ==
  LET id  == GetFreeBuffer
      buf == [live |-> TRUE, data |-> [i \in 1..size |-> 0], position |-> 0,
              alignment |-> alignment, type |-> type, gen |-> created + 1]
  IN  [id |-> id,
       slots |-> IF id = Len(slots) THEN Append(slots, buf)
                 ELSE [slots EXCEPT ![id + 1] = buf]]

(* The size write_to_buffer leaves: only a grow buffer resizes, to the    *)
(* size_t sum data.size() + offset when that exceeds its size.            *)
WrittenSize(buf, n, offset) ==
  IF buf.type = "grow" THEN MaxOf(Len(buf.data), SizeT(n + offset))
  ELSE Len(buf.data)

(* write_to_buffer: the buffer's new data and the undefined behaviour hit. *)
WriteToBuffer(buf, bytes, offset) ==
  LET size == Len(buf.data)
      n    == Len(bytes)
  IN  CASE buf.type = "wrap" ->
             IF size = 0 THEN [data |-> buf.data, ub |-> {"div_zero"}]
             ELSE
             LET off == IF offset >= size THEN offset % size ELSE offset
             IN  IF n + off > size
                 THEN LET extra == n + off - size
                          d1 == WriteBytes(buf.data, SubSeq(bytes, 1, n - extra), off)
                      IN  [data |-> WriteBytes(d1, SubSeq(bytes, n - extra + 1, n), 0),
                           ub |-> IF extra > size THEN {"oob_write"} ELSE {}]
                 ELSE [data |-> WriteBytes(buf.data, bytes, off), ub |-> {}]
        [] buf.type = "grow" ->   \* data.size() + offset is a size_t sum
             LET d == IF SizeT(n + offset) > size THEN Resize(buf.data, SizeT(n + offset))
                      ELSE buf.data
             IN  [data |-> WriteBytes(d, bytes, offset),
                  ub |-> IF OutOfRange(d, offset, n) THEN {"oob_write"} ELSE {}]
        [] OTHER ->   \* buffer_fixed, buffer_fast
             IF offset >= size THEN [data |-> buf.data, ub |-> {}]
             ELSE LET over == IF n + offset > size THEN n + offset - size ELSE 0
                  IN  [data |-> WriteBytes(buf.data, SubSeq(bytes, 1, n - over), offset),
                       ub |-> IF OutOfRange(buf.data, offset, n - over)
                              THEN {"oob_write"} ELSE {}]

(* std::vector::max_size: a larger Resize throws. *)
MaxAlloc == SizeMod \div 2 - 1

(* Mutant: the destination indexed with the source's index.             *)
RECURSIVE CopyBytesSwapped(_, _, _)
CopyBytesSwapped(c, i, st) ==
  IF i >= c.n THEN st
  ELSE LET sd  == st.slots[c.sid + 1].data
           dd  == st.slots[c.did + 1].data
           rOk == c.si[i] < Len(sd)
           wOk == c.si[i] < Len(dd)
           b   == IF rOk THEN sd[c.si[i] + 1] ELSE 0
       IN  CopyBytesSwapped(c, i + 1,
             [slots |-> IF wOk THEN [st.slots EXCEPT ![c.did + 1].data[c.si[i] + 1] = b]
                        ELSE st.slots,
              ub |-> st.ub \cup (IF rOk THEN {} ELSE {"oob_read"})
                           \cup (IF wOk THEN {} ELSE {"oob_write"})])

(* The byte loops of buffer_copy: for i in 0..n-1,                         *)
(* dst.data[di[i]] = src.data[si[i]], reading the table as it is after the *)
(* previous byte (source and destination may be the same buffer).  A read *)
(* past the source's end is undefined; it is recorded and yields 0.        *)
RECURSIVE CopyBytes(_, _, _)
CopyBytes(c, i, st) ==
  IF i >= c.n THEN st
  ELSE LET sd  == st.slots[c.sid + 1].data
           dd  == st.slots[c.did + 1].data
           rOk == c.si[i] < Len(sd)
           wOk == c.di[i] < Len(dd)
           b   == IF rOk THEN sd[c.si[i] + 1] ELSE 0
       IN  CopyBytes(c, i + 1,
             [slots |-> IF wOk THEN [st.slots EXCEPT ![c.did + 1].data[c.di[i] + 1] = b]
                        ELSE st.slots,
              ub |-> st.ub \cup (IF rOk THEN {} ELSE {"oob_read"})
                           \cup (IF wOk THEN {} ELSE {"oob_write"})])

(* buffer_copy on the table: the new slots and the undefined behaviour.    *)
(* The offset checks in order (a non-wrap offset past the end aborts, a   *)
(* wrap offset is reduced modulo the size), written_bytes in size_t, the  *)
(* fixed/fast truncation, the grow resize to dest_offset+written_bytes+1, *)
(* then `size` bytes copied with the index rule of the buffer types.       *)
CopyTable(sid, soff, size, did, doff) ==
  LET src == Buf(sid)
      dst == Buf(did)
      ss  == Len(src.data)
      ds  == Len(dst.data)
      so  == IF soff >= ss THEN soff % ss ELSE soff
      dO  == IF doff >= ds THEN doff % ds ELSE doff
      written0 == IF src.type = "wrap" THEN size ELSE SizeT(MinOf(ss, size) - so)
      written  == IF dst.type \in {"fixed", "fast"} /\ SizeT(dO + written0) > ds
                  THEN SizeT(MinOf(ds, written0) - dO) ELSE written0
      srcWraps == src.type = "wrap" /\ SizeT(so + written) >= ss
      grows    == dst.type = "grow" /\ SizeT(dO + written) >= ds
      newSize  == SizeT(dO + written + 1)
      c == [sid |-> sid, did |-> did, n |-> size,
            si |-> [i \in 0..size - 1 |-> IF srcWraps THEN (i + so) % ss ELSE i + so],
            di |-> [i \in 0..size - 1 |-> IF dst.type = "wrap" THEN (i + dO) % ds
                                         ELSE i + dO]]
  IN  CASE soff >= ss /\ src.type # "wrap" -> [slots |-> slots, ub |-> {}]
        [] soff >= ss /\ ss = 0 -> [slots |-> slots, ub |-> {"div_zero"}]
        [] doff >= ds /\ dst.type # "wrap" -> [slots |-> slots, ub |-> {}]
        [] doff >= ds /\ ds = 0 -> [slots |-> slots, ub |-> {"div_zero"}]
        [] grows /\ newSize > MaxAlloc -> [slots |-> slots, ub |-> {"bad_alloc"}]
        [] OTHER ->
             CopyBytes(c, 0,
               [slots |-> IF grows
                          THEN [slots EXCEPT ![did + 1].data = Resize(@, newSize)]
                          ELSE slots,
                ub |-> {}])

(* BinaryBuffer::Seek, ReadByte and WriteByte (declared outside src/):    *)
(* Seek sets the position; ReadByte and WriteByte access                  *)
(* data[position] and advance it.  A loop of them is modelled by where it *)
(* leaves the position and whether it touched a byte past the end.         *)
Seek(buf, p) == [buf EXCEPT !.position = p]

(* The alignment loops of buffer_read / buffer_write: one byte at a time  *)
(* until the position is a multiple of the alignment.                      *)
AlignedPosition(buf) ==
  SizeT(buf.position + ((buf.alignment - (buf.position % buf.alignment)) % buf.alignment))

(* Whether the alignment loop from the position to p touched a byte past *)
(* the end (it starts past the end, or runs past it).                      *)
PadOutside(buf, p) ==
  p # buf.position /\ (buf.position >= Len(buf.data) \/ p > Len(buf.data))

(* The string skip loop of buffer_read / buffer_write: ReadByte while the *)
(* byte at the position is not 0 and the position is inside the data.     *)
NextZero(data, p) ==
  LET z == {i \in p..Len(data) - 1 : data[i + 1] = 0}
  IN  IF z = {} THEN MaxOf(p, Len(data)) ELSE Min(z)

(* The string case of buffer_peek: the characters from `offset` up to a   *)
(* 0 byte or the end; a wrap buffer continues from the start, and with no *)
(* 0 byte in it the loop never ends.  Returns the length read and whether *)
(* the loop ends.                                                          *)
PeekString(buf, offset) ==
  LET n == Len(buf.data)
  IN  IF offset >= n THEN [len |-> 0, ends |-> TRUE]
      ELSE IF buf.type # "wrap" THEN [len |-> NextZero(buf.data, offset) - offset, ends |-> TRUE]
      ELSE IF \A i \in 1..n : buf.data[i] # 0 THEN [len |-> 0, ends |-> FALSE]
      ELSE LET z == {k \in 0..n - 1 : buf.data[((offset + k) % n) + 1] = 0}
           IN  [len |-> Min(z), ends |-> TRUE]

(* The type test of buffer_read and buffer_write,                         *)
(* `type != buffer_string && type != buffer_string`: buffer_text takes    *)
(* the numeric branch and advances by buffer_sizeof(buffer_text) = 0.      *)
NumericBranch(type) == type # "string"

(* The bytes buffer_write serializes for a value of the type. *)
StreamBytes(type, value) ==
  IF type \in {"string", "text"} THEN SerializeString(Chars)
  ELSE SerializeToType(value, type)

(* Mutant: the string branch without the ReadByte that skips the          *)
(* terminator.                                                             *)
AdvancePastKeepsTerminator(data, p, type) ==
  IF NumericBranch(type) THEN [position |-> SizeT(p + BufferSizeof(type)), oob |-> FALSE]
  ELSE LET z == NextZero(data, p)
       IN  [position |-> z, oob |-> z > Len(data)]

(* After the value: Seek(position + buffer_sizeof) in the numeric branch; *)
(* the skip loop and one ReadByte past the 0 in the string branch.        *)
(* Returns the new position and whether a byte past the end was read.     *)
AdvancePast(data, p, type) ==
  IF NumericBranch(type) THEN [position |-> SizeT(p + BufferSizeof(type)), oob |-> FALSE]
  ELSE LET z == NextZero(data, p)
       IN  [position |-> SizeT(z + 1), oob |-> z >= Len(data)]

(* buffer_peek of an integer type: deserialize_from_type over            *)
(* data.begin() + offset .. + buffer_sizeof(type), and whether that span  *)
(* lies inside the data.                                                   *)
PeekInRange(buf, offset, type) == offset + BufferSizeof(type) <= Len(buf.data)
BufferPeek(buf, offset, type) ==
  DeserializeFromType(SubSeq(buf.data, offset + 1, offset + BufferSizeof(type)), type)

(* The getters of a live buffer the game holds: buffer_tell,              *)
(* buffer_get_size, buffer_get_alignment and buffer_get_type.             *)
BufferTell(id) == Buf(id).position
BufferGetSize(id) == Len(Buf(id).data)
BufferGetAlignment(id) == Buf(id).alignment
BufferGetType(id) == Buf(id).type

-----------------------------------------------------------------------------
Init ==
  /\ slots = <<>>
  /\ handles = {}
  /\ created = 0
  /\ ub = {}
  /\ last = <<>>

(* buffer_create: make_new_buffer; the game holds the returned id. *)
BufferCreate(size, type, alignment) ==
  /\ created < MaxCreates
  /\ LET r == MakeNewBuffer(size, type, alignment)
     IN  /\ slots' = r.slots
         /\ handles' = handles \cup {[id |-> r.id, gen |-> created + 1]}
  /\ created' = created + 1
  /\ last' = <<>>
  /\ UNCHANGED ub

(* buffer_delete: AssetArray::destroy empties the slot. *)
BufferDelete(h) ==
  /\ slots' = [slots EXCEPT ![h.id + 1] = Empty]
  /\ handles' = handles \ {h}
  /\ last' = <<>>
  /\ UNCHANGED <<created, ub>>

(* buffer_resize *)
BufferResize(h, size) ==
  /\ slots' = [slots EXCEPT ![h.id + 1].data = Resize(@, size)]
  /\ last' = <<>>
  /\ UNCHANGED <<handles, created, ub>>

(* buffer_poke: serialize, refuse a write off the end of a fixed or fast   *)
(* buffer or of a grow buffer when `resize` is false, else write_to_buffer.*)
BufferPoke(h, offset, type, value, resize) ==
  LET buf   == Buf(h.id)
      bytes == SerializeToType(value, type)
      w     == WriteToBuffer(buf, bytes, offset)
  IN  IF /\ Len(bytes) + offset > Len(buf.data)
         /\ \/ ~resize /\ buf.type = "grow"
            \/ buf.type \in {"fixed", "fast"}
      THEN /\ last' = <<>>
           /\ UNCHANGED <<slots, handles, created, ub>>
      ELSE /\ Len(w.data) <= MaxSize
           /\ slots' = [slots EXCEPT ![h.id + 1].data = w.data]
           /\ ub' = ub \cup w.ub
           /\ last' = <<[op |-> "poke", id |-> h.id, offset |-> offset,
                             type |-> type, value |-> value]>>
           /\ UNCHANGED <<handles, created>>

(* buffer_load_ext: an unopenable file leaves the buffer alone; otherwise  *)
(* the whole file is read and written with write_to_buffer at `offset`.   *)
BufferLoadExt(h, opened, fileSize, offset) ==
  LET w == WriteToBuffer(Buf(h.id), [i \in 1..fileSize |-> FileByte], offset)
  IN  /\ last' = <<>>
      /\ IF ~opened THEN UNCHANGED <<slots, handles, created, ub>>
         ELSE /\ Len(w.data) <= MaxSize
              /\ slots' = [slots EXCEPT ![h.id + 1].data = w.data]
              /\ ub' = ub \cup w.ub
              /\ UNCHANGED <<handles, created>>

(* buffer_load: a new empty grow buffer is made first; if the file cannot *)
(* be opened the call returns -1, otherwise the data is the file and the  *)
(* id is returned.                                                         *)
BufferLoad(opened, fileSize) ==
  /\ created < MaxCreates
  /\ LET r == MakeNewBuffer(0, "grow", 1)
     IN  IF ~opened
         THEN /\ slots' = r.slots
              /\ UNCHANGED handles
         ELSE /\ slots' = [r.slots EXCEPT ![r.id + 1].data =
                             [i \in 1..fileSize |-> FileByte]]
              /\ handles' = handles \cup {[id |-> r.id, gen |-> created + 1]}
  /\ created' = created + 1
  /\ last' = <<>>
  /\ UNCHANGED ub

(* buffer_copy between two buffers the game holds. *)
BufferCopy(hs, soff, size, hd, doff) ==
  LET r == CopyTable(hs.id, soff, size, hd.id, doff)
  IN  /\ Len(r.slots[hd.id + 1].data) <= MaxSize
      /\ slots' = r.slots
      /\ ub' = ub \cup r.ub
      /\ last' = <<[op |-> "copy", src |-> hs.id, soff |-> soff, size |-> size,
                    dst |-> hd.id, doff |-> doff, dsize |-> Len(Buf(hd.id).data)]>>
      /\ UNCHANGED <<handles, created>>

(* buffer_write: zero padding up to the alignment with WriteByte,        *)
(* serialize, write_to_buffer at the position, then advance past the value.*)
BufferWrite(h, type, value) ==
  LET buf   == Buf(h.id)
      p     == AlignedPosition(buf)
      pad   == [i \in DOMAIN buf.data |-> IF i - 1 \in buf.position..p - 1 THEN 0
                                        ELSE buf.data[i]]
      bytes == StreamBytes(type, value)
      w     == WriteToBuffer([buf EXCEPT !.data = pad], bytes, p)
      a     == AdvancePast(w.data, p, type)
  IN  /\ WrittenSize(buf, Len(bytes), p) <= MaxSize
      /\ InPositionBound(a.position)
      /\ slots' = [slots EXCEPT ![h.id + 1] =
                     [Seek(@, a.position) EXCEPT !.data = w.data]]
      /\ ub' = ub \cup w.ub
               \cup (IF PadOutside(buf, p) THEN {"oob_write"} ELSE {})
               \cup (IF a.oob THEN {"oob_read"} ELSE {})
      /\ last' = <<[op |-> "write", id |-> h.id, type |-> type, value |-> value,
                    at |-> p, width |-> Len(bytes)]>>
      /\ UNCHANGED <<handles, created>>

(* buffer_read: skip the alignment padding with ReadByte, buffer_peek at  *)
(* the position, then advance past the value.  A string peek that never   *)
(* finds its end is recorded as "hang".                                    *)
BufferRead(h, type) ==
  LET buf == Buf(h.id)
      p   == AlignedPosition(buf)
      num == type \in IntTypes
      str == PeekString(buf, p)
      a   == AdvancePast(buf.data, p, type)
  IN  /\ InPositionBound(a.position)
      /\ slots' = [slots EXCEPT ![h.id + 1] = Seek(@, a.position)]
      /\ ub' = ub \cup (IF PadOutside(buf, p)
                          \/ a.oob
                          \/ (num /\ ~PeekInRange(buf, p, type))
                        THEN {"oob_read"} ELSE {})
                   \cup (IF ~num /\ ~str.ends THEN {"hang"} ELSE {})
      /\ last' = <<[op |-> "read", id |-> h.id, type |-> type, at |-> p,
                    width |-> IF num THEN BufferSizeof(type) ELSE str.len + 1]>>
      /\ UNCHANGED <<handles, created>>

(* buffer_seek: Seek to the offset (a long long converted to size_t) from *)
(* the start, from GetSize() - 1, or from the position.                    *)
BufferSeek(h, base, offset) ==
  LET buf == Buf(h.id)
      to  == CASE base = "start"    -> SizeT(offset)
               [] base = "end"      -> SizeT(Len(buf.data) - 1 + offset)
               [] base = "relative" -> SizeT(buf.position + offset)
  IN  /\ InPositionBound(to)
      /\ slots' = [slots EXCEPT ![h.id + 1] = Seek(@, to)]
      /\ last' = <<>>
      /\ UNCHANGED <<handles, created, ub>>

(* buffer_fill.  The alignment loop advances `offset` to the alignment   *)
(* (or the end) but writes its zeros with WriteByte at the position.  The *)
(* size is clamped to the end (GetSize() - offset, which wraps when the   *)
(* offset is past the end).  The value is laid out `times` times as its   *)
(* bytes and zero padding, then the remainder: the bytes once more if     *)
(* they fit, and the bytes again where the padding belongs when the rest *)
(* is at least the padding.  Finally Seek(0).                             *)
BufferFill(h, offset, type, value, size) ==
  LET buf   == Buf(h.id)
      len   == Len(buf.data)
      al    == buf.alignment
      off   == IF offset >= len THEN offset
               ELSE MinOf(offset + ((al - (offset % al)) % al), len)
      k     == off - offset
      sz    == IF off + size > len THEN SizeT(len - off) ELSE size
      bytes == SerializeToType(value, type)
      n     == Len(bytes)
      pad   == IF n % al # 0 THEN al - (n % al) ELSE 0
      es    == n + pad
      times == sz \div es
      rem   == sz % es
      tail  == rem # 0 /\ rem >= n
      extra == tail /\ rem - n >= pad
      end   == off + times * es + (IF tail THEN n ELSE 0) + (IF extra THEN n ELSE 0)
      Fill(j) ==  \* the byte written at off + j
        CASE j < times * es     -> IF j % es < n THEN bytes[(j % es) + 1] ELSE 0
          [] j < times * es + n -> bytes[j - times * es + 1]
          [] OTHER              -> bytes[j - times * es - n + 1]
      data  == [i \in DOMAIN buf.data |->
                  CASE i - 1 \in off..end - 1 -> Fill(i - 1 - off)
                    [] i - 1 \in buf.position..buf.position + k - 1 -> 0
                    [] OTHER -> buf.data[i]]
  IN  /\ slots' = [slots EXCEPT ![h.id + 1] = [Seek(@, 0) EXCEPT !.data = data]]
      /\ ub' = ub \cup (IF (k > 0 /\ buf.position + k > len) \/ (end > off /\ end > len)
                        THEN {"oob_write"} ELSE {})
      /\ last' = <<>>
      /\ UNCHANGED <<handles, created>>

(* buffer_save_ext with a file that opens (a failed open returns with no *)
(* effect): the offset checks, the truncation                            *)
(* std::min(GetSize(), size) - offset, which wraps when size < offset,   *)
(* then write_to_file of `size` bytes from data.begin() + offset.  The   *)
(* buffer is only read.                                                   *)
BufferSaveExt(h, offset, size) ==
  LET buf == Buf(h.id)
      len == Len(buf.data)
      off == IF offset >= len THEN offset % MaxOf(len, 1) ELSE offset
      sz  == IF off + size >= len THEN SizeT(MinOf(len, size) - off) ELSE size
  IN  /\ ub' = ub \cup
               CASE offset >= len /\ buf.type = "wrap" /\ len = 0 -> {"div_zero"}
                 [] offset >= len /\ buf.type # "wrap"           -> {}
                 [] OTHER -> IF sz > 0 /\ off + sz > len THEN {"oob_read"} ELSE {}
      /\ last' = <<>>
      /\ UNCHANGED <<slots, handles, created>>

Next ==
  \/ \E s \in Sizes, t \in BufferTypes, a \in Alignments : BufferCreate(s, t, a)
  \/ \E h \in handles : BufferDelete(h)
  \/ \E h \in handles, s \in Sizes : BufferResize(h, s)
  \/ \E h \in handles, o \in Offsets, t \in PokeTypes, v \in Values, r \in BOOLEAN :
       BufferPoke(h, o, t, v, r)
  \/ \E h \in handles, ok \in BOOLEAN, n \in FileSizes, o \in Offsets :
       BufferLoadExt(h, ok, n, o)
  \/ \E ok \in BOOLEAN, n \in FileSizes : BufferLoad(ok, n)
  \/ \E hs, hd \in handles, so, do \in Offsets, n \in CopySizes :
       BufferCopy(hs, so, n, hd, do)
  \/ \E h \in handles, t \in StreamTypes, v \in Values : BufferWrite(h, t, v)
  \/ \E h \in handles, t \in StreamTypes : BufferRead(h, t)
  \/ \E h \in handles, b \in {"start", "end", "relative"}, o \in SeekOffsets :
       BufferSeek(h, b, o)
  \/ \E h \in handles, o \in Offsets, t \in PokeTypes, v \in Values, n \in FillSizes :
       BufferFill(h, o, t, v, n)
  \/ \E h \in handles, o \in Offsets, n \in CopySizes : BufferSaveExt(h, o, n)

Spec == Init /\ [][Next]_vars

-----------------------------------------------------------------------------
TypeOK ==
  /\ \A i \in DOMAIN slots :
       /\ slots[i].type \in BufferTypes \cup {"grow"}
       /\ slots[i].data \in Seq(0..255)
  /\ handles \subseteq [id : Nat, gen : 1..MaxCreates]
  /\ created \in 0..MaxCreates
  /\ ub \subseteq {"oob_write", "oob_read", "div_zero", "bad_alloc", "hang"}

(* Buffer ids stay valid: every id buffer_create or buffer_load returned  *)
(* and the game has not deleted names a live buffer, the very one it was  *)
(* given (get_free_buffer / make_new_buffer never hand out or overwrite a *)
(* slot still in use, across deletes and slot reuse).                     *)
HandlesStayValid ==
  \A h \in handles : h.id \in LiveIds /\ Buf(h.id).gen = h.gen

(* Every live buffer is reachable by the game: no call creates a buffer   *)
(* whose id it does not return (buffer_load makes its buffer before it    *)
(* opens the file and returns -1 if the open fails).                      *)
NoLeakedBuffer == \A id \in LiveIds : \E h \in handles : h.id = id

(* Every buffer call reads and writes only inside its buffer and never   *)
(* divides by zero: write_to_buffer's wrap case (offset % GetSize() on a  *)
(* buffer_create'd size 0, a value wider than the buffer), buffer_copy's  *)
(* loops over `size`, buffer_fill's clamp GetSize() - offset and          *)
(* buffer_save_ext's std::min(GetSize(), size) - offset must each keep    *)
(* the bytes they touch inside the data.                                  *)
AccessesInBounds == ub \cap {"oob_read", "oob_write", "div_zero"} = {}

(* buffer_write and buffer_read are stream calls: one that handled a value *)
(* lying inside the data returns, leaves the position just past the value *)
(* (after the alignment padding, the bytes of a number or the characters  *)
(* and terminator of a string) so the next call starts at the next value, *)
(* and a number written there reads back as written.  It needs the type   *)
(* tests of both functions, the skip loop and the string scan of          *)
(* buffer_peek to agree.                                                   *)
StreamCallsAdvance ==
  /\ "hang" \notin ub
  /\ last # <<>> /\ last[1].op \in {"write", "read"}
     /\ last[1].at + last[1].width <= Len(Buf(last[1].id).data)
     => LET c == last[1]
        IN  /\ BufferTell(c.id) = c.at + c.width
            /\ c.op = "write" /\ c.type \in IntTypes
               => BufferPeek(Buf(c.id), c.at, c.type) = AsType(c.value, c.type)

(* A buffer_copy whose source span [src_offset, src_offset+size) and      *)
(* destination span [dest_offset, dest_offset+size) lie inside two        *)
(* distinct buffers copies exactly those bytes (written_bytes, the grow   *)
(* resize and the index rules agree with the spans).                      *)
CopyCopiesBytes ==
  last # <<>> /\ last[1].op = "copy" /\ last[1].src # last[1].dst
  /\ last[1].soff + last[1].size <= Len(Buf(last[1].src).data)
  /\ last[1].doff + last[1].size <= last[1].dsize
  => LET c == last[1]
     IN  /\ c.doff + c.size <= Len(Buf(c.dst).data)
         /\ \A i \in 0..c.size - 1 :
              Buf(c.dst).data[c.doff + i + 1] = Buf(c.src).data[c.soff + i + 1]

(* The same for a fixed, fast or wrap destination: written_bytes only    *)
(* decides the grow resize and whether a wrap source wraps, so in-span    *)
(* copies into the other buffer types copy exactly the span.              *)
CopyIntoFixedOrWrapCopiesBytes ==
  last # <<>> /\ last[1].op = "copy" /\ Buf(last[1].dst).type # "grow"
  /\ last[1].src # last[1].dst
  /\ last[1].soff + last[1].size <= Len(Buf(last[1].src).data)
  /\ last[1].doff + last[1].size <= last[1].dsize
  => LET c == last[1]
     IN  \A i \in 0..c.size - 1 :
           Buf(c.dst).data[c.doff + i + 1] = Buf(c.src).data[c.soff + i + 1]

=============================================================================
