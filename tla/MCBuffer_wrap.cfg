\* Expected to fail: AccessesInBounds, a poke into an empty wrap buffer or a
\* 4-byte value into a 1-byte wrap buffer. buffer_fill and buffer_save_ext
\* from an offset past the end reach outside the data too, and so does
\* buffer_read of an empty buffer, or after buffer_seek to its end - 1,
\* which wraps the position to SIZE_MAX.
CONSTANTS
  BufferTypes = {"wrap", "grow"}
  Sizes = {0, 1}
  Alignments = {1}
  Offsets = {0, 2}
  CopySizes = {1, 2}
  PokeTypes = {"s32"}
  Values <- MCValues
  StreamTypes = {"u8"}
  SeekOffsets = {0}
  FillSizes = {1}
  FileSizes = {}
  MaxCreates = 1
  MaxSize = 3
  SizeMod <- MCSizeMod
SPECIFICATION Spec
INVARIANTS
  AccessesInBounds
CHECK_DEADLOCK FALSE
