\* Expected to fail: StreamCallsAdvance, buffer_write and buffer_read of
\* buffer_text leave the position where it was.
CONSTANTS
  BufferTypes = {"grow"}
  Sizes = {0}
  Alignments = {1}
  Offsets = {0}
  CopySizes = {}
  PokeTypes = {"u8"}
  Values <- MCValueOnes
  StreamTypes = {"text"}
  SeekOffsets <- MCSeekOffsets
  FillSizes = {}
  FileSizes = {}
  MaxCreates = 1
  MaxSize = 2
  SizeMod <- MCSizeMod
SPECIFICATION Spec
INVARIANTS
  StreamCallsAdvance
CHECK_DEADLOCK FALSE
