\* Expected to fail: NoLeakedBuffer.
CONSTANTS
  BufferTypes = {"grow", "fixed", "wrap"}
  Sizes = {0, 2}
  Alignments = {1}
  Offsets = {0, 1, 2}
  CopySizes = {}
  PokeTypes = {"u8", "s16"}
  Values <- MCValues
  StreamTypes = {}
  SeekOffsets = {}
  FillSizes = {}
  FileSizes = {2}
  MaxCreates = 2
  MaxSize = 3
  SizeMod <- MCSizeMod
SPECIFICATION Spec
INVARIANTS
  NoLeakedBuffer
\* The game may stop calling once its buffers are made.
CHECK_DEADLOCK FALSE
