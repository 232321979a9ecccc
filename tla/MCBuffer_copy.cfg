\* buffer_copy between buffers of every type, with content from buffer_poke.
SPECIFICATION Spec
CONSTANTS
  BufferTypes = {"grow", "fixed", "wrap"}
  Sizes = {1, 3}
  Alignments = {1}
  Offsets = {0, 2}
  CopySizes = {1, 2}
  PokeTypes = {"u8"}
  Values <- MCValueOnes
  StreamTypes = {}
  SeekOffsets = {}
  FillSizes = {}
  FileSizes = {}
  MaxCreates = 2
  MaxSize = 3
  SizeMod <- MCSizeMod
INVARIANTS
  CopyIntoFixedOrWrapCopiesBytes
CHECK_DEADLOCK FALSE
