\* buffer_copy against CopyCopiesBytes.
SPECIFICATION Spec
CONSTANTS
  BufferTypes = {"grow", "fixed", "wrap"}
  Sizes = {1, 3}
  Alignments = {1}
  Offsets = {0, 2}
  CopySizes = {1, 2}
  PokeTypes = {"u8"}
  Values <- MCValueOnes
  StreamTypes = {}
  SeekOffsets = {}
  FillSizes = {}
  FileSizes = {}
  MaxCreates = 2
  MaxSize = 3
  SizeMod <- MCSizeMod
INVARIANT
  CopyCopiesBytes
CHECK_DEADLOCK FALSE
