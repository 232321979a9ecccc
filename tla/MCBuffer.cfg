\* Two buffers over a behaviour (so a freed slot is reused), sizes up to 2.
CONSTANTS
  BufferTypes = {"grow", "fixed"}
  Sizes = {0, 2}
  Alignments = {2}
  Offsets = {1}
  CopySizes = {}
  PokeTypes = {"s16"}
  Values <- MCValueOnes
  StreamTypes = {"u8", "string"}
  SeekOffsets <- MCSeekOffsets
  FillSizes = {2}
  FileSizes = {2}
  MaxCreates = 2
  MaxSize = 2
  SizeMod <- MCSizeMod
SPECIFICATION Spec
INVARIANTS
  TypeOK
  HandlesStayValid
  StreamCallsAdvance
\* The game may stop calling once its buffers are made.
CHECK_DEADLOCK FALSE
