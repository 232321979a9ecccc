\* Every token kind, streams of up to 4 tokens.
CONSTANTS
  Alphabet <- MCAlphabetAll
  MaxLen = 4
  MaxStatements = 5
SPECIFICATION Spec
INVARIANTS
  TypeOK
  TreeInSourceOrder
  RecoveryKeepsGroups
\* The caller stops collecting once the parse is done: no step follows.
CHECK_DEADLOCK FALSE
