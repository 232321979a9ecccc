\* Expected to fail: TokensAccounted, on short streams.
CONSTANTS
  Alphabet <- MCAlphabetAll
  MaxLen = 3
  MaxStatements = 4
SPECIFICATION Spec
INVARIANTS
  TokensAccounted
CHECK_DEADLOCK FALSE
