\* Expected to fail: NoPhantomParenthetical, on short streams.
CONSTANTS
  Alphabet <- MCAlphabetAll
  MaxLen = 3
  MaxStatements = 4
SPECIFICATION Spec
INVARIANTS
  NoPhantomParenthetical
CHECK_DEADLOCK FALSE
