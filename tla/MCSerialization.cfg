\* Every 8- and 16-bit value in the casts' defined range, sampled 32-bit values.
SPECIFICATION Spec
INVARIANTS
  TypeOK
  SerializationRoundTrip
\* A conversion ends once its bytes are read back.
CHECK_DEADLOCK FALSE
