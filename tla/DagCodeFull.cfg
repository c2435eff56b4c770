\* Bytes of 3 bits, four words of 2 bits: dags of up to half of MAX_FUNC.
SPECIFICATION Spec
CONSTANTS
  MaxNodes = 4
  Byte = 8
  WordBits = 2
INVARIANT
  RunsAll
