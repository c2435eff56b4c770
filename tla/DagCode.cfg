\* All dags of up to four functions; bytes of 4 bits, words of 2.
SPECIFICATION Spec
CONSTANTS
  MaxNodes = 4
  Byte = 16
  WordBits = 2
INVARIANTS
  TypeOK
  InOrder
  RunsAll
