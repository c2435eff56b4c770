SPECIFICATION Spec
CONSTANTS
  Bits <- SmallBits
  NtoaSize = 6
  FracBits = 8
  Mantissa = 8
  MaxFloatPrec = 2
  DefaultFloatPrec = 1
  MaxBuffer = 11
  Call <- Calls
INVARIANTS
  TypeOK
  OutsideNotPrinted
  AsInC
  Delivered
  StreamComplete
CHECK_DEADLOCK FALSE
