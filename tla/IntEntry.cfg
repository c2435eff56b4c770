\* An exception with an error code, one without, and the interrupt 0x40.
SPECIFICATION FairSpec
CONSTANTS
  Vector = {3, 14, 64}
  ErrorVector = {14}
INVARIANTS
  TypeOK
  HandlerFrame
  ContextRestored
  SyscallReturns
PROPERTIES
  KickTaken
