\* Three vcpus that print, and may fault while they do.
SPECIFICATION FairSpec
CONSTANTS
  Cpu = {c0, c1, c2}
  RetryCount = 2
  MaxLine = 2
  BadArgument = TRUE
  NoCpu = NoCpu
INVARIANTS
  TypeOK
  LinesWhole
PROPERTY
  SomeoneGetsIn
CHECK_DEADLOCK FALSE
