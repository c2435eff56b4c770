\* Three vcpus, two barriers in a row.  A vcpu may halt for ever, see LostOnlyEarly.
SPECIFICATION Spec
CONSTANTS
  Cpu = {c0, c1, c2}
  RetryCount = 1
  MaxRound = 2
  None = None
INVARIANTS
  TypeOK
  Together
  LostOnlyEarly
SYMMETRY Pool
CHECK_DEADLOCK FALSE
