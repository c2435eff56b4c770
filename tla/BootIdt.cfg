\* Two vcpus that keep executing: is the wait for the IDT left once it is filled?
SPECIFICATION FairSpec
CONSTANTS
  PoolSz = 2
  WordBits = 64
PROPERTY
  WaitersProceed
CHECK_DEADLOCK FALSE
