\* Three vcpus, from reset to sched().  A vcpu may wait for the IDT for ever, see BootIdt.cfg.
SPECIFICATION Spec
CONSTANTS
  PoolSz = 3
  WordBits = 64
INVARIANTS
  TypeOK
  IdtFilledBeforeUse
  LtrReadsOwn
  BarrierWaitsForAll
  HandsOver
CHECK_DEADLOCK FALSE
