\* Two vcpus, a dag of four functions with a join, hlt returns only when kicked, any kick
\* may fail to wake its vcpu.
SPECIFICATION FairSpec
CONSTANTS
  c0 = c0
  c1 = c1
  c2 = c2
  s = s
  a = a
  b = b
  t = t
  Null = Null
  Cpu0 = c0
  Start = s
  Cpu <- TwoCpus
  Fn = {s, a, b, t}
  Succ <- Diamond
  Word <- OneWord
  LastWord = 0
  SpuriousWakeUps = FALSE
  KickMayBeLost = TRUE
  RekickThdPasses = FALSE
  UserFaults = FALSE
INVARIANTS
  RunnableExact
  InCountExact
  FreeExact
  WinnerAlone
  Lifecycle
PROPERTIES
  RefinesDag
  DagProgress
