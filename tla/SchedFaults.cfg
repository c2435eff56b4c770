\* Two vcpus and two words of bm_run_fn; lost kicks, kicks repeated, spurious wake-ups, user
\* functions stopped by an exception.
SPECIFICATION Spec
CONSTANTS
  c0 = c0
  c1 = c1
  c2 = c2
  s = s
  a = a
  b = b
  t = t
  Null = Null
  Cpu0 = c0
  Start = s
  Cpu <- TwoCpus
  Fn = {s, a, b}
  Succ <- Fork
  Word <- TwoWords
  LastWord = 1
  SpuriousWakeUps = TRUE
  KickMayBeLost = TRUE
  RekickThdPasses = TRUE
  UserFaults = TRUE
INVARIANTS
  TypeOK
  WakeToken
  SnapshotDrains
  NoStrandedWork
  RunnableExact
PROPERTY
  RefinesDag
CHECK_DEADLOCK FALSE
