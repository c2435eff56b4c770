\* Three vcpus, no lost kick and no spurious wake-up: does the recovery code repair?
SPECIFICATION Spec
CONSTANTS
  c0 = c0
  c1 = c1
  c2 = c2
  s = s
  a = a
  b = b
  t = t
  Null = Null
  Cpu0 = c0
  Start = s
  Cpu <- ThreeCpus
  Fn = {s, a, b}
  Succ <- Fork
  Word <- OneWord
  LastWord = 0
  SpuriousWakeUps = FALSE
  KickMayBeLost = FALSE
  RekickThdPasses = FALSE
  UserFaults = FALSE
SYMMETRY Alike
INVARIANT
  RecoveryRepairs
