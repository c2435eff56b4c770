\* Two vcpus on a stack of two elements.
SPECIFICATION Spec
CONSTANTS
  Cpu = {c0, c1}
  Elem = {x, y}
  tsz = 2
  NoCpu = NoCpu
INVARIANTS
  TypeOK
  InBounds
PROPERTY
  Linearizable
