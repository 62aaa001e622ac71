SPECIFICATION Spec
CONSTANTS
  c1 = c1
  c2 = c2
  CPU = {c1, c2}
  Slot = {s1}
  KVA = {}
  Pfn = {p1, p2}
  None = None
  GenMod = 64
  WrapMod = 4
  MaxGen = 1
  Does <- PfnsAndFlushes
SYMMETRY Symmetry
INVARIANTS TypeOK PfnGetFresh
PROPERTIES CgenMonotone
