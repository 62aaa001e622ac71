SPECIFICATION Spec
CONSTANTS
  c1 = c1
  c2 = c2
  CPU = {c1}
  Slot = {s1}
  KVA = {k1}
  Pfn = {p1, p2}
  None = None
  GenMod = 4
  WrapMod = 2
  MaxGen = 4
  Does <- MapAndPfns
INVARIANTS WrapFriendly
