SPECIFICATION FairSpec
CONSTANTS
  c1 = c1
  c2 = c2
  CPU = {c1, c2}
  Slot = {}
  KVA = {k1}
  Pfn = {p1}
  None = None
  GenMod = 64
  WrapMod = 4
  MaxGen = 1
  Does <- WalkAndCommit
INVARIANTS GenNotAhead StaleDetectable
PROPERTIES CommitReaches
