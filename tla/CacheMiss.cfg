\* Two slots for three pages: "Not present in the cache." (cache.h:144).
SPECIFICATION MCSpec
CONSTANTS
  Parts = {"cache"}
  CPU = {c1, c2}
  None = None
  NoResult = NoResult
  Node <- NoNodes
  RootLink = RootLink
  Null = Null
  Key <- NoKeys
  WORDLOG2 = 2
  Order = 5
  Addr <- FarAddr
  Slot <- TwoSlots
  Address = {1, 2, 3}
  Crowd <- SmallOnly
  Umap = {u1, u2}
  VA = {v1}
  Pfn = {f1}
  MaxChanges = 2
INVARIANTS MissIsAbsent
