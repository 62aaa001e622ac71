\* The trees, the PFN cache, and user mappings on two CPUs, one at a time.
SPECIFICATION MCSpec
CONSTANTS
  Parts = {"rb", "stree", "cache", "umap"}
  CPU = {c1, c2}
  None = None
  NoResult = NoResult
  Node <- NineNodes
  RootLink = RootLink
  Null = Null
  Key <- NineKeys
  WORDLOG2 = 2
  Order = 5
  Addr <- FarAddr
  Slot <- ThreeSlots
  Address = {1, 2, 3, 4}
  Crowd <- SmallAndLarge
  Umap = {u1, u2}
  VA = {v1}
  Pfn = {f1, f2}
  MaxChanges = 2
SYMMETRY Symmetry
INVARIANTS RedBlack LookupsRight FreeIsUnused HeldKeepsPage UserView MaskCovers
 
