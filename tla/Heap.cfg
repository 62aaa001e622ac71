\* Two CPUs: every allocator above pages, one at a time.
SPECIFICATION MCSpec
CONSTANTS
  Parts = {"heap", "trim", "kva", "slab"}
  CPU = {c1, c2}
  ORDMAX = 3
  Base = 2
  HeapLimit = 6
  TrimLimit = 8
  PG = 2
  UINT = 4
  Sizes = {1, 2}
  BrkTargets = {4}
  Pfn = {p1}
  None = None
  kvabase = 1
  kvasize = 5
  KvaSizes = {1, 3}
  SlabId = {s1, s2}
  NoSlab = NoSlab
  Objs = 3
  MaxOwned = 4
SYMMETRY Symmetry
INVARIANTS OneOwner MagicIsEntry 
INVARIANTS Coalesced FreeUnmapped SlabSound
PROPERTIES IsVaPool
