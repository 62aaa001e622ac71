\* Two CPUs allocate and free pages while a third replaces the allocator;
\* two CPUs share a slab cache.
SPECIFICATION MCFairSpec
CONSTANTS
  Parts = {"pfn", "slab"}
  CPU = {c1, c2, c3}
  None = None
  Page = {1, 2}
  Allocator <- WithCustom
  Users = {c1, c2}
  Switchers = {c3}
  Switches <- WithCustom
  MaxAvail = 2
  SlabCPU = {c1, c2}
  SlabId = {s1, s2}
  NoSlab = NoSlab
  Objs = 3
  MaxOwned = 3
INVARIANTS PageOnce OneAllocator
PROPERTIES IsPagePool SomeoneReturns SlabReturns
