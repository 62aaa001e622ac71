SPECIFICATION MCSpec
CONSTANTS
  Parts = {"boot"}
  Fan = 8
  BOOTMEM = 60
  Maps <- MCMaps
  MaxRegions = 4
  Mmapsize = 8
  Dtb <- MCDtb
  NoAddr = 1000
  Machines <- MCMachines
  Kernels <- MCKernels
  Users <- MCUsers
  MmapEnd = 64
  InfoSize = 4
  RegionSize = 2
  WordBits = 16
  FrameBuffer <- MCFrameBuffer
  TrampCode <- MCTrampCode
  Pinned = {0, 2}
  CPU = {0, 1, 2}
  Bsp = 0
  Tables <- MCTables
  APIC_VECT_IRQMAX = 19
  MAXCPUS = 2
  GSI = {3, 9, 17}
  Alarms = {0, 2}
  MaxCtr = 5
  Trees <- MCTrees
  Irq = {1, 2}
  MaxOps = 4
  Printers = {0, 1}
  First = 0
  Fbs <- MCFbs
  GlyphW = 2
  GlyphH = 2
  FB_ROWCHARS = 2
  MaxChars = 3
PROPERTY PanicTellsAll
CHECK_DEADLOCK FALSE
