CONSTANTS
  MaxOrder = 2
  InitialBlocks = 3
  MinBlock = 4
  MetaSize = 2
  Page = 8
  HugePage = 32
  HugeSmalloc = 30
  HugeScalloc = 20
  MaxAlloc = 30
  SizeT = 1000
  Sizes = {2, 14, 30}
  Nums = {1, 10}
  MmapIds = {mm1, mm2}
  Null = Null
SPECIFICATION Spec
SYMMETRY Symmetry
INVARIANTS BlocksTileHeap ListsSound Coalesced EverythingComesBack MappedExactly
PROPERTIES HandsOff ImplementsAllocator
