CONSTANTS
  MaxOrder = 2
  InitialBlocks = 2
  MinBlock = 4
  MetaSize = 2
  Page = 8
  HugePage = 64
  HugeSmalloc = 60
  HugeScalloc = 32
  MaxAlloc = 31
  SizeT = 1000
  Sizes = {2, 14}
  Nums = {}
  MmapIds = {mm1}
  Null = Null
SPECIFICATION Spec
INVARIANTS FreeListsHoldAllFree
