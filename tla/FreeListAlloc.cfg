CONSTANTS
  MetaSize = 2
  MaxAlloc = 6
  SizeT = 100
  Limit = 17
  Sizes = {1, 3, 6}
  Nums = {2}
  Steps = {1}
SPECIFICATION Spec
INVARIANTS ListSound StatsExact
PROPERTIES ImplementsAllocator
