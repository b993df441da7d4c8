SPECIFICATION Spec
CHECK_DEADLOCK FALSE
CONSTANTS
  SizeBits = 14
  SIZE_T_SIZE = 8
  MALLOC_ALIGNMENT = 16
  NTREEBINS = 6
  SMALLBIN_SHIFT = 3
  TREEBIN_SHIFT = 6
  NULL = 0
  BIN = 1
  MARK <- Mark
  Limit = 1408
  page_size = 64
  granularity = 256
  mmap_threshold = 128
  trim_threshold = 256
  MAX_RELEASE_CHECK_RATE = 2
  MSIZE = 48
  Worlds <- Settings
  HomeSize = 256
  AlwaysBytes <- AlwaysRequests
  Products <- CallocProducts
  SizeLists <- Lists
  MaxHeld = 2
INVARIANTS
  StateChecked
  EveryChunkHasOneOwner
  RequestFits
  NeverAborts
PROPERTY
  ImplementsHeap
