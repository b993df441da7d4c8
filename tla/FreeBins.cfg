SPECIFICATION BinsSpec
CONSTANTS
  Block = {b1, b2, b3, b4}
  UsableSize <- CacheSizes
  Request <- CacheRequests
  threadcache_max = 64
  max_free_space = 160
  oldest_age = 4
  slack = 32
  MaxFrees = 6
  Null = Null
  SizeBits = 12
  SIZE_T_SIZE = 8
  MALLOC_ALIGNMENT = 16
  NTREEBINS = 4
  SMALLBIN_SHIFT = 3
  TREEBIN_SHIFT = 8
  NULL = 0
  BIN = 100
  Chunk <- FiveChunks
  Size <- LargeSizes
  ChunkRequest <- TreeRequests
SYMMETRY
  Symmetry
INVARIANTS
  BinsLinked
  RequestFits
  CacheBounded
  TreesChecked
  BestFit
  OldestFirst
PROPERTY
  OldestLeaveFirst
