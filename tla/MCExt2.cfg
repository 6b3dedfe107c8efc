SPECIFICATION FairSpec
CONSTANTS
  NBlocks = 3
  Disk <- SparseDisk
  InodeTable <- MCInodeTable
  InodesPerGroup = 4
  InodesPerBlock = 2
  BlockSize = 2
  EXT2_NDIR_BLOCKS = 2
  Ptrs = 4
  LinkInInode = 1
  MaxDirBlocks = 1
  Paths <- MCPaths
  Spans <- MCSpans
  MaxErrors = 1
INVARIANTS CacheCoherent BlocksReturned OpensNamed ReadsFile
PROPERTY CallsReturn
