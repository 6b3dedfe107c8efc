SPECIFICATION Spec
CONSTANTS
  NBlocks = 3
  Disk <- DenseDisk
  InodeTable <- MCInodeTable
  InodesPerGroup = 4
  InodesPerBlock = 2
  BlockSize = 2
  EXT2_NDIR_BLOCKS = 2
  Ptrs = 4
  LinkInInode = 1
  MaxDirBlocks = 1
  Paths <- MCPaths
  Spans <- DindSpans
  MaxErrors = 0
INVARIANT ReadsFile
