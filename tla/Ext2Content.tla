---------------------------- MODULE Ext2Content ----------------------------
(***************************************************************************)
(* What an ext2 file system contains, as a reference for Ext2: the blocks  *)
(* of a file as the leaves of the trees in its inode, in order, and the    *)
(* inode that a path names, by recursion on the path.                      *)
(***************************************************************************)
EXTENDS Ext2

LOCAL INSTANCE SequencesExt

\* The device blocks below pointer b of the given level, 0 for holes.
Leaves ==
  LET sub[level \in 0..3] ==
        [b \in DOMAIN Disk \cup {0} |->
           IF level = 0 THEN <<b>>
           ELSE IF b = 0 THEN [i \in 1..Ptrs^level |-> 0]
           ELSE IF \E i \in 0..Ptrs - 1 : i \notin DOMAIN Disk[b] THEN <<>>
           ELSE FlattenSeq([i \in 1..Ptrs |-> sub[level - 1][Disk[b][i - 1]]])]
  IN  sub

FileBlocks(i) ==
  [k \in 1..EXT2_NDIR_BLOCKS |-> i.blocks[k - 1]]
  \o Leaves[1][i.blocks[EXT2_NDIR_BLOCKS]]
  \o Leaves[2][i.blocks[EXT2_NDIR_BLOCKS + 1]]
  \o Leaves[3][i.blocks[EXT2_NDIR_BLOCKS + 2]]

\* The bytes offset .. offset + len - 1 of a file, as far as it goes.
Bytes(i, offset, len) ==
  LET blocks == FileBlocks(i)
      n == IF offset >= i.size THEN 0
           ELSE IF offset + len < i.size THEN len ELSE i.size - offset
      at(j) == LET b == blocks[j \div BlockSize + 1]
               IN  IF b = 0 THEN Zero ELSE <<b, j % BlockSize>>
  IN  [k \in 1..n |-> at(offset + k - 1)]

-----------------------------------------------------------------------------
InodeOf(num) == Disk[InodeBlock(num)][InodePlace(num)]

\* The inode numbers that directory i gives to name.
Named(i, name) ==
  LET n == (i.size + BlockSize - 1) \div BlockSize
      blocks == {FileBlocks(i)[k] : k \in 1..n} \ {0}
  IN  UNION {{Disk[b][e].inode : e \in {e \in DOMAIN Disk[b] : Disk[b][e].name = name}}
             : b \in blocks}

Target(i) ==
  IF i.size <= LinkInInode THEN i.link ELSE Disk[FileBlocks(i)[1]][1]

\* The inode that a path names, with links nested no deeper than MaxRecurse;
\* 0 if there is none.
RECURSIVE Resolve(_, _, _)
Resolve(dir, path, depth) ==
  IF depth > MaxRecurse \/ path = <<>> \/ Named(InodeOf(dir), Head(path)) = {} THEN 0
  ELSE LET n == CHOOSE n \in Named(InodeOf(dir), Head(path)) : TRUE
           link == Target(InodeOf(n))
           to == IF InodeOf(n).mode # "lnk" THEN n
                 ELSE Resolve(IF link.abs THEN EXT2_ROOTINO ELSE dir, link.path, depth + 1)
       IN  IF to = 0 \/ Len(path) = 1 THEN to
           ELSE IF InodeOf(to).mode # "dir" THEN 0
           ELSE Resolve(to, Tail(path), depth)

-----------------------------------------------------------------------------
(***************************************************************************)
(* Properties.                                                             *)
(***************************************************************************)

\* ext2_open_file opens the file that the path names, through links and over
\* directories of several blocks, and fails only when there is none; whatever
\* was in the cache before.
OpensNamed ==
  (pc = "idle" /\ call.op = "open" /\ errors = 0) =>
    LET n == Resolve(EXT2_ROOTINO, call.arg, 1)
    IN  IF call.ok THEN n # 0 /\ file.inode = InodeOf(n) ELSE n = 0

\* ext2_read_file returns the bytes of the file, holes as zeros, for reads that
\* start or end inside a block or cross from one level of tables to the next
\* ("translate a file block to a physical block", file_block_to_fs_block).
ReadsFile ==
  (pc = "idle" /\ call.op = "read" /\ call.ok /\ errors = 0) =>
    call.ret = Bytes(file.inode, call.arg[1], call.arg[2])
=============================================================================
