-------------------------------- MODULE Ext2 --------------------------------
(***************************************************************************)
(* Reading an ext2 file system through the block cache: mounting, looking  *)
(* a path up, reading a file with its direct and indirect blocks, closing  *)
(* and unmounting (ext2.c, dir.c, io.c and file.c), one action for each    *)
(* call into the cache.                                                    *)
(*                                                                         *)
(* The device holds Disk, which nothing writes.  Disk[b] is what block b   *)
(* is read as: a table of block numbers, a run of inodes, the sequence of  *)
(* the entries of a directory or of the one target of a symbolic link;     *)
(* byte k of block b, as file data, is <<b, k>>.                           *)
(***************************************************************************)
EXTENDS BlockCache, Sequences

CONSTANTS
  Disk,             \* block number -> contents; block 0 stands for a hole
  InodeTable,       \* group -> first block of its inode table
  InodesPerGroup,   \* s_inodes_per_group
  InodesPerBlock,   \* block size / inode size
  BlockSize,        \* bytes in a block
  EXT2_NDIR_BLOCKS, \* direct block pointers in an inode (12)
  Ptrs,             \* E2FS_ADDR_PER_BLOCK: 32-bit block pointers in a block
  LinkInInode,      \* longest symbolic link that is kept in the inode (60)
  MaxDirBlocks,     \* ext2_dir_lookup gives up beyond this block (1024)
  Paths,            \* paths that are opened
  Spans,            \* <<offset, len>> that are read
  MaxErrors         \* bound: failed reads of the device

ASSUME Ext2Assumption ==
  /\ BlockSize \in Nat \ {0} /\ Ptrs \in Nat \ {0} /\ EXT2_NDIR_BLOCKS \in Nat \ {0}
  /\ InodesPerGroup \in Nat \ {0} /\ InodesPerBlock \in Nat \ {0}
  /\ MaxDirBlocks \in Nat /\ MaxErrors \in Nat
  /\ \A s \in Spans : s[1] \in Nat /\ s[2] \in Nat \ {0}

EXT2_ROOTINO == 2
MaxRecurse == 4   \* ext2_walk gives up beyond this depth

VARIABLES
  pc,       \* what is done next
  cache,    \* the block cache of the mounted file system
  stack,    \* ext2_walk's activations: the components left and the directory
  inum,     \* the inode number found last
  inode,    \* the inode loaded last
  for,      \* who loads the inode: "mount", "walk" or "open"
  root,     \* root_inode
  file,     \* the open file: its inode and, as a ghost, its path
  rd,       \* ext2_read_inode's activation
  ind,      \* ext2_get_indirect_block_pointer_cache_block's activation
  call,     \* ghost: the last call of the client and its result
  errors    \* failed reads so far

vars == <<pc, cache, stack, inum, inode, for, root, file, rd, ind, call, errors>>

NoInode == [mode |-> "none", size |-> 0, blocks |-> <<>>, link |-> <<>>]
NoFile == [path |-> <<>>, inode |-> NoInode]
NoRead == [inode |-> NoInode, for |-> "none", file_block |-> 0, skip |-> 0, len |-> 0,
           buf |-> <<>>, phys_block |-> 0]
NoInd == [level |-> 0, pos |-> <<>>, current_level |-> 0, current_block |-> 0]
NoCall == [op |-> "none", arg |-> <<>>, ok |-> TRUE, ret |-> <<>>]

Zero == <<0, 0>>      \* a byte of a hole
Junk == <<None, 0>>   \* a byte of a buffer that was not filled

Init ==
  /\ pc = "unmounted"
  /\ cache = bcache_create
  /\ stack = <<>> /\ inum = 0 /\ inode = NoInode /\ for = "mount"
  /\ root = NoInode /\ file = NoFile
  /\ rd = NoRead /\ ind = NoInd /\ call = NoCall
  /\ errors = 0

-----------------------------------------------------------------------------
\* A read of the device succeeds or fails; a call that needs none succeeds.
Outcome(blocknum, ok) ==
  IF Reads(cache, blocknum)
  THEN /\ ok \/ errors < MaxErrors
       /\ errors' = IF ok THEN errors ELSE errors + 1
  ELSE ok /\ UNCHANGED errors

\* The call in progress has failed; nothing is held.
Fail ==
  /\ call' = [call EXCEPT !.ok = FALSE]
  /\ pc' = IF for = "mount" THEN "unmounted" ELSE "idle"
  /\ stack' = <<>> /\ rd' = NoRead /\ ind' = NoInd

\* The cache never comes back ("hang") or fails an assertion ("assert"), or the
\* code goes on with contents that were never read ("wild").
Stuck(how) ==
  /\ pc' = how
  /\ UNCHANGED <<stack, inum, inode, for, root, file, rd, ind, call>>

-----------------------------------------------------------------------------
(***************************************************************************)
(* ext2_load_inode.                                                        *)
(***************************************************************************)

\* get_inode_addr: the block and the place in it of inode number num.
InodeBlock(num) ==
  InodeTable[(num - 1) \div InodesPerGroup]
  + ((num - 1) % InodesPerGroup) \div InodesPerBlock
InodePlace(num) == ((num - 1) % InodesPerGroup) % InodesPerBlock

LoadInode ==
  /\ pc = "load"
  /\ \E ok \in BOOLEAN :
       LET g == bcache_get_block(cache, InodeBlock(inum), ok)
       IN  /\ Outcome(InodeBlock(inum), ok)
           /\ cache' = g.cache
           /\ \/ /\ g.end = "ok"
                 /\ pc' = "copy"
                 /\ UNCHANGED <<stack, inum, inode, for, root, file, rd, ind, call>>
              \/ /\ g.end = "error"
                 /\ Fail
                 /\ UNCHANGED <<inum, inode, for, root, file>>
              \/ g.end \in {"hang", "assert"} /\ Stuck(g.end)

\* The copy of the inode is taken out of the block before the block is put.
CopyInode ==
  /\ pc = "copy"
  /\ LET p == bcache_put_block(cache, InodeBlock(inum))
     IN  /\ cache' = p.cache
         /\ \/ /\ p.end = "ok" /\ cache.ptr[p.block] # Torn
               /\ inode' = Disk[cache.ptr[p.block]][InodePlace(inum)]
               /\ pc' = "loaded"
               /\ UNCHANGED <<stack, inum, for, root, file, rd, ind, call>>
            \/ p.end = "ok" /\ cache.ptr[p.block] = Torn /\ Stuck("wild")
            \/ p.end # "ok" /\ Stuck(p.end)
  /\ UNCHANGED errors

-----------------------------------------------------------------------------
(***************************************************************************)
(* ext2_walk and ext2_dir_lookup.                                          *)
(***************************************************************************)
Frame(path, dir) == [path |-> path, dir |-> dir, file_blocknum |-> 0]
Top == stack[Len(stack)]

\* The activations that are not at their last component; the ones above them
\* return when one does.
Done(frame) == Len(frame.path) <= 1
Returned(s) ==
  LET live == {i \in 1..Len(s) - 1 : ~Done(s[i])}
  IN  IF live = {} THEN <<>>
      ELSE SubSeq(s, 1, CHOOSE i \in live : \A j \in live : j <= i)

\* ext2_walk returns with inum: the activation below goes on with that inode
\* (nextcomponent), or ext2_open_file loads it.
WalkReturns ==
  /\ stack' = Returned(stack)
  /\ for' = IF stack' = <<>> THEN "open" ELSE "walk"
  /\ pc' = "load"
  /\ UNCHANGED <<rd, ind, call>>

\* Mutant: a link to an absolute path is followed from its directory.
RecurseRelative(target) ==
  \/ Len(stack) = MaxRecurse /\ Fail /\ UNCHANGED for
  \/ /\ Len(stack) < MaxRecurse
     /\ stack' = Append(stack, Frame(target.path, Top.dir))
     /\ pc' = "dir" /\ rd' = NoRead
     /\ UNCHANGED <<for, ind, call>>

\* ext2_walk calls itself on the target of a link, from the root or from the
\* directory of the link.
Recurse(target) ==
  \/ Len(stack) = MaxRecurse /\ Fail /\ UNCHANGED for
  \/ /\ Len(stack) < MaxRecurse
     /\ stack' = Append(stack, Frame(target.path, IF target.abs THEN root ELSE Top.dir))
     /\ pc' = "dir" /\ rd' = NoRead
     /\ UNCHANGED <<for, ind, call>>

\* ext2_read_inode's trimming of a read to the size of the file.
Trim(i, offset, len) ==
  IF offset > i.size THEN 0 ELSE IF offset + len >= i.size THEN i.size - offset ELSE len

ReadInode(i, offset, len, who) ==
  /\ rd' = [inode |-> i, for |-> who, file_block |-> offset \div BlockSize,
            skip |-> offset % BlockSize, len |-> Trim(i, offset, len),
            buf |-> <<>>, phys_block |-> 0]
  /\ pc' = "map"

\* ext2_walk with the inode of a component: a link is read (from the inode, or
\* from its blocks) and followed, a directory is entered.
WalkInode ==
  /\ pc = "loaded" /\ for = "walk"
  /\ \/ inode.mode = "lnk" /\ inode.size <= LinkInInode /\ Recurse(inode.link)
     \/ /\ inode.mode = "lnk" /\ inode.size > LinkInInode
        /\ ReadInode(inode, 0, inode.size, "link")
        /\ UNCHANGED <<stack, for, ind, call>>
     \/ inode.mode # "lnk" /\ Done(Top) /\ WalkReturns
     \/ /\ inode.mode = "dir" /\ ~Done(Top)
        /\ stack' = [stack EXCEPT ![Len(stack)] = Frame(Tail(Top.path), inode)]
        /\ pc' = "dir"
        /\ UNCHANGED <<for, rd, ind, call>>
     \/ inode.mode = "reg" /\ ~Done(Top) /\ Fail /\ UNCHANGED for
  /\ UNCHANGED <<cache, inum, inode, root, file, errors>>

\* The loop of ext2_dir_lookup: the next block of the directory, if any.
ReadDir ==
  /\ pc = "dir"
  /\ LET offset == Top.file_blocknum * BlockSize
     IN  \/ /\ Trim(Top.dir, offset, BlockSize) > 0
            /\ ReadInode(Top.dir, offset, BlockSize, "dir")
            /\ UNCHANGED <<stack, ind, call>>
         \/ Trim(Top.dir, offset, BlockSize) = 0 /\ Fail
  /\ UNCHANGED <<cache, inum, inode, for, root, file, errors>>

\* The entries of the block are searched for the component; a hole holds none.
Entries(block) == IF block = 0 THEN <<>> ELSE Disk[block]

\* Mutant: a block without the entry is read again.
ScanDirAgain ==
  /\ pc = "read" /\ rd.for = "dir" /\ rd.buf[1] # Junk
  /\ LET ents == Entries(rd.buf[1][1])
         matches == {i \in DOMAIN ents : Top.path # <<>> /\ ents[i].name = Head(Top.path)}
     IN  \/ /\ matches # {}
            /\ \E i \in matches : inum' = ents[i].inode
            /\ pc' = "load" /\ for' = "walk"
         \/ /\ matches = {}
            /\ pc' = "dir"
            /\ UNCHANGED <<inum, for>>
  /\ rd' = NoRead
  /\ UNCHANGED <<cache, stack, inode, root, file, ind, call, errors>>

ScanDir ==
  /\ pc = "read" /\ rd.for = "dir" /\ rd.buf[1] # Junk
  /\ LET ents == Entries(rd.buf[1][1])
         matches == {i \in DOMAIN ents : Top.path # <<>> /\ ents[i].name = Head(Top.path)}
         first == CHOOSE i \in matches : \A j \in matches : i <= j
     IN  \/ /\ matches # {}
            /\ inum' = ents[first].inode
            /\ pc' = "load" /\ for' = "walk" /\ rd' = NoRead
            /\ UNCHANGED <<stack, ind, call>>
         \/ /\ matches = {} /\ Top.file_blocknum < MaxDirBlocks
            /\ stack' = [stack EXCEPT ![Len(stack)].file_blocknum = @ + 1]
            /\ pc' = "dir" /\ rd' = NoRead
            /\ UNCHANGED <<inum, for, ind, call>>
         \/ matches = {} /\ Top.file_blocknum = MaxDirBlocks /\ Fail /\ UNCHANGED <<inum, for>>
  /\ UNCHANGED <<cache, inode, root, file, errors>>

\* ext2_read_link for a link that is kept in a block.
ReadLink ==
  /\ pc = "read" /\ rd.for = "link" /\ rd.buf[1] # Junk
  /\ Recurse(Disk[rd.buf[1][1]][1])
  /\ UNCHANGED <<cache, inum, inode, root, file, errors>>

\* The failed read of a directory or link went unnoticed.
UseJunk ==
  /\ pc = "read" /\ rd.for \in {"dir", "link"} /\ rd.buf[1] = Junk
  /\ Stuck("wild")
  /\ UNCHANGED <<cache, errors>>
-----------------------------------------------------------------------------
(***************************************************************************)
(* ext2_read_inode: for each block of the file, its block on the device    *)
(* (file_block_to_fs_block) and then its contents.                         *)
(***************************************************************************)

\* Mutant: block_to_find <= EXT2_NDIR_BLOCKS.
PointerPosEdge(block_to_find) ==
  LET b1 == block_to_find - EXT2_NDIR_BLOCKS
      b2 == b1 - Ptrs
      b3 == b2 - Ptrs * Ptrs
  IN  IF b1 <= 0 THEN [level |-> 0, pos |-> <<block_to_find>>]
      ELSE IF b2 < 0 THEN [level |-> 1, pos |-> <<EXT2_NDIR_BLOCKS, b1>>]
      ELSE IF b3 < 0
      THEN [level |-> 2, pos |-> <<EXT2_NDIR_BLOCKS + 1, b2 \div Ptrs, b2 % Ptrs>>]
      ELSE [level |-> 3, pos |-> <<EXT2_NDIR_BLOCKS + 2, 0, 0, b3>>]

\* ext2_calculate_block_pointer_pos: the pointer of the inode and the entry in
\* each table below it.  For a block beyond the third level the caller ignores
\* the error; no file of Disk has one.
PointerPos(block_to_find) ==
  LET b1 == block_to_find - EXT2_NDIR_BLOCKS
      b2 == b1 - Ptrs
      b3 == b2 - Ptrs * Ptrs
  IN  IF b1 < 0 THEN [level |-> 0, pos |-> <<block_to_find>>]
      ELSE IF b2 < 0 THEN [level |-> 1, pos |-> <<EXT2_NDIR_BLOCKS, b1>>]
      ELSE IF b3 < 0
      THEN [level |-> 2, pos |-> <<EXT2_NDIR_BLOCKS + 1, b2 \div Ptrs, b2 % Ptrs>>]
      ELSE [level |-> 3,
            pos |-> <<EXT2_NDIR_BLOCKS + 2, b3 \div (Ptrs * Ptrs),
                      (b3 % (Ptrs * Ptrs)) \div Ptrs, (b3 % (Ptrs * Ptrs)) % Ptrs>>]

\* file_block_to_fs_block up to the first table, and ext2_get_indirect_
\* block_pointer_cache_block's entry.
MapBlock ==
  /\ pc = "map"
  /\ LET p == PointerPos(rd.file_block)
         pointer == rd.inode.blocks[p.pos[1]]
     IN  \/ /\ p.level = 0
            /\ rd' = [rd EXCEPT !.phys_block = pointer]
            /\ pc' = "data"
            /\ UNCHANGED ind
         \/ /\ p.level > 0
            /\ ind' = [level |-> p.level, pos |-> p.pos,
                       current_level |-> 0, current_block |-> pointer]
            /\ pc' = "indirect"
            /\ UNCHANGED rd
  /\ UNCHANGED <<cache, stack, inum, inode, for, root, file, call, errors>>

\* The block of the file is taken for a hole: a pointer is 0, or a table could
\* not be read.
NoTable ==
  /\ rd' = [rd EXCEPT !.phys_block = 0]
  /\ pc' = "data"
  /\ ind' = NoInd
  /\ UNCHANGED <<stack, inum, inode, for, root, file, call>>

GetTable ==
  /\ pc = "indirect"
  /\ \/ ind.current_block = 0 /\ NoTable /\ UNCHANGED <<cache, errors>>
     \/ /\ ind.current_block # 0
        /\ \E ok \in BOOLEAN :
             LET g == bcache_get_block(cache, ind.current_block, ok)
             IN  /\ Outcome(ind.current_block, ok)
                 /\ cache' = g.cache
                 /\ \/ /\ g.end = "ok"
                       /\ ind' = [ind EXCEPT !.current_level = @ + 1]
                       /\ pc' = "deref"
                       /\ UNCHANGED <<stack, inum, inode, for, root, file, rd, call>>
                    \/ g.end = "error" /\ NoTable
                    \/ g.end \in {"hang", "assert"} /\ Stuck(g.end)

\* An entry of a table on the way down: the table's pointers are 32 bits wide
\* and are indexed as 64-bit ones (blocknum_t), so entry i is entry 2 * i and
\* from the middle of the table on whatever follows the block in memory.
WideEntry(table, i) ==
  IF 2 * i < Ptrs THEN {table[2 * i]} ELSE DOMAIN Disk \cup {0}

\* Mutant: the table is put at the last level only.
DerefHeld ==
  /\ pc = "deref"
  /\ LET p == IF ind.current_level < ind.level
              THEN [end |-> "ok", cache |-> cache]
              ELSE bcache_put_block(cache, ind.current_block)
         table == Disk[ind.current_block]
         i == ind.pos[ind.current_level + 1]
     IN  /\ p.end = "ok"
         /\ cache' = p.cache
         /\ \/ /\ ind.current_level < ind.level
               /\ \E b \in WideEntry(table, i) : ind' = [ind EXCEPT !.current_block = b]
               /\ pc' = "indirect"
               /\ UNCHANGED rd
            \/ /\ ind.current_level = ind.level
               /\ rd' = [rd EXCEPT !.phys_block = table[i]]
               /\ pc' = "data"
               /\ ind' = NoInd
  /\ UNCHANGED <<stack, inum, inode, for, root, file, call, errors>>

\* The entry of the table that was got is taken and the table is put: the loop
\* of ext2_get_indirect_block_pointer_cache_block, and at the last level the end
\* of file_block_to_fs_block.
Deref ==
  /\ pc = "deref"
  /\ LET p == bcache_put_block(cache, ind.current_block)
         table == Disk[cache.ptr[p.block]]
         i == ind.pos[ind.current_level + 1]
     IN  /\ cache' = p.cache
         /\ \/ /\ p.end = "ok" /\ cache.ptr[p.block] # Torn
               /\ ind.current_level < ind.level
               /\ \E b \in WideEntry(table, i) : ind' = [ind EXCEPT !.current_block = b]
               /\ pc' = "indirect"
               /\ UNCHANGED <<stack, inum, inode, for, root, file, rd, call>>
            \/ /\ p.end = "ok" /\ cache.ptr[p.block] # Torn
               /\ ind.current_level = ind.level
               /\ rd' = [rd EXCEPT !.phys_block = table[i]]
               /\ pc' = "data"
               /\ ind' = NoInd
               /\ UNCHANGED <<stack, inum, inode, for, root, file, call>>
            \/ p.end = "ok" /\ cache.ptr[p.block] = Torn /\ Stuck("wild")
            \/ p.end # "ok" /\ Stuck(p.end)
  /\ UNCHANGED errors

\* The bytes of one block go to the buffer: all of it, or the end or the start
\* of it at the ends of the read.
Copy(byte) ==
  LET n == IF rd.len < BlockSize - rd.skip THEN rd.len ELSE BlockSize - rd.skip
  IN  /\ rd' = [rd EXCEPT !.buf = @ \o [k \in 1..n |-> IF byte[1] > 0
                                                       THEN <<byte[1], rd.skip + k - 1>>
                                                       ELSE byte],
                          !.len = @ - n, !.skip = 0, !.file_block = @ + 1]
      /\ pc' = IF rd.len = n THEN "read" ELSE "map"
      /\ UNCHANGED <<stack, inum, inode, for, root, file, ind, call>>

\* ext2_read_inode with the block's place: a hole reads as zeros; an error of
\* ext2_read_block is ignored, and the buffer is taken as it is.
ReadBlock ==
  /\ pc = "data"
  /\ \/ rd.phys_block = 0 /\ Copy(Zero) /\ UNCHANGED <<cache, errors>>
     \/ /\ rd.phys_block # 0
        /\ \E ok \in BOOLEAN :
             LET f == find_or_fill_block(cache, rd.phys_block, ok)
             IN  /\ Outcome(rd.phys_block, ok)
                 /\ cache' = f.cache
                 /\ \/ f.end = "ok" /\ cache'.ptr[f.block] # Torn
                       /\ Copy(<<cache'.ptr[f.block], 0>>)
                    \/ f.end = "ok" /\ cache'.ptr[f.block] = Torn /\ Copy(Junk)
                    \/ f.end = "error" /\ Copy(Junk)
                    \/ f.end \in {"hang", "assert"} /\ Stuck(f.end)
-----------------------------------------------------------------------------
(***************************************************************************)
(* The calls of fs.c.                                                      *)
(***************************************************************************)
Return(ok, ret) == call' = [call EXCEPT !.ok = ok, !.ret = ret]

\* ext2_mount once the super block and the group descriptors, which are not
\* read through the cache, are accepted: a cache, and the root inode.
Mount ==
  /\ pc = "unmounted"
  /\ cache' = bcache_create
  /\ inum' = EXT2_ROOTINO /\ for' = "mount"
  /\ pc' = "load"
  /\ call' = [NoCall EXCEPT !.op = "mount"]
  /\ UNCHANGED <<stack, inode, root, file, rd, ind, errors>>

Mounted ==
  /\ pc = "loaded" /\ for = "mount"
  /\ root' = inode
  /\ pc' = "idle"
  /\ UNCHANGED <<cache, stack, inum, inode, for, file, rd, ind, call, errors>>

\* ext2_open_file: ext2_lookup, then the inode it found.
OpenFile(path) ==
  /\ pc = "idle" /\ file = NoFile
  /\ stack' = <<Frame(path, root)>>
  /\ for' = "walk"
  /\ pc' = "dir"
  /\ call' = [op |-> "open", arg |-> path, ok |-> TRUE, ret |-> <<>>]
  /\ UNCHANGED <<cache, inum, inode, root, file, rd, ind, errors>>

Opened ==
  /\ pc = "loaded" /\ for = "open"
  /\ file' = [path |-> call.arg, inode |-> inode]
  /\ Return(TRUE, <<>>)
  /\ pc' = "idle"
  /\ UNCHANGED <<cache, stack, inum, inode, for, root, rd, ind, errors>>

\* ext2_read_file, for a regular file only; a read past the end returns 0.
ReadFile(offset, len) ==
  /\ pc = "idle" /\ file # NoFile
  /\ LET started == [op |-> "read", arg |-> <<offset, len>>, ok |-> TRUE, ret |-> <<>>]
     IN  \/ /\ file.inode.mode = "reg" /\ Trim(file.inode, offset, len) > 0
            /\ ReadInode(file.inode, offset, len, "file")
            /\ call' = started
         \/ /\ file.inode.mode # "reg" \/ Trim(file.inode, offset, len) = 0
            /\ call' = [started EXCEPT !.ok = file.inode.mode = "reg"]
            /\ UNCHANGED <<pc, rd>>
  /\ UNCHANGED <<cache, stack, inum, inode, for, root, file, ind, errors>>

FileRead ==
  /\ pc = "read" /\ rd.for = "file"
  /\ Return(TRUE, rd.buf)
  /\ rd' = NoRead
  /\ pc' = "idle"
  /\ UNCHANGED <<cache, stack, inum, inode, for, root, file, ind, errors>>

CloseFile ==
  /\ pc = "idle" /\ file # NoFile
  /\ file' = NoFile
  /\ call' = NoCall
  /\ UNCHANGED <<pc, cache, stack, inum, inode, for, root, rd, ind, errors>>

\* ext2_unmount, with the assertion of bcache_destroy.
Unmount ==
  /\ pc = "idle" /\ file = NoFile
  /\ pc' = IF \A b \in Blocks : cache.ref_count[b] = 0 THEN "unmounted" ELSE "assert"
  /\ cache' = bcache_create
  /\ inum' = 0 /\ inode' = NoInode /\ root' = NoInode
  /\ call' = NoCall
  /\ UNCHANGED <<stack, for, file, rd, ind, errors>>

\* Nothing more happens.
Halted == pc \in {"hang", "assert", "wild"} /\ UNCHANGED vars

Calls ==
  \/ Mount \/ (\E p \in Paths : OpenFile(p)) \/ (\E s \in Spans : ReadFile(s[1], s[2]))
  \/ CloseFile \/ Unmount

Step ==
  \/ Mounted \/ Opened \/ FileRead
  \/ LoadInode \/ CopyInode \/ WalkInode \/ ReadDir \/ ScanDir \/ ReadLink \/ UseJunk
  \/ MapBlock \/ GetTable \/ Deref \/ ReadBlock

Next == Calls \/ Step \/ Halted

Spec == Init /\ [][Next]_vars

\* A call that was made goes on; nobody has to make one.  This is weak fairness
\* of Step, which is enabled as long as a call is in progress.
InCall == pc \notin {"idle", "unmounted", "hang", "assert", "wild"}
FairSpec == Spec /\ ([]<>~InCall \/ []<><<Step>>_vars)

-----------------------------------------------------------------------------
(***************************************************************************)
(* Properties.                                                             *)
(***************************************************************************)
Pcs == {"unmounted", "idle", "load", "copy", "loaded", "dir", "map", "indirect", "deref",
        "data", "read", "hang", "assert", "wild"}

\* Every variable has its type.
TypeOK ==
  /\ pc \in Pcs
  /\ DOMAIN cache = {"next", "prev", "blocknum", "ref_count", "ptr"}
  /\ cache.next \in [Nodes -> Nodes] /\ cache.prev \in [Nodes -> Nodes]
  /\ cache.ref_count \in [Blocks -> 0..1]
  /\ Len(stack) <= MaxRecurse
  /\ for \in {"mount", "walk", "open"}
  /\ ind.level \in 0..3 /\ ind.current_level \in 0..ind.level
  /\ errors \in 0..MaxErrors

\* The lists of the cache partition its blocks, the blocks in use have one
\* number each, and what they hold is what the device holds: until a read fails
\* (see the comment at Fill).
CacheCoherent ==
  errors = 0 =>
    /\ WellLinked(cache)
    /\ \A a, b \in InUse(cache) :
         /\ cache.ptr[a] = cache.blocknum[a]
         /\ cache.blocknum[a] = cache.blocknum[b] => a = b

\* What bcache_destroy asserts: every path through ext2, failing or not, puts
\* the blocks it got; no more than one is held at any time, so that even the
\* smallest cache never runs out of blocks ("assert").
BlocksReturned ==
  /\ pc \in {"idle", "dir", "map", "data", "read", "loaded"} =>
       \A b \in Blocks : cache.ref_count[b] = 0
  /\ Cardinality({b \in Blocks : cache.ref_count[b] > 0}) <= 1
  /\ pc # "assert"

\* Every call comes to an end: links in a circle, directories without the entry
\* and files of holes included.  Until a read of the device fails the cache is
\* searched in finite time ("hang") and no contents are made up ("wild").
CallsReturn ==
  pc \notin {"idle", "unmounted"} ~> pc \in {"idle", "unmounted"} \/ errors > 0
=============================================================================
