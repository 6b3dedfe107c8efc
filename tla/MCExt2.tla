------------------------------- MODULE MCExt2 -------------------------------
(***************************************************************************)
(* A small file system for Ext2: blocks of two bytes, two direct pointers  *)
(* and tables of four, two groups of four inodes.                          *)
(*                                                                         *)
(*   /          two blocks of entries                                      *)
(*   /l         -> boot                                                    *)
(*   /loop      -> loop                                                    *)
(*   /boot/Image   data and holes at every level of tables                 *)
(*   /boot/s    -> /boot/Image, kept in a block                            *)
(*   /boot/r    -> s                                                       *)
(***************************************************************************)
EXTENDS Ext2Content, TLC

NoLink == [abs |-> FALSE, path |-> <<>>]
Inode(mode, size, b0, b1, b2, b3, b4, link) ==
  [mode |-> mode, size |-> size,
   blocks |-> 0 :> b0 @@ 1 :> b1 @@ 2 :> b2 @@ 3 :> b3 @@ 4 :> b4, link |-> link]
Link(abs, path) == [abs |-> abs, path |-> path]
Entry(name, inode_number) == [name |-> name, inode |-> inode_number]
Table(a, b, c, d) == 0 :> a @@ 1 :> b @@ 2 :> c @@ 3 :> d
Data == <<>>

MCInodeTable == 0 :> 10 @@ 1 :> 12
Unused == Inode("none", 0, 0, 0, 0, 0, 0, NoLink)

Metadata ==
     10 :> (0 :> Unused @@ 1 :> Inode("dir", 4, 20, 21, 0, 0, 0, NoLink))
  @@ 11 :> (0 :> Inode("dir", 2, 22, 0, 0, 0, 0, NoLink)
            @@ 1 :> Inode("reg", 47, 30, 0, 40, 41, 42, NoLink))
  @@ 12 :> (0 :> Inode("lnk", 1, 0, 0, 0, 0, 0, Link(FALSE, <<"boot">>))
            @@ 1 :> Inode("lnk", 2, 36, 0, 0, 0, 0, NoLink))
  @@ 13 :> (0 :> Inode("lnk", 1, 0, 0, 0, 0, 0, Link(FALSE, <<"loop">>))
            @@ 1 :> Inode("lnk", 1, 0, 0, 0, 0, 0, Link(FALSE, <<"s">>)))
  @@ 20 :> <<Entry("boot", 3), Entry("l", 5)>>
  @@ 21 :> <<Entry("loop", 7)>>
  @@ 22 :> <<Entry("Image", 4), Entry("s", 6), Entry("r", 8)>>
  @@ 36 :> <<Link(TRUE, <<"boot", "Image">>)>>

Tables ==
     40 :> Table(31, 0, 0, 32)
  @@ 42 :> Table(44, 0, 0, 0) @@ 44 :> Table(45, 0, 0, 0) @@ 45 :> Table(35, 0, 0, 0)
  @@ 43 :> Table(33, 0, 0, 34)
  @@ [b \in 30..35 |-> Data]

\* One table below the double indirect block, and three.
SparseDisk == Metadata @@ Tables @@ 41 :> Table(43, 0, 0, 0)
DenseDisk ==
  Metadata @@ Tables @@ 41 :> Table(43, 46, 47, 0)
  @@ 46 :> Table(37, 37, 37, 37) @@ 47 :> Table(38, 38, 38, 38)
  @@ 37 :> Data @@ 38 :> Data

MCPaths == {<<"boot", "Image">>, <<"l", "Image">>, <<"boot", "r">>, <<"loop">>,
            <<"boot">>, <<"boot", "Image", "s">>, <<>>}

\* From direct blocks to the first table, from that to the second level, the
\* third level up to and past the end of the file, inside one block.
MCSpans == {<<1, 4>>, <<10, 4>>, <<44, 8>>, <<47, 1>>, <<49, 1>>, <<17, 1>>}
DindSpans == {<<20, 2>>}
=============================================================================
