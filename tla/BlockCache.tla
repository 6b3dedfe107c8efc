----------------------------- MODULE BlockCache -----------------------------
(***************************************************************************)
(* The block cache of bcache.c: a free list and a list in order of use,    *)
(* both threaded through the blocks, kept here as the links the code       *)
(* stores, so that a block that is put on a list while it is still on the  *)
(* other one does to the lists what it does in memory.                     *)
(*                                                                         *)
(* A cache is a value, and an operation of the cache maps it to the next   *)
(* one; the client's actions store the result.  What a block holds is      *)
(* given by the number of the device block it was filled from.             *)
(***************************************************************************)
EXTENDS Integers, FiniteSets

CONSTANT NBlocks   \* blocks in the cache (4 for a file system)

ASSUME NBlocksAssumption == NBlocks \in Nat \ {0}

\* The two list heads and the blocks, all of them list nodes.
free_list == 0
lru_list == -1
Blocks == 1..NBlocks
Nodes == {free_list, lru_list} \cup Blocks

None == -2   \* a block that was never filled, or the lack of a block
Torn == -3   \* the contents of a block whose read failed

-----------------------------------------------------------------------------
\* list.h.  list_delete's clearing of the node is left out: every node that is
\* deleted is put on a list at once.
list_add_head(c, list, item) ==
  LET n == c.next[list]
  IN  [c EXCEPT !.next = [[@ EXCEPT ![item] = n] EXCEPT ![list] = item],
                !.prev = [[@ EXCEPT ![item] = list] EXCEPT ![n] = item]]

list_add_tail(c, list, item) ==
  LET p == c.prev[list]
  IN  [c EXCEPT !.prev = [[@ EXCEPT ![item] = p] EXCEPT ![list] = item],
                !.next = [[@ EXCEPT ![item] = list] EXCEPT ![p] = item]]

list_delete(c, item) ==
  LET n == c.next[item]
      p == c.prev[item]
  IN  [c EXCEPT !.prev = [@ EXCEPT ![n] = p], !.next = [@ EXCEPT ![p] = n]]

MoveToTail(c, item) == list_add_tail(list_delete(c, item), lru_list, item)

-----------------------------------------------------------------------------
\* bcache_create adds every block to the head of the free list.
bcache_create ==
  LET self == [n \in Nodes |-> n]
      empty == [next |-> self, prev |-> self,
                blocknum |-> [b \in Blocks |-> None],
                ref_count |-> [b \in Blocks |-> 0],
                ptr |-> [b \in Blocks |-> None]]
      with[i \in 0..NBlocks] ==
        IF i = 0 THEN empty ELSE list_add_head(with[i - 1], free_list, i)
  IN  with[NBlocks]

\* The nodes that a walk of the lru list meets.  There are NBlocks + 1 nodes
\* besides its head: a walk that is not back at the head by then never is.
Walk(c) ==
  LET at[k \in 0..NBlocks + 1] ==
        IF k = 0 THEN c.next[lru_list]
        ELSE IF at[k - 1] = lru_list THEN lru_list ELSE c.next[at[k - 1]]
  IN  at

\* How a walk ends: "hit" with the first block of hits, "miss" when it comes back
\* to the head without one, "hang" when it does neither.
WalkEnds(at, hits) ==
  IF hits # {}
  THEN [end |-> "hit", block |-> at[CHOOSE k \in hits : \A j \in hits : k <= j]]
  ELSE [end |-> IF \E k \in DOMAIN at : at[k] = lru_list THEN "miss" ELSE "hang",
        block |-> None]

\* The walk for a block in S.  The head of the free list, met on a corrupted
\* list, is not in S.
WalkFor(c, S) == LET at == Walk(c) IN WalkEnds(at, {k \in DOMAIN at : at[k] \in S})

\* A hit becomes the most recently used block.
Use(c, w) ==
  [end |-> w.end, block |-> w.block,
   cache |-> IF w.end = "hit" THEN MoveToTail(c, w.block) ELSE c]

find_block(c, blocknum) == Use(c, WalkFor(c, {b \in Blocks : c.blocknum[b] = blocknum}))

\* Mutant: the block is not taken off the free list.
alloc_block_both(c) ==
  IF c.next[free_list] # free_list
  THEN LET b == c.next[free_list]
       IN  [end |-> "hit", block |-> b,
            cache |-> [list_add_tail(c, lru_list, b) EXCEPT !.ref_count[b] = 0]]
  ELSE [end |-> "miss", block |-> None, cache |-> c]

\* alloc_block: a free block, or else the least recently used one that nobody
\* holds.  No block is ever dirty: bcache_mark_block_dirty and
\* bcache_zero_block have no callers.
alloc_block(c) ==
  IF c.next[free_list] # free_list
  THEN LET b == c.next[free_list]
       IN  [end |-> "hit", block |-> b,
            cache |-> [MoveToTail(c, b) EXCEPT !.ref_count[b] = 0]]
  ELSE Use(c, WalkFor(c, {b \in Blocks : c.ref_count[b] = 0}))

\* The read of a block that was just allocated.  "free the block, return an
\* error": on an error it is added to the free list, and stays on the other.
Fill(c, b, blocknum, ok) ==
  LET named == [c EXCEPT !.blocknum[b] = blocknum]
  IN  IF ok THEN [named EXCEPT !.ptr[b] = blocknum]
      ELSE list_add_tail([named EXCEPT !.ptr[b] = Torn], free_list, b)

\* find_or_fill_block after the search f, and after the allocation a, with ok the
\* outcome of the device's read if there is one.  end: "ok", "error", "hang" or
\* "assert" (no block to be had).
FillAllocated(a, blocknum, ok) ==
  CASE a.end = "hang" -> a
    [] a.end = "miss" -> [a EXCEPT !.end = "assert"]
    [] OTHER -> [end |-> IF ok THEN "ok" ELSE "error", block |-> a.block,
                 cache |-> Fill(a.cache, a.block, blocknum, ok)]
FillMissed(f, blocknum, ok) ==
  CASE f.end = "hit" -> [f EXCEPT !.end = "ok"]
    [] f.end = "hang" -> f
    [] OTHER -> FillAllocated(alloc_block(f.cache), blocknum, ok)
find_or_fill_block(c, blocknum, ok) == FillMissed(find_block(c, blocknum), blocknum, ok)

\* Whether find_or_fill_block goes to the device.
Reads(c, blocknum) == find_block(c, blocknum).end = "miss"

\* bcache_get_block pins the block that bcache_put_block releases.
Pin(f) == IF f.end = "ok" THEN [f EXCEPT !.cache.ref_count[f.block] = @ + 1] ELSE f
bcache_get_block(c, blocknum, ok) == Pin(find_or_fill_block(c, blocknum, ok))

Unpin(f) ==
  CASE f.end = "hang" -> f
    [] f.end = "miss" -> [f EXCEPT !.end = "assert"]
    [] OTHER -> IF f.cache.ref_count[f.block] = 0
                THEN [f EXCEPT !.end = "assert", !.block = None]
                ELSE [f EXCEPT !.end = "ok", !.cache.ref_count[f.block] = @ - 1]
bcache_put_block(c, blocknum) == Unpin(find_block(c, blocknum))

-----------------------------------------------------------------------------
\* The blocks that a walk of the lru list meets, in order of use.
InUse(c) == {Walk(c)[k] : k \in DOMAIN Walk(c)} \ {lru_list}

\* Both lists are what list.h keeps: following prev undoes following next, and
\* every block is on exactly one of them.
WellLinked(c) ==
  LET free[k \in 0..NBlocks + 1] ==
        IF k = 0 THEN c.next[free_list]
        ELSE IF free[k - 1] = free_list THEN free_list ELSE c.next[free[k - 1]]
      Free == {free[k] : k \in DOMAIN free} \ {free_list}
  IN  /\ \A n \in Nodes : c.prev[c.next[n]] = n
      /\ InUse(c) \cap Free = {}
      /\ InUse(c) \cup Free = Blocks
=============================================================================
