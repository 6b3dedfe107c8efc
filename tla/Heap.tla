------------------------------- MODULE Heap --------------------------------
(***************************************************************************)
(* The heap of CBoot: common/lib/malloc/tegrabl_malloc.c, behind malloc,   *)
(* calloc, memalign and free.  A doubly linked list of free blocks sorted  *)
(* by address lives in the free memory itself; an allocated block has a    *)
(* header in front of the pointer the caller gets.  Addresses and sizes    *)
(* are in words of eight bytes, to which the code rounds every size; the   *)
(* header of an allocated block then has three words, that of a free one   *)
(* four.  The DMA heap is a second instance of the same code.              *)
(*                                                                         *)
(* mem maps the address of every header of a free block to its fields;     *)
(* an address outside its domain holds data of a caller.                   *)
(***************************************************************************)
EXTENDS Integers, Sequences, SequencesExt

CONSTANTS Start, Size,   \* the heap: words Start .. Start + Size - 1
          Sizes,         \* sizes callers ask for
          Alignments     \* alignments callers ask for

NULL == 0
ALLOC_HEADER == 3
MIN_SIZE == 4

ASSUME HeapAssumption ==
    /\ Start \in Nat \ {0}
    /\ Size \in Nat /\ Size >= MIN_SIZE
    /\ Sizes \subseteq Nat \ {0}
    /\ Alignments \subseteq Nat \ {0}

VARIABLES head,   \* tegrabl_heap_free_list
          mem,    \* the free blocks: size, prev, next
          used,   \* the allocated blocks: ptr, start and size of the block, words asked for
          lost    \* words in no block any more

vars == <<head, mem, used, lost>>

Addr == Start .. Start + Size - 1
Ptr == Addr \cup {NULL}
Block == [size : 1..Size, prev : Ptr, next : Ptr]

\* The functions of the file map a free list, a record of head and mem, to one.
List == [head |-> head, mem |-> mem]

SetNext(l, b, n) == IF b = NULL THEN l ELSE [l EXCEPT !.mem[b].next = n]
SetPrev(l, b, p) == IF b = NULL THEN l ELSE [l EXCEPT !.mem[b].prev = p]
Without(l, b) == [l EXCEPT !.mem = [a \in DOMAIN @ \ {b} |-> @[a]]]
Put(l, b, r) == [l EXCEPT !.mem = [a \in DOMAIN @ \cup {b} |-> IF a = b THEN r ELSE @[a]]]

\* The blocks in the order of the list, from block b on.
RECURSIVE Walk(_)
Walk(b) == IF b = NULL THEN <<>> ELSE <<b>> \o Walk(mem[b].next)

\* The first block of the list that is in the set fit, NULL when there is none.
FirstFit(fit) ==
    LET chain == Walk(head)
        i == SelectInSeq(chain, LAMBDA a : a \in fit)
    IN IF i = 0 THEN NULL ELSE chain[i]

AllocSize(size) == IF size + ALLOC_HEADER < MIN_SIZE THEN MIN_SIZE ELSE size + ALLOC_HEADER

---------------------------------------------------------------------------
(* Allocation. *)

\* Does splitting leave enough of block b for the header of a free block?
Splits(l, b, size) == l.mem[b].size - size > MIN_SIZE

\* Take size words off the front of block b, or all of it when the rest would be
\* too small for a free block.
SplitBlock(l, b, size) ==
    LET prev == l.mem[b].prev
        next == l.mem[b].next
        new == b + size
        whole == [SetNext(SetPrev(l, next, prev), prev, next) EXCEPT
                     !.head = IF b = @ THEN next ELSE @]
        split == [SetNext(SetPrev(Put(l, new, [size |-> l.mem[b].size - size,
                                               prev |-> prev, next |-> next]),
                                  next, new), prev, new) EXCEPT
                     !.head = IF b = @ THEN new ELSE @]
    IN Without(IF Splits(l, b, size) THEN split ELSE whole, b)

\* Mutant of SplitSize: an unsplit block gets the size asked for.
SplitSizeAsked(l, b, size) == size

\* The size the block has after the split.
SplitSize(l, b, size) == IF Splits(l, b, size) THEN size ELSE l.mem[b].size

\* The list l becomes the state.
Become(l) ==
    /\ head' = l.head
    /\ mem' = l.mem

Malloc(size) ==
    LET need == AllocSize(size)
        b == FirstFit({a \in DOMAIN mem : mem[a].size > need})
    IN /\ b # NULL
       /\ Become(SplitBlock(List, b, need))
       /\ used' = used \cup {[ptr |-> b + ALLOC_HEADER, start |-> b,
                              size |-> SplitSize(List, b, need), asked |-> size]}
       /\ UNCHANGED lost

\* Words between the header and the aligned address: one to alignment.
AlignSize(b, alignment) == alignment - ((b + ALLOC_HEADER) % alignment)

\* Mutant of NextOfFront: the block the split made is overlooked.
NextUnchanged(l, prev, next) == next

\* The block that follows the free block in front of an aligned allocation.
NextOfFront(l, prev, next) ==
    CASE prev = NULL /\ next = NULL -> l.head
      [] prev # NULL /\ next = NULL -> l.mem[prev].next
      [] next # NULL /\ l.mem[next].prev # prev -> l.mem[next].prev
      [] OTHER -> next

\* Give the words in front of an aligned allocation back to the list.
InsertFront(l, b, prev, next, size) ==
    LET front == Put(l, b, [size |-> size, prev |-> prev, next |-> next])
    IN [SetNext(SetPrev(front, next, b), prev, b) EXCEPT
           !.head = IF @ = NULL \/ @ > b THEN b ELSE @]

\* With room for a free block in front, that room is given back and the block
\* gets the size asked for: what an unsplit block has beyond it is in no block.
Memalign(alignment, size) ==
    LET need == AllocSize(size)
        b == FirstFit({a \in DOMAIN mem : mem[a].size >= AlignSize(a, alignment) + need})
        gap == AlignSize(b, alignment)
        rest == SplitBlock(List, b, need + gap)
        full == SplitSize(List, b, need + gap)
        next == NextOfFront(rest, mem[b].prev, mem[b].next)
    IN /\ size + alignment <= Size
       /\ b # NULL
       /\ IF gap < MIN_SIZE
          THEN /\ Become(rest)
               /\ used' = used \cup {[ptr |-> b + gap + ALLOC_HEADER, start |-> b,
                                      size |-> full, asked |-> size]}
               /\ UNCHANGED lost
          ELSE /\ Become(InsertFront(rest, b, mem[b].prev, next, gap))
               /\ used' = used \cup {[ptr |-> b + gap + ALLOC_HEADER, start |-> b + gap,
                                      size |-> need, asked |-> size]}
               /\ lost' = lost \cup (b + gap + need .. b + full - 1)

---------------------------------------------------------------------------
(* Freeing. *)

\* Merge block b with a contiguous next block, then into a contiguous previous
\* one; the result is the list and the block that is left.
MergeNext(l, b) ==
    LET next == l.mem[b].next
    IN IF next # NULL /\ b + l.mem[b].size = next
       THEN Without(SetPrev([l EXCEPT !.mem[b].size = @ + l.mem[next].size,
                                      !.mem[b].next = l.mem[next].next],
                            l.mem[next].next, b), next)
       ELSE l

MergePrev(l, b) ==
    LET prev == l.mem[b].prev
    IN IF prev # NULL /\ prev + l.mem[prev].size = b
       THEN [list |-> Without(SetPrev([l EXCEPT !.mem[prev].size = @ + l.mem[b].size,
                                                !.mem[prev].next = l.mem[b].next],
                                      l.mem[b].next, prev), b),
             block |-> prev]
       ELSE [list |-> l, block |-> b]

MergeBlocks(l, b) == MergePrev(MergeNext(l, b), b)

RECURSIVE MergeLoop(_, _)
MergeLoop(l, b) ==
    LET merged == MergeBlocks(l, b)
    IN IF merged.block = b THEN merged ELSE MergeLoop(merged.list, merged.block)

\* Insert the block in front of the first one above it and merge.
Dealloc(u) ==
    LET chain == Walk(head)
        above == SelectInSeq(chain, LAMBDA a : a >= u.ptr)
        passed == IF above = 0 THEN Len(chain) ELSE above - 1
        prev == IF passed = 0 THEN NULL ELSE chain[passed]
        next == IF above = 0 THEN NULL ELSE chain[above]
        inserted == SetPrev(SetNext(Put(List, u.start, [size |-> u.size, prev |-> prev, next |-> next]),
                                    prev, u.start), next, u.start)
        merged == MergeLoop(inserted, u.start)
    IN /\ u \in used
       /\ Become([merged.list EXCEPT
                     !.head = IF @ = NULL \/ @ > merged.block THEN merged.block ELSE @])
       /\ used' = used \ {u}
       /\ UNCHANGED lost

Init ==
    /\ head = Start
    /\ mem = [a \in {Start} |-> [size |-> Size, prev |-> NULL, next |-> NULL]]
    /\ used = {}
    /\ lost = {}

Next ==
    \/ \E size \in Sizes : Malloc(size)
    \/ \E alignment \in Alignments, size \in Sizes : Memalign(alignment, size)
    \/ \E u \in used : Dealloc(u)

Spec == Init /\ [][Next]_vars

---------------------------------------------------------------------------
(* Properties. *)

\* Type: pointers point into the heap (tegrabl_heap_init gives its bounds once).
TypeOK ==
    /\ head \in Ptr
    /\ DOMAIN mem \subseteq Addr
    /\ \A a \in DOMAIN mem : mem[a] \in Block
    /\ used \subseteq [ptr : Addr, start : Addr, size : 1..Size, asked : Sizes]
    /\ lost \subseteq Addr

Words(start, size) == start .. start + size - 1
FreeWords(a) == Words(a, mem[a].size)

\* The list runs through every free block once, in the order of the addresses,
\* and back: what tegrabl_generic_free relies on to find a block's place, and
\* the allocations on to find every block that is free.  Freeing merges: two
\* free blocks never touch, so that memory given back can be allocated again in
\* larger pieces.
WellLinked ==
    /\ ToSet(Walk(head)) = DOMAIN mem
    /\ head # NULL => mem[head].prev = NULL
    /\ \A a \in DOMAIN mem :
           mem[a].next # NULL => mem[a].next > a /\ mem[mem[a].next].prev = a
    /\ \A a \in DOMAIN mem : a + mem[a].size \notin DOMAIN mem

\* No word is in two blocks, and every word is in a free block, in an allocated
\* one, or in the tail an aligned allocation dropped.  What a caller may write
\* to, and the header in front of it, lie in its block; a block is never too
\* small to hold the header of a free one.
Partition ==
    /\ \A a, b \in DOMAIN mem : a # b => FreeWords(a) \cap FreeWords(b) = {}
    /\ \A u, v \in used : u # v => Words(u.start, u.size) \cap Words(v.start, v.size) = {}
    /\ LET free == UNION {FreeWords(a) : a \in DOMAIN mem}
           taken == UNION {Words(u.start, u.size) : u \in used}
       IN /\ free \cap taken = {} /\ lost \cap (free \cup taken) = {}
          /\ free \cup taken \cup lost = Addr
    /\ \A u \in used : Words(u.ptr - ALLOC_HEADER, ALLOC_HEADER + u.asked) \subseteq Words(u.start, u.size)
    /\ \A u \in used : u.size >= MIN_SIZE
    /\ \A a \in DOMAIN mem : mem[a].size >= MIN_SIZE
=============================================================================
