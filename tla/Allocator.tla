----------------------------- MODULE Allocator -----------------------------
(***************************************************************************)
(* The memory allocator of src/lab10/q1: a doubly linked list of blocks,   *)
(* first fit, split and merge.  One action per call of memAlloc and        *)
(* memFree.                                                                *)
(*                                                                         *)
(* The offset of a block never changes and no two blocks share one (sizes  *)
(* are positive), so a block is known by its offset: next and prev hold    *)
(* offsets, and memory is the block at 0 for good.                         *)
(***************************************************************************)
EXTENDS Integers, Functions

CONSTANTS
    Size,  \* the size of the memory, 1024 in main
    NULL

ASSUME SizeAssumption == Size \in Nat \ {0}
ASSUME NullAssumption == NULL \notin Nat

VARIABLES
    m,      \* m[o]: the block at offset o, for the blocks there are
    answer  \* the offset memAlloc has printed, NULL for "Allocation failed"

vars == <<m, answer>>

Init ==
    /\ m = [o \in {0} |-> [size |-> Size, allocated |-> FALSE, next |-> NULL, prev |-> NULL]]
    /\ answer = NULL

-----------------------------------------------------------------------------
\* The first free block from the head on that is large enough.
MemChk(size) ==
    LET chk[o \in DOMAIN m] ==
          IF ~m[o].allocated /\ m[o].size >= size THEN o
          ELSE IF m[o].next = NULL THEN NULL ELSE chk[m[o].next]
    IN  chk[0]

\* b->prev = to, if there is a block b.
BackLink(blocks, b, to) ==
    IF b = NULL THEN blocks ELSE [blocks EXCEPT ![b].prev = to]

\* Block o keeps size cells, a new free block behind it gets the others.
MemSplit(blocks, o, size) ==
    IF blocks[o].size <= size THEN blocks
    ELSE LET new == o + size
             rest == [size |-> blocks[o].size - size, allocated |-> FALSE,
                      next |-> blocks[o].next, prev |-> o]
             linked == BackLink(blocks, blocks[o].next, new)
         IN  [b \in DOMAIN blocks \cup {new} |->
                IF b = new THEN rest
                ELSE IF b = o THEN [linked[o] EXCEPT !.next = new, !.size = size]
                ELSE linked[b]]

\* Block o swallows the next one, which is freed.
SwallowNoBackLink(blocks, o) ==                       \* faulty variant
    LET gone == blocks[o].next
        grown == [blocks EXCEPT ![o].size = @ + blocks[gone].size, ![o].next = blocks[gone].next]
    IN  Restrict(grown, DOMAIN blocks \ {gone})
Swallow(blocks, o) ==
    LET gone == blocks[o].next
        grown == [blocks EXCEPT ![o].size = @ + blocks[gone].size, ![o].next = blocks[gone].next]
    IN  BackLink(Restrict(grown, DOMAIN blocks \ {gone}), blocks[gone].next, o)

IsFree(blocks, o) == o # NULL /\ ~blocks[o].allocated

\* First the next block is swallowed, then o itself by the one before.
MemMergeNextOnly(blocks, o) ==                        \* faulty variant
    IF IsFree(blocks, blocks[o].next) THEN Swallow(blocks, o) ELSE blocks
MemMerge(blocks, o) ==
    LET merged == IF IsFree(blocks, blocks[o].next) THEN Swallow(blocks, o) ELSE blocks
    IN  IF IsFree(merged, merged[o].prev) THEN Swallow(merged, merged[o].prev) ELSE merged

-----------------------------------------------------------------------------
MemAlloc(size) ==
    /\ MemChk(size) # NULL
    /\ answer' = MemChk(size)
    /\ m' = [MemSplit(m, answer', size) EXCEPT ![answer'].allocated = TRUE]

MemAllocFails(size) ==
    /\ MemChk(size) = NULL
    /\ answer' = NULL
    /\ UNCHANGED m

\* For a block that is not allocated memFree does nothing.
MemFree(o) ==
    /\ m[o].allocated
    /\ m' = MemMerge([m EXCEPT ![o].allocated = FALSE], o)
    /\ UNCHANGED answer

Next ==
    \/ \E size \in 1..Size : MemAlloc(size) \/ MemAllocFails(size)
    \/ \E o \in DOMAIN m : MemFree(o)

Spec == Init /\ [][Next]_vars

-----------------------------------------------------------------------------
\* The list is in order through any sequence of calls: the blocks tile the
\* memory, each followed by the one that next names, prev goes back the same
\* way, nothing hangs outside the list, and no two free blocks are neighbours.
ListOK ==
    /\ 0 \in DOMAIN m /\ m[0].prev = NULL
    /\ \A o \in DOMAIN m :
         LET end == o + m[o].size IN
         /\ m[o].size > 0 /\ end <= Size
         /\ \A other \in DOMAIN m : other <= o \/ other >= end
         /\ m[o].next = (IF end = Size THEN NULL ELSE end)
         /\ end < Size =>
              /\ end \in DOMAIN m
              /\ m[end].prev = o
              /\ m[o].allocated \/ m[end].allocated

\* The allocator implements the arena: the allocated blocks are the pieces.
TheArena == INSTANCE Arena WITH
    Nowhere <- NULL,
    taken <- {[at |-> o, size |-> m[o].size] : o \in {b \in DOMAIN m : m[b].allocated}}
ArenaSpec == TheArena!Spec
=============================================================================
