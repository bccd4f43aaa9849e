-------------------------------- MODULE Heap --------------------------------
(***************************************************************************)
(* The kernel heap, tmalloc (src/kernel/mm/hmm.c), which kmalloc, kfree,   *)
(* krealloc and the malloc and free system calls come down to.             *)
(*                                                                         *)
(* Its blocks form one list, in address order; a block is named by its     *)
(* place in the list.  The calls do not overlap: system calls run with     *)
(* interrupts off, and no interrupt handler allocates.  What blocks hold   *)
(* is not modelled, their extents are.                                     *)
(***************************************************************************)
EXTENDS Integers, Sequences

CONSTANTS
    KHEAP_INITIAL_SIZE, \* bytes mapped for the heap
    HeaderSize,         \* sizeof(struct tmalloc_header)
    Sizes,              \* the sizes asked for
    IndexLimit          \* bound: bytes ever asked for; index wraps at 2^32

ASSUME HeapAssumption ==
    /\ KHEAP_INITIAL_SIZE \in Nat
    /\ HeaderSize \in Nat \ {0}
    /\ Sizes \subseteq Nat \ {0}
    /\ IndexLimit \in Nat

VARIABLES
    blocks,  \* the list from head to tail
    index,   \* offset of the next block from heap_position
    held,    \* the blocks callers hold pointers to
    freed,   \* history: the blocks callers have given back
    refused, \* history: the size the last call refused, 0 if it did not
    failed   \* history: some call was refused

heapVars == <<blocks, index, held, freed, refused, failed>>

NULL == 0

Block == [addr : Nat, size : Nat, is_free : BOOLEAN]

-----------------------------------------------------------------------------
HeapInit ==
    /\ blocks = <<>>
    /\ index = 0
    /\ held = {}
    /\ freed = {}
    /\ refused = NULL
    /\ failed = FALSE

\* Fault: the header is left out of the block's size.
TotalSizeOfData(size) == size

TotalSize(size) == size + HeaderSize

\* The blocks tmalloc_get_free_block may find.
FreeBlocks(size) ==
    {i \in DOMAIN blocks : blocks[i].is_free /\ blocks[i].size >= size}

\* Fault: a refused request gives its bytes back.
tmalloc_morecoreUndo(size) ==
    LET grown == index + TotalSize(size)
    IN  /\ grown <= IndexLimit
        /\ IF grown >= KHEAP_INITIAL_SIZE
             THEN UNCHANGED <<index, blocks>>
             ELSE /\ index' = grown
                  /\ blocks' = Append(blocks, [addr |-> index, size |-> size,
                                               is_free |-> FALSE])

\* tmalloc_morecore with the appending that follows it.  The index has grown
\* when the limit is compared, and a refused request does not give it back.
tmalloc_morecore(size) ==
    /\ index + TotalSize(size) <= IndexLimit
    /\ index' = index + TotalSize(size)
    /\ blocks' = IF index' >= KHEAP_INITIAL_SIZE THEN blocks
                 ELSE Append(blocks, [addr |-> index, size |-> size,
                                      is_free |-> FALSE])

\* A block that is_free marks would be refused all the same: the test of its
\* magic, never zero, is inverted.  The header of a new block is the tail.
malloc(size) ==
    IF FreeBlocks(size) # {} THEN UNCHANGED <<blocks, index>>
                             ELSE tmalloc_morecore(size)

\* What the caller got: the new last block, or NULL.
Got == Len(blocks') > Len(blocks)

Answer(size) ==
    /\ refused' = IF Got THEN NULL ELSE size
    /\ failed' = (failed \/ ~Got)

tmalloc_malloc(size) ==
    /\ malloc(size)
    /\ held' = IF Got THEN held \union {Len(blocks')} ELSE held
    /\ Answer(size)
    /\ UNCHANGED freed

\* It sets is_free to false, as every block has it already.  A caller may free
\* a block twice: the magic is still there.
tmalloc_free(i) ==
    /\ i \in held \union freed
    /\ blocks' = [blocks EXCEPT ![i].is_free = FALSE]
    /\ held' = held \ {i}
    /\ freed' = freed \union {i}
    /\ UNCHANGED <<index, refused, failed>>

\* Fault: the old block is freed before the new one is known to be there.
tmalloc_reallocFreesFirst(i, size) ==
    /\ i \in held
    /\ blocks[i].size < size
    /\ malloc(size)
    /\ held' = IF Got THEN (held \ {i}) \union {Len(blocks')} ELSE held
    /\ freed' = freed \union {i}
    /\ Answer(size)

\* realloc of a block that is too small: another one, and the old one freed,
\* which leaves its is_free as it is, false.  (With room enough in the block,
\* the pointer comes back unchanged; with no pointer it is malloc, with size 0
\* free.)
tmalloc_realloc(i, size) ==
    /\ i \in held
    /\ blocks[i].size < size
    /\ malloc(size)
    /\ held' = IF Got THEN (held \ {i}) \union {Len(blocks')} ELSE held
    /\ freed' = IF Got THEN freed \union {i} ELSE freed
    /\ Answer(size)

HeapNext ==
    \/ \E size \in Sizes : tmalloc_malloc(size)
    \/ \E i \in DOMAIN blocks : tmalloc_free(i)
    \/ \E i \in DOMAIN blocks, size \in Sizes : tmalloc_realloc(i, size)

HeapSpec == HeapInit /\ [][HeapNext]_heapVars

-----------------------------------------------------------------------------
(* Properties.                                                             *)

HeapTypeOK ==
    /\ blocks \in Seq(Block)
    /\ index \in 0 .. IndexLimit
    /\ held \subseteq DOMAIN blocks /\ freed \subseteq DOMAIN blocks
    /\ held \intersect freed = {}
    /\ refused \in Sizes \union {NULL}
    /\ failed \in BOOLEAN

\* The first byte after block i.
End(i) == blocks[i].addr + HeaderSize + blocks[i].size

\* What callers hold does not overlap, headers included, and is mapped: no
\* sequence of calls, refusals and reallocations hands out a byte twice.
HeldApart ==
    \A i \in held :
      /\ End(i) <= KHEAP_INITIAL_SIZE
      /\ \A j \in held \ {i} : End(i) <= blocks[j].addr \/ End(j) <= blocks[i].addr

\* One request that is too large ends the heap: whatever its size, no later
\* request is served, however much of the heap was left.
RefusalIsFinal == [][failed => Len(blocks') = Len(blocks)]_heapVars

\* "Frees a program in memory" (program.c:36): what was freed can be had
\* again, so a refused request is larger than any freed block.
RefusedOnlyWhenFull ==
    refused # NULL => \A i \in freed : blocks[i].size < refused
=============================================================================
