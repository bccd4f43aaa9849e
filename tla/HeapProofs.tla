----------------------------- MODULE HeapProofs -----------------------------
(***************************************************************************)
(* Proofs about Heap for every heap size, header size and set of request   *)
(* sizes: its types, that held blocks are apart, and that a refusal is     *)
(* final.                                                                  *)
(***************************************************************************)
EXTENDS Heap, SequenceTheorems, TLAPS

-----------------------------------------------------------------------------
(* The inductive invariant: the list lies in address order below index.    *)

Ordered ==
    \A i \in DOMAIN blocks :
      /\ End(i) <= index /\ End(i) < KHEAP_INITIAL_SIZE
      /\ \A j \in DOMAIN blocks : i < j => End(i) <= blocks[j].addr

\* A refusal leaves the index past the end of the heap.
Spent == failed => index >= KHEAP_INITIAL_SIZE

\* free never marks a block.
NoneFree == \A i \in DOMAIN blocks : ~blocks[i].is_free

HInv == HeapTypeOK /\ Ordered /\ Spent /\ NoneFree

\* malloc either grows the list by a block at index, or has run out.
LEMMA MallocOutcome ==
    ASSUME HInv, NEW size \in Sizes, malloc(size)
    PROVE  /\ index' = index + HeaderSize + size /\ index' \in 0 .. IndexLimit
           /\ \/ /\ index' >= KHEAP_INITIAL_SIZE /\ blocks' = blocks /\ ~Got
              \/ /\ index' < KHEAP_INITIAL_SIZE /\ Got
                 /\ blocks' = Append(blocks, [addr |-> index, size |-> size,
                                               is_free |-> FALSE])
                 /\ blocks' \in Seq(Block) /\ Len(blocks') = Len(blocks) + 1
<1>1. FreeBlocks(size) = {}
  BY DEF FreeBlocks, HInv, NoneFree
<1>2. tmalloc_morecore(size)
  BY <1>1 DEF malloc
<1>3. index' = index + HeaderSize + size /\ index' \in 0 .. IndexLimit
  BY <1>2, HeapAssumption DEF tmalloc_morecore, TotalSize, HInv, HeapTypeOK
<1>4. [addr |-> index, size |-> size, is_free |-> FALSE] \in Block
  BY HeapAssumption DEF Block, HInv, HeapTypeOK
<1>5. CASE index' >= KHEAP_INITIAL_SIZE
  BY <1>2, <1>3, <1>5 DEF tmalloc_morecore, Got, HInv, HeapTypeOK
<1>6. CASE index' < KHEAP_INITIAL_SIZE
  <2>1. blocks' = Append(blocks, [addr |-> index, size |-> size,
                                  is_free |-> FALSE])
    BY <1>2, <1>3, <1>6, HeapAssumption DEF tmalloc_morecore
  <2>2. blocks' \in Seq(Block) /\ Len(blocks') = Len(blocks) + 1
    BY <1>4, <2>1, AppendProperties DEF HInv, HeapTypeOK
  <2>3. Got
    BY <2>2, LenProperties DEF Got, HInv, HeapTypeOK
  <2>. QED  BY <1>3, <1>6, <2>1, <2>2, <2>3
<1>. QED  BY <1>3, <1>5, <1>6, HeapAssumption

\* Growing the list keeps it in order.
LEMMA MallocKeeps ==
    ASSUME HInv, NEW size \in Sizes, malloc(size), Answer(size)
    PROVE  /\ blocks' \in Seq(Block) /\ index' \in 0 .. IndexLimit
           /\ DOMAIN blocks \subseteq DOMAIN blocks'
           /\ Got => /\ DOMAIN blocks' = DOMAIN blocks \union {Len(blocks')}
                     /\ Len(blocks') \notin DOMAIN blocks
           /\ Ordered' /\ Spent' /\ NoneFree'
           /\ refused' \in Sizes \union {NULL} /\ failed' \in BOOLEAN
<1>1. index' = index + HeaderSize + size /\ index' \in 0 .. IndexLimit
  BY MallocOutcome
<1>2. /\ index \in Nat /\ size \in Nat /\ HeaderSize \in Nat
      /\ KHEAP_INITIAL_SIZE \in Nat /\ blocks \in Seq(Block)
      /\ Len(blocks) \in Nat /\ DOMAIN blocks = 1 .. Len(blocks)
  BY HeapAssumption, LenProperties DEF HInv, HeapTypeOK
<1>3. \A i \in DOMAIN blocks :
         blocks[i].addr \in Nat /\ blocks[i].size \in Nat /\ End(i) \in Nat
  <2> SUFFICES ASSUME NEW i \in DOMAIN blocks
               PROVE  /\ blocks[i].addr \in Nat /\ blocks[i].size \in Nat
                      /\ End(i) \in Nat
    OBVIOUS
  <2>1. blocks[i] \in Block
    BY <1>2, ElementOfSeq
  <2>. QED  BY <1>2, <2>1 DEF Block, End
<1>4. refused' \in Sizes \union {NULL} /\ failed' \in BOOLEAN
  BY DEF Answer, Got, HInv, HeapTypeOK
<1>5. CASE index' >= KHEAP_INITIAL_SIZE /\ blocks' = blocks /\ ~Got
  <2>1. Ordered'
    BY <1>1, <1>2, <1>3, <1>5 DEF HInv, Ordered, End
  <2>2. Spent' /\ NoneFree'
    BY <1>5 DEF Spent, HInv, NoneFree
  <2>. QED  BY <1>1, <1>2, <1>4, <1>5, <2>1, <2>2
<1>6. CASE /\ index' < KHEAP_INITIAL_SIZE /\ Got
           /\ blocks' = Append(blocks, [addr |-> index, size |-> size,
                                        is_free |-> FALSE])
           /\ blocks' \in Seq(Block) /\ Len(blocks') = Len(blocks) + 1
  <2>n. PICK n \in Nat : n = Len(blocks) + 1
    BY <1>2
  <2>1. /\ DOMAIN blocks' = 1 .. n
        /\ \A i \in DOMAIN blocks : blocks'[i] = blocks[i]
        /\ blocks'[n] =
             [addr |-> index, size |-> size, is_free |-> FALSE]
    BY <1>2, <1>6, <2>n, AppendProperties, LenProperties
  <2>2. \A i \in DOMAIN blocks : End(i)' = End(i)
    BY <2>1 DEF End
  <2>3. End(n)' = index'
    <3>1. /\ blocks'[n].addr = index
          /\ blocks'[n].size = size
      BY <2>1
    <3>2. End(n)' = blocks'[n].addr + HeaderSize + blocks'[n].size
      BY Zenon DEF End
    <3>. QED  BY <1>1, <3>1, <3>2
  <2>4. Ordered'
    <3> SUFFICES ASSUME NEW i \in DOMAIN blocks'
                 PROVE  /\ End(i)' <= index' /\ End(i)' < KHEAP_INITIAL_SIZE
                        /\ \A j \in DOMAIN blocks' :
                             i < j => End(i)' <= blocks'[j].addr
      BY DEF Ordered
    <3>1. CASE i \in DOMAIN blocks
      <4>1. End(i)' = End(i) /\ End(i) <= index /\ End(i) < KHEAP_INITIAL_SIZE
        BY <2>2, <3>1 DEF HInv, Ordered
      <4>2. ASSUME NEW j \in DOMAIN blocks', i < j
            PROVE  End(i)' <= blocks'[j].addr
        <5>1. CASE j \in DOMAIN blocks
          BY <2>1, <3>1, <4>1, <4>2, <5>1 DEF HInv, Ordered
        <5>2. CASE j = n
          BY <2>1, <4>1, <5>2
        <5>. QED  BY <1>2, <2>n, <2>1, <5>1, <5>2
      <4>3. End(i)' <= index'
        BY <1>1, <1>2, <1>3, <3>1, <4>1
      <4>. QED  BY <4>1, <4>2, <4>3
    <3>2. CASE i = n
      <4>1. End(i)' = index' /\ index' \in Nat
        BY <1>1, <2>3, <3>2, HeapAssumption
      <4>2. \A j \in DOMAIN blocks' : ~(i < j)
        BY <1>2, <2>1, <3>2
      <4>. QED  BY <1>6, <4>1, <4>2
    <3>. QED  BY <1>2, <2>n, <2>1, <3>1, <3>2
  <2>5. Spent'
    <3>1. ~failed
      BY <1>1, <1>2, <1>6 DEF HInv, Spent
    <3>. QED  BY <1>6, <3>1 DEF Answer, Spent, Got
  <2>6. NoneFree'
    BY <1>2, <2>n, <2>1 DEF HInv, NoneFree
  <2>7. /\ DOMAIN blocks \subseteq DOMAIN blocks'
        /\ DOMAIN blocks' = DOMAIN blocks \union {Len(blocks')}
        /\ Len(blocks') \notin DOMAIN blocks
    BY <1>2, <1>6, <2>n, <2>1
  <2>. QED  BY <1>1, <1>4, <1>6, <2>4, <2>5, <2>6, <2>7
<1>. QED  BY <1>5, <1>6, MallocOutcome

\* free changes nothing but who holds what.
LEMMA FreeKeeps ==
    ASSUME HInv, NEW i \in DOMAIN blocks, tmalloc_free(i)
    PROVE  blocks' = blocks
<1>1. blocks \in Seq(Block) /\ blocks[i] \in Block
  <2>1. blocks \in Seq(Block)
    BY DEF HInv, HeapTypeOK
  <2>2. i \in 1 .. Len(blocks)
    BY <2>1, LenProperties
  <2>. QED  BY <2>1, <2>2, ElementOfSeq
<1>2. blocks[i].is_free = FALSE
  BY <1>1 DEF HInv, NoneFree, Block
<1>3. [blocks[i] EXCEPT !.is_free = FALSE] = blocks[i]
  BY <1>1, <1>2 DEF Block
<1>. QED  BY <1>1, <1>3 DEF tmalloc_free

LEMMA HeapInductive == HInv /\ [HeapNext]_heapVars => HInv'
<1> SUFFICES ASSUME HInv, [HeapNext]_heapVars
             PROVE  HInv'
  OBVIOUS
<1>1. ASSUME NEW size \in Sizes, tmalloc_malloc(size)
      PROVE  HInv'
  BY <1>1, MallocKeeps DEF tmalloc_malloc, HInv, HeapTypeOK
<1>2. ASSUME NEW i \in DOMAIN blocks, tmalloc_free(i)
      PROVE  HInv'
  BY <1>2, FreeKeeps
  DEF tmalloc_free, HInv, HeapTypeOK, Ordered, Spent, NoneFree, End
<1>3. ASSUME NEW i \in DOMAIN blocks, NEW size \in Sizes,
             tmalloc_realloc(i, size)
      PROVE  HInv'
  BY <1>3, MallocKeeps DEF tmalloc_realloc, HInv, HeapTypeOK
<1>4. CASE UNCHANGED heapVars
  BY <1>4 DEF heapVars, HInv, HeapTypeOK, Ordered, Spent, NoneFree, End
<1>. QED  BY <1>1, <1>2, <1>3, <1>4 DEF HeapNext

\* The list stays in address order, inside the heap, with nothing free.
THEOREM HeapInvariance == HeapSpec => []HInv
<1>1. HeapInit => HInv
  <2> SUFFICES ASSUME HeapInit
               PROVE  HInv
    OBVIOUS
  <2>1. blocks \in Seq(Block) /\ DOMAIN blocks = {}
    BY EmptySeq DEF HeapInit
  <2>2. HeapTypeOK
    <3>1. index \in 0 .. IndexLimit
      BY HeapAssumption DEF HeapInit
    <3>. QED  BY <2>1, <3>1 DEF HeapInit, HeapTypeOK
  <2>3. Ordered /\ Spent /\ NoneFree
    BY <2>1 DEF HeapInit, Ordered, Spent, NoneFree
  <2>. QED  BY <2>2, <2>3 DEF HInv
<1>. QED  BY <1>1, HeapInductive, PTL DEF HeapSpec

-----------------------------------------------------------------------------
(* What follows.                                                           *)

THEOREM HeapTypeCorrect == HeapSpec => []HeapTypeOK
<1>1. HInv => HeapTypeOK
  BY DEF HInv
<1>. QED  BY <1>1, HeapInvariance, PTL

\* No byte of the heap is handed out twice or lies outside it.
THEOREM HeldApartInvariant == HeapSpec => []HeldApart
<1>1. HInv => HeldApart
  <2> SUFFICES ASSUME HInv, NEW i \in held
               PROVE  /\ End(i) <= KHEAP_INITIAL_SIZE
                      /\ \A j \in held \ {i} :
                           End(i) <= blocks[j].addr \/ End(j) <= blocks[i].addr
    BY DEF HeldApart
  <2>1. /\ held \subseteq DOMAIN blocks /\ blocks \in Seq(Block)
        /\ DOMAIN blocks \subseteq Int
    BY LenProperties DEF HInv, HeapTypeOK
  <2>2. blocks[i].addr \in Nat /\ blocks[i].size \in Nat /\ End(i) \in Nat
    <3>1. i \in 1 .. Len(blocks)
      BY <2>1, LenProperties
    <3>2. blocks[i] \in Block
      BY <2>1, <3>1, ElementOfSeq
    <3>. QED  BY <3>2, HeapAssumption DEF Block, End
  <2>3. End(i) <= KHEAP_INITIAL_SIZE
    BY <2>1, <2>2, HeapAssumption DEF HInv, Ordered
  <2>4. ASSUME NEW j \in held \ {i}
        PROVE  End(i) <= blocks[j].addr \/ End(j) <= blocks[i].addr
    <3>1. i < j \/ j < i
      BY <2>1
    <3>. QED  BY <2>1, <3>1 DEF HInv, Ordered
  <2>. QED  BY <2>3, <2>4
<1>. QED  BY <1>1, HeapInvariance, PTL

\* After one refusal nothing is ever handed out again.
THEOREM RefusalEndsHeap == HeapSpec => RefusalIsFinal
<1>1. HInv /\ [HeapNext]_heapVars
        => [failed => Len(blocks') = Len(blocks)]_heapVars
  <2> SUFFICES ASSUME HInv, HeapNext, failed
               PROVE  Len(blocks') = Len(blocks)
    BY DEF heapVars
  <2>1. ASSUME NEW size \in Sizes, malloc(size)
        PROVE  blocks' = blocks
    <3>1. index >= KHEAP_INITIAL_SIZE
      BY DEF HInv, Spent
    <3>2. index \in Nat /\ size \in Nat
      BY HeapAssumption DEF HInv, HeapTypeOK
    <3>3. index' = index + HeaderSize + size
      BY <2>1, MallocOutcome
    <3>4. ~(index' < KHEAP_INITIAL_SIZE)
      BY <3>1, <3>2, <3>3, HeapAssumption
    <3>. QED  BY <2>1, <3>4, MallocOutcome
  <2>2. ASSUME NEW i \in DOMAIN blocks, tmalloc_free(i)
        PROVE  blocks' = blocks
    BY <2>2, FreeKeeps
  <2>. QED
    BY <2>1, <2>2 DEF HeapNext, tmalloc_malloc, tmalloc_realloc
<1>. QED  BY <1>1, HeapInvariance, PTL DEF HeapSpec, RefusalIsFinal
=============================================================================
