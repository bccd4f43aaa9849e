---------------------------- MODULE FramesProofs ----------------------------
(***************************************************************************)
(* Proofs about Frames for every memory, every directory size, every       *)
(* number of tasks and every set of programs: types; who uses which frame, *)
(* and what a step may do to that; the inductive invariant FramesInv, step *)
(* by step; and the four properties that follow from it.                   *)
(***************************************************************************)
EXTENDS Frames, FiniteSetTheorems, WellFoundedInduction, TLAPS

-----------------------------------------------------------------------------
(* The operators of pmm.c and of address arithmetic.                       *)

\* The order of the natural numbers has no infinite descent.
LEMMA NatOrder == IsWellFoundedOn({p \in Nat \X Nat : p[1] < p[2]}, Nat)
BY NatLessThanWellFounded DEF OpToRel

\* A set of natural numbers that is not empty has a least element,
LEMMA LeastExists ==
    ASSUME NEW S \in SUBSET Nat, S # {}
    PROVE  \E m \in S : \A n \in S : m <= n
<1>. DEFINE R == {p \in Nat \X Nat : p[1] < p[2]}
<1>1. \E x \in S : \A y \in S : <<y, x>> \notin R
  <2>1. IsWellFoundedOn(R, Nat)
    BY NatOrder
  <2>. HIDE DEF R
  <2>. QED  BY <2>1, WFMin
<1>2. \A x, y \in Nat : y < x => <<y, x>> \in R
  OBVIOUS
<1>3. PICK x \in S : \A y \in S : <<y, x>> \notin R
  BY <1>1
<1>4. \A y \in S : ~(y < x)
  BY <1>2, <1>3
<1>. QED  BY <1>3, <1>4

\* which is what Lowest picks.
LEMMA LowestIsLeast ==
    ASSUME NEW S \in SUBSET Nat, S # {}
    PROVE  Lowest(S) \in S /\ \A n \in S : Lowest(S) <= n
BY LeastExists DEF Lowest

Full(b) == Frames \subseteq b \union KernelImage

\* What pmm_alloc_block hands out was free, unless nothing was.
LEMMA AllocFacts ==
    ASSUME NEW b \in SUBSET Frames
    PROVE  /\ pmm_alloc_block(b) \in Frames
           /\ Full(b) => pmm_alloc_block(b) = 0
           /\ ~Full(b) => pmm_alloc_block(b) \notin b \union KernelImage
           /\ Taken(b) \subseteq Frames
           /\ b \union {pmm_alloc_block(b)} \subseteq Taken(b)
           /\ Taken(b) \subseteq b \union {pmm_alloc_block(b)} \union KernelImage
<1>. DEFINE free == Frames \ (b \union KernelImage)
<1>1. MaxBlocks \in Nat \ {0} /\ KernelImage \subseteq Frames
  BY FramesAssumption DEF Frames
<1>2. Full(b) <=> free = {}
  BY DEF Full
<1>3. free # {} => Lowest(free) \in free
  BY LowestIsLeast, <1>1 DEF Frames
<1>4. pmm_alloc_block(b) = IF free = {} THEN 0 ELSE Lowest(free)
  BY DEF pmm_alloc_block
<1>5. Taken(b) = (b \union {pmm_alloc_block(b)}) \union
                   {g \in KernelImage : free = {} \/ g < pmm_alloc_block(b)}
  BY DEF Taken, pmm_set
<1>6. 0 \in Frames
  BY <1>1 DEF Frames
<1>. HIDE DEF free
<1>7. pmm_alloc_block(b) \in Frames
  BY <1>3, <1>4, <1>6 DEF free
<1>. QED  BY <1>1, <1>2, <1>3, <1>4, <1>5, <1>7 DEF free

\* When nothing is free, an allocation frees nothing.
LEMMA FullGrows ==
    ASSUME NEW b \in SUBSET Frames, Full(b)
    PROVE  Full(Taken(b))
BY AllocFacts DEF Full

Pages == 0 .. ENTRIES * ENTRIES - 1

\* The two halves of a page number index a directory and a table,
LEMMA PageFacts ==
    ASSUME NEW v \in Pages
    PROVE  Directory(v) \in Entries /\ Index(v) \in Entries
<1>1. ENTRIES \in Nat \ {0}
  BY FramesAssumption
<1>. QED  BY <1>1 DEF Pages, Directory, Index, Entries

\* and together they name the page.
LEMMA PagesDiffer ==
    ASSUME NEW v \in Pages, NEW w \in Pages,
           Directory(v) = Directory(w), Index(v) = Index(w)
    PROVE  v = w
<1>1. ENTRIES \in Nat \ {0}
  BY FramesAssumption
<1>2. v \in Nat /\ w \in Nat
  BY <1>1 DEF Pages
<1>. QED  BY <1>1, <1>2 DEF Directory, Index

\* The user pages and the kernel's share all pages between them.
LEMMA SpacesArePages ==
    /\ UserPages \subseteq Pages /\ KernelSpace \subseteq Pages
    /\ UserPages \intersect KernelSpace = {}
    /\ \A v \in Pages : v \in UserPages \/ v \in KernelSpace
<1>1. /\ {ENTRIES, KERNEL_VBASE, KERNEL_PAGES, KHEAP_START, KHEAP_PAGES} \subseteq Nat \ {0}
      /\ KERNEL_VBASE + KERNEL_PAGES <= KHEAP_START
      /\ KHEAP_START + KHEAP_PAGES <= ENTRIES * ENTRIES
  BY FramesAssumption, LayoutAssumption
<1>2. ENTRIES * ENTRIES \in Nat
  BY <1>1
<1>. DEFINE EE == ENTRIES * ENTRIES
<1>3. /\ EE \in Nat
      /\ KHEAP_START + KHEAP_PAGES <= EE
      /\ Pages = 0 .. EE - 1 /\ KernelSpace = KERNEL_VBASE .. EE - 1
  BY <1>1, <1>2 DEF Pages, KernelSpace
<1>. HIDE DEF EE
<1>. QED  BY <1>1, <1>3 DEF UserPages

-----------------------------------------------------------------------------
(* The operators of elf.c.                                                 *)

\* A bounded set of natural numbers has a greatest element.
LEMMA GreatestExists ==
    ASSUME NEW S \in SUBSET Nat, S # {}, NEW B \in Nat, \A n \in S : n <= B
    PROVE  \E m \in S : \A n \in S : n <= m
<1>. DEFINE T == {B - n : n \in S}
<1>1. T \in SUBSET Nat
  OBVIOUS
<1>2. T # {}
  OBVIOUS
<1>3. PICK t \in T : \A u \in T : t <= u
  <2>. HIDE DEF T
  <2>. QED  BY <1>1, <1>2, LeastExists
<1>4. PICK m \in S : t = B - m
  BY <1>3
<1>5. \A n \in S : B - m <= B - n
  BY <1>3, <1>4
<1>. QED  BY <1>5

\* Rounding a length up to whole pages: what ends below a page boundary needs
\* no page behind it,
LEMMA CeilBound ==
    ASSUME NEW n \in Nat, NEW b \in Nat, NEW d \in Nat \ {0}, NEW K \in Nat,
           b + n <= d * K
    PROVE  (b \div d) + ((n + d - 1) \div d) <= K
OBVIOUS

\* and what starts on a boundary gets all the pages it lies in.
LEMMA CeilReaches ==
    ASSUME NEW n \in Nat, NEW b \in Nat, NEW d \in Nat \ {0}, NEW a \in Nat,
           b % d = 0, b <= a, a < b + n
    PROVE  /\ (b \div d) <= (a \div d)
           /\ (a \div d) < (b \div d) + ((n + d - 1) \div d)
<1>1. PICK q \in Nat : q = b \div d
  OBVIOUS
<1>2. PICK c \in Nat : c = (n + d - 1) \div d
  OBVIOUS
<1>3. d * q = b
  BY <1>1
<1>4. n <= d * c
  BY <1>2
<1>5. q <= a \div d
  BY <1>3
<1>6. a < d * (q + c)
  BY <1>3, <1>4
<1>7. a \div d < q + c
  BY <1>6
<1>. QED  BY <1>1, <1>2, <1>5, <1>7

\* The fields of a program, and the constants its pages are counted with.
LEMMA ProgramFields ==
    ASSUME NEW p \in Programs
    PROVE  /\ PAGE \in Nat \ {0} /\ KERNEL_VBASE \in Nat \ {0} /\ RAW_PAGES \in Nat \ {0}
           /\ RAW_PAGES < KERNEL_VBASE
           /\ p.length \in Nat /\ PAGE + p.length <= PAGE * KERNEL_VBASE
           /\ \A s \in p.segments : /\ s.vaddr \in Nat /\ s.memsz \in Nat
                                    /\ s.vaddr + s.memsz <= PAGE * KERNEL_VBASE
<1>1. p \in [kind : {"executable", "relocatable", "other", "raw"},
             segments : SUBSET [vaddr : Nat, memsz : Nat], length : Nat]
  BY ProgramsAssumption
<1>. QED  BY <1>1, FramesAssumption, ProgramsAssumption

\* An ELF file's segments lie between its load address and its length, below
\* the kernel.
LEMMA SegmentsLie ==
    ASSUME NEW p \in Programs, SupportedElf(p), NEW s \in p.segments
    PROVE  /\ elf_get_load_addr(p) \in Nat /\ elf_get_file_length(p) \in Nat
           /\ elf_get_load_addr(p) <= s.vaddr
           /\ s.vaddr + s.memsz <= elf_get_load_addr(p) + elf_get_file_length(p)
           /\ elf_get_load_addr(p) + elf_get_file_length(p) <= PAGE * KERNEL_VBASE
<1>. DEFINE starts == {t.vaddr : t \in p.segments}
            base == elf_get_load_addr(p)
            ends == {t.vaddr + t.memsz - base : t \in p.segments}
            top == PAGE * KERNEL_VBASE
            length == CHOOSE e \in ends : \A d \in ends : d <= e
<1>1. /\ top \in Nat
      /\ \A t \in p.segments : t.vaddr \in Nat /\ t.memsz \in Nat /\ t.vaddr + t.memsz <= top
  BY ProgramFields
<1>2. starts \in SUBSET Nat /\ starts # {}
  BY <1>1
<1>3. base = Lowest(starts)
  BY DEF elf_get_load_addr
<1>4. base \in starts /\ \A n \in starts : base <= n
  <2>. HIDE DEF starts, base
  <2>. QED  BY <1>2, <1>3, LowestIsLeast
<1>5. base \in Nat /\ \A t \in p.segments : base <= t.vaddr
  BY <1>2, <1>4
<1>6. elf_get_file_length(p) = length
  BY DEF elf_get_file_length
<1>. HIDE DEF base, top
<1>7. ends \in SUBSET Nat /\ ends # {} /\ top \in Nat /\ \A e \in ends : e <= top
  BY <1>1, <1>5
<1>8. length \in ends /\ \A e \in ends : e <= length
  <2>. HIDE DEF ends
  <2>. QED  BY <1>7, GreatestExists
<1>9. PICK t \in p.segments : length = t.vaddr + t.memsz - base
  BY <1>8
<1>10. s.vaddr + s.memsz - base <= length
  BY <1>8
<1>. HIDE DEF length, ends
<1>. QED  BY <1>1, <1>5, <1>6, <1>7, <1>8, <1>9, <1>10 DEF top, base

\* The pages of a program lie below the kernel's.
LEMMA ProgramPages ==
    ASSUME NEW p \in Programs
    PROVE  /\ PagesOf(p) \in Nat
           /\ \A j \in 0 .. PagesOf(p) - 1 : LoadAddress(p) \div PAGE + j \in UserPages
<1>. USE ProgramFields
<1>1. CASE p.kind = "raw"
  <2>1. LoadAddress(p) \div PAGE = 1
    BY <1>1 DEF LoadAddress
  <2>. QED  BY <1>1, <2>1 DEF PagesOf, UserPages
<1>2. CASE p.kind # "raw" /\ (~SupportedElf(p) \/ p.segments = {})
  <2>1. elf_get_file_length(p) = 0
    BY <1>2 DEF elf_get_file_length
  <2>2. PagesOf(p) = (0 + PAGE - 1) \div PAGE
    BY <1>2, <2>1 DEF PagesOf
  <2>3. PagesOf(p) = 0
    BY <2>2
  <2>. QED  BY <2>3
<1>3. CASE p.kind # "raw" /\ SupportedElf(p) /\ p.segments # {}
  <2>1. PICK s \in p.segments : TRUE
    BY <1>3
  <2>. DEFINE base == elf_get_load_addr(p)
              length == elf_get_file_length(p)
  <2>2. base \in Nat /\ length \in Nat /\ base + length <= PAGE * KERNEL_VBASE
    BY <1>3, <2>1, SegmentsLie
  <2>. HIDE DEF base, length
  <2>3. (base \div PAGE) + ((length + PAGE - 1) \div PAGE) <= KERNEL_VBASE
    BY <2>2, CeilBound
  <2>4. base \div PAGE \in Nat /\ (length + PAGE - 1) \div PAGE \in Nat
    BY <2>2
  <2>5. PagesOf(p) = (length + PAGE - 1) \div PAGE /\ LoadAddress(p) = base
    BY <1>3 DEF PagesOf, LoadAddress, base, length
  <2>. QED  BY <2>3, <2>4, <2>5 DEF UserPages
<1>. QED  BY <1>1, <1>2, <1>3

FilePages(p) == {a \div PAGE : a \in elf_load_file(p)}

\* A file's bytes go to user pages.
LEMMA FilePagesBelowKernel ==
    ASSUME NEW p \in Programs
    PROVE  FilePages(p) \subseteq UserPages
<1>. USE ProgramFields
<1>1. ASSUME NEW a \in Nat, a < PAGE * KERNEL_VBASE PROVE a \div PAGE \in UserPages
  BY <1>1 DEF UserPages
<1>2. ASSUME NEW a \in elf_load_file(p) PROVE a \in Nat /\ a < PAGE * KERNEL_VBASE
  <2>1. CASE p.kind = "executable"
    <3>1. PICK s \in p.segments : a \in Span(s.vaddr, s.memsz)
      BY <1>2, <2>1 DEF elf_load_file
    <3>. QED  BY <3>1 DEF Span
  <2>2. CASE p.kind = "raw"
    BY <1>2, <2>2 DEF elf_load_file, Span
  <2>3. CASE p.kind \notin {"executable", "raw"}
    BY <1>2, <2>3 DEF elf_load_file
  <2>. QED  BY <2>1, <2>2, <2>3
<1>. QED  BY <1>1, <1>2 DEF FilePages

\* If a program's first segment begins on a page boundary, the pages made for
\* it are all that its bytes go to.
LEMMA FilePagesAreMade ==
    ASSUME NEW p \in Programs, NEW v \in FilePages(p),
           IF p.kind = "raw" THEN p.length <= PAGE * RAW_PAGES
                             ELSE elf_get_load_addr(p) % PAGE = 0
    PROVE  \E j \in 0 .. PagesOf(p) - 1 : v = LoadAddress(p) \div PAGE + j
<1>. USE ProgramFields
<1>1. PICK a \in elf_load_file(p) : v = a \div PAGE
  BY DEF FilePages
<1>2. CASE p.kind = "raw"
  <2>1. a \in Nat /\ PAGE <= a /\ a < PAGE * (1 + RAW_PAGES)
    BY <1>1, <1>2 DEF elf_load_file, Span
  <2>2. LoadAddress(p) \div PAGE = 1 /\ PagesOf(p) = RAW_PAGES
    BY <1>2 DEF LoadAddress, PagesOf
  <2>3. v \in Nat /\ 1 <= v /\ v < 1 + RAW_PAGES
    BY <1>1, <2>1
  <2>4. v = LoadAddress(p) \div PAGE + (v - 1) /\ v - 1 \in 0 .. PagesOf(p) - 1
    BY <2>2, <2>3
  <2>. QED  BY <2>4
<1>3. CASE p.kind = "executable"
  <2>1. PICK s \in p.segments : a \in Span(s.vaddr, s.memsz)
    BY <1>1, <1>3 DEF elf_load_file
  <2>. DEFINE base == elf_get_load_addr(p)
              length == elf_get_file_length(p)
  <2>2. /\ base \in Nat /\ length \in Nat /\ base % PAGE = 0
        /\ base <= s.vaddr /\ s.vaddr + s.memsz <= base + length
    BY <1>3, <2>1, SegmentsLie DEF SupportedElf
  <2>3. LoadAddress(p) = base /\ PagesOf(p) = (length + PAGE - 1) \div PAGE
    BY <1>3 DEF LoadAddress, PagesOf
  <2>. HIDE DEF base, length
  <2>4. a \in Nat /\ base <= a /\ a < base + length
    BY <2>1, <2>2 DEF Span
  <2>5. /\ base \div PAGE \in Nat /\ v \in Nat /\ PagesOf(p) \in Nat
        /\ base \div PAGE <= v /\ v < (base \div PAGE) + PagesOf(p)
    <3>1. /\ base \div PAGE <= a \div PAGE
          /\ a \div PAGE < (base \div PAGE) + ((length + PAGE - 1) \div PAGE)
      BY <2>2, <2>4, CeilReaches
    <3>2. base \div PAGE \in Nat /\ a \div PAGE \in Nat /\ (length + PAGE - 1) \div PAGE \in Nat
      BY <2>2, <2>4
    <3>. QED  BY <1>1, <2>3, <3>1, <3>2
  <2>6. v = LoadAddress(p) \div PAGE + (v - (base \div PAGE))
        /\ v - (base \div PAGE) \in 0 .. PagesOf(p) - 1
    BY <2>3, <2>5
  <2>. QED  BY <2>6
<1>4. CASE p.kind \notin {"executable", "raw"}
  BY <1>1, <1>4 DEF elf_load_file
<1>. QED  BY <1>2, <1>3, <1>4

-----------------------------------------------------------------------------
(* Types.                                                                  *)

Memories == [Frames -> [Entries -> Frames \union {NONE}]]

LaunchLabels == {"clone", "pages", "load", "page_fault", "panic"}

\* The variables that FramesTypeOK leaves out, and how far the loops get.
Ranges ==
    /\ runningTask \in Slots /\ target \in Slots
    /\ used \in [Slots -> BOOLEAN] /\ loaded \in [Slots -> BOOLEAN]
    /\ stack \in [Slots -> Frames]
    /\ pc \in BootLabels \union {"idle"} \union LaunchLabels
    /\ at \in Nat
    /\ pc = "clone" => at <= ENTRIES
    /\ pc \in LaunchLabels => program \in Programs
    /\ pc = "pages" => at <= PagesOf(program)

Typed == FramesTypeOK /\ Ranges

\* The table that vmm_map_page uses for a page.
MapTable(b, v) ==
    IF memory[vmm_cur_directory][Directory(v)] = NONE
      THEN pmm_alloc_block(b) ELSE memory[vmm_cur_directory][Directory(v)]

\* What vmm_map_page does to the directory and to the table.
MapsPage(frame, v, t) ==
    LET dir == vmm_cur_directory
        before == IF memory[dir][Directory(v)] = NONE THEN Blank ELSE memory[t]
    IN  /\ memory'[dir] = [memory[dir] EXCEPT ![Directory(v)] = t]
        /\ memory'[t] = [before EXCEPT ![Index(v)] = frame]

\* Only these two frames change.
LEMMA MapEffect ==
    ASSUME FramesTypeOK, NEW b \in SUBSET Frames, NEW frame \in Frames, NEW v \in Pages,
           vmm_map_page(b, frame, v)
    PROVE  /\ MapTable(b, v) \in Frames /\ memory' \in Memories
           /\ bitmap' = IF memory[vmm_cur_directory][Directory(v)] = NONE THEN Taken(b) ELSE b
           /\ bitmap' \subseteq Frames
           /\ \A f \in Frames \ {MapTable(b, v), vmm_cur_directory} : memory'[f] = memory[f]
           /\ MapTable(b, v) # vmm_cur_directory => MapsPage(frame, v, MapTable(b, v))
<1>. DEFINE dir == vmm_cur_directory
            t == MapTable(b, v)
            D == Directory(v)
            absent == memory[dir][D] = NONE
            linked == IF absent THEN Stored(Cleared(memory, t), dir, D, t) ELSE memory
<1>1. /\ memory \in Memories /\ dir \in Frames /\ bitmap \in SUBSET Frames
      /\ D \in Entries /\ Index(v) \in Entries
  BY PageFacts DEF FramesTypeOK, Memories
<1>2. t \in Frames
  BY <1>1, AllocFacts DEF MapTable, Memories
<1>3. /\ bitmap' = IF absent THEN Taken(b) ELSE b
      /\ memory' = Stored(linked, t, Index(v), frame)
  BY DEF vmm_map_page, MapTable
<1>. HIDE DEF t
<1>4. Blank \in [Entries -> Frames \union {NONE}]
  BY DEF Blank
<1>5. linked \in Memories
  BY <1>1, <1>2, <1>4 DEF Stored, Cleared, Memories
<1>6. /\ \A f \in Frames \ {t, dir} : linked[f] = memory[f]
      /\ t # dir => /\ linked[dir] = [memory[dir] EXCEPT ![D] = t]
                    /\ linked[t] = IF absent THEN Blank ELSE memory[t]
  <2>1. CASE absent
    BY <1>1, <1>2, <2>1 DEF Stored, Cleared, Memories
  <2>2. CASE ~absent
    <3>1. memory[dir][D] = t
      BY <2>2 DEF MapTable, t
    <3>2. [memory[dir] EXCEPT ![D] = t] = memory[dir]
      BY <1>1, <3>1 DEF Memories
    <3>. QED  BY <2>2, <3>2
  <2>. QED  BY <2>1, <2>2
<1>. HIDE DEF linked
<1>7. memory' \in Memories
  BY <1>1, <1>2, <1>3, <1>5 DEF Stored, Memories
<1>8. /\ \A f \in Frames \ {t} : memory'[f] = linked[f]
      /\ memory'[t] = [linked[t] EXCEPT ![Index(v)] = frame]
  BY <1>2, <1>3, <1>5 DEF Stored, Memories
<1>9. bitmap' \subseteq Frames
  BY <1>3, AllocFacts
<1>10. t # dir => MapsPage(frame, v, t)
  <2>. DEFINE before == IF absent THEN Blank ELSE memory[t]
  <2>1. SUFFICES ASSUME t # dir PROVE MapsPage(frame, v, t)
    OBVIOUS
  <2>2. linked[t] = before
    BY <1>6, <2>1
  <2>3. memory'[t] = [before EXCEPT ![Index(v)] = frame]
    BY <1>8, <2>2
  <2>4. memory'[dir] = [memory[dir] EXCEPT ![D] = t]
    BY <1>1, <1>6, <1>8, <2>1
  <2>. QED  BY <2>3, <2>4 DEF MapsPage
<1>. QED  BY <1>1, <1>2, <1>3, <1>6, <1>7, <1>8, <1>9, <1>10 DEF t

\* The kernel's pages and its heap's lie in its space, the heap's behind.
LEMMA KernelPages ==
    /\ \A i \in 0 .. KERNEL_PAGES - 1 : i \in Frames /\ KERNEL_VBASE + i \in KernelSpace
                                        /\ KERNEL_VBASE + i < KHEAP_START
    /\ \A i \in 0 .. KHEAP_PAGES - 1 : KHEAP_START + i \in KernelSpace
<1>1. /\ {MaxBlocks, ENTRIES, KERNEL_VBASE, KERNEL_PAGES, KHEAP_START, KHEAP_PAGES}
           \subseteq Nat \ {0}
      /\ KERNEL_VBASE + KERNEL_PAGES <= KHEAP_START
      /\ KHEAP_START + KHEAP_PAGES <= ENTRIES * ENTRIES
      /\ KERNEL_PAGES <= MaxBlocks
  BY FramesAssumption, LayoutAssumption
<1>. DEFINE EE == ENTRIES * ENTRIES
<1>2. EE \in Nat /\ KHEAP_START + KHEAP_PAGES <= EE /\ KernelSpace = KERNEL_VBASE .. EE - 1
  BY <1>1 DEF KernelSpace
<1>. HIDE DEF EE
<1>3. ASSUME NEW i \in 0 .. KERNEL_PAGES - 1
      PROVE  i \in Frames /\ KERNEL_VBASE + i \in KernelSpace /\ KERNEL_VBASE + i < KHEAP_START
  BY <1>1, <1>2 DEF Frames
<1>4. ASSUME NEW i \in 0 .. KHEAP_PAGES - 1
      PROVE  KHEAP_START + i \in KernelSpace
  BY <1>1, <1>2
<1>. QED  BY <1>3, <1>4

\* The types hold at first.
LEMMA TypedInit == FramesInit => Typed
<1>. SUFFICES ASSUME FramesInit PROVE Typed
  OBVIOUS
<1>1. {MaxBlocks, TASKS, TASK_MAX_FRAMES} \subseteq Nat \ {0} /\ Ram \subseteq Frames
  BY FramesAssumption DEF Frames
<1>2. 0 \in Frames /\ 0 \in Slots
  BY <1>1 DEF Frames, Slots
<1>3. InitialBitmap \subseteq Frames
  BY <1>2 DEF InitialBitmap, pmm_set
<1>4. memory \in Memories
  BY DEF FramesInit, Memories, Blank
<1>5. FramesTypeOK
  BY <1>1, <1>2, <1>3, <1>4 DEF FramesInit, FramesTypeOK, Memories
<1>6. Ranges
  BY <1>2 DEF FramesInit, Ranges, BootLabels, LaunchLabels
<1>. QED  BY <1>5, <1>6 DEF Typed

\* A frame is taken for a directory.
LEMMA NewDirectoryTypes ==
    ASSUME FramesTypeOK, NewDirectory
    PROVE  /\ bitmap' \subseteq Frames /\ memory' \in Memories
           /\ pmm_alloc_block(bitmap) \in Frames
<1>1. bitmap \in SUBSET Frames /\ memory \in Memories
  BY DEF FramesTypeOK, Memories
<1>2. Blank \in [Entries -> Frames \union {NONE}]
  BY DEF Blank
<1>. QED  BY <1>1, <1>2, AllocFacts DEF NewDirectory, Cleared, Memories

\* Types, of the step of vmm_clone_dir.
LEMMA CloneTypes ==
    ASSUME Typed, vmm_clone_dir
    PROVE  bitmap' \subseteq Frames /\ memory' \in Memories
<1>1. bitmap \in SUBSET Frames /\ memory \in Memories /\ kernel_directory \in Frames
  BY DEF Typed, FramesTypeOK, Memories
<1>2. CASE memory[kernel_directory][at] # NONE
  <2>. DEFINE dir == cr3[target]
              table == pmm_alloc_block(bitmap)
              copy == [memory EXCEPT ![table] = memory[memory[kernel_directory][at]]]
  <2>1. bitmap' = Taken(bitmap) /\ memory' = [copy EXCEPT ![dir][at] = table]
    BY <1>2 DEF vmm_clone_dir, vmm_clone_tab, Stored
  <2>2. memory[kernel_directory][at] \in Frames /\ at \in Entries
    BY <1>1, <1>2 DEF vmm_clone_dir, Memories
  <2>3. copy \in Memories
    BY <1>1, <2>2 DEF Memories
  <2>4. table \in Frames /\ Taken(bitmap) \subseteq Frames
    BY <1>1, AllocFacts
  <2>. HIDE DEF copy, table, dir
  <2>. QED  BY <2>1, <2>2, <2>3, <2>4 DEF Memories
<1>3. CASE memory[kernel_directory][at] = NONE
  BY <1>1, <1>3 DEF vmm_clone_dir, memVars
<1>. QED  BY <1>2, <1>3

\* Every step keeps the types.
LEMMA TypedNext == Typed /\ [FramesNext]_framesVars => Typed'
<1>. SUFFICES ASSUME Typed, [FramesNext]_framesVars PROVE Typed'
  OBVIOUS
<1>1. CASE UNCHANGED framesVars
  BY <1>1 DEF Typed, FramesTypeOK, Ranges, framesVars, memVars, taskVars, history
<1>. SUFFICES ASSUME Boot \/ Launch \/ Run PROVE Typed'
  BY <1>1 DEF FramesNext
<1>2. /\ bitmap \in SUBSET Frames /\ memory \in Memories
      /\ kernel_directory \in Frames /\ vmm_cur_directory \in Frames
      /\ 0 \in Frames /\ 0 \in Slots /\ ENTRIES \in Nat \ {0} /\ TASK_MAX_FRAMES \in Nat \ {0}
  BY FramesAssumption DEF Typed, FramesTypeOK, Memories, Frames, Slots
<1>3. pmm_alloc_block(bitmap) \in Frames /\ Taken(bitmap) \in SUBSET Frames
  BY <1>2, AllocFacts
<1>. USE <1>2, <1>3
<1>4. ASSUME bitmap' \subseteq Frames, memory' \in Memories,
             kernel_directory' \in Frames, vmm_cur_directory' \in Frames,
             cr3' \in [Slots -> Frames],
             frames' \in [Slots -> [0 .. TASK_MAX_FRAMES -> Frames]],
             frameIndex' \in [Slots -> 0 .. TASK_MAX_FRAMES]
      PROVE  FramesTypeOK'
  BY <1>4 DEF FramesTypeOK, Memories
<1>. USE DEF Typed, Ranges, BootLabels, LaunchLabels, memVars, taskVars, history, Goto, Again,
             vmm_switch_pdirectory
<1>5. CASE init_vmm
  <2>1. bitmap' \subseteq Frames /\ memory' \in Memories
    BY <1>5, NewDirectoryTypes DEF init_vmm
  <2>2. FramesTypeOK'
    BY <1>4, <1>5, <2>1 DEF init_vmm, FramesTypeOK
  <2>. QED  BY <1>5, <2>2 DEF init_vmm
<1>6. CASE MapKernel
  <2>1. CASE at < KERNEL_PAGES
    <3>0. KERNEL_PAGES \in Nat /\ at \in 0 .. KERNEL_PAGES - 1
      BY <2>1, FramesAssumption
    <3>1. at \in Frames /\ KERNEL_VBASE + at \in Pages
      BY <3>0, KernelPages, SpacesArePages
    <3>2. bitmap' \subseteq Frames /\ memory' \in Memories
      BY <1>6, <2>1, <3>1, MapEffect DEF MapKernel
    <3>3. FramesTypeOK'
      BY <1>4, <1>6, <3>2 DEF MapKernel, FramesTypeOK
    <3>. QED  BY <1>6, <2>1, <3>3 DEF MapKernel
  <2>2. CASE ~(at < KERNEL_PAGES)
    <3>1. FramesTypeOK'
      BY <1>4, <1>6, <2>2 DEF MapKernel, FramesTypeOK
    <3>. QED  BY <1>6, <2>2, <3>1 DEF MapKernel
  <2>. QED  BY <2>1, <2>2
<1>7. CASE init_heap
  <2>1. CASE at < KHEAP_PAGES
    <3>0. KHEAP_PAGES \in Nat /\ at \in 0 .. KHEAP_PAGES - 1
      BY <2>1, FramesAssumption
    <3>1. KHEAP_START + at \in Pages
      BY <3>0, KernelPages, SpacesArePages
    <3>2. bitmap' \subseteq Frames /\ memory' \in Memories
      BY <1>7, <2>1, <3>1, MapEffect DEF init_heap
    <3>3. FramesTypeOK'
      BY <1>4, <1>7, <2>1, <3>2 DEF init_heap, FramesTypeOK
    <3>. QED  BY <1>7, <2>1, <3>3 DEF init_heap
  <2>2. CASE ~(at < KHEAP_PAGES)
    <3>1. FramesTypeOK'
      BY <1>4, <1>7, <2>2 DEF init_heap, FramesTypeOK
    <3>. QED  BY <1>7, <2>2, <3>1 DEF init_heap
  <2>. QED  BY <2>1, <2>2
<1>8. ASSUME NEW k \in Slots, NEW p \in Programs, create_process(k, p) PROVE Typed'
  <2>1. bitmap' \subseteq Frames /\ memory' \in Memories
    BY <1>8, NewDirectoryTypes DEF create_process
  <2>2. FramesTypeOK'
    BY <1>4, <1>8, <2>1 DEF create_process, FramesTypeOK
  <2>. QED  BY <1>8, <2>2 DEF create_process
<1>9. CASE vmm_clone_dir
  <2>1. bitmap' \subseteq Frames /\ memory' \in Memories
    BY <1>9, CloneTypes
  <2>2. FramesTypeOK'
    BY <1>4, <1>9, <2>1 DEF vmm_clone_dir, FramesTypeOK
  <2>3. at + 1 \in Nat /\ at + 1 <= ENTRIES
    BY <1>9 DEF vmm_clone_dir, Entries
  <2>. QED  BY <1>9, <2>2, <2>3 DEF vmm_clone_dir
<1>10. CASE createTask
  <2>1. FramesTypeOK'
    BY <1>4, <1>10 DEF createTask, FramesTypeOK
  <2>2. 0 <= PagesOf(program)
    BY <1>10, ProgramPages DEF createTask
  <2>. QED  BY <1>10, <2>1, <2>2 DEF createTask
<1>11. CASE MapProgram
  <2>1. LoadAddress(program) \div PAGE + at \in Pages /\ program \in Programs
         /\ PagesOf(program) \in Nat
    BY <1>11, ProgramPages, SpacesArePages DEF MapProgram
  <2>2. bitmap' \subseteq Frames /\ memory' \in Memories
    BY <1>11, <2>1, MapEffect DEF MapProgram
  <2>3. /\ frames' \in [Slots -> [0 .. TASK_MAX_FRAMES -> Frames]]
        /\ frameIndex' \in [Slots -> 0 .. TASK_MAX_FRAMES]
        /\ at' \in Nat /\ pc' \in {"pages", "panic"}
        /\ pc' = "pages" => at' = at + 1
    <3>1. CASE frameIndex[target] = TASK_MAX_FRAMES
      BY <1>11, <3>1 DEF MapProgram, task_register_frame, FramesTypeOK
    <3>2. CASE frameIndex[target] # TASK_MAX_FRAMES
      <4>1. frameIndex[target] \in 0 .. TASK_MAX_FRAMES /\ frameIndex[target] + 1 \in 0 .. TASK_MAX_FRAMES
        BY <3>2 DEF FramesTypeOK
      <4>2. Register(pmm_alloc_block(bitmap)) /\ pc = "pages"
        BY <1>11, <3>2 DEF MapProgram, task_register_frame
      <4>3. frames' \in [Slots -> [0 .. TASK_MAX_FRAMES -> Frames]]
        BY <4>1, <4>2 DEF Register, FramesTypeOK
      <4>4. frameIndex' \in [Slots -> 0 .. TASK_MAX_FRAMES]
        BY <4>1, <4>2 DEF Register, FramesTypeOK
      <4>5. at' = at + 1 /\ pc' = pc
        BY <4>2 DEF Register
      <4>. QED  BY <4>2, <4>3, <4>4, <4>5
    <3>. QED  BY <3>1, <3>2
  <2>4. FramesTypeOK'
    BY <1>4, <1>11, <2>2, <2>3 DEF MapProgram, FramesTypeOK
  <2>5. pc' = "pages" => at' <= PagesOf(program)
    BY <1>11, <2>1, <2>3 DEF MapProgram
  <2>. QED  BY <1>11, <2>1, <2>3, <2>4, <2>5 DEF MapProgram
<1>12. CASE MapStack
  <2>0. KERNEL_VBASE \in Nat \ {0}
    BY FramesAssumption
  <2>1. 0 \in Pages
    BY <2>0, SpacesArePages DEF UserPages
  <2>2. bitmap' \subseteq Frames /\ memory' \in Memories
    BY <1>12, <2>1, MapEffect DEF MapStack
  <2>3. FramesTypeOK'
    BY <1>4, <1>12, <2>2 DEF MapStack, FramesTypeOK
  <2>. QED  BY <1>12, <2>3 DEF MapStack
<1>13. ASSUME NEW set, Write(set) PROVE memory' \in Memories
  BY <1>13 DEF Write, Memories, Blank
<1>14. CASE Load
  <2>1. FramesTypeOK'
    BY <1>4, <1>13, <1>14 DEF Load, FramesTypeOK
  <2>. QED  BY <1>14, <2>1 DEF Load
<1>15. ASSUME NEW v \in UserPages, Store(v) PROVE Typed'
  <2>1. FramesTypeOK'
    BY <1>4, <1>13, <1>15 DEF Store, FramesTypeOK
  <2>. QED  BY <1>15, <2>1 DEF Store
<1>16. ASSUME NEW k \in Slots, switch_context(k) PROVE Typed'
  <2>1. FramesTypeOK'
    BY <1>4, <1>16 DEF switch_context, FramesTypeOK
  <2>. QED  BY <1>16, <2>1 DEF switch_context
<1>17. ASSUME NEW k \in Slots, kill(k) PROVE Typed'
  <2>1. bitmap' \subseteq Frames
    BY <1>17 DEF kill
  <2>2. FramesTypeOK'
    BY <1>4, <1>17, <2>1 DEF kill, FramesTypeOK
  <2>. QED  BY <1>17, <2>2 DEF kill
<1>. QED
  BY <1>5, <1>6, <1>7, <1>8, <1>9, <1>10, <1>11, <1>12, <1>14, <1>15, <1>16, <1>17
     DEF Boot, Launch, Run

\* The frames a task registers fit into its array, and everything else keeps its
\* type, whatever is started, killed and run, until memory runs out.
THEOREM FramesTypeCorrect == FramesSpec => []FramesTypeOK
<1>1. Typed => FramesTypeOK
  BY DEF Typed
<1>. QED  BY <1>1, TypedInit, TypedNext, PTL DEF FramesSpec

-----------------------------------------------------------------------------
(* The users of frames.                                                    *)

\* The kernel and the processes that are alive, with the directory of each.
Owners == {0} \union {k \in Slots \ {0} : Live(k)}
Dir(k) == IF k = 0 THEN kernel_directory ELSE cr3[k]

\* Translate, of a given memory.
Lookup(m, dir, v) ==
    IF m[dir][Directory(v)] = NONE THEN NONE ELSE m[m[dir][Directory(v)]][Index(v)]

DirectoryUse(k) == <<k, "directory", 0, Dir(k)>>
TableUse(k, i) == <<k, "table", i, memory[Dir(k)][i]>>
PageUse(k, i) == <<k, "page", i, frames[k][i]>>
StackUse(k) == <<k, "stack", 0, stack[k]>>
HeapUse(i) == <<0, "heap", i, Lookup(memory, kernel_directory, KHEAP_START + i)>>
ImageUse(i) == <<0, "image", i, i>>

UsesByKind ==
    \A u : u \in Uses <=>
      /\ FrameOf(u) # NONE
      /\ \/ \E k \in Owners : u = DirectoryUse(k)
         \/ \E k \in Owners, i \in Entries : u = TableUse(k, i)
         \/ \E k \in Owners \ {0} : \E i \in 0 .. frameIndex[k] - 1 : u = PageUse(k, i)
         \/ \E k \in Owners \ {0} : HasStack(k) /\ u = StackUse(k)
         \/ \E i \in 0 .. KHEAP_PAGES - 1 : u = HeapUse(i)
         \/ \E i \in KernelImage : u = ImageUse(i)

\* Every use is of one of six kinds.
LEMMA UsesAreByKind == UsesByKind
<1>. DEFINE OfKernel(u) ==
              \/ u = DirectoryUse(0)
              \/ \E i \in Entries : u = TableUse(0, i)
              \/ \E i \in 0 .. KHEAP_PAGES - 1 : u = HeapUse(i)
              \/ \E i \in KernelImage : u = ImageUse(i)
            OfTask(k, u) ==
              \/ u = DirectoryUse(k)
              \/ \E i \in Entries : u = TableUse(k, i)
              \/ \E i \in 0 .. frameIndex[k] - 1 : u = PageUse(k, i)
              \/ HasStack(k) /\ u = StackUse(k)
<1>1. \A u : u \in KernelUses <=> OfKernel(u)
  BY DEF KernelUses, DirectoryUse, TableUse, HeapUse, ImageUse, Dir, Translate, Lookup
<1>2. ASSUME NEW k \in Slots \ {0}
      PROVE  \A u : u \in UsesOf(k) <=> OfTask(k, u)
  BY DEF UsesOf, DirectoryUse, TableUse, PageUse, StackUse, Dir
<1>3. \A u : u \in Uses <=> /\ FrameOf(u) # NONE
                            /\ u \in KernelUses \/ \E k \in Owners \ {0} : u \in UsesOf(k)
  BY DEF Uses, Owners
<1>4. 0 \in Owners /\ Owners \ {0} \subseteq Slots \ {0}
  BY DEF Owners
<1>5. \A u : u \in Uses <=> /\ FrameOf(u) # NONE
                            /\ OfKernel(u) \/ \E k \in Owners \ {0} : OfTask(k, u)
  <2>. HIDE DEF OfKernel, OfTask
  <2>. QED  BY <1>1, <1>2, <1>3, <1>4
<1>. QED  BY <1>4, <1>5 DEF UsesByKind

\* No frame has two users, and all are taken, but perhaps for frame 0.
Sound ==
    /\ \A one, other \in Uses : FrameOf(one) = FrameOf(other) => one = other
    /\ \A use \in Uses : FrameOf(use) \in bitmap \union KernelImage \union {0}

\* What that says of directories and tables: they are different frames, and
\* no page, stack or heap page is one of them.
Separate ==
    /\ \A k, j \in Owners : Dir(k) = Dir(j) => k = j
    /\ \A k, j \in Owners, i \in Entries : memory[Dir(k)][i] # Dir(j)
    /\ \A k, j \in Owners, i, l \in Entries :
         memory[Dir(k)][i] = memory[Dir(j)][l] /\ memory[Dir(k)][i] # NONE => k = j /\ i = l
    /\ \A use \in Uses : use[2] \notin {"directory", "table"} =>
         \A k \in Owners : /\ FrameOf(use) # Dir(k)
                           /\ \A i \in Entries : FrameOf(use) # memory[Dir(k)][i]

\* Types, of what owners have.
LEMMA OwnerTypes ==
    ASSUME Typed
    PROVE  /\ 0 \in Owners /\ Owners \subseteq Slots
           /\ \A k \in Owners : Dir(k) \in Frames
           /\ NONE \notin Frames /\ 0 \in Frames
           /\ \A f \in Frames : f # NONE
           /\ memory \in Memories
           /\ \A k \in Owners : memory[Dir(k)] \in [Entries -> Frames \union {NONE}]
           /\ \A k \in Owners : \A i \in 0 .. frameIndex[k] - 1 : frames[k][i] \in Frames
           /\ \A k \in Owners : stack[k] \in Frames
           /\ KernelImage \subseteq Frames \ {0}
<1>1. 0 \in Slots /\ Owners \subseteq Slots
  BY FramesAssumption DEF Owners, Slots
<1>2. memory \in Memories
  BY DEF Typed, FramesTypeOK, Memories
<1>3. NONE \notin Frames /\ 0 \in Frames /\ KernelImage \subseteq Frames \ {0}
  BY FramesAssumption DEF NONE, Frames
<1>4. \A k \in Owners : Dir(k) \in Frames
  BY <1>1 DEF Dir, Typed, FramesTypeOK
<1>5. TASK_MAX_FRAMES \in Nat
  BY FramesAssumption
<1>6. ASSUME NEW k \in Owners, NEW i \in 0 .. frameIndex[k] - 1 PROVE frames[k][i] \in Frames
  BY <1>1, <1>5 DEF Typed, FramesTypeOK
<1>7. \A k \in Owners : stack[k] \in Frames
  BY <1>1 DEF Typed, Ranges
<1>. QED  BY <1>1, <1>2, <1>3, <1>4, <1>6, <1>7 DEF Owners, Memories

\* What owners have they use.
LEMMA UsesIntro ==
    ASSUME Typed
    PROVE  /\ \A k \in Owners : DirectoryUse(k) \in Uses
           /\ \A k \in Owners, i \in Entries :
                memory[Dir(k)][i] # NONE => TableUse(k, i) \in Uses
           /\ \A k \in Owners \ {0} : \A i \in 0 .. frameIndex[k] - 1 : PageUse(k, i) \in Uses
           /\ \A k \in Owners \ {0} : HasStack(k) => StackUse(k) \in Uses
           /\ \A i \in KernelImage : ImageUse(i) \in Uses
<1>. USE OwnerTypes, UsesAreByKind DEF UsesByKind, FrameOf
<1>1. \A k \in Owners : DirectoryUse(k) \in Uses
  BY DEF DirectoryUse
<1>2. \A k \in Owners, i \in Entries : memory[Dir(k)][i] # NONE => TableUse(k, i) \in Uses
  BY DEF TableUse
<1>3. \A k \in Owners \ {0} : \A i \in 0 .. frameIndex[k] - 1 : PageUse(k, i) \in Uses
  BY DEF PageUse
<1>4. \A k \in Owners \ {0} : HasStack(k) => StackUse(k) \in Uses
  BY DEF StackUse
<1>5. \A i \in KernelImage : ImageUse(i) \in Uses
  BY DEF ImageUse
<1>. QED  BY <1>1, <1>2, <1>3, <1>4, <1>5

\* If no frame has two users, directories and tables are apart.
LEMMA SoundSeparates == Typed /\ Sound => Separate
<1>. SUFFICES ASSUME Typed, Sound PROVE Separate
  OBVIOUS
<1>0. \A one, other \in Uses : FrameOf(one) = FrameOf(other) => one = other
  BY DEF Sound
<1>1. \A k, j \in Owners : Dir(k) = Dir(j) => k = j
  BY <1>0, UsesIntro DEF DirectoryUse, FrameOf
<1>2. ASSUME NEW k \in Owners, NEW j \in Owners, NEW i \in Entries
      PROVE  memory[Dir(k)][i] # Dir(j)
  <2>1. CASE memory[Dir(k)][i] = NONE
    BY <2>1, OwnerTypes
  <2>2. CASE memory[Dir(k)][i] # NONE
    <3>1. TableUse(k, i) \in Uses /\ DirectoryUse(j) \in Uses
      BY <2>2, UsesIntro
    <3>2. TableUse(k, i)[2] # DirectoryUse(j)[2]
      BY DEF TableUse, DirectoryUse
    <3>. QED  BY <1>0, <3>1, <3>2 DEF TableUse, DirectoryUse, FrameOf
  <2>. QED  BY <2>1, <2>2
<1>3. ASSUME NEW k \in Owners, NEW j \in Owners, NEW i \in Entries, NEW l \in Entries,
             memory[Dir(k)][i] = memory[Dir(j)][l], memory[Dir(k)][i] # NONE
      PROVE  k = j /\ i = l
  <2>1. TableUse(k, i) \in Uses /\ TableUse(j, l) \in Uses
    BY <1>3, UsesIntro
  <2>2. TableUse(k, i) = TableUse(j, l)
    BY <1>0, <1>3, <2>1 DEF TableUse, FrameOf
  <2>. QED  BY <2>2 DEF TableUse
<1>4. ASSUME NEW use \in Uses, use[2] \notin {"directory", "table"}, NEW k \in Owners
      PROVE  /\ FrameOf(use) # Dir(k)
             /\ \A i \in Entries : FrameOf(use) # memory[Dir(k)][i]
  <2>1. DirectoryUse(k) \in Uses /\ DirectoryUse(k) # use
    BY <1>4, UsesIntro DEF DirectoryUse
  <2>2. FrameOf(use) # Dir(k)
    BY <1>0, <2>1 DEF DirectoryUse, FrameOf
  <2>3. FrameOf(use) # NONE
    BY UsesAreByKind DEF UsesByKind
  <2>4. ASSUME NEW i \in Entries, FrameOf(use) = memory[Dir(k)][i] PROVE FALSE
    <3>1. TableUse(k, i) \in Uses /\ TableUse(k, i) # use
      BY <1>4, <2>3, <2>4, UsesIntro DEF TableUse
    <3>. QED  BY <1>0, <2>4, <3>1 DEF TableUse, FrameOf
  <2>. QED  BY <2>2, <2>4
<1>. QED  BY <1>1, <1>2, <1>3, <1>4 DEF Separate

-----------------------------------------------------------------------------
(* What a step keeps.                                                      *)

\* No owner gives up its directory, its pages or its stack.
TasksKeep ==
    /\ \A k \in Owners : k \in Owners' /\ Dir(k)' = Dir(k)
    /\ \A k \in Owners \ {0} : /\ frameIndex[k] <= frameIndex'[k]
                               /\ \A i \in 0 .. frameIndex[k] - 1 : frames'[k][i] = frames[k][i]
                               /\ HasStack(k) => HasStack(k)' /\ stack'[k] = stack[k]

\* Outside of frame f the entries of directories stay, and the kernel's tables.
MemoryKeeps(f) ==
    /\ \A k \in Owners, i \in Entries :
         Dir(k) # f /\ memory[Dir(k)][i] # NONE => memory'[Dir(k)][i] = memory[Dir(k)][i]
    /\ \A i \in Entries : \A t \in Frames \ {f} :
         t = memory[kernel_directory][i] => memory'[t] = memory[t]

\* A use stays if its frame is not written to as a directory or table.
LEMMA UsePersists ==
    ASSUME Typed, Typed', Sound, TasksKeep, NEW use \in Uses, MemoryKeeps(FrameOf(use))
    PROVE  use \in Uses'
<1>1. UsesByKind /\ UsesByKind'
  BY UsesAreByKind, PTL
<1>2. Separate /\ FrameOf(use) # NONE
  BY SoundSeparates, <1>1 DEF UsesByKind
<1>3. ASSUME NEW k \in Owners, use = DirectoryUse(k) PROVE use \in Uses'
  <2>1. use = DirectoryUse(k)' /\ k \in Owners'
    BY <1>3 DEF DirectoryUse, TasksKeep
  <2>. QED  BY <1>1, <1>2, <2>1 DEF UsesByKind
<1>4. ASSUME NEW k \in Owners, NEW i \in Entries, use = TableUse(k, i) PROVE use \in Uses'
  <2>1. memory[Dir(k)][i] = FrameOf(use) /\ Dir(k) # FrameOf(use)
    BY <1>2, <1>4 DEF TableUse, FrameOf, Separate
  <2>2. use = TableUse(k, i)' /\ k \in Owners'
    <3>1. k \in Owners' /\ Dir(k)' = Dir(k)
      BY DEF TasksKeep
    <3>2. memory[Dir(k)][i] # NONE
      BY <1>2, <2>1
    <3>3. memory'[Dir(k)][i] = memory[Dir(k)][i]
      BY <2>1, <3>2 DEF MemoryKeeps
    <3>. QED  BY <1>4, <3>1, <3>3 DEF TableUse
  <2>. QED  BY <1>1, <1>2, <2>2 DEF UsesByKind
<1>5. ASSUME NEW k \in Owners \ {0}, NEW i \in 0 .. frameIndex[k] - 1, use = PageUse(k, i)
      PROVE  use \in Uses'
  <2>1. frameIndex[k] \in Nat /\ frameIndex'[k] \in Nat
    BY OwnerTypes, FramesAssumption DEF Typed, FramesTypeOK
  <2>2. use = PageUse(k, i)' /\ k \in Owners' \ {0} /\ i \in 0 .. frameIndex'[k] - 1
    BY <1>5, <2>1 DEF PageUse, TasksKeep
  <2>. QED  BY <1>1, <1>2, <2>2 DEF UsesByKind
<1>6. ASSUME NEW k \in Owners \ {0}, HasStack(k), use = StackUse(k) PROVE use \in Uses'
  <2>1. use = StackUse(k)' /\ k \in Owners' \ {0} /\ HasStack(k)'
    BY <1>6 DEF StackUse, TasksKeep
  <2>. QED  BY <1>1, <1>2, <2>1 DEF UsesByKind
<1>7. ASSUME NEW i \in 0 .. KHEAP_PAGES - 1, use = HeapUse(i) PROVE use \in Uses'
  <2>. DEFINE v == KHEAP_START + i
              t == memory[kernel_directory][Directory(v)]
  <2>1. v \in Pages
    BY KernelPages, SpacesArePages
  <2>2. Directory(v) \in Entries /\ Index(v) \in Entries
    BY <2>1, PageFacts
  <2>3. 0 \in Owners /\ Dir(0) = kernel_directory /\ t \in Frames \union {NONE}
    BY <2>2, OwnerTypes DEF Dir
  <2>4. FrameOf(use) = Lookup(memory, kernel_directory, v)
    BY <1>7 DEF HeapUse, FrameOf
  <2>5. t # NONE /\ FrameOf(use) = memory[t][Index(v)]
    BY <1>2, <2>4 DEF Lookup
  <2>6. use[2] \notin {"directory", "table"}
    BY <1>7 DEF HeapUse
  <2>7. FrameOf(use) # kernel_directory /\ FrameOf(use) # t
    BY <1>2, <2>2, <2>3, <2>6 DEF Separate
  <2>8. memory'[kernel_directory][Directory(v)] = t /\ memory'[t] = memory[t]
    BY <2>2, <2>3, <2>5, <2>7 DEF MemoryKeeps
  <2>9. kernel_directory' = kernel_directory
    BY <2>3 DEF TasksKeep, Dir
  <2>10. use = HeapUse(i)'
    BY <1>7, <2>8, <2>9 DEF HeapUse, Lookup
  <2>. QED  BY <1>1, <1>2, <2>10 DEF UsesByKind
<1>8. ASSUME NEW i \in KernelImage, use = ImageUse(i) PROVE use \in Uses'
  <2>1. use = ImageUse(i)'
    BY <1>8 DEF ImageUse
  <2>. QED  BY <1>1, <1>2, <2>1 DEF UsesByKind
<1>. QED  BY <1>1, <1>3, <1>4, <1>5, <1>6, <1>7, <1>8 DEF UsesByKind

\* Frames that nobody uses may find a user, each one.
LEMMA SoundGrows ==
    ASSUME Sound, NEW New,
           \A use \in Uses' : use \in Uses \/ use \in New,
           \A use \in New : /\ \A other \in Uses : FrameOf(use) # FrameOf(other)
                            /\ FrameOf(use) \in bitmap',
           \A one, other \in New : FrameOf(one) = FrameOf(other) => one = other,
           bitmap \subseteq bitmap'
    PROVE  Sound'
<1>1. ASSUME NEW one \in Uses', NEW other \in Uses', FrameOf(one) = FrameOf(other)
      PROVE  one = other
  BY <1>1 DEF Sound
<1>2. ASSUME NEW use \in Uses'
      PROVE  FrameOf(use) \in bitmap' \union KernelImage \union {0}
  BY DEF Sound
<1>. QED  BY <1>1, <1>2 DEF Sound

\* A frame that was free has no user, if it is not frame 0.
LEMMA FreeIsUnused ==
    ASSUME Sound, NEW f, f \notin bitmap \union KernelImage, f # 0
    PROVE  \A use \in Uses : FrameOf(use) # f
BY DEF Sound

\* A frame that nobody uses is no directory and no table,
LEMMA UnusedIsNoTable ==
    ASSUME Typed, NEW f \in Frames, \A use \in Uses : FrameOf(use) # f
    PROVE  \A k \in Owners : Dir(k) # f /\ \A i \in Entries : memory[Dir(k)][i] # f
<1>1. ASSUME NEW k \in Owners PROVE Dir(k) # f
  BY UsesIntro DEF DirectoryUse, FrameOf
<1>2. ASSUME NEW k \in Owners, NEW i \in Entries, memory[Dir(k)][i] = f PROVE FALSE
  <2>1. TableUse(k, i) \in Uses
    BY <1>2, UsesIntro, OwnerTypes
  <2>. QED  BY <1>2, <2>1 DEF TableUse, FrameOf
<1>. QED  BY <1>1, <1>2

\* so that it may be written to.
LEMMA UnusedKeeps ==
    ASSUME Typed, NEW f \in Frames, \A use \in Uses : FrameOf(use) # f, MemoryKeeps(f)
    PROVE  \A h : MemoryKeeps(h)
<1>1. 0 \in Owners /\ Dir(0) = kernel_directory
  BY OwnerTypes DEF Dir
<1>. QED  BY <1>1, UnusedIsNoTable DEF MemoryKeeps

\* What a step adds to the users.
LEMMA UsesGrow ==
    ASSUME NEW New,
           \A k \in Owners' : (k \in Owners /\ Dir(k)' = Dir(k)) \/ DirectoryUse(k)' \in New,
           \A k \in Owners', i \in Entries :
              \/ memory'[Dir(k)'][i] = NONE
              \/ k \in Owners /\ memory'[Dir(k)'][i] = memory[Dir(k)][i]
              \/ TableUse(k, i)' \in New,
           \A k \in Owners' \ {0} : \A i \in 0 .. frameIndex'[k] - 1 :
              \/ k \in Owners /\ i \in 0 .. frameIndex[k] - 1 /\ frames'[k][i] = frames[k][i]
              \/ PageUse(k, i)' \in New,
           \A k \in Owners' \ {0} : HasStack(k)' =>
              \/ k \in Owners /\ HasStack(k) /\ stack'[k] = stack[k]
              \/ StackUse(k)' \in New,
           \A i \in 0 .. KHEAP_PAGES - 1 :
              HeapUse(i)' = HeapUse(i) \/ FrameOf(HeapUse(i)') = NONE \/ HeapUse(i)' \in New
    PROVE  \A use \in Uses' : use \in Uses \/ use \in New
<1>1. UsesByKind /\ UsesByKind'
  BY UsesAreByKind, PTL
<1>. SUFFICES ASSUME NEW use \in Uses' PROVE use \in Uses \/ use \in New
  OBVIOUS
<1>2. FrameOf(use) # NONE
  BY <1>1 DEF UsesByKind
<1>3. ASSUME NEW k \in Owners', use = DirectoryUse(k)' PROVE use \in Uses \/ use \in New
  <2>1. CASE k \in Owners /\ Dir(k)' = Dir(k)
    <3>1. use = DirectoryUse(k)
      BY <1>3, <2>1 DEF DirectoryUse
    <3>. QED  BY <1>1, <1>2, <2>1, <3>1 DEF UsesByKind
  <2>. QED  BY <1>3, <2>1
<1>4. ASSUME NEW k \in Owners', NEW i \in Entries, use = TableUse(k, i)'
      PROVE  use \in Uses \/ use \in New
  <2>1. CASE k \in Owners /\ memory'[Dir(k)'][i] = memory[Dir(k)][i]
    <3>1. use = TableUse(k, i)
      BY <1>4, <2>1 DEF TableUse
    <3>. QED  BY <1>1, <1>2, <2>1, <3>1 DEF UsesByKind
  <2>2. CASE memory'[Dir(k)'][i] = NONE
    BY <1>2, <1>4, <2>2 DEF TableUse, FrameOf
  <2>. QED  BY <1>4, <2>1, <2>2
<1>5. ASSUME NEW k \in Owners' \ {0}, NEW i \in 0 .. frameIndex'[k] - 1, use = PageUse(k, i)'
      PROVE  use \in Uses \/ use \in New
  <2>1. CASE k \in Owners /\ i \in 0 .. frameIndex[k] - 1 /\ frames'[k][i] = frames[k][i]
    <3>1. use = PageUse(k, i)
      BY <1>5, <2>1 DEF PageUse
    <3>. QED  BY <1>1, <1>2, <2>1, <3>1 DEF UsesByKind
  <2>. QED  BY <1>5, <2>1
<1>6. ASSUME NEW k \in Owners' \ {0}, HasStack(k)', use = StackUse(k)'
      PROVE  use \in Uses \/ use \in New
  <2>1. CASE k \in Owners /\ HasStack(k) /\ stack'[k] = stack[k]
    <3>1. use = StackUse(k)
      BY <1>6, <2>1 DEF StackUse
    <3>. QED  BY <1>1, <1>2, <2>1, <3>1 DEF UsesByKind
  <2>. QED  BY <1>6, <2>1
<1>7. ASSUME NEW i \in 0 .. KHEAP_PAGES - 1, use = HeapUse(i)'
      PROVE  use \in Uses \/ use \in New
  <2>1. CASE HeapUse(i)' = HeapUse(i)
    BY <1>1, <1>2, <1>7, <2>1 DEF UsesByKind
  <2>2. CASE HeapUse(i)' # HeapUse(i)
    <3>1. FrameOf(HeapUse(i)') # NONE
      BY <1>2, <1>7
    <3>. QED  BY <1>7, <2>2, <3>1
  <2>. QED  BY <2>1, <2>2
<1>8. ASSUME NEW i \in KernelImage, use = ImageUse(i)' PROVE use \in Uses \/ use \in New
  <2>1. use = ImageUse(i)
    BY <1>8 DEF ImageUse
  <2>. QED  BY <1>1, <1>2, <2>1 DEF UsesByKind
<1>. QED  BY <1>1, <1>3, <1>4, <1>5, <1>6, <1>7, <1>8 DEF UsesByKind

\* Neither an owner's directory nor its tables change.
Untouched(k) ==
    /\ memory'[Dir(k)] = memory[Dir(k)]
    /\ \A i \in Entries : memory[Dir(k)][i] # NONE =>
         memory'[memory[Dir(k)][i]] = memory[memory[Dir(k)][i]]

\* Where neither the directory nor its tables change, no mapping does.
LEMMA UntouchedLookup ==
    ASSUME Typed, NEW k \in Owners, Untouched(k)
    PROVE  \A v \in Pages : Lookup(memory', Dir(k), v) = Lookup(memory, Dir(k), v)
BY PageFacts DEF Untouched, Lookup

\* Frames that are nobody's directory or table may change.
LEMMA UntouchedBut ==
    ASSUME Typed, NEW k \in Owners, NEW set,
           \A f \in Frames \ set : memory'[f] = memory[f],
           Dir(k) \notin set, \A i \in Entries : memory[Dir(k)][i] \notin set
    PROVE  Untouched(k)
BY OwnerTypes DEF Untouched

\* vmm_map_page maps its page in the current directory and no other page, and
\* touches nobody else's.
LEMMA MapWell ==
    ASSUME Typed, Separate, NEW k \in Owners, vmm_cur_directory = Dir(k),
           NEW b \in SUBSET Frames, NEW frame \in Frames, NEW v \in Pages,
           vmm_map_page(b, frame, v), NEW t, t = MapTable(b, v),
           memory[Dir(k)][Directory(v)] = NONE => \A use \in Uses : FrameOf(use) # t
    PROVE  /\ Lookup(memory', Dir(k), v) = frame
           /\ \A w \in Pages \ {v} : Lookup(memory', Dir(k), w) = Lookup(memory, Dir(k), w)
           /\ \A j \in Owners \ {k} : Untouched(j)
           /\ \A i \in Entries \ {Directory(v)} : memory'[Dir(k)][i] = memory[Dir(k)][i]
           /\ memory'[Dir(k)][Directory(v)] = t
<1>. DEFINE dir == Dir(k)
            D == Directory(v)
<1>1. /\ dir \in Frames /\ memory \in Memories /\ D \in Entries /\ Index(v) \in Entries
      /\ memory[dir] \in [Entries -> Frames \union {NONE}] /\ NONE \notin Frames
  BY OwnerTypes, PageFacts
<1>2. FramesTypeOK
  BY DEF Typed
<1>3. t \in Frames /\ \A f \in Frames \ {t, dir} : memory'[f] = memory[f]
  BY <1>2, MapEffect
<1>4. t # dir /\ \A i \in Entries \ {D} : memory[dir][i] # t
  <2>1. CASE memory[dir][D] = NONE
    BY <1>3, <2>1, UnusedIsNoTable
  <2>2. CASE memory[dir][D] # NONE
    <3>1. t = memory[dir][D]
      BY <2>2 DEF MapTable
    <3>. QED  BY <1>1, <2>2, <3>1 DEF Separate
  <2>. QED  BY <2>1, <2>2
<1>5. MapsPage(frame, v, t)
  BY <1>2, <1>4, MapEffect
<1>14. /\ memory'[dir] = [memory[dir] EXCEPT ![D] = t]
      /\ memory'[t] = [(IF memory[dir][D] = NONE THEN Blank ELSE memory[t])
                         EXCEPT ![Index(v)] = frame]
  BY <1>5 DEF MapsPage
<1>6. /\ \A i \in Entries \ {D} : memory'[dir][i] = memory[dir][i]
      /\ memory'[dir][D] = t
  BY <1>1, <1>14
<1>7. \A i \in Entries : Blank[i] = NONE
  BY DEF Blank
<1>8. memory[t] \in [Entries -> Frames \union {NONE}] /\ Blank \in [Entries -> Frames \union {NONE}]
  BY <1>1, <1>3 DEF Memories, Blank
<1>9. /\ memory'[t][Index(v)] = frame
      /\ \A i \in Entries \ {Index(v)} :
           memory'[t][i] = IF memory[dir][D] = NONE THEN NONE ELSE memory[t][i]
  BY <1>1, <1>14, <1>7, <1>8
<1>10. t # NONE
  BY <1>1, <1>3
<1>11. Lookup(memory', dir, v) = frame
  BY <1>6, <1>9, <1>10 DEF Lookup
<1>12. ASSUME NEW w \in Pages \ {v}
       PROVE  Lookup(memory', dir, w) = Lookup(memory, dir, w)
  <2>1. Directory(w) \in Entries /\ Index(w) \in Entries
    BY PageFacts
  <2>2. CASE Directory(w) = D
    <3>1. Index(w) # Index(v)
      BY <2>2, PagesDiffer
    <3>2. Lookup(memory', dir, w) = memory'[t][Index(w)]
      BY <1>6, <1>10, <2>2 DEF Lookup
    <3>3. memory'[t][Index(w)] = IF memory[dir][D] = NONE THEN NONE ELSE memory[t][Index(w)]
      BY <1>9, <2>1, <3>1
    <3>4. memory[dir][D] # NONE => t = memory[dir][D]
      BY DEF MapTable
    <3>. QED  BY <2>2, <3>2, <3>3, <3>4 DEF Lookup
  <2>3. CASE Directory(w) # D
    <3>1. memory'[dir][Directory(w)] = memory[dir][Directory(w)]
      BY <1>6, <2>1, <2>3
    <3>2. memory[dir][Directory(w)] # NONE =>
            memory'[memory[dir][Directory(w)]] = memory[memory[dir][Directory(w)]]
      BY <1>1, <1>3, <1>4, <2>1, <2>3 DEF Separate
    <3>. QED  BY <3>1, <3>2 DEF Lookup
  <2>. QED  BY <2>2, <2>3
<1>13. ASSUME NEW j \in Owners \ {k} PROVE Untouched(j)
  <2>1. Dir(j) # dir /\ Dir(j) # t
    <3>1. CASE memory[dir][D] = NONE
      BY <1>3, <3>1, UnusedIsNoTable DEF Separate
    <3>2. CASE memory[dir][D] # NONE
      BY <1>1, <3>2 DEF Separate, MapTable
    <3>. QED  BY <3>1, <3>2
  <2>2. ASSUME NEW i \in Entries PROVE memory[Dir(j)][i] \notin {t, dir}
    <3>1. CASE memory[dir][D] = NONE
      BY <1>3, <3>1, UnusedIsNoTable DEF Separate
    <3>2. CASE memory[dir][D] # NONE
      BY <1>1, <3>2 DEF Separate, MapTable
    <3>. QED  BY <3>1, <3>2
  <2>. QED  BY <1>3, <2>1, <2>2, UntouchedBut
<1>. QED  BY <1>6, <1>11, <1>12, <1>13

\* Of what vmm_map_page changes for a process, only a new table can have been
\* in use.
LEMMA MapKeeps ==
    ASSUME Typed, Separate, NEW k \in Owners \ {0}, vmm_cur_directory = Dir(k),
           NEW b \in SUBSET Frames, NEW frame \in Frames, NEW v \in Pages,
           vmm_map_page(b, frame, v), NEW t, t = MapTable(b, v), t # Dir(k)
    PROVE  /\ MemoryKeeps(t)
           /\ memory[Dir(k)][Directory(v)] # NONE => \A h : MemoryKeeps(h)
<1>. DEFINE dir == Dir(k)
            D == Directory(v)
<1>1. /\ dir \in Frames /\ memory \in Memories /\ D \in Entries /\ Index(v) \in Entries
      /\ memory[dir] \in [Entries -> Frames \union {NONE}] /\ NONE \notin Frames
      /\ 0 \in Owners /\ Dir(0) = kernel_directory
  BY OwnerTypes, PageFacts DEF Dir
<1>2. FramesTypeOK
  BY DEF Typed
<1>3. t \in Frames /\ \A f \in Frames \ {t, dir} : memory'[f] = memory[f]
  BY <1>2, MapEffect
<1>4. memory'[dir] = [memory[dir] EXCEPT ![D] = t]
  <2>1. MapsPage(frame, v, t)
    BY <1>2, MapEffect
  <2>. QED  BY <2>1 DEF MapsPage
<1>5. \A i \in Entries : memory[dir][i] # NONE => memory'[dir][i] = memory[dir][i]
  BY <1>1, <1>4 DEF MapTable
<1>6. \A j \in Owners, i \in Entries :
         Dir(j) # t /\ memory[Dir(j)][i] # NONE => memory'[Dir(j)][i] = memory[Dir(j)][i]
  BY <1>3, <1>5, OwnerTypes
<1>7. \A i \in Entries : memory[kernel_directory][i] # dir
  BY <1>1 DEF Separate
<1>8. MemoryKeeps(t)
  BY <1>3, <1>6, <1>7 DEF MemoryKeeps
<1>9. ASSUME memory[dir][D] # NONE, NEW h PROVE MemoryKeeps(h)
  <2>1. t = memory[dir][D]
    BY <1>9 DEF MapTable
  <2>2. \A j \in Owners : Dir(j) # t
    BY <1>1, <2>1 DEF Separate
  <2>3. \A i \in Entries : memory[kernel_directory][i] # t
    BY <1>1, <1>9, <2>1 DEF Separate
  <2>. QED  BY <1>3, <1>6, <1>7, <2>2, <2>3 DEF MemoryKeeps
<1>. QED  BY <1>8, <1>9

-----------------------------------------------------------------------------
(* The inductive invariant.                                                *)

Booted == pc \notin BootLabels

\* Who runs, who is being made, and in which directory: before the kernel has
\* booted there is no process; while one is made the others are complete.
Control ==
    /\ used[0]
    /\ \A k \in Slots : ~used[k] => frameIndex[k] = 0
    /\ Booted => cr3[0] = kernel_directory
    /\ ~Booted => /\ vmm_cur_directory = kernel_directory /\ runningTask = 0 /\ 0 \in bitmap
                  /\ \A k \in Slots \ {0} : ~used[k] /\ ~loaded[k]
    /\ pc \in {"idle", "clone"} => vmm_cur_directory = cr3[runningTask]
    /\ pc \in {"pages", "load"} => vmm_cur_directory = cr3[target]
    /\ pc = "idle" => \A k \in Slots \ {0} : used[k] => loaded[k]
    /\ pc \in LaunchLabels => /\ target # 0 /\ runningTask # target /\ used[runningTask]
                              /\ ~loaded[target] /\ (used[target] <=> pc # "clone")
                              /\ \A k \in Slots \ {0, target} : used[k] => loaded[k]
    /\ pc \in {"clone", "pages"} => cr3[target] \in bitmap

\* Control holds at first.
LEMMA ControlInit == FramesInit => Control
<1>. SUFFICES ASSUME FramesInit PROVE Control
  OBVIOUS
<1>1. 0 \in Slots /\ 0 \in bitmap
  BY FramesAssumption DEF FramesInit, Slots, InitialBitmap, pmm_set
<1>2. used[0] /\ \A k \in Slots \ {0} : ~used[k] /\ ~loaded[k]
  BY <1>1 DEF FramesInit
<1>3. pc = "init_vmm" /\ \A k \in Slots : frameIndex[k] = 0
  BY DEF FramesInit
<1>4. vmm_cur_directory = kernel_directory /\ runningTask = 0
  BY DEF FramesInit
<1>. QED  BY <1>1, <1>2, <1>3, <1>4 DEF Control, Booted, BootLabels, LaunchLabels

\* vmm_map_page gives no frame back.
LEMMA BitmapGrows ==
    ASSUME Typed, NEW b \in SUBSET Frames, bitmap \subseteq b, NEW frame, NEW v,
           vmm_map_page(b, frame, v)
    PROVE  bitmap \subseteq bitmap'
BY AllocFacts DEF vmm_map_page

\* Every step keeps Control.
LEMMA ControlNext == Typed /\ Control /\ [FramesNext]_framesVars => Control'
<1>. SUFFICES ASSUME Typed, Control, [FramesNext]_framesVars PROVE Control'
  OBVIOUS
<1>1. CASE UNCHANGED framesVars
  BY <1>1 DEF Control, Booted, framesVars, memVars, taskVars, history
<1>. SUFFICES ASSUME Boot \/ Launch \/ Run PROVE Control'
  BY <1>1 DEF FramesNext
<1>2. bitmap \in SUBSET Frames /\ 0 \in Slots
  BY FramesAssumption DEF Typed, FramesTypeOK, Slots
<1>3. /\ Taken(bitmap) \in SUBSET Frames /\ bitmap \subseteq Taken(bitmap)
      /\ pmm_alloc_block(bitmap) \in Taken(bitmap)
  BY <1>2, AllocFacts
<1>. USE <1>2, <1>3 DEF Booted, BootLabels, LaunchLabels, memVars, taskVars, history, Goto, Again,
        vmm_switch_pdirectory
<1>4. CASE init_vmm
  BY <1>4 DEF init_vmm, NewDirectory, Control
<1>5. CASE MapKernel
  <2>1. bitmap \subseteq bitmap'
    BY <1>5, BitmapGrows DEF MapKernel
  <2>. QED  BY <1>5, <2>1 DEF MapKernel, Control
<1>6. CASE init_heap
  <2>1. bitmap \subseteq bitmap'
    BY <1>6, BitmapGrows DEF init_heap
  <2>2. CASE at < KHEAP_PAGES
    BY <1>6, <2>1, <2>2 DEF init_heap, Control
  <2>3. CASE ~(at < KHEAP_PAGES)
    BY <1>6, <2>1, <2>3 DEF init_heap, Control, Typed, FramesTypeOK
  <2>. QED  BY <2>2, <2>3
<1>7. ASSUME NEW k \in Slots, NEW p \in Programs, create_process(k, p) PROVE Control'
  <2>1. k # 0 /\ ~used[k] /\ k # runningTask
    BY <1>7 DEF create_process, IsFinalElement, Control
  <2>2. /\ cr3' = [cr3 EXCEPT ![k] = pmm_alloc_block(bitmap)] /\ cr3 \in [Slots -> Frames]
        /\ loaded' = [loaded EXCEPT ![k] = FALSE] /\ loaded \in [Slots -> BOOLEAN]
        /\ bitmap' = Taken(bitmap) /\ runningTask \in Slots
    BY <1>7 DEF create_process, NewDirectory, Typed, FramesTypeOK, Ranges
  <2>. QED  BY <1>7, <2>1, <2>2 DEF create_process, Control
<1>8. CASE vmm_clone_dir
  <2>1. bitmap \subseteq bitmap'
    BY <1>8 DEF vmm_clone_dir, vmm_clone_tab
  <2>. QED  BY <1>8, <2>1 DEF vmm_clone_dir, Control
<1>9. CASE createTask
  <2>1. /\ frameIndex' = [frameIndex EXCEPT ![target] = 0] /\ used' = [used EXCEPT ![target] = TRUE]
        /\ DOMAIN frameIndex = Slots /\ DOMAIN used = Slots /\ target \in Slots
    BY <1>9 DEF createTask, Typed, FramesTypeOK, Ranges
  <2>. QED  BY <1>9, <2>1 DEF createTask, Control
<1>10. CASE MapProgram
  <2>1. bitmap \subseteq bitmap'
    BY <1>10, BitmapGrows DEF MapProgram
  <2>2. /\ pc' \in {"pages", "panic"}
        /\ \A k \in Slots \ {target} : frameIndex'[k] = frameIndex[k]
    BY <1>10 DEF MapProgram, task_register_frame, Register, Typed, FramesTypeOK
  <2>3. /\ pc = "pages" /\ used[target]
        /\ UNCHANGED <<kernel_directory, vmm_cur_directory, runningTask, used, cr3, target,
                       stack, loaded>>
    BY <1>10 DEF MapProgram, Control
  <2>. QED  BY <2>1, <2>2, <2>3 DEF Control
<1>11. CASE MapStack
  BY <1>11 DEF MapStack, Control
<1>12. CASE Load
  BY <1>12 DEF Load, Control, Typed, Ranges
<1>13. ASSUME NEW v \in UserPages, Store(v) PROVE Control'
  BY <1>13 DEF Store, Control
<1>14. ASSUME NEW k \in Slots, switch_context(k) PROVE Control'
  BY <1>14 DEF switch_context, Control, Typed, FramesTypeOK
<1>15. ASSUME NEW k \in Slots, kill(k) PROVE Control'
  BY <1>15 DEF kill, Control, Typed, FramesTypeOK, Ranges
<1>. QED
  BY <1>4, <1>5, <1>6, <1>7, <1>8, <1>9, <1>10, <1>11, <1>12, <1>13, <1>14, <1>15
     DEF Boot, Launch, Run

\* A process's pages and its stack.
Own(k) == {frames[k][i] : i \in 0 .. frameIndex[k] - 1}
          \union (IF HasStack(k) THEN {stack[k]} ELSE {})

UserSpace(k) == \A v \in UserPages : Lookup(memory, cr3[k], v) \in {NONE} \union Own(k)

KernelMapped(dir) ==
    \A v \in KernelSpace : Lookup(memory, dir, v) = Lookup(memory, kernel_directory, v)

KernelClean == \A v \in UserPages : Lookup(memory, kernel_directory, v) = NONE

\* vmm_clone_dir has copied so many entries, and the program has so many pages.
Copied(n) ==
    /\ \A i \in Entries : i >= n => memory[cr3[target]][i] = NONE
    /\ \A v \in Pages : Directory(v) < n =>
         Lookup(memory, cr3[target], v) = Lookup(memory, kernel_directory, v)

Mapped(n) ==
    \A j \in 0 .. n - 1 : Lookup(memory, cr3[target], LoadAddress(program) \div PAGE + j) # NONE

Spaces ==
    /\ \A k \in Slots \ {0} : used[k] =>
         /\ UserSpace(k) \/ (k = target /\ pc = "panic")
         /\ KernelMapped(cr3[k])
    /\ KernelMapped(vmm_cur_directory)

Good ==
    /\ Sound /\ KernelClean /\ Spaces
    /\ pc = "clone" => Copied(at)
    /\ pc = "pages" => Mapped(at)
    /\ pc = "load" => Mapped(PagesOf(program))
    /\ LoadFits

\* While the kernel boots it may run out of frames unnoticed.
FramesInv ==
    /\ Typed /\ Control
    /\ ~Booted => Full(bitmap) \/ (Sound /\ KernelClean)
    /\ Booted /\ ~Excused => Good /\ ~OutOfFrames

\* A step that is no kill takes no frame but for a user, and takes none away.
NothingLost ==
    /\ Uses \subseteq Uses'
    /\ \A f \in bitmap' : f \in bitmap \union KernelImage \/ \E use \in Uses' : FrameOf(use) = f

\* Two users of frame 0 are what OutOfFrames means.
LEMMA TwoZeros ==
    ASSUME NEW one \in Uses', NEW other \in Uses', one # other,
           FrameOf(one) = 0, FrameOf(other) = 0
    PROVE  OutOfFrames'
BY DEF OutOfFrames, FrameOf

\* The heap's pages stay with the kernel's tables.
LEMMA HeapStays ==
    ASSUME Typed, Untouched(0), kernel_directory' = kernel_directory
    PROVE  \A i \in 0 .. KHEAP_PAGES - 1 : HeapUse(i)' = HeapUse(i)
<1>. SUFFICES ASSUME NEW i \in 0 .. KHEAP_PAGES - 1 PROVE HeapUse(i)' = HeapUse(i)
  OBVIOUS
<1>1. KHEAP_START + i \in Pages /\ 0 \in Owners /\ Dir(0) = kernel_directory
  BY KernelPages, SpacesArePages, OwnerTypes DEF Dir
<1>2. Lookup(memory', kernel_directory, KHEAP_START + i)
        = Lookup(memory, kernel_directory, KHEAP_START + i)
  BY <1>1, UntouchedLookup
<1>. QED  BY <1>2 DEF HeapUse

\* An address space stays with the tables it is made of and the kernel's.
LEMMA SpaceStays ==
    ASSUME Typed, NEW k \in Owners \ {0}, Untouched(k), Untouched(0),
           kernel_directory' = kernel_directory, cr3'[k] = cr3[k]
    PROVE  /\ UserSpace(k) /\ Own(k) \subseteq Own(k)' => UserSpace(k)'
           /\ KernelMapped(cr3[k]) => KernelMapped(cr3[k])'
<1>1. 0 \in Owners /\ Dir(0) = kernel_directory /\ Dir(k) = cr3[k]
  BY OwnerTypes DEF Dir
<1>2. \A v \in Pages : /\ Lookup(memory', cr3[k], v) = Lookup(memory, cr3[k], v)
                       /\ Lookup(memory', kernel_directory, v) = Lookup(memory, kernel_directory, v)
  BY <1>1, UntouchedLookup
<1>3. UserSpace(k) /\ Own(k) \subseteq Own(k)' => UserSpace(k)'
  BY <1>2, SpacesArePages DEF UserSpace
<1>4. KernelMapped(cr3[k]) => KernelMapped(cr3[k])'
  BY <1>2, SpacesArePages DEF KernelMapped
<1>. QED  BY <1>3, <1>4

\* No user page appears in the kernel's directory.
LEMMA CleanStays ==
    ASSUME Typed, Untouched(0), kernel_directory' = kernel_directory, KernelClean
    PROVE  KernelClean'
<1>1. 0 \in Owners /\ Dir(0) = kernel_directory
  BY OwnerTypes DEF Dir
<1>. QED  BY <1>1, UntouchedLookup, SpacesArePages DEF KernelClean

\* The directory the processor is in while a process can be made: a live owner's.
LEMMA CurrentOwner ==
    ASSUME Typed, Control, Booted, used[runningTask], pc \in {"idle", "clone"}
    PROVE  runningTask \in Owners /\ vmm_cur_directory = Dir(runningTask)
BY DEF Control, Owners, Live, Dir, Typed, Ranges

\* Steps that take no frame and write to no directory and no table.
LEMMA QuietStep ==
    ASSUME Typed, Typed', Sound, KernelClean, bitmap' = bitmap,
           kernel_directory' = kernel_directory,
           \A k : k \in Owners' <=> k \in Owners,
           \A k \in Owners : Dir(k)' = Dir(k) /\ Untouched(k),
           \A k \in Owners \ {0} : /\ frameIndex'[k] = frameIndex[k] /\ frames'[k] = frames[k]
                                   /\ stack'[k] = stack[k] /\ cr3'[k] = cr3[k]
                                   /\ HasStack(k)' <=> HasStack(k)
    PROVE  /\ Sound' /\ KernelClean' /\ NothingLost
           /\ \A k \in Owners \ {0} : /\ UserSpace(k) => UserSpace(k)'
                                      /\ KernelMapped(cr3[k]) => KernelMapped(cr3[k])'
           /\ \A k \in Owners : KernelMapped(Dir(k)) => KernelMapped(Dir(k))'
<1>0. 0 \in Owners /\ Dir(0) = kernel_directory
  BY OwnerTypes DEF Dir
<1>1. TasksKeep
  BY OwnerTypes, FramesAssumption DEF TasksKeep, Typed, FramesTypeOK
<1>2. ASSUME NEW h PROVE MemoryKeeps(h)
  BY <1>0, OwnerTypes DEF MemoryKeeps, Untouched
<1>3. Uses \subseteq Uses'
  BY <1>1, <1>2, UsePersists
<1>4. \A use \in Uses' : use \in Uses \/ use \in {}
  <2>1. \A k \in Owners' : k \in Owners /\ Dir(k)' = Dir(k)
    OBVIOUS
  <2>2. \A k \in Owners', i \in Entries : k \in Owners /\ memory'[Dir(k)'][i] = memory[Dir(k)][i]
    BY DEF Untouched
  <2>3. \A k \in Owners' \ {0} : \A i \in 0 .. frameIndex'[k] - 1 :
           k \in Owners /\ i \in 0 .. frameIndex[k] - 1 /\ frames'[k][i] = frames[k][i]
    OBVIOUS
  <2>4. \A k \in Owners' \ {0} : HasStack(k)' =>
           k \in Owners /\ HasStack(k) /\ stack'[k] = stack[k]
    OBVIOUS
  <2>5. \A i \in 0 .. KHEAP_PAGES - 1 : HeapUse(i)' = HeapUse(i)
    BY <1>0, HeapStays
  <2>. QED  BY <2>1, <2>2, <2>3, <2>4, <2>5, UsesGrow
<1>5. Sound'
  BY <1>4 DEF Sound
<1>6. NothingLost
  BY <1>3 DEF NothingLost
<1>7. KernelClean'
  BY <1>0, CleanStays
<1>8. ASSUME NEW k \in Owners \ {0}
      PROVE  /\ UserSpace(k) => UserSpace(k)'
             /\ KernelMapped(cr3[k]) => KernelMapped(cr3[k])'
  <2>1. Own(k)' = Own(k)
    BY DEF Own
  <2>. QED  BY <1>0, <2>1, SpaceStays
<1>9. ASSUME NEW k \in Owners, KernelMapped(Dir(k)) PROVE KernelMapped(Dir(k))'
  BY <1>0, <1>9, UntouchedLookup, SpacesArePages DEF KernelMapped
<1>. QED  BY <1>5, <1>6, <1>7, <1>8, <1>9

-----------------------------------------------------------------------------
(* The steps that make a process.                                          *)

\* create_process: a new directory, for a slot that had no user.
LEMMA CreateStep ==
    ASSUME Typed, Typed', Control, Good, ~OutOfFrames', NEW k \in Slots, NEW p \in Programs,
           create_process(k, p)
    PROVE  Good' /\ NothingLost
<1>. DEFINE f == pmm_alloc_block(bitmap)
            New == {DirectoryUse(k)'}
<1>1. /\ pc = "idle" /\ used[runningTask] /\ k # 0 /\ ~used[k] /\ frameIndex[k] = 0
      /\ bitmap' = Taken(bitmap) /\ memory' = [memory EXCEPT ![f] = Blank]
      /\ cr3' = [cr3 EXCEPT ![k] = f] /\ loaded' = [loaded EXCEPT ![k] = FALSE]
      /\ target' = k /\ pc' = "clone" /\ at' = 0
      /\ UNCHANGED <<kernel_directory, vmm_cur_directory, runningTask, used, frames,
                     frameIndex, stack>>
  BY DEF create_process, IsFinalElement, Control, NewDirectory, Cleared, Goto
<1>2. /\ f \in Frames /\ bitmap \subseteq Taken(bitmap) /\ f \in Taken(bitmap)
      /\ Taken(bitmap) \subseteq bitmap \union {f} \union KernelImage
      /\ ~Full(bitmap) => f \notin bitmap \union KernelImage
      /\ Full(bitmap) => Full(Taken(bitmap))
  BY AllocFacts, FullGrows DEF Typed, FramesTypeOK
<1>3. f \notin bitmap \union KernelImage
  <2>1. ~Full(bitmap')
    BY DEF OutOfFrames, Full
  <2>. QED  BY <1>1, <1>2, <2>1
<1>. HIDE DEF f
<1>4. /\ memory \in Memories /\ cr3 \in [Slots -> Frames] /\ loaded \in [Slots -> BOOLEAN]
      /\ used \in [Slots -> BOOLEAN]
  BY DEF Typed, FramesTypeOK, Ranges, Memories
<1>5. /\ \A h \in Frames \ {f} : memory'[h] = memory[h]
      /\ memory'[f] = Blank
  BY <1>1, <1>2, <1>4 DEF Memories
<1>6. /\ k \notin Owners
      /\ \A j : j \in Owners' <=> j \in Owners \/ j = k
      /\ \A j \in Owners : Dir(j)' = Dir(j) /\ (j # 0 => cr3'[j] = cr3[j])
      /\ Dir(k)' = f
      /\ \A j \in Owners \ {0} : HasStack(j)' <=> HasStack(j)
      /\ ~HasStack(k)'
  BY <1>1, <1>4 DEF Owners, Live, Dir, HasStack
<1>7. TasksKeep
  BY <1>1, <1>6, OwnerTypes, FramesAssumption DEF TasksKeep, Typed, FramesTypeOK
<1>8. MemoryKeeps(f)
  BY <1>5, OwnerTypes DEF MemoryKeeps
<1>9. UsesByKind /\ UsesByKind'
  BY UsesAreByKind, PTL
<1>10. DirectoryUse(k)' \in Uses' /\ FrameOf(DirectoryUse(k)') = f
  <2>1. k \in Owners' /\ FrameOf(DirectoryUse(k)') = f
    BY <1>6 DEF DirectoryUse, FrameOf
  <2>. QED  BY <1>2, <1>9, <2>1, OwnerTypes DEF UsesByKind
<1>11. \A use \in Uses : FrameOf(use) # f
  <2>. SUFFICES ASSUME NEW use \in Uses, FrameOf(use) = f PROVE FALSE
    OBVIOUS
  <2>1. f = 0
    BY <1>3, FreeIsUnused DEF Good
  <2>2. use \in Uses'
    BY <1>7, <1>8, UsePersists DEF Good
  <2>3. use # DirectoryUse(k)'
    BY <1>6, <1>9 DEF UsesByKind, DirectoryUse, TableUse, PageUse, StackUse, HeapUse, ImageUse
  <2>. QED  BY <1>10, <2>1, <2>2, <2>3, TwoZeros
<1>12. Uses \subseteq Uses'
  BY <1>2, <1>7, <1>8, <1>11, UnusedKeeps, UsePersists DEF Good
<1>13. ASSUME NEW j \in Owners PROVE Untouched(j)
  <2>1. Dir(j) \notin {f} /\ \A i \in Entries : memory[Dir(j)][i] \notin {f}
    BY <1>2, <1>11, UnusedIsNoTable
  <2>. QED  BY <1>5, <2>1, UntouchedBut
<1>14. 0 \in Owners
  BY OwnerTypes
<1>15. \A use \in Uses' : use \in Uses \/ use \in New
  <2>1. \A j \in Owners' : (j \in Owners /\ Dir(j)' = Dir(j)) \/ DirectoryUse(j)' \in New
    BY <1>6
  <2>2. \A j \in Owners', i \in Entries :
           memory'[Dir(j)'][i] = NONE \/ (j \in Owners /\ memory'[Dir(j)'][i] = memory[Dir(j)][i])
    BY <1>5, <1>6, <1>13 DEF Untouched, Blank
  <2>3. \A j \in Owners' \ {0} : \A i \in 0 .. frameIndex'[j] - 1 :
           j \in Owners /\ i \in 0 .. frameIndex[j] - 1 /\ frames'[j][i] = frames[j][i]
    BY <1>1, <1>6
  <2>4. \A j \in Owners' \ {0} : HasStack(j)' =>
           j \in Owners /\ HasStack(j) /\ stack'[j] = stack[j]
    BY <1>1, <1>6
  <2>5. \A i \in 0 .. KHEAP_PAGES - 1 : HeapUse(i)' = HeapUse(i)
    BY <1>1, <1>13, <1>14, HeapStays
  <2>. HIDE DEF New
  <2>. QED  BY <2>1, <2>2, <2>3, <2>4, <2>5, UsesGrow
<1>16. Sound'
  <2>1. \A use \in New : /\ \A other \in Uses : FrameOf(use) # FrameOf(other)
                         /\ FrameOf(use) \in bitmap'
    BY <1>1, <1>2, <1>10, <1>11
  <2>2. \A one, other \in New : FrameOf(one) = FrameOf(other) => one = other
    OBVIOUS
  <2>. HIDE DEF New
  <2>. QED  BY <1>1, <1>2, <1>15, <2>1, <2>2, SoundGrows DEF Good
<1>17. KernelClean'
  BY <1>1, <1>13, <1>14, CleanStays DEF Good
<1>18. Spaces'
  <2>1. ASSUME NEW j \in Slots \ {0}, used[j]
        PROVE  UserSpace(j)' /\ KernelMapped(cr3[j])'
    <3>1. j \in Owners \ {0}
      BY <2>1 DEF Owners, Live
    <3>2. UserSpace(j) /\ KernelMapped(cr3[j])
      BY <1>1, <2>1 DEF Good, Spaces
    <3>3. Own(j) = Own(j)'
      BY <1>1, <1>6, <3>1 DEF Own
    <3>. QED  BY <1>1, <1>6, <1>13, <1>14, <3>1, <3>2, <3>3, SpaceStays
  <2>2. KernelMapped(vmm_cur_directory)'
    <3>1. runningTask \in Owners /\ vmm_cur_directory = Dir(runningTask)
      BY <1>1, CurrentOwner DEF Booted, BootLabels
    <3>2. Dir(0) = kernel_directory
      BY DEF Dir
    <3>3. \A v \in Pages : /\ Lookup(memory', vmm_cur_directory, v)
                                = Lookup(memory, vmm_cur_directory, v)
                           /\ Lookup(memory', kernel_directory, v)
                                = Lookup(memory, kernel_directory, v)
      BY <1>13, <1>14, <3>1, <3>2, UntouchedLookup
    <3>. QED  BY <1>1, <3>3, SpacesArePages DEF Good, Spaces, KernelMapped
  <2>. QED  BY <1>1, <2>1, <2>2 DEF Spaces
<1>19. Copied(at)'
  <2>1. \A v \in Pages : ~(Directory(v) < 0)
    BY PageFacts, FramesAssumption DEF Entries
  <2>. QED  BY <1>1, <1>4, <1>5, <2>1 DEF Copied, Blank
<1>20. NothingLost
  BY <1>1, <1>2, <1>10, <1>12 DEF NothingLost
<1>. QED  BY <1>1, <1>16, <1>17, <1>18, <1>19, <1>20 DEF Good, LoadFits

\* The parts of Good that do not change with the memory of the new process.
LEMMA OthersSpaces ==
    ASSUME Typed, Control, Spaces, Booted, ~(pc = "panic"),
           used[runningTask], pc = "clone", target' = target, used' = used, cr3' = cr3,
           vmm_cur_directory' = vmm_cur_directory, kernel_directory' = kernel_directory,
           frames' = frames, frameIndex' = frameIndex, stack' = stack,
           \A k \in Owners \ {target} : Untouched(k),
           \A k \in Owners \ {0} : HasStack(k)' <=> HasStack(k)
    PROVE  Spaces'
<1>1. 0 \in Owners /\ target # 0 /\ ~used[target] /\ runningTask # target
  BY OwnerTypes DEF Control, LaunchLabels
<1>2. ASSUME NEW j \in Slots \ {0}, used[j]
      PROVE  UserSpace(j)' /\ KernelMapped(cr3[j])'
  <2>1. j \in Owners \ {0, target}
    BY <1>1, <1>2 DEF Owners, Live
  <2>2. UserSpace(j) /\ KernelMapped(cr3[j])
    BY <1>2 DEF Spaces
  <2>3. Own(j) = Own(j)'
    BY <2>1 DEF Own
  <2>. QED  BY <1>1, <2>1, <2>2, <2>3, SpaceStays
<1>3. KernelMapped(vmm_cur_directory)'
  <2>1. runningTask \in Owners \ {target} /\ vmm_cur_directory = Dir(runningTask)
    BY <1>1, CurrentOwner
  <2>2. Dir(0) = kernel_directory /\ 0 \in Owners \ {target}
    BY <1>1 DEF Dir
  <2>3. \A v \in Pages : /\ Lookup(memory', vmm_cur_directory, v)
                              = Lookup(memory, vmm_cur_directory, v)
                         /\ Lookup(memory', kernel_directory, v)
                              = Lookup(memory, kernel_directory, v)
    BY <2>1, <2>2, UntouchedLookup
  <2>. QED  BY <2>3, SpacesArePages DEF Spaces, KernelMapped
<1>. QED  BY <1>2, <1>3 DEF Spaces

\* A turn of vmm_clone_dir: a copy of the kernel's table, or nothing.
LEMMA CloneStep ==
    ASSUME Typed, Typed', Control, Good, ~OutOfFrames', vmm_clone_dir
    PROVE  Good' /\ NothingLost
<1>0. PICK T, n, d, g : T = target /\ n = at /\ d = cr3[target] /\ g = pmm_alloc_block(bitmap)
  OBVIOUS
<1>. DEFINE New == {TableUse(T, n)'}
<1>1. /\ pc = "clone" /\ pc' = "clone" /\ n \in Entries /\ at = n /\ at' = n + 1
      /\ target = T /\ target' = T /\ cr3[T] = d /\ cr3'[T] = d
      /\ UNCHANGED <<kernel_directory, vmm_cur_directory, runningTask, used, cr3, frames,
                     frameIndex, target, stack, loaded>>
  BY <1>0 DEF vmm_clone_dir, Again, taskVars, history
<1>2. /\ T # 0 /\ runningTask # T /\ used[runningTask] /\ ~used[T]
      /\ T \in Owners /\ Dir(T) = d /\ d \in bitmap /\ 0 \in Owners
      /\ Dir(0) = kernel_directory /\ ENTRIES \in Nat /\ n \in Nat
  BY <1>1, OwnerTypes, FramesAssumption
     DEF Control, LaunchLabels, Owners, Live, Dir, Typed, Ranges, Entries
<1>3. /\ \A j : j \in Owners' <=> j \in Owners
      /\ \A j \in Owners : Dir(j)' = Dir(j)
      /\ \A j \in Owners \ {0} : HasStack(j)' <=> HasStack(j)
  BY <1>1 DEF Owners, Live, Dir, HasStack
<1>4. Sound /\ KernelClean /\ Spaces /\ Copied(n) /\ Separate
  BY <1>1, SoundSeparates DEF Good
<1>5. memory[d][n] = NONE
  BY <1>1, <1>2, <1>4 DEF Copied
<1>6. ASSUME Copied(n + 1)', Sound', KernelClean', Spaces' PROVE Good'
  BY <1>1, <1>6 DEF Good, LoadFits
<1>7. CASE memory[kernel_directory][n] = NONE
  <2>1. bitmap' = bitmap /\ memory' = memory
    BY <1>1, <1>7 DEF vmm_clone_dir, memVars
  <2>2. \A j \in Owners : Untouched(j)
    BY <2>1 DEF Untouched
  <2>3. Sound' /\ KernelClean' /\ NothingLost
    BY <1>1, <1>3, <1>4, <2>1, <2>2, QuietStep
  <2>4. Spaces'
    BY <1>1, <1>2, <1>3, <1>4, <2>2, OthersSpaces DEF Booted, BootLabels
  <2>5. ASSUME NEW i \in Entries, i >= n + 1 PROVE memory[d][i] = NONE
    BY <1>1, <1>2, <1>4, <2>5 DEF Copied, Entries
  <2>6. ASSUME NEW v \in Pages, Directory(v) < n + 1
        PROVE  Lookup(memory, d, v) = Lookup(memory, kernel_directory, v)
    <3>1. CASE Directory(v) < n
      BY <1>1, <1>4, <3>1 DEF Copied
    <3>2. CASE Directory(v) = n
      BY <1>5, <1>7, <3>2 DEF Lookup
    <3>3. Directory(v) \in Nat
      BY <1>2, PageFacts DEF Entries
    <3>. QED  BY <1>2, <2>6, <3>1, <3>2, <3>3
  <2>7. Copied(n + 1)'
    BY <1>1, <2>1, <2>5, <2>6 DEF Copied
  <2>. QED  BY <1>6, <2>3, <2>4, <2>7
<1>8. CASE memory[kernel_directory][n] # NONE
  <2>0. PICK kt : kt = memory[kernel_directory][n]
    OBVIOUS
  <2>1. bitmap' = Taken(bitmap) /\ memory' = [[memory EXCEPT ![g] = memory[kt]] EXCEPT ![d][n] = g]
    BY <1>0, <1>1, <1>8, <2>0 DEF vmm_clone_dir, vmm_clone_tab, Stored
  <2>2. /\ g \in Frames /\ bitmap \subseteq Taken(bitmap) /\ g \in Taken(bitmap)
        /\ Taken(bitmap) \subseteq bitmap \union {g} \union KernelImage
        /\ ~Full(bitmap) => g \notin bitmap \union KernelImage
        /\ Full(bitmap) => Full(Taken(bitmap))
    BY <1>0, AllocFacts, FullGrows DEF Typed, FramesTypeOK
  <2>3. g \notin bitmap \union KernelImage
    <3>1. ~Full(bitmap')
      BY DEF OutOfFrames, Full
    <3>. QED  BY <2>1, <2>2, <3>1
  <2>4. /\ memory \in Memories /\ d \in Frames /\ kt \in Frames /\ g # d /\ g # NONE
        /\ memory[d] \in [Entries -> Frames \union {NONE}]
    BY <1>1, <1>2, <1>8, <2>0, <2>2, <2>3, OwnerTypes
  <2>5. /\ \A h \in Frames \ {g, d} : memory'[h] = memory[h]
        /\ memory'[g] = memory[kt]
        /\ memory'[d] = [memory[d] EXCEPT ![n] = g]
    BY <2>1, <2>2, <2>4 DEF Memories
  <2>6. memory'[d][n] = g /\ \A i \in Entries \ {n} : memory'[d][i] = memory[d][i]
    BY <1>1, <2>4, <2>5
  <2>7. TasksKeep
    BY <1>1, <1>3, OwnerTypes, FramesAssumption, SMTT(30) DEF TasksKeep, Typed, FramesTypeOK
  <2>8. MemoryKeeps(g)
    <3>1. \A i \in Entries : memory[kernel_directory][i] # d
      BY <1>2, <1>4 DEF Separate
    <3>. QED  BY <1>5, <2>5, <2>6, <3>1, OwnerTypes DEF MemoryKeeps
  <2>9. UsesByKind /\ UsesByKind'
    BY UsesAreByKind, PTL
  <2>10. TableUse(T, n)' = <<T, "table", n, g>>
    BY <1>1, <1>2, <1>3, <2>6 DEF TableUse
  <2>11. TableUse(T, n)' \in Uses' /\ FrameOf(TableUse(T, n)') = g
    BY <1>1, <1>2, <1>3, <2>4, <2>9, <2>10 DEF UsesByKind, FrameOf
  <2>12. \A use \in Uses : FrameOf(use) # g
    <3>. SUFFICES ASSUME NEW use \in Uses, FrameOf(use) = g PROVE FALSE
      OBVIOUS
    <3>1. g = 0
      BY <1>4, <2>3, FreeIsUnused
    <3>2. use \in Uses'
      BY <1>4, <2>7, <2>8, UsePersists
    <3>3. use # TableUse(T, n)'
      BY <1>1, <1>2, <1>5, <2>4, <2>9, <2>10
         DEF UsesByKind, DirectoryUse, TableUse, PageUse, StackUse, HeapUse, ImageUse
    <3>. QED  BY <2>11, <3>1, <3>2, <3>3, TwoZeros
  <2>13. Uses \subseteq Uses'
    BY <1>4, <2>2, <2>7, <2>8, <2>12, UnusedKeeps, UsePersists
  <2>14. ASSUME NEW j \in Owners \ {T} PROVE Untouched(j)
    <3>1. Dir(j) \notin {g, d} /\ \A i \in Entries : memory[Dir(j)][i] \notin {g, d}
      BY <1>2, <1>4, <2>2, <2>12, UnusedIsNoTable DEF Separate
    <3>. QED  BY <2>5, <3>1, UntouchedBut
  <2>15. \A use \in Uses' : use \in Uses \/ use \in New
    <3>1. \A j \in Owners' : j \in Owners /\ Dir(j)' = Dir(j)
      BY <1>3
    <3>2. \A j \in Owners', i \in Entries :
             \/ j \in Owners /\ memory'[Dir(j)'][i] = memory[Dir(j)][i]
             \/ TableUse(j, i)' \in New
      BY <1>2, <1>3, <2>6, <2>14 DEF Untouched
    <3>3. \A j \in Owners' \ {0} : \A i \in 0 .. frameIndex'[j] - 1 :
             j \in Owners /\ i \in 0 .. frameIndex[j] - 1 /\ frames'[j][i] = frames[j][i]
      BY <1>1, <1>3
    <3>4. \A j \in Owners' \ {0} : HasStack(j)' =>
             j \in Owners /\ HasStack(j) /\ stack'[j] = stack[j]
      BY <1>1, <1>3
    <3>5. \A i \in 0 .. KHEAP_PAGES - 1 : HeapUse(i)' = HeapUse(i)
      BY <1>1, <1>2, <2>14, HeapStays
    <3>. HIDE DEF New
    <3>. QED  BY <3>1, <3>2, <3>3, <3>4, <3>5, UsesGrow
  <2>16. Sound'
    <3>1. \A use \in New : /\ \A other \in Uses : FrameOf(use) # FrameOf(other)
                           /\ FrameOf(use) \in bitmap'
      BY <2>1, <2>2, <2>11, <2>12
    <3>2. \A one, other \in New : FrameOf(one) = FrameOf(other) => one = other
      OBVIOUS
    <3>. HIDE DEF New
    <3>. QED  BY <1>4, <2>1, <2>2, <2>15, <3>1, <3>2, SoundGrows
  <2>17. KernelClean'
    BY <1>1, <1>2, <1>4, <2>14, CleanStays
  <2>18. Spaces'
    BY <1>1, <1>2, <1>3, <1>4, <2>14, OthersSpaces DEF Booted, BootLabels
  <2>19. ASSUME NEW i \in Entries, i >= n + 1 PROVE memory'[d][i] = NONE
    BY <1>1, <1>2, <1>4, <2>6, <2>19 DEF Copied, Entries
  <2>20. ASSUME NEW v \in Pages, Directory(v) < n + 1
         PROVE  Lookup(memory', d, v) = Lookup(memory', kernel_directory, v)
    <3>1. Lookup(memory', kernel_directory, v) = Lookup(memory, kernel_directory, v)
      BY <1>2, <2>14, UntouchedLookup
    <3>2. Directory(v) \in Entries /\ Directory(v) \in Nat
      BY <1>2, PageFacts DEF Entries
    <3>3. CASE Directory(v) = n
      BY <1>8, <2>0, <2>4, <2>5, <2>6, <3>1, <3>3 DEF Lookup
    <3>4. CASE Directory(v) < n
      <4>1. Lookup(memory, d, v) = Lookup(memory, kernel_directory, v)
        BY <1>1, <1>4, <3>4 DEF Copied
      <4>2. memory'[d][Directory(v)] = memory[d][Directory(v)]
        BY <1>2, <2>6, <3>2, <3>4
      <4>3. memory[d][Directory(v)] # NONE =>
              memory'[memory[d][Directory(v)]] = memory[memory[d][Directory(v)]]
        BY <1>2, <1>4, <2>2, <2>4, <2>5, <2>12, <3>2, UnusedIsNoTable DEF Separate
      <4>. QED  BY <3>1, <4>1, <4>2, <4>3 DEF Lookup
    <3>. QED  BY <1>2, <2>20, <3>2, <3>3, <3>4
  <2>21. Copied(n + 1)'
    BY <1>1, <2>19, <2>20 DEF Copied
  <2>22. NothingLost
    BY <2>1, <2>2, <2>11, <2>13 DEF NothingLost
  <2>. QED  BY <1>6, <2>16, <2>17, <2>18, <2>21, <2>22
<1>. QED  BY <1>7, <1>8

\* createTask: the directory is complete, and the processor's.
LEMMA CreateTaskStep ==
    ASSUME Typed, Typed', Control, Good, createTask
    PROVE  Good' /\ NothingLost
<1>0. PICK T, d : T = target /\ d = cr3[target]
  OBVIOUS
<1>1. /\ pc = "clone" /\ pc' = "pages" /\ at = ENTRIES /\ at' = 0
      /\ target = T /\ target' = T /\ T \in Slots /\ cr3[T] = d /\ cr3'[T] = d
      /\ frameIndex' = [frameIndex EXCEPT ![T] = 0] /\ used' = [used EXCEPT ![T] = TRUE]
      /\ vmm_cur_directory' = d
      /\ UNCHANGED <<memory, bitmap, kernel_directory, runningTask, cr3, frames, stack, loaded>>
  BY <1>0 DEF createTask, Goto, memVars, history, vmm_switch_pdirectory, Typed, Ranges
<1>2. /\ T # 0 /\ ~used[T] /\ frameIndex[T] = 0 /\ 0 \in Owners /\ T \in Owners
      /\ Dir(0) = kernel_directory /\ ~loaded[T]
      /\ \A k \in Slots \ {0, T} : used[k] => loaded[k]
  BY <1>1, OwnerTypes DEF Control, LaunchLabels, Owners, Live, Dir
<1>3. /\ frameIndex' = frameIndex
      /\ used \in [Slots -> BOOLEAN] /\ \A k \in Slots \ {T} : used'[k] <=> used[k]
      /\ used'[T]
  BY <1>1, <1>2 DEF Typed, FramesTypeOK, Ranges
<1>4. /\ \A k : k \in Owners' <=> k \in Owners
      /\ \A k \in Owners : Dir(k)' = Dir(k)
      /\ \A k \in Owners \ {0} : HasStack(k)' <=> HasStack(k)
  BY <1>1, <1>2, <1>3 DEF Owners, Live, Dir, HasStack
<1>5. \A k \in Owners : Untouched(k)
  BY <1>1 DEF Untouched
<1>6. Sound /\ KernelClean /\ Spaces /\ Copied(ENTRIES)
  BY <1>1 DEF Good
<1>7. /\ Sound' /\ KernelClean' /\ NothingLost
      /\ \A k \in Owners \ {0} : /\ UserSpace(k) => UserSpace(k)'
                                 /\ KernelMapped(cr3[k]) => KernelMapped(cr3[k])'
  BY <1>1, <1>3, <1>4, <1>5, <1>6, QuietStep
<1>8. \A v \in Pages : Lookup(memory, d, v) = Lookup(memory, kernel_directory, v)
  BY <1>1, <1>6, PageFacts, FramesAssumption DEF Copied, Entries
<1>9. UserSpace(T)'
  BY <1>1, <1>6, <1>8, SpacesArePages DEF UserSpace, KernelClean
<1>10. KernelMapped(cr3[T])' /\ KernelMapped(vmm_cur_directory)'
  BY <1>1, <1>8, SpacesArePages DEF KernelMapped
<1>11. ASSUME NEW k \in Slots \ {0}, used'[k] PROVE UserSpace(k)' /\ KernelMapped(cr3[k])'
  <2>1. CASE k = T
    BY <1>9, <1>10, <2>1
  <2>2. CASE k # T
    <3>1. used[k] /\ k \in Owners \ {0}
      BY <1>3, <1>11, <2>2 DEF Owners, Live
    <3>2. UserSpace(k) /\ KernelMapped(cr3[k])
      BY <1>1, <1>6, <3>1 DEF Spaces
    <3>. QED  BY <1>7, <3>1, <3>2
  <2>. QED  BY <2>1, <2>2
<1>12. Spaces'
  BY <1>10, <1>11 DEF Spaces
<1>13. Mapped(at)'
  BY <1>1 DEF Mapped
<1>. QED  BY <1>1, <1>7, <1>12, <1>13 DEF Good, LoadFits

-----------------------------------------------------------------------------
(* The steps that write to pages, switch and kill.                         *)

\* A store to a page of a process changes no directory and no table.
LEMMA WriteTouchesNone ==
    ASSUME Typed, Separate, NEW k \in Owners \ {0}, vmm_cur_directory = cr3[k], UserSpace(k),
           NEW set \in SUBSET UserPages, Write(set)
    PROVE  \A j \in Owners : Untouched(j)
<1>. DEFINE hit == {Lookup(memory, cr3[k], v) : v \in set}
<1>1. \A f \in Frames \ hit : memory'[f] = memory[f]
  BY DEF Write, Translate, Lookup
<1>2. ASSUME NEW f \in hit, f # NONE
      PROVE  \E use \in Uses : FrameOf(use) = f /\ use[2] \notin {"directory", "table"}
  <2>1. f \in Own(k)
    BY <1>2 DEF UserSpace
  <2>2. CASE \E i \in 0 .. frameIndex[k] - 1 : f = frames[k][i]
    <3>1. PICK i \in 0 .. frameIndex[k] - 1 : f = frames[k][i]
      BY <2>2
    <3>. QED  BY <3>1, UsesIntro DEF PageUse, FrameOf
  <2>3. CASE HasStack(k) /\ f = stack[k]
    BY <2>3, UsesIntro DEF StackUse, FrameOf
  <2>. QED  BY <2>1, <2>2, <2>3 DEF Own
<1>. HIDE DEF hit
<1>3. ASSUME NEW j \in Owners PROVE Untouched(j)
  <2>1. Dir(j) \in Frames /\ Dir(j) # NONE /\ Dir(j) \notin hit
    BY <1>2, OwnerTypes DEF Separate
  <2>2. \A i \in Entries : memory[Dir(j)][i] # NONE => memory[Dir(j)][i] \notin hit
    BY <1>2 DEF Separate
  <2>. QED  BY <1>1, <2>1, <2>2, OwnerTypes DEF Untouched
<1>. QED  BY <1>3

\* A running program's store.
LEMMA StoreStep ==
    ASSUME Typed, Typed', Control, Good, NEW v \in UserPages, Store(v)
    PROVE  Good' /\ NothingLost
<1>1. /\ pc = "idle" /\ pc' = "idle" /\ runningTask # 0 /\ used[runningTask] /\ Write({v})
      /\ UNCHANGED <<bitmap, kernel_directory, vmm_cur_directory, runningTask, used, cr3,
                     frames, frameIndex, target, stack, loaded>>
  BY DEF Store, taskVars, history
<1>2. PICK r : r = runningTask
  OBVIOUS
<1>3. r \in Owners \ {0} /\ vmm_cur_directory = cr3[r] /\ vmm_cur_directory = Dir(r)
  BY <1>1, <1>2, CurrentOwner DEF Booted, BootLabels, Dir
<1>4. Sound /\ KernelClean /\ Spaces /\ Separate /\ UserSpace(r)
  BY <1>1, <1>2, SoundSeparates DEF Good, Spaces, Typed, Ranges
<1>5. \A j \in Owners : Untouched(j)
  BY <1>1, <1>3, <1>4, WriteTouchesNone
<1>6. /\ \A k : k \in Owners' <=> k \in Owners
      /\ \A k \in Owners : Dir(k)' = Dir(k)
      /\ \A k \in Owners \ {0} : HasStack(k)' <=> HasStack(k)
  BY <1>1 DEF Owners, Live, Dir, HasStack
<1>7. /\ Sound' /\ KernelClean' /\ NothingLost
      /\ \A k \in Owners \ {0} : /\ UserSpace(k) => UserSpace(k)'
                                 /\ KernelMapped(cr3[k]) => KernelMapped(cr3[k])'
  BY <1>1, <1>4, <1>5, <1>6, QuietStep
<1>8. ASSUME NEW k \in Slots \ {0}, used'[k] PROVE UserSpace(k)' /\ KernelMapped(cr3[k])'
  BY <1>1, <1>4, <1>7, <1>8 DEF Spaces, Owners, Live
<1>9. KernelMapped(vmm_cur_directory)'
  <2>1. KernelMapped(cr3[r])'
    BY <1>1, <1>2, <1>4, <1>7, <1>3 DEF Spaces, Typed, Ranges
  <2>. QED  BY <1>1, <1>3, <2>1 DEF KernelMapped
<1>. QED  BY <1>1, <1>7, <1>8, <1>9 DEF Good, Spaces, LoadFits

\* The file is loaded, or faults on a page that was not made.
LEMMA LoadStep ==
    ASSUME Typed, Typed', Control, Good, Load
    PROVE  Good' /\ NothingLost
<1>0. PICK T, r, d : T = target /\ r = runningTask /\ d = cr3[runningTask]
  OBVIOUS
<1>. DEFINE set == FilePages(program)
            fault == \E v \in set : Lookup(memory, cr3[T], v) = NONE
<1>1. /\ pc = "load" /\ target = T /\ T \in Slots \ {0} /\ used[T] /\ ~loaded[T]
      /\ vmm_cur_directory = cr3[T] /\ runningTask = r /\ r \in Slots /\ used[r] /\ r # T
      /\ program \in Programs
      /\ \A k \in Slots \ {0, T} : used[k] => loaded[k]
      /\ cr3[0] = kernel_directory
  BY <1>0 DEF Load, Control, LaunchLabels, Typed, Ranges, Booted, BootLabels
<1>2. set \in SUBSET UserPages
  BY <1>1, FilePagesBelowKernel
<1>3. /\ Write(set)
      /\ pc' = IF fault THEN "page_fault" ELSE "idle"
      /\ vmm_cur_directory' = IF fault THEN vmm_cur_directory ELSE d
      /\ loaded' = [loaded EXCEPT ![T] = ~fault]
      /\ UNCHANGED <<bitmap, kernel_directory, runningTask, used, cr3, frames, frameIndex,
                     target, program, stack>>
  BY <1>0, <1>1 DEF Load, FilePages, Lookup, Translate, vmm_switch_pdirectory, taskVars
<1>. HIDE DEF set
<1>4. /\ \A k \in Slots \ {T} : loaded'[k] <=> loaded[k]
      /\ loaded'[T] <=> ~fault
  BY <1>1, <1>3 DEF Typed, Ranges
<1>. HIDE DEF fault
<1>5. T \in Owners \ {0} /\ r \in Owners \ {T} /\ Dir(T) = cr3[T] /\ Dir(r) = d
  BY <1>0, <1>1 DEF Owners, Live, Dir
<1>6. Sound /\ KernelClean /\ Spaces /\ Separate /\ UserSpace(T) /\ Mapped(PagesOf(program))
  BY <1>1, SoundSeparates DEF Good, Spaces
<1>7. \A j \in Owners : Untouched(j)
  BY <1>1, <1>2, <1>3, <1>5, <1>6, WriteTouchesNone
<1>8. /\ \A k : k \in Owners' <=> k \in Owners
      /\ \A k \in Owners : Dir(k)' = Dir(k)
      /\ \A k \in Owners \ {0} : HasStack(k)' <=> HasStack(k)
  <2>1. pc' # "clone" /\ (fault => pc' = "page_fault") /\ (~fault => pc' = "idle")
    BY <1>3
  <2>. QED  BY <1>1, <1>3, <1>4, <2>1 DEF Owners, Live, Dir, HasStack
<1>9. /\ Sound' /\ KernelClean' /\ NothingLost
      /\ \A k \in Owners \ {0} : /\ UserSpace(k) => UserSpace(k)'
                                 /\ KernelMapped(cr3[k]) => KernelMapped(cr3[k])'
  BY <1>1, <1>3, <1>6, <1>7, <1>8, QuietStep
<1>10. ASSUME NEW k \in Slots \ {0}, used'[k] PROVE UserSpace(k)' /\ KernelMapped(cr3[k])'
  BY <1>1, <1>3, <1>6, <1>9, <1>10 DEF Spaces, Owners, Live
<1>11. KernelMapped(vmm_cur_directory)'
  <2>1. CASE fault
    BY <1>1, <1>3, <1>10, <2>1 DEF KernelMapped
  <2>2. CASE ~fault /\ r # 0
    BY <1>0, <1>1, <1>3, <1>10, <2>2 DEF KernelMapped
  <2>3. CASE ~fault /\ r = 0
    BY <1>0, <1>1, <1>3, <2>3 DEF KernelMapped
  <2>. QED  BY <2>1, <2>2, <2>3
<1>12. Spaces'
  BY <1>3, <1>10, <1>11 DEF Spaces
<1>13. LoadFits'
  <2>1. SUFFICES ASSUME fault
                 PROVE  IF program.kind = "raw" THEN program.length > PAGE * RAW_PAGES
                                               ELSE elf_get_load_addr(program) % PAGE # 0
    BY <1>3 DEF LoadFits
  <2>2. PICK v \in set : Lookup(memory, cr3[T], v) = NONE
    BY <2>1 DEF fault
  <2>3. ~ \E j \in 0 .. PagesOf(program) - 1 : v = LoadAddress(program) \div PAGE + j
    BY <1>1, <1>6, <2>2 DEF Mapped
  <2>4. ~ IF program.kind = "raw" THEN program.length <= PAGE * RAW_PAGES
                                  ELSE elf_get_load_addr(program) % PAGE = 0
    BY <1>1, <2>2, <2>3, FilePagesAreMade DEF set
  <2>5. program.length \in Nat /\ PAGE * RAW_PAGES \in Nat
    BY <1>1, ProgramFields
  <2>. QED  BY <2>4, <2>5
<1>14. pc' \in {"page_fault", "idle"}
  BY <1>3
<1>. QED  BY <1>9, <1>12, <1>13, <1>14 DEF Good

\* switch_context.
LEMMA SwitchStep ==
    ASSUME Typed, Typed', Control, Good, NEW k \in Slots, switch_context(k)
    PROVE  Good' /\ NothingLost
<1>1. /\ pc = "idle" /\ pc' = "idle" /\ used[k]
      /\ cr3' = [cr3 EXCEPT ![runningTask] = vmm_cur_directory]
      /\ vmm_cur_directory = cr3[runningTask] /\ vmm_cur_directory' = cr3[k]
      /\ cr3[0] = kernel_directory
      /\ UNCHANGED <<bitmap, memory, kernel_directory, used, frames, frameIndex, target,
                     stack, loaded>>
  BY DEF switch_context, vmm_switch_pdirectory, memVars, history, Control, Booted, BootLabels
<1>2. cr3' = cr3
  BY <1>1 DEF Typed, FramesTypeOK
<1>3. Sound /\ KernelClean /\ Spaces
  BY DEF Good
<1>4. \A j \in Owners : Untouched(j)
  BY <1>1 DEF Untouched
<1>5. /\ \A j : j \in Owners' <=> j \in Owners
      /\ \A j \in Owners : Dir(j)' = Dir(j)
      /\ \A j \in Owners \ {0} : HasStack(j)' <=> HasStack(j)
  BY <1>1, <1>2 DEF Owners, Live, Dir, HasStack
<1>6. /\ Sound' /\ KernelClean' /\ NothingLost
      /\ \A j \in Owners \ {0} : /\ UserSpace(j) => UserSpace(j)'
                                 /\ KernelMapped(cr3[j]) => KernelMapped(cr3[j])'
  BY <1>1, <1>2, <1>3, <1>4, <1>5, QuietStep
<1>7. ASSUME NEW j \in Slots \ {0}, used'[j] PROVE UserSpace(j)' /\ KernelMapped(cr3[j])'
  BY <1>1, <1>3, <1>6, <1>7 DEF Spaces, Owners, Live
<1>8. KernelMapped(vmm_cur_directory)'
  <2>1. CASE k = 0
    BY <1>1, <2>1 DEF KernelMapped
  <2>2. CASE k # 0
    BY <1>1, <1>2, <1>7, <2>2 DEF KernelMapped
  <2>. QED  BY <2>1, <2>2
<1>. QED  BY <1>1, <1>6, <1>7, <1>8 DEF Good, Spaces, LoadFits

\* What a kill does, if it frees what the victim owns.
LEMMA KillFacts ==
    ASSUME Typed, Typed', Control, Sound, NEW k \in Slots, kill(k), ~strayFrees'
    PROVE  /\ pc = "idle" /\ pc' = "idle" /\ k \in Owners \ {0}
           /\ \A j : j \in Owners' <=> j \in Owners \ {k}
           /\ \A j \in Owners : Dir(j)' = Dir(j)
           /\ \A j \in Owners \ {0} : HasStack(j)' <=> HasStack(j)
           /\ \A j \in Slots : used'[j] <=> (used[j] /\ j # k)
           /\ frameIndex' = [frameIndex EXCEPT ![k] = 0]
           /\ FreedFrames(k) \union vmm_free_dir(cr3[k]) \subseteq Owned(k) \union {0}
           /\ bitmap' \subseteq bitmap \ (FreedFrames(k) \union vmm_free_dir(cr3[k]))
           /\ bitmap \subseteq bitmap' \union FreedFrames(k) \union vmm_free_dir(cr3[k]) \union {0}
           /\ UNCHANGED <<memory, kernel_directory, vmm_cur_directory, cr3, frames, target,
                          stack, loaded>>
<1>1. /\ pc = "idle" /\ pc' = "idle" /\ k # 0 /\ used[k]
      /\ used' = [used EXCEPT ![k] = FALSE] /\ used \in [Slots -> BOOLEAN]
      /\ frameIndex' = [frameIndex EXCEPT ![k] = 0]
      /\ FreedFrames(k) \union vmm_free_dir(cr3[k]) \subseteq Owned(k) \union {0}
      /\ UNCHANGED <<memory, kernel_directory, vmm_cur_directory, cr3, frames, target,
                     stack, loaded>>
  BY DEF kill, Typed, Ranges
<1>2. PICK esp \in FreedStack :
         bitmap' = bitmap \ ((FreedFrames(k) \union vmm_free_dir(cr3[k])) \union esp)
  BY DEF kill
<1>3. esp \subseteq {0}
  BY DEF FreedStack
<1>4. \A j \in Slots : used'[j] <=> (used[j] /\ j # k)
  BY <1>1
<1>5. k \in Owners /\ \A j : j \in Owners' <=> j \in Owners \ {k}
  BY <1>1, <1>4 DEF Owners, Live
<1>6. /\ \A j \in Owners : Dir(j)' = Dir(j)
      /\ \A j \in Owners \ {0} : HasStack(j)' <=> HasStack(j)
  BY <1>1 DEF Dir, HasStack
<1>. QED  BY <1>1, <1>2, <1>3, <1>4, <1>5, <1>6

\* The victim's uses end, no others do.
LEMMA KillUses ==
    ASSUME Typed, Typed', Control, Sound, NEW k \in Slots, kill(k), ~strayFrees'
    PROVE  \A use : use \in Uses' <=> use \in Uses /\ use[1] # k
<1>1. UsesByKind /\ UsesByKind'
  BY UsesAreByKind, PTL
<1>2. /\ k \in Owners \ {0} /\ \A j : j \in Owners' <=> j \in Owners \ {k}
      /\ \A j \in Owners : Dir(j)' = Dir(j)
      /\ \A j \in Owners \ {0} : HasStack(j)' <=> HasStack(j)
      /\ \A j \in Owners \ {k} : frameIndex'[j] = frameIndex[j]
      /\ UNCHANGED <<memory, kernel_directory, frames, stack>>
  BY KillFacts, OwnerTypes DEF Typed, FramesTypeOK
<1>3. /\ \A j \in Owners : DirectoryUse(j)' = DirectoryUse(j)
      /\ \A j \in Owners, i \in Entries : TableUse(j, i)' = TableUse(j, i)
      /\ \A j \in Owners : \A i \in 0 .. frameIndex[j] - 1 : PageUse(j, i)' = PageUse(j, i)
      /\ \A j \in Owners : StackUse(j)' = StackUse(j)
      /\ \A i \in 0 .. KHEAP_PAGES - 1 : HeapUse(i)' = HeapUse(i)
      /\ \A i \in KernelImage : ImageUse(i)' = ImageUse(i)
  BY <1>2 DEF DirectoryUse, TableUse, PageUse, StackUse, HeapUse, ImageUse
<1>4. /\ \A j : DirectoryUse(j)[1] = j
      /\ \A j, i : TableUse(j, i)[1] = j /\ PageUse(j, i)[1] = j
      /\ \A j : StackUse(j)[1] = j
      /\ \A i : HeapUse(i)[1] = 0 /\ ImageUse(i)[1] = 0
  BY DEF DirectoryUse, TableUse, PageUse, StackUse, HeapUse, ImageUse
<1>. QED  BY <1>1, <1>2, <1>3, <1>4 DEF UsesByKind

\* kill, as long as it frees what the victim owns.
LEMMA KillStep ==
    ASSUME Typed, Typed', Control, Good, NEW k \in Slots, kill(k), ~strayFrees'
    PROVE  Good'
<1>1. Sound /\ KernelClean /\ Spaces
  BY DEF Good
<1>2. /\ pc = "idle" /\ pc' = "idle" /\ k \in Owners \ {0}
      /\ \A j \in Owners : Dir(j)' = Dir(j)
      /\ \A j \in Owners \ {0} : HasStack(j)' <=> HasStack(j)
      /\ \A j \in Slots : used'[j] <=> (used[j] /\ j # k)
      /\ frameIndex' = [frameIndex EXCEPT ![k] = 0]
      /\ FreedFrames(k) \union vmm_free_dir(cr3[k]) \subseteq Owned(k) \union {0}
      /\ bitmap \subseteq bitmap' \union FreedFrames(k) \union vmm_free_dir(cr3[k]) \union {0}
      /\ UNCHANGED <<memory, kernel_directory, vmm_cur_directory, cr3, frames, stack>>
  BY <1>1, KillFacts
<1>3. \A use : use \in Uses' <=> use \in Uses /\ use[1] # k
  BY <1>1, KillUses
<1>4. \A f \in Owned(k) \ {NONE} : \E use \in Uses : use[1] = k /\ FrameOf(use) = f
  <2>1. \A use \in UsesOf(k) : use[1] = k /\ (FrameOf(use) # NONE => use \in Uses)
    BY <1>2 DEF Uses, UsesOf, Owners
  <2>. QED  BY <2>1 DEF Owned
<1>5. Sound'
  <2>1. ASSUME NEW use \in Uses'
        PROVE  FrameOf(use) \in bitmap' \union KernelImage \union {0}
    <3>1. use \in Uses /\ use[1] # k /\ FrameOf(use) # NONE
      BY <1>3 DEF Uses
    <3>2. FrameOf(use) \notin Owned(k)
      BY <1>1, <1>4, <3>1 DEF Sound
    <3>3. FrameOf(use) \in bitmap \union KernelImage \union {0}
      BY <1>1, <3>1 DEF Sound
    <3>. QED  BY <1>2, <3>2, <3>3
  <2>. QED  BY <1>1, <1>3, <2>1 DEF Sound
<1>6. \A j \in Owners : Untouched(j)
  BY <1>2 DEF Untouched
<1>7. 0 \in Owners
  BY OwnerTypes
<1>8. KernelClean'
  BY <1>1, <1>2, <1>6, <1>7, CleanStays
<1>9. ASSUME NEW j \in Slots \ {0}, used'[j] PROVE UserSpace(j)' /\ KernelMapped(cr3[j])'
  <2>1. used[j] /\ j # k /\ j \in Owners \ {0}
    BY <1>2, <1>9 DEF Owners, Live
  <2>2. Own(j)' = Own(j)
    <3>1. frameIndex'[j] = frameIndex[j]
      BY <1>2, <2>1 DEF Typed, FramesTypeOK
    <3>. QED  BY <1>2, <2>1, <3>1 DEF Own
  <2>3. UserSpace(j) /\ KernelMapped(cr3[j])
    BY <1>1, <1>2, <2>1 DEF Spaces
  <2>. QED  BY <1>2, <1>6, <1>7, <2>1, <2>2, <2>3, SpaceStays
<1>10. KernelMapped(vmm_cur_directory)'
  BY <1>1, <1>2 DEF Spaces, KernelMapped
<1>. QED  BY <1>2, <1>5, <1>8, <1>9, <1>10 DEF Good, Spaces, LoadFits

-----------------------------------------------------------------------------
(* The steps that map a page for a process.                                *)

\* A frame f for page v of the new process T, which uses it as New says.
UserMaps(T, f, v, New) ==
    /\ pc = "pages" /\ pc' \in {"pages", "load", "panic"} /\ T = target
    /\ f = pmm_alloc_block(bitmap) /\ vmm_map_page(Taken(bitmap), f, v)
    /\ UNCHANGED <<kernel_directory, vmm_cur_directory, cr3, used>>
    /\ TasksKeep
    /\ \A k \in Owners' \ {0} : \A i \in 0 .. frameIndex'[k] - 1 :
         \/ i \in 0 .. frameIndex[k] - 1 /\ frames'[k][i] = frames[k][i]
         \/ PageUse(k, i)' \in New
    /\ \A k \in Owners' \ {0} : HasStack(k)' =>
         (HasStack(k) /\ stack'[k] = stack[k]) \/ StackUse(k)' \in New
    /\ \A use \in New : /\ FrameOf(use) = f /\ use[2] # "table"
                        /\ use \in Uses' /\ use \notin Uses
    /\ \A one, other \in New : one = other

\* One more page for a process: a page, perhaps a table, and no other change.
LEMMA UserMapStep ==
    ASSUME Typed, Typed', Control, Good, ~OutOfFrames',
           NEW T, NEW f, NEW v \in UserPages, NEW New, UserMaps(T, f, v, New)
    PROVE  /\ Sound' /\ KernelClean' /\ Uses \subseteq Uses'
           /\ New # {} => NothingLost
           /\ Lookup(memory', cr3[T], v) = f
           /\ \A w \in Pages \ {v} : Lookup(memory', cr3[T], w) = Lookup(memory, cr3[T], w)
           /\ \A k \in Owners \ {T} : Untouched(k)
           /\ KernelMapped(cr3[T])'
<1>0. PICK b, d, D, t : /\ b = Taken(bitmap) /\ d = cr3[T] /\ D = Directory(v)
                        /\ t = MapTable(b, v)
  OBVIOUS
<1>1. /\ pc = "pages" /\ pc' # "clone" /\ f = pmm_alloc_block(bitmap) /\ vmm_map_page(b, f, v)
      /\ UNCHANGED <<kernel_directory, vmm_cur_directory, cr3, used>>
      /\ T = target /\ T \in Slots \ {0} /\ used[T] /\ vmm_cur_directory = d /\ d \in bitmap
      /\ v \in Pages /\ cr3[0] = kernel_directory
  BY <1>0, SpacesArePages
     DEF UserMaps, Control, LaunchLabels, Booted, BootLabels, Typed, Ranges
<1>2. /\ T \in Owners /\ 0 \in Owners /\ Dir(T) = d /\ Dir(0) = kernel_directory
      /\ \A k : k \in Owners' <=> k \in Owners
      /\ \A k \in Owners : Dir(k)' = Dir(k)
  BY <1>0, <1>1, OwnerTypes DEF Owners, Live, Dir
<1>3. Sound /\ KernelClean /\ Spaces /\ Separate /\ TasksKeep /\ FramesTypeOK
  BY SoundSeparates DEF Good, Typed, UserMaps
<1>4. /\ bitmap \in SUBSET Frames /\ b \in SUBSET Frames /\ f \in Frames
      /\ bitmap \subseteq b /\ f \in b /\ b \subseteq bitmap \union {f} \union KernelImage
      /\ ~Full(bitmap) => f \notin bitmap \union KernelImage
  BY <1>0, <1>1, AllocFacts DEF Typed, FramesTypeOK
<1>5. /\ pmm_alloc_block(b) \in Taken(b) /\ b \subseteq Taken(b) /\ Taken(b) \in SUBSET Frames
      /\ Taken(b) \subseteq b \union {pmm_alloc_block(b)} \union KernelImage
      /\ ~Full(b) => pmm_alloc_block(b) \notin b \union KernelImage
      /\ Full(b) => Full(Taken(b))
  BY <1>4, AllocFacts, FullGrows
<1>6. /\ t \in Frames
      /\ bitmap' = IF memory[d][D] = NONE THEN Taken(b) ELSE b
      /\ t = IF memory[d][D] = NONE THEN pmm_alloc_block(b) ELSE memory[d][D]
      /\ t # d => MapsPage(f, v, t)
  BY <1>0, <1>1, <1>3, <1>4, MapEffect DEF MapTable
<1>7. ~Full(b) /\ ~Full(bitmap)
  <2>1. ~Full(bitmap')
    BY DEF OutOfFrames, Full
  <2>. QED  BY <1>4, <1>5, <1>6, <2>1 DEF Full
<1>8. /\ f \notin bitmap \union KernelImage
      /\ memory[d][D] = NONE => t \notin b \union KernelImage /\ t # f
      /\ bitmap \subseteq bitmap' /\ f \in bitmap'
      /\ memory[d][D] = NONE => t \in bitmap'
      /\ bitmap' \subseteq bitmap \union {f, t} \union KernelImage
  BY <1>4, <1>5, <1>6, <1>7
<1>9. D \in Entries
  BY <1>0, <1>1, PageFacts
<1>10. t # d
  BY <1>1, <1>2, <1>3, <1>4, <1>6, <1>8, <1>9 DEF Separate
<1>11. MemoryKeeps(t) /\ (memory[d][D] # NONE => \A h : MemoryKeeps(h))
  BY <1>0, <1>1, <1>2, <1>3, <1>4, <1>10, MapKeeps
<1>12. memory'[d][D] = t
  <2>1. memory[d] \in [Entries -> Frames \union {NONE}]
    BY <1>2, OwnerTypes
  <2>. QED  BY <1>0, <1>1, <1>6, <1>9, <1>10, <2>1 DEF MapsPage
<1>13. UsesByKind /\ UsesByKind'
  BY UsesAreByKind, PTL
<1>14. TableUse(T, D)' = <<T, "table", D, t>> /\ TableUse(T, D)' \in Uses'
  <2>1. TableUse(T, D)' = <<T, "table", D, t>>
    BY <1>2, <1>12 DEF TableUse
  <2>2. FrameOf(TableUse(T, D)') # NONE
    BY <1>6, <2>1, OwnerTypes DEF FrameOf
  <2>. QED  BY <1>2, <1>9, <1>13, <2>1, <2>2 DEF UsesByKind
<1>15. ASSUME memory[d][D] = NONE, NEW use \in Uses, FrameOf(use) = t PROVE FALSE
  <2>1. t = 0
    BY <1>3, <1>4, <1>8, <1>15, FreeIsUnused
  <2>2. use \in Uses'
    BY <1>3, <1>11, <1>15, UsePersists
  <2>3. use # TableUse(T, D)'
    BY <1>2, <1>6, <1>13, <1>14, <1>15, OwnerTypes
       DEF UsesByKind, DirectoryUse, TableUse, PageUse, StackUse, HeapUse, ImageUse
  <2>4. FrameOf(TableUse(T, D)') = t
    BY <1>14 DEF FrameOf
  <2>. QED  BY <1>14, <1>15, <2>1, <2>2, <2>3, <2>4, TwoZeros
<1>16. \A h : MemoryKeeps(h)
  BY <1>6, <1>11, <1>15, UnusedKeeps
<1>17. Uses \subseteq Uses'
  BY <1>3, <1>16, UsePersists
<1>18. ASSUME NEW new \in New, NEW use \in Uses, FrameOf(use) = f PROVE FALSE
  <2>1. f = 0
    BY <1>3, <1>8, <1>18, FreeIsUnused
  <2>2. new \in Uses' /\ new \notin Uses /\ FrameOf(new) = f
    BY DEF UserMaps
  <2>. QED  BY <1>17, <1>18, <2>1, <2>2, TwoZeros
<1>19. /\ Lookup(memory', d, v) = f
       /\ \A w \in Pages \ {v} : Lookup(memory', d, w) = Lookup(memory, d, w)
       /\ \A k \in Owners \ {T} : Untouched(k)
       /\ \A i \in Entries \ {D} : memory'[d][i] = memory[d][i]
  <2>1. /\ T \in Owners /\ vmm_cur_directory = Dir(T) /\ b \in SUBSET Frames /\ f \in Frames
        /\ v \in Pages /\ vmm_map_page(b, f, v) /\ t = MapTable(b, v)
    BY <1>0, <1>1, <1>2, <1>4
  <2>2. memory[Dir(T)][Directory(v)] = NONE => \A use \in Uses : FrameOf(use) # t
    BY <1>0, <1>2, <1>15
  <2>3. /\ Lookup(memory', Dir(T), v) = f
        /\ \A w \in Pages \ {v} : Lookup(memory', Dir(T), w) = Lookup(memory, Dir(T), w)
        /\ \A k \in Owners \ {T} : Untouched(k)
        /\ \A i \in Entries \ {Directory(v)} : memory'[Dir(T)][i] = memory[Dir(T)][i]
    BY <1>3, <2>1, <2>2, MapWell, SMTT(30)
  <2>. QED  BY <1>0, <1>2, <2>3
<1>20. PICK Two : Two = New \union (IF memory[d][D] = NONE THEN {TableUse(T, D)'} ELSE {})
  OBVIOUS
<1>21. \A use \in Uses' : use \in Uses \/ use \in Two
  <2>1. \A k \in Owners' : k \in Owners /\ Dir(k)' = Dir(k)
    BY <1>2
  <2>2. ASSUME NEW k \in Owners', NEW i \in Entries
        PROVE  \/ k \in Owners /\ memory'[Dir(k)'][i] = memory[Dir(k)][i]
               \/ TableUse(k, i)' \in Two
    <3>1. CASE k = T /\ i = D
      BY <1>2, <1>6, <1>12, <1>20, <3>1
    <3>2. CASE k = T /\ i # D
      BY <1>2, <1>19, <3>2
    <3>3. CASE k # T
      BY <1>2, <1>19, <3>3 DEF Untouched
    <3>. QED  BY <3>1, <3>2, <3>3
  <2>3. \A k \in Owners' \ {0} : \A i \in 0 .. frameIndex'[k] - 1 :
           \/ k \in Owners /\ i \in 0 .. frameIndex[k] - 1 /\ frames'[k][i] = frames[k][i]
           \/ PageUse(k, i)' \in Two
    BY <1>2, <1>20 DEF UserMaps
  <2>4. \A k \in Owners' \ {0} : HasStack(k)' =>
           (k \in Owners /\ HasStack(k) /\ stack'[k] = stack[k]) \/ StackUse(k)' \in Two
    BY <1>2, <1>20 DEF UserMaps
  <2>5. \A i \in 0 .. KHEAP_PAGES - 1 : HeapUse(i)' = HeapUse(i)
    BY <1>1, <1>2, <1>19, HeapStays
  <2>. QED  BY <2>1, <2>2, <2>3, <2>4, <2>5, UsesGrow
<1>22. \A use \in Two : \/ use \in New /\ FrameOf(use) = f
                        \/ use = TableUse(T, D)' /\ FrameOf(use) = t /\ memory[d][D] = NONE
  BY <1>14, <1>20 DEF UserMaps, FrameOf
<1>23. Sound'
  <2>1. \A use \in Two : /\ \A other \in Uses : FrameOf(use) # FrameOf(other)
                         /\ FrameOf(use) \in bitmap'
    BY <1>8, <1>15, <1>18, <1>22
  <2>2. \A one, other \in Two : FrameOf(one) = FrameOf(other) => one = other
    BY <1>8, <1>22 DEF UserMaps
  <2>. QED  BY <1>3, <1>8, <1>21, <2>1, <2>2, SoundGrows
<1>24. KernelClean'
  BY <1>1, <1>2, <1>3, <1>19, CleanStays
<1>25. New # {} => NothingLost
  <2>1. SUFFICES ASSUME NEW new \in New PROVE NothingLost
    OBVIOUS
  <2>2. new \in Uses' /\ FrameOf(new) = f
    BY DEF UserMaps
  <2>3. TableUse(T, D)' \in Uses' /\ FrameOf(TableUse(T, D)') = t
    BY <1>14 DEF FrameOf
  <2>. QED  BY <1>8, <1>17, <2>2, <2>3 DEF NothingLost
<1>26. KernelMapped(cr3[T])'
  <2>1. KernelMapped(cr3[T])
    BY <1>1, <1>3 DEF Spaces
  <2>2. \A w \in KernelSpace : w \in Pages \ {v}
    BY SpacesArePages
  <2>3. \A w \in Pages : Lookup(memory', kernel_directory, w) = Lookup(memory, kernel_directory, w)
    BY <1>1, <1>2, <1>19, UntouchedLookup
  <2>. QED  BY <1>0, <1>1, <1>19, <2>1, <2>2, <2>3 DEF KernelMapped
<1>. QED  BY <1>0, <1>17, <1>19, <1>23, <1>24, <1>25, <1>26

\* A load address lies in a page.
LEMMA LoadAddressType ==
    ASSUME NEW p \in Programs
    PROVE  LoadAddress(p) \div PAGE \in Int
<1>1. PAGE \in Nat \ {0} /\ ENTRIES \in Nat \ {0}
  BY FramesAssumption
<1>2. CASE p.kind = "raw"
  BY <1>1, <1>2 DEF LoadAddress
<1>3. CASE p.kind # "raw" /\ (~SupportedElf(p) \/ p.segments = {})
  <2>1. PICK e \in Nat : e = PAGE * ENTRIES * ENTRIES
    BY <1>1
  <2>. QED  BY <1>1, <1>3, <2>1 DEF LoadAddress, elf_get_load_addr
<1>4. CASE p.kind # "raw" /\ SupportedElf(p) /\ p.segments # {}
  <2>1. elf_get_load_addr(p) \in Nat
    BY <1>4, SegmentsLie
  <2>. QED  BY <1>1, <1>4, <2>1 DEF LoadAddress
<1>. QED  BY <1>2, <1>3, <1>4

\* A process keeps its pages.
LEMMA OwnGrows ==
    ASSUME Typed, Typed', TasksKeep, NEW k \in Owners \ {0}
    PROVE  Own(k) \subseteq Own(k)'
<1>1. frameIndex[k] \in Nat /\ frameIndex'[k] \in Nat /\ frameIndex[k] <= frameIndex'[k]
  BY OwnerTypes, FramesAssumption DEF Typed, FramesTypeOK, TasksKeep
<1>2. 0 .. frameIndex[k] - 1 \subseteq 0 .. frameIndex'[k] - 1
  BY <1>1
<1>. QED  BY <1>2 DEF Own, TasksKeep

\* The address spaces, when one more page is mapped for process T.
LEMMA UserMapSpaces ==
    ASSUME Typed, Typed', Control, Good, ~OutOfFrames',
           NEW T, NEW f, NEW v \in UserPages, NEW New, UserMaps(T, f, v, New),
           target' = target, f \in Own(T)' \/ pc' = "panic"
    PROVE  Spaces'
<1>1. /\ T = target /\ T \in Slots \ {0} /\ used[T] /\ vmm_cur_directory = cr3[T] /\ pc = "pages"
      /\ UNCHANGED <<kernel_directory, vmm_cur_directory, cr3, used, target>>
      /\ TasksKeep
  BY DEF UserMaps, Control, LaunchLabels, Typed, Ranges
<1>2. /\ \A w \in Pages \ {v} : Lookup(memory', cr3[T], w) = Lookup(memory, cr3[T], w)
      /\ Lookup(memory', cr3[T], v) = f
      /\ \A k \in Owners \ {T} : Untouched(k)
      /\ KernelMapped(cr3[T])'
  BY UserMapStep
<1>3. T \in Owners \ {0} /\ 0 \in Owners \ {T}
  BY <1>1, OwnerTypes DEF Owners, Live
<1>4. Spaces
  BY DEF Good
<1>5. ASSUME NEW k \in Slots \ {0}, used'[k]
      PROVE  UserSpace(k)' \/ (k = target' /\ pc' = "panic")
  <2>1. k \in Owners \ {0} /\ used[k] /\ UserSpace(k)
    BY <1>1, <1>4, <1>5 DEF Owners, Live, Spaces
  <2>2. Own(k) \subseteq Own(k)'
    BY <1>1, <2>1, OwnGrows
  <2>3. CASE k = T
    <3>1. SUFFICES ASSUME f \in Own(k)' PROVE UserSpace(k)'
      BY <1>1, <2>3
    <3>2. ASSUME NEW w \in UserPages
          PROVE  Lookup(memory', cr3[k], w) \in {NONE} \union Own(k)'
      <4>1. CASE w = v
        BY <1>2, <2>3, <3>1, <4>1
      <4>2. CASE w # v
        BY <1>2, <2>1, <2>2, <2>3, <4>2, SpacesArePages DEF UserSpace
      <4>. QED  BY <4>1, <4>2
    <3>. QED  BY <1>1, <3>2 DEF UserSpace
  <2>4. CASE k # T
    BY <1>1, <1>2, <1>3, <2>1, <2>2, <2>4, SpaceStays
  <2>. QED  BY <2>3, <2>4
<1>6. ASSUME NEW k \in Slots \ {0}, used'[k] PROVE KernelMapped(cr3[k])'
  <2>1. k \in Owners \ {0} /\ KernelMapped(cr3[k])
    BY <1>1, <1>4, <1>6 DEF Owners, Live, Spaces
  <2>. QED  BY <1>1, <1>2, <1>3, <2>1, SpaceStays
<1>7. KernelMapped(vmm_cur_directory)'
  BY <1>1, <1>2 DEF KernelMapped
<1>. QED  BY <1>5, <1>6, <1>7 DEF Spaces

\* A page of the program is mapped and registered, or one too many.
LEMMA MapProgramStep ==
    ASSUME Typed, Typed', Control, Good, ~OutOfFrames', MapProgram
    PROVE  Good' /\ (pc' # "panic" => NothingLost)
<1>0. PICK T, n, f, v, x, New :
        /\ T = target /\ n = at /\ f = pmm_alloc_block(bitmap)
        /\ v = LoadAddress(program) \div PAGE + at /\ x = frameIndex[target]
        /\ New = IF frameIndex[target] = TASK_MAX_FRAMES THEN {} ELSE {<<T, "page", x, f>>}
  OBVIOUS
<1>1. /\ pc = "pages" /\ n = at /\ n \in Nat /\ n < PagesOf(program) /\ program \in Programs
      /\ vmm_map_page(Taken(bitmap), f, v)
      /\ T = target /\ T \in Slots \ {0} /\ used[T] /\ ~loaded[T] /\ x = frameIndex[T]
      /\ vmm_cur_directory = cr3[T]
      /\ UNCHANGED <<kernel_directory, vmm_cur_directory, runningTask, used, cr3, target,
                     program, stack, loaded>>
  BY <1>0 DEF MapProgram, Control, LaunchLabels, Typed, Ranges, history
<1>2. /\ frames \in [Slots -> [0 .. TASK_MAX_FRAMES -> Frames]]
      /\ frameIndex \in [Slots -> 0 .. TASK_MAX_FRAMES] /\ TASK_MAX_FRAMES \in Nat
      /\ bitmap \in SUBSET Frames /\ f \in Frames
  BY <1>0, FramesAssumption, AllocFacts DEF Typed, FramesTypeOK
<1>3. /\ x \in 0 .. TASK_MAX_FRAMES
      /\ \/ x = TASK_MAX_FRAMES /\ New = {} /\ pc' = "panic" /\ UNCHANGED <<frames, frameIndex>>
         \/ /\ x # TASK_MAX_FRAMES /\ New = {<<T, "page", x, f>>}
            /\ pc' = "pages" /\ at' = n + 1
            /\ frames' = [frames EXCEPT ![T][x] = f]
            /\ frameIndex' = [frameIndex EXCEPT ![T] = x + 1]
  BY <1>0, <1>1, <1>2 DEF MapProgram, task_register_frame, Register, Again
<1>4. /\ \A k \in Slots \ {T} : frames'[k] = frames[k] /\ frameIndex'[k] = frameIndex[k]
      /\ \A i \in 0 .. x - 1 : frames'[T][i] = frames[T][i]
      /\ \/ frameIndex'[T] = x /\ New = {} /\ pc' = "panic"
         \/ /\ frameIndex'[T] = x + 1 /\ frames'[T][x] = f /\ New = {<<T, "page", x, f>>}
            /\ pc' = "pages" /\ at' = n + 1
  BY <1>1, <1>2, <1>3
<1>5. /\ T \in Owners \ {0} /\ 0 \in Owners
      /\ \A k : k \in Owners' <=> k \in Owners
      /\ \A k \in Owners : Dir(k)' = Dir(k) /\ k \in Slots
      /\ \A k \in Owners \ {0} : HasStack(k)' <=> HasStack(k)
  BY <1>1, <1>4, OwnerTypes DEF Owners, Live, Dir, HasStack
<1>6. TasksKeep
  <2>1. ASSUME NEW k \in Owners \ {0}
        PROVE  /\ frameIndex[k] <= frameIndex'[k]
               /\ \A i \in 0 .. frameIndex[k] - 1 : frames'[k][i] = frames[k][i]
    BY <1>1, <1>2, <1>3, <1>4, <1>5
  <2>. QED  BY <1>1, <1>5, <2>1 DEF TasksKeep
<1>7. \A k \in Owners' \ {0} : \A i \in 0 .. frameIndex'[k] - 1 :
         \/ i \in 0 .. frameIndex[k] - 1 /\ frames'[k][i] = frames[k][i]
         \/ PageUse(k, i)' \in New
  <2>. SUFFICES ASSUME NEW k \in Owners \ {0}, NEW i \in 0 .. frameIndex'[k] - 1
                PROVE  \/ i \in 0 .. frameIndex[k] - 1 /\ frames'[k][i] = frames[k][i]
                       \/ PageUse(k, i)' \in New
    BY <1>5
  <2>1. CASE k # T
    BY <1>4, <1>5, <2>1
  <2>2. CASE k = T /\ i \in 0 .. x - 1
    BY <1>1, <1>4, <2>2
  <2>3. CASE k = T /\ i \notin 0 .. x - 1
    BY <1>3, <1>4, <2>3 DEF PageUse
  <2>. QED  BY <2>1, <2>2, <2>3
<1>8. UsesByKind /\ UsesByKind'
  BY UsesAreByKind, PTL
<1>9. ASSUME NEW use \in New
      PROVE  /\ FrameOf(use) = f /\ use[2] # "table" /\ use \in Uses' /\ use \notin Uses
  <2>1. use = <<T, "page", x, f>> /\ frameIndex'[T] = x + 1 /\ frames'[T][x] = f
    BY <1>4
  <2>2. use = PageUse(T, x)' /\ x \in 0 .. frameIndex'[T] - 1 /\ FrameOf(use) = f
    BY <1>3, <2>1 DEF PageUse, FrameOf
  <2>3. use \in Uses'
    BY <1>2, <1>5, <1>8, <2>2, OwnerTypes DEF UsesByKind
  <2>4. use \notin Uses
    BY <1>1, <1>3, <1>8, <2>1
       DEF UsesByKind, DirectoryUse, TableUse, PageUse, StackUse, HeapUse, ImageUse
  <2>. QED  BY <2>1, <2>2, <2>3, <2>4
<1>10. UserMaps(T, f, v, New)
  <2>1. \A one, other \in New : one = other
    BY <1>4
  <2>2. \A k \in Owners' \ {0} : HasStack(k)' => HasStack(k) /\ stack'[k] = stack[k]
    BY <1>1, <1>5
  <2>3. pc' \in {"pages", "load", "panic"}
    BY <1>4
  <2>. QED  BY <1>0, <1>1, <1>6, <1>7, <1>9, <2>1, <2>2, <2>3 DEF UserMaps
<1>11. v \in UserPages /\ \A j \in 0 .. n : LoadAddress(program) \div PAGE + j \in Pages
  BY <1>0, <1>1, ProgramPages, SpacesArePages
<1>12. f \in Own(T)' \/ pc' = "panic"
  BY <1>3, <1>4 DEF Own
<1>13. Spaces'
  BY <1>1, <1>10, <1>11, <1>12, UserMapSpaces
<1>14. /\ Sound' /\ KernelClean' /\ (New # {} => NothingLost)
       /\ Lookup(memory', cr3[T], v) = f
       /\ \A w \in Pages \ {v} : Lookup(memory', cr3[T], w) = Lookup(memory, cr3[T], w)
  BY <1>10, <1>11, UserMapStep
<1>15. pc' = "pages" => Mapped(at)'
  <2>. SUFFICES ASSUME at' = n + 1, NEW j \in 0 .. n
                PROVE  Lookup(memory', cr3[T], LoadAddress(program) \div PAGE + j) # NONE
    BY <1>1, <1>4 DEF Mapped
  <2>1. CASE j = n
    BY <1>0, <1>2, <1>14, <2>1 DEF Frames, NONE
  <2>2. CASE j # n
    <3>1. PICK w : w = LoadAddress(program) \div PAGE + j
      OBVIOUS
    <3>2. j \in 0 .. n - 1 /\ w \in Pages
      BY <1>1, <1>11, <2>2, <3>1
    <3>3. Lookup(memory, cr3[T], w) # NONE
      BY <1>1, <3>1, <3>2 DEF Good, Mapped
    <3>4. w # v
      <4>1. LoadAddress(program) \div PAGE \in Int
        BY <1>1, LoadAddressType
      <4>. QED  BY <1>0, <1>1, <3>1, <3>2, <4>1
    <3>. QED  BY <1>14, <3>1, <3>2, <3>3, <3>4
  <2>. QED  BY <2>1, <2>2
<1>. QED  BY <1>4, <1>13, <1>14, <1>15 DEF Good, LoadFits

\* The stack's page is mapped.
LEMMA MapStackStep ==
    ASSUME Typed, Typed', Control, Good, ~OutOfFrames', MapStack
    PROVE  Good' /\ NothingLost
<1>0. PICK T, f, New :
        T = target /\ f = pmm_alloc_block(bitmap) /\ New = {<<target, "stack", 0, f>>}
  OBVIOUS
<1>1. /\ pc = "pages" /\ pc' = "load" /\ at = PagesOf(program) /\ program \in Programs
      /\ vmm_map_page(Taken(bitmap), f, 0)
      /\ T = target /\ T \in Slots \ {0} /\ used[T] /\ ~loaded[T]
      /\ stack' = [stack EXCEPT ![T] = f] /\ stack \in [Slots -> Frames]
      /\ vmm_cur_directory = cr3[T]
      /\ UNCHANGED <<kernel_directory, vmm_cur_directory, runningTask, used, cr3, frames,
                     frameIndex, target, program, loaded>>
  BY <1>0 DEF MapStack, Goto, Control, LaunchLabels, Typed, Ranges, taskVars
<1>2. bitmap \in SUBSET Frames /\ f \in Frames
  BY <1>0, AllocFacts DEF Typed, FramesTypeOK
<1>3. stack'[T] = f /\ \A k \in Slots \ {T} : stack'[k] = stack[k]
  BY <1>1
<1>4. /\ T \in Owners \ {0} /\ 0 \in Owners
      /\ \A k : k \in Owners' <=> k \in Owners
      /\ \A k \in Owners : Dir(k)' = Dir(k) /\ k \in Slots
      /\ \A k \in Owners \ {0, T} : HasStack(k)' <=> HasStack(k)
      /\ HasStack(T)' /\ ~HasStack(T)
  BY <1>1, OwnerTypes DEF Owners, Live, Dir, HasStack
<1>5. TasksKeep
  BY <1>1, <1>3, <1>4, FramesAssumption DEF TasksKeep, Typed, FramesTypeOK
<1>6. UsesByKind /\ UsesByKind'
  BY UsesAreByKind, PTL
<1>7. ASSUME NEW use \in New
      PROVE  /\ FrameOf(use) = f /\ use[2] # "table" /\ use \in Uses' /\ use \notin Uses
  <2>1. use = <<T, "stack", 0, f>>
    BY <1>0
  <2>2. use = StackUse(T)' /\ FrameOf(use) = f
    BY <1>3, <2>1 DEF StackUse, FrameOf
  <2>3. use \in Uses'
    BY <1>2, <1>4, <1>6, <2>2, OwnerTypes DEF UsesByKind
  <2>4. use \notin Uses
    BY <1>4, <1>6, <2>1
       DEF UsesByKind, DirectoryUse, TableUse, PageUse, StackUse, HeapUse, ImageUse
  <2>. QED  BY <2>1, <2>2, <2>3, <2>4
<1>8. UserMaps(T, f, 0, New)
  <2>1. \A one, other \in New : one = other
    BY <1>0
  <2>2. \A k \in Owners' \ {0} : HasStack(k)' =>
           (HasStack(k) /\ stack'[k] = stack[k]) \/ StackUse(k)' \in New
    BY <1>0, <1>1, <1>3, <1>4 DEF StackUse
  <2>3. \A k \in Owners' \ {0} : \A i \in 0 .. frameIndex'[k] - 1 :
           i \in 0 .. frameIndex[k] - 1 /\ frames'[k][i] = frames[k][i]
    BY <1>1
  <2>. QED  BY <1>0, <1>1, <1>5, <1>7, <2>1, <2>2, <2>3 DEF UserMaps
<1>9. 0 \in UserPages
  BY FramesAssumption DEF UserPages
<1>10. f \in Own(T)' /\ New # {}
  BY <1>0, <1>3, <1>4 DEF Own
<1>11. Spaces'
  BY <1>1, <1>8, <1>9, <1>10, UserMapSpaces
<1>12. /\ Sound' /\ KernelClean' /\ NothingLost
       /\ Lookup(memory', cr3[T], 0) = f
       /\ \A w \in Pages \ {0} : Lookup(memory', cr3[T], w) = Lookup(memory, cr3[T], w)
  BY <1>8, <1>9, <1>10, UserMapStep
<1>13. Mapped(PagesOf(program))'
  <2>. SUFFICES ASSUME NEW j \in 0 .. PagesOf(program) - 1
                PROVE  Lookup(memory', cr3[T], LoadAddress(program) \div PAGE + j) # NONE
    BY <1>1 DEF Mapped
  <2>1. PICK w : w = LoadAddress(program) \div PAGE + j
    OBVIOUS
  <2>2. w \in Pages
    BY <1>1, <2>1, ProgramPages, SpacesArePages
  <2>3. Lookup(memory, cr3[T], w) # NONE
    BY <1>1, <2>1 DEF Good, Mapped
  <2>4. CASE w = 0
    BY <1>2, <1>12, <2>1, <2>4 DEF Frames, NONE
  <2>5. CASE w # 0
    BY <1>12, <2>1, <2>2, <2>3, <2>5
  <2>. QED  BY <2>4, <2>5
<1>. QED  BY <1>1, <1>11, <1>12, <1>13 DEF Good, LoadFits

-----------------------------------------------------------------------------
(* The steps of the boot.                                                  *)

\* Before there are processes a frame that was free is not frame 0.
LEMMA BootOwners ==
    ASSUME Typed, Control, ~Booted
    PROVE  Owners = {0} /\ 0 \in bitmap /\ vmm_cur_directory = Dir(0)
BY DEF Control, Booted, BootLabels, Owners, Live, Dir

\* At first the kernel's image is all there is.
LEMMA InitSound == FramesInit => Sound /\ KernelClean
<1>. SUFFICES ASSUME FramesInit PROVE Sound /\ KernelClean
  OBVIOUS
<1>1. Typed /\ Control
  BY TypedInit, ControlInit
<1>2. Owners = {0} /\ kernel_directory = 0 /\ UsesByKind
  <2>1. ~Booted
    BY DEF FramesInit, Booted, BootLabels
  <2>. QED  BY <1>1, <2>1, BootOwners, UsesAreByKind DEF FramesInit
<1>3. \A v \in Pages : Lookup(memory, 0, v) = NONE
  BY PageFacts, FramesAssumption DEF FramesInit, Lookup, Blank, Frames
<1>4. \A i \in Entries : memory[0][i] = NONE
  BY FramesAssumption DEF FramesInit, Blank, Frames
<1>5. ASSUME NEW use \in Uses
      PROVE  use = <<0, "directory", 0, 0>> \/ \E i \in KernelImage : use = ImageUse(i)
  <2>1. \A i \in 0 .. KHEAP_PAGES - 1 : FrameOf(HeapUse(i)) = NONE
    BY <1>2, <1>3, KernelPages, SpacesArePages DEF HeapUse, FrameOf
  <2>2. \A i \in Entries : FrameOf(TableUse(0, i)) = NONE
    BY <1>2, <1>4 DEF TableUse, Dir, FrameOf
  <2>. QED  BY <1>2, <2>1, <2>2 DEF UsesByKind, DirectoryUse, Dir
<1>6. Sound
  <2>1. 0 \notin KernelImage
    BY FramesAssumption
  <2>. QED  BY <1>5, <2>1 DEF Sound, ImageUse, FrameOf
<1>7. KernelClean
  BY <1>2, <1>3, SpacesArePages DEF KernelClean
<1>. QED  BY <1>6, <1>7

\* init_vmm: the kernel's directory.
LEMMA InitVmmStep ==
    ASSUME Typed, Typed', Control, Control', Sound, KernelClean, init_vmm, ~Full(bitmap)
    PROVE  Sound' /\ KernelClean'
<1>0. PICK f : f = pmm_alloc_block(bitmap)
  OBVIOUS
<1>1. /\ pc = "init_vmm" /\ pc' = "kernel_pages"
      /\ bitmap' = Taken(bitmap) /\ memory' = [memory EXCEPT ![f] = Blank]
      /\ kernel_directory' = f
      /\ UNCHANGED <<frames, frameIndex, stack, loaded, used>>
  BY <1>0 DEF init_vmm, NewDirectory, Cleared, Goto, taskVars, history
<1>2. /\ bitmap \in SUBSET Frames /\ f \in Frames /\ f \notin bitmap \union KernelImage
      /\ bitmap \subseteq bitmap' /\ f \in bitmap'
  BY <1>0, <1>1, AllocFacts DEF Typed, FramesTypeOK
<1>3. Owners = {0} /\ Owners' = {0} /\ 0 \in bitmap /\ Dir(0)' = f
  BY <1>1, BootOwners DEF Booted, BootLabels, Control, Owners, Live, Dir
<1>4. memory'[f] = Blank
  BY <1>1, <1>2 DEF Typed, FramesTypeOK
<1>5. \A v \in Pages : Lookup(memory', f, v) = NONE
  BY <1>4, PageFacts DEF Lookup, Blank
<1>6. PICK New : New = {<<0, "directory", 0, f>>}
  OBVIOUS
<1>7. \A use \in Uses' : use \in Uses \/ use \in New
  <2>1. \A k \in Owners' : DirectoryUse(k)' \in New
    BY <1>3, <1>6 DEF DirectoryUse
  <2>2. \A k \in Owners', i \in Entries : memory'[Dir(k)'][i] = NONE
    BY <1>3, <1>4 DEF Blank
  <2>3. \A i \in 0 .. KHEAP_PAGES - 1 : FrameOf(HeapUse(i)') = NONE
    BY <1>1, <1>5, KernelPages, SpacesArePages DEF HeapUse, FrameOf
  <2>. QED  BY <1>3, <2>1, <2>2, <2>3, UsesGrow
<1>8. \A use \in New : FrameOf(use) = f
  BY <1>6 DEF FrameOf
<1>9. Sound'
  <2>1. \A use \in Uses : FrameOf(use) # f
    BY <1>2, <1>3, FreeIsUnused
  <2>. QED  BY <1>2, <1>6, <1>7, <1>8, <2>1, SoundGrows
<1>10. KernelClean'
  BY <1>1, <1>5, SpacesArePages DEF KernelClean
<1>. QED  BY <1>9, <1>10

\* A frame f for page v of the kernel; if it is a heap page, New is its use.
BootMaps(b, f, v, New) ==
    /\ b \in SUBSET Frames /\ bitmap \subseteq b /\ f \in Frames /\ v \in KernelSpace
    /\ vmm_map_page(b, f, v) /\ kernel_directory' = kernel_directory
    /\ pc \in BootLabels /\ pc' \in BootLabels
    /\ \A i \in 0 .. KHEAP_PAGES - 1 : KHEAP_START + i = v => <<0, "heap", i, f>> \in New
    /\ \A use \in New : FrameOf(use) = f /\ f \in b /\ f \notin bitmap \union KernelImage
    /\ \A one, other \in New : one = other

\* A page is mapped for the kernel, or its heap.
LEMMA BootMapStep ==
    ASSUME Typed, Typed', Control, Control', Sound, KernelClean, ~Full(bitmap'),
           NEW b, NEW f, NEW v, NEW New, BootMaps(b, f, v, New)
    PROVE  Sound' /\ KernelClean'
<1>. /\ b \in SUBSET Frames /\ bitmap \subseteq b /\ f \in Frames /\ v \in KernelSpace
     /\ vmm_map_page(b, f, v) /\ kernel_directory' = kernel_directory
     /\ ~Booted /\ ~Booted'
     /\ \A i \in 0 .. KHEAP_PAGES - 1 : KHEAP_START + i = v => <<0, "heap", i, f>> \in New
     /\ \A use \in New : FrameOf(use) = f /\ f \in b /\ f \notin bitmap \union KernelImage
     /\ \A one, other \in New : one = other
  BY DEF BootMaps, Booted
<1>0. PICK d, D, t : d = kernel_directory /\ D = Directory(v) /\ t = MapTable(b, v)
  OBVIOUS
<1>1. /\ Owners = {0} /\ Owners' = {0} /\ 0 \in bitmap /\ vmm_cur_directory = d
      /\ Dir(0) = d /\ Dir(0)' = d /\ Separate /\ FramesTypeOK /\ v \in Pages /\ D \in Entries
      /\ kernel_directory = d /\ kernel_directory' = d
  <2>1. Owners' = {0}
    BY DEF Control, Booted, BootLabels, Owners, Live
  <2>. QED  BY <1>0, <2>1, BootOwners, SoundSeparates, SpacesArePages, PageFacts DEF Dir, Typed
<1>2. /\ t \in Frames
      /\ bitmap' = IF memory[d][D] = NONE THEN Taken(b) ELSE b
      /\ t = IF memory[d][D] = NONE THEN pmm_alloc_block(b) ELSE memory[d][D]
  <2>1. /\ MapTable(b, v) \in Frames
        /\ bitmap' = IF memory[vmm_cur_directory][Directory(v)] = NONE THEN Taken(b) ELSE b
    BY <1>1, MapEffect
  <2>. QED  BY <1>0, <1>1, <2>1 DEF MapTable
<1>3. /\ bitmap \subseteq bitmap' /\ b \subseteq bitmap'
      /\ memory[d][D] = NONE => t \in bitmap' /\ t \notin b \union KernelImage /\ t # 0
  BY <1>1, <1>2, AllocFacts DEF Full
<1>4. memory[d][D] = NONE => \A use \in Uses : FrameOf(use) # t
  BY <1>3, FreeIsUnused
<1>5. /\ Lookup(memory', d, v) = f
      /\ \A w \in Pages \ {v} : Lookup(memory', d, w) = Lookup(memory, d, w)
      /\ \A i \in Entries \ {D} : memory'[d][i] = memory[d][i]
      /\ memory'[d][D] = t
  <2>1. /\ vmm_cur_directory = Dir(0) /\ 0 \in Owners
        /\ memory[Dir(0)][Directory(v)] = NONE => \A use \in Uses : FrameOf(use) # t
    BY <1>0, <1>1, <1>4
  <2>2. /\ Lookup(memory', Dir(0), v) = f
        /\ \A w \in Pages \ {v} : Lookup(memory', Dir(0), w) = Lookup(memory, Dir(0), w)
        /\ \A i \in Entries \ {Directory(v)} : memory'[Dir(0)][i] = memory[Dir(0)][i]
        /\ memory'[Dir(0)][Directory(v)] = t
    BY <1>0, <1>1, <2>1, MapWell
  <2>. QED  BY <1>0, <1>1, <2>2
<1>6. PICK All : All = New \union (IF memory[d][D] = NONE THEN {<<0, "table", D, t>>} ELSE {})
  OBVIOUS
<1>7. \A use \in Uses' : use \in Uses \/ use \in All
  <2>1. \A k \in Owners' : k \in Owners /\ Dir(k)' = Dir(k)
    BY <1>1
  <2>2. \A k \in Owners', i \in Entries :
           \/ k \in Owners /\ memory'[Dir(k)'][i] = memory[Dir(k)][i]
           \/ TableUse(k, i)' \in All
    BY <1>1, <1>2, <1>5, <1>6 DEF TableUse
  <2>3. ASSUME NEW i \in 0 .. KHEAP_PAGES - 1
        PROVE  HeapUse(i)' = HeapUse(i) \/ HeapUse(i)' \in All
    <3>1. PICK w : w = KHEAP_START + i
      OBVIOUS
    <3>2. w \in Pages
      BY <3>1, KernelPages, SpacesArePages
    <3>3. CASE w = v
      BY <1>1, <1>5, <1>6, <3>1, <3>3 DEF HeapUse
    <3>4. CASE w # v
      BY <1>1, <1>5, <3>1, <3>2, <3>4 DEF HeapUse
    <3>. QED  BY <3>3, <3>4
  <2>. QED  BY <1>1, <2>1, <2>2, <2>3, UsesGrow
<1>8. \A use \in All : \/ use \in New /\ FrameOf(use) = f
                       \/ use = <<0, "table", D, t>> /\ FrameOf(use) = t /\ memory[d][D] = NONE
  BY <1>6 DEF FrameOf
<1>9. New # {} => f # 0 /\ f \in bitmap' /\ f \in b /\ \A use \in Uses : FrameOf(use) # f
  BY <1>1, <1>3, FreeIsUnused
<1>10. Sound'
  <2>1. \A use \in All : /\ \A other \in Uses : FrameOf(use) # FrameOf(other)
                         /\ FrameOf(use) \in bitmap'
    BY <1>3, <1>4, <1>8, <1>9
  <2>2. \A one, other \in All : FrameOf(one) = FrameOf(other) => one = other
    BY <1>3, <1>8, <1>9
  <2>. QED  BY <1>3, <1>7, <2>1, <2>2, SoundGrows
<1>11. KernelClean'
  <2>1. \A w \in UserPages : w \in Pages \ {v}
    BY SpacesArePages
  <2>. QED  BY <1>1, <1>5, <2>1 DEF KernelClean
<1>. QED  BY <1>10, <1>11

\* The boot's steps that map nothing.
LEMMA BootQuietStep ==
    ASSUME Typed, Typed', Control, Control', ~Booted, Sound, KernelClean,
           pc' \in BootLabels \union {"idle"},
           UNCHANGED <<memory, bitmap, kernel_directory, used>>
    PROVE  Sound' /\ KernelClean'
<1>1. Owners = {0} /\ Owners' = {0}
  BY BootOwners DEF Control, Booted, BootLabels, Owners, Live
<1>2. Dir(0)' = Dir(0) /\ Untouched(0)
  BY DEF Dir, Untouched
<1>. QED  BY <1>1, <1>2, QuietStep

\* A step of the boot, while frames are free.
LEMMA BootStep ==
    ASSUME Typed, Typed', Control, Control', Sound, KernelClean, Boot, ~Booted, ~Full(bitmap'),
           ~Full(bitmap)
    PROVE  Sound' /\ KernelClean'
<1>0. bitmap \in SUBSET Frames
  BY DEF Typed, FramesTypeOK
<1>1. CASE init_vmm
  BY <1>1, InitVmmStep
<1>2. CASE MapKernel
  <2>1. CASE at < KERNEL_PAGES
    <3>1. at \in 0 .. KERNEL_PAGES - 1
      BY <2>1, FramesAssumption DEF Typed, Ranges
    <3>2. PICK f, v : f = at /\ v = KERNEL_VBASE + at
      OBVIOUS
    <3>3. /\ f \in Frames /\ v \in KernelSpace /\ vmm_map_page(bitmap, f, v)
          /\ kernel_directory' = kernel_directory /\ pc \in BootLabels /\ pc' \in BootLabels
      BY <1>2, <2>1, <3>1, <3>2, KernelPages DEF MapKernel, Again, BootLabels
    <3>4. \A i \in 0 .. KHEAP_PAGES - 1 : KHEAP_START + i # v
      BY <3>1, <3>2, FramesAssumption, LayoutAssumption
    <3>5. BootMaps(bitmap, f, v, {})
      BY <1>0, <3>3, <3>4 DEF BootMaps
    <3>. QED  BY <3>5, BootMapStep
  <2>2. CASE ~(at < KERNEL_PAGES)
    <3>1. /\ pc' \in BootLabels \union {"idle"}
          /\ UNCHANGED <<memory, bitmap, kernel_directory, used>>
      BY <1>2, <2>2 DEF MapKernel, Goto, memVars, taskVars, BootLabels
    <3>. QED  BY <3>1, BootQuietStep
  <2>. QED  BY <2>1, <2>2
<1>3. CASE init_heap
  <2>1. CASE at < KHEAP_PAGES
    <3>1. PICK n, b, f, v, New :
            /\ n = at /\ b = Taken(bitmap) /\ f = pmm_alloc_block(bitmap)
            /\ v = KHEAP_START + n /\ New = {<<0, "heap", n, f>>}
      OBVIOUS
    <3>2. n \in 0 .. KHEAP_PAGES - 1
      BY <2>1, <3>1, FramesAssumption DEF Typed, Ranges
    <3>3. /\ vmm_map_page(b, f, v) /\ v \in KernelSpace
          /\ kernel_directory' = kernel_directory /\ pc \in BootLabels /\ pc' \in BootLabels
      BY <1>3, <2>1, <3>1, <3>2, KernelPages DEF init_heap, Again, BootLabels
    <3>4. /\ b \in SUBSET Frames /\ bitmap \subseteq b /\ f \in Frames
          /\ f \in b /\ f \notin bitmap \union KernelImage
      BY <1>0, <3>1, AllocFacts
    <3>5. \A i \in 0 .. KHEAP_PAGES - 1 : KHEAP_START + i = v => <<0, "heap", i, f>> \in New
      <4>1. KHEAP_START \in Int
        BY FramesAssumption
      <4>2. \A i \in 0 .. KHEAP_PAGES - 1 : KHEAP_START + i = v => i = n
        BY <3>1, <3>2, <4>1
      <4>. QED  BY <3>1, <4>2
    <3>6. /\ \A use \in New : FrameOf(use) = f /\ f \in b /\ f \notin bitmap \union KernelImage
          /\ \A one, other \in New : one = other
      BY <3>1, <3>4 DEF FrameOf
    <3>7. BootMaps(b, f, v, New)
      BY <3>3, <3>4, <3>5, <3>6 DEF BootMaps
    <3>. QED  BY <3>7, BootMapStep
  <2>2. CASE ~(at < KHEAP_PAGES)
    <3>1. /\ pc' \in BootLabels \union {"idle"}
          /\ UNCHANGED <<memory, bitmap, kernel_directory, used>>
      BY <1>3, <2>2 DEF init_heap, Goto, memVars
    <3>. QED  BY <3>1, BootQuietStep
  <2>. QED  BY <2>1, <2>2
<1>. QED  BY <1>1, <1>2, <1>3 DEF Boot

\* A full memory stays full while the kernel boots.
LEMMA BootGrows ==
    ASSUME Typed, Boot
    PROVE  bitmap \subseteq bitmap'
<1>1. /\ bitmap \in SUBSET Frames /\ Taken(bitmap) \in SUBSET Frames
      /\ bitmap \subseteq Taken(bitmap)
  BY AllocFacts DEF Typed, FramesTypeOK
<1>2. CASE init_vmm
  BY <1>1, <1>2 DEF init_vmm, NewDirectory
<1>3. CASE MapKernel
  BY <1>1, <1>3, BitmapGrows DEF MapKernel, memVars
<1>4. CASE init_heap
  BY <1>1, <1>4, BitmapGrows DEF init_heap, memVars
<1>. QED  BY <1>2, <1>3, <1>4 DEF Boot

-----------------------------------------------------------------------------
(* The induction, and the properties that follow from it.                  *)

\* The inductive invariant holds at first,
LEMMA InvInit == FramesInit => FramesInv
<1>. SUFFICES ASSUME FramesInit PROVE FramesInv
  OBVIOUS
<1>1. ~Booted
  BY DEF FramesInit, Booted, BootLabels
<1>. QED  BY <1>1, TypedInit, ControlInit, InitSound DEF FramesInv

\* The steps after the boot.
LEMMA LaunchOrRunStep ==
    ASSUME Typed, Typed', Control, Good, ~OutOfFrames', ~strayFrees', Launch \/ Run
    PROVE  /\ Good'
           /\ pc' # "panic" => NothingLost \/ \E k \in Slots : kill(k)
<1>1. CASE Launch
  BY <1>1, CreateStep, CloneStep, CreateTaskStep, MapProgramStep, MapStackStep, LoadStep DEF Launch
<1>2. CASE Run
  BY <1>2, StoreStep, SwitchStep, KillStep DEF Run
<1>. QED  BY <1>1, <1>2

\* When nothing changes.
LEMMA Stutter ==
    ASSUME FramesInv, Typed', Control', UNCHANGED framesVars
    PROVE  FramesInv'
<1>1. /\ UNCHANGED <<bitmap, memory, kernel_directory, vmm_cur_directory, used, cr3, frames,
                     frameIndex, pc, at, target, program, stack, loaded, strayFrees, ranOut>>
  BY DEF framesVars, memVars, taskVars, history
<1>2. Uses' = Uses
  BY <1>1 DEF Uses, KernelUses, UsesOf, Live, HasStack, Translate
<1>3. OutOfFrames' <=> OutOfFrames
  BY <1>1, <1>2 DEF OutOfFrames
<1>4. Sound' <=> Sound
  BY <1>1, <1>2 DEF Sound
<1>5. KernelClean' <=> KernelClean
  BY <1>1 DEF KernelClean
<1>6. Spaces' <=> Spaces
  <2>1. \A k : UserSpace(k)' <=> UserSpace(k)
    BY <1>1 DEF UserSpace, Own, HasStack
  <2>2. \A k : KernelMapped(cr3[k])' <=> KernelMapped(cr3[k])
    BY <1>1 DEF KernelMapped
  <2>3. KernelMapped(vmm_cur_directory)' <=> KernelMapped(vmm_cur_directory)
    BY <1>1 DEF KernelMapped
  <2>. QED  BY <1>1, <2>1, <2>2, <2>3 DEF Spaces
<1>7. /\ Copied(at)' <=> Copied(at)
      /\ Mapped(at)' <=> Mapped(at)
      /\ Mapped(PagesOf(program))' <=> Mapped(PagesOf(program))
      /\ LoadFits' <=> LoadFits
  BY <1>1 DEF Copied, Mapped, LoadFits, Excused
<1>8. Good' <=> Good
  BY <1>1, <1>4, <1>5, <1>6, <1>7 DEF Good
<1>. QED  BY <1>1, <1>3, <1>4, <1>5, <1>8 DEF FramesInv, Booted, Excused, Full

\* and every step keeps it.
LEMMA InvNext == FramesInv /\ [FramesNext]_framesVars => FramesInv'
<1>. SUFFICES ASSUME FramesInv, [FramesNext]_framesVars PROVE FramesInv'
  OBVIOUS
<1>1. Typed /\ Control /\ Typed' /\ Control'
  BY TypedNext, ControlNext DEF FramesInv
<1>2. CASE UNCHANGED framesVars
  BY <1>1, <1>2, Stutter
<1>. SUFFICES ASSUME FramesNext PROVE FramesInv'
  BY <1>2
<1>3. /\ ~strayFrees /\ ~ranOut
      /\ Boot \/ Launch \/ Run
      /\ ranOut' <=> (Booted' /\ OutOfFrames')
  BY DEF FramesNext, Booted
<1>4. Full(bitmap') => OutOfFrames'
  BY DEF OutOfFrames, Full
<1>5. CASE Boot
  <2>1. ~Booted /\ strayFrees' = strayFrees
    BY <1>5 DEF Boot, init_vmm, MapKernel, init_heap, Booted, BootLabels, history
  <2>2. CASE Full(bitmap')
    BY <1>1, <1>3, <1>4, <2>2 DEF FramesInv, Excused
  <2>3. CASE ~Full(bitmap')
    <3>1. ~Full(bitmap)
      BY <1>1, <1>5, <2>3, BootGrows DEF Full
    <3>2. Sound' /\ KernelClean'
      BY <1>1, <1>5, <2>1, <2>3, <3>1, BootStep DEF FramesInv
    <3>3. CASE ~Booted'
      BY <1>1, <3>2, <3>3 DEF FramesInv
    <3>4. CASE Booted'
      <4>1. /\ pc' = "idle" /\ vmm_cur_directory' = kernel_directory'
            /\ \A k \in Slots \ {0} : ~used'[k]
        BY <1>1, <1>5, <2>1, <3>4
           DEF Boot, init_vmm, MapKernel, init_heap, Goto, Again, Control, Booted, BootLabels
      <4>2. Spaces'
        BY <4>1 DEF Spaces, KernelMapped
      <4>3. Good'
        BY <3>2, <4>1, <4>2 DEF Good, LoadFits
      <4>. QED  BY <1>1, <1>3, <3>2, <3>4, <4>3 DEF FramesInv, Excused
    <3>. QED  BY <3>3, <3>4
  <2>. QED  BY <2>2, <2>3
<1>6. CASE Launch \/ Run
  <2>1. Booted /\ Booted'
    <3>1. pc \notin BootLabels /\ pc' \notin BootLabels
      BY <1>6 DEF Launch, Run, create_process, vmm_clone_dir, createTask, MapProgram, MapStack,
                  Load, Store, switch_context, kill, Goto, Again, task_register_frame, Register,
                  BootLabels
    <3>. QED  BY <3>1 DEF Booted
  <2>2. Good
    BY <1>3, <2>1 DEF FramesInv, Excused
  <2>3. ~Excused' => Good' /\ ~OutOfFrames'
    BY <1>1, <1>3, <1>6, <2>1, <2>2, LaunchOrRunStep DEF Excused
  <2>. QED  BY <1>1, <2>1, <2>3 DEF FramesInv
<1>. QED  BY <1>3, <1>5, <1>6

\* The frames that are in use, the address spaces and the loops that make them
\* are as FramesInv says in every state.
THEOREM FramesInvariant == FramesSpec => []FramesInv
BY InvInit, InvNext, PTL DEF FramesSpec

\* pmm_alloc_block, vmm_free_dir and kill: no frame has two users, and all in
\* use are taken in the bitmap, but perhaps for frame 0.
THEOREM OneUserInvariant == FramesSpec => []OneUser
<1>1. FramesInv => OneUser
  BY DEF FramesInv, Booted, Good, Sound, OneUser
<1>. QED  BY <1>1, FramesInvariant, PTL

\* load_program and elf_load_file: a program that starts on a page boundary,
\* or is small enough for the raw pages, is loaded without a page fault.
THEOREM LoadFitsInvariant == FramesSpec => []LoadFits
<1>1. FramesInv => LoadFits
  BY DEF FramesInv, Booted, BootLabels, Good, LoadFits
<1>. QED  BY <1>1, FramesInvariant, PTL

\* The user pages of a process lie in its own frames, and the kernel is mapped
\* in every directory in use (vmm_clone_dir, create_process, kill).
THEOREM AddressSpacesInvariant == FramesSpec => []AddressSpaces
<1>1. FramesInv => AddressSpaces
  <2>. SUFFICES ASSUME FramesInv, Booted, ~Excused PROVE AddressSpaces
    BY DEF AddressSpaces, Booted
  <2>1. Spaces /\ Control
    BY DEF FramesInv, Good
  <2>2. \A dir, v : Translate(dir, v) = Lookup(memory, dir, v)
    BY DEF Translate, Lookup
  <2>3. ASSUME NEW k \in Slots \ {0}, used[k], loaded[k]
        PROVE  /\ \A v \in UserPages : Translate(cr3[k], v) \in {NONE} \union
                    {FrameOf(use) : use \in {u \in UsesOf(k) : u[2] \in {"page", "stack"}}}
               /\ \A v \in KernelSpace : Translate(cr3[k], v) = Translate(kernel_directory, v)
    <3>1. UserSpace(k) /\ KernelMapped(cr3[k])
      BY <2>1, <2>3 DEF Spaces, Control, LaunchLabels
    <3>2. ASSUME NEW f \in Own(k)
          PROVE  \E use \in UsesOf(k) : use[2] \in {"page", "stack"} /\ FrameOf(use) = f
      <4>1. CASE \E i \in 0 .. frameIndex[k] - 1 : f = frames[k][i]
        <5>1. PICK i \in 0 .. frameIndex[k] - 1 : f = frames[k][i]
          BY <4>1
        <5>2. <<k, "page", i, f>> \in UsesOf(k)
          BY <5>1 DEF UsesOf
        <5>. QED  BY <5>2 DEF FrameOf
      <4>2. CASE HasStack(k) /\ f = stack[k]
        <5>1. <<k, "stack", 0, f>> \in UsesOf(k)
          BY <4>2 DEF UsesOf
        <5>. QED  BY <5>1 DEF FrameOf
      <4>. QED  BY <4>1, <4>2 DEF Own
    <3>. QED  BY <2>2, <3>1, <3>2 DEF UserSpace, KernelMapped
  <2>4. \A v \in KernelSpace : Translate(vmm_cur_directory, v) = Translate(kernel_directory, v)
    BY <2>1, <2>2 DEF Spaces, KernelMapped
  <2>. QED  BY <2>3, <2>4 DEF AddressSpaces
<1>. QED  BY <1>1, FramesInvariant, PTL

\* A set of two elements has at most two.
LEMMA TwoAreTwo ==
    ASSUME NEW S, NEW a, NEW b, S \subseteq {a, b}
    PROVE  Cardinality(S) <= 2
<1>1. IsFiniteSet({}) /\ Cardinality({}) = 0
  BY FS_EmptySet
<1>2. IsFiniteSet({a}) /\ Cardinality({a}) = 1
  BY FS_Singleton
<1>3. IsFiniteSet({a} \union {b}) /\ Cardinality({a} \union {b}) \in {1, 2}
  BY <1>2, FS_AddElement
<1>4. IsFiniteSet({a, b}) /\ Cardinality({a, b}) <= 2
  <2>1. {a, b} = {a} \union {b}
    OBVIOUS
  <2>. QED  BY <1>3, <2>1
<1>5. Cardinality(S) <= Cardinality({a, b}) /\ Cardinality(S) \in Nat /\ Cardinality({a, b}) \in Nat
  BY <1>4, FS_Subset, FS_CardinalityType
<1>. QED  BY <1>4, <1>5

\* Of the victim's frames kill leaves frames[0] and the stack.
LEMMA KillLost ==
    ASSUME Typed, Typed', Control, Good, NEW k \in Slots, kill(k), ~strayFrees'
    PROVE  Killed /\ Cardinality(Lost' \ Lost) <= 2
<1>1. Sound
  BY DEF Good
<1>2. /\ k \in Owners \ {0}
      /\ \A j \in Slots : used'[j] <=> (used[j] /\ j # k)
      /\ bitmap' \subseteq bitmap \ (FreedFrames(k) \union vmm_free_dir(cr3[k]))
      /\ used[k]
  BY <1>1, KillFacts DEF kill, Typed, Ranges
<1>3. \A use : use \in Uses' <=> use \in Uses /\ use[1] # k
  BY <1>1, KillUses
<1>4. Killed
  BY <1>2 DEF Killed
<1>5. ASSUME NEW f \in Lost' \ Lost PROVE f \in {frames[k][0], stack[k]}
  <2>1. /\ f \in bitmap' /\ f \in bitmap
        /\ f \notin FreedFrames(k) /\ f \notin vmm_free_dir(cr3[k])
    BY <1>2, <1>5 DEF Lost
  <2>2. PICK use \in Uses : FrameOf(use) = f /\ use[1] = k
    BY <1>3, <1>5, <2>1 DEF Lost
  <2>3. \/ use = DirectoryUse(k)
        \/ \E i \in Entries : use = TableUse(k, i)
        \/ \E i \in 0 .. frameIndex[k] - 1 : use = PageUse(k, i)
        \/ use = StackUse(k)
    BY <1>2, <2>2, UsesAreByKind
       DEF UsesByKind, DirectoryUse, TableUse, PageUse, StackUse, HeapUse, ImageUse
  <2>4. FrameOf(use) # NONE
    BY DEF Uses
  <2>5. CASE use = DirectoryUse(k)
    BY <1>2, <2>1, <2>2, <2>5 DEF DirectoryUse, FrameOf, Dir, vmm_free_dir
  <2>6. CASE \E i \in Entries : use = TableUse(k, i)
    BY <1>2, <2>1, <2>2, <2>4, <2>6 DEF TableUse, FrameOf, Dir, vmm_free_dir, Tables
  <2>7. CASE \E i \in 0 .. frameIndex[k] - 1 : use = PageUse(k, i)
    <3>1. PICK i \in 0 .. frameIndex[k] - 1 : use = PageUse(k, i)
      BY <2>7
    <3>2. f = frames[k][i]
      BY <2>2, <3>1 DEF PageUse, FrameOf
    <3>3. frameIndex[k] \in Nat
      BY FramesAssumption DEF Typed, FramesTypeOK
    <3>4. i = 0
      BY <2>1, <3>2, <3>3 DEF FreedFrames
    <3>. QED  BY <3>2, <3>4
  <2>8. CASE use = StackUse(k)
    BY <2>2, <2>8 DEF StackUse, FrameOf
  <2>. QED  BY <2>3, <2>5, <2>6, <2>7, <2>8
<1>6. Lost' \ Lost \subseteq {frames[k][0], stack[k]}
  BY <1>5
<1>. QED  BY <1>4, <1>6, TwoAreTwo

\* kill: it loses at most two frames for good, frames[0] and the stack, and no
\* other step that does not panic loses any.
THEOREM KillLeaksTwo == FramesSpec => LeaksTwo
<1>1. ASSUME FramesInv, FramesInv', FramesNext, pc \notin BootLabels, pc' # "panic", ~Excused'
      PROVE  IF Killed THEN Cardinality(Lost' \ Lost) <= 2 ELSE Lost' \subseteq Lost
  <2>1. /\ Typed /\ Typed' /\ Control /\ Good /\ ~strayFrees'
        /\ Launch \/ Run
    <3>1. ~Boot
      BY <1>1 DEF Boot, init_vmm, MapKernel, init_heap, BootLabels
    <3>. QED  BY <1>1, <3>1 DEF FramesNext, FramesInv, Booted, Excused
  <2>2. ~OutOfFrames'
    <3>1. pc' \notin BootLabels
      BY <1>1, <2>1 DEF Launch, Run, create_process, vmm_clone_dir, createTask, MapProgram,
                        MapStack, Load, Store, switch_context, kill, Goto, Again,
                        task_register_frame, Register, BootLabels
    <3>. QED  BY <1>1, <3>1 DEF FramesInv, Booted
  <2>3. NothingLost \/ \E k \in Slots : kill(k)
    BY <1>1, <2>1, <2>2, LaunchOrRunStep
  <2>4. CASE \E k \in Slots : kill(k)
    BY <2>1, <2>4, KillLost
  <2>5. CASE NothingLost
    <3>1. Lost' \subseteq Lost
      BY <2>5 DEF NothingLost, Lost
    <3>2. Lost' \ Lost \subseteq {0, 0}
      BY <3>1
    <3>. QED  BY <3>1, <3>2, TwoAreTwo
  <2>. QED  BY <2>3, <2>4, <2>5
<1>2. FramesInv /\ FramesInv' /\ [FramesNext]_framesVars
        => [pc \notin BootLabels /\ pc' # "panic" /\ ~Excused' =>
              IF Killed THEN Cardinality(Lost' \ Lost) <= 2 ELSE Lost' \subseteq Lost]_framesVars
  BY <1>1
<1>. QED  BY <1>2, FramesInvariant, PTL DEF FramesSpec, LeaksTwo
=============================================================================
