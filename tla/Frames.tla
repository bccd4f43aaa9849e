-------------------------------- MODULE Frames --------------------------------
(***************************************************************************)
(* Physical frames and the address spaces made of them: the frame bitmap   *)
(* (src/kernel/mm/pmm.c), page directories and tables (vmm.c), the loading *)
(* of a program into them (user/program.c, user/elf.c), and kill, which    *)
(* gives a process's frames back (multitasking/task.c).                    *)
(*                                                                         *)
(* Interrupts are off while a process is made or killed; the steps in      *)
(* between are those that allocate.  A virtual page is a number; a page    *)
(* table entry is a frame or NONE, its attribute bits are left out.  Of    *)
(* what a frame holds the model keeps the entries it has as a table.       *)
(*                                                                         *)
(* A frame with two users ends all order, so the model stops where kill    *)
(* frees what is not the victim's, or frame 0 stands for a free one.       *)
(***************************************************************************)
EXTENDS Integers, FiniteSets

CONSTANTS
    MaxBlocks,       \* pmm_max_blocks
    Ram,             \* the frames of the regions that the boot loader calls available
    KernelImage,     \* the frames of the kernel, and of the boot loader's record
    ENTRIES,         \* entries of a directory, and of a table
    KERNEL_VBASE,    \* the first of the kernel's pages
    KERNEL_PAGES,    \* how many frames init_vmm maps there
    KHEAP_START, KHEAP_PAGES,
    TASKS,           \* the slots of tasks[] behind the kernel's
    TASK_MAX_FRAMES,
    PAGE,            \* RHINO_PMM_BLOCK_SIZE
    RAW_PAGES,       \* pages for a file that is no ELF file
    Programs         \* what may be started

ASSUME FramesAssumption ==
    /\ {MaxBlocks, ENTRIES, KERNEL_VBASE, KERNEL_PAGES, KHEAP_START, KHEAP_PAGES,
        TASKS, TASK_MAX_FRAMES, PAGE, RAW_PAGES} \subseteq Nat \ {0}
    /\ Ram \subseteq 1 .. MaxBlocks - 1 /\ KernelImage \subseteq Ram

\* The kernel's pages lie below its heap (linker.ld, hmm.h), and the machine has
\* the memory that init_vmm maps.
ASSUME LayoutAssumption ==
    /\ KERNEL_VBASE + KERNEL_PAGES <= KHEAP_START
    /\ KHEAP_START + KHEAP_PAGES <= ENTRIES * ENTRIES
    /\ KERNEL_PAGES <= MaxBlocks

\* Programs are linked to run below the kernel (link.ld); length is a raw file's.
ASSUME ProgramsAssumption ==
    /\ Programs \subseteq [kind : {"executable", "relocatable", "other", "raw"},
                           segments : SUBSET [vaddr : Nat, memsz : Nat], length : Nat]
    /\ \A p \in Programs :
         /\ \A s \in p.segments : s.vaddr + s.memsz <= PAGE * KERNEL_VBASE
         /\ PAGE + p.length <= PAGE * KERNEL_VBASE
    /\ RAW_PAGES < KERNEL_VBASE

VARIABLES
    bitmap,            \* pmm_bitmap: the frames whose bit is set
    memory,            \* the entries a frame holds
    kernel_directory, vmm_cur_directory,
    runningTask,
    used, cr3,         \* of a task
    frames, frameIndex, \* its res
    pc, at,            \* what the kernel is doing, and how far it is in that loop
    target, program,   \* for which slot, from which file
    stack,             \* history: the frame of a process's stack
    loaded,            \* history: the process has been made completely
    strayFrees,        \* history: a kill freed what the process did not own
    ranOut             \* history: frame 0 was handed out in place of a free one

taskVars == <<used, cr3, frames, frameIndex>>
memVars == <<bitmap, memory>>
history == <<stack, loaded, strayFrees>>  \* and ranOut, which FramesNext sets
framesVars == <<memVars, kernel_directory, vmm_cur_directory, runningTask, taskVars,
                pc, at, target, program, history, ranOut>>

Frames == 0 .. MaxBlocks - 1
Entries == 0 .. ENTRIES - 1
Slots == 0 .. TASKS        \* slot 0 is the kernel's
NONE == -1
Blank == [i \in Entries |-> NONE]
UserPages == 0 .. KERNEL_VBASE - 1

-----------------------------------------------------------------------------
(* pmm.c                                                                   *)

pmm_set(b, f) == b \union {f}
pmm_clear(b, f) == b \ {f}

Lowest(set) == CHOOSE f \in set : \A g \in set : f <= g

\* init_pmm: the bitmap is filled with 0x0f, half of its bits, before the
\* available regions are cleared, and frame 0 set.
InitialBitmap == pmm_set({f \in Frames : f % 8 < 4} \ Ram, 0)

\* pmm_alloc_block: the lowest free frame that is not the kernel's, or 0.
pmm_alloc_block(b) ==
    LET free == Frames \ (b \union KernelImage)
    IN  IF free = {} THEN 0 ELSE Lowest(free)

\* Its bit is set, and that of each kernel frame the search met.
Taken(b) ==
    LET free == Frames \ (b \union KernelImage)
        f == pmm_alloc_block(b)
    IN  pmm_set(b, f) \union {g \in KernelImage : free = {} \/ g < f}

pmm_free_block(b, f) == pmm_clear(b, f)

-----------------------------------------------------------------------------
(* vmm.c                                                                   *)

\* Clearing a frame, and storing one entry of what it holds.
Cleared(m, f) == [m EXCEPT ![f] = Blank]
Stored(m, f, i, entry) == [m EXCEPT ![f][i] = entry]

Directory(v) == v \div ENTRIES
Index(v) == v % ENTRIES

\* vmm_virt_to_phys, and what the processor does.
Translate(dir, v) ==
    LET table == memory[dir][Directory(v)]
    IN  IF table = NONE THEN NONE ELSE memory[table][Index(v)]

\* vmm_map_page, with b the bitmap it finds: a table is made where there is none.
vmm_map_page(b, frame, v) ==
    LET dir == vmm_cur_directory
        absent == memory[dir][Directory(v)] = NONE
        table == IF absent THEN pmm_alloc_block(b) ELSE memory[dir][Directory(v)]
        linked == IF absent THEN Stored(Cleared(memory, table), dir, Directory(v), table)
                            ELSE memory
    IN  /\ bitmap' = IF absent THEN Taken(b) ELSE b
        /\ memory' = Stored(linked, table, Index(v), frame)

\* Its test for NULL never fails: a directory is at KERNEL_VBASE or above.
vmm_switch_pdirectory(dir) == vmm_cur_directory' = dir

\* A directory is the first thing allocated for an address space.
NewDirectory ==
    LET dir == pmm_alloc_block(bitmap)
    IN  /\ bitmap' = Taken(bitmap)
        /\ memory' = Cleared(memory, dir)

\* Fault: the clone shares the tables.
vmm_clone_tabShared(dir, i) ==
    /\ memory' = Stored(memory, dir, i, memory[kernel_directory][i])
    /\ UNCHANGED bitmap

\* vmm_clone_tab, and the entry of the clone: its own copy of the table.
vmm_clone_tab(dir, i) ==
    LET table == pmm_alloc_block(bitmap)
        copy == [memory EXCEPT ![table] = memory[memory[kernel_directory][i]]]
    IN  /\ bitmap' = Taken(bitmap)
        /\ memory' = Stored(copy, dir, i, table)

\* The frames vmm_free_dir frees.
Tables(dir) == {memory[dir][i] : i \in Entries} \ {NONE}
vmm_free_dir(dir) == Tables(dir) \union {dir}

-----------------------------------------------------------------------------
(* elf.c: a file is its kind and its loadable segments.                    *)

SupportedElf(p) == p.kind \in {"executable", "relocatable"}

elf_get_load_addr(p) ==
    IF ~SupportedElf(p) THEN 0
    ELSE IF p.segments = {} THEN PAGE * ENTRIES * ENTRIES - 1  \* 0xFFFFFFFF
    ELSE Lowest({s.vaddr : s \in p.segments})

elf_get_file_length(p) ==
    IF ~SupportedElf(p) THEN 0
    ELSE LET ends == {s.vaddr + s.memsz - elf_get_load_addr(p) : s \in p.segments}
         IN  IF ends = {} THEN 0 ELSE CHOOSE e \in ends : \A d \in ends : d <= e

LoadAddress(p) == IF p.kind = "raw" THEN PAGE ELSE elf_get_load_addr(p)

\* Fault: a page too few for a length that fills no page.
PagesOfRoundedDown(p) ==
    IF p.kind = "raw" THEN RAW_PAGES ELSE elf_get_file_length(p) \div PAGE

\* IDIV_CEIL of the length, wherever in its page the first byte lies.
PagesOf(p) ==
    IF p.kind = "raw" THEN RAW_PAGES ELSE (elf_get_file_length(p) + PAGE - 1) \div PAGE

\* The addresses that elf_load_segment and memcpy write.
Span(from, length) == from .. from + length - 1
elf_load_file(p) ==
    CASE p.kind = "executable" -> UNION {Span(s.vaddr, s.memsz) : s \in p.segments}
      [] p.kind = "raw" -> Span(PAGE, p.length)
      [] OTHER -> {}

-----------------------------------------------------------------------------
(* Boot: init_pmm has run; init_vmm, init_heap and initTasking.            *)

FramesInit ==
    /\ bitmap = InitialBitmap
    /\ memory = [f \in Frames |-> Blank]
    /\ kernel_directory = 0 /\ vmm_cur_directory = 0
    /\ runningTask = 0
    /\ used = [k \in Slots |-> k = 0]
    /\ cr3 = [k \in Slots |-> 0]
    /\ frames = [k \in Slots |-> [i \in 0 .. TASK_MAX_FRAMES |-> 0]]
    /\ frameIndex = [k \in Slots |-> 0]
    /\ pc = "init_vmm" /\ at = 0
    /\ target = 0 /\ program = CHOOSE p \in Programs : TRUE
    /\ stack = [k \in Slots |-> 0]
    /\ loaded = [k \in Slots |-> FALSE]
    /\ strayFrees = FALSE /\ ranOut = FALSE

BootLabels == {"init_vmm", "kernel_pages", "init_heap"}

Goto(label) == pc' = label /\ at' = 0
Again == at' = at + 1 /\ UNCHANGED pc

init_vmm ==
    /\ pc = "init_vmm"
    /\ NewDirectory
    /\ kernel_directory' = pmm_alloc_block(bitmap)
    /\ vmm_switch_pdirectory(kernel_directory')
    /\ Goto("kernel_pages")
    /\ UNCHANGED <<runningTask, taskVars, target, program, history>>

MapKernel ==
    /\ pc = "kernel_pages"
    /\ IF at < KERNEL_PAGES
         THEN vmm_map_page(bitmap, at, KERNEL_VBASE + at) /\ Again
         ELSE Goto("init_heap") /\ UNCHANGED memVars
    /\ UNCHANGED <<kernel_directory, vmm_cur_directory, runningTask, taskVars, target,
                   program, history>>

init_heap ==
    /\ pc = "init_heap"
    /\ IF at < KHEAP_PAGES
         THEN /\ vmm_map_page(Taken(bitmap), pmm_alloc_block(bitmap), KHEAP_START + at)
              /\ Again
              /\ UNCHANGED cr3
         ELSE /\ cr3' = [cr3 EXCEPT ![0] = kernel_directory]
              /\ Goto("idle")
              /\ UNCHANGED memVars
    /\ UNCHANGED <<kernel_directory, vmm_cur_directory, runningTask, used, frames,
                   frameIndex, target, program, history>>

-----------------------------------------------------------------------------
(* init and create_process, behind load_program.                           *)

IsFinalElement(k) == ~used[k] /\ \A j \in Slots : j < k => used[j]

\* vmm_clone_dir starts; nothing but a process that runs gets here.
create_process(k, p) ==
    /\ pc = "idle" /\ used[runningTask]
    /\ IsFinalElement(k)
    /\ NewDirectory
    /\ cr3' = [cr3 EXCEPT ![k] = pmm_alloc_block(bitmap)]
    /\ target' = k /\ program' = p
    /\ loaded' = [loaded EXCEPT ![k] = FALSE]
    /\ Goto("clone")
    /\ UNCHANGED <<kernel_directory, vmm_cur_directory, runningTask, used, frames,
                   frameIndex, stack, strayFrees>>

\* A turn of vmm_clone_dir's loop.
vmm_clone_dir ==
    /\ pc = "clone" /\ at \in Entries
    /\ IF memory[kernel_directory][at] # NONE
         THEN vmm_clone_tab(cr3[target], at)
         ELSE UNCHANGED memVars
    /\ Again
    /\ UNCHANGED <<kernel_directory, vmm_cur_directory, runningTask, taskVars, target,
                   program, history>>

\* Fault: the pages are mapped before the directory is switched.
createTaskNoSwitch ==
    /\ pc = "clone" /\ at = ENTRIES
    /\ frameIndex' = [frameIndex EXCEPT ![target] = 0]
    /\ used' = [used EXCEPT ![target] = TRUE]
    /\ Goto("pages")
    /\ UNCHANGED <<memVars, kernel_directory, vmm_cur_directory, runningTask, cr3, frames,
                   target, program, history>>

createTask ==
    /\ pc = "clone" /\ at = ENTRIES
    /\ frameIndex' = [frameIndex EXCEPT ![target] = 0]
    /\ used' = [used EXCEPT ![target] = TRUE]
    /\ vmm_switch_pdirectory(cr3[target])
    /\ Goto("pages")
    /\ UNCHANGED <<memVars, kernel_directory, runningTask, cr3, frames, target, program,
                   history>>

Register(frame) ==
    /\ frames' = [frames EXCEPT ![target][frameIndex[target]] = frame]
    /\ frameIndex' = [frameIndex EXCEPT ![target] = @ + 1]
    /\ Again

\* Fault: the panic comes one frame late.
task_register_frameLate(frame) ==
    IF frameIndex[target] > TASK_MAX_FRAMES
      THEN pc' = "panic" /\ UNCHANGED <<at, frames, frameIndex>>
      ELSE Register(frame)

task_register_frame(frame) ==
    IF frameIndex[target] = TASK_MAX_FRAMES
      THEN pc' = "panic" /\ UNCHANGED <<at, frames, frameIndex>>
      ELSE Register(frame)

\* A page for the program.
MapProgram ==
    /\ pc = "pages" /\ at < PagesOf(program)
    /\ LET frame == pmm_alloc_block(bitmap)
       IN  /\ vmm_map_page(Taken(bitmap), frame, LoadAddress(program) \div PAGE + at)
           /\ task_register_frame(frame)
    /\ UNCHANGED <<kernel_directory, vmm_cur_directory, runningTask, used, cr3, target,
                   program, history>>

\* The stack's page is page 0.  No one registers it.
MapStack ==
    /\ pc = "pages" /\ at = PagesOf(program)
    /\ vmm_map_page(Taken(bitmap), pmm_alloc_block(bitmap), 0)
    /\ stack' = [stack EXCEPT ![target] = pmm_alloc_block(bitmap)]
    /\ Goto("load")
    /\ UNCHANGED <<kernel_directory, vmm_cur_directory, runningTask, taskVars, target,
                   program, loaded, strayFrees>>

\* Data is stored to the given pages; whatever entries their frames held are gone.
Write(pages) ==
    LET hit == {Translate(vmm_cur_directory, v) : v \in pages}
    IN  memory' = [f \in Frames |-> IF f \in hit THEN Blank ELSE memory[f]]

\* The file's bytes go to the addresses they are for; a page fault there is
\* the end.  The directory is switched back.
Load ==
    /\ pc = "load"
    /\ LET pages == {a \div PAGE : a \in elf_load_file(program)}
           fault == \E v \in pages : Translate(vmm_cur_directory, v) = NONE
       IN  /\ Write(pages)
           /\ pc' = IF fault THEN "page_fault" ELSE "idle"
           /\ IF fault THEN UNCHANGED vmm_cur_directory
                      ELSE vmm_switch_pdirectory(cr3[runningTask])
           /\ loaded' = [loaded EXCEPT ![target] = ~fault]
    /\ UNCHANGED <<bitmap, kernel_directory, runningTask, taskVars, at, target, program,
                   stack, strayFrees>>

-----------------------------------------------------------------------------
(* Processes that run.                                                     *)

\* The running program stores to one of its pages.
Store(v) ==
    /\ pc = "idle" /\ runningTask # 0 /\ used[runningTask]
    /\ Translate(vmm_cur_directory, v) # NONE
    /\ Write({v})
    /\ UNCHANGED <<bitmap, kernel_directory, vmm_cur_directory, runningTask, taskVars, pc,
                   at, target, program, history>>

\* switch_context, to whichever task the scheduler picks.
switch_context(k) ==
    /\ pc = "idle" /\ used[k] /\ k # runningTask
    /\ runningTask' = k
    /\ cr3' = [cr3 EXCEPT ![runningTask] = vmm_cur_directory]
    /\ vmm_switch_pdirectory(cr3[k])
    /\ UNCHANGED <<memVars, kernel_directory, used, frames, frameIndex, pc, at, target,
                   program, history>>

\* Fault: the index is reset before the loop.
FreedFramesNone(k) == {}

\* What the loop of kill frees: not frames[0], but the entry behind the last,
\* which a process before may have left; behind a full array lies frameIndex.
FreedFrames(k) == {frames[k][i] : i \in 1 .. frameIndex[k]}

\* Freeing regs.esp - 0x1000: frame 0 for a process that was never switched out,
\* else a frame that is none, whose bit is somewhere behind the bitmap.
FreedStack == {{0}, {}}

\* Who uses which frame: a live process its directory, its tables, the pages
\* of its program and its stack; the kernel its directory, tables and heap.
Live(k) == used[k] \/ (k = target /\ pc = "clone")
HasStack(k) == loaded[k] \/ (k = target /\ pc \in {"load", "page_fault"})

UsesOf(k) ==
    {<<k, "directory", 0, cr3[k]>>}
    \union {<<k, "table", i, memory[cr3[k]][i]>> : i \in Entries}
    \union {<<k, "page", i, frames[k][i]>> : i \in 0 .. frameIndex[k] - 1}
    \union (IF HasStack(k) THEN {<<k, "stack", 0, stack[k]>>} ELSE {})

KernelUses ==
    {<<0, "directory", 0, kernel_directory>>}
    \union {<<0, "table", i, memory[kernel_directory][i]>> : i \in Entries}
    \union {<<0, "heap", i, Translate(kernel_directory, KHEAP_START + i)>> :
                i \in 0 .. KHEAP_PAGES - 1}
    \union {<<0, "image", i, i>> : i \in KernelImage}

FrameOf(use) == use[4]

Uses == {use \in KernelUses \union UNION {UsesOf(k) : k \in {j \in Slots \ {0} : Live(j)}} :
            FrameOf(use) # NONE}

Owned(k) == {FrameOf(use) : use \in UsesOf(k)}

\* A process that runs kills one, alive or not, itself or another.  If itself,
\* it runs on in the directory it freed, until it is switched out.
kill(k) ==
    /\ pc = "idle" /\ runningTask # 0 /\ used[runningTask]
    /\ k # 0 /\ loaded[k]
    /\ LET freed == FreedFrames(k) \union vmm_free_dir(cr3[k])
       IN  /\ \E esp \in FreedStack : bitmap' = bitmap \ (freed \union esp)
           /\ strayFrees' = (strayFrees \/ ~used[k] \/ ~(freed \subseteq Owned(k) \union {0}))
    /\ frameIndex' = [frameIndex EXCEPT ![k] = 0]
    /\ used' = [used EXCEPT ![k] = FALSE]
    /\ UNCHANGED <<memory, kernel_directory, vmm_cur_directory, runningTask, cr3,
                   frames, pc, at, target, program, stack, loaded>>

-----------------------------------------------------------------------------
Boot == init_vmm \/ MapKernel \/ init_heap

Launch ==
    \/ \E k \in Slots, p \in Programs : create_process(k, p)
    \/ vmm_clone_dir \/ createTask \/ MapProgram \/ MapStack \/ Load

Run ==
    \/ \E v \in UserPages : Store(v)
    \/ \E k \in Slots : switch_context(k) \/ kill(k)

\* Nothing is free, or frame 0, whose bit the kills clear, has two users.
OutOfFrames ==
    \/ Frames \subseteq bitmap \union KernelImage
    \/ \E one, other \in Uses : one # other /\ {FrameOf(one), FrameOf(other)} = {0}

FramesNext ==
    /\ ~strayFrees /\ ~ranOut
    /\ Boot \/ Launch \/ Run
    /\ ranOut' = (pc' \notin BootLabels /\ OutOfFrames')

FramesSpec == FramesInit /\ [][FramesNext]_framesVars

-----------------------------------------------------------------------------
(* Properties.                                                             *)

\* A kill freed an entry left behind, or killed the dead; or memory ran out.
Excused == strayFrees \/ ranOut

\* Types; the frames a task registers fit into its array.
FramesTypeOK ==
    /\ bitmap \subseteq Frames
    /\ memory \in [Frames -> [Entries -> Frames \union {NONE}]]
    /\ {kernel_directory, vmm_cur_directory} \subseteq Frames
    /\ cr3 \in [Slots -> Frames]
    /\ frames \in [Slots -> [0 .. TASK_MAX_FRAMES -> Frames]]
    /\ frameIndex \in [Slots -> 0 .. TASK_MAX_FRAMES]

\* No frame has two users: no two directories, tables, pages or stacks of live
\* processes share one, none is the kernel's, and all are taken in the bitmap,
\* but for frame 0, whose bit every kill may clear.
OneUser ==
    pc \in BootLabels \/ Excused \/
    /\ \A one, other \in Uses : FrameOf(one) = FrameOf(other) => one = other
    /\ {FrameOf(use) : use \in Uses} \subseteq bitmap \union KernelImage \union {0}

KernelSpace == KERNEL_VBASE .. ENTRIES * ENTRIES - 1

\* What the processor finds: the user pages of a process lie in its own frames,
\* and the kernel is mapped in every directory that is in use, also in that of
\* a process that has killed itself and still runs.
AddressSpaces ==
    pc \in BootLabels \/ Excused \/
    /\ \A k \in Slots \ {0} : used[k] /\ loaded[k] =>
         /\ \A v \in UserPages : Translate(cr3[k], v) \in {NONE} \union
              {FrameOf(use) : use \in {u \in UsesOf(k) : u[2] \in {"page", "stack"}}}
         /\ \A v \in KernelSpace : Translate(cr3[k], v) = Translate(kernel_directory, v)
    /\ \A v \in KernelSpace :
         Translate(vmm_cur_directory, v) = Translate(kernel_directory, v)

\* Taken and used by nobody.
Lost == bitmap \ (InitialBitmap \union KernelImage \union {FrameOf(use) : use \in Uses})
Killed == \E k \in Slots : used[k] /\ ~used'[k]

\* A kill loses two frames for good, frames[0] and the stack; nothing else does.
LeaksTwo ==
    [][pc \notin BootLabels /\ pc' # "panic" /\ ~Excused' =>
         IF Killed THEN Cardinality(Lost' \ Lost) <= 2 ELSE Lost' \subseteq Lost]_framesVars

\* A program is loaded without a page fault if its first segment begins on a
\* page boundary, or if it is no larger than the pages a raw file gets.
LoadFits ==
    pc = "page_fault" /\ ~Excused =>
       IF program.kind = "raw" THEN program.length > PAGE * RAW_PAGES
                               ELSE elf_get_load_addr(program) % PAGE # 0
=============================================================================
