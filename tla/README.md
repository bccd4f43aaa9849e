# Project Rhino in TLA+

Models, model-checking runs and machine-checked proofs for the Rhino kernel
(32-bit x86, one processor) and the programs in `user/`. Paths below are those
of the repository; `task.c:190` is line 190 of `src/kernel/multitasking/task.c`.

## The system

Rhino boots from GRUB with an initial ram disk, initialises memory, interrupts
and drivers, and ends in a small kernel shell (the build has `DEBUG`, as
`common.h:3` defines). The command `run` loads `/dev/initrd/init` as process 1
and gives the processor away for good. `init` starts the shell `TSH`, TSH
starts commands, and each parent waits for its child. Everything a process does
goes through one system call gate, `int 0x80`.

There is one processor and no preemption inside system calls, because the gate
turns interrupts off. Four calls open them again while they wait: `waitpid`,
`getchar`, and the disk reads and writes (through `msleep`). Concurrency in
Rhino is therefore: processes between their system calls, processes inside one
of these waits, and the interrupt handlers of timer, keyboard and disk.

| Component | State | Operations | Met by | Correct when |
|---|---|---|---|---|
| task table (`multitasking/task.c`) | `tasks[256]`: used, state, pid, argc/argv, directory, files, frames; `runningTask` | `createTask`, `kill`, `waitpid`, `block_task`, lookups, setters | system calls, `init()`, `create_process` | pids name one slot; an exit is seen by its waiter; the kernel task stays retired |
| scheduler (`scheduler.c`) | `scheduling_enabled` | `schedule`, enable, disable | timer interrupt, atomic periods | finds a task always, in turn, none starved |
| programs (`user/program.c`, `elf.c`) | heap and page frames of a process | `load_program`, `init`, `create_process` | system call 9, kernel shell | a failed load leaves nothing behind; the program's bytes land on its own pages |
| system calls (`user/syscall.c`) | none of its own | 27 calls | `int 0x80` | each is one step, except where it waits |
| programs of `user/` | each its variables | `t_launch`, `t_exit`, `init`, `crt0`, commands | each other, by `waitpid` and arguments | a child has its arguments before it runs; a parent comes back |
| kernel heap (`mm/hmm.c`) | list of blocks, `index` | malloc, free, realloc | kernel and, through calls 16 and 17, programs | blocks apart; freed memory comes back |
| frames and page directories (`mm/pmm.c`, `mm/vmm.c`) | bitmap; directories | alloc, free, map, clone, free_dir | heap, program loading, `kill` | no frame has two users; the kernel is mapped wherever the processor is; a kill gives back what it should |
| kernel stack (`arch/x86/tss.c`, `waitpid`) | `esp0`, frames of waiting calls | interrupt entry, wait | every interrupt | no waiting call's frames are overwritten |
| keyboard (`drivers/keyboard.c`) | `stdin`, `stdinIndex`, `readIndex` | `kbd_irq`, `kbd_getchar` | interrupt against reader | characters come out once, in order |
| VFS (`fs/vfs.c`), initrd, FAT32, descriptors (`task.c:257`) | mount tree, node counts, descriptor tables | mount, open, close, read, readdir, chdir, path walk | system calls, each other by function pointers | a descriptor is the file its path names, a read gives its bytes, references are counted |
| ATA (`drivers/ata.c`) | interrupt flags, `cur_selected`, channels | probing, PIO and DMA transfers, packets | FAT32 and raw disks, disk interrupt | `true` means that the sectors moved; every request ends |
| interrupt controllers (`isr.c`, `drivers/pic.c`) | registered handlers; lines in service | `irq_handler`, `pic_send_eoi` | timer, keyboard, disk | nothing stays in service; spurious interrupts are told apart |
| ACPI (`acpi/acpi.c`), PCI (`arch/x86/pci.c`), power (`pwr/power.c`) | tables found, sleep values | enumeration, shutdown, reboot | boot, system calls | the disk controller is found; sound tables do not fault |
| types (`types/*.c`), udi | lists, trees | insert, remove, find | VFS, drivers | structure kept |
| screen, serial, clock, FPU, CPUID, Deer | set once, or output | | | |

`PROJECT.json` lists every part with what is modelled of it, and under
`hazards` what in this code is hard to test, line by line.

What makes Rhino hard: slots, pids and frames are reused while others still
refer to them; `waitpid` polls memory that may have changed tenants; an atomic
period is one global switch that anybody can flip; one kernel stack is shared by
every waiting call; the drive's interrupt is one flag for every command; results
of calls are used without a test; failed calls leave their first half done.

## Modules

### Tasks, RoundRobin: task table, scheduler, process calls

`Tasks.tla` models `task.c`, `scheduler.c`, `init()` and `create_process` for
*arbitrary* programs: the running task may make any process call at any time
(`SystemCall`), and the timer (`Tick`) may come between any two steps.

| Model | Code |
|---|---|
| `used`, `state`, `pid` | fields of `tasks[k]` |
| `runningTask`, `scheduling_enabled` | the globals |
| `doing[k]` | the saved registers of the task, reduced to where it is: in its program, in `load_program`, in `waitpid`'s loop, ended and spinning in crt0 |
| `target[k]` | the local `task` of `waitpid` |
| `gone`, `passes` | history only: the process that a waiter in `Watched` waits for was killed; switches that passed over a runnable task |

Points that are easy to get wrong, and are as in the code: lookups by pid
search unused slots too; killing leaves pid and state behind; `kill(0)` blocks
the caller, whoever that is; a killed task keeps the processor until the next
tick; `create_process` may sleep while loading, before it takes a slot; when
the table is full slot 0 is overwritten and its pid comes from `tasks[-1]`,
which is any byte. `Inc` wraps at `MAX_TASKS` as a `uint8_t` does at 256.

Two restrictions on the programs: nobody kills `init` and `init` does not end
(`InitPid`); without them the table can become empty, and `schedule` spins for
ever, which is how the code is. A pid held by no slot makes the code use a NULL
pointer and is left out.

`RoundRobin.tla` is the abstract scheduler: a set of ready tasks, a current
one, and `Switch` to the next ready one in cyclic order. `Tasks` implements it
with `ready` as the used and active slots.

### Launch: init, TSH, crt0 and commands

`Launch.tla` extends `Tasks`: every step of a program is the system call of
`Tasks` it makes, conjoined with its move to its next call. The labels of `at`
follow `t_launch`, `t_exit`, `main` of init and `crt0.asm`. The commands run and
end. `unset[k]` records which of working directory, argc and argv the launcher
of slot `k` has yet to hand over. Calls that touch neither the table nor the
scheduler (printing, `getcwd`, colours) are left out. The shell loads programs
from the ram disk or the disk, so a load may fail (`NotCreated`) and the timer
may come in the middle of it; the launch is inside an atomic period, and
`Launch` shows what that is good for. A free slot is assumed at `Created`: each
nested shell keeps about 30 KB of a 1 MB heap that never frees, so the chain
ends long before 256 tasks.

### KernelStack

`KernelStack.tla` puts the one kernel stack under the programs of `Launch`.
Every task shares it: an entry from user mode starts at `tss.esp0`
(`tss.c:8`: the top, at first), an interrupt in the kernel starts where the
stack pointer is, and `switch_context` goes to another task without going to
another stack, since `iret` loads a stack pointer only on its way to user mode.

| Model | Code |
|---|---|
| `esp0`, `esp` | `tss.esp0`; the stack pointer of what runs in the kernel |
| `frames[k]` | where on the stack the waiting call of slot `k` has what it needs |
| `call[k]` | `lookup`: in the `task_for_pid` of `waitpid`; `sleep`: `getchar` or a disk access; the load and the polling loop are `doing[k]` of `Tasks` |
| `lost` | history: the tasks whose frames something was pushed over |

Depths are units counted from the top: what an entry and its handler push is
one, the frames of `task_for_pid` below it another. Bytes are not modelled, as
what matters is which frame lies above which entry. Each step of `Launch` is
conjoined with its effect on the stack (`Instant`, `EnterSleep`, `EnterWait`,
`LookupDone`, `Return`, `Interrupt`); three steps are added that `Launch` does
not see: a lookup that ends, and the two ends of a `getchar`. Where a task would
go on with frames it has lost the model ends (`Ended`): what the processor does
then depends on what lies there.

### Keyboard, KeyQueue

`Keyboard.tla` models `kbd_irq`, both getchars and `getline` (the kernel's and
libc's are the same code). The reader's steps are as fine as the interrupt can
come between them: the poll, the read, the increment, the edit. Keys are letter,
space, Enter, backspace, shift (press, release and caps lock all toggle it) and
those above `SC_MAX`, which the handler looks up behind its table and which so
make any byte. `stdin` is written by `strlen` and read by an index that counts
keys, and the two part when a key makes a NUL, as shift with space does
(`keyboard.c:78`): from there keys come out late or never. `KeyQueue.tla` is what
a reader may rely on until then (`void`): a queue. Nothing ever empties `stdin`;
the model ends when it is full, where the code writes on behind it. A backspace
on an empty line writes in front of the caller's buffer and costs the next
character: `pos` is then negative, and what is written outside is not modelled.

### Heap

`Heap.tla` models tmalloc as it is: a list of extents, an index that only
grows, `free` that marks nothing. A block is its place in the list. Bytes are
not modelled. `IndexLimit` bounds the bytes ever asked for; the code's index is
32 bits wide and wraps after 4 GB of requests, which is outside the model.

### Frames

`Frames.tla` models `pmm.c`, `vmm.c`, the loading of `program.c` and `elf.c`, and
what `kill` gives back. A frame is a number, a frame's content the entries it has
as a page table (`memory`), and `Translate` is what the processor does with them:
so a directory that is freed and allocated again while somebody runs on it is
seen as it would be. Interrupts are off while a process is made or killed; the
steps of the module are those that allocate (`vmm_clone_dir` a table a step,
`MapProgram` a page a step), and `Store` lets the running program overwrite what
it can reach. `UsesOf` and `KernelUses` say who uses which frame.

As in the code: the bitmap starts with a pattern that leaves frames free that are
no memory (`pmm.c:78`); the frames of the kernel image are skipped, and marked,
as the search meets them; frame 0 also means that nothing is free; `kill` frees
`frames[frameIndex]` to `frames[1]`, not `frames[0]`, and frame 0 where the stack
should have been (`FreedStack`); a process that kills itself runs on in its freed
directory; the pages of a program are counted from its length alone (`PagesOf`).
The model stops where a kill frees what is not its victim's (`strayFrees`: a
second kill, or a stale entry behind the last) or where frame 0 stands for a free
one (`ranOut`), since from there on frames are shared and nothing holds. That
happens in the code.

Left out: attribute bits (no page is ever made read-only), `pmm_used_blocks`
(nobody reads it), tables above the 64 MB that `init_vmm` maps, ACPI's own
directory, and stray bits cleared behind the bitmap by a wild `esp`. Segments
are taken to have `p_filesz` up to `p_memsz`, as linkers make them. Where GRUB
puts the initrd is not in the source: `pmm.c:129` does not reserve it.

`LayoutAssumption` and `ProgramsAssumption` say what the addresses of the build
give: the kernel's pages lie below its heap (`linker.ld`, `hmm.h`), both inside
the address space, the machine has the memory that `init_vmm` maps, and programs
are linked to run below the kernel (`link.ld`). The loader tests none of this: a
file with a segment at the kernel's addresses would overwrite the kernel.

### Ata, Pic, BlockDevice

`Ata.tla` models the driver for one of the two buses, step by step where an
interrupt or a drive can come between: selecting, waiting while busy, clearing
the flag, the command, waiting for the interrupt, the data, stopping the bus
master. Labels of `pc` are these steps; `ata_read_pio_32`, `_16`, the writes and
the identifies are the same steps with other registers. `OtherBus` writes
`cur_selected` for the twin bus, which is all that the two share.

The drives are external: a command may be answered, may fail, may take any time,
or never be answered. They are taken to do what a drive does: nothing while busy,
the master selected after a reset, an interrupt before the first sector of a
transfer too, and in a failed DMA what the driver's own test looks for.
`WAIT` is the count of `msleep(1)` turns that a wait makes; after it the driver
goes on, which a drive that answers late runs into.

`Pic.tla` has the registered handlers and the two controllers: which line they
let through while others are in service, and what `pic_send_eoi` ends. The timer's
interrupt in `msleep` and the drive's go through it, and so do spurious ones: for
the slave's, line 15, `irq_handler` runs the second bus's handler before
`pic_send_eoi` sees that nothing is in service (`SpuriousInterrupt`). A handler
is one step. `read_rtc` (`rtc.c:7`), called by the timer's handler in the last
days of a month, turns interrupts on in it, but `Delivers` lets none through while
line 0 is in service.

`BlockDevice.tla` is what callers rely on: `true` means that the sectors asked
for have moved, in order; `false` that the drive erred or was late, or that another
interrupt was taken for its own. `Ata` implements it for every request that began without one of the `Excuses`, each a
case in which the driver as it is promises nothing: a drive still at an earlier
command or its interrupt not yet taken; `cur_selected` equal but for the other
bus; a PIO transfer with the flag still set, or of several sectors (the flag is
not cleared between them); the second wait of a packet; and a PIO command that
fails, or into whose wait a spurious interrupt falls, neither of which the driver
looks at. `ata_lock` is not in the model: it
never excludes (see below).

A count of 65535 sectors is sent as 0, which drives read as 65536 (`Count`).
`ata_write`, `atapi_send_packet` and the PIO writes have no caller in the kernel;
they are modelled as they would be called. A drive may be told an address behind
its end; what it moves then is still that address, which only a caller without an
excuse may not meet. `EXT_MAX` is 65536 and needs to be more than 2 here, for
`Count` not to take a request of one sector for the wrapping one. Power management and the PCI
parameters of `ata_init` are left out; it uses the first IDE controller only.

### Fat32, Vfs, Acpi, Pci, Files

These modules take a machine from power-on to programs that use files.
`Files.tla` is the state machine; the other four are operators it is made of.

| Module | Code | As |
|---|---|---|
| `Pci` | `pci.c` | the order in which functions are found, bridges followed; `ata_controller` takes the first |
| `Acpi` | `acpi.c`, `power.c` | which pages are mapped when a table is read: a read outside is a page fault |
| `Fat32` | `fat32.c`, `read_ata_bytes` | a disk is a sequence of units (boot record, table entry, directory entry, datum); a read says which units it gives |
| `Vfs` | `vfs.c`, `initrd.c`, and the methods that `fat32.c` and `ata.c` hang on nodes | paths as sequences of components, the tree of mounts, the walk of `kopen` |
| `Files` | `kernel_main`, `syscall.c`, descriptors in `task.c`, `load_program` | boot steps, then one action a system call |

A call is one step: a program that waits for the disk has its frames on the one
kernel stack, and if another program entered the kernel they would be gone
(`KernelStack`); within that limit calls do not interleave. Reads of single
sectors succeed here (`read_ata_bytes` does not look whether they did; `Ata`
says when they do).

Data is in units, not bytes: a read that begins between two units is not in the
model. Names are their two parts and the relation `Begins` (which name is the
front of which entry), `OneLetter` (which parts `fat32_get_entry_name` trims to
nothing). `STRAY` is what code takes from memory that nobody filled; a read whose
buffer it overruns ends the machine (`smash`), as does the use of an unset
pointer (`wild`), a page fault, a panic and a walk without an end (`hang`).
`heapWord` is what `kmalloc` happened to return in the never initialised counts
of the initrd's nodes. Descriptors count from 1.

`MachinesAssumption` of `Files` says only which data a machine is made of: an
initrd of names and lengths, any word in the heap, paths to ask for, tables at
addresses (`FirmwareOk`), and functions at places that fit PCI's addresses, with
every bridge naming a bus above its own (`PciOk`). Where a bridge led back to its own
bus or to one between it and the host, the enumeration in `pci.c` would call itself
without end; firmware does not number buses so, and nothing here is said of such a
machine.
`DisksAssumption`: disks are whole sectors, and the numbers of clusters on them have
the 28 bits that FAT32 gives them (`UnitOk`); any chains, entries and names may
stand there. `PciAssumption`: there are no more host bridges than buses.
`VfsAssumption` says that `..` and `.` differ.

The properties compare with meanings that are written independently of the code
(`Meaning` of a path, `Named`, `Datum`, `Readable`, `Sound`). They say where they
promise nothing: a FAT32 directory that is not `Tidy` (`Spans`: its clusters and
their links are on the disk; `Holds`: all its entries stand there in front of an
end mark; `Ordered`: directories, which have no extension, in front of files, which
have one, and no name the beginning of another), or a name that is not `Clear`,
since the search matches names by their beginnings and never finds a directory
with an extension or one behind a file; reads inside a
cluster that leave it; ranges beyond the end of a raw disk; the tables of a slot
that was killed twice or more. A bus is one that the scan must come to (`Visible`)
if every set of buses that has those of the host bridges and, with a bus, those
its bridges name (`Joined`) has it.

## Runs

| Run | Instance | Shows |
|---|---|---|
| `tasks` | 4 slots, nobody `Watched`, 1.5 million states | with arbitrary calls: types; `PidIsSlot`; `SomeoneRunnable`; `BoundedWaiting`; `KernelTaskRetired`; `ImplementsRoundRobin` |
| `tasks_waitpid` | 4 slots | violation: `waitpid` misses an exit when the slot is reused between two polls |
| `tasks_created` | 4 slots | violation: a process inherits the blocked state of its slot's last tenant |
| `launch` | 5 slots | for the programs as written: `EnvReady`, `NoHeldWait`, `OneReader`, and `ShellResumes` under fairness |
| `kernel_stack` | 5 slots, `esp0` moved up to 4 times | `PollersIntact`, `KeepsFrames` |
| `kernel_stack_calls` | the same | violation: a `waitpid` preempted in its lookup loses that call's frames |
| `keyboard` | buffer and lines of 6 | `ImplementsKeyQueue`, `LineAsEdited`, `KeysRead` under fairness |
| `disk` | a bus with one of 4 machines (DMA disks with and without 48-bit addresses, a CHS disk with a CD drive, nothing), requests for up to 3 sectors of 2, 856 thousand states | `ImplementsBlockDevice`, `ReadLeavesRest`, and `RequestAnswered` under fairness |
| `frames` | 18 frames of 4 entries, 2 slots, 5 programs, 469 thousand states | `OneUser`, `AddressSpaces`, `LeaksTwo`, `LoadFits` |
| `files` | 26 machines, 2 slots, tables of up to 2 descriptors, 2 kills, 272 thousand states | `OpensNamed`, `ReadsBytes`, `OwnFiles`, `RefsCounted`, `StopsForCause` |
| `heap` | 16 bytes, headers of 2, requests of 1, 2 and 5 | `HeldApart`, `RefusalIsFinal` |
| `heap_free` | the same | violation: freed memory is not had again |

*Why the bounds are enough.* With four slots there are the kernel task, init, a
waiter and one slot that is freed and reused, or all full: every case of
`getFinalElement`, of the cyclic search and of reuse occurs. With five slots in
`Launch` there are init, two nested shells, and a command beside or below them,
so a shell waits for a shell and slots are reused. In `KernelStack` four moves
of `esp0` are init's wait, a nested shell's, and waits after an inner one has
returned, with `esp0` left deep. In `Keyboard` five keys make two lines, a line
with two backspaces, and a NUL with keys after it. In `Heap` several blocks fit,
each size can be refused while a smaller one would still have fitted, and the
limit leaves room for requests after the first refusal. In `Ata` requests follow
each other without bound; two sectors and a limit of three make a request within,
across and outside the disk, at and past `SHORT_MAX`, and at the count that wraps,
and with `HeadSpan` 1 the address needs the head register. In `Frames` two slots
and twelve frames let a directory be freed and taken again by the next process
while its owner runs on, a slot be reused with entries of its last tenant behind
its own, and memory run out; `TASK_MAX_FRAMES` of 2 lets a program of three pages
meet the panic. `View` leaves out what a frame holds while it is neither directory
nor table, which nothing reads. In `Files` two kills of a slot reach its third tenant, with
the table that `refs` no longer closes; a capacity of 1 makes the second open
enlarge the table; clusters of one sector of two units, a file of three units in
two clusters that do not follow each other, and sizes 1 to 3 give reads inside, across and at the
end. Each of the machines has what it takes to see one thing: 13 firmwares, 5
buses, tidy, untidy, full, looping, partitioned and far disks, and one whose
directory and file lead back into themselves. `MaxBelow`
bounds a count that `chdir` to a file of the initrd drives down for ever where
it started negative.

*Deadlock* is checked in all runs but `frames` and `files`, where the machine may
stop: a panic, a page fault, or the ends named above. Powered off, `Launch`
stutters explicitly, and so does `KernelStack` where a call has lost its frames.

*Fairness.* `FairSpec` of `Tasks`, used by the two violation runs, assumes that
the timer keeps firing (`SF(Tick)`), that a task which has the processor again
and again executes its poll (a turn is a millisecond, a poll some nanoseconds),
and that an atomic period ends if its program gets on. Strong fairness, because
each is enabled only while the task runs. `LaunchFairSpec` assumes the timer,
and of each slot that a program given the processor again and again takes its
next step: loads end and commands end. It assumes nothing of the user: shells
may stand at their prompts for ever, and `init` need not be shut down. `Keyboard`
assumes that a reader gets on (`WF(Read)`): it runs with interrupts on, and
nothing that others do disables its next step. `AtaFairSpec` assumes that the
driver gets on (`WF(Driver)`): each turn of a wait is ended by the timer's
interrupt. It assumes nothing of the drives, which may stay silent.

## What the runs found

* `waitpid` (`task.c:183`: "waits until task with pid has exited") looks up the
  slot once and polls `used`. Parent and child `w`, `c`: `c` is killed, another
  process creates a task before `w` polls, and it gets `c`'s slot. `w` goes on
  waiting. `Launch` shows that the programs of `user/` do not get there: only
  the deepest shell creates processes, and it is the one that waits.
* `createTask` does not set `state`. After `kill(0)` from a process and its
  death, its slot is dead for every later tenant, against `doc.txt:3`.
* `waitpid` opens interrupts before it calls `task_for_pid`, whose frames lie
  below `esp0`. If the timer comes in that call, the child's first entry
  overwrites them, and the parent returns through what is left. `getchar` is
  open in the same way, while its task is not the only one that runs. In the
  polling loop, in a load and in the kernel task the frames are safe: that is
  proved.
* `tmalloc_free` writes `is_free = false`. Nothing is ever free again, against
  `program.c:36` ("Frees a program in memory."); were it written true,
  `tmalloc_malloc` would refuse the block, its test of the magic is inverted.

Modelling the rest brought up the following; the passing runs have these cases
in them, and their properties are stated around them.

* The spinlock sets its bit in the argument's copy on the stack
  (`spinlock.asm:10`): `vfs_lock` and `ata_lock` never exclude anyone.
* A failed `open` yields a descriptor (`syscall.c:108`), where `cat` tests for -1
  (`user/cat/main.c:26`); the next call that uses it panics.
* `fd_table.refs` is set at boot only. The second tenant of a slot is not closed
  when killed, and from the third on processes inherit files. The working
  directory is inherited too, until a launcher sets it.
* A kill of a process that was never switched out frees frame 0, which
  is then handed out; every kill loses `frames[0]` and the stack's page (`LeaksTwo`).
* With no disk, `kernel_main` reads from a NULL node (`kernel.c:161`).
* `read_ata_bytes` cuts a range past the end to `max - size` (`ata.c:277`), and
  ignores whether `ata_read` succeeded.
* `fat32_read_file` copies past its buffer in a read that begins inside a cluster
  and leaves it (`fat32.c:388`). Names match by their beginnings; a file without
  an extension in its name ends the search at the first file (`:292`); a part
  of one letter is trimmed to nothing (`:327`), so that the search at the next read may find
  another file; a directory without an end mark leaves the result unset (`:307`).
* A partition beyond 4 GB has its place cut to 32 bits (`fat32.c:503`).
* A FADT that was not found is read at NULL, where the first megabyte is mapped
  (`acpi.c:238`); a DSDT that begins inside a page may end on one that is not
  mapped (`:247`).
* The counts of the initrd's shared nodes start as whatever the heap held, and a
  count that comes to 0 frees a node that is still in use. Only that `kfree` frees
  nothing keeps this without effect.

## Proofs

All theorems hold for every value of the constants that satisfies the module's
`ASSUME`s: two slots or more; a buffer of two or more; positive sizes, limits and
counts; the layouts of kernel and programs, the machines and the firmware's pages
of the kinds given above. None bounds the number of processes, sectors, frames,
machines, programs, tables or paths.

Recursive functions (a path's components, a chain of mounts, the descriptors a
kill closes, a line of keys) are reasoned about by induction: `LeastNatural` picks
the least number of a set that has one, from the well-foundedness of `<`, and
`AllNaturals` follows for the set of the numbers at which a claim holds.

`LaunchProofs.tla`, first about `Tasks`. The properties are not inductive: that a
runnable task exists needs that process 1 is in slot 1, used and active, once there is any
process; that needs that pids are slots, for `IsTaskForPid` to spare it; and
`BoundedWaiting` needs a measure. `IInv` has these parts:

* `TypeOK`;
* `Control`: the running task's pid is its slot; `PidIsSlot`; the kernel task is
  first (until it gives the processor away, it runs); `init` is alive;
* `PassesBounded`: for a runnable `k`, `passes[k]` plus the distance still to go
  from the running task to `k` is at most `MAX_TASKS`. Each switch that passes
  over `k` shortens the distance by at least one.

From `Invariance` follow `PidIsSlotInvariant`, `SomeoneRunnableInvariant`,
`BoundedWaitingInvariant`, and, with one step each, `KernelTaskRetires` and the
refinement `RefinesRoundRobin` (initial states map to initial states; `schedule`
maps to `Switch`, every other step to `Change` or a stutter).

Then about `Launch`. `LaunchRefinesTasks` shows that each step of `Launch` is a
step of `Tasks` or leaves its variables alone, so `IInv` holds of it. On top,
`Protocol` says how the labels of a program go with `doing`, that a program
between `BeginAtomic` and `EndAtomic` runs with the scheduler held off, and that
only its child may lack arguments, which has not run (`OnlyChild`). `EnvReady`
and `NoHeldWait` follow.

`OneReader` needs `Chain`: every used slot has a program (`Inhabited`), a program
that waits polls its child (`PollsChild`), no two have the same living child
(`OneParent`), and one program at most is at the end of the chain of parents and
children: alive, with nobody alive that it has started (`OneLeaf`). A launch makes
the child the end, an exit gives it back to the parent, which may not have noticed
yet, and no other step moves it; so nested shells, in whatever slots, never read
keys together. `LaunchTypeCorrect` is part of it.

`KernelStackProofs.tla`. `StackRefinesLaunch` brings everything above to the
programs on their stack. `SInv` then says, slot by slot, who may have what
where: a polling `waitpid` has its frames at `esp0` or above (`Poller`); one in
its lookup has exactly the two units around `esp0`, unless it has lost them
(`Looker`: whoever moved `esp0` since has pushed there first); a task that loads
a program has them no deeper than the stack pointer, and runs (`Loader`, by
`Held` of `Protocol`); a program outside the kernel has none (`Bare`); and
nothing runs in the kernel above `esp0` (`AtDepth`). `SlotKept` shows that a
step of one slot leaves every other slot's part alone. `PollersIntact` and
`KeepsFrames` follow.

`KeyboardProofs.tla`. `KInv`: types; only NULs behind the keys typed
(`NothingBehind`); a reader past its poll has a key to take (`Counted`);
`getline` has moved by no more than the keys it has seen (`Reach`). Of the
refinement, a key that leaves string and index in step was appended at the index
(`KeyIsQueued`), a take is the head (`TakeIsHead`), and every other step leaves
the queue alone. `LineAsEdited` needs that the line so far is the edit of the keys
taken so far (`LineKept`), for `Edited` is a function along what was typed: one key
more is one `Edit` more, and a key taken is one that the earlier ones leave alone.

`HeapProofs.tla`. `HInv`: types, blocks in address order and each ending before
the next begins (`Ordered`), all below the index, which has passed the limit if
a request was refused (`Spent`), none free (`NoneFree`). `HeldApart` and
`RefusalIsFinal` follow.

`FramesProofs.tla`. `OneUser` and `AddressSpaces` need each other: that a write to
one table leaves the other directories alone needs that no frame has two users,
and that needs that tables hold what was put there. `FramesInv` has:

* `Typed` and `Control`: who runs, in which directory, and who is being made;
* `Sound`: no frame has two users, and all used ones are taken. `Separate` is what
  it means for directories and tables, and the form in which the steps use it;
* `Spaces`: a process's user pages lie in its own frames and the kernel's pages are
  in every directory in use, also in the half-made one, of which the loops have
  copied (`Copied`) or mapped (`Mapped`) so much; `KernelClean`: the directory all
  others are copied from has no user pages.

Frame 0 is both a frame and the answer that none is free. While there is no excuse
it has one user at most, so that whatever came as 0 was frame 0 (`TwoZeros`: two
users of it mean `OutOfFrames`); the kernel boots with the bit of frame 0 set, so
there a 0 means that all is taken, and stays so (`FullGrows`): boot may run out
unnoticed, and the model is over when it ends. From the loop invariant `Mapped`
comes `LoadFits`: every page of the file is mapped when the loading begins.
`KillLeaksTwo` counts what a kill leaves behind: `frames[0]` and the stack's.

`AtaProofs.tla`. `AtaInv` has types; where boot and request are (`Controlled`);
what is left of a request, and which steps its kind goes through (`Counted`); that
the drive/head register is what `cur_selected` says if that was last written for
this bus (`SelectionKnown`); and `Honest`, what a request without an excuse finds
at each of its steps. By PIO the interrupt flag is set for a sector that is ready
and never else (`PioHonest`); by DMA for one that has moved, or in trouble
(`DmaHonest`). That the sector is the right one is `AddressFound`: what the driver
puts into the registers (CHS, 28 or 48 bits) the drive takes apart into the same
address, which for CHS is arithmetic about quotients of quotients (`DivDiv`).
`PicStill` shows that the controllers are at rest after every interrupt, spurious
ones included, so that the timer of the next wait comes. `RefinesBlockDevice` maps
the beginning of a request to `Ask`, a refused one to `Refuse`, a drive that fails,
a spurious interrupt and a wait that runs out to `Trouble`, the return to `Succeed`
or `Fail`, and all other steps to none.

`FilesProofs.tla`. `FilesInv` has:

* `BootInv`: the mounts are a tree (`IsTree`: no path twice, a root, the entries
  above an entry there), and before the first program all tables are empty. That
  a mount keeps it is an induction over the path; that `get_mount_point` climbs to
  the deepest mount (`MountPoint`) another;
* `TablesInv`, `SizesInv`: tables are sequences within their capacity, whose
  shared nodes are the initrd's; `refs` is one less for each kill;
* `OwnInv`: what a process holds is open in its table, and until the slot's second
  kill nothing else is. This is stronger than `OwnFiles`, which speaks of used
  slots: a table that a kill did not close waits in an unused one;
* `CountInv`: `RefsCounted`, with the types of the counts. For a kill the loop that
  closes the table is followed descriptor by descriptor (`ClosedSteps`,
  `ClosedCounts`): each step takes one off the count and one reference away.

`EndInv` adds the ways the machine may stand, and that `init_acpi`, which changes
directories, returns in the kernel's on each of its ways out (`InitAcpiIsOk`), as
`vmm_cur_directory` and `cr3` would differ otherwise.

From there it goes on to what is found. `PathMeaning` is about the words of a path
alone: `canonicalize_path`, which folds them onto the directory one by one and is
so modelled (`Component`), ends at `Meaning`, which says of each name whether it
stays from the ups and names behind it. The proof keeps, after n components, that
the result is the subsequence of those that stay, and that an up removes the last
of them, the one whose balance it tips (`Balanced`, `PickedStep`, `StayingUp`,
`StayingName`). `FoundInv` then relates every table to the disks: what a process
holds is the node that a search of the call's path finds now, at the offset that
the reads on it have reached; an open was refused only if that search finds
nothing; and every working directory is a directory. It needs `OwnInv`, as a
descriptor which a kill of the tenant before left open is not what the process
opened. `PathsMeanInvariant`: every call searches the path that its words mean
in its caller's directory.

`OpenExact` closes the gap to `Named`, and with it `OpensNamed`. From below: a range
comes out of `read_ata_bytes` as it stands on the disk (`RangeIs`, arithmetic about
quotients), so a cluster does too (`ClusterIs`); the walk of the table gives the
links up to the first that stops it (`ChainIs`, by induction over its steps); end
to end the clusters are the units of the directory (`FlattenBlocks`, `ListingIs`).
There the first unit at which the search stops is the entry with the name, if one
has it, and else an end mark or a file where a directory was looked for
(`StopsAtEntry`, `StopsElse`), which is where each conjunct of `Ordered` and `Clear`
is needed. The rest is an induction along the path from the deepest mount. The
theorem is about every disk: where no directory on the way is tidy, `Plain` fails
and nothing is claimed, as in the run.

`ReadsBytes` needs three things more. `MountsInv`: what may stand where in the tree.
`GivenInv`: an answer of a read is what `read_fs` reads of the node that the search
of the path finds, and a listed name is one of the directory found there; it rests
on `FoundInv`, as descriptors keep the node they were opened with. And that the node
leads to its file again: `fat32_read` searches the parent by the node's name, cut
as `fat32_get_entry_name` cuts it, and still finds that entry (`Rereads`, for every
file that a plain path leads to). Then `CopiedIs` says what the rounds of
`fat32_read_file` copy, and `ReadTrue` puts it against the labels of the disk
(`Stored`), `RawTrue` and `InitrdTrue` the same for a raw disk and the initrd.

`StopsProofs.tla`. `StopsForCause` speaks of every way in which the boot and the
calls may end, so its proof goes through the modules below `Files` one by one:

* `Acpi`: with `Readable` tables every table that `init_acpi` reads lies in pages it
  has mapped, and with `Complete` ones it ends with a FADT and the sleep values
  (`InitAcpiReads`);
* a chain: a walk of the table without an end follows more links than the disk
  holds, so two of them lead to one cluster, or one leads back to the beginning,
  which an entry or the boot record names, and the disk is not `Sound`
  (`HangIsUnsound`). So mounting ends, or the disk is unsound (`InitFat`);
* a search: every node it reaches is one that an entry of the disk describes, so
  its chain is one of those (`Reaches`, by induction along the path: `OpenReaches`),
  and it runs wild only in a directory that is not tidy or where no root is mounted
  (`OpenStops`);
* a read: bytes come, or the chain has no end, or the name was not plain, or a raw
  disk was read beyond its ends (`ReadComes`; a load reads all of a file and never
  more: `LoadComes`);
* the bus: the buses that the scan has come to within so many bridges are ever more,
  until after as many steps as there are buses they stay (`BusesStay`); those are
  `Joined`, so whatever is visible is on one of them (`VisibleFound`). Where `ata_init`
  finds no controller, none is visible (`ControllerFound`).

`PlacesInv` says where root and first disk are mounted, so that `kopen("/dev/hda")`
fails only without a disk (`DiskThere`). `StopsInv` is `StopsForCause` with one fact
more: the tables that shutdown uses are those `init_acpi` found. The steps also need
`FoundInv`, as a descriptor's node was found when it was opened and is read later,
and `OwnInv`, as a process that uses what it holds must not panic.

*Only model-checked*: `ShellResumes`, `KeysRead` and `RequestAnswered`, which are
liveness under fairness and out of the prover's reach, and the four violations.
Every other property of the runs is a theorem.

## Not modelled, and the plan

Next: a composition of `Ata` under `Files`, so that a read may fail, and one of
`Heap` under `Frames`, so that `kmalloc` may.

Not modelled: the spinlock, which does nothing (above); `udi.c`, a list of one
graphics driver; `fdc.c` and `dma.c`, which nobody calls, and `ahci.c`, which
only detects; screen, serial, graphics and Deer, which are output; clock and
random numbers, of which nothing but output depends; FPU state, which is data;
CPUID, MSR and BIOS access, which read registers; FAT12, whose code is commented
out; the C library's string functions, which unit tests reach; what has no
caller in `types/`, `vfs.c`, `vmm.c` and `elf.c`; the descriptor tables, which are
set once, and the APIC code, whose call is commented out. Outside `Ata` an
interrupt is taken to be over, its end told, before the next one comes, which
`Pic` and `bus.pic` of `AtaTypeOK` show for the handlers that the disk waits meet.
