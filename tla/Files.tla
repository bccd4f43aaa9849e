--------------------------------- MODULE Files ---------------------------------
(***************************************************************************)
(* From power-on to programs that use files: the boot of kernel_main       *)
(* (src/kernel/kernel.c), which looks for the firmware's tables and the    *)
(* disks and mounts what it finds, and then the system calls for files     *)
(* (user/syscall.c) over the descriptor tables of the tasks                *)
(* (multitasking/task.c), which slots keep from one process to the next.   *)
(*                                                                         *)
(* A call is one step: while one waits for the disk no other program may   *)
(* be in the kernel (KernelStack).  Descriptors count from 1 here.         *)
(***************************************************************************)
EXTENDS Vfs, Acpi, Pci

CONSTANTS
    Machines,      \* what may be switched on, and what its programs ask for
    SLOTS,         \* the slots of tasks[] behind the kernel's
    FD_CAPACITY,   \* the first capacity of a descriptor table
    INIT_PATH,     \* of the first program
    \* Bounds: the places of a table, the kills, the opens of descriptors, how
    \* far into a file reads begin, and how far below 0 a count is brought.
    MaxFds, MaxKills, MaxOpens, MaxPlace, MaxBelow

ASSUME FilesAssumption ==
    {SLOTS, FD_CAPACITY, MaxFds, MaxKills, MaxOpens, MaxPlace, MaxBelow} \subseteq Nat \ {0}

\* The initrd lists names and lengths, and programs ask for paths.
ASSUME MachinesAssumption ==
    /\ INIT_PATH \in Seq(STRING)
    /\ \A i \in DOMAIN Machines :
         /\ Machines[i].initrd \in Seq([name : STRING, length : Nat])
         /\ Machines[i].heapWord \in Int
         /\ Machines[i].asks \subseteq [absolute : BOOLEAN, path : Seq(STRING)]
         /\ Machines[i].sizes \subseteq Nat
         /\ PciOk(Machines[i].pci) /\ FirmwareOk(Machines[i].firmware)

VARIABLES
    machine,     \* external: which of Machines this is
    pc,          \* how far kernel_main is
    stopped,     \* "no", or how the machine came to its end
    acpi,        \* what init_acpi found
    controller,  \* where ata_init found its controller
    tree,        \* mount_tree and fs_root
    volume,      \* the globals of fat32.c
    used, cwd,   \* of a task: its slot is used, its pid.path
    entries, capacity, refs,  \* its fd_table; of an entry, its node and offset
    initrdCount, \* the refcount of each of root_nodes
    reply,       \* what the last call gave its program
    holds,       \* history: the descriptors a process was given, by their paths
    kills,       \* history: how often a slot was killed
    opens,       \* history: the descriptors given so far
    loads,       \* history: how often a file of the initrd was loaded
    initrdFreed  \* history: the nodes of the initrd given to kfree

bootVars == <<machine, pc, acpi, controller, tree, volume>>
taskVars == <<used, cwd, entries, capacity, refs>>
history == <<holds, kills, opens, loads, initrdFreed>>
filesVars == <<bootVars, stopped, taskVars, initrdCount, reply, history>>

Slots == 1 .. SLOTS
Fds == 1 .. MaxFds

Hardware == Machines[machine]

\* The disks of the controller that the kernel took, and the initrd.
DisksAt(m, place) == IF place = <<>> THEN [u \in 1 .. 4 |-> <<>>] ELSE m.ide[place]
Seen(m, place) == [initrd |-> m.initrd, disks |-> DisksAt(m, place)]
Here == Seen(Hardware, controller)

\* The disks that the kernel takes are of whole sectors.
Units(disk) == {disk[i] : i \in DOMAIN disk}
ASSUME DisksAssumption ==
    \A i \in DOMAIN Machines, u \in 1 .. 4 :
        LET disk == DisksAt(Machines[i], ata_controller(Machines[i].pci))[u]
        IN  /\ disk \in Seq(Units(disk)) /\ Len(disk) % SECTOR = 0
            /\ \A unit \in Units(disk) : UnitOk(unit)

NoFd == [node |-> NULL, count |-> 0, offset |-> 0]
NoReply == [op |-> NONE]
NoHold == [path |-> NONE]
Held(s) == {fd \in Fds : holds[s][fd] # NoHold}

FilesInit ==
    /\ machine \in DOMAIN Machines
    /\ pc = "vfs" /\ stopped = "no"
    /\ acpi = NoTables /\ controller = <<>>
    /\ tree = <<>> /\ volume = NoVolume
    /\ used = {} /\ cwd = [s \in Slots |-> <<>>]
    /\ entries = [s \in Slots |-> <<>>]
    /\ capacity = [s \in Slots |-> FD_CAPACITY]
    /\ refs = [s \in Slots |-> 1]
    /\ initrdCount = [i \in DOMAIN Hardware.initrd |-> Hardware.heapWord]
    /\ reply = NoReply
    /\ holds = [s \in Slots |-> [fd \in Fds |-> NoHold]]
    /\ kills = [s \in Slots |-> 0] /\ opens = 0
    /\ loads = [i \in DOMAIN Hardware.initrd |-> 0]
    /\ initrdFreed = {}

-----------------------------------------------------------------------------
(* Boot.                                                                   *)

At(label, next) == stopped = "no" /\ pc = label /\ pc' = next

\* init_vfs, map_vfs_directory("/dev"), initialise_initrd.
MountInitrd ==
    /\ At("vfs", "acpi")
    /\ tree' = vfs_mount(vfs_mount(init_vfs, <<"dev">>, vfs_mapper(<<"dev">>)),
                         <<"dev", "initrd">>, initrd_root)
    /\ UNCHANGED <<machine, acpi, controller, volume, stopped, taskVars, initrdCount, reply, history>>

InitAcpi ==
    /\ At("acpi", "pci")
    /\ acpi' = init_acpi(Hardware.firmware)
    /\ stopped' = IF acpi'.is = "fault" THEN "fault" ELSE "no"
    /\ UNCHANGED <<machine, controller, tree, volume, taskVars, initrdCount, reply, history>>

DiskPath(unit) == <<"dev", <<"hda", "hdb", "hdc", "hdd">>[unit]>>

WithDisk(t, disks, unit) ==
    IF disks[unit] = <<>> THEN t
    ELSE vfs_mount(t, DiskPath(unit), ata_device_create(unit, disks[unit]))
WithDisks(disks) ==
    WithDisk(WithDisk(WithDisk(WithDisk(tree, disks, 1), disks, 2), disks, 3), disks, 4)

\* pci_check_all_buses; ata_init mounts each drive that answers.
ScanPci ==
    /\ At("pci", "disk")
    /\ controller' = ata_controller(Hardware.pci)
    /\ tree' = WithDisks(DisksAt(Hardware, ata_controller(Hardware.pci)))
    /\ UNCHANGED <<machine, acpi, volume, stopped, taskVars, initrdCount, reply, history>>

\* The last active partition of the boot record in bytes, or the whole disk.
ActivePartition(bytes) ==
    LET active == {i \in DOMAIN bytes[1].partitions : bytes[1].partitions[i].active}
    IN  IF bytes[1].kind # "boot" THEN 0
        ELSE IF active = {} THEN 0
        ELSE bytes[1].partitions[CHOOSE i \in active : \A j \in active : j <= i].lba

\* kernel_main reads the disk it opened, whether there is one or not, and
\* mounts the file system it finds as the root.
MountFound(found) ==
    CASE found.is = "hang" -> stopped' = "hang" /\ UNCHANGED <<tree, volume>>
      [] found.is = NONE -> UNCHANGED <<stopped, tree, volume>>
      [] OTHER -> /\ volume' = found.volume
                  /\ tree' = vfs_mount(tree, <<>>, fat32_create_fs_node(found.volume))
                  /\ UNCHANGED stopped
FirstSector(hda) == read_fs(Here, volume, hda, 0, SECTOR).bytes
MountOn(hda) ==
    IF hda.is = "node"
    THEN MountFound(init_fat32(Here.disks[1], ActivePartition(FirstSector(hda.node))))
    ELSE stopped' = "fault" /\ UNCHANGED <<tree, volume>>
MountDisk ==
    /\ At("disk", "run")
    /\ MountOn(kopen(Here, volume, tree, DiskPath(1)))
    /\ UNCHANGED <<machine, acpi, controller, taskVars, initrdCount, reply, history>>

-----------------------------------------------------------------------------
(* The pieces of the calls.                                                *)

Open(path) == kopen(Here, volume, tree, path)

\* The initrd's nodes are shared: opening and closing moves a count that
\* nobody initialised, and at 0 close_fs frees the node.
IsShared(node) == node.fs = "initrd" /\ node.flags = "file"
Opened(counts, node) ==
    IF IsShared(node) /\ counts[node.inode] >= 0
    THEN [counts EXCEPT ![node.inode] = @ + 1] ELSE counts
ClosedNot(counts, node) == counts
Closed(counts, node) ==
    IF IsShared(node) /\ counts[node.inode] # -1
    THEN [counts EXCEPT ![node.inode] = @ - 1] ELSE counts
FreedBy(counts, node) ==
    IF IsShared(node) /\ counts[node.inode] = 1 THEN {node.inode} ELSE {}

\* open_fs on a new node.
NewFd(node) == [node |-> node, offset |-> 0,
                count |-> IF node # NULL /\ Counted(tree, node) /\ ~IsShared(node) THEN 1 ELSE 0]

\* task_append_fd: the first empty place, or one behind the last.
FreeFd(s) ==
    LET empty == {i \in DOMAIN entries[s] : entries[s][i].node = NULL}
    IN  IF empty = {} THEN Len(entries[s]) + 1 ELSE Min(empty)
task_append_fdLate(s, fd, entry) ==
    /\ entries' = [entries EXCEPT ![s] =
                       IF fd > Len(@) THEN Append(@, entry) ELSE [@ EXCEPT ![fd] = entry]]
    /\ capacity' = IF fd > capacity[s] + 1 THEN [capacity EXCEPT ![s] = 2 * @] ELSE capacity
task_append_fd(s, fd, entry) ==
    /\ entries' = [entries EXCEPT ![s] =
                       IF fd > Len(@) THEN Append(@, entry) ELSE [@ EXCEPT ![fd] = entry]]
    /\ capacity' = IF fd > capacity[s] THEN [capacity EXCEPT ![s] = 2 * @] ELSE capacity

\* fd_check
IsFd(s, fd) == fd \in DOMAIN entries[s] /\ entries[s][fd].node # NULL

\* What a path means: of the components of from and input, in their order,
\* those stay that no UP behind them takes back.
Meaning(from, input) ==
    LET all == IF input.absolute THEN input.path ELSE from \o input.path
        ups(i, j) == {k \in i .. j : all[k] = UP}
        names(i, j) == {k \in i .. j : all[k] \notin {UP, DOT}}
        stays == {k \in names(1, Len(all)) : \A j \in k .. Len(all) :
                     Cardinality(ups(k + 1, j)) <= Cardinality(names(k + 1, j))}
    IN  FlattenSeq([i \in DOMAIN all |-> IF i \in stays THEN <<all[i]>> ELSE <<>>])

Runs(s) == stopped = "no" /\ pc = "user" /\ s \in used
Ends(how, call) == stopped' = how /\ reply' = call
Goes(call) == stopped' = "no" /\ reply' = call


-----------------------------------------------------------------------------
(* The calls.                                                              *)

\* sys_open: a search that finds nothing gives a descriptor all the same.
\* With O_APPEND it then takes the length from NULL, which is the process's
\* stack page; no call uses such a descriptor.
OpenFound(s, means, append, found) ==
    LET fd == FreeFd(s)
        call == [op |-> "open", path |-> means, ok |-> found.is = "node"]
        place == IF append THEN found.node.length ELSE 0
    IN  /\ fd \in Fds
        /\ IF found.is \in {"node", NONE}
           THEN /\ Goes(call)
                /\ task_append_fd(s, fd, [NewFd(found.node) EXCEPT !.offset = place])
                /\ initrdCount' = Opened(initrdCount, found.node)
                /\ holds' = IF found.is = NONE THEN holds
                            ELSE [holds EXCEPT ![s][fd] = [path |-> means, at |-> place]]
           ELSE /\ Ends(found.is, call)
                /\ UNCHANGED <<entries, capacity, initrdCount, holds>>
        /\ initrdFreed' = initrdFreed \union found.freed
sys_open(s, input, append) ==
    /\ Runs(s) /\ opens < MaxOpens
    /\ OpenFound(s, Meaning(cwd[s], input), append, Open(canonicalize_path(cwd[s], input)))
    /\ opens' = opens + 1
    /\ UNCHANGED <<bootVars, used, cwd, refs, kills, loads>>

\* sys_close
sys_close(s, fd) ==
    LET node == entries[s][fd].node
    IN  /\ Runs(s)
        /\ IF IsFd(s, fd)
           THEN /\ Goes(NoReply)
                /\ entries' = [entries EXCEPT ![s][fd] = NoFd]
                /\ initrdCount' = Closed(initrdCount, node)
                /\ initrdFreed' = initrdFreed \union FreedBy(initrdCount, node)
                /\ holds' = [holds EXCEPT ![s][fd] = NoHold]
           ELSE /\ Ends("panic", [op |-> "close", slot |-> s, fd |-> fd])
                /\ UNCHANGED <<entries, initrdCount, initrdFreed, holds>>
        /\ UNCHANGED <<bootVars, used, cwd, capacity, refs, kills, opens, loads>>

\* sys_read_fs
ReadGives(s, fd, size, answer) ==
    IF answer.is # "bytes"
    THEN Ends(answer.is, [op |-> "read", slot |-> s, fd |-> fd, size |-> size])
         /\ UNCHANGED <<entries, holds>>
    ELSE /\ Goes(IF fd \in Held(s)
                 THEN [op |-> "bytes", path |-> holds[s][fd].path, from |-> holds[s][fd].at,
                       size |-> size, bytes |-> answer.bytes]
                 ELSE NoReply)
         /\ entries' = [entries EXCEPT ![s][fd].offset = @ + Len(answer.bytes)]
         /\ holds' = IF fd \in Held(s)
                     THEN [holds EXCEPT ![s][fd].at = @ + Len(answer.bytes)] ELSE holds
sys_read_fs(s, fd, size) ==
    LET here == entries[s][fd]
    IN  /\ Runs(s)
        /\ IF IsFd(s, fd)
           THEN /\ here.offset <= MaxPlace
                /\ ReadGives(s, fd, size, read_fs(Here, volume, here.node, here.offset, size))
           ELSE /\ Ends("panic", [op |-> "use", slot |-> s, fd |-> fd])
                /\ UNCHANGED <<entries, holds>>
        /\ UNCHANGED <<bootVars, used, cwd, capacity, refs, initrdCount, kills, opens, loads,
                       initrdFreed>>

\* Calls that tell of a descriptor, or change nothing: sys_stat, which only
\* looks at the node, and sys_write_fs, for no file system writes.
Looks(s, fd) ==
    /\ Runs(s)
    /\ IF IsFd(s, fd) THEN Goes(NoReply)
                       ELSE Ends("panic", [op |-> "use", slot |-> s, fd |-> fd])
    /\ UNCHANGED <<bootVars, taskVars, initrdCount, history>>
sys_stat(s, fd) == Looks(s, fd)
sys_write_fs(s, fd) == Looks(s, fd)

sys_readdir(s, fd, index) ==
    /\ Runs(s)
    /\ IF IsFd(s, fd)
       THEN LET name == readdir_fs(Here, tree, entries[s][fd].node, index)
            IN  Goes(IF fd \in Held(s) /\ name \notin {NONE, UP, DOT}
                     THEN [op |-> "name", path |-> Append(holds[s][fd].path, name)] ELSE NoReply)
       ELSE Ends("panic", [op |-> "use", slot |-> s, fd |-> fd])
    /\ UNCHANGED <<bootVars, taskVars, initrdCount, history>>

\* sys_chdir of a process, its own or another's; a path that is not found
\* changes nothing, and neither does a file.
task_set_working_directory(pid, path) == cwd' = [cwd EXCEPT ![pid] = path]
ChdirFound(pid, path, found, means) ==
    LET opened == Opened(initrdCount, found.node)
    IN  /\ IF found.is \in {"node", NONE} THEN Goes(NoReply)
           ELSE Ends(found.is, [op |-> "open", path |-> means, ok |-> FALSE])
        /\ IF found.is = "node" /\ found.node.flags = "directory"
           THEN task_set_working_directory(pid, path) ELSE UNCHANGED cwd
        /\ initrdCount' = Closed(opened, found.node)
        /\ initrdFreed' = initrdFreed \union found.freed \union FreedBy(opened, found.node)
sys_chdir(s, input, pid) ==
    LET path == canonicalize_path(cwd[pid], input)
    IN  /\ Runs(s) /\ \A i \in DOMAIN initrdCount : initrdCount[i] > -MaxBelow
        /\ ChdirFound(pid, path, Open(path), Meaning(cwd[pid], input))
        /\ UNCHANGED <<bootVars, used, entries, capacity, refs, holds, kills, opens, loads>>

\* load_program, and the slot that createTask takes.  The file stays open.
LoadAnswer(means, node, answer) ==
    IF answer.is = "bytes"
    THEN /\ Goes([op |-> "bytes", path |-> means, from |-> 0, size |-> node.length,
                  bytes |-> answer.bytes])
         /\ used' = used \union {Min(Slots \ used)}
    ELSE /\ Ends(answer.is, [op |-> "load", path |-> means, size |-> node.length])
         /\ UNCHANGED used
LoadFound(means, found) ==
    /\ initrdFreed' = initrdFreed \union found.freed
    /\ initrdCount' = Opened(initrdCount, found.node)
    /\ loads' = IF IsShared(found.node) THEN [loads EXCEPT ![found.node.inode] = @ + 1] ELSE loads
    /\ CASE found.is = NONE \/ found.node.flags = "directory" -> Goes(NoReply) /\ UNCHANGED used
         [] found.is = "node" /\ found.node.flags # "directory" ->
                LoadAnswer(means, found.node,
                           read_fs(Here, volume, found.node, 0, found.node.length))
         [] OTHER -> Ends(found.is, [op |-> "open", path |-> means, ok |-> FALSE]) /\ UNCHANGED used
Load(path, means) == LoadFound(means, Open(path))

\* sys_create_process
create_process(s, input) ==
    /\ Runs(s) /\ used # Slots
    /\ Load(canonicalize_path(cwd[s], input), Meaning(cwd[s], input))
    /\ UNCHANGED <<bootVars, cwd, entries, capacity, refs, holds, kills, opens>>

\* init, of the first program.
RunInit ==
    /\ At("run", "user")
    /\ Load(INIT_PATH, INIT_PATH)
    /\ UNCHANGED <<machine, acpi, controller, tree, volume, cwd, entries, capacity, refs,
                   holds, kills, opens>>

\* kill: the table is closed when its count, which only boot sets, comes to 0.
\* Its places stay.
EmptiedButLast(table) == [i \in DOMAIN table |-> IF i = Len(table) THEN table[i] ELSE NoFd]
Emptied(table) == [i \in DOMAIN table |-> NoFd]
kill(s, pid) ==
    LET closes == refs[pid] = 1
        gone == {i \in DOMAIN entries[pid] : entries[pid][i].node # NULL}
        closed[i \in 0 .. Len(entries[pid])] ==
            IF i = 0 THEN initrdCount ELSE Closed(closed[i - 1], entries[pid][i].node)
    IN  /\ Runs(s) /\ SumFunction(kills) < MaxKills
        /\ Goes(NoReply)
        /\ used' = used \ {pid}
        /\ refs' = [refs EXCEPT ![pid] = @ - 1]
        /\ entries' = IF closes THEN [entries EXCEPT ![pid] = Emptied(@)] ELSE entries
        /\ initrdCount' = IF closes THEN closed[Len(entries[pid])] ELSE initrdCount
        /\ initrdFreed' = initrdFreed \union
               IF closes THEN UNION {FreedBy(closed[i - 1], entries[pid][i].node) : i \in gone} ELSE {}
        /\ holds' = [holds EXCEPT ![pid] = [fd \in Fds |-> NoHold]]
        /\ kills' = [kills EXCEPT ![pid] = @ + 1]
        /\ UNCHANGED <<bootVars, cwd, capacity, opens, loads>>

sys_shutdown(s) ==
    /\ Runs(s)
    /\ Ends(shutdown(Hardware.firmware, acpi), [op |-> "shutdown"])
    /\ UNCHANGED <<bootVars, taskVars, initrdCount, history>>

sys_reboot(s) ==
    /\ Runs(s)
    /\ Ends(reboot(Hardware.firmware, acpi), [op |-> "reboot"])
    /\ UNCHANGED <<bootVars, taskVars, initrdCount, history>>

FilesNext ==
    \/ MountInitrd \/ InitAcpi \/ ScanPci \/ MountDisk \/ RunInit
    \/ \E s \in Slots :
         \/ \E input \in Hardware.asks : \/ \E append \in BOOLEAN : sys_open(s, input, append)
                                  \/ \E pid \in Slots : sys_chdir(s, input, pid)
                                  \/ create_process(s, input)
         \/ \E fd \in Fds : \/ sys_close(s, fd) \/ sys_stat(s, fd) \/ sys_write_fs(s, fd)
                            \/ \E size \in Hardware.sizes : sys_read_fs(s, fd, size)
                            \/ \E index \in 1 .. MaxFds : sys_readdir(s, fd, index)
         \/ \E pid \in Slots : kill(s, pid)
         \/ sys_shutdown(s) \/ sys_reboot(s)

FilesSpec == FilesInit /\ [][FilesNext]_filesVars

-----------------------------------------------------------------------------
(* What paths and files mean, independently of the code: the units of a    *)
(* disk tell of which directory or file they are, and at which place.      *)

IsLive(u) == u.kind = "entry" /\ u.attribute \in {"directory", "file"}
Live(disk, dir) == {u \in Units(disk) : IsLive(u) /\ u.dir = dir}

\* The node that a name stands for in a directory, or NULL.
Fits(e, name) == e.file_name = Parts[name][1] /\ e.extension = Parts[name][2]
Exact(disk, dir, name) ==
    LET fits == {e \in Live(disk, dir) : Fits(e, name)}
        nodes == {Node("fat32", e.attribute, e.cluster, dir, NoName, e.size) : e \in fits}
    IN  IF fits = {} THEN NULL ELSE CHOOSE node \in nodes : TRUE

InitrdNode(files, name) ==
    LET i == {k \in DOMAIN files : files[k].name = name}
    IN  IF i = {} THEN NULL
        ELSE Node("initrd", "file", Min(i), 0, NoName, files[Min(i)].length)
Below(m, node, name) ==
    CASE node.flags = "directory" /\ node.fs = "fat32" -> Exact(m.disks[1], node.inode, name)
      [] node.flags = "directory" /\ node.fs = "initrd" -> InitrdNode(m.initrd, name)
      [] OTHER -> NULL

\* The nodes that a path names, from its deepest mount down to its end.
Deepest(path) == Max({0} \union {k \in 1 .. Len(path) :
                     \E i \in DOMAIN tree : tree[i].path = SubSeq(path, 1, k) /\ tree[i].file # NULL})
NamedTo(path, mount) ==
    LET node[i \in mount .. Len(path)] ==
            IF i = mount THEN FileAt(tree, SubSeq(path, 1, i)) ELSE Below(Here, node[i - 1], path[i])
    IN  node
Named(path) == NamedTo(path, Deepest(path))[Len(path)]

Same(node, other) == /\ node.fs = other.fs /\ node.flags = other.flags
                     /\ node.inode = other.inode /\ node.length = other.length

\* The clusters of a directory, as the table links them, and its units.
WordOf(v, c) == v.fat * SECTOR + c
Link(disk, v, c) == IF WordOf(v, c) + 1 \in DOMAIN disk THEN LinkIn(disk[WordOf(v, c) + 1]) ELSE 0
Linked(disk, v, dir) ==
    LET to[k \in 0 .. Len(disk)] == IF k = 0 THEN dir ELSE Link(disk, v, to[k - 1])
    IN  to
PlaceOf(v, c, i) == ((c - 2) * v.sectors + v.first_usable_sector) * SECTOR + i + 1
UnitsOf(disk, v, to, n) ==
    [k \in 0 .. n * cluster_size(v) - 1 |->
        disk[PlaceOf(v, to[k \div cluster_size(v)], k % cluster_size(v))]]

\* It takes n clusters, and they and their links are on the disk.
Spans(disk, v, to, n) ==
    /\ disk \in Seq(Units(disk))
    /\ v.fat \in Nat /\ v.first_usable_sector \in Nat /\ v.sectors \in Nat \ {0}
    /\ \A k \in 0 .. n - 1 : /\ to[k] \in Nat \ {0, 1} /\ WordOf(v, to[k]) < WORD
                            /\ WordOf(v, to[k]) + 1 \in DOMAIN disk
                            /\ PlaceOf(v, to[k], cluster_size(v) - 1) \in DOMAIN disk
    /\ Stops(to[n])

\* Its entries, all of them, stand there in front of an end mark.
Holds(disk, dir, unit) ==
    /\ Live(disk, dir) = {unit[k] : k \in {j \in DOMAIN unit : IsLive(unit[j])}}
    /\ \E k \in DOMAIN unit : unit[k].kind = "zero"
    /\ \A j, k \in DOMAIN unit : unit[j].kind = "zero" /\ IsLive(unit[k]) => k < j

\* Names are found as they are written: none is the beginning of another, none
\* is empty, has a part of one letter or no date, files have extensions,
\* directories have none and stand in front of the files.
Ordered(unit) ==
    \A j, k \in {i \in DOMAIN unit : IsLive(unit[i])} :
        LET e == unit[j]
            f == unit[k]
        IN  /\ e.dated /\ e.file_name # NONE /\ {e.file_name, e.extension} \cap OneLetter = {}
            /\ e.attribute = "file" <=> e.extension # NONE
            /\ e.attribute = f.attribute /\ j # k =>
                   ~(Matches(e.file_name, f.file_name) /\ Matches(e.extension, f.extension))
            /\ e.attribute = "directory" /\ f.attribute = "file" => j < k

Tidy(disk, v, dir) ==
    LET to == Linked(disk, v, dir)
    IN  \E n \in 1 .. Len(disk) : /\ Spans(disk, v, to, n)
                                  /\ Holds(disk, dir, UnitsOf(disk, v, to, n))
                                  /\ Ordered(UnitsOf(disk, v, to, n))

\* The name is not the beginning of another one.
Clear(disk, dir, name) ==
    \A e \in Live(disk, dir) :
        /\ Matches(Parts[name][1], e.file_name)
        /\ Parts[name][2] # NONE => Matches(Parts[name][2], e.extension)
        => Fits(e, name)

PlainIn(m, node, name) ==
    node.fs = "fat32" /\ node.flags = "directory" =>
        Tidy(m.disks[1], volume, node.inode) /\ Clear(m.disks[1], node.inode, name)
Plain(path) == \A i \in Deepest(path) .. Len(path) - 1 :
                   PlainIn(Here, NamedTo(path, Deepest(path))[i], path[i + 1])

\* The content of what a path names.
Datum(node, i) ==
    CASE node.fs = "ata" -> Here.disks[node.inode][i]
      [] node.fs = "initrd" -> [kind |-> "initrd", of |-> node.inode, at |-> i]
      [] node.fs = "fat32" -> [kind |-> "data", of |-> node.inode, at |-> i]

\* A file of FAT32 stands on the disk: in its clusters, which have room for all
\* of it, are its data.
Stored(node) ==
    LET disk == Here.disks[1]
        to == Linked(disk, volume, node.inode)
    IN  node.fs = "fat32" /\ node.flags = "file" =>
            /\ node.length \in Nat
            /\ \E n \in 0 .. Len(disk) :
                 /\ Spans(disk, volume, to, n)
                 /\ node.length <= n * cluster_size(volume)
                 /\ \A k \in 0 .. node.length - 1 :
                        UnitsOf(disk, volume, to, n)[k] = Datum(node, k + 1)

\* Chains meet nowhere, and nothing leads back to a first cluster.
Sound(disk) ==
    LET nexts == {i \in DOMAIN disk : disk[i].kind = "fat" /\ disk[i].next > 1}
    IN  /\ \A i, j \in nexts : disk[i].next = disk[j].next => i = j
        /\ \A i \in nexts, u \in Units(disk) :
               /\ u.kind = "entry" => u.cluster # disk[i].next
               /\ u.kind = "boot" => u.root # disk[i].next

\* The functions, but for those behind a first one that is missing or alone; and
\* the disk controllers among them, on the buses of the host bridges and on those
\* that bridges join to them.
Shown(pci) == {p \in DOMAIN pci : /\ <<p[1], p[2], 0>> \in DOMAIN pci
                                  /\ p[3] = 0 \/ pci[<<p[1], p[2], 0>>].multi}
Hosts(pci) == {f \in 0 .. PCI_FUNCTION_N - 1 : \A g \in 0 .. f : <<0, 0, g>> \in Shown(pci)}
Joined(pci, buses) ==
    /\ Hosts(pci) \subseteq buses
    /\ \A p \in Shown(pci) : p[1] \in buses /\ pci[p].class = "bridge" => pci[p].secondary \in buses
Visible(pci) == {p \in Shown(pci) : /\ pci[p].class = "ide"
                                    /\ \A buses \in SUBSET (0 .. PCI_BUSES - 1) :
                                           Joined(pci, buses) => p[1] \in buses}

\* The FADTs that the root table lists, and the DSDTs they name.
Fadts(fw) == LET list == fw.tables[FoundRsdp(fw).table].others
             IN  {list[i] : i \in {k \in DOMAIN list : fw.tables[list[k]].signature = "FACP"}}
Dsdts(fw) == {IF FoundRsdp(fw).revision > 0 THEN fw.tables[a].x_dsdt ELSE fw.tables[a].dsdt :
                 a \in Fadts(fw)}

\* Tables that the driver reads without leaving what it maps.
WithinPage(fw, a) == Cardinality(PagesAt(a, fw.tables[a].length)) = 1
Readable(fw) ==
    /\ WithinPage(fw, FoundRsdp(fw).table)
    /\ Fadts(fw) # {}
    /\ \A a \in Fadts(fw) : WithinPage(fw, a) /\ fw.tables[a].sums
    /\ \A d \in Dsdts(fw) : d % ACPI_PAGE = 0

\* With such tables the machine can be turned off.
Complete(fw) ==
    /\ fw.detected /\ find_rsdp(fw) /\ Readable(fw)
    /\ FoundRsdp(fw).revision > 0 => FoundRsdp(fw).extendedSums
    /\ fw.tables[FoundRsdp(fw).table].sums
    /\ 0 \notin Fadts(fw)
    /\ \A d \in Dsdts(fw) : fw.tables[d].sums /\ fw.tables[d].s5

-----------------------------------------------------------------------------
(* Properties.                                                             *)

\* Types: tables stay within their capacity, no place is mounted twice, and on
\* each of its ways out init_acpi has switched back to the page directory it
\* came with.
FilesTypeOK ==
    /\ stopped \in {"no", "off", "reset", "panic", "fault", "hang", "wild", "smash"}
    /\ used \subseteq Slots
    /\ \A s \in Slots : /\ Len(entries[s]) <= capacity[s]
                        /\ refs[s] = 1 - kills[s]
                        /\ Held(s) \subseteq DOMAIN entries[s]
    /\ \A i, j \in DOMAIN tree : tree[i].path = tree[j].path => i = j
    /\ acpi.is = "return" => acpi.directory = "kernel"

\* An open descriptor stands for the file its path names, at the place its
\* reads and seeks have come to, an open succeeds exactly for the paths that
\* name something, and processes are in directories (kopen_recursive, sys_open,
\* task_append_fd, sys_chdir).
OpensNamed ==
    /\ \A s \in used : \A fd \in Held(s) : Plain(holds[s][fd].path) =>
         /\ IsFd(s, fd)
         /\ Same(entries[s][fd].node, Named(holds[s][fd].path))
         /\ entries[s][fd].offset = holds[s][fd].at
    /\ reply.op = "open" /\ stopped = "no" /\ Plain(reply.path) =>
         (reply.ok <=> Named(reply.path) # NULL)
    /\ stopped = "no" /\ pc = "user" => \A s \in Slots :
         cwd[s] # <<>> /\ Plain(cwd[s]) => Named(cwd[s]).flags = "directory"

\* The answer of a read of size units at from is the file's.
TrueBytes(node, from, size, bytes) ==
    LET inside == from + size <= node.length
        cluster == cluster_size(volume)
        crossing == node.fs = "fat32" /\ from % cluster # 0 /\ (from % cluster) + size > cluster
    IN  node.flags # "directory" /\ ~crossing /\ (node.fs = "ata" => inside) =>
            /\ \A i \in DOMAIN bytes : bytes[i] = Datum(node, from + i)
            /\ inside => Len(bytes) = size

\* A read answers with the bytes of the file its path names, and all of them
\* when the range lies in the file; so does the loading of a program.  Left out
\* are files of FAT32 whose data the disk does not hold, reads on FAT32 that
\* begin inside a cluster and leave it, which get what lies behind the buffer,
\* and ranges beyond the end of a raw disk.  What a listing names is there.
ReadsBytes ==
    /\ reply.op = "name" => Named(reply.path) # NULL
    /\ reply.op = "bytes" /\ Plain(reply.path) /\ Stored(Named(reply.path)) =>
           TrueBytes(Named(reply.path), reply.from, reply.size, reply.bytes)

\* A process finds in its table only what it opened, as long as its slot was
\* killed at most once before it: then kill closes the table.  After that the
\* count has passed 0 and the next processes inherit.
OwnFiles ==
    \A s \in used : kills[s] < 2 =>
        Held(s) = {fd \in DOMAIN entries[s] : entries[s][fd].node # NULL}

\* The descriptors that are open on a file of the initrd.
References(i) == {u \in Slots \X Fds : /\ u[2] \in DOMAIN entries[u[1]]
                                       /\ IsShared(entries[u[1]][u[2]].node)
                                       /\ entries[u[1]][u[2]].node.inode = i}

\* Every file has as many references as descriptors: a node of FAT32 its one,
\* the initrd's shared nodes those of all processes and of the programs loaded
\* from it, on top of the word they happened to start with.
RefsCounted ==
    /\ \A s \in Slots : \A fd \in DOMAIN entries[s] :
         LET e == entries[s][fd]
         IN  e.count = IF e.node # NULL /\ Counted(tree, e.node) /\ ~IsShared(e.node) THEN 1 ELSE 0
    /\ Hardware.heapWord >= 0 =>
         \A i \in DOMAIN initrdCount :
             initrdCount[i] = Hardware.heapWord + loads[i] + Cardinality(References(i))

\* The causes that a search, a read, a call, and the boot have to stop the machine.
SearchStops(path) ==
    \/ stopped = "hang" /\ ~Sound(Here.disks[1])
    \/ stopped = "wild" /\ ~Plain(path)
OutsideRaw(node, from, size) == node.fs = "ata" /\ (size = 0 \/ from + size > node.length)
ReadStops(path, from) ==
    \/ SearchStops(path)
    \/ stopped = "wild" /\ path = <<>>
    \/ stopped = "smash" /\ OutsideRaw(Named(path), from, reply.size)
CallStops ==
    CASE reply.op \in {"close", "use"} -> stopped = "panic" /\ reply.fd \notin Held(reply.slot)
      [] reply.op = "read" -> reply.fd \in Held(reply.slot) =>
             ReadStops(holds[reply.slot][reply.fd].path, holds[reply.slot][reply.fd].at)
      [] reply.op = "load" -> SearchStops(reply.path)
      [] reply.op = "open" -> \/ SearchStops(reply.path)
                              \/ stopped = "wild" /\ reply.path = <<>> /\ Named(<<>>) = NULL
      [] reply.op = "shutdown" -> stopped = "panic" /\ ~Complete(Hardware.firmware)
      [] reply.op = "reboot" -> stopped = "panic" /\ Hardware.firmware.tables[acpi.fadt].reset = "elsewhere"
      [] OTHER -> FALSE
BootStops ==
    CASE stopped = "hang" -> ~Sound(Here.disks[1])
      [] stopped = "fault" /\ pc = "pci" -> ~Readable(Hardware.firmware)
      [] stopped = "fault" /\ pc = "run" ->
             Visible(Hardware.pci) = {} \/ (controller # <<>> /\ Here.disks[1] = <<>>)
      [] OTHER -> FALSE

\* The machine comes to its end only for these causes (the page faults, panics
\* and loops without an end of the code above).  At boot: tables that leave the
\* pages the driver maps, no disk, a chain that runs into itself.  Later: a
\* descriptor the program does not hold, the root where none is mounted, the
\* search of an untidy directory or by the root's own name, a raw disk read
\* outside, a shutdown without the tables.
StopsForCause ==
    stopped \in {"no", "off", "reset"} \/ IF pc = "user" THEN CallStops ELSE BootStops
=============================================================================
