---------------------------------- MODULE Vfs ----------------------------------
(***************************************************************************)
(* The tree of mounts and the search for a file (src/kernel/fs/vfs.c),     *)
(* with the file systems it searches: the mapper's bare directories, the   *)
(* initrd (fs/initrd.c), a raw disk (drivers/ata.c) and FAT32.             *)
(*                                                                         *)
(* A path is the sequence of its components.  No file system makes a node  *)
(* with FS_SYMLINK, so kopen_recursive's branch for links is left out, and *)
(* so is what is only printed.                                             *)
(***************************************************************************)
EXTENDS Fat32

CONSTANTS
    UP, DOT   \* PATH_UP and PATH_DOT

ASSUME VfsAssumption == UP # DOT

\* What a node tells its users.  inode is the first cluster on FAT32, the
\* index in the initrd; parent and name are what fat32_read searches by.
Node(fs, flags, inode, parent, name, length) ==
    [fs |-> fs, flags |-> flags, inode |-> inode, parent |-> parent,
     name |-> name, length |-> length]
NoName == <<"", NONE>>

NULL == Node(NONE, NONE, 0, 0, NoName, 0)

-----------------------------------------------------------------------------
(* Lists and trees (src/kernel/types).  A tree is kept as the sequence of  *)
(* its entries, parents in front of their children, with their paths.      *)

linked_list_create == <<>>
linked_list_insert(list, item) == Append(list, item)

\* Of an empty list nothing is taken, and nothing is left.
linked_list_popNot(list) == list
linked_list_pop(list) == Front(list)

Entry(path, file) == [path |-> path, file |-> file]

binary_tree_create == <<>>
binary_tree_set_root(tree, entry) == <<entry>>
binary_tree_node_insert_child(tree, entry) == linked_list_insert(tree, entry)

-----------------------------------------------------------------------------
(* Paths.                                                                  *)

\* canonicalize_path: the components of cwd, then those of the input, which
\* UP takes one back, if there is one.  input is a record of its components
\* and whether it begins with the separator.
Component(out, c) ==
    IF c = UP THEN linked_list_pop(out)
    ELSE IF c = DOT THEN out ELSE linked_list_insert(out, c)
canonicalize_path(cwd, input) ==
    LET out[i \in 0 .. Len(input.path)] ==
            IF i = 0 THEN IF input.absolute THEN linked_list_create ELSE cwd
            ELSE Component(out[i - 1], input.path[i])
    IN  out[Len(input.path)]

-----------------------------------------------------------------------------
(* Mounts.                                                                 *)

init_vfs == binary_tree_set_root(binary_tree_create, Entry(<<>>, NULL))

Known(tree, path) == \E i \in DOMAIN tree : tree[i].path = path
FileAt(tree, path) == tree[CHOOSE i \in DOMAIN tree : tree[i].path = path].file
fs_root(tree) == FileAt(tree, <<>>)

\* For each component that has none yet, an entry without a file.
WithEntry(tree, path) ==
    IF Known(tree, path) THEN tree ELSE binary_tree_node_insert_child(tree, Entry(path, NULL))
WithEntries(tree, path) ==
    LET grown[i \in 0 .. Len(path)] ==
            IF i = 0 THEN tree ELSE WithEntry(grown[i - 1], SubSeq(path, 1, i))
    IN  grown[Len(path)]

\* vfs_mount: a mounted root stays, any other place takes the new file.
vfs_mount(tree, path, file) ==
    IF path = <<>> /\ fs_root(tree) # NULL THEN tree
    ELSE LET grown == WithEntries(tree, path)
         IN  [i \in DOMAIN grown |->
                 IF grown[i].path = path THEN Entry(path, file) ELSE grown[i]]

\* get_mount_point: it climbs the tree along the path while there are entries,
\* and keeps the last that has a file, and how many components it has used.
Climbed(tree, below, here) ==
    IF ~below.on \/ ~Known(tree, here) THEN [below EXCEPT !.on = FALSE]
    ELSE IF FileAt(tree, here) = NULL THEN below
    ELSE [on |-> TRUE, last |-> FileAt(tree, here), depth |-> Len(here)]
get_mount_point(tree, path) ==
    LET climb[i \in 0 .. Len(path)] ==
            IF i = 0 THEN [on |-> TRUE, last |-> fs_root(tree), depth |-> 0]
            ELSE Climbed(tree, climb[i - 1], SubSeq(path, 1, i))
    IN  climb[Len(path)]

-----------------------------------------------------------------------------
(* The file systems behind a node.                                         *)

vfs_mapper(path) == Node("mapper", "directory", 0, 0, path, 0)
initrd_root == Node("initrd", "directory", 0, 0, NoName, 0)
ata_device_create(unit, disk) ==
    Node("ata", "block", unit, 0, NoName, ata_max_offset(disk))
fat32_create_fs_node(v) == Node("fat32", "directory", v.root, 0, <<"fat32", NONE>>, 0)

\* Of a search: a node, or why there is none.
Found(node) == [is |-> "node", node |-> node]
Not(why) == [is |-> why, node |-> NULL]

initrd_finddir(m, name) ==
    IF \E i \in DOMAIN m.initrd : m.initrd[i].name = name
    THEN LET i == CHOOSE k \in DOMAIN m.initrd :
                    /\ m.initrd[k].name = name
                    /\ \A j \in 1 .. k - 1 : m.initrd[j].name # name
         IN  Found(Node("initrd", "file", i, 0, NoName, m.initrd[i].length))
    ELSE Not(NONE)

NodeOf(found, node) ==
    CASE found.is # "entry" -> Not(found.is)
      [] found.is = "entry" /\ ~found.entry.dated -> Not(NONE)
      [] OTHER -> Found(Node("fat32", found.entry.attribute, found.entry.cluster, node.inode,
                             fat32_get_entry_name(found.entry), found.entry.size))
fat32_finddir(m, v, node, name) ==
    IF node.inode = 0 THEN Not(NONE)
    ELSE NodeOf(fat32_finddir_raw(m.disks[1], v, node.inode, Parts[name]), node)

\* finddir_fs: only directories are searched, and the mapper's have no finddir.
finddir_fs(m, v, node, name) ==
    CASE node.flags = "directory" /\ node.fs = "initrd" -> initrd_finddir(m, name)
      [] node.flags = "directory" /\ node.fs = "fat32" -> fat32_finddir(m, v, node, name)
      [] OTHER -> Not(NONE)

initrd_read(m, node, offset, size) ==
    LET length == m.initrd[node.inode].length
        data == [i \in 1 .. length |-> [kind |-> "initrd", of |-> node.inode, at |-> i]]
        n == IF offset + size > length THEN length - offset ELSE size
    IN  IF offset > length THEN NoBytes
        ELSE Answer(SubSeq(data, offset + 1, offset + n))

\* read_fs: directories of the mapper and the initrd have no read.
read_fs(m, v, node, offset, size) ==
    CASE node.fs = "ata" -> read_ata_bytes(m.disks[node.inode], offset, size)
      [] node.fs = "fat32" -> fat32_read(m.disks[1], v, node, offset, size)
      [] node.fs = "initrd" /\ node.flags = "file" -> initrd_read(m, node, offset, size)
      [] OTHER -> NoBytes

\* The names in a directory.  readdir_mapper lists the entries under its own
\* behind "." and "..".
IsChild(e, path) == e.path # <<>> /\ Front(e.path) = path
NamesIn(tree, path) ==
    FlattenSeq([i \in DOMAIN tree |->
                   IF IsChild(tree[i], path) THEN <<Last(tree[i].path)>> ELSE <<>>])
readdir_mapper(tree, node) == <<DOT, UP>> \o NamesIn(tree, node.name)
initrd_readdir(m) == [i \in DOMAIN m.initrd |-> m.initrd[i].name]
fat32_readdir == <<>>

\* readdir_fs: only directories have one.
NameAt(names, index) == IF index \in DOMAIN names THEN names[index] ELSE NONE
readdir_fs(m, tree, node, index) ==
    CASE node.fs = "mapper" -> NameAt(readdir_mapper(tree, node), index)
      [] node.fs = "initrd" /\ node.flags = "directory" -> NameAt(initrd_readdir(m), index)
      [] OTHER -> NameAt(fat32_readdir, index)

-----------------------------------------------------------------------------
(* The search.                                                             *)

\* kopen_recursive, of a canonical path.  Each directory left on the way is
\* given to kfree, and a file with components behind it too: of these nodes
\* only the initrd's own, in freed, are ever seen again.  With no root mounted
\* "/" is a copy of what lies at NULL, in a process the end of its stack, and
\* open_fs calls what it finds there.
Further(left, next) ==
    [is |-> next.is, node |-> next.node,
     freed |-> left.freed \union IF left.node.fs = "initrd" /\ left.node.flags = "file"
                                 THEN {left.node.inode} ELSE {}]
Walked(m, v, left, name) ==
    IF left.is # "node" THEN left ELSE Further(left, finddir_fs(m, v, left.node, name))
WalkFrom(m, v, mount, path) ==
    LET walk[i \in mount.depth .. Len(path)] ==
            IF i = mount.depth THEN [is |-> "node", node |-> mount.last, freed |-> {}]
            ELSE Walked(m, v, walk[i - 1], path[i])
    IN  walk[Len(path)]
kopen(m, v, tree, path) ==
    LET none(why) == [is |-> why, node |-> NULL, freed |-> {}]
        mount == get_mount_point(tree, path)
    IN  CASE path = <<>> /\ fs_root(tree) = NULL -> none("wild")
          [] path # <<>> /\ mount.last = NULL -> none(NONE)
          [] OTHER -> WalkFrom(m, v, mount, path)

\* A mounted node is copied with its reference count, -1: it is never counted.
Counted(tree, node) == \A i \in DOMAIN tree : tree[i].file # node
=============================================================================
