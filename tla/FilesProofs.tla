----------------------------- MODULE FilesProofs -----------------------------
(***************************************************************************)
(* Proofs about Files for every set of machines, every number of slots and *)
(* every bound.                                                            *)
(***************************************************************************)
EXTENDS Files, WellFoundedInduction, FiniteSetTheorems, SequenceTheorems, TLAPS


-----------------------------------------------------------------------------
(* Induction.                                                              *)

LEMMA LeastNatural ==
    ASSUME NEW S \in SUBSET Nat, S # {}
    PROVE  \E n \in S : \A m \in S : n <= m
<1> DEFINE R == {ss \in Nat \X Nat : ss[1] < ss[2]}
<1>1. IsWellFoundedOn(R, Nat)
  BY NatLessThanWellFounded DEF OpToRel
<1>2. \E n \in S : \A m \in S : ~(<<m, n>> \in R)
  <2> HIDE DEF R
  <2>. QED  BY <1>1, WFMin
<1>3. PICK n \in S : \A m \in S : ~(<<m, n>> \in R)
  BY <1>2
<1>4. \A m \in S : ~(m < n)
  BY <1>3
<1>. QED  BY <1>4

LEMMA LeastIsMin ==
    ASSUME NEW S \in SUBSET Nat, S # {}
    PROVE  Min(S) \in S /\ \A m \in S : Min(S) <= m
<1>. QED  BY LeastNatural DEF Min

\* A set of numbers that has 0 and with each number the next one has them all.
LEMMA AllNaturals ==
    ASSUME NEW S \in SUBSET Nat, 0 \in S, \A n \in S : n + 1 \in S
    PROVE  S = Nat
<1> SUFFICES ASSUME S # Nat PROVE FALSE
  OBVIOUS
<1> DEFINE T == Nat \ S
<1>1. PICK n \in T : \A m \in T : n <= m
  BY LeastNatural
<1>2. n # 0 /\ n - 1 \in Nat /\ n - 1 \notin T
  BY <1>1
<1>. QED  BY <1>1, <1>2

-----------------------------------------------------------------------------
(* Sequences of whatever they are of.                                      *)

IsSeq(s) == \E T : s \in Seq(T)

LEMMA SeqBasics ==
    ASSUME NEW s, IsSeq(s)
    PROVE  Len(s) \in Nat /\ DOMAIN s = 1 .. Len(s)
<1>. QED  BY LenProperties DEF IsSeq

LEMMA AppendAny ==
    ASSUME NEW s, IsSeq(s), NEW e
    PROVE  /\ IsSeq(Append(s, e)) /\ Len(Append(s, e)) = Len(s) + 1
           /\ \A i \in 1 .. Len(s) : Append(s, e)[i] = s[i]
           /\ Append(s, e)[Len(s) + 1] = e
<1>1. PICK T : s \in Seq(T)
  BY DEF IsSeq
<1> DEFINE U == T \union {e}
<1>2. s \in Seq(U)
  BY <1>1
<1>3. e \in U
  OBVIOUS
<1> HIDE DEF U
<1>. QED  BY <1>2, <1>3, AppendProperties DEF IsSeq

LEMMA MapAny ==
    ASSUME NEW n \in Nat, NEW s, s = [i \in 1 .. n |-> s[i]]
    PROVE  IsSeq(s) /\ Len(s) = n /\ DOMAIN s = 1 .. n
<1> DEFINE T == {s[i] : i \in 1 .. n}
<1>1. s \in [1 .. n -> T]
  OBVIOUS
<1> HIDE DEF T
<1>. QED  BY <1>1 DEF IsSeq

-----------------------------------------------------------------------------
(* What a search gives.                                                    *)

Whys == {"node", NONE, "wild", "hang"}

\* An answer of a search: a node only where it found one, and of the initrd's
\* files one that it has.
Sane(m, found) ==
    /\ found.is \in Whys
    /\ found.is = "node" <=> found.node # NULL
    /\ IsShared(found.node) => found.node.inode \in DOMAIN m.initrd

LEMMA NullIsNot ==
    /\ NULL.fs = NONE /\ NULL.flags = NONE /\ ~IsShared(NULL)
    /\ \A fs, flags, inode, parent, name, length :
         /\ Node(fs, flags, inode, parent, name, length).fs = fs
         /\ Node(fs, flags, inode, parent, name, length).flags = flags
         /\ Node(fs, flags, inode, parent, name, length).inode = inode
<1>. QED  BY DEF NULL, Node, IsShared, NONE

LEMMA RawSane ==
    \A disk, v, cluster, name :
        fat32_finddir_raw(disk, v, cluster, name).is \in {NONE, "wild", "hang", "entry"}
<1>1. \A list, name : Search(list, name).is \in {NONE, "wild", "entry"}
  BY DEF Search
<1>. QED  BY <1>1 DEF fat32_finddir_raw, SearchOf

LEMMA SaneNode ==
    ASSUME NEW m, NEW f, f.is = "node",
           f.node.fs = "fat32" \/ (f.node.fs = "initrd" /\ f.node.inode \in DOMAIN m.initrd)
    PROVE  Sane(m, f) /\ f.node.fs \in {"initrd", "fat32", NONE}
<1>. QED  BY NullIsNot DEF Sane, Whys, NONE, IsShared

LEMMA FinddirSane ==
    ASSUME NEW m, m.initrd \in Seq([name : STRING, length : Nat]), NEW v, NEW node, NEW name
    PROVE  /\ Sane(m, finddir_fs(m, v, node, name))
           /\ finddir_fs(m, v, node, name).node.fs \in {"initrd", "fat32", NONE}
<1> DEFINE found == finddir_fs(m, v, node, name)
<1>1. ASSUME NEW why \in {NONE, "wild", "hang"}, found = Not(why)
      PROVE  Sane(m, found) /\ found.node.fs \in {"initrd", "fat32", NONE}
  <2>1. found.is = why /\ found.node = NULL
    BY <1>1 DEF Not
  <2> HIDE DEF found
  <2>. QED  BY <2>1, NullIsNot DEF Sane, Whys, NONE
<1>2. CASE node.flags = "directory" /\ node.fs = "initrd"
  <2>1. found = initrd_finddir(m, name)
    BY <1>2 DEF finddir_fs
  <2>2. CASE \E i \in DOMAIN m.initrd : m.initrd[i].name = name
    <3> DEFINE i == CHOOSE k \in DOMAIN m.initrd :
                       /\ m.initrd[k].name = name
                       /\ \A j \in 1 .. k - 1 : m.initrd[j].name # name
    <3>1. i \in DOMAIN m.initrd
      <4> DEFINE S == {k \in DOMAIN m.initrd : m.initrd[k].name = name}
      <4>1. S \in SUBSET Nat /\ S # {}
        BY <2>2
      <4>2. PICK k \in S : \A j \in S : k <= j
        BY <4>1, LeastNatural
      <4>3. \A j \in 1 .. k - 1 : m.initrd[j].name # name
        BY <4>2
      <4>. QED  BY <4>2, <4>3
    <3> HIDE DEF i
    <3>2. found = Found(Node("initrd", "file", i, 0, NoName, m.initrd[i].length))
      BY <2>1, <2>2 DEF initrd_finddir, i
    <3>3. /\ found.is = "node" /\ found.node.fs = "initrd" /\ found.node.inode = i
      BY <3>2, NullIsNot DEF Found
    <3>. QED  BY <3>1, <3>3, SaneNode
  <2>3. CASE ~ \E i \in DOMAIN m.initrd : m.initrd[i].name = name
    BY <1>1, <2>1, <2>3 DEF initrd_finddir
  <2>. QED  BY <2>2, <2>3
<1>3. CASE node.flags = "directory" /\ node.fs = "fat32"
  <2>1. found = fat32_finddir(m, v, node, name)
    BY <1>3 DEF finddir_fs
  <2>2. CASE node.inode = 0
    BY <1>1, <2>1, <2>2 DEF fat32_finddir
  <2>3. CASE node.inode # 0
    <3> DEFINE raw == fat32_finddir_raw(m.disks[1], v, node.inode, Parts[name])
    <3>1. found = NodeOf(raw, node)
      BY <2>1, <2>3 DEF fat32_finddir
    <3>2. raw.is \in {NONE, "wild", "hang", "entry"}
      BY RawSane
    <3> HIDE DEF raw
    <3>3. CASE raw.is # "entry"
      <4>1. found = Not(raw.is)
        BY <3>1, <3>3 DEF NodeOf
      <4>. QED  BY <1>1, <3>2, <3>3, <4>1
    <3>4. CASE raw.is = "entry" /\ ~raw.entry.dated
      BY <1>1, <3>1, <3>4 DEF NodeOf
    <3>5. CASE raw.is = "entry" /\ raw.entry.dated
      <4>1. PICK node2 : found = Found(node2) /\ node2.fs = "fat32"
        BY <3>1, <3>5, NullIsNot DEF NodeOf
      <4>2. found.is = "node" /\ found.node.fs = "fat32"
        BY <4>1 DEF Found
      <4>. QED  BY <4>2, SaneNode
    <3>. QED  BY <3>3, <3>4, <3>5
  <2>. QED  BY <2>2, <2>3
<1>4. CASE ~(node.flags = "directory" /\ node.fs \in {"initrd", "fat32"})
  <2>1. found = Not(NONE)
    BY <1>4 DEF finddir_fs
  <2>. QED  BY <1>1, <2>1
<1>. QED  BY <1>2, <1>3, <1>4

-----------------------------------------------------------------------------
(* The tree of mounts.                                                     *)

Prefix(path, n) == SubSeq(path, 1, n)

LEMMA PrefixIs ==
    ASSUME NEW path, IsSeq(path), NEW n \in 0 .. Len(path)
    PROVE  /\ IsSeq(Prefix(path, n)) /\ Len(Prefix(path, n)) = n
           /\ \A i \in 1 .. n : Prefix(path, n)[i] = path[i]
<1>1. PICK T : path \in Seq(T)
  BY DEF IsSeq
<1>2. Len(path) \in Nat /\ n \in Nat
  BY SeqBasics
<1>3. \A i \in 1 .. n : path[i] \in T
  BY <1>1, <1>2, ElementOfSeq
<1>4. /\ SubSeq(path, 1, n) \in Seq(T) /\ Len(SubSeq(path, 1, n)) = IF 1 <= n THEN n - 1 + 1 ELSE 0
      /\ \A i \in 1 .. n - 1 + 1 : SubSeq(path, 1, n)[i] = path[1 + i - 1]
  BY <1>2, <1>3, SubSeqProperties
<1>5. /\ SubSeq(path, 1, n) \in Seq(T) /\ Len(SubSeq(path, 1, n)) = n
      /\ \A i \in 1 .. n : SubSeq(path, 1, n)[i] = path[i]
  BY <1>2, <1>4
<1>. QED  BY <1>5 DEF Prefix, IsSeq

\* Sequences of the same length with the same items are the same.
LEMMA SameSeq ==
    ASSUME NEW s, NEW t, IsSeq(s), IsSeq(t), Len(s) = Len(t), \A i \in 1 .. Len(s) : s[i] = t[i]
    PROVE  s = t
<1>1. PICK T : s \in Seq(T)
  BY DEF IsSeq
<1>2. PICK U : t \in Seq(U)
  BY DEF IsSeq
<1> DEFINE V == T \union U
<1>3. s \in Seq(V) /\ t \in Seq(V)
  BY <1>1, <1>2
<1> HIDE DEF V
<1>. QED  BY <1>3, SeqEqual

LEMMA PrefixOfPrefix ==
    ASSUME NEW path, IsSeq(path), NEW n \in 0 .. Len(path), NEW k \in 0 .. n
    PROVE  Prefix(Prefix(path, n), k) = Prefix(path, k)
<1>1. Len(path) \in Nat /\ k \in 0 .. Len(path)
  BY SeqBasics
<1>2. IsSeq(Prefix(path, n)) /\ Len(Prefix(path, n)) = n /\ \A i \in 1 .. n : Prefix(path, n)[i] = path[i]
  BY PrefixIs
<1>3. /\ IsSeq(Prefix(path, k)) /\ Len(Prefix(path, k)) = k
      /\ \A i \in 1 .. k : Prefix(path, k)[i] = path[i]
  BY <1>1, PrefixIs
<1>4. /\ IsSeq(Prefix(Prefix(path, n), k)) /\ Len(Prefix(Prefix(path, n), k)) = k
      /\ \A i \in 1 .. k : Prefix(Prefix(path, n), k)[i] = Prefix(path, n)[i]
  BY <1>2, PrefixIs
<1>5. \A i \in 1 .. k : i \in 1 .. n
  BY <1>1
<1>. QED  BY <1>2, <1>3, <1>4, <1>5, SameSeq

LEMMA WholePrefix ==
    ASSUME NEW path, IsSeq(path)
    PROVE  Prefix(path, Len(path)) = path /\ Prefix(path, 0) = <<>>
<1>1. Len(path) \in 0 .. Len(path) /\ 0 \in 0 .. Len(path)
  BY SeqBasics
<1>2. Prefix(path, Len(path)) = path
  BY <1>1, PrefixIs, SameSeq
<1>3. IsSeq(<<>>) /\ Len(<<>>) = 0
  BY EmptySeq DEF IsSeq
<1>4. IsSeq(Prefix(path, 0)) /\ Len(Prefix(path, 0)) = 0
  BY <1>1, PrefixIs
<1>5. Prefix(path, 0) = <<>>
  BY <1>3, <1>4, SameSeq
<1>. QED  BY <1>2, <1>5

\* A tree has each path once, with all paths above it.
IsTree(t) ==
    /\ IsSeq(t)
    /\ \A i \in DOMAIN t : IsSeq(t[i].path) /\ ~IsShared(t[i].file)
    /\ \A i, j \in DOMAIN t : t[i].path = t[j].path => i = j
    /\ Known(t, <<>>)
    /\ \A i \in DOMAIN t : \A k \in 0 .. Len(t[i].path) : Known(t, Prefix(t[i].path, k))

LEMMA FileAtKnown ==
    ASSUME NEW t, NEW path, Known(t, path)
    PROVE  \E i \in DOMAIN t : t[i].path = path /\ FileAt(t, path) = t[i].file
<1>. QED  BY DEF Known, FileAt

LEMMA PrefixKnown ==
    ASSUME NEW t, IsTree(t), NEW path, IsSeq(path), NEW n \in 0 .. Len(path), NEW k \in 0 .. n,
           Known(t, Prefix(path, n))
    PROVE  Known(t, Prefix(path, k))
<1>1. PICK i \in DOMAIN t : t[i].path = Prefix(path, n)
  BY DEF Known
<1>2. Len(Prefix(path, n)) = n /\ Prefix(Prefix(path, n), k) = Prefix(path, k)
  BY PrefixIs, PrefixOfPrefix
<1>. QED  BY <1>1, <1>2 DEF IsTree

\* How far up the climb has come: it goes on while there are entries, and has
\* the deepest of them that has a file.
MountedAt(t, path) == Known(t, path) /\ FileAt(t, path) # NULL
Climbing(t, path, n, below) ==
    /\ below.on \in BOOLEAN /\ below.depth \in 0 .. n
    /\ below = [on |-> below.on, last |-> below.last, depth |-> below.depth]
    /\ below.on <=> Known(t, Prefix(path, n))
    /\ below.last = FileAt(t, Prefix(path, below.depth)) /\ Known(t, Prefix(path, below.depth))
    /\ below.depth # 0 => MountedAt(t, Prefix(path, below.depth))
    /\ \A k \in below.depth + 1 .. n : ~MountedAt(t, Prefix(path, k))

LEMMA ClimbStep ==
    ASSUME NEW t, IsTree(t), NEW path, IsSeq(path), NEW n \in Nat, n + 1 <= Len(path),
           NEW below, Climbing(t, path, n, below)
    PROVE  Climbing(t, path, n + 1, Climbed(t, below, Prefix(path, n + 1)))
<1> DEFINE here == Prefix(path, n + 1)
           next == Climbed(t, below, here)
<1>1. Len(here) = n + 1 /\ Len(path) \in Nat
  BY PrefixIs, SeqBasics
<1>2. Known(t, here) => Known(t, Prefix(path, n))
  BY <1>1, PrefixKnown
<1> HIDE DEF here
<1>a. /\ below.on \in BOOLEAN /\ below.depth \in 0 .. n /\ below.depth \in 0 .. n + 1
      /\ below = [on |-> below.on, last |-> below.last, depth |-> below.depth]
      /\ below.on <=> Known(t, Prefix(path, n))
      /\ below.last = FileAt(t, Prefix(path, below.depth)) /\ Known(t, Prefix(path, below.depth))
      /\ below.depth # 0 => MountedAt(t, Prefix(path, below.depth))
      /\ \A k \in below.depth + 1 .. n : ~MountedAt(t, Prefix(path, k))
  BY DEF Climbing
<1>b. ASSUME ~MountedAt(t, here)
      PROVE  \A k \in below.depth + 1 .. n + 1 : ~MountedAt(t, Prefix(path, k))
  <2> SUFFICES ASSUME NEW k \in below.depth + 1 .. n + 1
               PROVE  ~MountedAt(t, Prefix(path, k))
    OBVIOUS
  <2>1. CASE k = n + 1
    BY <1>b, <2>1 DEF here
  <2>2. CASE k # n + 1
    <3>1. k \in below.depth + 1 .. n
      BY <1>a, <2>2
    <3>. QED  BY <1>a, <3>1
  <2>. QED  BY <2>1, <2>2
<1>3. CASE ~below.on \/ ~Known(t, here)
  <2>1. next = [below EXCEPT !.on = FALSE] /\ ~Known(t, here)
    BY <1>2, <1>3, <1>a DEF Climbed
  <2>2. next = [on |-> FALSE, last |-> below.last, depth |-> below.depth]
    BY <1>a, <2>1
  <2>3. /\ next.on = FALSE /\ next.last = below.last /\ next.depth = below.depth
        /\ next = [on |-> next.on, last |-> next.last, depth |-> next.depth]
    BY <2>2
  <2>4. ~MountedAt(t, here)
    BY <2>1 DEF MountedAt
  <2> HIDE DEF next
  <2>5. Climbing(t, path, n + 1, next)
    BY <1>a, <1>b, <2>1, <2>3, <2>4 DEF Climbing, here
  <2>. QED  BY <2>5 DEF next, here
<1>4. CASE below.on /\ Known(t, here) /\ FileAt(t, here) = NULL
  <2>1. next = below
    BY <1>4 DEF Climbed
  <2>2. ~MountedAt(t, here)
    BY <1>4 DEF MountedAt
  <2>3. Climbing(t, path, n + 1, below)
    BY <1>4, <1>a, <1>b, <2>2 DEF Climbing, here
  <2>. QED  BY <2>1, <2>3 DEF here
<1>5. CASE below.on /\ Known(t, here) /\ FileAt(t, here) # NULL
  <2>1. next = [on |-> TRUE, last |-> FileAt(t, here), depth |-> n + 1]
    BY <1>1, <1>5 DEF Climbed
  <2>2. /\ next.on = TRUE /\ next.last = FileAt(t, here) /\ next.depth = n + 1
        /\ next = [on |-> next.on, last |-> next.last, depth |-> next.depth]
    BY <2>1
  <2>3. MountedAt(t, here)
    BY <1>5 DEF MountedAt
  <2> HIDE DEF next
  <2>4. n + 1 \in 0 .. n + 1 /\ n + 1 # 0 /\ ~ \E k \in (n + 1) + 1 .. n + 1 : TRUE
    OBVIOUS
  <2>5. Climbing(t, path, n + 1, next)
    BY <1>5, <2>2, <2>3, <2>4 DEF Climbing, here
  <2>. QED  BY <2>5 DEF next, here
<1>. QED  BY <1>3, <1>4, <1>5, <1>a

\* get_mount_point finds the deepest mount on the path.
LEMMA MountPoint ==
    ASSUME NEW t, IsTree(t), NEW path, IsSeq(path)
    PROVE  Climbing(t, path, Len(path), get_mount_point(t, path))
<1> DEFINE start == [on |-> TRUE, last |-> fs_root(t), depth |-> 0]
           Is(f, n) == f = [i \in 0 .. n |-> IF i = 0 THEN start
                                           ELSE Climbed(t, f[i - 1], SubSeq(path, 1, i))]
           Climb == CHOOSE f : Is(f, Len(path))
           N == Len(path)
<1>1. Climbing(t, path, 0, start)
  <2>1. Prefix(path, 0) = <<>> /\ Known(t, <<>>)
    BY WholePrefix DEF IsTree
  <2>. QED  BY <2>1 DEF Climbing, fs_root
<1>2. N \in Nat
  BY SeqBasics
<1>3. Is(Climb, N)
  <2> DEFINE S == {n \in Nat : \E f : Is(f, n)}
  <2> HIDE DEF start
  <2>1. 0 \in S
    <3>1. Is([i \in 0 .. 0 |-> start], 0)
      OBVIOUS
    <3> HIDE DEF Is
    <3>. QED  BY <3>1
  <2>2. ASSUME NEW n \in S PROVE n + 1 \in S
    <3>1. PICK f : Is(f, n)
      OBVIOUS
    <3> DEFINE g == [i \in 0 .. n + 1 |-> IF i <= n THEN f[i]
                                          ELSE Climbed(t, f[n], SubSeq(path, 1, n + 1))]
    <3>2. ASSUME NEW i \in 0 .. n + 1
          PROVE  g[i] = IF i = 0 THEN start ELSE Climbed(t, g[i - 1], SubSeq(path, 1, i))
      BY <3>1
    <3>3. Is(g, n + 1)
      BY <3>2
    <3> HIDE DEF g, Is
    <3>. QED  BY <3>3
  <2>3. N \in S
    <3> HIDE DEF S
    <3>1. S \in SUBSET Nat
      BY DEF S
    <3>. QED  BY <1>2, <2>1, <2>2, <3>1, AllNaturals
  <2> HIDE DEF Is
  <2>. QED  BY <2>3
<1>4. get_mount_point(t, path) = Climb[N]
  BY DEF get_mount_point
<1> HIDE DEF Climb
<1>5. Climb[0] = start
  BY <1>2, <1>3
<1>6. \A i \in 1 .. N : Climb[i] = Climbed(t, Climb[i - 1], Prefix(path, i))
  <2> DEFINE g == [i \in 0 .. N |-> IF i = 0 THEN start ELSE Climbed(t, Climb[i - 1], SubSeq(path, 1, i))]
  <2>1. \A i \in 1 .. N : g[i] = Climbed(t, Climb[i - 1], SubSeq(path, 1, i))
    BY <1>2
  <2>2. Climb = g
    BY <1>3
  <2> HIDE DEF g
  <2>. QED  BY <2>1, <2>2 DEF Prefix
<1> HIDE DEF Is, start
<1> DEFINE S == {n \in Nat : n <= N => Climbing(t, path, n, Climb[n])}
<1>8. 0 \in S
  BY <1>1, <1>5
<1>9. ASSUME NEW n \in S PROVE n + 1 \in S
  <2> SUFFICES ASSUME n + 1 <= N PROVE Climbing(t, path, n + 1, Climb[n + 1])
    OBVIOUS
  <2>1. Climbing(t, path, n, Climb[n])
    BY <1>2
  <2>2. n + 1 \in 1 .. N /\ (n + 1) - 1 = n
    BY <1>2
  <2>3. Climb[n + 1] = Climbed(t, Climb[n], Prefix(path, n + 1))
    BY <1>6, <2>2
  <2>. QED  BY <2>1, <2>3, ClimbStep
<1>10. N \in S
  <2> HIDE DEF S
  <2>1. S \in SUBSET Nat
    BY DEF S
  <2>. QED  BY <1>2, <1>8, <1>9, <2>1, AllNaturals
<1>. QED  BY <1>4, <1>10

-----------------------------------------------------------------------------
(* Mounting.                                                               *)

LEMMA WithEntryIsTree ==
    ASSUME NEW t, IsTree(t), NEW path, IsSeq(path),
           \A k \in 0 .. Len(path) - 1 : Known(t, Prefix(path, k))
    PROVE  IsTree(WithEntry(t, path)) /\ Known(WithEntry(t, path), path)
<1>1. CASE Known(t, path)
  BY <1>1 DEF WithEntry
<1>2. CASE ~Known(t, path)
  <2> DEFINE e == Entry(path, NULL)
             g == Append(t, e)
             N == Len(t)
  <2>1. WithEntry(t, path) = g
    BY <1>2 DEF WithEntry, binary_tree_node_insert_child, linked_list_insert
  <2>2. /\ IsSeq(g) /\ Len(g) = N + 1 /\ N \in Nat /\ DOMAIN t = 1 .. N /\ DOMAIN g = 1 .. N + 1
        /\ \A i \in 1 .. N : g[i] = t[i]
        /\ g[N + 1] = e
    BY AppendAny, SeqBasics DEF IsTree
  <2>3. e.path = path /\ e.file = NULL
    BY DEF Entry
  <2> HIDE DEF g, e, N
  <2>4. \A p : Known(t, p) => Known(g, p)
    BY <2>2 DEF Known
  <2>5. Known(g, path)
    BY <2>2, <2>3 DEF Known
  <2>6. \A i \in DOMAIN g : i \in DOMAIN t \/ i = N + 1
    BY <2>2
  <2>7. \A i \in DOMAIN g : IsSeq(g[i].path) /\ ~IsShared(g[i].file)
    BY <2>2, <2>3, <2>6, NullIsNot DEF IsTree
  <2>8. \A i, j \in DOMAIN g : g[i].path = g[j].path => i = j
    <3>1. \A i \in DOMAIN t : g[i] = t[i] /\ t[i].path # path
      BY <1>2, <2>2 DEF Known
    <3>. QED  BY <2>2, <2>3, <2>6, <3>1 DEF IsTree
  <2>9. \A i \in DOMAIN g : \A k \in 0 .. Len(g[i].path) : Known(g, Prefix(g[i].path, k))
    <3> SUFFICES ASSUME NEW i \in DOMAIN g, NEW k \in 0 .. Len(g[i].path)
                 PROVE  Known(g, Prefix(g[i].path, k))
      OBVIOUS
    <3>1. CASE i \in DOMAIN t
      <4>1. g[i] = t[i]
        BY <2>2, <3>1
      <4>. QED  BY <2>4, <3>1, <4>1 DEF IsTree
    <3>2. CASE i = N + 1
      <4>1. g[i].path = path /\ Len(path) \in Nat
        BY <2>2, <2>3, <3>2, SeqBasics
      <4>2. CASE k = Len(path)
        BY <2>5, <4>1, <4>2, WholePrefix
      <4>3. CASE k # Len(path)
        <5>1. k \in 0 .. Len(path) - 1
          BY <4>1, <4>3
        <5>. QED  BY <2>4, <4>1, <5>1
      <4>. QED  BY <4>2, <4>3
    <3>. QED  BY <2>6, <3>1, <3>2
  <2>10. Known(g, <<>>)
    BY <2>4 DEF IsTree
  <2>11. IsTree(g)
    BY <2>2, <2>7, <2>8, <2>9, <2>10 DEF IsTree
  <2>. QED  BY <2>1, <2>5, <2>11 DEF g
<1>. QED  BY <1>1, <1>2

LEMMA GrownSteps ==
    ASSUME NEW t, NEW path, IsSeq(path)
    PROVE  \E grown :
             /\ WithEntries(t, path) = grown[Len(path)] /\ grown[0] = t
             /\ \A i \in 1 .. Len(path) : grown[i] = WithEntry(grown[i - 1], Prefix(path, i))
<1> DEFINE N == Len(path)
           Is(f, n) == f = [i \in 0 .. n |-> IF i = 0 THEN t
                                            ELSE WithEntry(f[i - 1], SubSeq(path, 1, i))]
           Grown == CHOOSE f : Is(f, N)
<1>1. N \in Nat
  BY SeqBasics
<1>2. WithEntries(t, path) = Grown[N]
  BY DEF WithEntries
<1> HIDE DEF N, Grown
<1>3. Is(Grown, N)
  <2> DEFINE S == {n \in Nat : \E f : Is(f, n)}
  <2>1. 0 \in S
    <3>1. Is([i \in 0 .. 0 |-> t], 0)
      OBVIOUS
    <3> HIDE DEF Is
    <3>. QED  BY <3>1
  <2>2. ASSUME NEW n \in S PROVE n + 1 \in S
    <3>1. PICK f : Is(f, n)
      OBVIOUS
    <3> DEFINE g == [i \in 0 .. n + 1 |-> IF i <= n THEN f[i]
                                          ELSE WithEntry(f[n], SubSeq(path, 1, n + 1))]
    <3>2. ASSUME NEW i \in 0 .. n + 1
          PROVE  g[i] = IF i = 0 THEN t ELSE WithEntry(g[i - 1], SubSeq(path, 1, i))
      BY <3>1
    <3>3. Is(g, n + 1)
      BY <3>2
    <3> HIDE DEF g, Is
    <3>. QED  BY <3>3
  <2>3. N \in S
    <3> HIDE DEF S
    <3>1. S \in SUBSET Nat
      BY DEF S
    <3>. QED  BY <1>1, <2>1, <2>2, <3>1, AllNaturals
  <2> HIDE DEF Is
  <2>. QED  BY <2>3 DEF Grown
<1>4. Grown[0] = t /\ \A i \in 1 .. N : Grown[i] = WithEntry(Grown[i - 1], Prefix(path, i))
  <2> DEFINE g == [i \in 0 .. N |-> IF i = 0 THEN t ELSE WithEntry(Grown[i - 1], SubSeq(path, 1, i))]
  <2>1. g[0] = t /\ \A i \in 1 .. N : g[i] = WithEntry(Grown[i - 1], SubSeq(path, 1, i))
    BY <1>1
  <2>2. Grown = g
    BY <1>3
  <2> HIDE DEF g
  <2>. QED  BY <2>1, <2>2 DEF Prefix
<1>. QED  BY <1>2, <1>4 DEF N

LEMMA WithEntriesIsTree ==
    ASSUME NEW t, IsTree(t), NEW path, IsSeq(path)
    PROVE  IsTree(WithEntries(t, path))
<1>0. \E grown :
        /\ WithEntries(t, path) = grown[Len(path)] /\ grown[0] = t
        /\ \A i \in 1 .. Len(path) : grown[i] = WithEntry(grown[i - 1], Prefix(path, i))
  BY GrownSteps, SMTT(60)
<1>1. PICK grown :
        /\ WithEntries(t, path) = grown[Len(path)] /\ grown[0] = t
        /\ \A i \in 1 .. Len(path) : grown[i] = WithEntry(grown[i - 1], Prefix(path, i))
  BY <1>0
<1> DEFINE N == Len(path)
           Good(n) == IsTree(grown[n]) /\ Known(grown[n], Prefix(path, n))
           S == {n \in Nat : n <= N => Good(n)}
<1>2. N \in Nat
  BY SeqBasics
<1>3. 0 \in S
  <2>1. Known(t, Prefix(path, 0))
    BY WholePrefix DEF IsTree
  <2>. QED  BY <1>1, <2>1
<1>4. ASSUME NEW n \in S PROVE n + 1 \in S
  <2> SUFFICES ASSUME n + 1 <= N PROVE Good(n + 1)
    OBVIOUS
  <2> DEFINE here == Prefix(path, n + 1)
  <2>1. n \in Nat /\ n + 1 \in 1 .. N /\ n + 1 \in 0 .. N /\ (n + 1) - 1 = n /\ n \in 0 .. N /\ n <= N
    BY <1>2
  <2>2. Good(n)
    BY <2>1
  <2>3. grown[n + 1] = WithEntry(grown[n], here)
    BY <1>1, <2>1
  <2>4. IsSeq(here) /\ Len(here) = n + 1
    BY <2>1, PrefixIs
  <2>5. ASSUME NEW k \in 0 .. Len(here) - 1 PROVE Known(grown[n], Prefix(here, k))
    <3>1. k \in 0 .. n /\ k \in 0 .. n + 1
      BY <2>1, <2>4
    <3>2. Prefix(here, k) = Prefix(path, k)
      BY <2>1, <3>1, PrefixOfPrefix
    <3>. QED  BY <2>1, <2>2, <3>1, <3>2, PrefixKnown
  <2> HIDE DEF here
  <2>6. IsTree(WithEntry(grown[n], here)) /\ Known(WithEntry(grown[n], here), here)
    BY <2>2, <2>4, <2>5, WithEntryIsTree
  <2>. QED  BY <2>3, <2>6 DEF here
<1>5. N \in S
  <2> HIDE DEF S
  <2>1. S \in SUBSET Nat
    BY DEF S
  <2>. QED  BY <1>2, <1>3, <1>4, <2>1, AllNaturals
<1>. QED  BY <1>1, <1>5

\* vfs_mount keeps a tree a tree.
LEMMA MountIsTree ==
    ASSUME NEW t, IsTree(t), NEW path, IsSeq(path), NEW file, ~IsShared(file)
    PROVE  IsTree(vfs_mount(t, path, file))
<1>1. CASE path = <<>> /\ fs_root(t) # NULL
  BY <1>1 DEF vfs_mount
<1>2. CASE ~(path = <<>> /\ fs_root(t) # NULL)
  <2> DEFINE grown == WithEntries(t, path)
             g == [i \in DOMAIN grown |->
                      IF grown[i].path = path THEN Entry(path, file) ELSE grown[i]]
  <2>1. vfs_mount(t, path, file) = g
    BY <1>2 DEF vfs_mount
  <2>2. IsTree(grown) /\ Len(grown) \in Nat /\ DOMAIN grown = 1 .. Len(grown)
    BY WithEntriesIsTree, SeqBasics DEF IsTree
  <2>3. IsSeq(g) /\ DOMAIN g = DOMAIN grown
    <3> HIDE DEF grown
    <3>1. g = [i \in 1 .. Len(grown) |-> g[i]]
      BY <2>2
    <3> HIDE DEF g
    <3>. QED  BY <2>2, <3>1, MapAny
  <2>4. \A i \in DOMAIN grown : g[i].path = grown[i].path
    BY DEF Entry
  <2>a. \A i \in DOMAIN grown : g[i].file = file \/ g[i].file = grown[i].file
    BY DEF Entry
  <2> HIDE DEF g, grown
  <2>5. \A p : Known(g, p) <=> Known(grown, p)
    BY <2>3, <2>4 DEF Known
  <2>6. \A i \in DOMAIN g : IsSeq(g[i].path) /\ ~IsShared(g[i].file)
    BY <2>2, <2>3, <2>4, <2>a DEF IsTree
  <2>7. \A i, j \in DOMAIN g : g[i].path = g[j].path => i = j
    BY <2>2, <2>3, <2>4 DEF IsTree
  <2>8. \A i \in DOMAIN g : \A k \in 0 .. Len(g[i].path) : Known(g, Prefix(g[i].path, k))
    BY <2>2, <2>3, <2>4, <2>5 DEF IsTree
  <2>9. IsTree(g)
    BY <2>2, <2>3, <2>5, <2>6, <2>7, <2>8 DEF IsTree
  <2>. QED  BY <2>1, <2>9
<1>. QED  BY <1>1, <1>2

LEMMA FirstTree == IsTree(init_vfs)
<1> DEFINE e == Entry(<<>>, NULL)
           t == <<e>>
<1>1. init_vfs = t
  BY DEF init_vfs, binary_tree_set_root, binary_tree_create
<1>2. IsSeq(t) /\ Len(t) = 1 /\ DOMAIN t = 1 .. 1 /\ t[1] = e
  <2>1. t \in Seq({e}) /\ Len(t) = 1 /\ t[1] = e
    OBVIOUS
  <2>. QED  BY <2>1, SeqBasics DEF IsSeq
<1>3. e.path = <<>> /\ e.file = NULL
  BY DEF Entry
<1>4. IsSeq(<<>>) /\ Len(<<>>) = 0
  BY EmptySeq DEF IsSeq
<1> HIDE DEF t, e
<1>5. Known(t, <<>>)
  BY <1>2, <1>3 DEF Known
<1>6. \A i \in DOMAIN t : i = 1
  BY <1>2
<1>7. \A k \in 0 .. Len(<<>>) : Prefix(<<>>, k) = <<>>
  BY <1>4, WholePrefix
<1>. QED  BY <1>1, <1>2, <1>3, <1>4, <1>5, <1>6, <1>7, NullIsNot DEF IsTree

-----------------------------------------------------------------------------
(* The search.                                                             *)

\* The steps of the walk from a mount.
Walks(m, v, mount, path, walk) ==
    /\ WalkFrom(m, v, mount, path) = walk[Len(path)]
    /\ walk[mount.depth] = [is |-> "node", node |-> mount.last, freed |-> {}]
    /\ \A i \in mount.depth + 1 .. Len(path) : walk[i] = Walked(m, v, walk[i - 1], path[i])

LEMMA WalkSteps ==
    ASSUME NEW m, NEW v, NEW mount, NEW path, IsSeq(path), mount.depth \in 0 .. Len(path)
    PROVE  \E walk : Walks(m, v, mount, path, walk)
<1> DEFINE d == mount.depth
           N == Len(path)
           start == [is |-> "node", node |-> mount.last, freed |-> {}]
           Is(f, n) == f = [i \in d .. n |-> IF i = d THEN start ELSE Walked(m, v, f[i - 1], path[i])]
           Walk == CHOOSE f : Is(f, N)
<1>1. N \in Nat /\ d \in Nat /\ d <= N
  BY SeqBasics
<1>2. WalkFrom(m, v, mount, path) = Walk[N]
  BY DEF WalkFrom
<1> HIDE DEF d, N, start, Walk
<1>3. Is(Walk, N)
  <2> DEFINE S == {n \in Nat : \E f : Is(f, d + n)}
  <2>1. 0 \in S
    <3> DEFINE g == [i \in d .. d |-> start]
    <3>1. \A i \in d .. d : g[i] = IF i = d THEN start ELSE Walked(m, v, g[i - 1], path[i])
      BY <1>1
    <3>2. Is(g, d + 0)
      BY <1>1, <3>1
    <3> HIDE DEF Is, g
    <3>. QED  BY <3>2
  <2>2. ASSUME NEW n \in S PROVE n + 1 \in S
    <3>1. PICK f : Is(f, d + n)
      OBVIOUS
    <3> DEFINE g == [i \in d .. d + (n + 1) |->
                        IF i <= d + n THEN f[i] ELSE Walked(m, v, f[d + n], path[d + n + 1])]
    <3>2. ASSUME NEW i \in d .. d + (n + 1)
          PROVE  g[i] = IF i = d THEN start ELSE Walked(m, v, g[i - 1], path[i])
      <4>1. CASE i = d + (n + 1)
        <5>1. g[i] = Walked(m, v, f[d + n], path[i]) /\ g[i - 1] = f[d + n] /\ i # d
          BY <1>1, <4>1
        <5>. QED  BY <5>1
      <4>2. CASE i # d + (n + 1)
        <5>1. i \in d .. d + n /\ g[i] = f[i] /\ (i # d => g[i - 1] = f[i - 1])
          BY <1>1, <4>2
        <5>2. f[i] = IF i = d THEN start ELSE Walked(m, v, f[i - 1], path[i])
          <6> DEFINE h == [j \in d .. d + n |-> IF j = d THEN start ELSE Walked(m, v, f[j - 1], path[j])]
          <6>1. h[i] = IF i = d THEN start ELSE Walked(m, v, f[i - 1], path[i])
            BY <5>1
          <6>2. f = h
            BY <3>1
          <6> HIDE DEF h
          <6>. QED  BY <6>1, <6>2
        <5> HIDE DEF g
        <5>. QED  BY <5>1, <5>2
      <4>. QED  BY <4>1, <4>2
    <3>3. Is(g, d + (n + 1))
      BY <3>2
    <3> HIDE DEF g, Is
    <3>. QED  BY <3>3
  <2>3. N - d \in S
    <3> HIDE DEF S
    <3>1. S \in SUBSET Nat
      BY DEF S
    <3>2. S = Nat
      BY <2>1, <2>2, <3>1, AllNaturals
    <3>. QED  BY <1>1, <3>2
  <2>4. d + (N - d) = N
    BY <1>1
  <2> HIDE DEF Is
  <2>. QED  BY <2>3, <2>4 DEF Walk
<1>4. /\ Walk[d] = start
      /\ \A i \in d + 1 .. N : Walk[i] = Walked(m, v, Walk[i - 1], path[i])
  <2> DEFINE g == [i \in d .. N |-> IF i = d THEN start ELSE Walked(m, v, Walk[i - 1], path[i])]
  <2>1. g[d] = start /\ \A i \in d + 1 .. N : g[i] = Walked(m, v, Walk[i - 1], path[i])
    BY <1>1
  <2>2. Walk = g
    BY <1>3
  <2> HIDE DEF g
  <2>. QED  BY <2>1, <2>2
<1>5. Walks(m, v, mount, path, Walk)
  BY <1>2, <1>4 DEF d, N, start, Walks
<1>. QED  BY <1>5

\* Of the machines only this: the initrd has names and lengths.
IsMachine(m) == m.initrd \in Seq([name : STRING, length : Nat])

\* The walk comes to a node or says why not.
LEMMA WalkSane ==
    ASSUME NEW m, IsMachine(m), NEW v, NEW mount, NEW path, IsSeq(path),
           mount.depth \in 0 .. Len(path), mount.last # NULL, ~IsShared(mount.last)
    PROVE  Sane(m, WalkFrom(m, v, mount, path))
<1>0. PICK walk : Walks(m, v, mount, path, walk)
  BY WalkSteps
<1>1. /\ WalkFrom(m, v, mount, path) = walk[Len(path)]
      /\ walk[mount.depth] = [is |-> "node", node |-> mount.last, freed |-> {}]
      /\ \A i \in mount.depth + 1 .. Len(path) :
           walk[i] = Walked(m, v, walk[i - 1], path[i])
  BY <1>0 DEF Walks
<1> DEFINE d == mount.depth
           N == Len(path)
           S == {n \in Nat : d + n <= N => Sane(m, walk[d + n])}
<1>2. N \in Nat /\ d \in Nat /\ d <= N
  BY SeqBasics
<1>3. 0 \in S
  <2>1. walk[d].is = "node" /\ walk[d].node = mount.last
    BY <1>1
  <2>2. Sane(m, walk[d])
    BY <2>1 DEF Sane, Whys
  <2>. QED  BY <1>2, <2>2
<1>4. ASSUME NEW n \in S PROVE n + 1 \in S
  <2> SUFFICES ASSUME d + (n + 1) <= N PROVE Sane(m, walk[d + (n + 1)])
    OBVIOUS
  <2> DEFINE left == walk[d + n]
             next == walk[d + (n + 1)]
             found == finddir_fs(m, v, left.node, path[d + (n + 1)])
  <2>1. Sane(m, left)
    BY <1>2
  <2>2. next = Walked(m, v, left, path[d + (n + 1)])
    <3> DEFINE k == d + (n + 1)
    <3>1. k \in d + 1 .. N /\ k - 1 = d + n
      BY <1>2
    <3> HIDE DEF k
    <3>2. walk[k] = Walked(m, v, walk[k - 1], path[k])
      BY <1>1, <3>1
    <3>. QED  BY <3>1, <3>2 DEF k
  <2>3. Sane(m, found)
    BY FinddirSane DEF IsMachine
  <2> HIDE DEF left, found, next
  <2>4. CASE left.is # "node"
    BY <2>1, <2>2, <2>4 DEF Walked, next
  <2>5. CASE left.is = "node"
    <3>1. next = Further(left, found)
      BY <2>2, <2>5 DEF Walked, found
    <3>2. next.is = found.is /\ next.node = found.node
      BY <3>1 DEF Further
    <3>3. Sane(m, next)
      BY <2>3, <3>2 DEF Sane
    <3>. QED  BY <3>3 DEF next
  <2>. QED  BY <2>4, <2>5
<1>5. N - d \in S
  <2> HIDE DEF S
  <2>1. S \in SUBSET Nat
    BY DEF S
  <2>2. S = Nat
    BY <1>3, <1>4, <2>1, AllNaturals
  <2>. QED  BY <1>2, <2>2
<1>6. d + (N - d) = N
  BY <1>2
<1>. QED  BY <1>1, <1>5, <1>6

LEMMA KopenSane ==
    ASSUME NEW m, IsMachine(m), NEW v, NEW t, IsTree(t), NEW path, IsSeq(path)
    PROVE  Sane(m, kopen(m, v, t, path))
<1> DEFINE mount == get_mount_point(t, path)
           found == kopen(m, v, t, path)
<1>1. Climbing(t, path, Len(path), mount)
  BY MountPoint
<1>2. ASSUME NEW why \in {"wild", NONE}, found = [is |-> why, node |-> NULL, freed |-> {}]
      PROVE  Sane(m, found)
  <2>1. found.is = why /\ found.node = NULL
    BY <1>2
  <2> HIDE DEF found
  <2>. QED  BY <2>1, NullIsNot DEF Sane, Whys, NONE
<1>3. CASE path = <<>> /\ fs_root(t) = NULL
  BY <1>2, <1>3 DEF kopen
<1>4. CASE path # <<>> /\ mount.last = NULL
  BY <1>2, <1>4 DEF kopen
<1>5. CASE ~(path = <<>> /\ fs_root(t) = NULL) /\ ~(path # <<>> /\ mount.last = NULL)
  <2>1. found = WalkFrom(m, v, mount, path)
    BY <1>5 DEF kopen
  <2>2. mount.depth \in 0 .. Len(path)
    BY <1>1 DEF Climbing
  <2>3. mount.last # NULL
    <3>1. CASE path = <<>>
      <4>1. mount.depth = 0 /\ Prefix(path, 0) = <<>>
        BY <2>2, <3>1, EmptySeq, WholePrefix
      <4>. QED  BY <1>1, <1>5, <3>1, <4>1 DEF Climbing, fs_root
    <3>. QED  BY <1>5, <3>1
  <2>4. ~IsShared(mount.last)
    <3>1. mount.last = FileAt(t, Prefix(path, mount.depth)) /\ Known(t, Prefix(path, mount.depth))
      BY <1>1 DEF Climbing
    <3>. QED  BY <3>1, FileAtKnown DEF IsTree
  <2> HIDE DEF mount, found
  <2>. QED  BY <2>1, <2>2, <2>3, <2>4, WalkSane DEF found
<1>. QED  BY <1>3, <1>4, <1>5

-----------------------------------------------------------------------------
(* Paths.                                                                  *)

LEMMA ComponentIsSeq ==
    ASSUME NEW out, IsSeq(out), NEW c
    PROVE  IsSeq(Component(out, c))
<1>1. CASE c = UP
  <2>1. PICK T : out \in Seq(T)
    BY DEF IsSeq
  <2>2. SubSeq(out, 1, Len(out) - 1) \in Seq(T)
    <3>1. Len(out) \in Nat /\ \A i \in 1 .. Len(out) - 1 : out[i] \in T
      BY <2>1, ElementOfSeq, LenProperties
    <3>. QED  BY <3>1, SubSeqProperties
  <2>. QED  BY <1>1, <2>2 DEF Component, linked_list_pop, Front, IsSeq
<1>2. CASE c # UP /\ c = DOT
  BY <1>2 DEF Component
<1>3. CASE c # UP /\ c # DOT
  BY <1>3, AppendAny DEF Component, linked_list_insert
<1>. QED  BY <1>1, <1>2, <1>3

LEMMA CanonicalSteps ==
    ASSUME NEW cwd0, NEW input, IsSeq(input.path)
    PROVE  \E out :
             /\ canonicalize_path(cwd0, input) = out[Len(input.path)]
             /\ out[0] = IF input.absolute THEN <<>> ELSE cwd0
             /\ \A i \in 1 .. Len(input.path) : out[i] = Component(out[i - 1], input.path[i])
<1> DEFINE N == Len(input.path)
           first == IF input.absolute THEN linked_list_create ELSE cwd0
           Is(f, n) == f = [i \in 0 .. n |-> IF i = 0 THEN first
                                            ELSE Component(f[i - 1], input.path[i])]
           Out == CHOOSE f : Is(f, N)
<1>1. N \in Nat
  BY SeqBasics
<1>2. canonicalize_path(cwd0, input) = Out[N]
  BY DEF canonicalize_path
<1> HIDE DEF N, Out
<1>3. Is(Out, N)
  <2> DEFINE S == {n \in Nat : \E f : Is(f, n)}
  <2> HIDE DEF first
  <2>1. 0 \in S
    <3>1. Is([i \in 0 .. 0 |-> first], 0)
      OBVIOUS
    <3> HIDE DEF Is
    <3>. QED  BY <3>1
  <2>2. ASSUME NEW n \in S PROVE n + 1 \in S
    <3>1. PICK f : Is(f, n)
      OBVIOUS
    <3> DEFINE g == [i \in 0 .. n + 1 |-> IF i <= n THEN f[i]
                                          ELSE Component(f[n], input.path[n + 1])]
    <3>2. ASSUME NEW i \in 0 .. n + 1
          PROVE  g[i] = IF i = 0 THEN first ELSE Component(g[i - 1], input.path[i])
      BY <3>1
    <3>3. Is(g, n + 1)
      BY <3>2
    <3> HIDE DEF g, Is
    <3>. QED  BY <3>3
  <2>3. N \in S
    <3> HIDE DEF S
    <3>1. S \in SUBSET Nat
      BY DEF S
    <3>. QED  BY <1>1, <2>1, <2>2, <3>1, AllNaturals
  <2> HIDE DEF Is
  <2>. QED  BY <2>3 DEF Out
<1>4. Out[0] = first /\ \A i \in 1 .. N : Out[i] = Component(Out[i - 1], input.path[i])
  <2> DEFINE g == [i \in 0 .. N |-> IF i = 0 THEN first
                                   ELSE Component(Out[i - 1], input.path[i])]
  <2>1. g[0] = first /\ \A i \in 1 .. N : g[i] = Component(Out[i - 1], input.path[i])
    BY <1>1
  <2>2. Out = g
    BY <1>3
  <2> HIDE DEF g
  <2>. QED  BY <2>1, <2>2
<1>. QED  BY <1>2, <1>4 DEF N, linked_list_create

LEMMA CanonicalIsSeq ==
    ASSUME NEW cwd0, IsSeq(cwd0), NEW input, IsSeq(input.path)
    PROVE  IsSeq(canonicalize_path(cwd0, input))
<1>1. PICK out :
        /\ canonicalize_path(cwd0, input) = out[Len(input.path)]
        /\ out[0] = IF input.absolute THEN <<>> ELSE cwd0
        /\ \A i \in 1 .. Len(input.path) : out[i] = Component(out[i - 1], input.path[i])
  BY CanonicalSteps
<1> DEFINE N == Len(input.path)
           S == {n \in Nat : n <= N => IsSeq(out[n])}
<1>2. N \in Nat
  BY SeqBasics
<1>3. 0 \in S
  <2>1. IsSeq(<<>>)
    BY EmptySeq DEF IsSeq
  <2>. QED  BY <1>1, <2>1
<1>4. ASSUME NEW n \in S PROVE n + 1 \in S
  <2> SUFFICES ASSUME n + 1 <= N PROVE IsSeq(out[n + 1])
    OBVIOUS
  <2>1. n + 1 \in 1 .. N /\ (n + 1) - 1 = n /\ IsSeq(out[n])
    BY <1>2
  <2>2. out[n + 1] = Component(out[n], input.path[n + 1])
    BY <1>1, <2>1
  <2>. QED  BY <2>1, <2>2, ComponentIsSeq
<1>5. N \in S
  <2> HIDE DEF S
  <2>1. S \in SUBSET Nat
    BY DEF S
  <2>. QED  BY <1>2, <1>3, <1>4, <2>1, AllNaturals
<1>. QED  BY <1>1, <1>5

\* A function with the places of a sequence is a sequence.
LEMMA KeptAny ==
    ASSUME NEW s, IsSeq(s), NEW t, t = [i \in DOMAIN s |-> t[i]]
    PROVE  IsSeq(t) /\ Len(t) = Len(s) /\ DOMAIN t = DOMAIN s
<1>1. Len(s) \in Nat /\ DOMAIN s = 1 .. Len(s)
  BY SeqBasics
<1>2. t = [i \in 1 .. Len(s) |-> t[i]]
  BY <1>1
<1>. QED  BY <1>1, <1>2, MapAny

-----------------------------------------------------------------------------
(* The invariant.                                                          *)

EntryOk(m, e) ==
    /\ e = [node |-> e.node, count |-> e.count, offset |-> e.offset]
    /\ IsShared(e.node) => e.node.inode \in DOMAIN m.initrd
TableOk(m, table) ==
    /\ IsSeq(table) /\ Len(table) <= MaxFds
    /\ \A fd \in DOMAIN table : EntryOk(m, table[fd])
OpenIn(table) == {fd \in DOMAIN table : table[fd].node # NULL}
HoldOk(h) == h = NoHold \/ h = [path |-> h.path, at |-> h.at]

BootInv ==
    /\ machine \in DOMAIN Machines
    /\ pc \in {"vfs", "acpi", "pci", "disk", "run", "user"}
    /\ pc # "vfs" => IsTree(tree)
    /\ pc # "user" => /\ used = {} /\ cwd = [s \in Slots |-> <<>>]
                      /\ entries = [s \in Slots |-> <<>>]

TablesInv ==
    /\ used \subseteq Slots
    /\ entries = [s \in Slots |-> entries[s]]
    /\ \A s \in Slots : TableOk(Hardware, entries[s])
    /\ cwd = [s \in Slots |-> cwd[s]] /\ \A s \in Slots : IsSeq(cwd[s])
    /\ holds = [s \in Slots |-> [fd \in Fds |-> holds[s][fd]]]
    /\ \A s \in Slots, fd \in Fds : HoldOk(holds[s][fd])

SizesInv ==
    /\ capacity \in [Slots -> Nat] /\ kills \in [Slots -> Nat] /\ refs \in [Slots -> Int]
    /\ \A s \in Slots : /\ 0 < capacity[s] /\ Len(entries[s]) <= capacity[s]
                        /\ refs[s] = 1 - kills[s]

\* What a process was given is open, and in the first two lives of a slot
\* nothing else is.
OwnInv ==
    \A s \in Slots : /\ Held(s) \subseteq OpenIn(entries[s])
                     /\ kills[s] < 2 => Held(s) = OpenIn(entries[s])

CountInv ==
    /\ loads \in [DOMAIN Hardware.initrd -> Nat]
    /\ initrdCount \in [DOMAIN Hardware.initrd -> Int]
    /\ RefsCounted

FilesInv == BootInv /\ TablesInv /\ SizesInv /\ OwnInv /\ CountInv

LEMMA MachineIs ==
    ASSUME BootInv
    PROVE  IsMachine(Hardware) /\ Hardware.heapWord \in Int /\ Here.initrd = Hardware.initrd
<1>. QED  BY MachinesAssumption DEF BootInv, Hardware, IsMachine, Here, Seen

LEMMA EmptyIs == IsSeq(<<>>) /\ Len(<<>>) = 0 /\ DOMAIN <<>> = {}
<1>1. IsSeq(<<>>) /\ Len(<<>>) = 0
  BY EmptySeq DEF IsSeq
<1>2. 1 .. 0 = {}
  OBVIOUS
<1>. QED  BY <1>1, <1>2, SeqBasics

LEMMA NoReferences ==
    ASSUME NEW i, entries = [s \in Slots |-> <<>>]
    PROVE  Cardinality(References(i)) = 0
<1>1. References(i) = {}
  BY EmptyIs DEF References
<1>. QED  BY <1>1, FS_EmptySet

LEMMA InitInv == FilesInit => FilesInv
<1> SUFFICES ASSUME FilesInit PROVE FilesInv
  OBVIOUS
<1> USE DEF FilesInit
<1>1. BootInv
  BY DEF BootInv
<1>2. TablesInv
  BY EmptyIs, FilesAssumption DEF TablesInv, TableOk, HoldOk
<1>3. SizesInv
  BY EmptyIs, FilesAssumption DEF SizesInv
<1>4. OwnInv
  BY EmptyIs DEF OwnInv, Held, OpenIn
<1>5. CountInv
  <2>1. Hardware.heapWord \in Int
    BY <1>1, MachineIs
  <2>2. /\ loads \in [DOMAIN Hardware.initrd -> Nat] /\ initrdCount \in [DOMAIN Hardware.initrd -> Int]
        /\ \A i \in DOMAIN initrdCount : initrdCount[i] = Hardware.heapWord /\ loads[i] = 0
    BY <2>1
  <2>3. \A s \in Slots : DOMAIN entries[s] = {}
    BY EmptyIs
  <2>4. \A i : Cardinality(References(i)) = 0
    BY NoReferences
  <2>. QED  BY <2>1, <2>2, <2>3, <2>4 DEF CountInv, RefsCounted
<1>. QED  BY <1>1, <1>2, <1>3, <1>4, <1>5 DEF FilesInv

-----------------------------------------------------------------------------
(* Boot, and the calls that only look.                                     *)

LEMMA Untouched ==
    ASSUME FilesInv, UNCHANGED <<machine, taskVars, initrdCount, holds, kills, loads>>,
           tree' = tree \/ pc # "user"
    PROVE  TablesInv' /\ SizesInv' /\ OwnInv' /\ CountInv'
<1>1. UNCHANGED <<machine, used, cwd, entries, capacity, refs, initrdCount, holds, kills, loads>>
  BY DEF taskVars
<1>2. TablesInv'
  BY <1>1 DEF FilesInv, TablesInv, Hardware
<1>3. SizesInv'
  BY <1>1 DEF FilesInv, SizesInv
<1>4. OwnInv'
  BY <1>1 DEF FilesInv, OwnInv, Held
<1>5. CountInv'
  <2>1. \A s \in Slots : \A fd \in DOMAIN entries[s] : tree' = tree
    BY EmptyIs DEF FilesInv, BootInv
  <2>2. \A i : References(i)' = References(i)
    BY <1>1 DEF References
  <2>3. Hardware' = Hardware
    BY <1>1 DEF Hardware
  <2>. QED  BY <1>1, <2>1, <2>2, <2>3 DEF FilesInv, CountInv, RefsCounted
<1>. QED  BY <1>2, <1>3, <1>4, <1>5

LEMMA MountInitrdInv ==
    ASSUME FilesInv, MountInitrd
    PROVE  FilesInv'
<1>1. IsSeq(<<"dev">>) /\ IsSeq(<<"dev", "initrd">>)
  <2>1. <<"dev">> \in Seq({"dev"}) /\ <<"dev", "initrd">> \in Seq({"dev", "initrd"})
    OBVIOUS
  <2>. QED  BY <2>1 DEF IsSeq
<1>2. ~IsShared(vfs_mapper(<<"dev">>)) /\ ~IsShared(initrd_root)
  BY NullIsNot DEF IsShared, vfs_mapper, initrd_root
<1>3. IsTree(tree')
  BY <1>1, <1>2, FirstTree, MountIsTree DEF MountInitrd
<1>4. BootInv'
  BY <1>3 DEF FilesInv, BootInv, MountInitrd, At, taskVars, history
<1>. QED  BY <1>4, Untouched DEF FilesInv, BootInv, MountInitrd, At, history

LEMMA InitAcpiInv ==
    ASSUME FilesInv, InitAcpi
    PROVE  FilesInv'
<1>1. BootInv'
  BY DEF FilesInv, BootInv, InitAcpi, At, taskVars, history
<1>. QED  BY <1>1, Untouched DEF FilesInv, InitAcpi, At, history

LEMMA DiskPathIs ==
    ASSUME NEW unit
    PROVE  IsSeq(DiskPath(unit))
<1> DEFINE e == <<"hda", "hdb", "hdc", "hdd">>[unit]
<1>1. <<"dev", e>> \in Seq({"dev", e})
  <2> HIDE DEF e
  <2>. QED  OBVIOUS
<1>. QED  BY <1>1 DEF DiskPath, IsSeq

LEMMA WithDiskIsTree ==
    ASSUME NEW t, IsTree(t), NEW disks, NEW unit
    PROVE  IsTree(WithDisk(t, disks, unit))
<1>1. ~IsShared(ata_device_create(unit, disks[unit]))
  BY NullIsNot DEF IsShared, ata_device_create
<1>. QED  BY <1>1, DiskPathIs, MountIsTree DEF WithDisk

LEMMA ScanPciInv ==
    ASSUME FilesInv, ScanPci
    PROVE  FilesInv'
<1>1. \A disks : IsTree(WithDisks(disks))
  BY WithDiskIsTree DEF WithDisks, FilesInv, BootInv, ScanPci, At
<1>2. IsTree(tree')
  BY <1>1 DEF ScanPci
<1>3. BootInv'
  BY <1>2 DEF FilesInv, BootInv, ScanPci, At, taskVars, history
<1>. QED  BY <1>3, Untouched DEF FilesInv, BootInv, ScanPci, At, history

LEMMA MountDiskInv ==
    ASSUME FilesInv, MountDisk
    PROVE  FilesInv'
<1>1. IsTree(tree)
  BY DEF FilesInv, BootInv, MountDisk, At
<1>2. \A v : IsTree(vfs_mount(tree, <<>>, fat32_create_fs_node(v)))
  <2>1. \A v : ~IsShared(fat32_create_fs_node(v))
    BY NullIsNot DEF IsShared, fat32_create_fs_node
  <2>. QED  BY <1>1, <2>1, EmptyIs, MountIsTree
<1>3. \A found : MountFound(found) => IsTree(tree')
  BY <1>1, <1>2 DEF MountFound
<1>4. IsTree(tree')
  BY <1>1, <1>3 DEF MountDisk, MountOn
<1>5. BootInv'
  BY <1>4 DEF FilesInv, BootInv, MountDisk, At, taskVars, history
<1>. QED  BY <1>5, Untouched DEF FilesInv, MountDisk, At, history

LEMMA LooksInv ==
    ASSUME FilesInv, UNCHANGED <<bootVars, taskVars, initrdCount, history>>
    PROVE  FilesInv'
<1>1. BootInv'
  BY DEF FilesInv, BootInv, bootVars, taskVars, history
<1>. QED  BY <1>1, Untouched DEF FilesInv, bootVars, history

-----------------------------------------------------------------------------
(* sys_open.                                                               *)

LEMMA OpenSane ==
    ASSUME FilesInv, pc # "vfs", NEW path, IsSeq(path)
    PROVE  Sane(Hardware, Open(path))
<1>1. IsMachine(Here) /\ Here.initrd = Hardware.initrd
  BY MachineIs DEF FilesInv, IsMachine
<1>2. Sane(Here, Open(path))
  BY <1>1, KopenSane DEF FilesInv, BootInv, Open
<1>. QED  BY <1>1, <1>2 DEF Sane

LEMMA AskIs ==
    ASSUME FilesInv, NEW input \in Hardware.asks, NEW s \in Slots
    PROVE  IsSeq(canonicalize_path(cwd[s], input))
<1>1. input.path \in Seq(STRING)
  BY MachinesAssumption DEF FilesInv, BootInv, Hardware
<1>2. IsSeq(input.path) /\ IsSeq(cwd[s])
  BY <1>1 DEF IsSeq, FilesInv, TablesInv
<1>. QED  BY <1>2, CanonicalIsSeq

\* The place for a new descriptor is empty, or right behind the last.
LEMMA FreeFdIs ==
    ASSUME NEW s, IsSeq(entries[s])
    PROVE  /\ FreeFd(s) \in 1 .. Len(entries[s]) + 1 /\ Len(entries[s]) \in Nat
           /\ FreeFd(s) \in DOMAIN entries[s] => entries[s][FreeFd(s)].node = NULL
<1> DEFINE empty == {i \in DOMAIN entries[s] : entries[s][i].node = NULL}
<1>1. Len(entries[s]) \in Nat /\ DOMAIN entries[s] = 1 .. Len(entries[s])
  BY SeqBasics
<1>2. CASE empty = {}
  <2>1. FreeFd(s) = Len(entries[s]) + 1
    BY <1>2 DEF FreeFd
  <2>. QED  BY <1>1, <2>1
<1>3. CASE empty # {}
  <2>1. empty \in SUBSET Nat
    BY <1>1
  <2>2. FreeFd(s) = Min(empty)
    BY <1>3 DEF FreeFd
  <2> HIDE DEF empty
  <2>3. FreeFd(s) \in empty
    BY <1>3, <2>1, <2>2, LeastIsMin
  <2>. QED  BY <1>1, <2>3 DEF empty
<1>. QED  BY <1>2, <1>3

\* One place of a table is taken or changed.
SetAt(table, fd, entry) ==
    IF fd > Len(table) THEN Append(table, entry) ELSE [table EXCEPT ![fd] = entry]

IsSetAt(t, old, k, new) ==
    /\ IsSeq(t) /\ DOMAIN t = DOMAIN old \union {k}
    /\ t[k] = new
    /\ \A i \in DOMAIN old : i # k => t[i] = old[i]

LEMMA SetAtIs ==
    ASSUME NEW old, IsSeq(old), NEW k, k \in 1 .. Len(old) + 1, NEW new
    PROVE  IsSetAt(SetAt(old, k, new), old, k, new)
<1> DEFINE next == SetAt(old, k, new)
<1>1. Len(old) \in Nat /\ DOMAIN old = 1 .. Len(old)
  BY SeqBasics
<1>2. CASE k > Len(old)
  <2>1. k = Len(old) + 1 /\ next = Append(old, new)
    BY <1>1, <1>2 DEF SetAt
  <2> HIDE DEF next
  <2>2. /\ IsSeq(next) /\ Len(next) = Len(old) + 1
        /\ \A i \in 1 .. Len(old) : next[i] = old[i]
        /\ next[Len(old) + 1] = new
    <3> DEFINE appended == Append(old, new)
    <3>1. /\ IsSeq(appended) /\ Len(appended) = Len(old) + 1
          /\ \A i \in 1 .. Len(old) : appended[i] = old[i]
          /\ appended[Len(old) + 1] = new
      BY AppendAny, Zenon
    <3> HIDE DEF appended
    <3>. QED  BY <2>1, <3>1 DEF appended
  <2>3. DOMAIN next = 1 .. Len(old) + 1
    BY <2>2, SeqBasics
  <2>4. DOMAIN next = DOMAIN old \union {k}
    BY <1>1, <2>1, <2>3
  <2>. QED  BY <1>1, <1>2, <2>1, <2>2, <2>4 DEF next, IsSetAt
<1>3. CASE ~(k > Len(old))
  <2>1. k \in DOMAIN old /\ next = [old EXCEPT ![k] = new]
    BY <1>1, <1>3 DEF SetAt
  <2> HIDE DEF next
  <2>2. /\ next = [i \in DOMAIN old |-> next[i]]
        /\ next[k] = new /\ \A i \in DOMAIN old : i # k => next[i] = old[i]
    BY <2>1
  <2>3. IsSeq(next) /\ Len(next) = Len(old) /\ DOMAIN next = DOMAIN old
    BY <2>2, KeptAny
  <2>. QED  BY <1>1, <1>3, <2>1, <2>2, <2>3 DEF next, IsSetAt
<1>. QED  BY <1>2, <1>3

LEMMA SetAtLen ==
    ASSUME NEW old, IsSeq(old), NEW k, k \in 1 .. Len(old) + 1, NEW new
    PROVE  Len(SetAt(old, k, new)) = IF k > Len(old) THEN k ELSE Len(old)
<1> DEFINE t == SetAt(old, k, new)
<1>1. Len(old) \in Nat /\ DOMAIN old = 1 .. Len(old)
  BY SeqBasics
<1>2. IsSeq(t) /\ DOMAIN t = DOMAIN old \union {k}
  BY SetAtIs DEF IsSetAt
<1> HIDE DEF t
<1>3. Len(t) \in Nat /\ 1 .. Len(t) = 1 .. Len(old) \union {k}
  BY <1>1, <1>2, SeqBasics
<1>4. \A n \in Nat : n \in 1 .. Len(t) <=> n \in 1 .. Len(old) \/ n = k
  BY <1>3
<1>5. CASE k > Len(old)
  <2>1. k = Len(old) + 1 /\ k \in 1 .. Len(t) /\ k + 1 \notin 1 .. Len(t)
    BY <1>1, <1>4, <1>5
  <2>. QED  BY <1>1, <1>3, <1>5, <2>1 DEF t
<1>6. CASE ~(k > Len(old))
  <2>1. Len(old) \in 1 .. Len(t) /\ Len(old) + 1 \notin 1 .. Len(t)
    BY <1>1, <1>4, <1>6
  <2>. QED  BY <1>1, <1>3, <1>6, <2>1 DEF t
<1>. QED  BY <1>5, <1>6

\* The descriptors open on a file when a place was taken or emptied.
LEMMA ReferencesAre ==
    ASSUME TablesInv, NEW s \in Slots, NEW fd \in Fds, NEW i
    PROVE  /\ IsFiniteSet(References(i)) /\ Cardinality(References(i)) \in Nat
           /\ Cardinality(References(i) \union {<<s, fd>>}) =
                 IF <<s, fd>> \in References(i) THEN Cardinality(References(i))
                 ELSE Cardinality(References(i)) + 1
           /\ Cardinality(References(i) \ {<<s, fd>>}) =
                 IF <<s, fd>> \in References(i) THEN Cardinality(References(i)) - 1
                 ELSE Cardinality(References(i))
<1>1. IsFiniteSet(Slots \X Fds)
  <2>1. IsFiniteSet(Slots) /\ IsFiniteSet(Fds)
    BY FilesAssumption, FS_Interval DEF Slots, Fds
  <2>. QED  BY <2>1, FS_Product
<1>2. IsFiniteSet(References(i))
  BY <1>1, FS_Subset DEF References
<1>. QED  BY <1>2, FS_CardinalityType, FS_AddElement, FS_RemoveElement

LEMMA OpenFoundInv ==
    ASSUME FilesInv, pc = "user", NEW s \in Slots, NEW means, NEW append, NEW found,
           Sane(Hardware, found), OpenFound(s, means, append, found),
           UNCHANGED <<bootVars, used, cwd, refs, kills, loads>>
    PROVE  FilesInv'
<1> DEFINE fd == FreeFd(s)
           place == IF append THEN found.node.length ELSE 0
           entry == [NewFd(found.node) EXCEPT !.offset = place]
           hold == [path |-> means, at |-> place]
           table == SetAt(entries[s], fd, entry)
<1>1. UNCHANGED <<machine, pc, tree, used, cwd, refs, kills, loads>>
  BY DEF bootVars
<1>2. BootInv'
  BY <1>1 DEF FilesInv, BootInv
<1>3. CASE found.is \notin {"node", NONE}
  <2>1. UNCHANGED <<entries, capacity, initrdCount, holds>>
    BY <1>3 DEF OpenFound
  <2>. QED  BY <1>1, <1>2, <2>1, Untouched DEF FilesInv, taskVars
<1>4. CASE found.is \in {"node", NONE}
  <2>1. /\ fd \in Fds
        /\ task_append_fd(s, fd, entry)
        /\ initrdCount' = Opened(initrdCount, found.node)
        /\ holds' = IF found.is = NONE THEN holds ELSE [holds EXCEPT ![s][fd] = hold]
    BY <1>4 DEF OpenFound
  <2>2. found.is = NONE <=> found.node = NULL
    BY <1>4 DEF Sane, NONE
  <2>3. IsShared(found.node) => found.node.inode \in DOMAIN Hardware.initrd
    BY DEF Sane
  <2>4. /\ entry = [node |-> entry.node, count |-> entry.count, offset |-> entry.offset]
        /\ entry.node = found.node
        /\ entry.count = IF found.node # NULL /\ Counted(tree, found.node) /\ ~IsShared(found.node)
                         THEN 1 ELSE 0
    BY DEF NewFd
  <2>5. /\ fd \in 1 .. Len(entries[s]) + 1 /\ Len(entries[s]) \in Nat
        /\ fd \in DOMAIN entries[s] => entries[s][fd].node = NULL
        /\ IsSeq(entries[s])
    BY FreeFdIs DEF FilesInv, TablesInv, TableOk
  <2>6. /\ entries' = [entries EXCEPT ![s] = table]
        /\ capacity' = IF fd > capacity[s] THEN [capacity EXCEPT ![s] = 2 * @] ELSE capacity
    BY <2>1 DEF task_append_fd, SetAt
  <2>t. table = SetAt(entries[s], fd, entry)
    OBVIOUS
  <2> HIDE DEF fd, entry, place, hold, table
  <2>7. /\ IsSeq(table) /\ DOMAIN table = DOMAIN entries[s] \union {fd}
        /\ table[fd] = entry
        /\ \A i \in DOMAIN entries[s] : i # fd => table[i] = entries[s][i]
    <3>1. IsSeq(entries[s])
      BY <2>5
    <3>2. fd \in 1 .. Len(entries[s]) + 1
      BY <2>5
    <3>3. IsSetAt(table, entries[s], fd, entry)
      BY <2>t, <3>1, <3>2, SetAtIs
    <3>. QED  BY <3>3 DEF IsSetAt
  <2>a. Len(table) = IF fd > Len(entries[s]) THEN fd ELSE Len(entries[s])
    BY <2>t, <2>5, SetAtLen
  <2>8. /\ entries' = [x \in Slots |-> entries'[x]] /\ entries'[s] = table
        /\ \A x \in Slots : x # s => entries'[x] = entries[x]
    BY <2>6 DEF FilesInv, TablesInv
  <2>9. /\ holds' = [x \in Slots |-> [f \in Fds |-> holds'[x][f]]]
        /\ found.node # NULL => holds'[s][fd] = hold
        /\ \A x \in Slots, f \in Fds :
             <<x, f>> # <<s, fd>> \/ found.node = NULL => holds'[x][f] = holds[x][f]
    BY <2>1, <2>2 DEF FilesInv, TablesInv
  <2>10. hold # NoHold /\ HoldOk(hold)
    <3>1. "at" \in DOMAIN hold /\ "at" \notin DOMAIN NoHold
      BY DEF hold, NoHold
    <3>. QED  BY <3>1 DEF HoldOk, hold
  <2>11. TablesInv'
    <3>1. TableOk(Hardware, table)
      <4>1. MaxFds \in Nat /\ fd <= MaxFds
        BY <2>1, FilesAssumption DEF Fds
      <4>2. TableOk(Hardware, entries[s])
        BY DEF FilesInv, TablesInv
      <4>3. EntryOk(Hardware, entry)
        BY <2>3, <2>4 DEF EntryOk
      <4>. QED  BY <2>5, <2>7, <2>a, <4>1, <4>2, <4>3 DEF TableOk
    <3>2. Hardware' = Hardware
      BY <1>1 DEF Hardware
    <3>3. \A x \in Slots : TableOk(Hardware, entries'[x])
      BY <2>8, <3>1 DEF FilesInv, TablesInv
    <3>4. \A x \in Slots, f \in Fds : HoldOk(holds'[x][f])
      BY <2>9, <2>10 DEF FilesInv, TablesInv
    <3>. QED  BY <1>1, <2>8, <2>9, <3>2, <3>3, <3>4 DEF FilesInv, TablesInv
  <2>12. SizesInv'
    <3>1. capacity[s] \in Nat /\ 0 < capacity[s] /\ Len(entries[s]) <= capacity[s]
      BY DEF FilesInv, SizesInv
    <3>2. fd > capacity[s] => fd <= 2 * capacity[s]
      BY <2>5, <3>1
    <3>3. capacity' \in [Slots -> Nat]
      BY <2>6, <3>1 DEF FilesInv, SizesInv
    <3>4. \A x \in Slots : 0 < capacity'[x] /\ Len(entries'[x]) <= capacity'[x]
      <4> SUFFICES ASSUME NEW x \in Slots PROVE 0 < capacity'[x] /\ Len(entries'[x]) <= capacity'[x]
        OBVIOUS
      <4>1. CASE x = s
        BY <2>5, <2>6, <2>a, <2>8, <3>1, <3>2, <4>1 DEF FilesInv, SizesInv
      <4>2. CASE x # s
        BY <2>6, <2>8, <4>2 DEF FilesInv, SizesInv
      <4>. QED  BY <4>1, <4>2
    <3>. QED  BY <1>1, <3>3, <3>4 DEF FilesInv, SizesInv
  <2>13. OwnInv'
    <3>1. OpenIn(table) = IF found.node = NULL THEN OpenIn(entries[s]) ELSE OpenIn(entries[s]) \union {fd}
      BY <2>4, <2>5, <2>7 DEF OpenIn
    <3>2. Held(s)' = IF found.node = NULL THEN Held(s) ELSE Held(s) \union {fd}
      BY <2>1, <2>9, <2>10 DEF Held
    <3>3. \A x \in Slots : x # s => Held(x)' = Held(x)
      BY <2>9 DEF Held
    <3>. QED  BY <1>1, <2>8, <3>1, <3>2, <3>3 DEF FilesInv, OwnInv
  <2>14. CountInv'
    <3>1. Hardware' = Hardware
      BY <1>1 DEF Hardware
    <3>2. /\ initrdCount' \in [DOMAIN Hardware.initrd -> Int]
          /\ Hardware.heapWord >= 0 => \A i \in DOMAIN initrdCount :
               initrdCount'[i] = IF IsShared(found.node) /\ found.node.inode = i
                                 THEN initrdCount[i] + 1 ELSE initrdCount[i]
      <4>1. Hardware.heapWord \in Int
        BY MachineIs DEF FilesInv
      <4>2. Hardware.heapWord >= 0 => \A i \in DOMAIN initrdCount : initrdCount[i] >= 0
        <5>1. SUFFICES ASSUME Hardware.heapWord >= 0, NEW i \in DOMAIN initrdCount
                       PROVE  initrdCount[i] >= 0
          OBVIOUS
        <5>2. initrdCount[i] = Hardware.heapWord + loads[i] + Cardinality(References(i))
          BY <5>1 DEF FilesInv, CountInv, RefsCounted
        <5>3. loads[i] \in Nat
          BY DEF FilesInv, CountInv
        <5>4. Cardinality(References(i)) \in Nat
          BY <2>1, ReferencesAre DEF FilesInv
        <5>. QED  BY <4>1, <5>1, <5>2, <5>3, <5>4
      <4>. QED  BY <2>1, <2>3, <4>2 DEF FilesInv, CountInv, Opened
    <3>3. \A i : References(i)' =
               IF IsShared(found.node) /\ found.node.inode = i
               THEN References(i) \union {<<s, fd>>} ELSE References(i)
      <4> SUFFICES ASSUME NEW i
                   PROVE  References(i)' = IF IsShared(found.node) /\ found.node.inode = i
                                           THEN References(i) \union {<<s, fd>>} ELSE References(i)
        OBVIOUS
      <4>1. References(i) \subseteq Slots \X Fds /\ References(i)' \subseteq Slots \X Fds
        BY DEF References
      <4>2. ASSUME NEW x \in Slots, NEW f \in Fds, <<x, f>> # <<s, fd>>
            PROVE  <<x, f>> \in References(i)' <=> <<x, f>> \in References(i)
        <5>1. /\ f \in DOMAIN entries'[x] <=> f \in DOMAIN entries[x]
              /\ f \in DOMAIN entries[x] => entries'[x][f] = entries[x][f]
          BY <2>7, <2>8, <4>2
        <5>. QED  BY <5>1 DEF References
      <4>3. <<s, fd>> \in References(i)' <=> IsShared(found.node) /\ found.node.inode = i
        BY <2>1, <2>4, <2>7, <2>8 DEF References
      <4>4. <<s, fd>> \notin References(i) /\ <<s, fd>> \in Slots \X Fds
        BY <2>1, <2>5, NullIsNot DEF References
      <4>. QED  BY <4>1, <4>2, <4>3, <4>4
    <3>4. \A i : <<s, fd>> \notin References(i)
      BY <2>5, NullIsNot DEF References
    <3>5. ASSUME NEW x \in Slots, NEW f \in DOMAIN entries'[x], NEW e, e = entries'[x][f]
          PROVE  e.count = IF e.node # NULL /\ Counted(tree, e.node) /\ ~IsShared(e.node) THEN 1 ELSE 0
      <4>1. CASE x = s /\ f = fd
        BY <2>4, <2>7, <2>8, <3>5, <4>1
      <4>2. CASE ~(x = s /\ f = fd)
        <5>1. f \in DOMAIN entries[x] /\ e = entries[x][f]
          BY <2>7, <2>8, <3>5, <4>2
        <5>. QED  BY <5>1 DEF FilesInv, CountInv, RefsCounted
      <4>. QED  BY <4>1, <4>2
    <3>6. ASSUME Hardware.heapWord >= 0, NEW i \in DOMAIN initrdCount
          PROVE  initrdCount'[i] = Hardware.heapWord + loads[i] + Cardinality(References(i)')
      <4>1. initrdCount[i] = Hardware.heapWord + loads[i] + Cardinality(References(i))
        BY <3>6 DEF FilesInv, CountInv, RefsCounted
      <4>2. /\ Hardware.heapWord \in Int /\ loads[i] \in Int /\ Cardinality(References(i)) \in Nat
            /\ Cardinality(References(i) \union {<<s, fd>>}) = Cardinality(References(i)) + 1
        BY <2>1, <3>4, MachineIs, ReferencesAre DEF FilesInv, CountInv
      <4>. QED  BY <3>2, <3>3, <3>6, <4>1, <4>2
    <3>7. DOMAIN initrdCount' = DOMAIN initrdCount
      BY <3>2 DEF FilesInv, CountInv
    <3>. QED  BY <1>1, <3>1, <3>2, <3>5, <3>6, <3>7 DEF FilesInv, CountInv, RefsCounted
  <2>. QED  BY <1>2, <2>11, <2>12, <2>13, <2>14 DEF FilesInv
<1>. QED  BY <1>3, <1>4

LEMMA OpenInv ==
    ASSUME FilesInv, NEW s \in Slots, NEW input \in Hardware.asks, NEW append \in BOOLEAN,
           sys_open(s, input, append)
    PROVE  FilesInv'
<1> DEFINE path == canonicalize_path(cwd[s], input)
<1>1. pc = "user"
  BY DEF sys_open, Runs
<1>2. IsSeq(path)
  BY AskIs
<1>3. Sane(Hardware, Open(path))
  BY <1>1, <1>2, OpenSane
<1>4. OpenFound(s, Meaning(cwd[s], input), append, Open(path))
  BY DEF sys_open
<1>5. UNCHANGED <<bootVars, used, cwd, refs, kills, loads>>
  BY DEF sys_open
<1> HIDE DEF path
<1>. QED  BY <1>1, <1>3, <1>4, <1>5, OpenFoundInv

-----------------------------------------------------------------------------
(* sys_close and sys_read_fs.                                              *)

LEMMA CloseInv ==
    ASSUME FilesInv, NEW s \in Slots, NEW fd \in Fds, sys_close(s, fd)
    PROVE  FilesInv'
<1> DEFINE node == entries[s][fd].node
<1>1. /\ UNCHANGED <<machine, pc, tree, used, cwd, capacity, refs, kills, loads>>
      /\ pc = "user"
  BY DEF sys_close, bootVars, Runs
<1>2. BootInv'
  BY <1>1 DEF FilesInv, BootInv
<1>3. CASE ~IsFd(s, fd)
  <2>1. UNCHANGED <<entries, initrdCount, holds>>
    BY <1>3 DEF sys_close
  <2>. QED  BY <1>1, <1>2, <2>1, Untouched DEF FilesInv, taskVars
<1>4. CASE IsFd(s, fd)
  <2>1. /\ entries' = [entries EXCEPT ![s][fd] = NoFd]
        /\ initrdCount' = Closed(initrdCount, node)
        /\ holds' = [holds EXCEPT ![s][fd] = NoHold]
    BY <1>4 DEF sys_close
  <2>2. fd \in DOMAIN entries[s] /\ node # NULL
    BY <1>4 DEF IsFd
  <2>3. IsShared(node) => node.inode \in DOMAIN Hardware.initrd
    BY <2>2 DEF FilesInv, TablesInv, TableOk, EntryOk
  <2> HIDE DEF node
  <2>4. /\ entries' = [x \in Slots |-> entries'[x]]
        /\ entries'[s] = [f \in DOMAIN entries[s] |-> entries'[s][f]]
        /\ entries'[s][fd] = NoFd
        /\ \A f \in DOMAIN entries[s] : f # fd => entries'[s][f] = entries[s][f]
        /\ \A x \in Slots : x # s => entries'[x] = entries[x]
    <3>1. entries' = [entries EXCEPT ![s] = [entries[s] EXCEPT ![fd] = NoFd]]
      BY <2>1
    <3>2. /\ entries' = [x \in Slots |-> entries'[x]]
          /\ entries'[s] = [entries[s] EXCEPT ![fd] = NoFd]
          /\ \A x \in Slots : x # s => entries'[x] = entries[x]
      BY <3>1 DEF FilesInv, TablesInv
    <3>. QED  BY <2>2, <3>2
  <2>5. IsSeq(entries'[s]) /\ Len(entries'[s]) = Len(entries[s]) /\ DOMAIN entries'[s] = DOMAIN entries[s]
    BY <2>4, KeptAny DEF FilesInv, TablesInv, TableOk
  <2>6. /\ holds' = [x \in Slots |-> [f \in Fds |-> holds'[x][f]]]
        /\ holds'[s][fd] = NoHold
        /\ \A x \in Slots, f \in Fds : <<x, f>> # <<s, fd>> => holds'[x][f] = holds[x][f]
    BY <2>1 DEF FilesInv, TablesInv
  <2>7. /\ NoFd.node = NULL /\ NoFd.count = 0 /\ ~IsShared(NoFd.node)
        /\ NoFd = [node |-> NoFd.node, count |-> NoFd.count, offset |-> NoFd.offset]
    BY NullIsNot DEF NoFd
  <2>8. Hardware' = Hardware
    BY <1>1 DEF Hardware
  <2>9. TablesInv'
    <3>1. TableOk(Hardware, entries'[s])
      <4>1. TableOk(Hardware, entries[s])
        BY DEF FilesInv, TablesInv
      <4>2. EntryOk(Hardware, NoFd)
        BY <2>7 DEF EntryOk
      <4>. QED  BY <2>4, <2>5, <4>1, <4>2 DEF TableOk
    <3>2. \A x \in Slots : TableOk(Hardware, entries'[x])
      BY <2>4, <3>1 DEF FilesInv, TablesInv
    <3>3. \A x \in Slots, f \in Fds : HoldOk(holds'[x][f])
      BY <2>6 DEF FilesInv, TablesInv, HoldOk
    <3>. QED  BY <1>1, <2>4, <2>6, <2>8, <3>2, <3>3 DEF FilesInv, TablesInv
  <2>10. SizesInv'
    <3>1. \A x \in Slots : Len(entries'[x]) = Len(entries[x])
      BY <2>4, <2>5
    <3>. QED  BY <1>1, <3>1 DEF FilesInv, SizesInv
  <2>11. OwnInv'
    <3>1. OpenIn(entries'[s]) = OpenIn(entries[s]) \ {fd}
      BY <2>4, <2>5, <2>7 DEF OpenIn
    <3>2. Held(s)' = Held(s) \ {fd}
      BY <2>6 DEF Held
    <3>3. \A x \in Slots : x # s => Held(x)' = Held(x) /\ entries'[x] = entries[x]
      BY <2>4, <2>6 DEF Held
    <3>. QED  BY <1>1, <3>1, <3>2, <3>3 DEF FilesInv, OwnInv
  <2>12. CountInv'
    <3>1. ASSUME NEW i PROVE References(i)' = References(i) \ {<<s, fd>>}
      <4>1. ASSUME NEW x \in Slots, NEW f \in Fds
            PROVE  <<x, f>> \in References(i)' <=> <<x, f>> \in References(i) \ {<<s, fd>>}
        <5>1. CASE x = s /\ f = fd
          BY <2>4, <2>7, <5>1 DEF References
        <5>2. CASE ~(x = s /\ f = fd)
          <6>1. /\ f \in DOMAIN entries'[x] <=> f \in DOMAIN entries[x]
                /\ f \in DOMAIN entries[x] => entries'[x][f] = entries[x][f]
            BY <2>4, <2>5, <5>2
          <6>. QED  BY <5>2, <6>1 DEF References
        <5>. QED  BY <5>1, <5>2
      <4>. QED  BY <4>1 DEF References
    <3>2. \A i : <<s, fd>> \in References(i) <=> IsShared(node) /\ node.inode = i
      BY <2>2 DEF References, node
    <3>3. /\ initrdCount' \in [DOMAIN Hardware.initrd -> Int]
          /\ DOMAIN initrdCount' = DOMAIN initrdCount
      BY <2>1, <2>3 DEF FilesInv, CountInv, Closed
    <3>4. ASSUME NEW x \in Slots, NEW f \in DOMAIN entries'[x], NEW e, e = entries'[x][f]
          PROVE  e.count = IF e.node # NULL /\ Counted(tree, e.node) /\ ~IsShared(e.node) THEN 1 ELSE 0
      <4>1. CASE x = s /\ f = fd
        BY <2>4, <2>7, <3>4, <4>1
      <4>2. CASE ~(x = s /\ f = fd)
        <5>1. f \in DOMAIN entries[x] /\ e = entries[x][f]
          BY <2>4, <2>5, <3>4, <4>2
        <5>. QED  BY <5>1 DEF FilesInv, CountInv, RefsCounted
      <4>. QED  BY <4>1, <4>2
    <3>5. ASSUME Hardware.heapWord >= 0, NEW i \in DOMAIN initrdCount
          PROVE  initrdCount'[i] = Hardware.heapWord + loads[i] + Cardinality(References(i)')
      <4>1. initrdCount[i] = Hardware.heapWord + loads[i] + Cardinality(References(i))
        BY <3>5 DEF FilesInv, CountInv, RefsCounted
      <4>2. /\ Hardware.heapWord \in Int /\ loads[i] \in Nat /\ Cardinality(References(i)) \in Nat
        BY MachineIs, ReferencesAre DEF FilesInv, CountInv
      <4>3. Cardinality(References(i)') = IF <<s, fd>> \in References(i) THEN Cardinality(References(i)) - 1
                                         ELSE Cardinality(References(i))
        BY <3>1, ReferencesAre DEF FilesInv
      <4>4. initrdCount[i] # -1 /\ initrdCount[i] \in Int
        BY <3>5, <4>1, <4>2
      <4>5. CASE IsShared(node) /\ node.inode = i
        <5>1. initrdCount'[i] = initrdCount[i] - 1
          BY <2>1, <4>4, <4>5 DEF Closed, FilesInv, CountInv
        <5>. QED  BY <3>2, <4>1, <4>2, <4>3, <4>5, <5>1
      <4>6. CASE ~(IsShared(node) /\ node.inode = i)
        <5>1. initrdCount'[i] = initrdCount[i]
          BY <2>1, <4>6 DEF Closed, FilesInv, CountInv
        <5>. QED  BY <3>2, <4>1, <4>2, <4>3, <4>6, <5>1
      <4>. QED  BY <4>5, <4>6
    <3>. QED  BY <1>1, <2>8, <3>3, <3>4, <3>5 DEF FilesInv, CountInv, RefsCounted
  <2>. QED  BY <1>2, <2>9, <2>10, <2>11, <2>12 DEF FilesInv
<1>. QED  BY <1>3, <1>4

LEMMA ReadInv ==
    ASSUME FilesInv, NEW s \in Slots, NEW fd \in Fds, NEW size, sys_read_fs(s, fd, size)
    PROVE  FilesInv'
<1> DEFINE here == entries[s][fd]
           answer == read_fs(Here, volume, here.node, here.offset, size)
<1>1. /\ UNCHANGED <<machine, pc, tree, used, cwd, capacity, refs, initrdCount, kills, loads>>
      /\ pc = "user"
  BY DEF sys_read_fs, bootVars, Runs
<1>2. BootInv'
  BY <1>1 DEF FilesInv, BootInv
<1>3. CASE ~(IsFd(s, fd) /\ answer.is = "bytes")
  <2>1. UNCHANGED <<entries, holds>>
    BY <1>3 DEF sys_read_fs, ReadGives
  <2>. QED  BY <1>1, <1>2, <2>1, Untouched DEF FilesInv, taskVars
<1>4. CASE IsFd(s, fd) /\ answer.is = "bytes"
  <2> DEFINE there == here.offset + Len(answer.bytes)
             on == holds[s][fd].at + Len(answer.bytes)
  <2>1. /\ entries' = [entries EXCEPT ![s][fd].offset = there]
        /\ holds' = IF fd \in Held(s) THEN [holds EXCEPT ![s][fd].at = on] ELSE holds
    BY <1>4 DEF sys_read_fs, ReadGives
  <2>2. fd \in DOMAIN entries[s] /\ here = [node |-> here.node, count |-> here.count, offset |-> here.offset]
    BY <1>4 DEF IsFd, FilesInv, TablesInv, TableOk, EntryOk
  <2> DEFINE moved == [here EXCEPT !.offset = there]
  <2>3. /\ moved.node = here.node /\ moved.count = here.count
        /\ moved = [node |-> moved.node, count |-> moved.count, offset |-> moved.offset]
    BY <2>2
  <2>4. /\ entries' = [x \in Slots |-> entries'[x]]
        /\ entries'[s] = [f \in DOMAIN entries[s] |-> entries'[s][f]]
        /\ entries'[s][fd] = moved
        /\ \A f \in DOMAIN entries[s] : f # fd => entries'[s][f] = entries[s][f]
        /\ \A x \in Slots : x # s => entries'[x] = entries[x]
    <3>1. entries' = [entries EXCEPT ![s] = [entries[s] EXCEPT ![fd] = moved]]
      BY <2>1
    <3> HIDE DEF moved
    <3>2. /\ entries' = [x \in Slots |-> entries'[x]]
          /\ entries'[s] = [entries[s] EXCEPT ![fd] = moved]
          /\ \A x \in Slots : x # s => entries'[x] = entries[x]
      BY <3>1 DEF FilesInv, TablesInv
    <3>. QED  BY <2>2, <3>2
  <2> HIDE DEF moved, there, answer
  <2>5. IsSeq(entries'[s]) /\ Len(entries'[s]) = Len(entries[s]) /\ DOMAIN entries'[s] = DOMAIN entries[s]
    BY <2>4, KeptAny DEF FilesInv, TablesInv, TableOk
  <2>6. /\ holds' = [x \in Slots |-> [f \in Fds |-> holds'[x][f]]]
        /\ \A x \in Slots, f \in Fds : HoldOk(holds'[x][f]) /\ (holds'[x][f] = NoHold <=> holds[x][f] = NoHold)
    <3>1. CASE fd \notin Held(s)
      BY <2>1, <3>1 DEF FilesInv, TablesInv
    <3>2. CASE fd \in Held(s)
      <4> DEFINE h == holds[s][fd]
                 next == [h EXCEPT !.at = on]
      <4>1. h # NoHold /\ h = [path |-> h.path, at |-> h.at]
        BY <3>2 DEF Held, FilesInv, TablesInv, HoldOk
      <4>2. next = [path |-> h.path, at |-> on]
        <5> HIDE DEF on, h
        <5>. QED  BY <4>1
      <4>3. holds' = [holds EXCEPT ![s] = [holds[s] EXCEPT ![fd] = next]]
        BY <2>1, <3>2
      <4> HIDE DEF next, on, h
      <4>4. next # NoHold /\ HoldOk(next)
        <5>1. "at" \in DOMAIN next /\ "at" \notin DOMAIN NoHold
          BY <4>2 DEF NoHold
        <5>. QED  BY <4>2, <5>1 DEF HoldOk
      <4>5. /\ holds' = [x \in Slots |-> [f \in Fds |-> holds'[x][f]]]
            /\ holds'[s][fd] = next
            /\ \A x \in Slots, f \in Fds : <<x, f>> # <<s, fd>> => holds'[x][f] = holds[x][f]
        BY <4>3 DEF FilesInv, TablesInv
      <4>. QED  BY <4>1, <4>4, <4>5 DEF FilesInv, TablesInv, h
    <3>. QED  BY <3>1, <3>2
  <2>7. Hardware' = Hardware
    BY <1>1 DEF Hardware
  <2>8. ASSUME NEW x \in Slots, NEW f
        PROVE  /\ f \in DOMAIN entries'[x] <=> f \in DOMAIN entries[x]
               /\ f \in DOMAIN entries[x] => /\ entries'[x][f].node = entries[x][f].node
                                             /\ entries'[x][f].count = entries[x][f].count
    BY <2>3, <2>4, <2>5
  <2>9. TablesInv'
    <3>1. TableOk(Hardware, entries'[s])
      <4>1. TableOk(Hardware, entries[s])
        BY DEF FilesInv, TablesInv
      <4>2. EntryOk(Hardware, moved)
        BY <2>2, <2>3, <4>1 DEF EntryOk, TableOk
      <4>. QED  BY <2>4, <2>5, <4>1, <4>2 DEF TableOk
    <3>2. \A x \in Slots : TableOk(Hardware, entries'[x])
      BY <2>4, <3>1 DEF FilesInv, TablesInv
    <3>. QED  BY <1>1, <2>4, <2>6, <2>7, <3>2 DEF FilesInv, TablesInv
  <2>10. SizesInv'
    <3>1. \A x \in Slots : Len(entries'[x]) = Len(entries[x])
      BY <2>4, <2>5
    <3>. QED  BY <1>1, <3>1 DEF FilesInv, SizesInv
  <2>11. OwnInv'
    <3>1. \A x \in Slots : OpenIn(entries'[x]) = OpenIn(entries[x])
      BY <2>8 DEF OpenIn
    <3>2. \A x \in Slots : Held(x)' = Held(x)
      BY <2>6 DEF Held
    <3>. QED  BY <1>1, <3>1, <3>2 DEF FilesInv, OwnInv
  <2>12. CountInv'
    <3>1. \A i : References(i)' = References(i)
      BY <2>8 DEF References
    <3>. QED  BY <1>1, <2>7, <2>8, <3>1 DEF FilesInv, CountInv, RefsCounted
  <2>. QED  BY <1>2, <2>9, <2>10, <2>11, <2>12 DEF FilesInv
<1>. QED  BY <1>3, <1>4

-----------------------------------------------------------------------------
(* sys_chdir and the loading of programs.                                  *)

LEMMA ChdirInv ==
    ASSUME FilesInv, NEW s \in Slots, NEW input \in Hardware.asks, NEW pid \in Slots,
           sys_chdir(s, input, pid)
    PROVE  FilesInv'
<1> DEFINE path == canonicalize_path(cwd[pid], input)
           found == Open(path)
<1>1. /\ UNCHANGED <<machine, pc, tree, used, entries, capacity, refs, holds, kills, loads>>
      /\ pc = "user" /\ IsSeq(path)
  BY AskIs DEF sys_chdir, bootVars, Runs
<1>2. BootInv'
  BY <1>1 DEF FilesInv, BootInv
<1>3. Sane(Hardware, found)
  BY <1>1, OpenSane
<1>4. /\ cwd' = cwd \/ cwd' = [cwd EXCEPT ![pid] = path]
      /\ initrdCount' = Closed(Opened(initrdCount, found.node), found.node)
  BY DEF sys_chdir, ChdirFound, task_set_working_directory
<1> HIDE DEF path, found
<1>5. Hardware' = Hardware
  BY <1>1 DEF Hardware
<1>6. TablesInv'
  BY <1>1, <1>4, <1>5 DEF FilesInv, TablesInv
<1>7. SizesInv'
  BY <1>1 DEF FilesInv, SizesInv
<1>8. OwnInv'
  BY <1>1 DEF FilesInv, OwnInv, Held
<1>9. CountInv'
  <2>1. \A i : References(i)' = References(i)
    BY <1>1 DEF References
  <2>2. initrdCount' \in [DOMAIN Hardware.initrd -> Int]
    BY <1>3, <1>4 DEF Sane, Opened, Closed, FilesInv, CountInv
  <2>3. ASSUME Hardware.heapWord >= 0 PROVE initrdCount' = initrdCount
    <3>1. \A i \in DOMAIN initrdCount : initrdCount[i] \in Int /\ initrdCount[i] >= 0
      <4> SUFFICES ASSUME NEW i \in DOMAIN initrdCount
                   PROVE  initrdCount[i] \in Int /\ initrdCount[i] >= 0
        OBVIOUS
      <4>1. initrdCount[i] = Hardware.heapWord + loads[i] + Cardinality(References(i))
        BY <2>3 DEF FilesInv, CountInv, RefsCounted
      <4>2. Hardware.heapWord \in Int /\ loads[i] \in Nat
        BY MachineIs DEF FilesInv, CountInv
      <4>3. Cardinality(References(i)) \in Nat
        <5>1. 1 \in Fds
          BY FilesAssumption DEF Fds
        <5>. QED  BY <5>1, ReferencesAre DEF FilesInv
      <4>. QED  BY <2>3, <4>1, <4>2, <4>3
    <3>2. IsShared(found.node) => found.node.inode \in DOMAIN initrdCount
      BY <1>3 DEF Sane, FilesInv, CountInv
    <3>. QED  BY <1>4, <3>1, <3>2 DEF Opened, Closed, FilesInv, CountInv
  <2>. QED  BY <1>1, <1>5, <2>1, <2>2, <2>3 DEF FilesInv, CountInv, RefsCounted
<1>. QED  BY <1>2, <1>6, <1>7, <1>8, <1>9 DEF FilesInv

LEMMA LoadInv ==
    ASSUME FilesInv, pc # "vfs", used # Slots, NEW path, IsSeq(path), NEW means, Load(path, means),
           pc' = "user", UNCHANGED <<machine, tree, cwd, entries, capacity, refs, holds, kills>>
    PROVE  FilesInv'
<1> DEFINE found == Open(path)
<1>1. Sane(Hardware, found)
  BY OpenSane
<1>2. /\ initrdCount' = Opened(initrdCount, found.node)
      /\ loads' = IF IsShared(found.node) THEN [loads EXCEPT ![found.node.inode] = @ + 1] ELSE loads
      /\ used' = used \/ used' = used \union {Min(Slots \ used)}
  BY DEF Load, LoadFound, LoadAnswer
<1> HIDE DEF found
<1>3. used' \subseteq Slots
  <2>1. used \subseteq Slots
    BY DEF FilesInv, TablesInv
  <2>2. Slots \ used \in SUBSET Nat /\ Slots \ used # {}
    <3>1. Slots \ used # {}
      BY <2>1
    <3>2. Slots \ used \in SUBSET Nat
      BY FilesAssumption DEF Slots
    <3>. QED  BY <3>1, <3>2
  <2>3. Min(Slots \ used) \in Slots
    BY <2>2, LeastIsMin
  <2>. QED  BY <1>2, <2>1, <2>3
<1>4. BootInv'
  BY DEF FilesInv, BootInv
<1>5. Hardware' = Hardware
  BY DEF Hardware
<1>6. TablesInv'
  BY <1>3, <1>5 DEF FilesInv, TablesInv
<1>7. SizesInv'
  BY DEF FilesInv, SizesInv
<1>8. OwnInv'
  BY DEF FilesInv, OwnInv, Held
<1>9. CountInv'
  <2>1. \A i : References(i)' = References(i)
    BY DEF References
  <2>2. /\ loads \in [DOMAIN Hardware.initrd -> Nat]
        /\ initrdCount \in [DOMAIN Hardware.initrd -> Int]
    BY DEF FilesInv, CountInv
  <2>3. IsShared(found.node) => found.node.inode \in DOMAIN Hardware.initrd
    BY <1>1 DEF Sane
  <2>4. /\ loads' \in [DOMAIN Hardware.initrd -> Nat]
        /\ initrdCount' \in [DOMAIN Hardware.initrd -> Int]
    BY <1>2, <2>2, <2>3 DEF Opened
  <2>5. ASSUME Hardware.heapWord >= 0, NEW i \in DOMAIN Hardware.initrd
        PROVE  initrdCount'[i] = Hardware.heapWord + loads'[i] + Cardinality(References(i))
    <3>1. initrdCount[i] = Hardware.heapWord + loads[i] + Cardinality(References(i))
      BY <2>2, <2>5 DEF FilesInv, CountInv, RefsCounted
    <3>2. Hardware.heapWord \in Int /\ loads[i] \in Nat /\ initrdCount[i] \in Int
      BY <2>2, MachineIs DEF FilesInv
    <3>3. Cardinality(References(i)) \in Nat
      <4>1. 1 \in Fds /\ 1 \in Slots
        BY FilesAssumption DEF Fds, Slots
      <4>. QED  BY <4>1, ReferencesAre DEF FilesInv
    <3>4. initrdCount[i] >= 0
      BY <2>5, <3>1, <3>2, <3>3
    <3>5. CASE IsShared(found.node) /\ found.node.inode = i
      <4>1. initrdCount'[i] = initrdCount[i] + 1
        BY <1>2, <2>2, <3>4, <3>5 DEF Opened
      <4>2. loads'[i] = loads[i] + 1
        BY <1>2, <2>2, <3>5
      <4>. QED  BY <3>1, <3>2, <3>3, <4>1, <4>2
    <3>6. CASE ~(IsShared(found.node) /\ found.node.inode = i)
      <4>1. initrdCount'[i] = initrdCount[i] /\ loads'[i] = loads[i]
        BY <1>2, <2>2, <2>3, <3>6 DEF Opened
      <4>. QED  BY <3>1, <4>1
    <3>. QED  BY <3>5, <3>6
  <2>6. RefsCounted'
    BY <1>5, <2>1, <2>4, <2>5 DEF FilesInv, CountInv, RefsCounted
  <2>. QED  BY <1>5, <2>4, <2>6 DEF CountInv
<1>. QED  BY <1>4, <1>6, <1>7, <1>8, <1>9 DEF FilesInv

LEMMA CreateProcessInv ==
    ASSUME FilesInv, NEW s \in Slots, NEW input \in Hardware.asks, create_process(s, input)
    PROVE  FilesInv'
<1>1. /\ pc = "user" /\ pc' = "user" /\ used # Slots
      /\ UNCHANGED <<machine, tree, cwd, entries, capacity, refs, holds, kills>>
  BY DEF create_process, Runs, bootVars
<1>2. IsSeq(canonicalize_path(cwd[s], input))
  BY AskIs
<1>3. Load(canonicalize_path(cwd[s], input), Meaning(cwd[s], input))
  BY DEF create_process
<1>. QED  BY <1>1, <1>2, <1>3, LoadInv

LEMMA RunInitInv ==
    ASSUME FilesInv, RunInit
    PROVE  FilesInv'
<1>1. /\ pc = "run" /\ pc' = "user" /\ Load(INIT_PATH, INIT_PATH)
      /\ UNCHANGED <<machine, tree, cwd, entries, capacity, refs, holds, kills>>
  BY DEF RunInit, At
<1>2. IsSeq(INIT_PATH)
  BY MachinesAssumption DEF IsSeq
<1>3. used # Slots
  <2>1. 1 \in Slots
    BY FilesAssumption DEF Slots
  <2>. QED  BY <1>1, <2>1 DEF FilesInv, BootInv
<1>. QED  BY <1>1, <1>2, <1>3, LoadInv

-----------------------------------------------------------------------------
(* kill.                                                                   *)

\* The closing of a table, one place after the other.
LEMMA ClosedSteps ==
    ASSUME NEW s \in Slots, NEW pid \in Slots, IsSeq(entries[pid]), kill(s, pid), refs[pid] = 1
    PROVE  \E closed :
             /\ initrdCount' = closed[Len(entries[pid])]
             /\ closed[0] = initrdCount
             /\ \A i \in 1 .. Len(entries[pid]) :
                  closed[i] = Closed(closed[i - 1], entries[pid][i].node)
<1> DEFINE N == Len(entries[pid])
           Is(f, n) == f = [i \in 0 .. n |-> IF i = 0 THEN initrdCount
                                            ELSE Closed(f[i - 1], entries[pid][i].node)]
           All == CHOOSE f : Is(f, N)
<1>1. N \in Nat
  BY SeqBasics
<1>2. initrdCount' = All[N]
  BY DEF kill
<1> HIDE DEF N, All
<1>3. Is(All, N)
  <2> DEFINE S == {n \in Nat : \E f : Is(f, n)}
  <2>1. 0 \in S
    <3>1. Is([i \in 0 .. 0 |-> initrdCount], 0)
      OBVIOUS
    <3> HIDE DEF Is
    <3>. QED  BY <3>1
  <2>2. ASSUME NEW n \in S PROVE n + 1 \in S
    <3>1. PICK f : Is(f, n)
      OBVIOUS
    <3> DEFINE g == [i \in 0 .. n + 1 |-> IF i <= n THEN f[i]
                                          ELSE Closed(f[n], entries[pid][n + 1].node)]
    <3>2. ASSUME NEW i \in 0 .. n + 1
          PROVE  g[i] = IF i = 0 THEN initrdCount ELSE Closed(g[i - 1], entries[pid][i].node)
      BY <3>1
    <3>3. Is(g, n + 1)
      BY <3>2
    <3> HIDE DEF g, Is
    <3>. QED  BY <3>3
  <2>3. N \in S
    <3> HIDE DEF S
    <3>1. S \in SUBSET Nat
      BY DEF S
    <3>. QED  BY <1>1, <2>1, <2>2, <3>1, AllNaturals
  <2> HIDE DEF Is
  <2>. QED  BY <2>3 DEF All
<1>4. /\ All[0] = initrdCount
      /\ \A i \in 1 .. N : All[i] = Closed(All[i - 1], entries[pid][i].node)
  <2> DEFINE g == [i \in 0 .. N |-> IF i = 0 THEN initrdCount
                                   ELSE Closed(All[i - 1], entries[pid][i].node)]
  <2>1. g[0] = initrdCount /\ \A i \in 1 .. N : g[i] = Closed(All[i - 1], entries[pid][i].node)
    BY <1>1
  <2>2. All = g
    BY <1>3
  <2> HIDE DEF g
  <2>. QED  BY <2>1, <2>2
<1>. QED  BY <1>2, <1>4 DEF N

\* The descriptors open on a file when the first n places of a table are closed.
Left(pid, n, i) == References(i) \ {<<pid, k>> : k \in 1 .. n}

LEMMA LeftIs ==
    ASSUME TablesInv, NEW pid \in Slots, NEW n \in Nat, n + 1 \in DOMAIN entries[pid], NEW i,
           NEW node, node = entries[pid][n + 1].node
    PROVE  /\ Cardinality(Left(pid, n, i)) \in Nat
           /\ Cardinality(Left(pid, n + 1, i)) =
                IF IsShared(node) /\ node.inode = i THEN Cardinality(Left(pid, n, i)) - 1
                ELSE Cardinality(Left(pid, n, i))
<1> DEFINE L == Left(pid, n, i)
<1>1. n + 1 \in Fds
  <2>1. /\ IsSeq(entries[pid]) /\ Len(entries[pid]) <= MaxFds
    BY DEF TablesInv, TableOk
  <2>2. Len(entries[pid]) \in Nat /\ n + 1 \in 1 .. Len(entries[pid])
    BY <2>1, SeqBasics
  <2>. QED  BY <2>1, <2>2, FilesAssumption DEF Fds
<1>2. IsFiniteSet(L)
  BY <1>1, ReferencesAre, FS_Subset DEF Left
<1>3. Left(pid, n + 1, i) = L \ {<<pid, n + 1>>}
  <2>1. {<<pid, k>> : k \in 1 .. n + 1} = {<<pid, k>> : k \in 1 .. n} \union {<<pid, n + 1>>}
    <3>1. 1 .. n + 1 = (1 .. n) \union {n + 1}
      OBVIOUS
    <3>. QED  BY <3>1
  <2>. QED  BY <2>1 DEF Left
<1>4. <<pid, n + 1>> \in L <=> IsShared(node) /\ node.inode = i
  <2>1. <<pid, n + 1>> \notin {<<pid, k>> : k \in 1 .. n}
    OBVIOUS
  <2>. QED  BY <1>1, <2>1 DEF Left, References
<1> HIDE DEF L
<1>5. Cardinality(L) \in Nat
  BY <1>2, FS_CardinalityType
<1>6. Cardinality(L \ {<<pid, n + 1>>}) =
        IF <<pid, n + 1>> \in L THEN Cardinality(L) - 1 ELSE Cardinality(L)
  BY <1>2, FS_RemoveElement
<1>7. Cardinality(Left(pid, n + 1, i)) =
        IF IsShared(node) /\ node.inode = i THEN Cardinality(L) - 1 ELSE Cardinality(L)
  BY <1>3, <1>4, <1>6
<1>. QED  BY <1>5, <1>7 DEF L

\* While a table is closed, each count goes with the descriptors that are left.
LEMMA ClosedCounts ==
    ASSUME FilesInv, NEW s \in Slots, NEW pid \in Slots, kill(s, pid), refs[pid] = 1
    PROVE  /\ initrdCount' \in [DOMAIN Hardware.initrd -> Int]
           /\ Hardware.heapWord >= 0 => \A i \in DOMAIN Hardware.initrd :
                initrdCount'[i] = Hardware.heapWord + loads[i]
                                  + Cardinality(Left(pid, Len(entries[pid]), i))
<1> DEFINE N == Len(entries[pid])
           table == entries[pid]
<1>1. TablesInv /\ IsSeq(table) /\ N \in Nat /\ DOMAIN table = 1 .. N
  BY SeqBasics DEF FilesInv, TablesInv, TableOk
<1>2. PICK closed :
        /\ initrdCount' = closed[N] /\ closed[0] = initrdCount
        /\ \A i \in 1 .. N : closed[i] = Closed(closed[i - 1], table[i].node)
  BY <1>1, ClosedSteps
<1>3. /\ Hardware.heapWord \in Int /\ loads \in [DOMAIN Hardware.initrd -> Nat]
      /\ initrdCount \in [DOMAIN Hardware.initrd -> Int]
  BY MachineIs DEF FilesInv, CountInv
<1> DEFINE Typed(n) == closed[n] \in [DOMAIN Hardware.initrd -> Int]
           Right(n) == Hardware.heapWord >= 0 => \A i \in DOMAIN Hardware.initrd :
                          closed[n][i] = Hardware.heapWord + loads[i] + Cardinality(Left(pid, n, i))
           S == {n \in Nat : n <= N => Typed(n) /\ Right(n)}
<1>4. 0 \in S
  <2>1. \A i : Left(pid, 0, i) = References(i)
    BY DEF Left
  <2>. QED  BY <1>2, <1>3, <2>1 DEF FilesInv, CountInv, RefsCounted
<1>5. ASSUME NEW n \in S PROVE n + 1 \in S
  <2> SUFFICES ASSUME n + 1 <= N PROVE Typed(n + 1) /\ Right(n + 1)
    OBVIOUS
  <2> DEFINE node == table[n + 1].node
  <2>1. Typed(n) /\ Right(n) /\ n \in Nat /\ n + 1 \in DOMAIN table
    BY <1>1
  <2>2. closed[n + 1] = Closed(closed[n], node)
    BY <1>1, <1>2, <2>1
  <2>3. IsShared(node) => node.inode \in DOMAIN Hardware.initrd
    BY <1>1, <2>1 DEF TablesInv, TableOk, EntryOk
  <2>4. \A i : /\ Cardinality(Left(pid, n, i)) \in Nat
               /\ Cardinality(Left(pid, n + 1, i)) =
                    IF IsShared(node) /\ node.inode = i THEN Cardinality(Left(pid, n, i)) - 1
                    ELSE Cardinality(Left(pid, n, i))
    BY <1>1, <2>1, LeftIs
  <2>5. \A i : Cardinality(Left(pid, n + 1, i)) \in Int
    BY <2>4
  <2> HIDE DEF node
  <2>6. Typed(n + 1)
    BY <2>1, <2>2, <2>3 DEF Closed
  <2>7. ASSUME Hardware.heapWord >= 0, NEW i \in DOMAIN Hardware.initrd
        PROVE  closed[n + 1][i] = Hardware.heapWord + loads[i] + Cardinality(Left(pid, n + 1, i))
    <3>1. closed[n][i] = Hardware.heapWord + loads[i] + Cardinality(Left(pid, n, i)) /\ closed[n][i] \in Int
      BY <2>1, <2>7
    <3>2. loads[i] \in Nat
      BY <1>3
    <3>3. CASE IsShared(node) /\ node.inode = i
      <4>1. closed[n][i] # -1
        BY <1>3, <2>4, <2>7, <3>1, <3>2
      <4>2. closed[n + 1][i] = closed[n][i] - 1
        BY <2>1, <2>2, <3>3, <4>1 DEF Closed
      <4>. QED  BY <1>3, <2>4, <3>1, <3>2, <3>3, <4>2
    <3>4. CASE ~(IsShared(node) /\ node.inode = i)
      <4>1. closed[n + 1][i] = closed[n][i]
        BY <2>1, <2>2, <2>3, <3>4 DEF Closed
      <4>. QED  BY <2>4, <3>1, <3>4, <4>1
    <3>. QED  BY <3>3, <3>4
  <2>. QED  BY <2>6, <2>7
<1>6. N \in S
  <2> HIDE DEF S
  <2>1. S \in SUBSET Nat
    BY DEF S
  <2>. QED  BY <1>1, <1>4, <1>5, <2>1, AllNaturals
<1>. QED  BY <1>1, <1>2, <1>6

LEMMA KillInv ==
    ASSUME FilesInv, NEW s \in Slots, NEW pid \in Slots, kill(s, pid)
    PROVE  FilesInv'
<1> DEFINE none == [fd \in Fds |-> NoHold]
<1>1. /\ UNCHANGED <<machine, pc, tree, cwd, capacity, loads>> /\ pc = "user"
      /\ used' = used \ {pid} /\ refs' = [refs EXCEPT ![pid] = @ - 1]
      /\ kills' = [kills EXCEPT ![pid] = @ + 1] /\ holds' = [holds EXCEPT ![pid] = none]
  BY DEF kill, bootVars, Runs
<1>2. BootInv'
  BY <1>1 DEF FilesInv, BootInv
<1>3. Hardware' = Hardware
  BY <1>1 DEF Hardware
<1>4. /\ kills' \in [Slots -> Nat] /\ refs' \in [Slots -> Int] /\ capacity' \in [Slots -> Nat]
      /\ \A x \in Slots : refs'[x] = 1 - kills'[x]
  BY <1>1 DEF FilesInv, SizesInv
<1>5. /\ holds' = [x \in Slots |-> [f \in Fds |-> holds'[x][f]]]
      /\ \A f \in Fds : holds'[pid][f] = NoHold
      /\ \A x \in Slots : x # pid => holds'[x] = holds[x]
      /\ \A x \in Slots, f \in Fds : HoldOk(holds'[x][f])
  BY <1>1 DEF FilesInv, TablesInv, HoldOk
<1>6. /\ Held(pid)' = {} /\ \A x \in Slots : x # pid => Held(x)' = Held(x)
  BY <1>5 DEF Held
<1>7. /\ kills'[pid] = kills[pid] + 1 /\ \A x \in Slots : x # pid => kills'[x] = kills[x]
  BY <1>1 DEF FilesInv, SizesInv
<1> HIDE DEF none
<1>8. CASE refs[pid] # 1
  <2>1. UNCHANGED <<entries, initrdCount>>
    BY <1>8 DEF kill
  <2>2. TablesInv'
    BY <1>1, <1>3, <1>5, <2>1 DEF FilesInv, TablesInv
  <2>3. SizesInv'
    BY <1>1, <1>4, <2>1 DEF FilesInv, SizesInv
  <2>4. OwnInv'
    <3>1. ~(kills'[pid] < 2)
      BY <1>7, <1>8 DEF FilesInv, SizesInv
    <3>. QED  BY <1>6, <1>7, <2>1, <3>1 DEF FilesInv, OwnInv
  <2>5. CountInv'
    <3>1. \A i : References(i)' = References(i)
      BY <2>1 DEF References
    <3>. QED  BY <1>1, <1>3, <2>1, <3>1 DEF FilesInv, CountInv, RefsCounted
  <2>. QED  BY <1>2, <2>2, <2>3, <2>4, <2>5 DEF FilesInv
<1>9. CASE refs[pid] = 1
  <2>1. entries' = [entries EXCEPT ![pid] = Emptied(entries[pid])]
    BY <1>9 DEF kill
  <2>2. /\ entries' = [x \in Slots |-> entries'[x]] /\ entries'[pid] = Emptied(entries[pid])
        /\ \A x \in Slots : x # pid => entries'[x] = entries[x]
    BY <2>1 DEF FilesInv, TablesInv
  <2>3. /\ entries'[pid] = [i \in DOMAIN entries[pid] |-> entries'[pid][i]]
        /\ \A i \in DOMAIN entries[pid] : entries'[pid][i] = NoFd
    BY <2>2 DEF Emptied
  <2>4. IsSeq(entries'[pid]) /\ Len(entries'[pid]) = Len(entries[pid]) /\ DOMAIN entries'[pid] = DOMAIN entries[pid]
    BY <2>3, KeptAny DEF FilesInv, TablesInv, TableOk
  <2>5. /\ NoFd.node = NULL /\ NoFd.count = 0 /\ ~IsShared(NoFd.node)
        /\ NoFd = [node |-> NoFd.node, count |-> NoFd.count, offset |-> NoFd.offset]
    BY NullIsNot DEF NoFd
  <2>6. TablesInv'
    <3>1. TableOk(Hardware, entries'[pid])
      <4>1. TableOk(Hardware, entries[pid])
        BY DEF FilesInv, TablesInv
      <4>2. EntryOk(Hardware, NoFd)
        BY <2>5 DEF EntryOk
      <4>. QED  BY <2>3, <2>4, <4>1, <4>2 DEF TableOk
    <3>2. \A x \in Slots : TableOk(Hardware, entries'[x])
      BY <2>2, <3>1 DEF FilesInv, TablesInv
    <3>. QED  BY <1>1, <1>3, <1>5, <2>2, <3>2 DEF FilesInv, TablesInv
  <2>7. SizesInv'
    <3>1. \A x \in Slots : Len(entries'[x]) = Len(entries[x])
      BY <2>2, <2>4
    <3>. QED  BY <1>1, <1>4, <3>1 DEF FilesInv, SizesInv
  <2>8. OwnInv'
    <3>1. OpenIn(entries'[pid]) = {}
      BY <2>3, <2>4, <2>5 DEF OpenIn
    <3>. QED  BY <1>6, <1>7, <2>2, <3>1 DEF FilesInv, OwnInv
  <2>9. CountInv'
    <3>1. ASSUME NEW i PROVE References(i)' = Left(pid, Len(entries[pid]), i)
      <4>1. Len(entries[pid]) \in Nat /\ DOMAIN entries[pid] = 1 .. Len(entries[pid])
        BY SeqBasics DEF FilesInv, TablesInv, TableOk
      <4>2. ASSUME NEW x \in Slots, NEW f \in Fds
            PROVE  <<x, f>> \in References(i)' <=> <<x, f>> \in Left(pid, Len(entries[pid]), i)
        <5>1. CASE x = pid /\ f \in DOMAIN entries[pid]
          <6>1. <<x, f>> \notin References(i)'
            BY <2>3, <2>5, <5>1 DEF References
          <6>2. <<x, f>> \notin Left(pid, Len(entries[pid]), i)
            BY <4>1, <5>1 DEF Left
          <6>. QED  BY <6>1, <6>2
        <5>2. CASE ~(x = pid /\ f \in DOMAIN entries[pid])
          <6>1. /\ f \in DOMAIN entries'[x] <=> f \in DOMAIN entries[x]
                /\ f \in DOMAIN entries[x] => entries'[x][f] = entries[x][f]
            BY <2>2, <2>4, <5>2
          <6>2. <<x, f>> \in References(i)' <=> <<x, f>> \in References(i)
            BY <6>1 DEF References
          <6>3. <<x, f>> \in Left(pid, Len(entries[pid]), i) <=> <<x, f>> \in References(i)
            BY <4>1, <5>2 DEF Left
          <6>. QED  BY <6>2, <6>3
        <5>. QED  BY <5>1, <5>2
      <4>. QED  BY <4>2 DEF References, Left
    <3>2. /\ initrdCount' \in [DOMAIN Hardware.initrd -> Int]
          /\ Hardware.heapWord >= 0 => \A i \in DOMAIN initrdCount' :
               initrdCount'[i] = Hardware.heapWord + loads[i] + Cardinality(References(i)')
      BY <1>9, <3>1, ClosedCounts
    <3>3. ASSUME NEW x \in Slots, NEW f \in DOMAIN entries'[x], NEW e, e = entries'[x][f]
          PROVE  e.count = IF e.node # NULL /\ Counted(tree, e.node) /\ ~IsShared(e.node) THEN 1 ELSE 0
      <4>1. CASE x = pid
        BY <2>3, <2>4, <2>5, <3>3, <4>1
      <4>2. CASE x # pid
        BY <2>2, <3>3, <4>2 DEF FilesInv, CountInv, RefsCounted
      <4>. QED  BY <4>1, <4>2
    <3>. QED  BY <1>1, <1>3, <3>2, <3>3 DEF FilesInv, CountInv, RefsCounted
  <2>. QED  BY <1>2, <2>6, <2>7, <2>8, <2>9 DEF FilesInv
<1>. QED  BY <1>8, <1>9

-----------------------------------------------------------------------------
(* How the machine stands.                                                 *)

\* The ways the machine may stand, and what is left of the search for tables.
EndInv ==
    /\ stopped \in {"no", "off", "reset", "panic", "fault", "hang", "wild", "smash"}
    /\ pc = "vfs" => tree = <<>>
    /\ acpi.is = "return" => acpi.directory = "kernel"

\* A state of the search that has the kernel's directory to go back to, and
\* has gone back where it is over.
AcpiOk(a) ==
    /\ a = [mapped |-> a.mapped, fadt |-> a.fadt, slp |-> a.slp, directory |-> a.directory,
            cr3 |-> a.cr3, is |-> a.is]
    /\ a.cr3 = "kernel"
    /\ a.is = "return" => a.directory = "kernel"

LEMMA ReturnIsOk ==
    ASSUME NEW a, AcpiOk(a)
    PROVE  AcpiOk(Return(a)) /\ \A slp : AcpiOk([Return(a) EXCEPT !.slp = slp])
<1>1. a = [mapped |-> a.mapped, fadt |-> a.fadt, slp |-> a.slp, directory |-> a.directory,
           cr3 |-> "kernel", is |-> a.is]
  BY DEF AcpiOk
<1>2. acpi_leave_subsystem(a) =
        [mapped |-> a.mapped, fadt |-> a.fadt, slp |-> a.slp, directory |-> "kernel",
         cr3 |-> "kernel", is |-> a.is]
  BY <1>1 DEF acpi_leave_subsystem
<1>3. Return(a) = [mapped |-> a.mapped, fadt |-> a.fadt, slp |-> a.slp, directory |-> "kernel",
                   cr3 |-> "kernel", is |-> "return"]
  BY <1>2 DEF Return
<1>. QED  BY <1>3 DEF AcpiOk

LEMMA ChangedIsOk ==
    ASSUME NEW a, AcpiOk(a), NEW pages, NEW fadt
    PROVE  /\ AcpiOk([a EXCEPT !.mapped = pages]) /\ AcpiOk([a EXCEPT !.fadt = fadt])
           /\ AcpiOk(Fault(a))
<1>1. a = [mapped |-> a.mapped, fadt |-> a.fadt, slp |-> a.slp, directory |-> a.directory,
           cr3 |-> "kernel", is |-> a.is]
  BY DEF AcpiOk
<1>2. a.is = "return" => a.directory = "kernel"
  BY DEF AcpiOk
<1>3. AcpiOk([a EXCEPT !.mapped = pages])
  BY <1>1, <1>2 DEF AcpiOk
<1>4. AcpiOk([a EXCEPT !.fadt = fadt])
  BY <1>1, <1>2 DEF AcpiOk
<1>5. AcpiOk(Fault(a))
  BY <1>1 DEF AcpiOk, Fault
<1>. QED  BY <1>3, <1>4, <1>5

LEMMA ChecksumIsOk ==
    ASSUME NEW fw, NEW a, AcpiOk(a), NEW at
    PROVE  AcpiOk(doChecksum(fw, a, at))
<1>. QED  BY ReturnIsOk, ChangedIsOk DEF doChecksum

LEMMA TableIsOk ==
    ASSUME NEW fw, NEW a, AcpiOk(a), NEW signature, NEW root
    PROVE  AcpiOk(find_table_int(fw, a, signature, root).acpi)
<1> DEFINE list == fw.tables[root].others
           fits == {i \in DOMAIN list : fw.tables[list[i]].signature = signature}
           i == CHOOSE k \in fits : \A j \in fits : k <= j
           looked == {list[k] : k \in IF fits = {} THEN DOMAIN list ELSE 1 .. i}
           after == [a EXCEPT !.mapped = @ \union {PageOf(x) : x \in looked}]
           checked == doChecksum(fw, after, list[i])
<1>1. find_table_int(fw, a, signature, root) =
        IF fits = {} THEN [acpi |-> after, table |-> 0]
        ELSE CASE checked.is = "fault" -> [acpi |-> checked, table |-> 0]
               [] checked.is = "return" -> [acpi |-> after, table |-> 0]
               [] OTHER -> [acpi |-> after, table |-> list[i]]
  BY DEF find_table_int
<1> HIDE DEF list, fits, i, looked
<1>2. AcpiOk(after)
  BY ChangedIsOk
<1>3. AcpiOk(checked)
  <2> HIDE DEF after
  <2>. QED  BY <1>2, ChecksumIsOk
<1> HIDE DEF after, checked
<1>. QED  BY <1>1, <1>2, <1>3

LEMMA DsdtIsOk ==
    ASSUME NEW fw, NEW a, AcpiOk(a), NEW dsdt
    PROVE  AcpiOk(ReadDsdt(fw, a, dsdt))
<1> DEFINE mapped == [a EXCEPT !.mapped = @ \union DsdtPages(dsdt, fw.tables[dsdt].length)]
           checked == doChecksum(fw, mapped, dsdt)
<1>1. AcpiOk(mapped)
  BY ChangedIsOk
<1>2. ReadDsdt(fw, a, dsdt) = IF checked.is # "go" THEN checked
                              ELSE [Return(checked) EXCEPT !.slp = fw.tables[dsdt].s5]
  BY DEF ReadDsdt
<1> HIDE DEF mapped
<1>3. AcpiOk(checked)
  BY <1>1, ChecksumIsOk
<1> HIDE DEF checked
<1>. QED  BY <1>2, <1>3, ReturnIsOk

\* init_acpi returns in the directory it came with.
LEMMA InitAcpiIsOk ==
    ASSUME NEW fw
    PROVE  AcpiOk(init_acpi(fw)) \/ init_acpi(fw) = NoTables
<1> DEFINE rsdp == FoundRsdp(fw)
           low == [acpi_enter_subsystem(NoTables) EXCEPT !.mapped = LowPages, !.is = "go"]
           near == Map(low, rsdp.table)
           root == doChecksum(fw, near, rsdp.table)
           tables == find_table_int(fw, root, "FACP", rsdp.table)
           next == [tables.acpi EXCEPT !.fadt = tables.table]
           checked == doChecksum(fw, next, tables.table)
<1>1. AcpiOk(low)
  <2> DEFINE none == NoTables
             saved == [none EXCEPT !.cr3 = none.directory]
             entered == acpi_enter_subsystem(none)
             first == [entered EXCEPT !.mapped = LowPages]
  <2>1. none.directory = "kernel"
    BY DEF NoTables
  <2>2. none = [mapped |-> none.mapped, fadt |-> none.fadt, slp |-> none.slp,
                directory |-> none.directory, cr3 |-> none.cr3, is |-> none.is]
    BY DEF NoTables
  <2>3. low = [first EXCEPT !.is = "go"]
    OBVIOUS
  <2>a. entered = [saved EXCEPT !.directory = "subsystem"]
    BY DEF acpi_enter_subsystem
  <2> HIDE DEF low, none, entered
  <2>b. saved = [mapped |-> none.mapped, fadt |-> none.fadt, slp |-> none.slp,
                 directory |-> none.directory, cr3 |-> "kernel", is |-> none.is]
    BY <2>1, <2>2
  <2> HIDE DEF saved
  <2>4. entered = [mapped |-> none.mapped, fadt |-> none.fadt, slp |-> none.slp,
                   directory |-> "subsystem", cr3 |-> "kernel", is |-> none.is]
    BY <2>a, <2>b
  <2>5. first = [mapped |-> LowPages, fadt |-> none.fadt, slp |-> none.slp,
                 directory |-> "subsystem", cr3 |-> "kernel", is |-> none.is]
    BY <2>4
  <2> HIDE DEF first
  <2>6. low = [mapped |-> LowPages, fadt |-> none.fadt, slp |-> none.slp,
               directory |-> "subsystem", cr3 |-> "kernel", is |-> "go"]
    BY <2>3, <2>5
  <2>. QED  BY <2>6 DEF AcpiOk
<1>2. \/ init_acpi(fw) = NoTables \/ init_acpi(fw) = Return(low) \/ init_acpi(fw) = root
      \/ init_acpi(fw) = ReadFadt(fw, root, rsdp.table)
  BY DEF init_acpi
<1> HIDE DEF low, rsdp
<1>3. AcpiOk(near)
  BY <1>1, ChangedIsOk DEF Map
<1> HIDE DEF near
<1>4. AcpiOk(root)
  BY <1>3, ChecksumIsOk
<1> HIDE DEF root
<1>5. AcpiOk(tables.acpi)
  BY <1>4, TableIsOk
<1>6. \/ ReadFadt(fw, root, rsdp.table) \in {tables.acpi, checked}
      \/ \E dsdt : ReadFadt(fw, root, rsdp.table) = ReadDsdt(fw, checked, dsdt)
  BY DEF ReadFadt, rsdp
<1> HIDE DEF tables
<1>7. AcpiOk(next)
  BY <1>5, ChangedIsOk
<1> HIDE DEF next
<1>8. AcpiOk(checked)
  BY <1>7, ChecksumIsOk
<1> HIDE DEF checked
<1>9. AcpiOk(ReadFadt(fw, root, rsdp.table))
  BY <1>5, <1>6, <1>8, DsdtIsOk
<1>. QED  BY <1>1, <1>2, <1>4, <1>9, ReturnIsOk

LEMMA AnswerIs ==
    \A m, v, node, offset, size : read_fs(m, v, node, offset, size).is \in {"bytes", "smash", "wild", "hang"}
<1>1. \A bytes : Answer(bytes).is = "bytes"
  BY DEF Answer
<1>2. NoBytes.is = "bytes"
  BY <1>1 DEF NoBytes
<1>3. \A why : Fails(why).is = why
  BY DEF Fails
<1>4. \A disk, offset, size : read_ata_bytes(disk, offset, size).is \in {"bytes", "smash"}
  <2>1. \A w, size, n : Filled(w, size, n).is \in {"bytes", "smash"}
    BY <1>1, <1>3 DEF Filled
  <2>. QED  BY <1>2, <2>1 DEF read_ata_bytes
<1>5. \A disk, v, node, offset, size :
        fat32_read(disk, v, node, offset, size).is \in {"bytes", "wild", "hang"}
  <2>1. \A disk, v, chain, offset, len : Copied(disk, v, chain, offset, len).is \in {"bytes", "hang"}
    BY <1>1, <1>2, <1>3 DEF Copied
  <2>2. \A disk, v, cluster, offset, len :
          fat32_read_file(disk, v, cluster, offset, len).is \in {"bytes", "hang"}
    BY <2>1 DEF fat32_read_file
  <2>3. \A disk, v, found, offset, size :
          ReadFound(disk, v, found, offset, size).is \in {"bytes", "wild", "hang"}
    BY <1>2, <1>3, <2>2 DEF ReadFound
  <2>. QED  BY <1>2, <2>3 DEF fat32_read
<1>6. \A m, node, offset, size : initrd_read(m, node, offset, size).is = "bytes"
  BY <1>1, <1>2 DEF initrd_read
<1>. QED  BY <1>2, <1>4, <1>5, <1>6 DEF read_fs

LEMMA EndStep ==
    ASSUME FilesInv, EndInv, [FilesNext]_filesVars
    PROVE  EndInv'
<1> DEFINE Ways == {"no", "off", "reset", "panic", "fault", "hang", "wild", "smash"}
<1>1. stopped \in Ways /\ stopped' = stopped => stopped' \in Ways
  BY DEF EndInv
<1>2. ASSUME pc = "user", UNCHANGED bootVars, stopped' \in Ways
      PROVE  EndInv'
  BY <1>2 DEF EndInv, bootVars
<1>3. \A how, call : how \in Ways /\ Ends(how, call) => stopped' \in Ways
  BY DEF Ends
<1>4. \A call : Goes(call) => stopped' \in Ways
  BY DEF Goes
<1>5. "panic" \in Ways
  OBVIOUS
<1>6. CASE MountInitrd
  BY <1>6 DEF MountInitrd, At, EndInv
<1>7. CASE InitAcpi
  <2>1. AcpiOk(acpi') \/ acpi' = NoTables
    BY <1>7, InitAcpiIsOk DEF InitAcpi
  <2>2. acpi'.is = "return" => acpi'.directory = "kernel"
    BY <2>1 DEF AcpiOk, NoTables
  <2>. QED  BY <1>7, <2>2 DEF InitAcpi, At, EndInv
<1>8. CASE ScanPci
  BY <1>8 DEF ScanPci, At, EndInv
<1>9. CASE MountDisk
  <2>1. stopped = "no" /\ pc' = "run" /\ acpi' = acpi
    BY <1>9 DEF MountDisk, At
  <2>2. \A found : MountFound(found) => stopped' \in {"hang", stopped}
    BY DEF MountFound
  <2>3. stopped' \in {"hang", "fault", stopped}
    BY <1>9, <2>2 DEF MountDisk, MountOn
  <2>. QED  BY <2>1, <2>3 DEF EndInv
<1>10. ASSUME NEW path, IsSeq(path), NEW means, Load(path, means), pc # "vfs"
       PROVE  stopped' \in Ways
  <2>1. Sane(Hardware, Open(path))
    BY <1>10, OpenSane
  <2>2. Open(path).is \in {"wild", "hang"} \/ Open(path).is \in {"node", NONE}
    BY <2>1 DEF Sane, Whys
  <2>3. "wild" \in Ways /\ "hang" \in Ways
    OBVIOUS
  <2>4. \A node, offset, size : \/ read_fs(Here, volume, node, offset, size).is = "bytes"
                                 \/ read_fs(Here, volume, node, offset, size).is \in Ways
    BY AnswerIs
  <2> HIDE DEF Ways
  <2>5. ASSUME NEW node, NEW answer, answer.is = "bytes" \/ answer.is \in Ways,
               LoadAnswer(means, node, answer)
        PROVE  stopped' \in Ways
    BY <1>3, <1>4, <2>5 DEF LoadAnswer
  <2>. QED  BY <1>3, <1>4, <1>10, <2>2, <2>3, <2>4, <2>5 DEF Load, LoadFound
<1>11. CASE RunInit
  <2>1. IsSeq(INIT_PATH)
    BY MachinesAssumption DEF IsSeq
  <2>2. pc = "run" /\ pc' = "user" /\ acpi' = acpi /\ Load(INIT_PATH, INIT_PATH)
    BY <1>11 DEF RunInit, At
  <2>3. stopped' \in Ways
    BY <1>10, <2>1, <2>2
  <2>. QED  BY <2>2, <2>3 DEF EndInv
<1>12. ASSUME NEW s \in Slots, NEW input \in Hardware.asks, NEW append \in BOOLEAN, sys_open(s, input, append)
       PROVE  EndInv'
  <2> DEFINE path == canonicalize_path(cwd[s], input)
  <2>1. pc = "user" /\ UNCHANGED bootVars
    BY <1>12 DEF sys_open, Runs
  <2>2. Sane(Hardware, Open(path))
    BY <2>1, AskIs, OpenSane
  <2>3. OpenFound(s, Meaning(cwd[s], input), append, Open(path))
    BY <1>12 DEF sys_open
  <2> HIDE DEF path
  <2>4. stopped' \in {"no", "wild", "hang"}
    BY <2>2, <2>3 DEF OpenFound, Sane, Whys, Ends, Goes
  <2>. QED  BY <1>2, <2>1, <2>4
<1>13. ASSUME NEW s \in Slots, NEW input \in Hardware.asks, NEW pid \in Slots, sys_chdir(s, input, pid)
       PROVE  EndInv'
  <2> DEFINE path == canonicalize_path(cwd[pid], input)
  <2>1. pc = "user" /\ UNCHANGED bootVars
    BY <1>13 DEF sys_chdir, Runs
  <2>2. Sane(Hardware, Open(path))
    BY <2>1, AskIs, OpenSane
  <2>3. ChdirFound(pid, path, Open(path), Meaning(cwd[pid], input))
    BY <1>13 DEF sys_chdir
  <2> HIDE DEF path
  <2>4. stopped' \in {"no", "wild", "hang"}
    BY <2>2, <2>3 DEF ChdirFound, Sane, Whys, Ends, Goes
  <2>. QED  BY <1>2, <2>1, <2>4
<1>14. ASSUME NEW s \in Slots, NEW input \in Hardware.asks, create_process(s, input)
       PROVE  EndInv'
  <2>1. pc = "user" /\ UNCHANGED bootVars
    BY <1>14 DEF create_process, Runs
  <2>2. IsSeq(canonicalize_path(cwd[s], input))
    BY AskIs
  <2>3. Load(canonicalize_path(cwd[s], input), Meaning(cwd[s], input))
    BY <1>14 DEF create_process
  <2>4. stopped' \in Ways
    BY <1>10, <2>1, <2>2, <2>3
  <2>. QED  BY <1>2, <2>1, <2>4
<1>15. ASSUME NEW s \in Slots, NEW fd \in Fds, sys_close(s, fd)
       PROVE  EndInv'
  <2>1. pc = "user" /\ UNCHANGED bootVars
    BY <1>15 DEF sys_close, Runs
  <2>2. stopped' \in {"no", "panic"}
    BY <1>15 DEF sys_close, Ends, Goes
  <2>. QED  BY <1>2, <2>1, <2>2
<1>16. ASSUME NEW s \in Slots, NEW fd \in Fds, Looks(s, fd)
       PROVE  EndInv'
  <2>1. pc = "user" /\ UNCHANGED bootVars
    BY <1>16 DEF Looks, Runs
  <2>2. stopped' \in {"no", "panic"}
    BY <1>16 DEF Looks, Ends, Goes
  <2>. QED  BY <1>2, <2>1, <2>2
<1>17. ASSUME NEW s \in Slots, NEW fd \in Fds, NEW size, sys_read_fs(s, fd, size)
       PROVE  EndInv'
  <2>1. pc = "user" /\ UNCHANGED bootVars
    BY <1>17 DEF sys_read_fs, Runs
  <2>2. stopped' \in {"no", "panic", "smash", "wild", "hang"}
    <3>1. CASE ~IsFd(s, fd)
      BY <1>17, <3>1 DEF sys_read_fs, Ends
    <3>2. CASE IsFd(s, fd)
      <4> DEFINE answer == read_fs(Here, volume, entries[s][fd].node, entries[s][fd].offset, size)
      <4>1. ReadGives(s, fd, size, answer)
        BY <1>17, <3>2 DEF sys_read_fs
      <4>2. answer.is \in {"bytes", "smash", "wild", "hang"}
        BY AnswerIs
      <4> HIDE DEF answer
      <4>. QED  BY <4>1, <4>2 DEF ReadGives, Ends, Goes
    <3>. QED  BY <3>1, <3>2
  <2>. QED  BY <1>2, <2>1, <2>2
<1>18. ASSUME NEW s \in Slots, NEW fd \in Fds, NEW index, sys_readdir(s, fd, index)
       PROVE  EndInv'
  <2>1. pc = "user" /\ UNCHANGED bootVars
    BY <1>18 DEF sys_readdir, Runs
  <2>2. stopped' \in {"no", "panic"}
    BY <1>18 DEF sys_readdir, Ends, Goes
  <2>. QED  BY <1>2, <2>1, <2>2
<1>19. ASSUME NEW s \in Slots, NEW pid \in Slots, kill(s, pid)
       PROVE  EndInv'
  <2>1. pc = "user" /\ UNCHANGED bootVars /\ stopped' = "no"
    BY <1>19 DEF kill, Runs, Goes
  <2>. QED  BY <1>2, <2>1
<1>20. ASSUME NEW s \in Slots, sys_shutdown(s) \/ sys_reboot(s)
       PROVE  EndInv'
  <2>1. pc = "user" /\ UNCHANGED bootVars
    BY <1>20 DEF sys_shutdown, sys_reboot, Runs
  <2>2. stopped' \in {"no", "off", "panic", "reset"}
    BY <1>20 DEF sys_shutdown, sys_reboot, Ends, shutdown, reboot
  <2>. QED  BY <1>2, <2>1, <2>2
<1>21. CASE UNCHANGED filesVars
  BY <1>21 DEF EndInv, filesVars, bootVars
<1>. QED  BY <1>6, <1>7, <1>8, <1>9, <1>11, <1>12, <1>13, <1>14, <1>15, <1>16, <1>17, <1>18, <1>19, <1>20, <1>21
          DEF FilesNext, sys_stat, sys_write_fs

-----------------------------------------------------------------------------
(* The theorems.                                                           *)

LEMMA InvStep == FilesInv /\ [FilesNext]_filesVars => FilesInv'
<1> SUFFICES ASSUME FilesInv, [FilesNext]_filesVars PROVE FilesInv'
  OBVIOUS
<1>1. ASSUME NEW s \in Slots, NEW fd \in Fds, Looks(s, fd)
      PROVE  FilesInv'
  BY <1>1, LooksInv DEF Looks
<1>2. ASSUME NEW s \in Slots, NEW fd \in Fds, NEW index, sys_readdir(s, fd, index)
      PROVE  FilesInv'
  BY <1>2, LooksInv DEF sys_readdir
<1>3. ASSUME NEW s \in Slots, sys_shutdown(s) \/ sys_reboot(s)
      PROVE  FilesInv'
  BY <1>3, LooksInv DEF sys_shutdown, sys_reboot
<1>4. CASE UNCHANGED filesVars
  BY <1>4, LooksInv DEF filesVars
<1>. QED  BY <1>1, <1>2, <1>3, <1>4, MountInitrdInv, InitAcpiInv, ScanPciInv, MountDiskInv, RunInitInv,
             OpenInv, ChdirInv, CreateProcessInv, CloseInv, ReadInv, KillInv
          DEF FilesNext, sys_stat, sys_write_fs

THEOREM FilesInvariant == FilesSpec => [](FilesInv /\ EndInv)
<1>1. FilesInit => FilesInv /\ EndInv
  <2>1. FilesInit => EndInv
    BY DEF FilesInit, EndInv, NoTables
  <2>. QED  BY <2>1, InitInv
<1>2. FilesInv /\ EndInv /\ [FilesNext]_filesVars => FilesInv' /\ EndInv'
  BY InvStep, EndStep
<1>. QED  BY <1>1, <1>2, PTL DEF FilesSpec

\* Tables stay within their capacity, no place is mounted twice, init_acpi comes
\* back to the directory it left, and the machine stands in one of these ways.
THEOREM FilesTypeCorrect == FilesSpec => []FilesTypeOK
<1>1. FilesInv /\ EndInv => FilesTypeOK
  <2> SUFFICES ASSUME FilesInv, EndInv PROVE FilesTypeOK
    OBVIOUS
  <2>1. \A s \in Slots : Len(entries[s]) <= capacity[s] /\ refs[s] = 1 - kills[s]
    BY DEF FilesInv, SizesInv
  <2>2. \A s \in Slots : Held(s) \subseteq DOMAIN entries[s]
    BY DEF FilesInv, OwnInv, OpenIn
  <2>3. \A i, j \in DOMAIN tree : tree[i].path = tree[j].path => i = j
    <3>1. CASE pc = "vfs"
      BY <3>1, EmptyIs DEF EndInv
    <3>2. CASE pc # "vfs"
      BY <3>2 DEF FilesInv, BootInv, IsTree
    <3>. QED  BY <3>1, <3>2
  <2>4. used \subseteq Slots
    BY DEF FilesInv, TablesInv
  <2>. QED  BY <2>1, <2>2, <2>3, <2>4 DEF FilesTypeOK, EndInv
<1>. QED  BY <1>1, FilesInvariant, PTL

\* In the first two lives of a slot a process finds in its table what it opened,
\* and nothing else, whatever the processes before it did (kill, createTask).
THEOREM OwnFilesInvariant == FilesSpec => []OwnFiles
<1>1. FilesInv => OwnFiles
  BY DEF FilesInv, TablesInv, OwnInv, OwnFiles, OpenIn
<1>. QED  BY <1>1, FilesInvariant, PTL

\* The count of a node of FAT32 is that of its one descriptor, and a file of the
\* initrd counts the descriptors open on it and the programs loaded from it, on
\* top of the word it started with (open_fs, close_fs, sys_close, kill).
THEOREM RefsCountedInvariant == FilesSpec => []RefsCounted
<1>1. FilesInv => RefsCounted
  BY DEF FilesInv, CountInv
<1>. QED  BY <1>1, FilesInvariant, PTL


-----------------------------------------------------------------------------
(* Paths: what a list of components means, and canonicalize_path computes. *)

\* FlattenSeq's function, step by step.
LEMMA FlattenSteps ==
    ASSUME NEW seqs, IsSeq(seqs), Len(seqs) # 0
    PROVE  \E f : /\ FlattenSeq(seqs) = f[Len(seqs)] /\ f[1] = seqs[1]
                  /\ \A i \in 2 .. Len(seqs) : f[i] = f[i - 1] \o seqs[i]
<1> DEFINE N == Len(seqs)
           Is(f, n) == f = [i \in 1 .. n |-> IF i = 1 THEN seqs[i] ELSE f[i - 1] \o seqs[i]]
           F == CHOOSE f : Is(f, N)
<1>1. N \in Nat /\ N # 0
  BY SeqBasics
<1>2. FlattenSeq(seqs) = F[N]
  BY DEF FlattenSeq
<1> HIDE DEF N, F
<1>3. Is(F, N)
  <2> DEFINE S == {n \in Nat : \E f : Is(f, n)}
  <2>1. 0 \in S
    <3>1. Is([i \in 1 .. 0 |-> 0], 0)
      OBVIOUS
    <3> HIDE DEF Is
    <3>. QED  BY <3>1
  <2>2. ASSUME NEW n \in S PROVE n + 1 \in S
    <3>1. PICK f : Is(f, n)
      OBVIOUS
    <3> DEFINE g == [i \in 1 .. n + 1 |->
                        IF i <= n THEN f[i] ELSE IF i = 1 THEN seqs[i] ELSE f[n] \o seqs[i]]
    <3>2. ASSUME NEW i \in 1 .. n + 1
          PROVE  g[i] = IF i = 1 THEN seqs[i] ELSE g[i - 1] \o seqs[i]
      <4>1. CASE i = n + 1
        <5>1. g[i] = (IF i = 1 THEN seqs[i] ELSE f[n] \o seqs[i]) /\ (i # 1 => g[i - 1] = f[n])
          BY <4>1
        <5> HIDE DEF g
        <5>. QED  BY <5>1
      <4>2. CASE i # n + 1
        <5>1. i \in 1 .. n /\ g[i] = f[i] /\ (i # 1 => g[i - 1] = f[i - 1])
          BY <4>2
        <5>2. f[i] = IF i = 1 THEN seqs[i] ELSE f[i - 1] \o seqs[i]
          <6> DEFINE h == [j \in 1 .. n |-> IF j = 1 THEN seqs[j] ELSE f[j - 1] \o seqs[j]]
          <6>1. h[i] = IF i = 1 THEN seqs[i] ELSE f[i - 1] \o seqs[i]
            BY <5>1
          <6>2. f = h
            BY <3>1
          <6> HIDE DEF h
          <6>. QED  BY <6>1, <6>2
        <5> HIDE DEF g
        <5>. QED  BY <5>1, <5>2
      <4>. QED  BY <4>1, <4>2
    <3>3. Is(g, n + 1)
      BY <3>2
    <3> HIDE DEF g, Is
    <3>. QED  BY <3>3
  <2>3. N \in S
    <3> HIDE DEF S
    <3>1. S \in SUBSET Nat
      BY DEF S
    <3>. QED  BY <1>1, <2>1, <2>2, <3>1, AllNaturals
  <2> HIDE DEF Is
  <2>. QED  BY <2>3 DEF F
<1>4. F[1] = seqs[1] /\ \A i \in 2 .. N : F[i] = F[i - 1] \o seqs[i]
  <2> DEFINE g == [i \in 1 .. N |-> IF i = 1 THEN seqs[i] ELSE F[i - 1] \o seqs[i]]
  <2>1. g[1] = seqs[1] /\ \A i \in 2 .. N : g[i] = F[i - 1] \o seqs[i]
    <3>1. \A i \in 1 .. N : g[i] = IF i = 1 THEN seqs[i] ELSE F[i - 1] \o seqs[i]
      OBVIOUS
    <3>2. 1 \in 1 .. N /\ \A i \in 2 .. N : i \in 1 .. N /\ i # 1
      BY <1>1
    <3> HIDE DEF g
    <3>. QED  BY <3>1, <3>2
  <2>2. F = g
    BY <1>3
  <2> HIDE DEF g
  <2>. QED  BY <2>1, <2>2
<1>. QED  BY <1>2, <1>4 DEF N

\* A flattened sequence is its beginning flattened, and its last part.
LEMMA FlattenLast ==
    ASSUME NEW n \in Nat, NEW s, IsSeq(s), Len(s) = n + 1, NEW T, \A i \in 1 .. n + 1 : s[i] \in Seq(T)
    PROVE  /\ FlattenSeq(s) = FlattenSeq(Prefix(s, n)) \o s[n + 1]
           /\ FlattenSeq(s) \in Seq(T)
<1>1. PICK f : /\ FlattenSeq(s) = f[n + 1] /\ f[1] = s[1]
               /\ \A i \in 2 .. n + 1 : f[i] = f[i - 1] \o s[i]
  <2>1. Len(s) # 0
    OBVIOUS
  <2>2. \E f : /\ FlattenSeq(s) = f[Len(s)] /\ f[1] = s[1]
               /\ \A i \in 2 .. Len(s) : f[i] = f[i - 1] \o s[i]
    BY <2>1, FlattenSteps
  <2>. QED  BY <2>2
<1>2. \A i \in 1 .. n + 1 : f[i] \in Seq(T)
  <2> DEFINE S == {k \in Nat : k + 1 <= n + 1 => f[k + 1] \in Seq(T)}
  <2>1. 0 \in S
    BY <1>1
  <2>2. ASSUME NEW k \in S PROVE k + 1 \in S
    <3> SUFFICES ASSUME k + 2 <= n + 1 PROVE f[k + 2] \in Seq(T)
      OBVIOUS
    <3>1. k + 2 \in 2 .. n + 1 /\ (k + 2) - 1 = k + 1 /\ f[k + 1] \in Seq(T) /\ k + 2 \in 1 .. n + 1
      OBVIOUS
    <3>2. f[k + 2] = f[k + 1] \o s[k + 2]
      BY <1>1, <3>1
    <3>. QED  BY <3>1, <3>2, ConcatProperties
  <2>3. S = Nat
    <3>1. S \in SUBSET Nat
      OBVIOUS
    <3> HIDE DEF S
    <3>. QED  BY <2>1, <2>2, <3>1, AllNaturals
  <2>4. ASSUME NEW i \in 1 .. n + 1 PROVE f[i] \in Seq(T)
    <3>1. i - 1 \in Nat /\ (i - 1) + 1 = i /\ i <= n + 1
      OBVIOUS
    <3>2. i - 1 \in S
      <4> HIDE DEF S
      <4>. QED  BY <2>3, <3>1
    <3>. QED  BY <3>1, <3>2
  <2>. QED  BY <2>4
<1>3. CASE n = 0
  <2>1. Prefix(s, 0) = <<>> /\ FlattenSeq(<<>>) = <<>>
    BY WholePrefix, EmptySeq DEF FlattenSeq
  <2>. QED  BY <1>1, <1>2, <1>3, <2>1, ConcatEmptySeq
<1>4. CASE n # 0
  <2>1. n \in 0 .. Len(s)
    OBVIOUS
  <2>2. IsSeq(Prefix(s, n)) /\ Len(Prefix(s, n)) = n /\ \A i \in 1 .. n : Prefix(s, n)[i] = s[i]
    BY <2>1, PrefixIs
  <2>3. PICK g : /\ FlattenSeq(Prefix(s, n)) = g[n] /\ g[1] = Prefix(s, n)[1]
                 /\ \A i \in 2 .. n : g[i] = g[i - 1] \o Prefix(s, n)[i]
    <3>1. IsSeq(Prefix(s, n)) /\ Len(Prefix(s, n)) # 0 /\ Len(Prefix(s, n)) = n
      BY <1>4, <2>2
    <3>2. \E g : /\ FlattenSeq(Prefix(s, n)) = g[Len(Prefix(s, n))] /\ g[1] = Prefix(s, n)[1]
                 /\ \A i \in 2 .. Len(Prefix(s, n)) : g[i] = g[i - 1] \o Prefix(s, n)[i]
      BY <3>1, FlattenSteps
    <3>. QED  BY <3>1, <3>2
  <2> DEFINE S == {k \in Nat : k + 1 <= n => f[k + 1] = g[k + 1]}
  <2>4. 0 \in S
    BY <1>1, <1>4, <2>2, <2>3
  <2>5. ASSUME NEW k \in S PROVE k + 1 \in S
    <3> SUFFICES ASSUME k + 2 <= n PROVE f[k + 2] = g[k + 2]
      OBVIOUS
    <3>1. /\ k + 2 \in 2 .. n + 1 /\ k + 2 \in 2 .. n /\ (k + 2) - 1 = k + 1 /\ f[k + 1] = g[k + 1]
          /\ k + 2 \in 1 .. n
      OBVIOUS
    <3>2. f[k + 2] = f[k + 1] \o s[k + 2]
      BY <1>1, <3>1
    <3>3. g[k + 2] = g[k + 1] \o Prefix(s, n)[k + 2]
      BY <2>3, <3>1
    <3>4. Prefix(s, n)[k + 2] = s[k + 2]
      BY <2>2, <3>1
    <3>. QED  BY <3>1, <3>2, <3>3, <3>4
  <2>6. S = Nat
    <3>1. S \in SUBSET Nat
      OBVIOUS
    <3> HIDE DEF S
    <3>. QED  BY <2>4, <2>5, <3>1, AllNaturals
  <2>7. f[n] = g[n]
    <3>1. n - 1 \in Nat /\ (n - 1) + 1 = n
      BY <1>4
    <3>2. n - 1 \in S
      <4> HIDE DEF S
      <4>. QED  BY <2>6, <3>1
    <3>. QED  BY <3>1, <3>2
  <2>8. n + 1 \in 2 .. n + 1 /\ (n + 1) - 1 = n
    BY <1>4
  <2>9. FlattenSeq(s) = f[n] \o s[n + 1] /\ f[n + 1] \in Seq(T)
    <3>1. f[n + 1] = f[(n + 1) - 1] \o s[n + 1]
      BY <1>1, <2>8
    <3>2. f[n + 1] \in Seq(T)
      BY <1>2
    <3>. QED  BY <1>1, <2>8, <3>1, <3>2
  <2>. QED  BY <1>1, <2>3, <2>7, <2>9
<1>. QED  BY <1>3, <1>4

\* The steps of Meaning: the ups and the names of a path, the names that stay
\* among the first n components, and those components of it.
Ups(all, i, j) == {k \in i .. j : all[k] = UP}
Words(all, i, j) == {k \in i .. j : all[k] \notin {UP, DOT}}
Staying(all, n) ==
    {k \in Words(all, 1, n) : \A j \in k .. n :
        Cardinality(Ups(all, k + 1, j)) <= Cardinality(Words(all, k + 1, j))}
Picked(all, S, n) == FlattenSeq([i \in 1 .. n |-> IF i \in S THEN <<all[i]>> ELSE <<>>])

LEMMA PickedStep ==
    ASSUME NEW T, NEW all \in Seq(T), NEW S, NEW n \in Nat, n + 1 <= Len(all)
    PROVE  /\ Picked(all, S, 0) = <<>>
           /\ n + 1 \in S => Picked(all, S, n + 1) = Picked(all, S, n) \o <<all[n + 1]>>
           /\ n + 1 \notin S => Picked(all, S, n + 1) = Picked(all, S, n)
           /\ Picked(all, S, n + 1) \in Seq(T) /\ Picked(all, S, n) \in Seq(T)
<1> DEFINE s(k) == [i \in 1 .. k |-> IF i \in S THEN <<all[i]>> ELSE <<>>]
<1>1. \A k \in Nat : IsSeq(s(k)) /\ Len(s(k)) = k /\ \A i \in 1 .. k : s(k)[i] = IF i \in S THEN <<all[i]>> ELSE <<>>
  <2> SUFFICES ASSUME NEW k \in Nat
               PROVE  IsSeq(s(k)) /\ Len(s(k)) = k /\ \A i \in 1 .. k : s(k)[i] = IF i \in S THEN <<all[i]>> ELSE <<>>
    OBVIOUS
  <2>1. \A i \in 1 .. k : s(k)[i] = IF i \in S THEN <<all[i]>> ELSE <<>>
    OBVIOUS
  <2>2. s(k) = [i \in 1 .. k |-> s(k)[i]]
    OBVIOUS
  <2>. QED  BY <2>1, <2>2, MapAny
<1>2. Picked(all, S, 0) = <<>>
  <2>1. Len(s(0)) = 0 /\ IsSeq(s(0))
    BY <1>1
  <2>2. s(0) = <<>>
    BY <2>1, EmptyIs, SameSeq
  <2>. QED  BY <2>1, <2>2 DEF Picked, FlattenSeq
<1>3. \A i \in 1 .. Len(all) : all[i] \in T /\ <<all[i]>> \in Seq(T) /\ <<>> \in Seq(T)
  BY ElementOfSeq
<1>4. \A k \in Nat : k <= Len(all) => \A i \in 1 .. k : s(k)[i] \in Seq(T)
  BY <1>1, <1>3
<1>5. Prefix(s(n + 1), n) = s(n)
  <2>1. IsSeq(s(n + 1)) /\ Len(s(n + 1)) = n + 1 /\ n \in 0 .. Len(s(n + 1)) /\ IsSeq(s(n)) /\ Len(s(n)) = n
    BY <1>1
  <2>2. /\ IsSeq(Prefix(s(n + 1), n)) /\ Len(Prefix(s(n + 1), n)) = n
        /\ \A i \in 1 .. n : Prefix(s(n + 1), n)[i] = s(n + 1)[i]
    BY <2>1, PrefixIs
  <2>3. \A i \in 1 .. n : s(n + 1)[i] = s(n)[i]
    BY <1>1
  <2> HIDE DEF s
  <2>. QED  BY <2>1, <2>2, <2>3, SameSeq
<1>6. /\ FlattenSeq(s(n + 1)) = FlattenSeq(s(n)) \o s(n + 1)[n + 1]
      /\ FlattenSeq(s(n + 1)) \in Seq(T)
  <2>1. IsSeq(s(n + 1)) /\ Len(s(n + 1)) = n + 1 /\ \A i \in 1 .. n + 1 : s(n + 1)[i] \in Seq(T)
    BY <1>1, <1>4
  <2> HIDE DEF s
  <2>. QED  BY <1>5, <2>1, FlattenLast
<1>7. Picked(all, S, n) \in Seq(T)
  <2>1. CASE n = 0
    BY <1>2, <2>1, EmptySeq
  <2>2. CASE n # 0
    <3>1. n - 1 \in Nat /\ (n - 1) + 1 = n
      BY <2>2
    <3>2. IsSeq(s(n)) /\ Len(s(n)) = n /\ \A i \in 1 .. n : s(n)[i] \in Seq(T)
      BY <1>1, <1>4
    <3>3. FlattenSeq(s(n)) \in Seq(T)
      <4> HIDE DEF s
      <4>. QED  BY <3>1, <3>2, FlattenLast
    <3>. QED  BY <3>3 DEF Picked
  <2>. QED  BY <2>1, <2>2
<1>8. s(n + 1)[n + 1] = IF n + 1 \in S THEN <<all[n + 1]>> ELSE <<>>
  BY <1>1
<1>9. Picked(all, S, n + 1) = Picked(all, S, n) \o s(n + 1)[n + 1] /\ Picked(all, S, n + 1) \in Seq(T)
  BY <1>6 DEF Picked
<1> HIDE DEF s
<1>10. n + 1 \notin S => Picked(all, S, n) \o s(n + 1)[n + 1] = Picked(all, S, n)
  BY <1>7, <1>8, ConcatEmptySeq
<1>. QED  BY <1>2, <1>7, <1>8, <1>9, <1>10

LEMMA PickedSame ==
    ASSUME NEW all, NEW n, NEW S, NEW R, \A i \in 1 .. n : i \in S <=> i \in R
    PROVE  Picked(all, S, n) = Picked(all, R, n)
<1>1. [i \in 1 .. n |-> IF i \in S THEN <<all[i]>> ELSE <<>>] = [i \in 1 .. n |-> IF i \in R THEN <<all[i]>> ELSE <<>>]
  OBVIOUS
<1>. QED  BY <1>1 DEF Picked

\* Components of which none is picked add nothing.
LEMMA PickedBeyond ==
    ASSUME NEW T, NEW all \in Seq(T), NEW m \in Nat, NEW n \in Nat, m <= n, n <= Len(all),
           NEW S, \A i \in m + 1 .. n : i \notin S
    PROVE  Picked(all, S, n) = Picked(all, S, m)
<1>0. \A q \in Nat : q + 1 <= Len(all) /\ q + 1 \notin S
                    => Picked(all, S, q + 1) = Picked(all, S, q)
  BY PickedStep
<1> DEFINE R == {k \in Nat : m + k <= n => Picked(all, S, m + k) = Picked(all, S, m)}
<1>1. 0 \in R
  OBVIOUS
<1>2. ASSUME NEW k \in R PROVE k + 1 \in R
  <2> SUFFICES ASSUME m + (k + 1) <= n PROVE Picked(all, S, m + (k + 1)) = Picked(all, S, m)
    OBVIOUS
  <2>1. m + k \in Nat /\ (m + k) + 1 <= Len(all) /\ (m + k) + 1 \notin S /\ m + (k + 1) = (m + k) + 1
    BY LenProperties
  <2>2. Picked(all, S, m + k) = Picked(all, S, m)
    OBVIOUS
  <2> HIDE DEF R
  <2>3. Picked(all, S, (m + k) + 1) = Picked(all, S, m + k)
    BY <1>0, <2>1
  <2>. QED  BY <2>1, <2>2, <2>3
<1>3. R = Nat
  <2>1. R \in SUBSET Nat
    OBVIOUS
  <2> HIDE DEF R
  <2>. QED  BY <1>1, <1>2, <2>1, AllNaturals
<1>4. n - m \in Nat /\ m + (n - m) = n
  OBVIOUS
<1>5. n - m \in R
  <2> HIDE DEF R
  <2>. QED  BY <1>3, <1>4
<1>. QED  BY <1>4, <1>5

\* Without the last one that is picked, all but the last are.
LEMMA PickedPop ==
    ASSUME NEW T, NEW all \in Seq(T), NEW n \in Nat, n <= Len(all), NEW S \in SUBSET (1 .. n),
           NEW last \in S, \A k \in S : k <= last
    PROVE  Front(Picked(all, S, n)) = Picked(all, S \ {last}, n)
<1> DEFINE m == last - 1
           p == Picked(all, S, m)
<1>1. m \in Nat /\ last = m + 1 /\ m + 1 <= Len(all) /\ m + 1 <= n /\ Len(all) \in Nat
  BY LenProperties
<1>2. Picked(all, S, n) = Picked(all, S, m + 1)
  BY <1>1, PickedBeyond
<1>3. Picked(all, S, m + 1) = p \o <<all[m + 1]>> /\ p \in Seq(T)
  BY <1>1, PickedStep
<1>4. Picked(all, S \ {last}, n) = Picked(all, S \ {last}, m)
  BY <1>1, PickedBeyond
<1>5. Picked(all, S \ {last}, m) = p
  BY <1>1, PickedSame
<1>6. all[m + 1] \in T
  BY <1>1, ElementOfSeq
<1> HIDE DEF p, m
<1>7. Front(p \o <<all[m + 1]>>) = p
  <2> DEFINE q == p \o <<all[m + 1]>>
  <2>1. q = Append(p, all[m + 1])
    BY <1>3, <1>6, AppendIsConcat
  <2>2. /\ Len(p) \in Nat /\ IsSeq(q) /\ Len(q) = Len(p) + 1 /\ \A i \in 1 .. Len(p) : q[i] = p[i]
    BY <1>3, <1>6, <2>1, AppendAny, LenProperties DEF IsSeq
  <2> HIDE DEF q
  <2>3. Len(p) \in 0 .. Len(q) /\ Front(q) = Prefix(q, Len(p))
    BY <2>2 DEF Front, Prefix
  <2>4. /\ IsSeq(Front(q)) /\ Len(Front(q)) = Len(p) /\ \A i \in 1 .. Len(p) : Front(q)[i] = p[i]
    BY <2>2, <2>3, PrefixIs
  <2>5. IsSeq(p)
    BY <1>3 DEF IsSeq
  <2>6. Front(q) = p
    BY <2>4, <2>5, SameSeq
  <2>. QED  BY <2>6 DEF q
<1>. QED  BY <1>2, <1>3, <1>4, <1>5, <1>7

\* Of some places one is the last.
LEMMA GreatestPlace ==
    ASSUME NEW n \in Nat, NEW S \in SUBSET (1 .. n), S # {}
    PROVE  \E last \in S : \A k \in S : k <= last
<1> DEFINE R == {n - j : j \in S}
<1>1. R \in SUBSET Nat /\ R # {}
  <2>1. \A j \in S : j \in Int /\ n - j \in Nat
    OBVIOUS
  <2>2. \A q \in R : q \in Nat
    BY <2>1
  <2>. QED  BY <2>2
<1>2. PICK r \in R : \A q \in R : r <= q
  BY <1>1, LeastNatural
<1>3. PICK last \in S : r = n - last
  BY <1>2
<1>4. \A j \in S : n - j \in R
  OBVIOUS
<1>5. ASSUME NEW j \in S PROVE j <= last
  <2>1. n - last <= n - j
    BY <1>2, <1>3, <1>4
  <2>. QED  BY <2>1
<1>. QED  BY <1>5


LEMMA CountsNext ==
    ASSUME NEW all, NEW n \in Nat, NEW i \in 1 .. n + 1
    PROVE  /\ Cardinality(Ups(all, i, n)) \in Nat /\ Cardinality(Words(all, i, n)) \in Nat
           /\ all[n + 1] = UP =>
                /\ Cardinality(Ups(all, i, n + 1)) = Cardinality(Ups(all, i, n)) + 1
                /\ Words(all, i, n + 1) = Words(all, i, n)
           /\ all[n + 1] = DOT =>
                /\ Ups(all, i, n + 1) = Ups(all, i, n)
                /\ Words(all, i, n + 1) = Words(all, i, n)
           /\ all[n + 1] \notin {UP, DOT} =>
                /\ Ups(all, i, n + 1) = Ups(all, i, n)
                /\ Cardinality(Words(all, i, n + 1)) = Cardinality(Words(all, i, n)) + 1
<1>1. IsFiniteSet(i .. n)
  BY FS_Interval
<1>2. IsFiniteSet(Ups(all, i, n)) /\ Cardinality(Ups(all, i, n)) \in Nat
  <2>1. Ups(all, i, n) \in SUBSET (i .. n)
    BY DEF Ups
  <2>. QED  BY <1>1, <2>1, FS_Subset, FS_CardinalityType
<1>3. IsFiniteSet(Words(all, i, n)) /\ Cardinality(Words(all, i, n)) \in Nat
  <2>1. Words(all, i, n) \in SUBSET (i .. n)
    BY DEF Words
  <2>. QED  BY <1>1, <2>1, FS_Subset, FS_CardinalityType
<1>4. i .. n + 1 = (i .. n) \union {n + 1} /\ n + 1 \notin i .. n
  OBVIOUS
<1>5. CASE all[n + 1] = UP
  <2>1. /\ Ups(all, i, n + 1) = Ups(all, i, n) \union {n + 1} /\ n + 1 \notin Ups(all, i, n)
        /\ Words(all, i, n + 1) = Words(all, i, n)
    BY <1>4, <1>5 DEF Ups, Words
  <2>2. Cardinality(Ups(all, i, n) \union {n + 1}) = Cardinality(Ups(all, i, n)) + 1
    BY <1>2, <2>1, FS_AddElement
  <2>. QED  BY <1>2, <1>3, <1>5, <2>1, <2>2, VfsAssumption
<1>6. CASE all[n + 1] = DOT
  <2>1. Ups(all, i, n + 1) = Ups(all, i, n) /\ Words(all, i, n + 1) = Words(all, i, n)
    BY <1>4, <1>6, VfsAssumption DEF Ups, Words
  <2>. QED  BY <1>2, <1>3, <1>6, <2>1, VfsAssumption
<1>7. CASE all[n + 1] \notin {UP, DOT}
  <2>1. /\ Words(all, i, n + 1) = Words(all, i, n) \union {n + 1} /\ n + 1 \notin Words(all, i, n)
        /\ Ups(all, i, n + 1) = Ups(all, i, n)
    BY <1>4, <1>7 DEF Ups, Words
  <2>2. Cardinality(Words(all, i, n) \union {n + 1}) = Cardinality(Words(all, i, n)) + 1
    BY <1>3, <2>1, FS_AddElement
  <2>. QED  BY <1>2, <1>3, <1>7, <2>1, <2>2
<1>. QED  BY <1>5, <1>6, <1>7

\* What stays, one component later.
LEMMA StayingNext ==
    ASSUME NEW all, NEW n \in Nat
    PROVE  /\ Staying(all, n) \in SUBSET (1 .. n)
           /\ \A k \in 1 .. n : k \in Staying(all, n + 1) <=>
                /\ k \in Staying(all, n)
                /\ Cardinality(Ups(all, k + 1, n + 1)) <= Cardinality(Words(all, k + 1, n + 1))
           /\ n + 1 \in Staying(all, n + 1) <=> all[n + 1] \notin {UP, DOT}
<1>1. Staying(all, n) \in SUBSET (1 .. n)
  BY DEF Staying, Words
<1>2. ASSUME NEW k \in 1 .. n
      PROVE  k \in Staying(all, n + 1) <=>
                /\ k \in Staying(all, n)
                /\ Cardinality(Ups(all, k + 1, n + 1)) <= Cardinality(Words(all, k + 1, n + 1))
  <2>1. k \in Words(all, 1, n) <=> k \in Words(all, 1, n + 1)
    BY DEF Words
  <2>2. k .. n + 1 = (k .. n) \union {n + 1}
    OBVIOUS
  <2>. QED  BY <2>1, <2>2 DEF Staying
<1>3. n + 1 \in Staying(all, n + 1) <=> all[n + 1] \notin {UP, DOT}
  <2>1. n + 1 \in Words(all, 1, n + 1) <=> all[n + 1] \notin {UP, DOT}
    BY DEF Words
  <2>2. (n + 1) .. (n + 1) = {n + 1}
    OBVIOUS
  <2>3. Ups(all, (n + 1) + 1, n + 1) = {} /\ Words(all, (n + 1) + 1, n + 1) = {}
    BY DEF Ups, Words
  <2>4. Cardinality({}) <= Cardinality({})
    BY FS_EmptySet
  <2>5. \A j \in (n + 1) .. (n + 1) :
          Cardinality(Ups(all, (n + 1) + 1, j)) <= Cardinality(Words(all, (n + 1) + 1, j))
    <3> TAKE j \in (n + 1) .. (n + 1)
    <3>1. j = n + 1
      BY <2>2
    <3>. QED  BY <2>3, <2>4, <3>1
  <2>. QED  BY <2>1, <2>5 DEF Staying
<1>. QED  BY <1>1, <1>2, <1>3

\* Behind a name that stays there are as many more names than ups as there are
\* names that stay.
Above(all, n, k) == {j \in Staying(all, n) : j > k}
Balanced(all, n) ==
    \A k \in Staying(all, n) :
        Cardinality(Words(all, k + 1, n)) = Cardinality(Ups(all, k + 1, n)) + Cardinality(Above(all, n, k))

LEMMA StayingFinite ==
    ASSUME NEW all, NEW n \in Nat
    PROVE  /\ IsFiniteSet(Staying(all, n))
           /\ \A k : IsFiniteSet(Above(all, n, k)) /\ Cardinality(Above(all, n, k)) \in Nat
<1>1. IsFiniteSet(1 .. n)
  BY FS_Interval
<1>2. IsFiniteSet(Staying(all, n))
  BY <1>1, StayingNext, FS_Subset
<1>3. \A k : Above(all, n, k) \in SUBSET Staying(all, n)
  BY DEF Above
<1>. QED  BY <1>2, <1>3, FS_Subset, FS_CardinalityType

\* An up takes the last that stays, if any.
LEMMA StayingUp ==
    ASSUME NEW all, NEW n \in Nat, Balanced(all, n), all[n + 1] = UP
    PROVE  /\ Staying(all, n) = {} => Staying(all, n + 1) = {}
           /\ \A last \in Staying(all, n) : (\A k \in Staying(all, n) : k <= last) =>
                Staying(all, n + 1) = Staying(all, n) \ {last}
           /\ Balanced(all, n + 1)
<1>1. Staying(all, n) \in SUBSET (1 .. n) /\ Staying(all, n + 1) \in SUBSET (1 .. n + 1)
  BY StayingNext
<1>2. n + 1 \notin Staying(all, n + 1)
  BY StayingNext
<1>3. ASSUME NEW k \in Staying(all, n)
      PROVE  /\ Cardinality(Words(all, k + 1, n + 1)) = Cardinality(Words(all, k + 1, n))
             /\ Cardinality(Ups(all, k + 1, n + 1)) = Cardinality(Ups(all, k + 1, n)) + 1
             /\ k \in Staying(all, n + 1) <=> Cardinality(Above(all, n, k)) # 0
             /\ Cardinality(Words(all, k + 1, n)) \in Nat /\ Cardinality(Ups(all, k + 1, n)) \in Nat
             /\ Cardinality(Above(all, n, k)) \in Nat
             /\ Cardinality(Above(all, n, k)) = 0 <=> Above(all, n, k) = {}
  <2>1. k \in 1 .. n /\ k + 1 \in 1 .. n + 1
    BY <1>1
  <2>2. /\ Cardinality(Words(all, k + 1, n + 1)) = Cardinality(Words(all, k + 1, n))
        /\ Cardinality(Ups(all, k + 1, n + 1)) = Cardinality(Ups(all, k + 1, n)) + 1
        /\ Cardinality(Words(all, k + 1, n)) \in Nat /\ Cardinality(Ups(all, k + 1, n)) \in Nat
    BY <2>1, CountsNext
  <2>3. Cardinality(Words(all, k + 1, n)) = Cardinality(Ups(all, k + 1, n)) + Cardinality(Above(all, n, k))
    BY DEF Balanced
  <2>4. Cardinality(Above(all, n, k)) \in Nat /\ (Cardinality(Above(all, n, k)) = 0 <=> Above(all, n, k) = {})
    BY StayingFinite, FS_EmptySet
  <2>5. k \in Staying(all, n + 1) <=>
          Cardinality(Ups(all, k + 1, n + 1)) <= Cardinality(Words(all, k + 1, n + 1))
    BY <2>1, StayingNext
  <2>. QED  BY <2>2, <2>3, <2>4, <2>5
<1>4. ASSUME Staying(all, n) = {} PROVE Staying(all, n + 1) = {}
  <2>1. \A k \in 1 .. n : k \notin Staying(all, n + 1)
    BY <1>4, StayingNext
  <2>. QED  BY <1>1, <1>2, <2>1
<1>5. ASSUME NEW last \in Staying(all, n), \A k \in Staying(all, n) : k <= last
      PROVE  Staying(all, n + 1) = Staying(all, n) \ {last}
  <2>1. Above(all, n, last) = {}
    BY <1>1, <1>5 DEF Above
  <2>2. \A k \in Staying(all, n) \ {last} : last \in Above(all, n, k)
    BY <1>1, <1>5 DEF Above
  <2>3. \A k \in Staying(all, n) : k \in Staying(all, n + 1) <=> k # last
    BY <1>3, <2>1, <2>2
  <2>4. \A k \in Staying(all, n + 1) : k \in Staying(all, n)
    BY <1>1, <1>2, StayingNext
  <2>. QED  BY <2>3, <2>4
<1>6. Balanced(all, n + 1)
  <2> SUFFICES ASSUME NEW k \in Staying(all, n + 1)
               PROVE  Cardinality(Words(all, k + 1, n + 1)) =
                        Cardinality(Ups(all, k + 1, n + 1)) + Cardinality(Above(all, n + 1, k))
    BY DEF Balanced
  <2>1. k \in Staying(all, n)
    BY <1>1, <1>2, StayingNext
  <2>2. \E last \in Staying(all, n) : \A j \in Staying(all, n) : j <= last
    <3>1. Staying(all, n) # {}
      BY <2>1
    <3>. QED  BY <1>1, <3>1, GreatestPlace
  <2>3. PICK last \in Staying(all, n) : \A j \in Staying(all, n) : j <= last
    BY <2>2
  <2>4. Staying(all, n + 1) = Staying(all, n) \ {last}
    BY <1>5, <2>3
  <2>5. Above(all, n + 1, k) = Above(all, n, k) \ {last} /\ last \in Above(all, n, k)
    BY <1>1, <2>3, <2>4 DEF Above
  <2>6. Cardinality(Above(all, n, k) \ {last}) = Cardinality(Above(all, n, k)) - 1
    BY <2>5, StayingFinite, FS_RemoveElement
  <2>7. Cardinality(Words(all, k + 1, n)) = Cardinality(Ups(all, k + 1, n)) + Cardinality(Above(all, n, k))
    BY <2>1 DEF Balanced
  <2>8. /\ Cardinality(Words(all, k + 1, n + 1)) = Cardinality(Words(all, k + 1, n))
        /\ Cardinality(Ups(all, k + 1, n + 1)) = Cardinality(Ups(all, k + 1, n)) + 1
        /\ Cardinality(Ups(all, k + 1, n)) \in Nat /\ Cardinality(Above(all, n, k)) \in Nat
    BY <1>3, <2>1
  <2>9. Cardinality(Above(all, n + 1, k)) = Cardinality(Above(all, n, k)) - 1
    BY <2>5, <2>6
  <2>. QED  BY <2>7, <2>8, <2>9
<1>. QED  BY <1>4, <1>5, <1>6

\* A dot leaves everything as it is, and a name stays.
LEMMA StayingName ==
    ASSUME NEW all, NEW n \in Nat, Balanced(all, n), all[n + 1] # UP
    PROVE  /\ Staying(all, n + 1) = Staying(all, n) \union (IF all[n + 1] = DOT THEN {} ELSE {n + 1})
           /\ Balanced(all, n + 1)
<1>1. Staying(all, n) \in SUBSET (1 .. n) /\ Staying(all, n + 1) \in SUBSET (1 .. n + 1)
  BY StayingNext
<1>2. n + 1 \in Staying(all, n + 1) <=> all[n + 1] # DOT
  BY StayingNext
<1>3. ASSUME NEW k \in Staying(all, n)
      PROVE  /\ Cardinality(Ups(all, k + 1, n + 1)) = Cardinality(Ups(all, k + 1, n))
             /\ Cardinality(Words(all, k + 1, n + 1)) =
                  Cardinality(Words(all, k + 1, n)) + (IF all[n + 1] = DOT THEN 0 ELSE 1)
             /\ Cardinality(Words(all, k + 1, n)) = Cardinality(Ups(all, k + 1, n)) + Cardinality(Above(all, n, k))
             /\ k \in Staying(all, n + 1)
             /\ Cardinality(Words(all, k + 1, n)) \in Nat /\ Cardinality(Ups(all, k + 1, n)) \in Nat
             /\ Cardinality(Above(all, n, k)) \in Nat
  <2>1. k \in 1 .. n /\ k + 1 \in 1 .. n + 1
    BY <1>1
  <2>2. /\ Cardinality(Ups(all, k + 1, n + 1)) = Cardinality(Ups(all, k + 1, n))
        /\ Cardinality(Words(all, k + 1, n + 1)) =
             Cardinality(Words(all, k + 1, n)) + (IF all[n + 1] = DOT THEN 0 ELSE 1)
        /\ Cardinality(Words(all, k + 1, n)) \in Nat /\ Cardinality(Ups(all, k + 1, n)) \in Nat
    <3>1. CASE all[n + 1] = DOT
      BY <2>1, <3>1, CountsNext
    <3>2. CASE all[n + 1] # DOT
      BY <2>1, <3>2, CountsNext
    <3>. QED  BY <3>1, <3>2
  <2>3. Cardinality(Words(all, k + 1, n)) = Cardinality(Ups(all, k + 1, n)) + Cardinality(Above(all, n, k))
    BY DEF Balanced
  <2>4. Cardinality(Above(all, n, k)) \in Nat
    BY StayingFinite
  <2>5. k \in Staying(all, n + 1) <=>
          Cardinality(Ups(all, k + 1, n + 1)) <= Cardinality(Words(all, k + 1, n + 1))
    BY <2>1, StayingNext
  <2>. QED  BY <2>2, <2>3, <2>4, <2>5
<1>4. \A k \in Staying(all, n + 1) : k = n + 1 \/ k \in Staying(all, n)
  BY <1>1, StayingNext
<1>5. Staying(all, n + 1) = Staying(all, n) \union (IF all[n + 1] = DOT THEN {} ELSE {n + 1})
  BY <1>2, <1>3, <1>4
<1>6. ASSUME NEW k \in Staying(all, n + 1)
      PROVE  Cardinality(Words(all, k + 1, n + 1)) =
               Cardinality(Ups(all, k + 1, n + 1)) + Cardinality(Above(all, n + 1, k))
  <2>1. CASE k = n + 1
    <3>1. /\ Words(all, k + 1, n + 1) = {} /\ Ups(all, k + 1, n + 1) = {}
          /\ Above(all, n + 1, k) = {}
      BY <1>1, <2>1 DEF Words, Ups, Above
    <3>. QED  BY <3>1, FS_EmptySet
  <2>2. CASE k \in Staying(all, n) /\ all[n + 1] = DOT
    <3>1. Above(all, n + 1, k) = Above(all, n, k)
      BY <1>5, <2>2 DEF Above
    <3>. QED  BY <1>3, <2>2, <3>1
  <2>3. CASE k \in Staying(all, n) /\ all[n + 1] # DOT
    <3>1. Above(all, n + 1, k) = Above(all, n, k) \union {n + 1} /\ n + 1 \notin Above(all, n, k)
      BY <1>1, <1>5, <2>3 DEF Above
    <3>2. Cardinality(Above(all, n, k) \union {n + 1}) = Cardinality(Above(all, n, k)) + 1
      BY <3>1, StayingFinite, FS_AddElement
    <3>3. /\ Cardinality(Ups(all, k + 1, n + 1)) = Cardinality(Ups(all, k + 1, n))
          /\ Cardinality(Words(all, k + 1, n + 1)) = Cardinality(Words(all, k + 1, n)) + 1
      BY <1>3, <2>3
    <3>4. /\ Cardinality(Words(all, k + 1, n)) = Cardinality(Ups(all, k + 1, n)) + Cardinality(Above(all, n, k))
          /\ Cardinality(Ups(all, k + 1, n)) \in Nat /\ Cardinality(Above(all, n, k)) \in Nat
      BY <1>3, <2>3
    <3>5. Cardinality(Above(all, n + 1, k)) = Cardinality(Above(all, n, k)) + 1
      BY <3>1, <3>2
    <3>. QED  BY <3>3, <3>4, <3>5
  <2>. QED  BY <1>4, <2>1, <2>2, <2>3
<1>. QED  BY <1>5, <1>6 DEF Balanced

\* After every number of components the names that stay are balanced.
LEMMA AlwaysBalanced ==
    ASSUME NEW all, NEW n \in Nat
    PROVE  Balanced(all, n)
<1> DEFINE R == {k \in Nat : Balanced(all, k)}
<1>1. 0 \in R
  <2>1. Staying(all, 0) \in SUBSET (1 .. 0)
    BY StayingNext
  <2>. QED  BY <2>1 DEF Balanced
<1>2. ASSUME NEW k \in R PROVE k + 1 \in R
  <2>1. CASE all[k + 1] = UP
    BY <2>1, StayingUp
  <2>2. CASE all[k + 1] # UP
    BY <2>2, StayingName
  <2>. QED  BY <2>1, <2>2
<1>3. R = Nat
  <2>1. R \in SUBSET Nat
    OBVIOUS
  <2> HIDE DEF R
  <2>. QED  BY <1>1, <1>2, <2>1, AllNaturals
<1>. QED  BY <1>3

\* One component more changes what stays as canonicalize_path changes its list.
LEMMA PickedComponent ==
    ASSUME NEW T, NEW all \in Seq(T), NEW n \in Nat, n + 1 <= Len(all)
    PROVE  Picked(all, Staying(all, n + 1), n + 1) = Component(Picked(all, Staying(all, n), n), all[n + 1])
<1> DEFINE S == Staying(all, n)
           N == Staying(all, n + 1)
<1>1. Balanced(all, n) /\ S \in SUBSET (1 .. n) /\ Len(all) \in Nat /\ n <= Len(all)
  BY AlwaysBalanced, StayingNext, LenProperties
<1>2. n + 1 \in N <=> all[n + 1] \notin {UP, DOT}
  BY StayingNext
<1>3. n + 1 \notin N => Picked(all, N, n + 1) = Picked(all, N, n)
  BY PickedStep
<1>4. CASE all[n + 1] = UP
  <2>1. Picked(all, N, n + 1) = Picked(all, N, n)
    BY <1>2, <1>3, <1>4
  <2>2. Component(Picked(all, S, n), all[n + 1]) = Front(Picked(all, S, n))
    BY <1>4 DEF Component, linked_list_pop
  <2>3. CASE S = {}
    <3>1. N = {}
      BY <1>1, <1>4, <2>3, StayingUp
    <3>2. Picked(all, {}, n) = Picked(all, {}, 0)
      BY <1>1, PickedBeyond
    <3>3. Picked(all, {}, 0) = <<>>
      BY PickedStep
    <3>4. Front(<<>>) = <<>>
      <4>1. <<>> \in Seq(T) /\ Len(<<>>) = 0
        BY EmptySeq
      <4>2. SubSeq(<<>>, 1, 0 - 1) = <<>>
        BY <4>1, SubSeqProperties
      <4>. QED  BY <4>1, <4>2 DEF Front
    <3>. QED  BY <2>1, <2>2, <2>3, <3>1, <3>2, <3>3, <3>4
  <2>4. CASE S # {}
    <3>1. PICK last \in S : \A k \in S : k <= last
      <4>1. S \in SUBSET (1 .. n) /\ S # {}
        BY <1>1, <2>4
      <4> HIDE DEF S
      <4>. QED  BY <4>1, GreatestPlace
    <3>2. N = S \ {last}
      BY <1>1, <1>4, <3>1, StayingUp
    <3>3. Front(Picked(all, S, n)) = Picked(all, S \ {last}, n)
      <4> HIDE DEF S
      <4>. QED  BY <1>1, <3>1, PickedPop
    <3>. QED  BY <2>1, <2>2, <3>2, <3>3
  <2>. QED  BY <2>3, <2>4
<1>5. CASE all[n + 1] # UP /\ all[n + 1] = DOT
  <2>1. N = S
    BY <1>1, <1>5, StayingName
  <2>. QED  BY <1>2, <1>3, <1>5, <2>1 DEF Component
<1>6. CASE all[n + 1] # UP /\ all[n + 1] # DOT
  <2>1. N = S \union {n + 1}
    BY <1>1, <1>6, StayingName
  <2>2. Picked(all, N, n) = Picked(all, S, n)
    <3>1. \A i \in 1 .. n : i \in N <=> i \in S
      BY <2>1
    <3>. QED  BY <3>1, PickedSame
  <2>3. Picked(all, N, n + 1) = Picked(all, N, n) \o <<all[n + 1]>>
    <3>1. n + 1 \in N
      BY <2>1
    <3>. QED  BY <3>1, PickedStep
  <2>4. Picked(all, S, n) \in Seq(T) /\ all[n + 1] \in T
    <3>1. \A X : Picked(all, X, n) \in Seq(T)
      BY PickedStep
    <3>2. n + 1 \in 1 .. Len(all)
      BY <1>1
    <3>. QED  BY <3>1, <3>2, ElementOfSeq
  <2>5. Append(Picked(all, S, n), all[n + 1]) = Picked(all, S, n) \o <<all[n + 1]>>
    <3> HIDE DEF S
    <3>. QED  BY <2>4, AppendIsConcat
  <2>. QED  BY <1>6, <2>2, <2>3, <2>5 DEF Component, linked_list_insert
<1>. QED  BY <1>4, <1>5, <1>6

\* A path without ups and dots.
Clean(path) == \A i \in 1 .. Len(path) : path[i] \notin {UP, DOT}

\* Of a clean beginning everything stays.
LEMMA PickedClean ==
    ASSUME NEW T, NEW all \in Seq(T), NEW c \in 0 .. Len(all), \A i \in 1 .. c : all[i] \notin {UP, DOT}
    PROVE  Picked(all, Staying(all, c), c) = Prefix(all, c)
<1> DEFINE R == {k \in Nat : k <= c => Picked(all, Staying(all, k), k) = Prefix(all, k)}
<1>0. IsSeq(all) /\ Len(all) \in Nat /\ c \in Nat /\ c <= Len(all)
  BY LenProperties DEF IsSeq
<1>1. 0 \in R
  <2>1. Picked(all, Staying(all, 0), 0) = <<>>
    <3>1. CASE Len(all) = 0
      <4>1. [i \in 1 .. 0 |-> IF i \in Staying(all, 0) THEN <<all[i]>> ELSE <<>>] = <<>>
        <5> DEFINE s == [i \in 1 .. 0 |-> IF i \in Staying(all, 0) THEN <<all[i]>> ELSE <<>>]
        <5>1. s = [i \in 1 .. 0 |-> s[i]]
          OBVIOUS
        <5>2. IsSeq(s) /\ Len(s) = 0
          BY <5>1, MapAny
        <5> HIDE DEF s
        <5>3. s = <<>>
          BY <5>2, EmptyIs, SameSeq
        <5>. QED  BY <5>3 DEF s
      <4>. QED  BY <4>1 DEF Picked, FlattenSeq
    <3>2. CASE Len(all) # 0
      <4>1. 0 \in Nat /\ 0 + 1 <= Len(all)
        BY <1>0, <3>2
      <4>. QED  BY <4>1, PickedStep
    <3>. QED  BY <3>1, <3>2
  <2>2. Prefix(all, 0) = <<>>
    BY <1>0, WholePrefix
  <2>. QED  BY <2>1, <2>2
<1>2. ASSUME NEW k \in R PROVE k + 1 \in R
  <2> SUFFICES ASSUME k + 1 <= c PROVE Picked(all, Staying(all, k + 1), k + 1) = Prefix(all, k + 1)
    OBVIOUS
  <2>1. k \in Nat /\ k + 1 <= Len(all) /\ Picked(all, Staying(all, k), k) = Prefix(all, k) /\ k + 1 \in 1 .. c
    BY <1>0
  <2>2. Picked(all, Staying(all, k + 1), k + 1) = Append(Prefix(all, k), all[k + 1])
    BY <2>1, PickedComponent DEF Component, linked_list_insert
  <2>3. k \in 0 .. Len(all) /\ k + 1 \in 0 .. Len(all)
    BY <1>0, <2>1
  <2>4. /\ IsSeq(Prefix(all, k)) /\ Len(Prefix(all, k)) = k /\ (\A i \in 1 .. k : Prefix(all, k)[i] = all[i])
        /\ IsSeq(Prefix(all, k + 1)) /\ Len(Prefix(all, k + 1)) = k + 1
        /\ (\A i \in 1 .. k + 1 : Prefix(all, k + 1)[i] = all[i])
    BY <1>0, <2>3, PrefixIs
  <2> DEFINE a == Append(Prefix(all, k), all[k + 1])
  <2>5. IsSeq(a) /\ Len(a) = k + 1 /\ (\A i \in 1 .. k : a[i] = Prefix(all, k)[i]) /\ a[k + 1] = all[k + 1]
    <3> DEFINE p == Prefix(all, k)
    <3>1. IsSeq(p) /\ Len(p) = k
      BY <2>4
    <3> HIDE DEF p
    <3>2. LET b == Append(p, all[k + 1])
          IN  IsSeq(b) /\ Len(b) = k + 1 /\ (\A i \in 1 .. k : b[i] = p[i]) /\ b[k + 1] = all[k + 1]
      BY <3>1, AppendAny
    <3>. QED  BY <3>2 DEF p
  <2> HIDE DEF a
  <2>6. \A i \in 1 .. k + 1 : a[i] = Prefix(all, k + 1)[i]
    BY <2>1, <2>4, <2>5
  <2>7. a = Prefix(all, k + 1)
    BY <2>4, <2>5, <2>6, SameSeq
  <2>. QED  BY <2>2, <2>7 DEF a
<1>3. R = Nat
  <2>1. R \in SUBSET Nat
    OBVIOUS
  <2> HIDE DEF R
  <2>. QED  BY <1>1, <1>2, <2>1, AllNaturals
<1>4. c \in R
  <2> HIDE DEF R
  <2>. QED  BY <1>0, <1>3
<1>. QED  BY <1>4

\* canonicalize_path gives what the path means.
LEMMA PathMeaning ==
    ASSUME NEW T, NEW from \in Seq(T), Clean(from), NEW input, input.path \in Seq(T), input.absolute \in BOOLEAN
    PROVE  /\ canonicalize_path(from, input) = Meaning(from, input)
           /\ canonicalize_path(from, input) \in Seq(T)
<1> DEFINE all == IF input.absolute THEN input.path ELSE from \o input.path
           c == IF input.absolute THEN 0 ELSE Len(from)
           L == Len(input.path)
<1>1. /\ all \in Seq(T) /\ Len(all) = c + L /\ c \in Nat /\ L \in Nat /\ c \in 0 .. Len(all)
      /\ \A i \in 1 .. L : all[c + i] = input.path[i]
      /\ \A i \in 1 .. c : all[i] = from[i]
  <2>1. CASE input.absolute
    BY <2>1, LenProperties
  <2>2. CASE ~input.absolute
    <3>1. from \o input.path \in Seq(T) /\ Len(from \o input.path) = Len(from) + Len(input.path)
      BY ConcatProperties
    <3>2. \A i \in 1 .. Len(from) + Len(input.path) :
            (from \o input.path)[i] = IF i <= Len(from) THEN from[i] ELSE input.path[i - Len(from)]
      BY ConcatProperties
    <3>3. Len(from) \in Nat /\ L \in Nat
      BY LenProperties
    <3>. QED  BY <2>2, <3>1, <3>2, <3>3
  <2>. QED  BY <2>1, <2>2
<1>2. (IF input.absolute THEN <<>> ELSE from) = Prefix(all, c)
  <2>1. CASE input.absolute
    BY <1>1, <2>1, WholePrefix DEF IsSeq
  <2>2. CASE ~input.absolute
    <3>1. IsSeq(all) /\ IsSeq(from)
      BY <1>1 DEF IsSeq
    <3>2. /\ IsSeq(Prefix(all, c)) /\ Len(Prefix(all, c)) = c /\ \A i \in 1 .. c : Prefix(all, c)[i] = all[i]
      BY <1>1, <3>1, PrefixIs
    <3>3. c = Len(from)
      BY <2>2
    <3> HIDE DEF all, c
    <3>4. Prefix(all, c) = from
      BY <1>1, <3>1, <3>2, <3>3, SameSeq
    <3>. QED  BY <2>2, <3>4
  <2>. QED  BY <2>1, <2>2
<1>3. PICK out :
        /\ canonicalize_path(from, input) = out[L]
        /\ out[0] = IF input.absolute THEN <<>> ELSE from
        /\ \A i \in 1 .. L : out[i] = Component(out[i - 1], input.path[i])
  <2>1. IsSeq(input.path)
    BY DEF IsSeq
  <2>. QED  BY <2>1, CanonicalSteps
<1>4. \A i \in 1 .. c : all[i] \notin {UP, DOT}
  <2>1. \A i \in 1 .. c : i \in 1 .. Len(from)
    BY LenProperties
  <2>. QED  BY <1>1, <2>1 DEF Clean
<1>5. Meaning(from, input) = Picked(all, Staying(all, Len(all)), Len(all))
  <2>1. DOMAIN all = 1 .. Len(all)
    BY <1>1, LenProperties
  <2>. QED  BY <2>1 DEF Meaning, Picked, Staying, Ups, Words
<1> HIDE DEF all, c, L
<1>6. Picked(all, Staying(all, c), c) = Prefix(all, c)
  BY <1>1, <1>4, PickedClean
<1> DEFINE R == {k \in Nat : k <= L => out[k] = Picked(all, Staying(all, c + k), c + k)}
<1>7. 0 \in R
  BY <1>1, <1>2, <1>3, <1>6
<1>8. ASSUME NEW k \in R PROVE k + 1 \in R
  <2> SUFFICES ASSUME k + 1 <= L PROVE out[k + 1] = Picked(all, Staying(all, c + (k + 1)), c + (k + 1))
    OBVIOUS
  <2>1. /\ k + 1 \in 1 .. L /\ (k + 1) - 1 = k /\ c + k \in Nat /\ (c + k) + 1 <= Len(all)
        /\ c + (k + 1) = (c + k) + 1 /\ out[k] = Picked(all, Staying(all, c + k), c + k)
    BY <1>1
  <2>2. out[k + 1] = Component(out[k], all[(c + k) + 1])
    BY <1>1, <1>3, <2>1
  <2>3. Picked(all, Staying(all, (c + k) + 1), (c + k) + 1)
          = Component(Picked(all, Staying(all, c + k), c + k), all[(c + k) + 1])
    BY <1>1, <2>1, PickedComponent
  <2>. QED  BY <2>1, <2>2, <2>3
<1>9. R = Nat
  <2>1. R \in SUBSET Nat
    OBVIOUS
  <2> HIDE DEF R
  <2>. QED  BY <1>7, <1>8, <2>1, AllNaturals
<1>10. L \in R
  <2> HIDE DEF R
  <2>. QED  BY <1>1, <1>9
<1>11. out[L] = Picked(all, Staying(all, Len(all)), Len(all))
  BY <1>1, <1>10
<1>12. Picked(all, Staying(all, Len(all)), Len(all)) \in Seq(T)
  <2>1. CASE Len(all) = 0
    <3>1. c = 0 /\ Len(all) = 0
      BY <1>1, <2>1
    <3>2. Prefix(all, 0) = <<>>
      BY <1>1, WholePrefix DEF IsSeq
    <3>. QED  BY <1>6, <3>1, <3>2, EmptySeq
  <2>2. CASE Len(all) # 0
    <3>1. Len(all) - 1 \in Nat /\ (Len(all) - 1) + 1 = Len(all)
      BY <1>1, <2>2
    <3>2. Picked(all, Staying(all, Len(all)), (Len(all) - 1) + 1) \in Seq(T)
      <4> DEFINE m == Len(all) - 1
                 Z == Staying(all, Len(all))
      <4>1. m \in Nat /\ m + 1 <= Len(all)
        BY <1>1, <3>1
      <4> HIDE DEF m, Z
      <4>2. Picked(all, Z, m + 1) \in Seq(T)
        BY <1>1, <4>1, PickedStep
      <4>. QED  BY <4>2 DEF m, Z
    <3>. QED  BY <3>1, <3>2
  <2>. QED  BY <2>1, <2>2
<1>. QED  BY <1>3, <1>5, <1>11, <1>12


-----------------------------------------------------------------------------
(* What a descriptor holds is what the search of its path finds.           *)

LEMMA ComponentClean ==
    ASSUME NEW out, IsSeq(out), Clean(out), NEW c
    PROVE  Clean(Component(out, c))
<1>1. CASE c = UP
  <2>1. PICK T : out \in Seq(T)
    BY DEF IsSeq
  <2> DEFINE front == SubSeq(out, 1, Len(out) - 1)
  <2>2. \A i \in 1 .. Len(front) : i \in 1 .. Len(out) /\ front[i] = out[i]
    <3>1. Len(out) \in Nat /\ \A i \in 1 .. Len(out) - 1 : out[i] \in T
      BY <2>1, ElementOfSeq, LenProperties
    <3>2. CASE Len(out) = 0
      <4>1. Len(front) = 0
        BY <3>1, <3>2, SubSeqProperties
      <4>. QED  BY <4>1
    <3>3. CASE Len(out) # 0
      <4>1. Len(out) - 1 \in 0 .. Len(out) /\ front = Prefix(out, Len(out) - 1)
        BY <3>1, <3>3 DEF Prefix
      <4> HIDE DEF front
      <4>2. Len(front) = Len(out) - 1 /\ \A i \in 1 .. Len(out) - 1 : front[i] = out[i]
        BY <4>1, PrefixIs
      <4>. QED  BY <3>1, <4>2
    <3>. QED  BY <3>2, <3>3
  <2>3. Component(out, c) = front
    BY <1>1 DEF Component, linked_list_pop, Front
  <2>. QED  BY <2>2, <2>3 DEF Clean
<1>2. CASE c # UP /\ c = DOT
  BY <1>2 DEF Component
<1>3. CASE c # UP /\ c # DOT
  <2> DEFINE next == Append(out, c)
  <2>1. /\ Len(next) = Len(out) + 1 /\ (\A i \in 1 .. Len(out) : next[i] = out[i])
        /\ next[Len(out) + 1] = c /\ Len(out) \in Nat
    BY AppendAny, SeqBasics
  <2>2. Component(out, c) = next
    BY <1>3 DEF Component, linked_list_insert
  <2> HIDE DEF next
  <2>3. \A i \in 1 .. Len(next) : i \in 1 .. Len(out) \/ i = Len(out) + 1
    BY <2>1
  <2>. QED  BY <1>3, <2>1, <2>2, <2>3 DEF Clean
<1>. QED  BY <1>1, <1>2, <1>3

LEMMA CanonicalClean ==
    ASSUME NEW from, IsSeq(from), Clean(from), NEW input, IsSeq(input.path)
    PROVE  Clean(canonicalize_path(from, input))
<1>1. PICK out :
        /\ canonicalize_path(from, input) = out[Len(input.path)]
        /\ out[0] = IF input.absolute THEN <<>> ELSE from
        /\ \A i \in 1 .. Len(input.path) : out[i] = Component(out[i - 1], input.path[i])
  BY CanonicalSteps
<1> DEFINE N == Len(input.path)
           S == {n \in Nat : n <= N => IsSeq(out[n]) /\ Clean(out[n])}
<1>2. N \in Nat
  BY SeqBasics
<1>3. 0 \in S
  <2>1. IsSeq(<<>>) /\ Clean(<<>>)
    BY EmptyIs DEF Clean
  <2>. QED  BY <1>1, <2>1
<1>4. ASSUME NEW n \in S PROVE n + 1 \in S
  <2> SUFFICES ASSUME n + 1 <= N PROVE IsSeq(out[n + 1]) /\ Clean(out[n + 1])
    OBVIOUS
  <2>1. n + 1 \in 1 .. N /\ (n + 1) - 1 = n /\ IsSeq(out[n]) /\ Clean(out[n])
    BY <1>2
  <2>2. out[n + 1] = Component(out[n], input.path[n + 1])
    BY <1>1, <2>1
  <2>. QED  BY <2>1, <2>2, ComponentIsSeq, ComponentClean
<1>5. N \in S
  <2> HIDE DEF S
  <2>1. S \in SUBSET Nat
    BY DEF S
  <2>. QED  BY <1>2, <1>3, <1>4, <2>1, AllNaturals
<1>. QED  BY <1>1, <1>2, <1>5

-----------------------------------------------------------------------------
(* What is mounted.                                                        *)

\* Where the places above are there, a mount adds or changes one entry.
LEMMA MountShape ==
    ASSUME NEW t, IsTree(t), NEW path, IsSeq(path), NEW file,
           \A k \in 0 .. Len(path) - 1 : Known(t, Prefix(path, k))
    PROVE  /\ \A i \in DOMAIN vfs_mount(t, path, file) :
                \/ \E j \in DOMAIN t : vfs_mount(t, path, file)[i] = t[j]
                \/ vfs_mount(t, path, file)[i] = Entry(path, file)
           /\ \A p : Known(t, p) => Known(vfs_mount(t, path, file), p)
           /\ path # <<>> => Known(vfs_mount(t, path, file), path)
<1> DEFINE N == Len(path)
           grown == WithEntries(t, path)
           mounted == vfs_mount(t, path, file)
<1>1. N \in Nat
  BY SeqBasics
<1>2. PICK g : /\ grown = g[N] /\ g[0] = t
               /\ \A i \in 1 .. N : g[i] = WithEntry(g[i - 1], Prefix(path, i))
  BY GrownSteps, SMTT(60)
<1>3. \A n \in 0 .. N : n < N => g[n] = t
  <2> DEFINE S == {n \in Nat : n < N => g[n] = t}
  <2>1. 0 \in S
    BY <1>2
  <2>2. ASSUME NEW n \in S PROVE n + 1 \in S
    <3> SUFFICES ASSUME n + 1 < N PROVE g[n + 1] = t
      OBVIOUS
    <3>1. n + 1 \in 1 .. N /\ (n + 1) - 1 = n /\ n + 1 \in 0 .. N - 1 /\ g[n] = t
      BY <1>1
    <3>2. g[n + 1] = WithEntry(t, Prefix(path, n + 1))
      BY <1>2, <3>1
    <3>. QED  BY <3>1, <3>2 DEF WithEntry
  <2>3. S \in SUBSET Nat
    OBVIOUS
  <2>4. S = Nat
    <3> HIDE DEF S
    <3>. QED  BY <2>1, <2>2, <2>3, AllNaturals
  <2>. QED  BY <2>4
<1>4. grown = t \/ (grown = Append(t, Entry(path, NULL)) /\ path # <<>>)
  <2>1. CASE N = 0
    BY <1>2, <2>1
  <2>2. CASE N # 0
    <3>1. N \in 1 .. N /\ N - 1 \in 0 .. N /\ N - 1 < N
      BY <1>1, <2>2
    <3>2. grown = WithEntry(t, Prefix(path, N))
      BY <1>2, <1>3, <3>1
    <3>3. path # <<>>
      BY <2>2, EmptyIs
    <3>. QED  BY <3>2, <3>3, WholePrefix DEF WithEntry, binary_tree_node_insert_child, linked_list_insert
  <2>. QED  BY <2>1, <2>2
<1>5. /\ IsTree(grown) /\ DOMAIN grown = 1 .. Len(grown)
      /\ Len(t) \in Nat /\ DOMAIN t = 1 .. Len(t)
  BY WithEntriesIsTree, SeqBasics DEF IsTree
<1>6. /\ \A i \in DOMAIN grown : grown[i].path = path \/ \E j \in DOMAIN t : grown[i] = t[j]
      /\ \A p : Known(t, p) => Known(grown, p)
  <2>1. CASE grown = t
    BY <2>1
  <2>2. CASE grown = Append(t, Entry(path, NULL))
    <3>1. /\ Len(grown) = Len(t) + 1 /\ grown[Len(t) + 1] = Entry(path, NULL)
          /\ \A i \in 1 .. Len(t) : grown[i] = t[i]
      BY <2>2, AppendAny DEF IsTree
    <3>2. \A i \in DOMAIN grown : i \in DOMAIN t \/ i = Len(t) + 1
      BY <1>5, <3>1
    <3>3. \A i \in DOMAIN t : i \in DOMAIN grown
      BY <1>5, <3>1
    <3>4. Entry(path, NULL).path = path
      BY DEF Entry
    <3> HIDE DEF grown
    <3>5. \A p : Known(t, p) => Known(grown, p)
      BY <1>5, <3>1, <3>3 DEF Known
    <3>. QED  BY <1>5, <3>1, <3>2, <3>4, <3>5
  <2>. QED  BY <1>4, <2>1, <2>2
<1>7. path # <<>> => Known(grown, path)
  <2> SUFFICES ASSUME path # <<>> PROVE Known(grown, path)
    OBVIOUS
  <2>1. N # 0
    BY SameSeq, EmptyIs
  <2>2. grown = WithEntry(t, path)
    <3>1. N \in 1 .. N /\ N - 1 \in 0 .. N /\ N - 1 < N
      BY <1>1, <2>1
    <3>. QED  BY <1>2, <1>3, <3>1, WholePrefix
  <2>. QED  BY <2>2, WithEntryIsTree
<1>8. CASE path = <<>> /\ fs_root(t) # NULL
  BY <1>8 DEF vfs_mount
<1>9. CASE ~(path = <<>> /\ fs_root(t) # NULL)
  <2>1. mounted = [i \in DOMAIN grown |-> IF grown[i].path = path THEN Entry(path, file) ELSE grown[i]]
    BY <1>9 DEF vfs_mount
  <2> HIDE DEF mounted, grown
  <2>2. /\ DOMAIN mounted = DOMAIN grown
        /\ \A i \in DOMAIN grown :
             mounted[i] = IF grown[i].path = path THEN Entry(path, file) ELSE grown[i]
    BY <2>1
  <2>3. \A i \in DOMAIN grown : mounted[i].path = grown[i].path
    BY <2>2 DEF Entry
  <2>4. \A p : Known(grown, p) => Known(mounted, p)
    BY <2>2, <2>3 DEF Known
  <2>. QED  BY <1>6, <1>7, <2>2, <2>4 DEF mounted
<1>. QED  BY <1>8, <1>9

\* The root is the volume's or has no file, and below it only the mapper's
\* directory, the initrd and the disks that are there are mounted.
MountOk(disks, e) ==
    \/ e.path = <<>> /\ (e.file = NULL \/ \E v : e.file = fat32_create_fs_node(v))
    \/ e.path = <<"dev">> /\ e.file = vfs_mapper(<<"dev">>)
    \/ e.path = <<"dev", "initrd">> /\ e.file = initrd_root
    \/ \E u \in 1 .. 4 : disks[u] # <<>> /\ e.file = ata_device_create(u, disks[u])
MountsOk(disks, t) == Known(t, <<"dev">>) /\ \A i \in DOMAIN t : MountOk(disks, t[i])
MountsInv ==
    /\ pc # "vfs" => MountsOk(Here.disks, tree)
    /\ controller = IF pc \in {"vfs", "acpi", "pci"} THEN <<>> ELSE ata_controller(Hardware.pci)

\* A path of one or two components, and what is above it.
LEMMA DevIs ==
    /\ IsSeq(<<"dev">>) /\ Len(<<"dev">>) = 1
    /\ \A k \in 0 .. 0 : Prefix(<<"dev">>, k) = <<>>
    /\ \A e : /\ IsSeq(<<"dev", e>>) /\ Len(<<"dev", e>>) = 2
              /\ \A k \in 0 .. 1 : Prefix(<<"dev", e>>, k) \in {<<>>, <<"dev">>}
<1>1. IsSeq(<<"dev">>) /\ Len(<<"dev">>) = 1 /\ <<"dev">>[1] = "dev"
  <2>1. <<"dev">> \in Seq({"dev"}) /\ Len(<<"dev">>) = 1 /\ <<"dev">>[1] = "dev"
    OBVIOUS
  <2>. QED  BY <2>1 DEF IsSeq
<1>2. ASSUME NEW e
      PROVE  /\ IsSeq(<<"dev", e>>) /\ Len(<<"dev", e>>) = 2
             /\ \A k \in 0 .. 1 : Prefix(<<"dev", e>>, k) \in {<<>>, <<"dev">>}
  <2> DEFINE path == <<"dev", e>>
  <2>1. path \in Seq({"dev", e}) /\ Len(path) = 2 /\ path[1] = "dev"
    OBVIOUS
  <2>2. IsSeq(path)
    BY <2>1 DEF IsSeq
  <2> HIDE DEF path
  <2>3. Prefix(path, 0) = <<>>
    BY <2>2, WholePrefix
  <2>4. Prefix(path, 1) = <<"dev">>
    <3>1. 1 \in 0 .. Len(path)
      BY <2>1
    <3>2. IsSeq(Prefix(path, 1)) /\ Len(Prefix(path, 1)) = 1 /\ Prefix(path, 1)[1] = path[1]
      <4>1. /\ IsSeq(Prefix(path, 1)) /\ Len(Prefix(path, 1)) = 1
            /\ \A i \in 1 .. 1 : Prefix(path, 1)[i] = path[i]
        BY <2>2, <3>1, PrefixIs
      <4>. QED  BY <4>1
    <3> DEFINE s == Prefix(path, 1)
               t == <<"dev">>
    <3>3. \A i \in 1 .. Len(s) : s[i] = t[i]
      BY <1>1, <2>1, <3>2
    <3>4. IsSeq(s) /\ IsSeq(t) /\ Len(s) = Len(t)
      BY <1>1, <3>2
    <3> HIDE DEF s, t
    <3>5. s = t
      BY <3>3, <3>4, SameSeq
    <3>. QED  BY <3>5 DEF s, t
  <2>5. \A k \in 0 .. 1 : k = 0 \/ k = 1
    OBVIOUS
  <2>. QED  BY <2>1, <2>2, <2>3, <2>4, <2>5 DEF path
<1>3. \A k \in 0 .. 0 : Prefix(<<"dev">>, k) = <<>>
  BY <1>1, WholePrefix
<1>. QED  BY <1>1, <1>2, <1>3

LEMMA MountsMore ==
    ASSUME NEW t, IsTree(t), NEW disks, MountsOk(disks, t), NEW path, IsSeq(path), NEW file,
           MountOk(disks, Entry(path, file)),
           \A k \in 0 .. Len(path) - 1 : Prefix(path, k) \in {<<>>, <<"dev">>}
    PROVE  MountsOk(disks, vfs_mount(t, path, file))
<1>1. \A k \in 0 .. Len(path) - 1 : Known(t, Prefix(path, k))
  BY DEF MountsOk, IsTree
<1>. QED  BY <1>1, MountShape DEF MountsOk

LEMMA MountInitrdMounts ==
    ASSUME MountInitrd, NEW disks
    PROVE  MountsOk(disks, tree')
<1> DEFINE dev == <<"dev">>
           first == vfs_mount(init_vfs, dev, vfs_mapper(dev))
           initrd == <<"dev", "initrd">>
<1>1. /\ IsSeq(dev) /\ IsSeq(initrd) /\ Len(dev) = 1 /\ Len(initrd) = 2
      /\ \A k \in 0 .. 0 : Prefix(dev, k) = <<>>
      /\ \A k \in 0 .. 1 : Prefix(initrd, k) \in {<<>>, <<"dev">>}
  BY DevIs
<1>2. tree' = vfs_mount(first, initrd, initrd_root)
  BY DEF MountInitrd
<1>3. \A path, file : Entry(path, file).path = path /\ Entry(path, file).file = file
  BY DEF Entry
<1>4. \A i \in DOMAIN init_vfs : MountOk(disks, init_vfs[i])
  <2> DEFINE e == Entry(<<>>, NULL)
  <2>1. init_vfs = <<e>>
    BY DEF init_vfs, binary_tree_set_root, binary_tree_create
  <2>2. MountOk(disks, e)
    BY <1>3 DEF MountOk
  <2> HIDE DEF e
  <2>. QED  BY <2>1, <2>2
<1>5. ~IsShared(vfs_mapper(dev))
  BY NullIsNot DEF IsShared, vfs_mapper
<1>6. MountOk(disks, Entry(dev, vfs_mapper(dev))) /\ MountOk(disks, Entry(initrd, initrd_root))
  BY <1>3 DEF MountOk
<1> HIDE DEF dev, initrd
<1>7. IsTree(first)
  BY <1>1, <1>5, FirstTree, MountIsTree
<1>8. MountsOk(disks, first)
  <2>1. \A k \in 0 .. Len(dev) - 1 : Known(init_vfs, Prefix(dev, k))
    BY <1>1, FirstTree DEF IsTree
  <2>2. dev # <<>>
    BY <1>1, EmptyIs
  <2> DEFINE t == init_vfs
             file == vfs_mapper(dev)
  <2>3. IsTree(t) /\ \A k \in 0 .. Len(dev) - 1 : Known(t, Prefix(dev, k))
    BY <2>1, FirstTree
  <2> HIDE DEF t, file
  <2>4. /\ \A i \in DOMAIN vfs_mount(t, dev, file) :
             \/ \E j \in DOMAIN t : vfs_mount(t, dev, file)[i] = t[j]
             \/ vfs_mount(t, dev, file)[i] = Entry(dev, file)
        /\ Known(vfs_mount(t, dev, file), dev)
    <3>1. IsSeq(dev)
      BY <1>1
    <3>. QED  BY <2>2, <2>3, <3>1, MountShape
  <2>5. first = vfs_mount(t, dev, file)
    BY DEF t, file
  <2> HIDE DEF first
  <2>. QED  BY <1>4, <1>6, <2>4, <2>5 DEF MountsOk, dev, t, file
<1>9. \A k \in 0 .. Len(initrd) - 1 : Prefix(initrd, k) \in {<<>>, <<"dev">>}
  BY <1>1
<1> HIDE DEF first
<1>. QED  BY <1>1, <1>2, <1>6, <1>7, <1>8, <1>9, MountsMore

LEMMA WithDiskMounts ==
    ASSUME NEW t, IsTree(t), NEW disks, MountsOk(disks, t), NEW unit \in 1 .. 4
    PROVE  MountsOk(disks, WithDisk(t, disks, unit))
<1>1. CASE disks[unit] = <<>>
  BY <1>1 DEF WithDisk
<1>2. CASE disks[unit] # <<>>
  <2> DEFINE path == DiskPath(unit)
             file == ata_device_create(unit, disks[unit])
  <2>1. IsSeq(path) /\ \A k \in 0 .. Len(path) - 1 : Prefix(path, k) \in {<<>>, <<"dev">>}
    <3> DEFINE e == <<"hda", "hdb", "hdc", "hdd">>[unit]
    <3>1. path = <<"dev", e>>
      BY DEF DiskPath
    <3> HIDE DEF e, path
    <3>. QED  BY <3>1, DevIs
  <2>2. Entry(path, file).file = file
    BY DEF Entry
  <2>3. MountOk(disks, Entry(path, file))
    BY <1>2, <2>2 DEF MountOk
  <2>4. WithDisk(t, disks, unit) = vfs_mount(t, path, file)
    BY <1>2 DEF WithDisk
  <2> HIDE DEF path, file
  <2>. QED  BY <2>1, <2>3, <2>4, MountsMore
<1>. QED  BY <1>1, <1>2

LEMMA ScanPciMounts ==
    ASSUME FilesInv, MountsInv, ScanPci
    PROVE  MountsOk(Here.disks, tree)'
<1> DEFINE disks == DisksAt(Hardware, ata_controller(Hardware.pci))
           t1 == WithDisk(tree, disks, 1)
           t2 == WithDisk(t1, disks, 2)
           t3 == WithDisk(t2, disks, 3)
           t4 == WithDisk(t3, disks, 4)
<1>1. Here'.disks = disks
  <2>1. Hardware' = Hardware /\ controller' = ata_controller(Hardware.pci)
    BY DEF ScanPci, Hardware
  <2>. QED  BY <2>1 DEF Here, Seen
<1>2. tree' = t4
  BY DEF ScanPci, WithDisks
<1>3. IsTree(tree) /\ MountsOk(Here.disks, tree) /\ controller = <<>>
  BY DEF FilesInv, BootInv, MountsInv, ScanPci, At
<1>4. \A u \in 1 .. 4 : Here.disks[u] = <<>>
  BY <1>3 DEF Here, Seen, DisksAt
<1>5. MountsOk(disks, tree)
  BY <1>3, <1>4 DEF MountsOk, MountOk
<1> HIDE DEF disks
<1>6. IsTree(t1) /\ MountsOk(disks, t1)
  BY <1>3, <1>5, WithDiskIsTree, WithDiskMounts
<1> HIDE DEF t1
<1>7. IsTree(t2) /\ MountsOk(disks, t2)
  BY <1>6, WithDiskIsTree, WithDiskMounts
<1> HIDE DEF t2
<1>8. IsTree(t3) /\ MountsOk(disks, t3)
  BY <1>7, WithDiskIsTree, WithDiskMounts
<1> HIDE DEF t3
<1>9. MountsOk(disks, t4)
  BY <1>8, WithDiskMounts
<1>. QED  BY <1>1, <1>2, <1>9

LEMMA MountDiskMounts ==
    ASSUME FilesInv, MountsInv, MountDisk
    PROVE  MountsOk(Here.disks, tree)'
<1> DEFINE disks == Here.disks
<1>1. Here'.disks = disks
  BY DEF MountDisk, Here, Hardware
<1>2. IsTree(tree) /\ MountsOk(disks, tree)
  BY DEF FilesInv, BootInv, MountsInv, MountDisk, At
<1> HIDE DEF disks
<1>3. \A v : MountsOk(disks, vfs_mount(tree, <<>>, fat32_create_fs_node(v)))
  <2> TAKE v
  <2> DEFINE root == <<>>
             file == fat32_create_fs_node(v)
  <2>1. MountOk(disks, Entry(root, file))
    BY DEF MountOk, Entry
  <2>2. IsSeq(root) /\ \A k \in 0 .. Len(root) - 1 : Prefix(root, k) \in {<<>>, <<"dev">>}
    BY EmptyIs
  <2> HIDE DEF root, file
  <2>3. MountsOk(disks, vfs_mount(tree, root, file))
    BY <1>2, <2>1, <2>2, MountsMore
  <2>. QED  BY <2>3 DEF root, file
<1>4. \A found : MountFound(found) => MountsOk(disks, tree')
  BY <1>2, <1>3 DEF MountFound
<1>5. MountsOk(disks, tree')
  BY <1>2, <1>4 DEF MountDisk, MountOn
<1>. QED  BY <1>1, <1>5

LEMMA MountsStep ==
    ASSUME FilesInv, MountsInv, [FilesNext]_filesVars
    PROVE  MountsInv'
<1>1. CASE UNCHANGED <<machine, controller, tree, pc>>
  BY <1>1 DEF MountsInv, Here, Hardware
<1>2. CASE InitAcpi \/ RunInit
  BY <1>2 DEF InitAcpi, RunInit, At, MountsInv, Here, Hardware
<1>3. CASE MountInitrd
  <2>1. pc = "vfs" /\ pc' = "acpi" /\ UNCHANGED <<machine, controller>>
    BY <1>3 DEF MountInitrd, At
  <2>2. MountsOk(Here'.disks, tree')
    BY <1>3, MountInitrdMounts
  <2>. QED  BY <2>1, <2>2 DEF MountsInv
<1>4. CASE ScanPci
  <2>1. pc' = "disk" /\ UNCHANGED machine /\ controller' = ata_controller(Hardware.pci)
    BY <1>4 DEF ScanPci, At
  <2>2. MountsOk(Here.disks, tree)'
    BY <1>4, ScanPciMounts
  <2>. QED  BY <2>1, <2>2 DEF MountsInv, Hardware
<1>5. CASE MountDisk
  <2>1. pc = "disk" /\ pc' = "run" /\ UNCHANGED <<machine, controller>>
    BY <1>5 DEF MountDisk, At
  <2>2. MountsOk(Here.disks, tree)'
    BY <1>5, MountDiskMounts
  <2>. QED  BY <2>1, <2>2 DEF MountsInv, Hardware
<1>6. CASE UNCHANGED filesVars
  <2>1. UNCHANGED <<machine, controller, tree, pc>>
    BY <1>6 DEF filesVars, bootVars
  <2>. QED  BY <1>1, <2>1
<1>7. ASSUME NEW s \in Slots,
             \/ \E input \in Hardware.asks : \/ \E append \in BOOLEAN : sys_open(s, input, append)
                                             \/ \E pid \in Slots : sys_chdir(s, input, pid)
                                             \/ create_process(s, input)
             \/ \E fd \in Fds : \/ sys_close(s, fd) \/ sys_stat(s, fd) \/ sys_write_fs(s, fd)
                                \/ \E size \in Hardware.sizes : sys_read_fs(s, fd, size)
                                \/ \E index \in 1 .. MaxFds : sys_readdir(s, fd, index)
             \/ \E pid \in Slots : kill(s, pid)
             \/ sys_shutdown(s) \/ sys_reboot(s)
      PROVE  MountsInv'
  <2>1. UNCHANGED <<machine, controller, tree, pc>>
    BY <1>7 DEF sys_open, sys_chdir, create_process, sys_close, sys_stat, sys_write_fs, Looks,
                sys_read_fs, sys_readdir, kill, sys_shutdown, sys_reboot, bootVars
  <2>. QED  BY <1>1, <2>1
<1>. QED  BY <1>2, <1>3, <1>4, <1>5, <1>6, <1>7 DEF FilesNext

\* Nothing is ever mounted but the mapper's directory, the initrd, each disk
\* that the controller has, and a FAT32 volume as the root (init_vfs, vfs_mount,
\* initialise_initrd, ata_init, kernel_main).
THEOREM MountsInvariant == FilesSpec => []MountsInv
<1>1. FilesInit => MountsInv
  BY DEF FilesInit, MountsInv
<1>2. FilesInv /\ MountsInv /\ [FilesNext]_filesVars => MountsInv'
  BY MountsStep
<1>. QED  BY <1>1, <1>2, FilesInvariant, PTL DEF FilesSpec

-----------------------------------------------------------------------------
(* What calls find.                                                        *)

\* What a search finds is mounted at the path, or the last directory on the way
\* has it.
LEMMA OpenShape ==
    ASSUME FilesInv, pc # "vfs", NEW path, IsSeq(path), Open(path).is = "node"
    PROVE  \/ \E i \in DOMAIN tree : tree[i].path = path /\ Open(path).node = tree[i].file
           \/ \E left, name : /\ finddir_fs(Here, volume, left, name).is = "node"
                              /\ Open(path).node = finddir_fs(Here, volume, left, name).node
<1> DEFINE mount == get_mount_point(tree, path)
           d == mount.depth
           N == Len(path)
<1>1. IsTree(tree)
  BY DEF FilesInv, BootInv
<1>2. Climbing(tree, path, N, mount)
  BY <1>1, MountPoint
<1>3. /\ N \in Nat /\ d \in 0 .. N
      /\ mount.last = FileAt(tree, Prefix(path, d)) /\ Known(tree, Prefix(path, d))
  BY <1>2, SeqBasics DEF Climbing
<1>4. Open(path) = WalkFrom(Here, volume, mount, path)
  BY DEF Open, kopen, NONE
<1> HIDE DEF mount
<1> HIDE DEF d, N
<1>5. PICK walk :
        /\ WalkFrom(Here, volume, mount, path) = walk[N]
        /\ walk[d] = [is |-> "node", node |-> mount.last, freed |-> {}]
        /\ \A i \in d + 1 .. N : walk[i] = Walked(Here, volume, walk[i - 1], path[i])
  <2>1. mount.depth \in 0 .. Len(path)
    BY <1>3 DEF d, N
  <2>2. PICK walk : Walks(Here, volume, mount, path, walk)
    BY <2>1, WalkSteps
  <2>3. /\ WalkFrom(Here, volume, mount, path) = walk[N]
        /\ walk[d] = [is |-> "node", node |-> mount.last, freed |-> {}]
        /\ \A i \in d + 1 .. N : walk[i] = Walked(Here, volume, walk[i - 1], path[i])
    BY <2>2 DEF Walks, d, N
  <2>. QED  BY <2>3
<1>6. CASE d = N
  <2>1. Open(path).node = FileAt(tree, path) /\ Known(tree, path)
    <3>1. Open(path) = [is |-> "node", node |-> mount.last, freed |-> {}]
      BY <1>4, <1>5, <1>6
    <3>2. Prefix(path, d) = path
      BY <1>6, WholePrefix DEF N
    <3>. QED  BY <1>3, <3>1, <3>2
  <2>. QED  BY <2>1, FileAtKnown
<1>7. CASE d # N
  <2> DEFINE left == walk[N - 1]
             next == finddir_fs(Here, volume, left.node, path[N])
  <2>1. Open(path) = Walked(Here, volume, left, path[N])
    BY <1>3, <1>4, <1>5, <1>7
  <2>2. left.is = "node"
    BY <2>1 DEF Walked
  <2>3. Open(path) = Further(left, next)
    BY <2>1, <2>2 DEF Walked
  <2> HIDE DEF next, left
  <2>4. next.is = "node" /\ Open(path).node = next.node
    BY <2>3 DEF Further
  <2>. QED  BY <2>4 DEF next
<1>. QED  BY <1>6, <1>7

\* What the search of a directory finds is a file of the initrd, or on FAT32.
LEMMA FoundFile ==
    ASSUME FilesInv, NEW left, NEW name, finddir_fs(Here, volume, left, name).is = "node"
    PROVE  \/ \E k \in DOMAIN Here.initrd : finddir_fs(Here, volume, left, name).node =
                  Node("initrd", "file", k, 0, NoName, Here.initrd[k].length)
           \/ finddir_fs(Here, volume, left, name).node.fs = "fat32"
<1> DEFINE found == finddir_fs(Here, volume, left, name)
<1>1. CASE left.flags = "directory" /\ left.fs = "initrd"
  <2> DEFINE k == CHOOSE j \in DOMAIN Here.initrd :
                     /\ Here.initrd[j].name = name
                     /\ \A l \in 1 .. j - 1 : Here.initrd[l].name # name
  <2>1. found = initrd_finddir(Here, name)
    BY <1>1 DEF finddir_fs
  <2>2. found = Found(Node("initrd", "file", k, 0, NoName, Here.initrd[k].length))
    <3>1. initrd_finddir(Here, name).is = "node"
      BY <2>1
    <3>2. \E i \in DOMAIN Here.initrd : Here.initrd[i].name = name
      <4>1. Not(NONE).is = NONE
        BY DEF Not
      <4>. QED  BY <3>1, <4>1 DEF initrd_finddir, NONE
    <3>3. initrd_finddir(Here, name) = Found(Node("initrd", "file", k, 0, NoName, Here.initrd[k].length))
      BY <3>2 DEF initrd_finddir
    <3>. QED  BY <2>1, <3>3
  <2>3. found.node = Node("initrd", "file", k, 0, NoName, Here.initrd[k].length)
    BY <2>2 DEF Found
  <2>4. IsShared(found.node) /\ found.node.inode = k
    <3> HIDE DEF k, found
    <3>. QED  BY <2>3, NullIsNot DEF IsShared
  <2>5. k \in DOMAIN Here.initrd
    <3>1. IsMachine(Here)
      BY MachineIs DEF FilesInv, IsMachine
    <3>2. Sane(Here, found)
      BY <3>1, FinddirSane DEF IsMachine
    <3>. QED  BY <2>4, <3>2 DEF Sane
  <2> HIDE DEF k, found
  <2>. QED  BY <2>3, <2>5 DEF found
<1>2. CASE left.flags = "directory" /\ left.fs = "fat32"
  <2>1. found = fat32_finddir(Here, volume, left, name)
    BY <1>2 DEF finddir_fs
  <2> DEFINE raw == fat32_finddir_raw(Here.disks[1], volume, left.inode, Parts[name])
  <2>2. found = NodeOf(raw, left) /\ raw.is \in {NONE, "wild", "hang", "entry"}
    BY <2>1, RawSane DEF fat32_finddir, Not, NONE
  <2> HIDE DEF raw
  <2>3. \E flags, inode, parent, nm, length : found = Found(Node("fat32", flags, inode, parent, nm, length))
    BY <2>2 DEF NodeOf, Not, NONE
  <2> HIDE DEF found
  <2>. QED  BY <2>3, NullIsNot DEF Found, found
<1>3. CASE ~(left.flags = "directory" /\ left.fs \in {"initrd", "fat32"})
  BY <1>3 DEF finddir_fs, Not, NONE
<1>. QED  BY <1>1, <1>2, <1>3

\* What is mounted, and what the search of a directory finds.
LEMMA NodeIs ==
    ASSUME FilesInv, MountsInv, pc # "vfs", NEW path, IsSeq(path), Open(path).is = "node"
    PROVE  \/ \E v : Open(path).node = fat32_create_fs_node(v)
           \/ path = <<"dev">> /\ Open(path).node = vfs_mapper(<<"dev">>)
           \/ Open(path).node = initrd_root
           \/ \E u \in 1 .. 4 : Open(path).node = ata_device_create(u, Here.disks[u])
           \/ \E k \in DOMAIN Here.initrd :
                 Open(path).node = Node("initrd", "file", k, 0, NoName, Here.initrd[k].length)
           \/ Open(path).node.fs = "fat32"
<1>1. CASE \E i \in DOMAIN tree : tree[i].path = path /\ Open(path).node = tree[i].file
  <2>1. Open(path).node # NULL
    BY OpenSane DEF Sane
  <2>2. \A i \in DOMAIN tree : MountOk(Here.disks, tree[i])
    BY DEF MountsInv, MountsOk
  <2>. QED  BY <1>1, <2>1, <2>2 DEF MountOk
<1>2. ASSUME NEW left, NEW name, finddir_fs(Here, volume, left, name).is = "node",
             Open(path).node = finddir_fs(Here, volume, left, name).node
      PROVE  \/ \E k \in DOMAIN Here.initrd :
                   Open(path).node = Node("initrd", "file", k, 0, NoName, Here.initrd[k].length)
             \/ Open(path).node.fs = "fat32"
  BY <1>2, FoundFile
<1>. QED  BY <1>1, <1>2, OpenShape

\* A read answers with some number of units.
LEMMA ReadLen ==
    ASSUME FilesInv, MountsInv, pc # "vfs", NEW path, IsSeq(path), Open(path).is = "node",
           Open(path).node.length \in Nat, NEW offset \in Nat, NEW size \in Nat
    PROVE  Len(read_fs(Here, volume, Open(path).node, offset, size).bytes) \in Nat
<1> DEFINE node == Open(path).node
           answer == read_fs(Here, volume, node, offset, size)
<1>1. \A s : \A a, b \in Int : Len(SubSeq(s, a, b)) \in Nat
  OBVIOUS
<1>2. Len(<<>>) \in Nat
  OBVIOUS
<1>3. CASE node.fs = "ata"
  <2>1. PICK u \in 1 .. 4 : node = ata_device_create(u, Here.disks[u])
    BY <1>3, NodeIs, NullIsNot DEF fat32_create_fs_node, vfs_mapper, initrd_root
  <2> DEFINE disk == Here.disks[u]
  <2>2. node.inode = u /\ Len(disk) \in Nat
    BY <2>1 DEF ata_device_create, Node, ata_max_offset
  <2>3. answer = read_ata_bytes(disk, offset, size)
    BY <1>3, <2>2 DEF read_fs
  <2> HIDE DEF disk, answer, node
  <2>4. \A w : \A n \in Int : Len(Filled(w, size, n).bytes) \in Nat
    BY <1>1, <1>2 DEF Filled, Answer, Fails
  <2>5. Len(disk) - size \in Int /\ size \in Int
    BY <2>2
  <2>. QED  BY <1>2, <2>3, <2>4, <2>5 DEF read_ata_bytes, ata_max_offset, NoBytes, Answer, answer, node
<1>4. CASE node.fs = "fat32"
  <2> HIDE DEF node
  <2>1. answer = fat32_read(Here.disks[1], volume, node, offset, size)
    BY <1>4 DEF read_fs
  <2>2. \A chain : Len(Copied(Here.disks[1], volume, chain, offset, size).bytes) \in Nat
    BY <1>1, <1>2 DEF Copied, Fails, NoBytes, Answer
  <2> HIDE DEF answer
  <2>3. Len(NoBytes.bytes) \in Nat /\ \A why : Len(Fails(why).bytes) \in Nat
    BY <1>2 DEF NoBytes, Answer, Fails
  <2>4. \A cluster : Len(fat32_read_file(Here.disks[1], volume, cluster, offset, size).bytes) \in Nat
    BY <2>2 DEF fat32_read_file
  <2>5. \A found : Len(ReadFound(Here.disks[1], volume, found, offset, size).bytes) \in Nat
    BY <2>3, <2>4 DEF ReadFound
  <2>6. Len(fat32_read(Here.disks[1], volume, node, offset, size).bytes) \in Nat
    BY <2>3, <2>5 DEF fat32_read
  <2>. QED  BY <2>1, <2>6 DEF answer, node
<1>5. CASE node.fs = "initrd" /\ node.flags = "file"
  <2>1. PICK k \in DOMAIN Here.initrd :
            node = Node("initrd", "file", k, 0, NoName, Here.initrd[k].length)
    BY <1>5, NodeIs, NullIsNot DEF fat32_create_fs_node, vfs_mapper, initrd_root, ata_device_create
  <2>2. node.inode = k /\ Here.initrd[k].length \in Nat
    BY <2>1 DEF Node
  <2>3. answer = initrd_read(Here, node, offset, size)
    BY <1>5 DEF read_fs
  <2> HIDE DEF node, answer
  <2>. QED  BY <1>1, <1>2, <2>2, <2>3 DEF initrd_read, NoBytes, Answer, answer, node
<1>6. CASE ~(node.fs \in {"ata", "fat32"}) /\ ~(node.fs = "initrd" /\ node.flags = "file")
  <2>1. answer = NoBytes
    BY <1>6 DEF read_fs
  <2>. QED  BY <1>2, <2>1 DEF NoBytes, Answer
<1>. QED  BY <1>3, <1>4, <1>5, <1>6

IsPath(path) == path \in Seq(STRING) /\ Clean(path)

\* A process is in the root, or in a directory that its path leads to.
StandsIn(path) ==
    /\ IsPath(path)
    /\ path # <<>> => Open(path).is = "node" /\ Open(path).node.flags = "directory"

\* A descriptor was given for what its path leads to, and tells how far it was read.
OpenAt(hold, entry) ==
    /\ IsSeq(hold.path)
    /\ Open(hold.path).is = "node" /\ entry.node = Open(hold.path).node
    /\ entry.offset = hold.at
    /\ Open(hold.path).node.length \in Nat => hold.at \in Nat

CwdInv == \A s \in Slots : StandsIn(cwd[s])
HoldsInv == \A s \in Slots : \A fd \in Held(s) : OpenAt(holds[s][fd], entries[s][fd])
ReplyInv ==
    /\ reply.op = "open" /\ stopped = "no" =>
         IsSeq(reply.path) /\ (reply.ok <=> Open(reply.path).is = "node")
    /\ pc # "user" => reply = NoReply
FoundInv == CwdInv /\ HoldsInv /\ ReplyInv

\* The path that a call searches is what its words mean.
LEMMA AskMeans ==
    ASSUME FilesInv, FoundInv, NEW s \in Slots, NEW input \in Hardware.asks
    PROVE  /\ canonicalize_path(cwd[s], input) = Meaning(cwd[s], input)
           /\ IsPath(canonicalize_path(cwd[s], input))
<1>1. input.path \in Seq(STRING) /\ input.absolute \in BOOLEAN
  BY MachinesAssumption DEF FilesInv, BootInv, Hardware
<1>2. cwd[s] \in Seq(STRING) /\ Clean(cwd[s])
  BY DEF FoundInv, CwdInv, StandsIn, IsPath
<1>3. /\ canonicalize_path(cwd[s], input) = Meaning(cwd[s], input)
      /\ canonicalize_path(cwd[s], input) \in Seq(STRING)
  BY <1>1, <1>2, PathMeaning
<1>4. Clean(canonicalize_path(cwd[s], input))
  BY <1>1, <1>2, CanonicalClean DEF IsSeq
<1>. QED  BY <1>3, <1>4 DEF IsPath

\* After boot a path leads where it did.
LEMMA OpenSame ==
    ASSUME UNCHANGED bootVars, NEW path
    PROVE  Open(path)' = Open(path)
<1>. QED  BY DEF bootVars, Open, Here, Hardware

\* What a search says, and what it does to the answer of a call.
LEMMA OpenIs ==
    ASSUME FilesInv, pc # "vfs", NEW path, IsSeq(path)
    PROVE  /\ Open(path).is \in Whys
           /\ Open(path).is \notin {"node", NONE} => Open(path).is # "no"
<1>1. Sane(Hardware, Open(path))
  BY OpenSane
<1>. QED  BY <1>1 DEF Sane, Whys, NONE

LEMMA CwdKept ==
    ASSUME CwdInv, UNCHANGED <<bootVars, cwd>>
    PROVE  CwdInv'
<1>1. \A path : Open(path)' = Open(path)
  BY OpenSame
<1>2. \A path : StandsIn(path)' <=> StandsIn(path)
  BY <1>1 DEF StandsIn
<1>. QED  BY <1>2 DEF CwdInv

LEMMA HoldsKept ==
    ASSUME HoldsInv, UNCHANGED <<bootVars, entries, holds>>
    PROVE  HoldsInv'
<1>1. \A hold, entry : OpenAt(hold, entry)' <=> OpenAt(hold, entry)
  BY OpenSame DEF OpenAt
<1>. QED  BY <1>1 DEF HoldsInv, Held

LEMMA ReplyOther ==
    ASSUME pc' = "user", reply'.op # "open" \/ stopped' # "no"
    PROVE  ReplyInv'
<1>. QED  BY DEF ReplyInv

LEMMA NoFilesYet ==
    ASSUME FilesInv, pc # "user"
    PROVE  /\ \A s \in Slots : cwd[s] = <<>> /\ Held(s) = {}
           /\ IsPath(<<>>)
<1>1. \A s \in Slots : cwd[s] = <<>> /\ entries[s] = <<>>
  BY DEF FilesInv, BootInv
<1>2. \A s \in Slots : Held(s) = {}
  BY <1>1, EmptyIs DEF FilesInv, OwnInv, OpenIn
<1>3. IsPath(<<>>)
  BY EmptyIs, EmptySeq DEF IsPath, Clean
<1>. QED  BY <1>1, <1>2, <1>3

\* While the machine boots nobody has a file or a directory.
LEMMA BootFound ==
    ASSUME FilesInv, pc # "user", UNCHANGED <<cwd, holds>>, ReplyInv'
    PROVE  FoundInv'
<1>1. CwdInv'
  BY NoFilesYet DEF CwdInv, StandsIn, IsPath
<1>2. HoldsInv'
  <2>1. \A s \in Slots : Held(s)' = {}
    BY NoFilesYet DEF Held
  <2>. QED  BY <2>1 DEF HoldsInv
<1>. QED  BY <1>1, <1>2 DEF FoundInv

LEMMA BootStepFound ==
    ASSUME FilesInv, FoundInv, MountInitrd \/ InitAcpi \/ ScanPci \/ MountDisk
    PROVE  FoundInv'
<1>1. pc # "user" /\ pc' # "user" /\ UNCHANGED <<cwd, holds, reply>>
  BY DEF MountInitrd, InitAcpi, ScanPci, MountDisk, At, taskVars, history
<1>2. ReplyInv'
  BY <1>1 DEF FoundInv, ReplyInv, NoReply, NONE
<1>. QED  BY <1>1, <1>2, BootFound

LEMMA LoadReply ==
    ASSUME FilesInv, pc # "vfs", NEW path, IsSeq(path), NEW means, Load(path, means), pc' = "user"
    PROVE  ReplyInv'
<1> DEFINE found == Open(path)
<1>1. found.is \in Whys
  BY OpenIs
<1>2. LoadFound(means, found)
  BY DEF Load
<1> HIDE DEF found
<1>3. CASE found.is = NONE \/ found.node.flags = "directory"
  <2>1. reply' = NoReply
    BY <1>2, <1>3 DEF LoadFound, Goes, NONE
  <2>. QED  BY <2>1, ReplyOther DEF NoReply, NONE
<1>4. CASE found.is = "node" /\ found.node.flags # "directory"
  <2>1. reply'.op \in {"bytes", "load"}
    BY <1>2, <1>4 DEF LoadFound, LoadAnswer, Goes, Ends, NONE
  <2>. QED  BY <2>1, ReplyOther
<1>5. CASE ~(found.is = NONE \/ found.node.flags = "directory") /\ found.is # "node"
  <2>1. stopped' = found.is
    BY <1>2, <1>5 DEF LoadFound, Ends
  <2>. QED  BY <1>1, <1>5, <2>1, ReplyOther DEF Whys, NONE
<1>. QED  BY <1>3, <1>4, <1>5

LEMMA RunInitFound ==
    ASSUME FilesInv, FoundInv, RunInit
    PROVE  FoundInv'
<1>1. pc = "run" /\ pc' = "user" /\ UNCHANGED <<cwd, holds>> /\ Load(INIT_PATH, INIT_PATH)
  BY DEF RunInit, At
<1>2. IsSeq(INIT_PATH)
  BY MachinesAssumption DEF IsSeq
<1>3. ReplyInv'
  BY <1>1, <1>2, LoadReply
<1>. QED  BY <1>1, <1>3, BootFound

LEMMA LookFound ==
    ASSUME FilesInv, FoundInv, pc = "user", UNCHANGED <<bootVars, cwd, entries, holds>>, ReplyInv'
    PROVE  FoundInv'
<1>. QED  BY CwdKept, HoldsKept DEF FoundInv

LEMMA CreateFound ==
    ASSUME FilesInv, FoundInv, NEW s \in Slots, NEW input \in Hardware.asks, create_process(s, input)
    PROVE  FoundInv'
<1> DEFINE path == canonicalize_path(cwd[s], input)
<1>1. pc = "user" /\ pc' = "user" /\ UNCHANGED <<bootVars, cwd, entries, holds>>
  BY DEF create_process, Runs, bootVars
<1>2. Load(path, Meaning(cwd[s], input)) /\ IsSeq(path)
  BY AskIs DEF create_process
<1> HIDE DEF path
<1>3. ReplyInv'
  BY <1>1, <1>2, LoadReply
<1>. QED  BY <1>1, <1>3, LookFound

LEMMA ChdirFoundInv ==
    ASSUME FilesInv, FoundInv, NEW s \in Slots, NEW input \in Hardware.asks, NEW pid \in Slots,
           sys_chdir(s, input, pid)
    PROVE  FoundInv'
<1> DEFINE path == canonicalize_path(cwd[pid], input)
           found == Open(path)
<1>1. pc = "user" /\ pc' = "user" /\ UNCHANGED <<bootVars, entries, holds>>
  BY DEF sys_chdir, Runs, bootVars
<1>2. IsPath(path) /\ found.is \in Whys
  BY <1>1, AskIs, AskMeans, OpenIs
<1>3. /\ cwd' = cwd \/ (cwd' = [cwd EXCEPT ![pid] = path] /\ found.is = "node" /\ found.node.flags = "directory")
      /\ reply' = NoReply \/ (stopped' = found.is /\ found.is \notin {"node", NONE})
  BY DEF sys_chdir, ChdirFound, task_set_working_directory, Goes, Ends
<1>4. StandsIn(path) \/ cwd' = cwd
  BY <1>2, <1>3 DEF StandsIn
<1>5. ReplyInv'
  <2> HIDE DEF found
  <2>. QED  BY <1>1, <1>2, <1>3, ReplyOther DEF NoReply, NONE, Whys
<1>6. CwdInv'
  <2> HIDE DEF path
  <2>1. \A p : StandsIn(p)' <=> StandsIn(p)
    BY <1>1, OpenSame DEF StandsIn
  <2>. QED  BY <1>3, <1>4, <2>1 DEF FoundInv, CwdInv, FilesInv, TablesInv
<1>7. HoldsInv'
  BY <1>1, HoldsKept DEF FoundInv
<1>. QED  BY <1>5, <1>6, <1>7 DEF FoundInv

\* A descriptor that is taken, moved or emptied leaves the others as they were.
LEMMA OneHold ==
    ASSUME FilesInv, HoldsInv, UNCHANGED bootVars, NEW s \in Slots, NEW fd \in Fds,
           \A x \in Slots, f \in Fds : <<x, f>> # <<s, fd>> => holds'[x][f] = holds[x][f],
           \A x \in Slots : \A f \in DOMAIN entries[x] :
               <<x, f>> # <<s, fd>> => entries'[x][f] = entries[x][f],
           fd \in Held(s)' => OpenAt(holds'[s][fd], entries'[s][fd])
    PROVE  HoldsInv'
<1>1. \A hold, entry : OpenAt(hold, entry)' <=> OpenAt(hold, entry)
  BY OpenSame DEF OpenAt
<1>2. ASSUME NEW x \in Slots, NEW f \in Held(x)'
      PROVE  OpenAt(holds[x][f], entries[x][f])'
  <2>1. CASE <<x, f>> = <<s, fd>>
    BY <1>1, <1>2, <2>1
  <2>2. CASE <<x, f>> # <<s, fd>>
    <3>1. f \in Fds /\ holds'[x][f] = holds[x][f] /\ holds'[x][f] # NoHold
      BY <1>2, <2>2 DEF Held
    <3>2. f \in Held(x) /\ f \in DOMAIN entries[x]
      BY <3>1 DEF Held, FilesInv, OwnInv, OpenIn
    <3>. QED  BY <1>1, <2>2, <3>1, <3>2 DEF HoldsInv
  <2>. QED  BY <2>1, <2>2
<1>. QED  BY <1>2 DEF HoldsInv

LEMMA OpenFoundHolds ==
    ASSUME FilesInv, FoundInv, NEW s \in Slots, NEW input \in Hardware.asks, NEW append \in BOOLEAN,
           sys_open(s, input, append)
    PROVE  FoundInv'
<1> DEFINE means == Meaning(cwd[s], input)
           found == Open(means)
           fd == FreeFd(s)
           place == IF append THEN found.node.length ELSE 0
           entry == [NewFd(found.node) EXCEPT !.offset = place]
           hold == [path |-> means, at |-> place]
<1>1. pc = "user" /\ pc' = "user" /\ UNCHANGED <<bootVars, cwd>>
  BY DEF sys_open, Runs, bootVars
<1>2. OpenFound(s, means, append, found) /\ found.is \in Whys /\ IsSeq(means)
  <2>1. canonicalize_path(cwd[s], input) = means /\ IsSeq(means)
    BY AskIs, AskMeans
  <2> HIDE DEF means
  <2>. QED  BY <1>1, <2>1, OpenIs DEF sys_open, means
<1>3. CwdInv'
  BY <1>1, CwdKept DEF FoundInv
<1>4. CASE found.is \notin {"node", NONE}
  <2>1. UNCHANGED <<entries, holds>> /\ stopped' = found.is
    BY <1>2, <1>4 DEF OpenFound, Ends
  <2> HIDE DEF found
  <2>2. ReplyInv'
    BY <1>1, <1>2, <1>4, <2>1, ReplyOther DEF Whys, NONE
  <2>. QED  BY <1>1, <1>3, <2>1, <2>2, HoldsKept DEF FoundInv
<1>5. CASE found.is \in {"node", NONE}
  <2>1. /\ fd \in Fds
        /\ reply' = [op |-> "open", path |-> means, ok |-> found.is = "node"]
        /\ task_append_fd(s, fd, entry)
        /\ holds' = IF found.is = NONE THEN holds ELSE [holds EXCEPT ![s][fd] = hold]
    BY <1>2, <1>5 DEF OpenFound, Goes
  <2>2. ReplyInv'
    <3>1. reply'.path = means /\ reply'.ok = (found.is = "node")
      BY <2>1
    <3>2. \A p : Open(p)' = Open(p)
      BY <1>1, OpenSame
    <3>3. Open(reply.path)' = found
      <4> HIDE DEF means
      <4>. QED  BY <3>1, <3>2
    <3> HIDE DEF means
    <3>. QED  BY <1>1, <1>2, <3>1, <3>3 DEF ReplyInv
  <2>3. HoldsInv'
    <3> DEFINE table == SetAt(entries[s], fd, entry)
    <3>1. /\ fd \in 1 .. Len(entries[s]) + 1
          /\ fd \in DOMAIN entries[s] => entries[s][fd].node = NULL
          /\ IsSeq(entries[s])
      BY FreeFdIs DEF FilesInv, TablesInv, TableOk
    <3>2. /\ entry.node = found.node /\ entry.offset = place
          /\ found.node.length \in Nat => place \in Nat
      BY DEF NewFd
    <3>3. entries' = [entries EXCEPT ![s] = table]
      BY <2>1 DEF task_append_fd, SetAt
    <3>4. IsSetAt(table, entries[s], fd, entry)
      <4> HIDE DEF entry, fd
      <4>. QED  BY <3>1, SetAtIs
    <3>5. fd \notin Held(s)
      BY <3>1 DEF FilesInv, OwnInv, OpenIn
    <3>6. hold.path = means /\ hold.at = place
      OBVIOUS
    <3> HIDE DEF table, entry, fd, hold, place, means
    <3>7. /\ entries'[s] = table /\ \A x \in Slots : x # s => entries'[x] = entries[x]
      BY <3>3 DEF FilesInv, TablesInv
    <3>8. /\ \A x \in Slots : \A f \in DOMAIN entries[x] :
               <<x, f>> # <<s, fd>> => entries'[x][f] = entries[x][f]
          /\ entries'[s][fd] = entry
      BY <3>4, <3>7 DEF IsSetAt
    <3>9. /\ \A x \in Slots, f \in Fds : <<x, f>> # <<s, fd>> => holds'[x][f] = holds[x][f]
          /\ found.is = NONE => holds'[s][fd] = holds[s][fd]
          /\ found.is # NONE => holds'[s][fd] = hold
      BY <2>1 DEF FilesInv, TablesInv
    <3>10. fd \in Held(s)' => OpenAt(holds'[s][fd], entries'[s][fd])
      <4>1. CASE found.is = NONE
        BY <3>5, <3>9, <4>1 DEF Held
      <4>2. CASE found.is # NONE
        BY <1>2, <1>5, <3>2, <3>6, <3>8, <3>9, <4>2 DEF OpenAt
      <4>. QED  BY <4>1, <4>2
    <3>. QED  BY <1>1, <2>1, <3>8, <3>9, <3>10, OneHold DEF FoundInv
  <2>. QED  BY <1>3, <2>2, <2>3 DEF FoundInv
<1>. QED  BY <1>4, <1>5

LEMMA CloseFound ==
    ASSUME FilesInv, FoundInv, NEW s \in Slots, NEW fd \in Fds, sys_close(s, fd)
    PROVE  FoundInv'
<1>1. pc = "user" /\ pc' = "user" /\ UNCHANGED <<bootVars, cwd>>
  BY DEF sys_close, Runs, bootVars
<1>2. ReplyInv'
  <2>1. reply'.op # "open"
    BY DEF sys_close, Goes, Ends, NoReply, NONE
  <2>. QED  BY <1>1, <2>1, ReplyOther
<1>3. CASE ~IsFd(s, fd)
  <2>1. UNCHANGED <<entries, holds>>
    BY <1>3 DEF sys_close
  <2>. QED  BY <1>1, <1>2, <2>1, LookFound
<1>4. CASE IsFd(s, fd)
  <2>1. entries' = [entries EXCEPT ![s][fd] = NoFd] /\ holds' = [holds EXCEPT ![s][fd] = NoHold]
    BY <1>4 DEF sys_close
  <2>2. /\ \A x \in Slots, f \in Fds : <<x, f>> # <<s, fd>> => holds'[x][f] = holds[x][f]
        /\ holds'[s][fd] = NoHold
    BY <2>1 DEF FilesInv, TablesInv
  <2>3. \A x \in Slots : \A f \in DOMAIN entries[x] :
          <<x, f>> # <<s, fd>> => entries'[x][f] = entries[x][f]
    BY <2>1 DEF FilesInv, TablesInv
  <2>4. fd \notin Held(s)'
    BY <2>2 DEF Held
  <2>5. HoldsInv'
    BY <1>1, <2>2, <2>3, <2>4, OneHold DEF FoundInv
  <2>. QED  BY <1>1, <1>2, <2>5, CwdKept DEF FoundInv
<1>. QED  BY <1>3, <1>4

LEMMA SizeIs ==
    ASSUME FilesInv, NEW size \in Hardware.sizes
    PROVE  size \in Nat
BY MachinesAssumption DEF FilesInv, BootInv, Hardware

LEMMA ReadFoundInv ==
    ASSUME FilesInv, MountsInv, FoundInv, NEW s \in Slots, NEW fd \in Fds,
           NEW size \in Hardware.sizes, sys_read_fs(s, fd, size)
    PROVE  FoundInv'
<1> DEFINE here == entries[s][fd]
           answer == read_fs(Here, volume, here.node, here.offset, size)
<1>1. pc = "user" /\ pc' = "user" /\ UNCHANGED <<bootVars, cwd>>
  BY DEF sys_read_fs, Runs, bootVars
<1>2. ReplyInv'
  <2>1. reply'.op # "open"
    BY DEF sys_read_fs, ReadGives, Goes, Ends, NoReply, NONE
  <2>. QED  BY <1>1, <2>1, ReplyOther
<1>3. CASE ~(IsFd(s, fd) /\ answer.is = "bytes")
  <2>1. UNCHANGED <<entries, holds>>
    BY <1>3 DEF sys_read_fs, ReadGives
  <2>. QED  BY <1>1, <1>2, <2>1, LookFound
<1>4. CASE IsFd(s, fd) /\ answer.is = "bytes"
  <2> DEFINE n == Len(answer.bytes)
  <2>1. /\ entries' = [entries EXCEPT ![s][fd].offset = here.offset + n]
        /\ holds' = IF fd \in Held(s) THEN [holds EXCEPT ![s][fd].at = holds[s][fd].at + n] ELSE holds
    BY <1>4 DEF sys_read_fs, ReadGives
  <2> HIDE DEF answer, n
  <2>2. /\ fd \in DOMAIN entries[s]
        /\ here = [node |-> here.node, count |-> here.count, offset |-> here.offset]
    BY <1>4 DEF IsFd, FilesInv, TablesInv, TableOk, EntryOk
  <2>3. /\ \A x \in Slots : \A f \in DOMAIN entries[x] :
             <<x, f>> # <<s, fd>> => entries'[x][f] = entries[x][f]
        /\ entries'[s][fd].node = here.node /\ entries'[s][fd].offset = here.offset + n
    <3> DEFINE moved == [here EXCEPT !.offset = here.offset + n]
    <3>1. entries' = [entries EXCEPT ![s] = [entries[s] EXCEPT ![fd] = moved]]
      BY <2>1
    <3>2. moved.node = here.node /\ moved.offset = here.offset + n
      BY <2>2
    <3> HIDE DEF moved
    <3>3. entries'[s] = [entries[s] EXCEPT ![fd] = moved] /\ \A x \in Slots : x # s => entries'[x] = entries[x]
      BY <3>1 DEF FilesInv, TablesInv
    <3>. QED  BY <2>2, <3>2, <3>3
  <2>4. /\ \A x \in Slots, f \in Fds : <<x, f>> # <<s, fd>> => holds'[x][f] = holds[x][f]
        /\ fd \notin Held(s) => fd \notin Held(s)'
        /\ fd \in Held(s) => /\ holds'[s][fd].path = holds[s][fd].path
                             /\ holds'[s][fd].at = holds[s][fd].at + n
    <3>1. CASE fd \notin Held(s)
      BY <2>1, <3>1 DEF Held
    <3>2. CASE fd \in Held(s)
      <4> DEFINE h == holds[s][fd]
                 next == [h EXCEPT !.at = h.at + n]
      <4>1. h = [path |-> h.path, at |-> h.at]
        BY <3>2 DEF Held, FilesInv, TablesInv, HoldOk
      <4>2. next.path = h.path /\ next.at = h.at + n
        <5> HIDE DEF h
        <5>. QED  BY <4>1
      <4>3. holds' = [holds EXCEPT ![s] = [holds[s] EXCEPT ![fd] = next]]
        BY <2>1, <3>2
      <4> HIDE DEF next
      <4>4. holds'[s][fd] = next /\ \A x \in Slots, f \in Fds : <<x, f>> # <<s, fd>> => holds'[x][f] = holds[x][f]
        BY <4>3 DEF FilesInv, TablesInv
      <4>. QED  BY <3>2, <4>2, <4>4
    <3>. QED  BY <3>1, <3>2
  <2>5. fd \in Held(s)' => OpenAt(holds'[s][fd], entries'[s][fd])
    <3>1. CASE fd \in Held(s)
      <4> DEFINE path == holds[s][fd].path
                 at == holds[s][fd].at
      <4>1. /\ IsSeq(path) /\ Open(path).is = "node" /\ here.node = Open(path).node
            /\ here.offset = at /\ (Open(path).node.length \in Nat => at \in Nat)
        BY <3>1 DEF FoundInv, HoldsInv, OpenAt
      <4> HIDE DEF path, at, here
      <4>2. Open(path).node.length \in Nat => n \in Nat
        <5> SUFFICES ASSUME Open(path).node.length \in Nat PROVE n \in Nat
          OBVIOUS
        <5>1. at \in Nat /\ size \in Nat /\ pc # "vfs"
          BY <1>1, <4>1, SizeIs
        <5>2. Len(read_fs(Here, volume, Open(path).node, at, size).bytes) \in Nat
          BY <4>1, <5>1, ReadLen
        <5>. QED  BY <4>1, <5>2 DEF n, answer
      <4>3. Open(path).node.length \in Nat => at + n \in Nat
        BY <4>1, <4>2
      <4>. QED  BY <2>3, <2>4, <3>1, <4>1, <4>3 DEF OpenAt, path, at
    <3>2. CASE fd \notin Held(s)
      BY <2>4, <3>2
    <3>. QED  BY <3>1, <3>2
  <2>6. HoldsInv'
    BY <1>1, <2>3, <2>4, <2>5, OneHold DEF FoundInv
  <2>. QED  BY <1>1, <1>2, <2>6, CwdKept DEF FoundInv
<1>. QED  BY <1>3, <1>4

LEMMA KillFound ==
    ASSUME FilesInv, FoundInv, NEW s \in Slots, NEW pid \in Slots, kill(s, pid)
    PROVE  FoundInv'
<1> DEFINE none == [fd \in Fds |-> NoHold]
<1>1. /\ pc = "user" /\ pc' = "user" /\ UNCHANGED <<bootVars, cwd>>
      /\ holds' = [holds EXCEPT ![pid] = none]
      /\ entries' = entries \/ entries' = [entries EXCEPT ![pid] = Emptied(entries[pid])]
      /\ reply' = NoReply
  BY DEF kill, Runs, bootVars, Goes
<1>2. /\ \A x \in Slots : x # pid => holds'[x] = holds[x] /\ entries'[x] = entries[x]
      /\ \A f \in Fds : holds'[pid][f] = NoHold
  BY <1>1 DEF FilesInv, TablesInv
<1>3. ReplyInv'
  BY <1>1, ReplyOther DEF NoReply, NONE
<1>4. HoldsInv'
  <2>1. \A hold, entry : OpenAt(hold, entry)' <=> OpenAt(hold, entry)
    BY <1>1, OpenSame DEF OpenAt
  <2>2. Held(pid)' = {} /\ \A x \in Slots : x # pid => Held(x)' = Held(x)
    BY <1>2 DEF Held
  <2>3. ASSUME NEW x \in Slots, NEW f \in Held(x)'
        PROVE  OpenAt(holds[x][f], entries[x][f])'
    <3>1. x # pid /\ f \in Held(x) /\ holds'[x] = holds[x] /\ entries'[x] = entries[x]
      BY <1>2, <2>2, <2>3
    <3>. QED  BY <2>1, <3>1 DEF FoundInv, HoldsInv
  <2>. QED  BY <2>3 DEF HoldsInv
<1>. QED  BY <1>1, <1>3, <1>4, CwdKept DEF FoundInv

LEMMA FoundStep ==
    ASSUME FilesInv, MountsInv, FoundInv, [FilesNext]_filesVars
    PROVE  FoundInv'
<1>1. ASSUME NEW s \in Slots, NEW fd \in Fds, Looks(s, fd)
      PROVE  FoundInv'
  <2>1. pc = "user" /\ pc' = "user" /\ UNCHANGED <<bootVars, cwd, entries, holds>>
    BY <1>1 DEF Looks, Runs, bootVars, taskVars, history
  <2>2. reply'.op # "open"
    BY <1>1 DEF Looks, Goes, Ends, NoReply, NONE
  <2>. QED  BY <2>1, <2>2, ReplyOther, LookFound
<1>2. ASSUME NEW s \in Slots, NEW fd \in Fds, NEW index, sys_readdir(s, fd, index)
      PROVE  FoundInv'
  <2>1. pc = "user" /\ pc' = "user" /\ UNCHANGED <<bootVars, cwd, entries, holds>>
    BY <1>2 DEF sys_readdir, Runs, bootVars, taskVars, history
  <2>2. reply'.op # "open"
    BY <1>2 DEF sys_readdir, Goes, Ends, NoReply, NONE
  <2>. QED  BY <2>1, <2>2, ReplyOther, LookFound
<1>3. ASSUME NEW s \in Slots, sys_shutdown(s) \/ sys_reboot(s)
      PROVE  FoundInv'
  <2>1. pc = "user" /\ pc' = "user" /\ UNCHANGED <<bootVars, cwd, entries, holds>>
    BY <1>3 DEF sys_shutdown, sys_reboot, Runs, bootVars, taskVars, history
  <2>2. reply'.op # "open"
    BY <1>3 DEF sys_shutdown, sys_reboot, Ends
  <2>. QED  BY <2>1, <2>2, ReplyOther, LookFound
<1>4. CASE UNCHANGED filesVars
  <2>1. UNCHANGED <<bootVars, cwd, entries, holds, reply, stopped, pc>>
    BY <1>4 DEF filesVars, bootVars, taskVars, history
  <2>2. \A p : Open(p)' = Open(p)
    BY <2>1, OpenSame
  <2>3. ReplyInv'
    BY <2>1, <2>2 DEF FoundInv, ReplyInv
  <2>. QED  BY <2>1, <2>3, CwdKept, HoldsKept DEF FoundInv
<1>. QED  BY <1>1, <1>2, <1>3, <1>4, BootStepFound, RunInitFound, OpenFoundHolds, ChdirFoundInv,
             CreateFound, CloseFound, ReadFoundInv, KillFound
          DEF FilesNext, sys_stat, sys_write_fs

\* What calls find is what their paths lead to: a descriptor stands for the node
\* that the search of its path finds, at the place where its reads are, an open
\* succeeds exactly if that search does, and processes are in directories
\* (sys_open, task_append_fd, sys_read_fs, sys_chdir).
THEOREM FoundInvariant == FilesSpec => []FoundInv
<1>1. FilesInit => FoundInv
  <2> SUFFICES ASSUME FilesInit PROVE FoundInv
    OBVIOUS
  <2>1. FilesInv /\ pc # "user"
    BY InitInv DEF FilesInit
  <2>2. ReplyInv
    BY DEF FilesInit, ReplyInv, NoReply, NONE
  <2>. QED  BY <2>1, <2>2, NoFilesYet DEF FoundInv, CwdInv, HoldsInv, StandsIn
<1>2. FilesInv /\ MountsInv /\ FoundInv /\ [FilesNext]_filesVars => FoundInv'
  BY FoundStep
<1>. QED  BY <1>1, <1>2, FilesInvariant, MountsInvariant, PTL DEF FilesSpec

\* A call searches the path that its words mean, in the process's directory
\* (canonicalize_path, sys_open, sys_chdir, sys_create_process).
PathsMean == \A s \in Slots : \A input \in Hardware.asks :
                 canonicalize_path(cwd[s], input) = Meaning(cwd[s], input)
THEOREM PathsMeanInvariant == FilesSpec => []PathsMean
<1>1. FilesInv /\ FoundInv => PathsMean
  BY AskMeans DEF PathsMean
<1>. QED  BY <1>1, FilesInvariant, FoundInvariant, PTL

-----------------------------------------------------------------------------
(* What calls give.                                                        *)

\* A read gives what the file system reads of the node that the search of the
\* path finds, and a listing gives the name behind the path of its directory.
GaveBytes(m, v, t, r) ==
    /\ IsSeq(r.path) /\ kopen(m, v, t, r.path).is = "node"
    /\ r.bytes = read_fs(m, v, kopen(m, v, t, r.path).node, r.from, r.size).bytes
    /\ kopen(m, v, t, r.path).node.length \in Nat => r.from \in Nat /\ r.size \in Nat
GaveName(m, v, t, r) ==
    \E path, index :
        /\ IsSeq(path) /\ kopen(m, v, t, path).is = "node"
        /\ readdir_fs(m, t, kopen(m, v, t, path).node, index) \notin {NONE, UP, DOT}
        /\ r.path = Append(path, readdir_fs(m, t, kopen(m, v, t, path).node, index))
GivenInv ==
    /\ reply.op = "bytes" => GaveBytes(Here, volume, tree, reply)
    /\ reply.op = "name" => GaveName(Here, volume, tree, reply)

LEMMA GivenOther ==
    ASSUME reply'.op \notin {"bytes", "name"}
    PROVE  GivenInv'
BY DEF GivenInv

LEMMA StaysHere ==
    ASSUME UNCHANGED <<machine, controller, tree, volume>>
    PROVE  Here' = Here /\ volume' = volume /\ tree' = tree
BY DEF Here, Hardware

LEMMA LoadGives ==
    ASSUME FilesInv, UNCHANGED <<machine, controller, tree, volume>>,
           NEW path, IsSeq(path), Load(path, path)
    PROVE  GivenInv'
<1> DEFINE found == Open(path)
           node == found.node
<1>1. LoadFound(path, found)
  BY DEF Load
<1>2. found = kopen(Here, volume, tree, path)
  BY DEF Open
<1> HIDE DEF found
<1>3. CASE found.is = NONE \/ found.node.flags = "directory"
  <2>1. reply' = NoReply
    BY <1>1, <1>3 DEF LoadFound, Goes, NONE
  <2>. QED  BY <2>1, GivenOther DEF NoReply, NONE
<1> DEFINE answer == read_fs(Here, volume, node, 0, node.length)
<1>4. CASE found.is = "node" /\ found.node.flags # "directory"
  <2>1. LoadAnswer(path, node, answer)
    BY <1>1, <1>4 DEF LoadFound, NONE
  <2> HIDE DEF answer
  <2>2. CASE answer.is = "bytes"
    <3>1. /\ reply'.op = "bytes" /\ reply'.path = path /\ reply'.from = 0 /\ reply'.size = node.length
          /\ reply'.bytes = answer.bytes
      BY <2>1, <2>2 DEF LoadAnswer, Goes
    <3>2. GaveBytes(Here, volume, tree, reply')
      BY <1>2, <1>4, <3>1 DEF GaveBytes, answer
    <3>. QED  BY <3>1, <3>2, StaysHere DEF GivenInv
  <2>3. CASE answer.is # "bytes"
    <3>1. reply'.op = "load"
      BY <2>1, <2>3 DEF LoadAnswer, Ends
    <3>. QED  BY <3>1, GivenOther
  <2>. QED  BY <2>2, <2>3
<1>5. CASE ~(found.is = NONE \/ found.node.flags = "directory") /\ found.is # "node"
  <2>1. reply'.op = "open"
    BY <1>1, <1>5 DEF LoadFound, Ends
  <2>. QED  BY <2>1, GivenOther
<1>. QED  BY <1>3, <1>4, <1>5

LEMMA ReadGivesBytes ==
    ASSUME FilesInv, FoundInv, NEW s \in Slots, NEW fd \in Fds,
           NEW size \in Hardware.sizes, sys_read_fs(s, fd, size)
    PROVE  GivenInv'
<1> DEFINE here == entries[s][fd]
           answer == read_fs(Here, volume, here.node, here.offset, size)
           path == holds[s][fd].path
           at == holds[s][fd].at
<1>1. UNCHANGED <<machine, controller, tree, volume>>
  BY DEF sys_read_fs, bootVars
<1>2. CASE IsFd(s, fd) /\ answer.is = "bytes" /\ fd \in Held(s)
  <2>1. reply' = [op |-> "bytes", path |-> path, from |-> at, size |-> size, bytes |-> answer.bytes]
    BY <1>2 DEF sys_read_fs, ReadGives, Goes
  <2>2. /\ IsSeq(path) /\ Open(path).is = "node" /\ here.node = Open(path).node
        /\ here.offset = at /\ (Open(path).node.length \in Nat => at \in Nat)
    BY <1>2 DEF FoundInv, HoldsInv, OpenAt
  <2>3. answer = read_fs(Here, volume, Open(path).node, at, size)
    BY <2>2
  <2> HIDE DEF answer, path, at
  <2>4. /\ reply'.op = "bytes" /\ reply'.path = path /\ reply'.from = at /\ reply'.size = size
        /\ reply'.bytes = answer.bytes
    BY <2>1
  <2>5. GaveBytes(Here, volume, tree, reply')
    BY <2>2, <2>3, <2>4, SizeIs DEF GaveBytes, Open
  <2>. QED  BY <1>1, <2>4, <2>5, StaysHere DEF GivenInv
<1>3. CASE ~(IsFd(s, fd) /\ answer.is = "bytes" /\ fd \in Held(s))
  <2>1. reply'.op \in {"read", "use"} \/ reply' = NoReply
    BY <1>3 DEF sys_read_fs, ReadGives, Goes, Ends
  <2>. QED  BY <2>1, GivenOther DEF NoReply, NONE
<1>. QED  BY <1>2, <1>3

LEMMA ReaddirGives ==
    ASSUME FilesInv, FoundInv, NEW s \in Slots, NEW fd \in Fds, NEW index,
           sys_readdir(s, fd, index)
    PROVE  GivenInv'
<1> DEFINE here == entries[s][fd]
           name == readdir_fs(Here, tree, here.node, index)
           path == holds[s][fd].path
<1>1. UNCHANGED <<machine, controller, tree, volume>>
  BY DEF sys_readdir, bootVars
<1>2. CASE IsFd(s, fd) /\ fd \in Held(s) /\ name \notin {NONE, UP, DOT}
  <2>1. reply' = [op |-> "name", path |-> Append(path, name)]
    BY <1>2 DEF sys_readdir, Goes
  <2>2. IsSeq(path) /\ Open(path).is = "node" /\ here.node = Open(path).node
    BY <1>2 DEF FoundInv, HoldsInv, OpenAt
  <2>3. name = readdir_fs(Here, tree, Open(path).node, index)
    BY <2>2
  <2> HIDE DEF name, path
  <2>4. reply'.op = "name" /\ reply'.path = Append(path, name)
    BY <2>1
  <2>5. GaveName(Here, volume, tree, reply')
    BY <1>2, <2>2, <2>3, <2>4 DEF GaveName, Open
  <2>. QED  BY <1>1, <2>4, <2>5, StaysHere DEF GivenInv
<1>3. CASE ~(IsFd(s, fd) /\ fd \in Held(s) /\ name \notin {NONE, UP, DOT})
  <2>1. reply'.op = "use" \/ reply' = NoReply
    BY <1>3 DEF sys_readdir, Goes, Ends
  <2>. QED  BY <2>1, GivenOther DEF NoReply, NONE
<1>. QED  BY <1>2, <1>3

LEMMA GivenStep ==
    ASSUME FilesInv, FoundInv, GivenInv, [FilesNext]_filesVars
    PROVE  GivenInv'
<1>1. CASE MountInitrd \/ InitAcpi \/ ScanPci \/ MountDisk
  <2>1. pc # "user" /\ reply' = reply
    BY <1>1 DEF MountInitrd, InitAcpi, ScanPci, MountDisk, At
  <2>2. reply = NoReply
    BY <2>1 DEF FoundInv, ReplyInv
  <2>. QED  BY <2>1, <2>2, GivenOther DEF NoReply, NONE
<1>2. CASE RunInit
  <2>1. UNCHANGED <<machine, controller, tree, volume>> /\ Load(INIT_PATH, INIT_PATH)
    BY <1>2 DEF RunInit
  <2>2. IsSeq(INIT_PATH)
    BY MachinesAssumption DEF IsSeq
  <2>. QED  BY <2>1, <2>2, LoadGives
<1>3. ASSUME NEW s \in Slots, NEW input \in Hardware.asks, create_process(s, input)
      PROVE  GivenInv'
  <2> DEFINE path == canonicalize_path(cwd[s], input)
  <2>1. UNCHANGED <<machine, controller, tree, volume>> /\ Load(path, Meaning(cwd[s], input))
    BY <1>3 DEF create_process, bootVars
  <2>2. path = Meaning(cwd[s], input) /\ IsSeq(path)
    BY AskMeans, AskIs
  <2> HIDE DEF path
  <2>. QED  BY <2>1, <2>2, LoadGives
<1>4. ASSUME NEW s \in Slots,
             \/ \E input \in Hardware.asks : \/ \E append \in BOOLEAN : sys_open(s, input, append)
                                             \/ \E pid \in Slots : sys_chdir(s, input, pid)
             \/ \E fd \in Fds : sys_close(s, fd) \/ sys_stat(s, fd) \/ sys_write_fs(s, fd)
             \/ \E pid \in Slots : kill(s, pid)
             \/ sys_shutdown(s) \/ sys_reboot(s)
      PROVE  GivenInv'
  <2>1. reply'.op \in {"open", "close", "use", "shutdown", "reboot"} \/ reply' = NoReply
    <3>1. ASSUME NEW input, NEW append, sys_open(s, input, append) PROVE reply'.op = "open"
      BY <3>1 DEF sys_open, OpenFound, Goes, Ends
    <3>2. ASSUME NEW input, NEW pid, sys_chdir(s, input, pid) PROVE reply'.op = "open" \/ reply' = NoReply
      BY <3>2 DEF sys_chdir, ChdirFound, Goes, Ends
    <3>3. ASSUME NEW fd \in Fds, sys_close(s, fd) PROVE reply'.op = "close" \/ reply' = NoReply
      BY <3>3 DEF sys_close, Goes, Ends
    <3>4. ASSUME NEW fd \in Fds, Looks(s, fd) PROVE reply'.op = "use" \/ reply' = NoReply
      BY <3>4 DEF Looks, Goes, Ends
    <3>5. ASSUME NEW pid, kill(s, pid) PROVE reply' = NoReply
      BY <3>5 DEF kill, Goes
    <3>6. ASSUME sys_shutdown(s) \/ sys_reboot(s) PROVE reply'.op \in {"shutdown", "reboot"}
      BY <3>6 DEF sys_shutdown, sys_reboot, Ends
    <3>. QED  BY <1>4, <3>1, <3>2, <3>3, <3>4, <3>5, <3>6 DEF sys_stat, sys_write_fs
  <2>. QED  BY <2>1, GivenOther DEF NoReply, NONE
<1>5. CASE UNCHANGED filesVars
  <2>1. UNCHANGED <<machine, controller, tree, volume>> /\ reply' = reply
    BY <1>5 DEF filesVars, bootVars
  <2>. QED  BY <2>1, StaysHere DEF GivenInv
<1>. QED  BY <1>1, <1>2, <1>3, <1>4, <1>5, ReadGivesBytes, ReaddirGives DEF FilesNext

\* Every answer of a read is what the file system reads of the node that the
\* search of the descriptor's path finds, at the descriptor's place, and every
\* name of a listing is one of the directory found there (sys_read_fs,
\* sys_readdir, load_program).
THEOREM GivenInvariant == FilesSpec => []GivenInv
<1>1. FilesInit => GivenInv
  BY DEF FilesInit, GivenInv, NoReply, NONE
<1>2. FilesInv /\ FoundInv /\ GivenInv /\ [FilesNext]_filesVars => GivenInv'
  BY GivenStep
<1>. QED  BY <1>1, <1>2, FilesInvariant, FoundInvariant, PTL DEF FilesSpec

-----------------------------------------------------------------------------
(* Bytes and clusters: what is read of a disk.                             *)

LEMMA Euclid ==
    ASSUME NEW a \in Nat, NEW b \in Nat \ {0}
    PROVE  a \div b \in Nat /\ a % b \in 0 .. b - 1 /\ (a \div b) * b + (a % b) = a
OBVIOUS

LEMMA Divides ==
    ASSUME NEW b \in Nat \ {0}, NEW a \in Nat
    PROVE  /\ a \div b \in Nat /\ a % b \in 0 .. b - 1 /\ (a \div b) * b + (a % b) = a
           /\ \A q \in Int, r \in 0 .. b - 1 : a = q * b + r => a \div b = q /\ a % b = r
<1>1. /\ a \div b \in Nat /\ a % b \in 0 .. b - 1 /\ (a \div b) * b + (a % b) = a
  BY Euclid
<1>2. ASSUME NEW q \in Int, NEW r \in 0 .. b - 1, a = q * b + r PROVE a \div b = q /\ a % b = r
  <2> DEFINE p == a \div b
             t == a % b
  <2>1. p \in Int /\ t \in 0 .. b - 1 /\ p * b + t = q * b + r
    BY <1>1, <1>2
  <2> HIDE DEF p, t
  <2>2. (p - q) * b = r - t
    BY <2>1
  <2>3. CASE p - q >= 1
    <3>1. (p - q) * b >= b
      BY <2>1, <2>3
    <3>. QED  BY <2>1, <2>2, <3>1
  <2>4. CASE p - q <= -1
    <3>1. (p - q) * b <= -b
      BY <2>1, <2>4
    <3>. QED  BY <2>1, <2>2, <3>1
  <2>5. CASE p = q
    BY <2>1, <2>2, <2>5 DEF p, t
  <2>. QED  BY <2>1, <2>3, <2>4, <2>5
<1>. QED  BY <1>1, <1>2

LEMMA Parted ==
    ASSUME NEW b \in Nat \ {0}, NEW a \in Nat, NEW q \in Int, NEW r \in 0 .. b - 1, a = q * b + r
    PROVE  a \div b = q /\ a % b = r
BY Divides

\* A buffer that is filled completely.
LEMMA FilledIs ==
    ASSUME NEW n \in Nat, NEW g, NEW w,
           \A i \in 0 .. n - 1 : <<i, g[i]>> \in w,
           \A u \in w : \E i \in 0 .. n - 1 : u = <<i, g[i]>>
    PROVE  /\ IsSeq(Filled(w, n, n).bytes) /\ Len(Filled(w, n, n).bytes) = n
           /\ \A i \in 1 .. n : Filled(w, n, n).bytes[i] = g[i - 1]
<1> DEFINE at(i) == IF \E u \in w : u[1] = i THEN (CHOOSE u \in w : u[1] = i)[2] ELSE STRAY
           all == [i \in 1 .. n |-> at(i - 1)]
<1>1. ASSUME NEW i \in 0 .. n - 1 PROVE at(i) = g[i]
  <2>1. <<i, g[i]>> \in w /\ <<i, g[i]>>[1] = i
    OBVIOUS
  <2>2. \A u \in w : u[1] = i => u = <<i, g[i]>>
    OBVIOUS
  <2>3. (CHOOSE u \in w : u[1] = i) = <<i, g[i]>>
    BY <2>1, <2>2
  <2>. QED  BY <2>1, <2>3
<1>2. ~ \E u \in w : u[1] \notin 0 .. n - 1
  OBVIOUS
<1>3. Filled(w, n, n).bytes = Prefix(all, n)
  BY <1>2 DEF Filled, Answer, Prefix
<1>4. \A i \in 1 .. n : all[i] = g[i - 1]
  BY <1>1
<1>5. IsSeq(all) /\ Len(all) = n
  <2>1. all = [i \in 1 .. n |-> all[i]]
    OBVIOUS
  <2> HIDE DEF all
  <2>. QED  BY <2>1, MapAny
<1> HIDE DEF all
<1>6. Prefix(all, n) = all
  BY <1>5, WholePrefix
<1>. QED  BY <1>3, <1>4, <1>5, <1>6

\* A product grows by its factor.
LEMMA Times ==
    ASSUME NEW s \in Nat, NEW a \in Int, NEW b \in Int
    PROVE  /\ a * s \in Int /\ b * s \in Int /\ (a + 1) * s = a * s + s /\ (b - a) * s = b * s - a * s
           /\ a < b => a * s + s <= b * s
           /\ a <= b => a * s <= b * s
<1>1. (b - a) * s = b * s - a * s /\ (a + 1) * s = a * s + s /\ a * s \in Int /\ b * s \in Int
  OBVIOUS
<1>2. ASSUME NEW k \in Int, k >= 1 PROVE k * s >= s
  BY <1>2
<1>3. ASSUME NEW k \in Int, k >= 0 PROVE k * s >= 0
  BY <1>3
<1>4. a < b => (b - a) * s >= s
  BY <1>2
<1>5. a <= b => (b - a) * s >= 0
  BY <1>3
<1>6. \A x, y, z \in Int : z = y - x /\ z >= s => x + s <= y
  OBVIOUS
<1>7. \A x, y, z \in Int : z = y - x /\ z >= 0 => x <= y
  OBVIOUS
<1>8. (b - a) * s \in Int
  BY <1>1
<1>. QED  BY <1>1, <1>4, <1>5, <1>6, <1>7, <1>8

LEMMA ReadUnit ==
    ASSUME NEW disk, Len(disk) \in Nat, NEW b \in Int, NEW r \in 0 .. SECTOR - 1, NEW p \in Int,
           b * SECTOR + r = p, p < Len(disk)
    PROVE  ata_read(disk, b)[r] = disk[p + 1]
BY DEF ata_read

\* Where the sectors of a range begin and end: its first and last one, what
\* stands in them in front of the range and up to its end.
RangeAt(off, n, first, skip, last, t) ==
    /\ first \in Nat /\ skip \in 0 .. SECTOR - 1 /\ first * SECTOR + skip = off
    /\ last \in Nat /\ t \in 0 .. SECTOR - 1 /\ last * SECTOR + t = off + n - 1
    /\ first <= last
    /\ (off + n) % SECTOR = IF t = SECTOR - 1 THEN 0 ELSE t + 1

LEMMA RangeParts ==
    ASSUME NEW off \in Nat, NEW n \in Nat \ {0}
    PROVE  \E t : RangeAt(off, n, off \div SECTOR, off % SECTOR, (off + n - 1) \div SECTOR, t)
<1> DEFINE first == off \div SECTOR
           skip == off % SECTOR
           last == (off + n - 1) \div SECTOR
           t == (off + n - 1) % SECTOR
<1>1. SECTOR \in Nat \ {0} /\ off + n - 1 \in Nat /\ off + n \in Nat
  BY Fat32Assumption
<1>2. first \in Nat /\ skip \in 0 .. SECTOR - 1 /\ first * SECTOR + skip = off
  BY <1>1, Divides
<1>3. last \in Nat /\ t \in 0 .. SECTOR - 1 /\ last * SECTOR + t = off + n - 1
  BY <1>1, Divides
<1> HIDE DEF first, skip, last, t
<1>4. first <= last
  <2> SUFFICES ASSUME last < first PROVE FALSE
    BY <1>2, <1>3
  <2> DEFINE F == first * SECTOR
             L == last * SECTOR
  <2>1. F \in Int /\ L \in Int /\ L + SECTOR <= F
    BY <1>1, <1>2, <1>3, Times
  <2>2. F + skip = off /\ L + t = off + n - 1
    BY <1>2, <1>3
  <2> HIDE DEF F, L
  <2>. QED  BY <1>1, <1>2, <1>3, <2>1, <2>2
<1>5. (off + n) % SECTOR = IF t = SECTOR - 1 THEN 0 ELSE t + 1
  <2> DEFINE L == last * SECTOR
  <2>1. L \in Int /\ (last + 1) * SECTOR = L + SECTOR /\ L + t = off + n - 1
    BY <1>1, <1>3, Times
  <2> HIDE DEF L
  <2>2. CASE t = SECTOR - 1
    <3>1. off + n = (last + 1) * SECTOR + 0 /\ 0 \in 0 .. SECTOR - 1 /\ last + 1 \in Int
      BY <1>1, <1>3, <2>1, <2>2
    <3>. QED  BY <1>1, <2>2, <3>1, Parted
  <2>3. CASE t # SECTOR - 1
    <3>1. off + n = L + (t + 1) /\ t + 1 \in 0 .. SECTOR - 1 /\ last \in Int
      BY <1>1, <1>3, <2>1, <2>3
    <3>2. off + n = last * SECTOR + (t + 1)
      BY <3>1 DEF L
    <3>. QED  BY <1>1, <2>3, <3>1, <3>2, Parted
  <2>. QED  BY <2>2, <2>3
<1>. QED  BY <1>2, <1>3, <1>4, <1>5 DEF RangeAt, first, skip, last

\* read_ata_bytes gives a range of the disk as it stands there.
LEMMA RangeIs ==
    ASSUME NEW disk, Len(disk) \in Nat, NEW off \in Nat, NEW n \in Nat \ {0}, off + n <= Len(disk)
    PROVE  /\ IsSeq(read_ata_bytes(disk, off, n).bytes)
           /\ Len(read_ata_bytes(disk, off, n).bytes) = n
           /\ \A i \in 1 .. n : read_ata_bytes(disk, off, n).bytes[i] = disk[off + i]
<1> DEFINE max == ata_max_offset(disk)
           m == IF off + n > max THEN max - n ELSE n
           first == off \div SECTOR
           last == (off + n - 1) \div SECTOR
           skip == off % SECTOR
           partial == skip # 0 \/ m < SECTOR
           head == IF partial THEN IF SECTOR - skip > m THEN m ELSE SECTOR - skip ELSE 0
           from == IF partial THEN first + 1 ELSE first
           tail == IF (off + m) % SECTOR # 0 /\ from <= last THEN (off + m) % SECTOR ELSE 0
           whole == from .. (IF tail > 0 THEN last - 1 ELSE last)
           prefix == {<<i, ata_read(disk, first)[skip + i]>> : i \in 0 .. head - 1}
           postfix == {<<m - tail + i, ata_read(disk, last)[i]>> : i \in 0 .. tail - 1}
           row(b) == {<<head + (b - from) * SECTOR + i, ata_read(disk, b)[i]>> : i \in 0 .. SECTOR - 1}
           blocks == {c \in whole : c * SECTOR < max}
           middle == UNION {row(b) : b \in blocks}
           g == [i \in 0 .. n - 1 |-> disk[off + i + 1]]
           w == Written(disk, off, n)
<1>1. SECTOR \in Nat \ {0} /\ max = Len(disk) /\ m = n /\ ~(m < 0 \/ off + n = 0)
  BY Fat32Assumption DEF ata_max_offset
<1>2. w = prefix \union postfix \union middle
  <2>1. w = IF m < 0 \/ off + n = 0 THEN {<<OUTSIDE, STRAY>>} ELSE prefix \union postfix \union middle
    BY DEF Written
  <2> HIDE DEF w, prefix, postfix, middle, m
  <2>. QED  BY <1>1, <2>1
<1>3. PICK t : RangeAt(off, n, first, skip, last, t)
  BY RangeParts
<1> HIDE DEF max, m, first, last, skip
<1>4. /\ first \in Nat /\ skip \in 0 .. SECTOR - 1 /\ first * SECTOR + skip = off
      /\ last \in Nat /\ t \in 0 .. SECTOR - 1 /\ last * SECTOR + t = off + n - 1
      /\ first <= last
      /\ (off + m) % SECTOR = IF t = SECTOR - 1 THEN 0 ELSE t + 1
  BY <1>1, <1>3 DEF RangeAt
<1> DEFINE F == first * SECTOR
           L == last * SECTOR
           E == from * SECTOR
<1>5. /\ F \in Int /\ L \in Int /\ F + skip = off /\ L + t = off + n - 1
      /\ (first + 1) * SECTOR = F + SECTOR /\ (first = last => F = L) /\ (first < last => F + SECTOR <= L)
  BY <1>1, <1>4, Times
<1>6. /\ from \in Nat /\ head \in 0 .. n /\ skip + head <= SECTOR
      /\ from <= last => off + head = E
      /\ from > last => head = n
      /\ first <= from
  <2>1. CASE partial
    <3>1. from = first + 1 /\ head = IF SECTOR - skip > n THEN n ELSE SECTOR - skip
      BY <1>1, <2>1
    <3>2. E = F + SECTOR
      BY <1>5, <3>1
    <3> HIDE DEF partial, head, from, F, L, E
    <3>. QED  BY <1>1, <1>4, <1>5, <3>1, <3>2
  <2>2. CASE ~partial
    <3>1. from = first /\ head = 0 /\ skip = 0
      BY <2>2
    <3>2. E = F
      BY <3>1
    <3> HIDE DEF partial, head, from, F, L, E
    <3>. QED  BY <1>1, <1>4, <1>5, <3>1, <3>2
  <2>. QED  BY <2>1, <2>2
<1>7. tail = IF from <= last /\ t # SECTOR - 1 THEN t + 1 ELSE 0
  <2> HIDE DEF partial, head, from
  <2>. QED  BY <1>4
<1> HIDE DEF partial, head, from, tail, F, L
<1>8. /\ E \in Int
      /\ from <= last => E <= L
      /\ \A b \in Int : /\ b * SECTOR \in Int /\ (b - from) * SECTOR = b * SECTOR - E
                        /\ (b <= last => b * SECTOR <= L) /\ (b < last => b * SECTOR + SECTOR <= L)
                        /\ (b < from => b * SECTOR + SECTOR <= E) /\ (b >= from => E <= b * SECTOR)
                        /\ (b > last => L + SECTOR <= b * SECTOR)
                        /\ (b < first => b * SECTOR + SECTOR <= F)
  BY <1>1, <1>4, <1>6, Times DEF L, F
<1> HIDE DEF E
<1>0. E \in Int
  BY <1>8
<1>9. g = [i \in 0 .. n - 1 |-> g[i]] /\ \A i \in 0 .. n - 1 : g[i] = disk[off + i + 1]
  OBVIOUS
<1> HIDE DEF g
<1>10. ASSUME NEW u \in prefix PROVE \E i \in 0 .. n - 1 : u = <<i, g[i]>>
  <2>1. PICK i \in 0 .. head - 1 : u = <<i, ata_read(disk, first)[skip + i]>>
    OBVIOUS
  <2>2. skip + i \in 0 .. SECTOR - 1 /\ i \in 0 .. n - 1 /\ off + i \in Int /\ off + i < Len(disk)
    BY <1>1, <1>4, <1>6
  <2>3. first * SECTOR + (skip + i) = off + i
    <3>1. F + (skip + i) = off + i
      BY <1>1, <1>4, <1>5, <1>6
    <3>. QED  BY <3>1 DEF F
  <2>4. ata_read(disk, first)[skip + i] = disk[off + i + 1]
    <3> DEFINE r == skip + i
               p == off + i
    <3>1. r \in 0 .. SECTOR - 1 /\ p \in Int /\ first * SECTOR + r = p /\ p < Len(disk) /\ first \in Int
      BY <1>4, <2>2, <2>3
    <3> HIDE DEF r, p
    <3>2. ata_read(disk, first)[r] = disk[p + 1]
      BY <3>1, ReadUnit
    <3>. QED  BY <3>2 DEF r, p
  <2>. QED  BY <1>9, <2>1, <2>2, <2>4
<1>11. ASSUME NEW u \in postfix PROVE \E i \in 0 .. n - 1 : u = <<i, g[i]>>
  <2>1. PICK i \in 0 .. tail - 1 : u = <<m - tail + i, ata_read(disk, last)[i]>>
    OBVIOUS
  <2> DEFINE p == n - tail + i
  <2>2. from <= last /\ t # SECTOR - 1 /\ tail = t + 1
    BY <1>7, <2>1
  <2>3. i \in 0 .. SECTOR - 1 /\ p \in 0 .. n - 1 /\ off + p \in Int /\ off + p < Len(disk) /\ L + i = off + p
    BY <1>1, <1>4, <1>5, <1>6, <1>8, <2>1, <2>2
  <2>4. last * SECTOR + i = off + p
    BY <2>3 DEF L
  <2>5. ata_read(disk, last)[i] = disk[off + p + 1]
    <3> DEFINE q == off + p
    <3>1. i \in 0 .. SECTOR - 1 /\ q \in Int /\ last * SECTOR + i = q /\ q < Len(disk) /\ last \in Int
      BY <1>4, <2>3, <2>4
    <3> HIDE DEF q
    <3>2. ata_read(disk, last)[i] = disk[q + 1]
      BY <3>1, ReadUnit
    <3>. QED  BY <3>2 DEF q
  <2>6. u = <<p, ata_read(disk, last)[i]>>
    BY <1>1, <2>1
  <2> HIDE DEF p
  <2>. QED  BY <1>9, <2>3, <2>5, <2>6
<1>12. ASSUME NEW u \in middle PROVE \E i \in 0 .. n - 1 : u = <<i, g[i]>>
  <2>1. PICK b \in whole : u \in row(b)
    BY <1>12
  <2>2. PICK i \in 0 .. SECTOR - 1 : u = <<head + (b - from) * SECTOR + i, ata_read(disk, b)[i]>>
    BY <2>1
  <2> DEFINE B == b * SECTOR
             p == head + (b - from) * SECTOR + i
  <2>3. /\ b \in Int /\ from <= b /\ b <= last /\ (tail > 0 => b < last)
    <3>1. last \in Int /\ from \in Int /\ b \in from .. (IF tail > 0 THEN last - 1 ELSE last)
      BY <1>4, <1>6, <2>1
    <3> HIDE DEF whole
    <3>. QED  BY <3>1
  <2>4. /\ B \in Int /\ p = head + (B - E) + i /\ E <= B /\ B <= L /\ (b < last => B + SECTOR <= L)
        /\ off + head = E
    <3>1. /\ b * SECTOR \in Int /\ (b - from) * SECTOR = b * SECTOR - E
          /\ E <= b * SECTOR /\ b * SECTOR <= L /\ (b < last => b * SECTOR + SECTOR <= L)
      BY <1>8, <2>3
    <3>2. from <= last
      BY <1>4, <1>6, <2>3
    <3>. QED  BY <1>6, <3>1, <3>2
  <2>5. tail = 0 => t = SECTOR - 1
    <3>1. from <= last
      BY <1>4, <1>6, <2>3
    <3>. QED  BY <1>4, <1>7, <3>1
  <2> HIDE DEF B, p
  <2>6. tail >= 0
    BY <1>4, <1>7
  <2>7. B + i <= off + n - 1
    <3>1. CASE tail > 0
      BY <1>1, <1>4, <1>5, <2>2, <2>3, <2>4, <3>1
    <3>2. CASE tail = 0
      BY <1>1, <1>4, <1>5, <2>2, <2>3, <2>4, <2>5, <3>2
    <3>3. tail \in Int
      BY <1>4, <1>7
    <3>. QED  BY <2>6, <3>1, <3>2, <3>3
  <2>8. p \in 0 .. n - 1 /\ off + p \in Int /\ off + p < Len(disk) /\ B + i = off + p
    <3>1. head \in 0 .. n /\ i \in 0 .. SECTOR - 1 /\ SECTOR \in Nat
      BY <1>1, <1>6, <2>2
    <3>2. p = head + (B - E) + i /\ off + head = E /\ E <= B /\ B \in Int /\ E \in Int
      BY <1>0, <2>4
    <3> HIDE DEF E
    <3>3. B + i = off + p
      <4> DEFINE x == head
                 y == off
      <4>1. p = x + (B - E) + i /\ y + x = E /\ x \in Int /\ y \in Int /\ i \in Int /\ B \in Int /\ E \in Int
        BY <3>1, <3>2
      <4> HIDE DEF x, y, B
      <4>2. B + i = y + p
        BY <4>1
      <4>. QED  BY <4>2 DEF y
    <3>4. p \in Int /\ p >= 0 /\ off + p \in Int
      BY <3>1, <3>2
    <3>. QED  BY <1>1, <2>7, <3>3, <3>4
  <2>9. ata_read(disk, b)[i] = disk[off + p + 1]
    <3>1. b * SECTOR + i = off + p
      BY <2>8 DEF B
    <3>. QED  BY <2>2, <2>3, <2>8, <3>1, ReadUnit
  <2>10. u = <<p, ata_read(disk, b)[i]>>
    BY <2>2 DEF p
  <2>. QED  BY <1>9, <2>8, <2>9, <2>10
<1>13. ASSUME NEW i \in 0 .. n - 1 PROVE <<i, g[i]>> \in w
  <2>1. CASE i < head
    <3>1. skip + i \in 0 .. SECTOR - 1 /\ i \in 0 .. head - 1 /\ off + i \in Int /\ off + i < Len(disk)
      BY <1>1, <1>4, <1>6, <2>1
    <3>2. first * SECTOR + (skip + i) = off + i
      <4>1. F + (skip + i) = off + i
        BY <1>1, <1>4, <1>5, <1>6
      <4>. QED  BY <4>1 DEF F
    <3>3. ata_read(disk, first)[skip + i] = g[i]
      <4> DEFINE q == skip + i
                 p == off + i
      <4>1. q \in 0 .. SECTOR - 1 /\ p \in Int /\ p < Len(disk) /\ first * SECTOR + q = p /\ first \in Int
        BY <1>4, <3>1, <3>2
      <4> HIDE DEF q, p
      <4>2. ata_read(disk, first)[q] = disk[p + 1]
        BY <4>1, ReadUnit
      <4>. QED  BY <1>9, <4>2 DEF q, p
    <3>4. <<i, g[i]>> \in prefix
      BY <3>1, <3>3
    <3> HIDE DEF w, prefix, postfix, middle
    <3>. QED  BY <1>2, <3>4
  <2>2. CASE i >= head
    <3> DEFINE b == (off + i) \div SECTOR
               r == (off + i) % SECTOR
               B == b * SECTOR
    <3>1. b \in Nat /\ r \in 0 .. SECTOR - 1 /\ B + r = off + i
      <4>1. off + i \in Nat
        OBVIOUS
      <4>. QED  BY <1>1, <4>1, Euclid
    <3> HIDE DEF b, r
    <3>2. B \in Int /\ from <= last /\ off + head = E
      BY <1>1, <1>4, <1>6, <2>2, <3>1
    <3>3. b >= from
      <4>1. b < from => B + SECTOR <= E
        BY <1>8, <3>1
      <4> HIDE DEF B
      <4>. QED  BY <1>1, <1>6, <1>8, <2>2, <3>1, <3>2, <4>1
    <3>4. b <= last
      <4>1. b > last => L + SECTOR <= B
        BY <1>8, <3>1
      <4> HIDE DEF B
      <4>. QED  BY <1>1, <1>4, <1>5, <2>2, <3>1, <3>2, <4>1
    <3>5. CASE tail > 0 /\ b = last
      <4>1. tail = t + 1 /\ B = L
        BY <1>7, <3>5 DEF L
      <4> HIDE DEF B
      <4>2. r \in 0 .. tail - 1 /\ n - tail + r = i
        BY <1>1, <1>4, <1>5, <3>1, <3>2, <4>1
      <4>3. ata_read(disk, last)[r] = g[i]
        <5>1. last * SECTOR + r = off + i /\ off + i < Len(disk) /\ off + i \in Int
          BY <3>1, <3>5 DEF B
        <5> DEFINE q == off + i
        <5>2. r \in 0 .. SECTOR - 1 /\ q \in Int /\ last * SECTOR + r = q /\ q < Len(disk) /\ last \in Int
          BY <1>4, <3>1, <5>1
        <5> HIDE DEF q
        <5>3. ata_read(disk, last)[r] = disk[q + 1]
          BY <5>2, ReadUnit
        <5>. QED  BY <1>9, <5>3 DEF q
      <4>4. <<i, g[i]>> \in postfix
        <5>1. i = m - tail + r
          BY <1>1, <4>2
        <5>. QED  BY <4>2, <4>3, <5>1
      <4> HIDE DEF w, prefix, postfix, middle
      <4>. QED  BY <1>2, <4>4
    <3>6. CASE ~(tail > 0 /\ b = last)
      <4>1. tail \in Int /\ b \in whole
        <5>1. tail \in Int
          BY <1>4, <1>7
        <5>. QED  BY <1>4, <1>6, <3>1, <3>3, <3>4, <3>6, <5>1
      <4>2. b * SECTOR < max
        <5>1. B < Len(disk)
          <6> HIDE DEF B
          <6>. QED  BY <1>1, <3>1, <3>2
        <5>. QED  BY <1>1, <5>1
      <4>3. head + (b - from) * SECTOR + r = i
        <5>1. (b - from) * SECTOR = B - E
          BY <1>8, <3>1
        <5> HIDE DEF B
        <5>2. B \in Int /\ head \in Int
          BY <1>6, <3>2
        <5>3. head + (B - E) + r = i
          BY <1>0, <3>1, <3>2, <5>2
        <5>. QED  BY <5>1, <5>3
      <4>4. ata_read(disk, b)[r] = g[i]
        <5>1. b * SECTOR + r = off + i /\ off + i < Len(disk) /\ off + i \in Int
          BY <3>1
        <5>. QED  BY <1>9, <3>1, <5>1, ReadUnit
      <4>5. <<i, g[i]>> \in row(b)
        BY <3>1, <4>3, <4>4
      <4>6. b \in blocks
        BY <4>1, <4>2
      <4>7. <<i, g[i]>> \in middle
        <5> HIDE DEF row, blocks
        <5>. QED  BY <4>5, <4>6
      <4> HIDE DEF w, prefix, postfix, middle
      <4>. QED  BY <1>2, <4>7
    <3>. QED  BY <3>5, <3>6
  <2>3. head \in Int
    BY <1>6
  <2>. QED  BY <2>1, <2>2, <2>3
<1>14. \A u \in w : \E i \in 0 .. n - 1 : u = <<i, g[i]>>
  <2> HIDE DEF w, prefix, postfix, middle
  <2>. QED  BY <1>2, <1>10, <1>11, <1>12
<1>15. read_ata_bytes(disk, off, n).bytes = Filled(w, n, n).bytes
  BY <1>1 DEF read_ata_bytes, max
<1>16. /\ IsSeq(Filled(w, n, n).bytes) /\ Len(Filled(w, n, n).bytes) = n
       /\ \A i \in 1 .. n : Filled(w, n, n).bytes[i] = g[i - 1]
  <2>1. n \in Nat
    OBVIOUS
  <2> HIDE DEF w
  <2>. QED  BY <1>13, <1>14, <2>1, FilledIs
<1>17. \A i \in 1 .. n : g[i - 1] = disk[off + i]
  BY <1>9
<1> HIDE DEF w
<1>. QED  BY <1>15, <1>16, <1>17

\* One unit, and whole sectors.
LEMMA UnitIs ==
    ASSUME NEW disk, Len(disk) \in Nat, NEW off \in Nat, off + 1 <= Len(disk)
    PROVE  Unit(disk, off) = disk[off + 1]
<1> DEFINE bytes == read_ata_bytes(disk, off, 1).bytes
<1>1. IsSeq(bytes) /\ Len(bytes) = 1 /\ bytes[1] = disk[off + 1]
  <2> HIDE DEF bytes
  <2>1. PICK n \in Nat \ {0} : n = 1 /\ off + n <= Len(disk)
    OBVIOUS
  <2>2. /\ IsSeq(read_ata_bytes(disk, off, n).bytes) /\ Len(read_ata_bytes(disk, off, n).bytes) = n
        /\ \A i \in 1 .. n : read_ata_bytes(disk, off, n).bytes[i] = disk[off + i]
    <3>1. off + n <= Len(disk)
      BY <2>1
    <3>. QED  BY <3>1, RangeIs, ZenonT(60)
  <2>3. bytes = read_ata_bytes(disk, off, n).bytes
    BY <2>1 DEF bytes
  <2>4. disk[off + n] = disk[off + 1] /\ n \in 1 .. n
    BY <2>1
  <2>. QED  BY <2>1, <2>2, <2>3, <2>4
<1> HIDE DEF bytes
<1>2. bytes # <<>> /\ Head(bytes) = bytes[1]
  <2>1. PICK T : bytes \in Seq(T)
    BY <1>1 DEF IsSeq
  <2>2. bytes # <<>>
    BY <1>1, EmptyIs
  <2>. QED  BY <2>1, <2>2, HeadTailProperties
<1>. QED  BY <1>1, <1>2 DEF Unit, FirstOf, bytes

LEMMA SectorsAre ==
    ASSUME NEW disk, Len(disk) \in Nat, NEW a \in Nat, NEW k \in Nat \ {0}, (a + k) * SECTOR <= Len(disk)
    PROVE  /\ IsSeq(read_ata_bytes(disk, a * SECTOR, k * SECTOR).bytes)
           /\ Len(read_ata_bytes(disk, a * SECTOR, k * SECTOR).bytes) = k * SECTOR
           /\ \A i \in 1 .. k * SECTOR :
                read_ata_bytes(disk, a * SECTOR, k * SECTOR).bytes[i] = disk[a * SECTOR + i]
<1> DEFINE off == a * SECTOR
           n == k * SECTOR
<1>1. off \in Nat /\ n \in Nat \ {0} /\ off + n <= Len(disk)
  <2>1. SECTOR \in Nat \ {0}
    BY Fat32Assumption
  <2>2. off \in Nat /\ n \in Nat /\ n >= SECTOR
    BY <2>1
  <2>3. off + n = (a + k) * SECTOR
    BY <2>1
  <2>. QED  BY <2>1, <2>2, <2>3
<1> HIDE DEF off, n
<1>2. /\ IsSeq(read_ata_bytes(disk, off, n).bytes) /\ Len(read_ata_bytes(disk, off, n).bytes) = n
      /\ \A i \in 1 .. n : read_ata_bytes(disk, off, n).bytes[i] = disk[off + i]
  BY <1>1, RangeIs
<1>. QED  BY <1>2 DEF off, n

\* fat32_read_cluster_raw gives the units of the cluster.
LEMMA ClusterIs ==
    ASSUME NEW disk, Len(disk) \in Nat, NEW v, v.first_usable_sector \in Nat, v.sectors \in Nat \ {0},
           NEW c \in Nat \ {0, 1}, PlaceOf(v, c, cluster_size(v) - 1) <= Len(disk)
    PROVE  /\ IsSeq(fat32_read_cluster_raw(disk, v, c))
           /\ Len(fat32_read_cluster_raw(disk, v, c)) = cluster_size(v)
           /\ \A i \in 0 .. cluster_size(v) - 1 :
                fat32_read_cluster_raw(disk, v, c)[i + 1] = disk[PlaceOf(v, c, i)]
<1> DEFINE a == fat32_cluster_to_lba(v, c)
           k == v.sectors
           size == k * SECTOR
           bytes == read_ata_bytes(disk, a * SECTOR, size).bytes
           raw == fat32_read_cluster_raw(disk, v, c)
<1>1. SECTOR \in Nat \ {0}
  BY Fat32Assumption
<1>2. a \in Nat /\ a * SECTOR \in Nat /\ size \in Nat
  <2>1. (c - 2) * v.sectors \in Nat
    OBVIOUS
  <2>2. a \in Nat
    BY <2>1 DEF fat32_cluster_to_lba
  <2> HIDE DEF a
  <2>. QED  BY <1>1, <2>2
<1>3. cluster_size(v) = size
  BY DEF cluster_size
<1>4. \A i \in Int : PlaceOf(v, c, i) = a * SECTOR + i + 1
  BY DEF PlaceOf, fat32_cluster_to_lba
<1>5. (a + k) * SECTOR <= Len(disk)
  <2>1. (a + k) * SECTOR = a * SECTOR + size
    <3> HIDE DEF a
    <3>. QED  BY <1>1, <1>2
  <2>2. PlaceOf(v, c, size - 1) = a * SECTOR + (size - 1) + 1
    <3>1. size - 1 \in Int
      <4> HIDE DEF size
      <4>. QED  BY <1>2
    <3> HIDE DEF size, a
    <3>. QED  BY <1>4, <3>1
  <2>3. PlaceOf(v, c, size - 1) <= Len(disk)
    BY <1>3
  <2> HIDE DEF a, size
  <2>. QED  BY <1>2, <2>1, <2>2, <2>3
<1>6. /\ IsSeq(bytes) /\ Len(bytes) = size
      /\ \A i \in 1 .. size : bytes[i] = disk[a * SECTOR + i]
  <2>1. k \in Nat \ {0}
    OBVIOUS
  <2> HIDE DEF a, k
  <2>2. /\ IsSeq(read_ata_bytes(disk, a * SECTOR, k * SECTOR).bytes)
        /\ Len(read_ata_bytes(disk, a * SECTOR, k * SECTOR).bytes) = k * SECTOR
        /\ \A i \in 1 .. k * SECTOR :
             read_ata_bytes(disk, a * SECTOR, k * SECTOR).bytes[i] = disk[a * SECTOR + i]
    BY <1>2, <1>5, <2>1, SectorsAre
  <2>. QED  BY <2>2
<1>7. raw = UpTo(bytes, size)
  BY <1>3 DEF fat32_read_cluster_raw
<1> HIDE DEF raw, bytes, size, a, k
<1>8. DOMAIN bytes = 1 .. size
  BY <1>6, SeqBasics
<1>9. raw = [i \in 1 .. size |-> bytes[i]]
  BY <1>7, <1>8 DEF UpTo
<1>10. IsSeq(raw) /\ Len(raw) = size
  <2>1. raw = [i \in 1 .. size |-> raw[i]]
    BY <1>9
  <2>. QED  BY <1>2, <2>1, MapAny
<1>11. ASSUME NEW i \in 0 .. size - 1 PROVE raw[i + 1] = disk[PlaceOf(v, c, i)]
  <2>1. i + 1 \in 1 .. size /\ i \in Int
    BY <1>2
  <2>2. raw[i + 1] = bytes[i + 1]
    BY <1>9, <2>1
  <2>3. a * SECTOR + (i + 1) = PlaceOf(v, c, i)
    BY <1>2, <1>4, <2>1
  <2>. QED  BY <1>6, <2>1, <2>2, <2>3
<1>. QED  BY <1>3, <1>10, <1>11 DEF raw

\* The links of a directory, step by step.
LEMMA LinkedSteps ==
    ASSUME NEW disk, Len(disk) \in Nat, NEW v, NEW dir
    PROVE  /\ Linked(disk, v, dir)[0] = dir
           /\ \A k \in 1 .. Len(disk) :
                Linked(disk, v, dir)[k] = Link(disk, v, Linked(disk, v, dir)[k - 1])
<1> DEFINE N == Len(disk)
           Is(f, n) == f = [k \in 0 .. n |-> IF k = 0 THEN dir ELSE Link(disk, v, f[k - 1])]
           To == CHOOSE f : Is(f, N)
<1>1. Linked(disk, v, dir) = To
  BY DEF Linked
<1> HIDE DEF N, To
<1>2. Is(To, N)
  <2> DEFINE S == {n \in Nat : \E f : Is(f, n)}
  <2>1. 0 \in S
    <3>1. Is([k \in 0 .. 0 |-> dir], 0)
      OBVIOUS
    <3> HIDE DEF Is
    <3>. QED  BY <3>1
  <2>2. ASSUME NEW n \in S PROVE n + 1 \in S
    <3>1. PICK f : Is(f, n)
      OBVIOUS
    <3> DEFINE g == [k \in 0 .. n + 1 |-> IF k <= n THEN f[k] ELSE Link(disk, v, f[n])]
    <3>2. ASSUME NEW k \in 0 .. n + 1
          PROVE  g[k] = IF k = 0 THEN dir ELSE Link(disk, v, g[k - 1])
      BY <3>1
    <3>3. Is(g, n + 1)
      BY <3>2
    <3> HIDE DEF g, Is
    <3>. QED  BY <3>3
  <2>3. N \in S
    <3> HIDE DEF S
    <3>1. S \in SUBSET Nat
      BY DEF S
    <3>2. N \in Nat
      BY DEF N
    <3>. QED  BY <2>1, <2>2, <3>1, <3>2, AllNaturals
  <2> HIDE DEF Is
  <2>. QED  BY <2>3 DEF To
<1>3. To[0] = dir /\ \A k \in 1 .. N : To[k] = Link(disk, v, To[k - 1])
  <2> DEFINE g == [k \in 0 .. N |-> IF k = 0 THEN dir ELSE Link(disk, v, To[k - 1])]
  <2>1. N \in Nat
    BY DEF N
  <2>2. g[0] = dir /\ \A k \in 1 .. N : g[k] = Link(disk, v, To[k - 1])
    BY <2>1
  <2>3. To = g
    BY <1>2
  <2> HIDE DEF g
  <2>. QED  BY <2>2, <2>3
<1>. QED  BY <1>1, <1>3 DEF N

\* The walk of a chain: it goes on until it stops.
WalkOn(disk, v, seen) ==
    IF Stops(seen[Len(seen)]) THEN seen ELSE Append(seen, NextCluster(disk, v, seen[Len(seen)]))

IsWalk(disk, v, start, walk) ==
    /\ walk[0] = <<start>>
    /\ \A k \in 1 .. Len(disk) : walk[k] = WalkOn(disk, v, walk[k - 1])

LEMMA ChainSteps ==
    ASSUME NEW disk, Len(disk) \in Nat, NEW v, NEW start
    PROVE  \E walk : /\ fat32_create_fat_cluster_chain(disk, v, start) = Ended(walk[Len(disk)])
                     /\ IsWalk(disk, v, start, walk)
<1> DEFINE N == Len(disk)
           Is(f, n) == f = [k \in 0 .. n |-> IF k = 0 THEN <<start>> ELSE WalkOn(disk, v, f[k - 1])]
           W == CHOOSE f : Is(f, N)
<1>1. fat32_create_fat_cluster_chain(disk, v, start) = Ended(W[N])
  BY DEF fat32_create_fat_cluster_chain, WalkOn
<1> HIDE DEF N, W
<1>2. Is(W, N)
  <2> DEFINE S == {n \in Nat : \E f : Is(f, n)}
  <2>1. 0 \in S
    <3>1. Is([k \in 0 .. 0 |-> <<start>>], 0)
      OBVIOUS
    <3> HIDE DEF Is
    <3>. QED  BY <3>1
  <2>2. ASSUME NEW n \in S PROVE n + 1 \in S
    <3>1. PICK f : Is(f, n)
      OBVIOUS
    <3> DEFINE g == [k \in 0 .. n + 1 |-> IF k <= n THEN f[k] ELSE WalkOn(disk, v, f[n])]
    <3>2. ASSUME NEW k \in 0 .. n + 1
          PROVE  g[k] = IF k = 0 THEN <<start>> ELSE WalkOn(disk, v, g[k - 1])
      <4> DEFINE h == [j \in 0 .. n |-> IF j = 0 THEN <<start>> ELSE WalkOn(disk, v, f[j - 1])]
      <4>1. k \in 0 .. n => h[k] = IF k = 0 THEN <<start>> ELSE WalkOn(disk, v, f[k - 1])
        OBVIOUS
      <4>2. f = h
        BY <3>1
      <4> HIDE DEF h
      <4>3. CASE k = n + 1
        <5>1. g[k] = WalkOn(disk, v, f[n]) /\ g[k - 1] = f[n] /\ k # 0
          BY <4>3
        <5>. QED  BY <5>1
      <4>4. CASE k # n + 1
        <5>1. k \in 0 .. n /\ g[k] = f[k] /\ (k # 0 => g[k - 1] = f[k - 1])
          BY <4>4
        <5> HIDE DEF g
        <5>. QED  BY <4>1, <4>2, <5>1
      <4>. QED  BY <4>3, <4>4
    <3>3. Is(g, n + 1)
      BY <3>2
    <3> HIDE DEF g, Is
    <3>. QED  BY <3>3
  <2>3. N \in S
    <3> HIDE DEF S
    <3>1. S \in SUBSET Nat
      BY DEF S
    <3>2. N \in Nat
      BY DEF N
    <3>. QED  BY <2>1, <2>2, <3>1, <3>2, AllNaturals
  <2> HIDE DEF Is
  <2>. QED  BY <2>3 DEF W
<1>3. W[0] = <<start>> /\ \A k \in 1 .. N : W[k] = WalkOn(disk, v, W[k - 1])
  <2> DEFINE g == [k \in 0 .. N |-> IF k = 0 THEN <<start>> ELSE WalkOn(disk, v, W[k - 1])]
  <2>1. N \in Nat
    BY DEF N
  <2>2. g[0] = <<start>> /\ \A k \in 1 .. N : g[k] = WalkOn(disk, v, W[k - 1])
    BY <2>1
  <2>3. W = g
    BY <1>2
  <2> HIDE DEF g
  <2>. QED  BY <2>2, <2>3
<1>4. IsWalk(disk, v, start, W)
  BY <1>3 DEF N, IsWalk
<1>. QED  BY <1>1, <1>4 DEF N

\* The chain that the code walks is that of the links.
LEMMA ChainIs ==
    ASSUME NEW disk, NEW v, NEW dir, NEW n \in 1 .. Len(disk), Spans(disk, v, Linked(disk, v, dir), n)
    PROVE  /\ IsSeq(fat32_create_fat_cluster_chain(disk, v, dir))
           /\ Len(fat32_create_fat_cluster_chain(disk, v, dir)) = n
           /\ \A k \in 1 .. n :
                fat32_create_fat_cluster_chain(disk, v, dir)[k] = Linked(disk, v, dir)[k - 1]
<1> DEFINE to == Linked(disk, v, dir)
           N == Len(disk)
           Along(seen, k) == /\ IsSeq(seen) /\ Len(seen) = k + 1
                             /\ \A j \in 1 .. k + 1 : seen[j] = to[j - 1]
<1>1. /\ N \in Nat /\ n \in Nat /\ 1 <= n /\ n <= N /\ DOMAIN disk = 1 .. N
      /\ v.fat \in Nat /\ SECTOR \in Nat
  BY LenProperties, Fat32Assumption DEF Spans
<1>2. to[0] = dir /\ \A k \in 1 .. N : to[k] = Link(disk, v, to[k - 1])
  BY <1>1, LinkedSteps
<1>3. ASSUME NEW k \in 0 .. n - 1
      PROVE  ~Stops(to[k]) /\ NextCluster(disk, v, to[k]) = to[k + 1]
  <2>1. /\ to[k] \in Nat \ {0, 1} /\ WordOf(v, to[k]) < WORD /\ WordOf(v, to[k]) + 1 \in DOMAIN disk
    BY DEF Spans
  <2>2. ~Stops(to[k])
    BY <2>1 DEF Stops, BAD, EOC
  <2> DEFINE c == to[k]
             off == v.fat * SECTOR + c
  <2> HIDE DEF to
  <2>3. off \in Nat /\ off < WORD /\ off + 1 <= N /\ off + 1 \in DOMAIN disk
    <3>1. v.fat * SECTOR \in Nat
      BY <1>1
    <3>. QED  BY <1>1, <2>1, <3>1 DEF WordOf
  <2>4. WORD \in Nat \ {0}
    BY Fat32Assumption
  <2> HIDE DEF off
  <2>5. off % WORD = off
    <3>1. off = 0 * WORD + off /\ off \in 0 .. WORD - 1
      BY <2>3, <2>4
    <3>. QED  BY <2>3, <2>4, <3>1, Parted
  <2>6. Unit(disk, off) = disk[off + 1]
    BY <1>1, <2>3, UnitIs
  <2>7. NextCluster(disk, v, c) = LinkIn(disk[off + 1])
    BY <2>5, <2>6 DEF NextCluster, off
  <2>8. Link(disk, v, c) = LinkIn(disk[off + 1])
    BY <2>3 DEF Link, WordOf, off
  <2>9. to[k + 1] = Link(disk, v, to[k])
    <3>1. k + 1 \in 1 .. N /\ (k + 1) - 1 = k
      BY <1>1
    <3>. QED  BY <1>2, <3>1
  <2>. QED  BY <2>2, <2>7, <2>8, <2>9
<1>4. Stops(to[n])
  BY DEF Spans
<1>5. PICK walk : /\ fat32_create_fat_cluster_chain(disk, v, dir) = Ended(walk[N])
                  /\ walk[0] = <<dir>>
                  /\ \A k \in 1 .. N : walk[k] = WalkOn(disk, v, walk[k - 1])
  <2>1. Len(disk) \in Nat
    BY <1>1
  <2>2. PICK walk : /\ fat32_create_fat_cluster_chain(disk, v, dir) = Ended(walk[Len(disk)])
                    /\ IsWalk(disk, v, dir, walk)
    BY <2>1, ChainSteps
  <2>3. /\ fat32_create_fat_cluster_chain(disk, v, dir) = Ended(walk[N])
        /\ walk[0] = <<dir>>
        /\ \A k \in 1 .. N : walk[k] = WalkOn(disk, v, walk[k - 1])
    BY <2>2 DEF IsWalk
  <2> HIDE DEF N
  <2>. QED  BY <2>3, Zenon
<1> HIDE DEF to, N
<1>6. Along(walk[0], 0)
  <2>1. <<dir>> \in Seq({dir})
    OBVIOUS
  <2>2. IsSeq(<<dir>>) /\ Len(<<dir>>) = 1 /\ <<dir>>[1] = dir
    BY <2>1 DEF IsSeq
  <2>. QED  BY <1>2, <1>5, <2>2
<1>7. \A k \in 0 .. n : Along(walk[k], k)
  <2> DEFINE S == {k \in Nat : k <= n => Along(walk[k], k)}
  <2>1. 0 \in S
    BY <1>6
  <2>2. ASSUME NEW k \in S PROVE k + 1 \in S
    <3> SUFFICES ASSUME k + 1 <= n PROVE Along(walk[k + 1], k + 1)
      <4> HIDE DEF Along
      <4>. QED  OBVIOUS
    <3>1. k \in Nat /\ k \in 0 .. n - 1 /\ k + 1 \in 1 .. N /\ (k + 1) - 1 = k /\ Along(walk[k], k)
      BY <1>1
    <3>2. walk[k][Len(walk[k])] = to[k]
      <4>1. k + 1 \in 1 .. k + 1 /\ (k + 1) - 1 = k
        BY <3>1
      <4>. QED  BY <3>1, <4>1
    <3>3. walk[k + 1] = Append(walk[k], to[k + 1])
      BY <1>3, <1>5, <3>1, <3>2 DEF WalkOn
    <3>4. /\ IsSeq(walk[k + 1]) /\ Len(walk[k + 1]) = k + 2
          /\ \A j \in 1 .. k + 1 : walk[k + 1][j] = walk[k][j]
          /\ walk[k + 1][k + 2] = to[k + 1]
      <4>1. (k + 1) + 1 = k + 2
        BY <3>1
      <4>. QED  BY <3>1, <3>3, <4>1, AppendAny
    <3>5. \A j \in 1 .. (k + 1) + 1 : (j \in 1 .. k + 1) \/ (j = k + 2 /\ j - 1 = k + 1)
      BY <3>1
    <3>6. (k + 1) + 1 = k + 2
      BY <3>1
    <3>. QED  BY <3>1, <3>4, <3>5, <3>6
  <2>3. S = Nat
    <3>1. S \in SUBSET Nat
      OBVIOUS
    <3> HIDE DEF S
    <3>. QED  BY <2>1, <2>2, <3>1, AllNaturals
  <2> HIDE DEF Along
  <2>. QED  BY <1>1, <2>3
<1>8. ASSUME NEW k \in n .. N PROVE walk[k] = walk[n]
  <2> DEFINE S == {i \in Nat : n + i <= N => walk[n + i] = walk[n]}
  <2>1. 0 \in S
    BY <1>1
  <2>2. ASSUME NEW i \in S PROVE i + 1 \in S
    <3> SUFFICES ASSUME n + (i + 1) <= N PROVE walk[n + (i + 1)] = walk[n]
      OBVIOUS
    <3>1. i \in Nat /\ walk[n + i] = walk[n] /\ n + (i + 1) \in 1 .. N /\ n + (i + 1) - 1 = n + i
      BY <1>1
    <3>2. walk[n][Len(walk[n])] = to[n]
      <4>1. Along(walk[n], n) /\ n + 1 \in 1 .. n + 1 /\ (n + 1) - 1 = n
        BY <1>1, <1>7
      <4>. QED  BY <4>1
    <3>. QED  BY <1>4, <1>5, <3>1, <3>2 DEF WalkOn
  <2>3. S = Nat
    <3>1. S \in SUBSET Nat
      OBVIOUS
    <3> HIDE DEF S
    <3>. QED  BY <2>1, <2>2, <3>1, AllNaturals
  <2>4. k - n \in Nat /\ n + (k - n) = k /\ k <= N
    BY <1>1
  <2>5. k - n \in S
    BY <2>3, <2>4
  <2>. QED  BY <2>4, <2>5
<1>9. Ended(walk[N]) = Prefix(walk[n], n)
  <2>1. Along(walk[n], n) /\ n + 1 \in 1 .. n + 1 /\ (n + 1) - 1 = n
    BY <1>1, <1>7
  <2>2. walk[N] = walk[n]
    BY <1>1, <1>8
  <2>3. Stops(walk[n][Len(walk[n])])
    BY <1>4, <2>1
  <2>. QED  BY <2>1, <2>2, <2>3 DEF Ended, Prefix
<1>10. /\ IsSeq(Prefix(walk[n], n)) /\ Len(Prefix(walk[n], n)) = n
       /\ \A k \in 1 .. n : Prefix(walk[n], n)[k] = to[k - 1]
  <2>1. Along(walk[n], n) /\ n \in 0 .. n + 1
    BY <1>1, <1>7
  <2>2. \A k \in 1 .. n : k \in 1 .. n + 1
    BY <1>1
  <2>3. IsSeq(walk[n]) /\ n \in 0 .. Len(walk[n]) /\ \A k \in 1 .. n : walk[n][k] = to[k - 1]
    BY <2>1, <2>2
  <2> HIDE DEF Along
  <2>. QED  BY <2>3, PrefixIs
<1>. QED  BY <1>5, <1>9, <1>10 DEF to, N

\* fat32_read_file gives a range of a file as its clusters hold it.
LEMMA CopiedIs ==
    ASSUME NEW disk, NEW v, NEW start, NEW n \in 0 .. Len(disk), Spans(disk, v, Linked(disk, v, start), n),
           NEW offset \in Nat, NEW len \in Nat \ {0}, offset + len <= n * cluster_size(v),
           ~(offset % cluster_size(v) # 0 /\ (offset % cluster_size(v)) + len > cluster_size(v))
    PROVE  /\ IsSeq(fat32_read_file(disk, v, start, offset, len).bytes)
           /\ Len(fat32_read_file(disk, v, start, offset, len).bytes) = len
           /\ \A i \in 1 .. len : fat32_read_file(disk, v, start, offset, len).bytes[i] =
                                    UnitsOf(disk, v, Linked(disk, v, start), n)[offset + i - 1]
<1> DEFINE to == Linked(disk, v, start)
           chain == fat32_create_fat_cluster_chain(disk, v, start)
           size == cluster_size(v)
           rounds == (len + size - 1) \div size
           c0 == offset \div size
           r == offset % size
           take(i) ==
              LET c == offset \div size + i \div size + 1
              IN  IF c \in DOMAIN chain /\ Place(i, offset, size) < size
                  THEN fat32_read_cluster_raw(disk, v, chain[c])[Place(i, offset, size) + 1]
                  ELSE STRAY
           all == [i \in 1 .. rounds * size |-> take(i - 1)]
           unit == UnitsOf(disk, v, to, n)
<1>1. /\ Len(disk) \in Nat /\ n \in Nat /\ DOMAIN disk = 1 .. Len(disk)
      /\ v.first_usable_sector \in Nat /\ v.sectors \in Nat \ {0} /\ SECTOR \in Nat \ {0}
  BY LenProperties, Fat32Assumption DEF Spans
<1>2. size \in Nat \ {0}
  BY <1>1 DEF cluster_size
<1>3. /\ offset + len <= n * size /\ ~(r # 0 /\ r + len > size)
      /\ n * size \in Int
  BY <1>1, <1>2
<1>4. n \in 1 .. Len(disk)
  <2>1. CASE n = 0
    <3>1. n * size = 0
      BY <1>2, <2>1
    <3> HIDE DEF size
    <3>. QED  BY <1>3, <3>1
  <2>. QED  BY <1>1, <2>1
<1>5. /\ IsSeq(chain) /\ Len(chain) = n /\ DOMAIN chain = 1 .. n
      /\ \A k \in 1 .. n : chain[k] = to[k - 1]
  BY <1>4, ChainIs, SeqBasics
<1>6. ASSUME NEW k \in 0 .. n - 1
      PROVE  to[k] \in Nat \ {0, 1} /\ PlaceOf(v, to[k], size - 1) <= Len(disk)
  BY <1>1 DEF Spans
<1>7. chain # HANG
  <2>1. 0 \in 0 .. n - 1 /\ 1 \in 1 .. n
    BY <1>1, <1>4
  <2>2. to[0] \in Nat \ {0, 1} /\ chain[1] = to[0]
    BY <1>5, <1>6, <2>1
  <2>3. HANG[1] = 0
    BY DEF HANG
  <2>. QED  BY <2>2, <2>3
<1> HIDE DEF to, chain, size
<1>8. c0 \in Nat /\ r \in 0 .. size - 1 /\ c0 * size + r = offset /\ c0 * size \in Int
  <2>1. c0 \in Nat /\ r \in 0 .. size - 1 /\ c0 * size + r = offset
    BY <1>2, Euclid
  <2> HIDE DEF c0, r
  <2>. QED  BY <1>2, <2>1
<1>9. PICK t \in 0 .. size - 1 : rounds \in Nat /\ rounds * size + t = len + size - 1 /\ rounds * size \in Int
  <2> DEFINE a == len + size - 1
             t == a % size
  <2>1. a \in Nat /\ rounds = a \div size
    BY <1>2
  <2> HIDE DEF a, rounds
  <2>2. rounds \in Nat /\ t \in 0 .. size - 1 /\ rounds * size + t = a
    BY <1>2, <2>1, Euclid
  <2> HIDE DEF t
  <2>3. rounds * size \in Int
    BY <1>2, <2>2
  <2>. QED  BY <2>2, <2>3 DEF a
<1>10. ASSUME len > size PROVE r = 0
  BY <1>2, <1>3, <1>8, <1>10
<1> HIDE DEF c0, r, rounds
<1>11. len <= rounds * size
  BY <1>2, <1>9
<1>12. ~(rounds > 1 /\ c0 + rounds - 1 > n)
  <2> SUFFICES ASSUME rounds > 1, c0 + rounds - 1 > n PROVE FALSE
    OBVIOUS
  <2>1. 2 <= rounds /\ n + 1 <= c0 + rounds /\ 2 \in Int /\ n + 1 \in Int /\ c0 + rounds \in Int
    BY <1>1, <1>8, <1>9
  <2>2. 2 * size <= rounds * size /\ (n + 1) * size <= (c0 + rounds) * size
    <3>1. size \in Nat /\ 2 \in Int /\ rounds \in Int /\ n + 1 \in Int /\ c0 + rounds \in Int
      BY <1>2, <1>9, <2>1
    <3>. QED  BY <2>1, <3>1, Times
  <2>3. 2 * size = size + size /\ (n + 1) * size = n * size + size
        /\ (c0 + rounds) * size = c0 * size + rounds * size
    BY <1>1, <1>2, <1>8, <1>9
  <2>4. len > size
    BY <1>2, <1>9, <2>2, <2>3
  <2>5. r = 0
    BY <1>10, <2>4
  <2>. QED  BY <1>2, <1>3, <1>8, <1>9, <2>2, <2>3, <2>5
<1>13. fat32_read_file(disk, v, start, offset, len).bytes = Prefix(all, len)
  <2>1. Copied(disk, v, chain, offset, len) =
           CASE chain = HANG -> Fails("hang")
             [] chain # HANG /\ rounds > 1 /\ c0 + rounds - 1 > Len(chain) -> NoBytes
             [] OTHER -> Answer(SubSeq(all, 1, len))
    BY DEF Copied, size, rounds, c0
  <2> HIDE DEF all
  <2>2. Copied(disk, v, chain, offset, len) = Answer(SubSeq(all, 1, len))
    BY <1>5, <1>7, <1>12, <2>1
  <2>. QED  BY <2>2 DEF fat32_read_file, Answer, Prefix, chain
<1>14. IsSeq(all) /\ Len(all) = rounds * size
  <2>1. rounds * size \in Nat
    BY <1>2, <1>9
  <2>2. all = [i \in 1 .. rounds * size |-> all[i]]
    OBVIOUS
  <2> HIDE DEF all
  <2>. QED  BY <2>1, <2>2, MapAny
<1>15. ASSUME NEW j \in 0 .. len - 1 PROVE take(j) = unit[offset + j]
  <2> DEFINE q == j \div size
             p == Place(j, offset, size)
  <2>1. q \in Nat /\ j % size \in 0 .. size - 1 /\ q * size + (j % size) = j
    <3>1. j \in Nat
      OBVIOUS
    <3>. QED  BY <1>2, <3>1, Euclid
  <2>2. p = (j % size) + (IF j < size THEN r ELSE 0)
    BY DEF Place, r
  <2>3. j < size => q = 0 /\ j % size = j
    <3>1. j < size => j \in Nat /\ j = 0 * size + j /\ j \in 0 .. size - 1 /\ 0 \in Int
      BY <1>2
    <3>2. ASSUME NEW k \in Nat, k = 0 * size + k, k \in 0 .. size - 1, 0 \in Int
          PROVE  k \div size = 0 /\ k % size = k
      BY <1>2, <3>2, Parted
    <3>. QED  BY <3>1, <3>2
  <2> HIDE DEF q, p
  <2>4. q * size \in Int /\ (c0 + q) * size = c0 * size + q * size
    BY <1>2, <1>8, <2>1
  <2>5. p \in 0 .. size - 1 /\ (c0 + q) * size + p = offset + j
    <3>1. CASE j < size
      <4>1. q = 0 /\ p = j + r /\ q * size = 0
        BY <1>2, <2>2, <2>3, <3>1
      <4>2. j + r < size
        BY <1>2, <1>3, <1>8, <3>1
      <4>. QED  BY <1>2, <1>8, <2>4, <4>1, <4>2
    <3>2. CASE ~(j < size)
      <4>1. r = 0
        BY <1>2, <1>10, <3>2
      <4>2. p = j % size
        BY <1>2, <2>1, <2>2, <3>2
      <4> DEFINE a == j % size
      <4>3. a \in 0 .. size - 1 /\ q * size + a = j /\ p = a
        BY <2>1, <4>2
      <4> HIDE DEF a
      <4>. QED  BY <1>2, <1>8, <2>4, <4>1, <4>3
    <3>. QED  BY <3>1, <3>2
  <2>6. c0 + q <= n - 1
    <3> SUFFICES ASSUME n <= c0 + q PROVE FALSE
      BY <1>1, <1>8, <2>1
    <3>1. n * size <= (c0 + q) * size
      BY <1>1, <1>2, <1>8, <2>1, Times
    <3>2. (c0 + q) * size \in Int
      BY <1>2, <1>8, <2>1
    <3>. QED  BY <1>2, <1>3, <2>5, <3>1, <3>2
  <2>7. c0 + q \in 0 .. n - 1 /\ c0 + q + 1 \in 1 .. n /\ (c0 + q + 1) - 1 = c0 + q
    BY <1>1, <1>8, <2>1, <2>6
  <2> DEFINE c == to[c0 + q]
  <2>8. c \in Nat \ {0, 1} /\ PlaceOf(v, c, cluster_size(v) - 1) <= Len(disk) /\ chain[c0 + q + 1] = c
    BY <1>5, <1>6, <2>7 DEF size
  <2>9. take(j) = fat32_read_cluster_raw(disk, v, c)[p + 1]
    <3>1. take(j) = IF c0 + q + 1 \in DOMAIN chain /\ p < size
                    THEN fat32_read_cluster_raw(disk, v, chain[c0 + q + 1])[p + 1] ELSE STRAY
      BY DEF c0, q, p
    <3> HIDE DEF take, c
    <3>. QED  BY <1>2, <1>5, <2>5, <2>7, <2>8, <3>1
  <2>10. unit[offset + j] = disk[PlaceOf(v, c, p)]
    <3>1. (offset + j) \div size = c0 + q /\ (offset + j) % size = p
      <4> DEFINE a == offset + j
                 b == c0 + q
      <4>1. a \in Nat /\ b \in Int /\ a = b * size + p
        BY <1>8, <2>1, <2>5
      <4> HIDE DEF a, b
      <4>2. a \div size = b /\ a % size = p
        <5>1. size \in Nat \ {0} /\ p \in 0 .. size - 1
          BY <1>2, <2>5
        <5>. QED  BY <4>1, <5>1, Parted
      <4>. QED  BY <4>2 DEF a, b
    <3>2. offset + j \in 0 .. n * size - 1
      BY <1>3
    <3>. QED  BY <3>1, <3>2 DEF UnitsOf, size
  <2> HIDE DEF take, unit, c, all
  <2>11. fat32_read_cluster_raw(disk, v, c)[p + 1] = disk[PlaceOf(v, c, p)]
    <3>1. /\ IsSeq(fat32_read_cluster_raw(disk, v, c))
          /\ Len(fat32_read_cluster_raw(disk, v, c)) = cluster_size(v)
          /\ \A i \in 0 .. cluster_size(v) - 1 :
               fat32_read_cluster_raw(disk, v, c)[i + 1] = disk[PlaceOf(v, c, i)]
      <4>1. /\ Len(disk) \in Nat /\ v.first_usable_sector \in Nat /\ v.sectors \in Nat \ {0}
            /\ c \in Nat \ {0, 1} /\ PlaceOf(v, c, cluster_size(v) - 1) <= Len(disk)
        BY <1>1, <2>8
      <4>. QED  BY <4>1, ClusterIs
    <3>. QED  BY <2>5, <3>1 DEF size
  <2>. QED  BY <2>9, <2>10, <2>11
<1>16. ASSUME NEW i \in 1 .. len PROVE Prefix(all, len)[i] = unit[offset + i - 1]
  <2>1. len \in 0 .. Len(all) /\ i \in 1 .. rounds * size /\ i - 1 \in 0 .. len - 1
    BY <1>9, <1>11, <1>14
  <2>2. Prefix(all, len)[i] = all[i]
    <3> HIDE DEF all
    <3>. QED  BY <1>14, <2>1, PrefixIs
  <2>3. all[i] = take(i - 1)
    BY <2>1
  <2>4. offset + (i - 1) = offset + i - 1
    OBVIOUS
  <2> HIDE DEF all, take, unit
  <2>. QED  BY <1>15, <2>1, <2>2, <2>3, <2>4
<1>17. IsSeq(Prefix(all, len)) /\ Len(Prefix(all, len)) = len
  <2>1. len \in 0 .. Len(all)
    BY <1>9, <1>11, <1>14
  <2> HIDE DEF all
  <2>. QED  BY <1>14, <2>1, PrefixIs
<1> HIDE DEF all, unit
<1>. QED  BY <1>13, <1>16, <1>17 DEF unit, to

\* Of parts of one length, laid end to end, each stands at its place.
Blocks(s, n, size, flat) ==
    /\ IsSeq(flat) /\ Len(flat) = n * size
    /\ \A j \in 1 .. n : \A i \in 1 .. size : flat[(j - 1) * size + i] = s[j][i]

LEMMA SeqIn ==
    ASSUME NEW s, IsSeq(s), NEW T, \A i \in 1 .. Len(s) : s[i] \in T
    PROVE  s \in Seq(T)
<1>1. PICK U : s \in Seq(U)
  BY DEF IsSeq
<1>2. Len(s) \in Nat /\ s \in [1 .. Len(s) -> T]
  BY <1>1
<1>. QED  BY <1>2

LEMMA FlattenBlocks ==
    ASSUME NEW n \in Nat, NEW size \in Nat, NEW s, IsSeq(s), Len(s) = n,
           \A j \in 1 .. n : IsSeq(s[j]) /\ Len(s[j]) = size
    PROVE  Blocks(s, n, size, FlattenSeq(s))
<1> DEFINE T == UNION {{s[j][i] : i \in 1 .. size} : j \in 1 .. n}
           P(k) == k <= n => Blocks(s, k, size, FlattenSeq(Prefix(s, k)))
           S == {k \in Nat : P(k)}
<1>1. ASSUME NEW j \in 1 .. n PROVE s[j] \in Seq(T)
  <2>1. \A i \in 1 .. size : s[j][i] \in T
    OBVIOUS
  <2>2. IsSeq(s[j]) /\ Len(s[j]) = size
    OBVIOUS
  <2> HIDE DEF T
  <2>. QED  BY <2>1, <2>2, SeqIn
<1> HIDE DEF T
<1>2. P(0)
  <2>1. Prefix(s, 0) = <<>> /\ FlattenSeq(<<>>) = <<>>
    <3>1. IsSeq(Prefix(s, 0)) /\ Len(Prefix(s, 0)) = 0
      BY PrefixIs
    <3>2. Prefix(s, 0) = <<>>
      BY <3>1, EmptyIs, SameSeq
    <3>. QED  BY <3>2, EmptyIs DEF FlattenSeq
  <2>2. 0 * size = 0
    OBVIOUS
  <2>. QED  BY <2>1, <2>2, EmptyIs DEF Blocks
<1>3. ASSUME NEW k \in Nat, P(k) PROVE P(k + 1)
  <2> SUFFICES ASSUME k + 1 <= n PROVE Blocks(s, k + 1, size, FlattenSeq(Prefix(s, k + 1)))
    OBVIOUS
  <2> DEFINE p == Prefix(s, k)
             q == Prefix(s, k + 1)
             flat == FlattenSeq(p)
             more == FlattenSeq(q)
  <2>1. /\ IsSeq(p) /\ Len(p) = k /\ IsSeq(q) /\ Len(q) = k + 1
        /\ \A i \in 1 .. k : p[i] = s[i]
        /\ \A i \in 1 .. k + 1 : q[i] = s[i]
    <3>1. k \in 0 .. Len(s) /\ k + 1 \in 0 .. Len(s)
      OBVIOUS
    <3>. QED  BY <3>1, PrefixIs
  <2>2. Prefix(q, k) = p
    <3>1. k \in 0 .. Len(q)
      BY <2>1
    <3>2. /\ IsSeq(Prefix(q, k)) /\ Len(Prefix(q, k)) = k
          /\ \A i \in 1 .. k : Prefix(q, k)[i] = q[i]
      BY <2>1, <3>1, PrefixIs
    <3>3. \A i \in 1 .. k : q[i] = p[i]
      BY <2>1
    <3> HIDE DEF p, q
    <3>. QED  BY <2>1, <3>2, <3>3, SameSeq
  <2>3. Blocks(s, k, size, flat)
    BY <1>3
  <2> HIDE DEF p, q
  <2>4. /\ more = flat \o s[k + 1] /\ s[k + 1] \in Seq(T)
    <3>1. \A i \in 1 .. k + 1 : q[i] \in Seq(T) /\ q[k + 1] = s[k + 1]
      <4>1. \A i \in 1 .. k + 1 : i \in 1 .. n /\ k + 1 \in 1 .. k + 1
        OBVIOUS
      <4>. QED  BY <1>1, <2>1, <4>1
    <3>2. FlattenSeq(q) = FlattenSeq(Prefix(q, k)) \o q[k + 1]
      BY <2>1, <3>1, FlattenLast
    <3>3. k + 1 \in 1 .. k + 1
      OBVIOUS
    <3>. QED  BY <2>2, <3>1, <3>2, <3>3
  <2>5. PICK U : flat \in Seq(U)
    BY <2>3 DEF Blocks, IsSeq
  <2> DEFINE V == T \union U
  <2>6. flat \in Seq(V) /\ s[k + 1] \in Seq(V)
    BY <2>4, <2>5
  <2>7. Len(flat) = k * size /\ Len(s[k + 1]) = size
    <3>1. k + 1 \in 1 .. n
      OBVIOUS
    <3>. QED  BY <2>3, <3>1 DEF Blocks
  <2> HIDE DEF flat, more, V
  <2>8. k * size \in Nat /\ (k + 1) * size = k * size + size
    OBVIOUS
  <2>9. /\ more \in Seq(V) /\ Len(more) = k * size + size
        /\ \A i \in 1 .. k * size + size :
             more[i] = IF i <= k * size THEN flat[i] ELSE s[k + 1][i - k * size]
    BY <2>4, <2>6, <2>7, ConcatProperties
  <2>10. ASSUME NEW j \in 1 .. k + 1, NEW i \in 1 .. size
         PROVE  more[(j - 1) * size + i] = s[j][i]
    <3> DEFINE at == (j - 1) * size + i
    <3>1. CASE j = k + 1
      <4>1. (j - 1) * size = k * size
        BY <3>1
      <4>2. at \in 1 .. k * size + size /\ ~(at <= k * size) /\ at - k * size = i
        BY <2>8, <4>1
      <4> HIDE DEF at
      <4>. QED  BY <2>9, <3>1, <4>2 DEF at
    <3>2. CASE j # k + 1
      <4>1. j \in 1 .. k
        BY <3>2
      <4>2. (j - 1) * size \in Nat /\ (j - 1) * size + size = j * size /\ j * size <= k * size
        BY <4>1
      <4>3. at \in 1 .. k * size + size /\ at <= k * size
        BY <2>8, <4>2
      <4>4. flat[at] = s[j][i]
        BY <2>3, <4>1 DEF Blocks
      <4> HIDE DEF at
      <4>. QED  BY <2>9, <4>3, <4>4 DEF at
    <3>. QED  BY <3>1, <3>2
  <2>11. IsSeq(more)
    BY <2>9 DEF IsSeq
  <2>. QED  BY <2>8, <2>9, <2>10, <2>11 DEF Blocks, more, q
<1>4. S = Nat
  <2>1. S \in SUBSET Nat /\ 0 \in S /\ \A k \in S : k + 1 \in S
    <3> HIDE DEF P
    <3>. QED  BY <1>2, <1>3
  <2> HIDE DEF S
  <2>. QED  BY <2>1, AllNaturals
<1>5. P(n)
  <2> HIDE DEF P
  <2>. QED  BY <1>4
<1>6. Prefix(s, n) = s
  BY WholePrefix
<1>. QED  BY <1>5, <1>6

\* The search goes through the units of the directory, in their order.
LEMMA ListingIs ==
    ASSUME NEW disk, NEW v, NEW dir, NEW n \in 1 .. Len(disk), Spans(disk, v, Linked(disk, v, dir), n)
    PROVE  \E list : /\ \A name : fat32_finddir_raw(disk, v, dir, name) = Search(list, name)
                     /\ IsSeq(list) /\ Len(list) = n * cluster_size(v)
                     /\ \A k \in 0 .. n * cluster_size(v) - 1 :
                          list[k + 1] = UnitsOf(disk, v, Linked(disk, v, dir), n)[k]
<1> DEFINE to == Linked(disk, v, dir)
           chain == fat32_create_fat_cluster_chain(disk, v, dir)
           size == cluster_size(v)
           parts == [i \in DOMAIN chain |-> fat32_read_cluster_raw(disk, v, chain[i])]
           unit == UnitsOf(disk, v, to, n)
           list == FlattenSeq(parts)
<1>1. /\ Len(disk) \in Nat /\ n \in Nat /\ DOMAIN disk = 1 .. Len(disk)
      /\ v.first_usable_sector \in Nat /\ v.sectors \in Nat \ {0} /\ SECTOR \in Nat \ {0}
  BY LenProperties, Fat32Assumption DEF Spans
<1>2. size \in Nat \ {0}
  BY <1>1 DEF cluster_size
<1>3. /\ IsSeq(chain) /\ Len(chain) = n /\ DOMAIN chain = 1 .. n
      /\ \A k \in 1 .. n : chain[k] = to[k - 1]
  BY ChainIs, SeqBasics
<1>4. ASSUME NEW k \in 0 .. n - 1
      PROVE  to[k] \in Nat \ {0, 1} /\ PlaceOf(v, to[k], size - 1) <= Len(disk)
  BY <1>1 DEF Spans
<1> HIDE DEF to, chain, size
<1>5. ASSUME NEW j \in 1 .. n
      PROVE  /\ IsSeq(parts[j]) /\ Len(parts[j]) = size
             /\ \A i \in 0 .. size - 1 : parts[j][i + 1] = disk[PlaceOf(v, to[j - 1], i)]
  <2>1. j - 1 \in 0 .. n - 1
    BY <1>1
  <2>2. parts[j] = fat32_read_cluster_raw(disk, v, to[j - 1])
    BY <1>3
  <2> DEFINE c == to[j - 1]
  <2>3. c \in Nat \ {0, 1} /\ PlaceOf(v, c, cluster_size(v) - 1) <= Len(disk)
    BY <1>4, <2>1 DEF size
  <2> HIDE DEF c
  <2>4. /\ IsSeq(fat32_read_cluster_raw(disk, v, c))
        /\ Len(fat32_read_cluster_raw(disk, v, c)) = cluster_size(v)
        /\ \A i \in 0 .. cluster_size(v) - 1 :
             fat32_read_cluster_raw(disk, v, c)[i + 1] = disk[PlaceOf(v, c, i)]
    BY <1>1, <2>3, ClusterIs
  <2>. QED  BY <2>2, <2>4 DEF c, size
<1>6. IsSeq(parts) /\ Len(parts) = n
  <2>1. parts = [i \in 1 .. n |-> parts[i]]
    BY <1>3
  <2> HIDE DEF parts
  <2>. QED  BY <1>1, <2>1, MapAny
<1> HIDE DEF parts
<1>7. Blocks(parts, n, size, list)
  BY <1>1, <1>2, <1>5, <1>6, FlattenBlocks
<1> HIDE DEF list
<1>8. ASSUME NEW k \in 0 .. n * size - 1 PROVE list[k + 1] = unit[k]
  <2> DEFINE q == k \div size
             r == k % size
  <2>1. n * size \in Nat /\ k \in Nat /\ k < n * size
    BY <1>1, <1>2
  <2>2. q \in Nat /\ r \in 0 .. size - 1 /\ q * size + r = k
    BY <1>2, <2>1, Euclid
  <2>3. unit[k] = disk[PlaceOf(v, to[q], r)]
    BY DEF UnitsOf, size
  <2> HIDE DEF q, r, unit
  <2>4. q <= n - 1
    <3>1. CASE q >= n
      <4>1. q * size >= n * size /\ q * size \in Int /\ n * size \in Int
        BY <1>1, <1>2, <2>2, <3>1
      <4>2. r \in Int /\ r >= 0
        BY <1>2, <2>2
      <4>. QED  BY <2>1, <2>2, <4>1, <4>2
    <3>. QED  BY <1>1, <2>2, <3>1
  <2>5. q + 1 \in 1 .. n /\ r + 1 \in 1 .. size /\ (q + 1) - 1 = q
    BY <1>1, <1>2, <2>2, <2>4
  <2>6. q * size + (r + 1) = k + 1
    <3>1. q * size \in Int
      BY <1>2, <2>2
    <3>. QED  BY <1>2, <2>2, <3>1
  <2>7. list[k + 1] = parts[q + 1][r + 1]
    <3>1. list[((q + 1) - 1) * size + (r + 1)] = parts[q + 1][r + 1]
      BY <1>7, <2>5 DEF Blocks
    <3>. QED  BY <2>5, <2>6, <3>1
  <2>. QED  BY <1>5, <2>2, <2>3, <2>5, <2>7
<1>9. chain # HANG
  <2>1. to[0] \in Nat \ {0, 1} /\ chain[1] = to[0]
    BY <1>1, <1>3, <1>4
  <2>2. HANG[1] = 0
    BY DEF HANG
  <2>. QED  BY <2>1, <2>2
<1>10. \A name : fat32_finddir_raw(disk, v, dir, name) = Search(list, name)
  BY <1>9 DEF fat32_finddir_raw, SearchOf, Listing, chain, list, parts
<1>11. IsSeq(list) /\ Len(list) = n * size
  BY <1>7 DEF Blocks
<1> DEFINE Is(l) == /\ \A name : fat32_finddir_raw(disk, v, dir, name) = Search(l, name)
                    /\ IsSeq(l) /\ Len(l) = n * size
                    /\ \A k \in 0 .. n * size - 1 : l[k + 1] = unit[k]
<1>12. Is(list)
  BY <1>8, <1>10, <1>11
<1>13. \E l : Is(l)
  <2> HIDE DEF Is
  <2>. QED  BY <1>12
<1>. QED  BY <1>13 DEF size, to


-----------------------------------------------------------------------------
(* The search of a directory, and of a path.                               *)

\* A search that stops first at one of the units.
LEMMA FirstStop ==
    ASSUME NEW list, NEW N \in Nat, IsSeq(list), Len(list) = N, NEW name, NEW f \in 1 .. N,
           StopsAt(list[f], name), \A j \in 1 .. N : StopsAt(list[j], name) => f <= j
    PROVE  Search(list, name) =
               IF list[f].kind = "zero" \/ (list[f].attribute = "file" /\ name[2] = NONE)
               THEN [is |-> NONE] ELSE [is |-> "entry", entry |-> list[f]]
<1> DEFINE hits == {k \in DOMAIN list : StopsAt(list[k], name)}
           first == CHOOSE k \in hits : \A j \in hits : k <= j
<1>1. DOMAIN list = 1 .. N
  BY SeqBasics
<1>2. f \in hits /\ \A j \in hits : f <= j
  BY <1>1
<1>3. hits \in SUBSET Int
  BY <1>1
<1> HIDE DEF hits
<1>4. first = f
  <2>1. first \in hits /\ \A j \in hits : first <= j
    BY <1>2
  <2> HIDE DEF first
  <2>2. first <= f /\ f <= first
    BY <1>2, <2>1
  <2>. QED  BY <1>2, <1>3, <2>1, <2>2
<1>5. hits # {}
  BY <1>2
<1> DEFINE hit == list[first]
<1>6. Search(list, name) =
          CASE hits = {} -> [is |-> "wild"]
            [] hits # {} /\ (hit.kind = "zero" \/ (hit.attribute = "file" /\ name[2] = NONE)) ->
                   [is |-> NONE]
            [] OTHER -> [is |-> "entry", entry |-> hit]
  BY DEF Search, hits
<1> HIDE DEF first
<1>. QED  BY <1>4, <1>5, <1>6

\* What the search stops at, if the directory has the name: its entry.
LEMMA StopsAtEntry ==
    ASSUME NEW disk, NEW dir, NEW unit, NEW name, NEW N \in Nat, DOMAIN unit = 0 .. N - 1,
           Holds(disk, dir, unit), Ordered(unit), Clear(disk, dir, name),
           NEW f \in DOMAIN unit, IsLive(unit[f]), Fits(unit[f], name)
    PROVE  /\ StopsAt(unit[f], Parts[name])
           /\ \A j \in DOMAIN unit : StopsAt(unit[j], Parts[name]) => f <= j
           /\ \A j \in DOMAIN unit : IsLive(unit[j]) /\ Fits(unit[j], name) => j = f
           /\ unit[f].dated
           /\ ~(unit[f].kind = "zero" \/ (unit[f].attribute = "file" /\ Parts[name][2] = NONE))
<1> DEFINE e == unit[f]
           nm == Parts[name]
           L == {i \in DOMAIN unit : IsLive(unit[i])}
<1>1. \A a : Matches(a, a)
  BY DEF Matches
<1>2. /\ f \in L /\ e.kind = "entry" /\ e.attribute \in {"directory", "file"}
      /\ e.file_name = nm[1] /\ e.extension = nm[2]
  BY DEF IsLive, Fits
<1>3. \A j, k \in L :
         /\ unit[j].attribute = "file" <=> unit[j].extension # NONE
         /\ unit[j].dated
         /\ unit[j].attribute = unit[k].attribute /\ j # k =>
                ~(Matches(unit[j].file_name, unit[k].file_name) /\ Matches(unit[j].extension, unit[k].extension))
         /\ unit[j].attribute = "directory" /\ unit[k].attribute = "file" => j < k
  BY DEF Ordered
<1>4. e.attribute = "file" <=> nm[2] # NONE
  BY <1>2, <1>3
<1>5. ASSUME NEW j \in DOMAIN unit, IsLive(unit[j]), Fits(unit[j], name) PROVE j = f
  <2>1. j \in L /\ unit[j].file_name = nm[1] /\ unit[j].extension = nm[2]
    BY <1>5 DEF Fits
  <2>2. unit[j].attribute = e.attribute
    <3>1. unit[j].attribute \in {"directory", "file"} /\ (unit[j].attribute = "file" <=> nm[2] # NONE)
      BY <1>3, <1>5, <2>1 DEF IsLive
    <3>. QED  BY <1>2, <1>4, <3>1
  <2>. QED  BY <1>1, <1>2, <1>3, <2>1, <2>2
<1>6. \A j \in L : unit[j] \in Live(disk, dir)
  BY DEF Holds
<1>7. \A j \in L : Matches(nm[1], unit[j].file_name) /\ (nm[2] # NONE => Matches(nm[2], unit[j].extension))
                     => Fits(unit[j], name)
  BY <1>6 DEF Clear
<1>8. ASSUME NEW j \in DOMAIN unit, StopsAt(unit[j], nm) PROVE f <= j
  <2>1. f \in Int /\ j \in Int
    OBVIOUS
  <2>2. CASE unit[j].kind = "zero"
    <3>1. f < j
      BY <1>2, <2>2 DEF Holds
    <3>. QED  BY <2>1, <3>1
  <2>3. CASE /\ unit[j].kind = "entry" /\ unit[j].attribute = "directory"
             /\ nm[2] = NONE /\ Matches(nm[1], unit[j].file_name)
    <3>1. j \in L /\ IsLive(unit[j])
      BY <2>3 DEF IsLive
    <3>2. j = f
      BY <1>5, <1>7, <2>3, <3>1
    <3>. QED  BY <2>1, <3>2
  <2>4. CASE /\ unit[j].kind = "entry" /\ unit[j].attribute = "file"
             /\ nm[2] # NONE => Matches(nm[1], unit[j].file_name) /\ Matches(nm[2], unit[j].extension)
    <3>1. j \in L /\ IsLive(unit[j])
      BY <2>4 DEF IsLive
    <3>2. CASE nm[2] # NONE
      <4>1. j = f
        BY <1>5, <1>7, <2>4, <3>1, <3>2
      <4>. QED  BY <2>1, <4>1
    <3>3. CASE nm[2] = NONE
      <4>1. e.attribute = "directory"
        BY <1>2, <1>4, <3>3
      <4>2. f < j
        BY <1>2, <1>3, <2>4, <3>1, <4>1
      <4>. QED  BY <2>1, <4>2
    <3>. QED  BY <3>2, <3>3
  <2>. QED  BY <1>8, <2>2, <2>3, <2>4 DEF StopsAt
<1>9. StopsAt(e, nm)
  BY <1>1, <1>2, <1>4 DEF StopsAt
<1>10. e.dated /\ ~(e.kind = "zero" \/ (e.attribute = "file" /\ nm[2] = NONE))
  BY <1>2, <1>3, <1>4
<1>. QED  BY <1>5, <1>8, <1>9, <1>10

\* And if it does not: an end mark, or a file where directories are looked for.
LEMMA StopsElse ==
    ASSUME NEW disk, NEW dir, NEW unit, NEW name, NEW N \in Nat, DOMAIN unit = 0 .. N - 1,
           Holds(disk, dir, unit), Clear(disk, dir, name),
           ~ \E e \in Live(disk, dir) : Fits(e, name)
    PROVE  \E f \in DOMAIN unit :
             /\ StopsAt(unit[f], Parts[name])
             /\ \A j \in DOMAIN unit : StopsAt(unit[j], Parts[name]) => f <= j
             /\ unit[f].kind = "zero" \/ (unit[f].attribute = "file" /\ Parts[name][2] = NONE)
<1> DEFINE nm == Parts[name]
           Z == {j \in DOMAIN unit : StopsAt(unit[j], nm)}
<1>1. Z # {}
  <2>1. PICK k \in DOMAIN unit : unit[k].kind = "zero"
    BY DEF Holds
  <2>2. k \in Z
    BY <2>1 DEF StopsAt
  <2>. QED  BY <2>2
<1>2. Z \in SUBSET Nat
  OBVIOUS
<1>3. PICK f \in Z : \A j \in Z : f <= j
  <2> HIDE DEF Z
  <2>. QED  BY <1>1, <1>2, LeastNatural
<1>4. unit[f].kind = "zero" \/ (unit[f].attribute = "file" /\ nm[2] = NONE)
  <2> SUFFICES ASSUME unit[f].kind # "zero", ~(unit[f].attribute = "file" /\ nm[2] = NONE)
               PROVE  FALSE
    OBVIOUS
  <2>1. /\ unit[f].kind = "entry" /\ unit[f].attribute \in {"directory", "file"}
        /\ Matches(nm[1], unit[f].file_name)
        /\ nm[2] # NONE => Matches(nm[2], unit[f].extension)
    BY DEF StopsAt
  <2>2. unit[f] \in Live(disk, dir)
    <3>1. f \in {i \in DOMAIN unit : IsLive(unit[i])}
      BY <2>1 DEF IsLive
    <3>. QED  BY <3>1 DEF Holds
  <2>3. Fits(unit[f], name)
    BY <2>1, <2>2 DEF Clear
  <2>. QED  BY <2>2, <2>3
<1>. QED  BY <1>3, <1>4

\* A search depends on the two parts of the name.
LEMMA SearchSame ==
    ASSUME NEW list, NEW name, NEW other, name[1] = other[1], name[2] = other[2]
    PROVE  Search(list, name) = Search(list, other)
<1>1. \A e : StopsAt(e, name) <=> StopsAt(e, other)
  BY DEF StopsAt
<1>2. {k \in DOMAIN list : StopsAt(list[k], name)} = {k \in DOMAIN list : StopsAt(list[k], other)}
  BY <1>1
<1>. QED  BY <1>2 DEF Search

\* A file is found again by the name in its node, as fat32_read searches it.
Rereads(m, v, node) ==
    node.flags # "directory" =>
        \E e : /\ node.flags = "file"
              /\ fat32_finddir_raw(m.disks[1], v, node.parent, node.name) =
                     [is |-> "entry", entry |-> e]
              /\ e.dated /\ e.attribute = "file" /\ e.cluster = node.inode /\ e.size = node.length

\* In a tidy directory the code's search finds what the name stands for, and
\* finds it again.
LEMMA FinddirExact ==
    ASSUME NEW m, NEW v, NEW node, node.flags = "directory", node.fs = "fat32", NEW name,
           Tidy(m.disks[1], v, node.inode), Clear(m.disks[1], node.inode, name)
    PROVE  /\ finddir_fs(m, v, node, name).is \in {"node", NONE}
           /\ finddir_fs(m, v, node, name).is = "node" <=> Below(m, node, name) # NULL
           /\ finddir_fs(m, v, node, name).is = "node" =>
                /\ Same(finddir_fs(m, v, node, name).node, Below(m, node, name))
                /\ finddir_fs(m, v, node, name).node.fs = "fat32"
                /\ finddir_fs(m, v, node, name).node.parent = node.inode
                /\ Rereads(m, v, finddir_fs(m, v, node, name).node)
<1> DEFINE disk == m.disks[1]
           dir == node.inode
           to == Linked(disk, v, dir)
           nm == Parts[name]
           found == finddir_fs(m, v, node, name)
           size == cluster_size(v)
<1>1. PICK n \in 1 .. Len(disk) : /\ Spans(disk, v, to, n)
                                  /\ Holds(disk, dir, UnitsOf(disk, v, to, n))
                                  /\ Ordered(UnitsOf(disk, v, to, n))
  BY DEF Tidy
<1> DEFINE unit == UnitsOf(disk, v, to, n)
           N == n * size
<1>2. Len(disk) \in Nat /\ n \in Nat /\ n >= 1 /\ N \in Nat
  <2>1. Len(disk) \in Nat /\ v.sectors \in Nat /\ SECTOR \in Nat
    BY <1>1, LenProperties, Fat32Assumption DEF Spans
  <2>2. n \in Nat /\ n >= 1 /\ size \in Nat
    BY <2>1 DEF cluster_size
  <2>. QED  BY <2>1, <2>2
<1>3. PICK list : /\ \A any : fat32_finddir_raw(disk, v, dir, any) = Search(list, any)
                  /\ IsSeq(list) /\ Len(list) = N
                  /\ \A k \in 0 .. N - 1 : list[k + 1] = unit[k]
  <2> HIDE DEF disk
  <2>. QED  BY <1>1, ListingIs
<1>4. DOMAIN unit = 0 .. N - 1
  BY DEF UnitsOf
<1>5. dir # 0
  <2>1. 0 \in 0 .. n - 1
    BY <1>2
  <2>2. to[0] \in Nat \ {0, 1} /\ to[0] = dir
    <3>1. to[0] \in Nat \ {0, 1}
      BY <1>1, <2>1 DEF Spans
    <3> HIDE DEF disk
    <3>. QED  BY <1>2, <3>1, LinkedSteps
  <2>. QED  BY <2>2
<1>6. found = NodeOf(Search(list, nm), node)
  BY <1>3, <1>5 DEF finddir_fs, fat32_finddir
<1>7. Below(m, node, name) = Exact(disk, dir, name)
  BY DEF Below
<1>8. Holds(disk, dir, unit) /\ Ordered(unit) /\ Clear(disk, dir, name)
  BY <1>1
<1>0. \A any : fat32_finddir_raw(m.disks[1], v, node.inode, any) = Search(list, any)
  BY <1>3
<1> HIDE DEF disk, dir, unit, N, nm, found, size, to
\* A search that stops at the unit f, and what it makes of it.
<1>9. ASSUME NEW f \in DOMAIN unit, StopsAt(unit[f], nm),
             \A j \in DOMAIN unit : StopsAt(unit[j], nm) => f <= j
      PROVE  Search(list, nm) =
                 IF unit[f].kind = "zero" \/ (unit[f].attribute = "file" /\ nm[2] = NONE)
                 THEN [is |-> NONE] ELSE [is |-> "entry", entry |-> unit[f]]
  <2>1. f \in Nat /\ f + 1 \in 1 .. N /\ list[f + 1] = unit[f]
    BY <1>2, <1>3, <1>4
  <2>2. \A j \in 1 .. N : StopsAt(list[j], nm) => f + 1 <= j
    <3> SUFFICES ASSUME NEW j \in 1 .. N, StopsAt(list[j], nm) PROVE f + 1 <= j
      OBVIOUS
    <3>1. j - 1 \in 0 .. N - 1 /\ (j - 1) + 1 = j
      BY <1>2
    <3>2. list[j] = unit[j - 1] /\ j - 1 \in DOMAIN unit
      BY <1>3, <1>4, <3>1
    <3>3. f <= j - 1
      BY <1>9, <3>2
    <3>. QED  BY <2>1, <3>1, <3>3
  <2> DEFINE g == f + 1
  <2>3. g \in 1 .. N /\ list[g] = unit[f] /\ StopsAt(list[g], nm)
        /\ \A j \in 1 .. N : StopsAt(list[j], nm) => g <= j
    BY <1>9, <2>1, <2>2
  <2> HIDE DEF g
  <2>4. Search(list, nm) =
            IF list[g].kind = "zero" \/ (list[g].attribute = "file" /\ nm[2] = NONE)
            THEN [is |-> NONE] ELSE [is |-> "entry", entry |-> list[g]]
    BY <1>2, <1>3, <2>3, FirstStop
  <2>. QED  BY <2>3, <2>4
<1>10. CASE \E e \in Live(disk, dir) : Fits(e, name)
  <2>1. PICK f \in DOMAIN unit : IsLive(unit[f]) /\ Fits(unit[f], name)
    BY <1>8, <1>10 DEF Holds
  <2>2. /\ StopsAt(unit[f], nm)
        /\ \A j \in DOMAIN unit : StopsAt(unit[j], nm) => f <= j
        /\ \A j \in DOMAIN unit : IsLive(unit[j]) /\ Fits(unit[j], name) => j = f
        /\ unit[f].dated
        /\ ~(unit[f].kind = "zero" \/ (unit[f].attribute = "file" /\ nm[2] = NONE))
    BY <1>2, <1>4, <1>8, <2>1, StopsAtEntry DEF nm
  <2> DEFINE e == unit[f]
             fits == {u \in Live(disk, dir) : Fits(u, name)}
             nodes == {Node("fat32", u.attribute, u.cluster, dir, NoName, u.size) : u \in fits}
             exact == Node("fat32", e.attribute, e.cluster, dir, NoName, e.size)
             got == Node("fat32", e.attribute, e.cluster, node.inode, fat32_get_entry_name(e), e.size)
  <2>3. fits = {e}
    <3>1. e \in fits
      <4>1. f \in {j \in DOMAIN unit : IsLive(unit[j])}
        BY <2>1
      <4>2. e \in Live(disk, dir)
        BY <1>8, <4>1 DEF Holds
      <4>. QED  BY <2>1, <4>2
    <3>2. ASSUME NEW u \in fits PROVE u = e
      <4>1. PICK j \in DOMAIN unit : IsLive(unit[j]) /\ u = unit[j]
        BY <1>8 DEF Holds
      <4>2. j = f
        BY <2>2, <4>1
      <4>. QED  BY <4>1, <4>2
    <3> HIDE DEF fits, e
    <3>. QED  BY <3>1, <3>2
  <2>4. Exact(disk, dir, name) = exact
    <3>1. Exact(disk, dir, name) = IF fits = {} THEN NULL ELSE CHOOSE one \in nodes : TRUE
      BY DEF Exact
    <3>2. nodes = {exact}
      <4> HIDE DEF fits, e
      <4>. QED  BY <2>3 DEF exact
    <3> HIDE DEF fits, nodes, exact, e
    <3>. QED  BY <2>3, <3>1, <3>2
  <2>5. found = Found(got)
    <3>1. Search(list, nm) = [is |-> "entry", entry |-> e]
      BY <1>9, <2>2
    <3> HIDE DEF e
    <3>2. [is |-> "entry", entry |-> e].is = "entry" /\ [is |-> "entry", entry |-> e].entry = e
      OBVIOUS
    <3>3. e.dated
      BY <2>2 DEF e
    <3> DEFINE hit == [is |-> "entry", entry |-> e]
    <3> HIDE DEF hit
    <3>4. NodeOf(hit, node) = Found(got)
      BY <3>2, <3>3 DEF NodeOf, hit
    <3>. QED  BY <1>6, <3>1, <3>4 DEF hit
  <2>6. /\ exact # NULL /\ Same(got, exact) /\ Found(got).is = "node" /\ Found(got).node = got
        /\ got.fs = "fat32" /\ got.parent = node.inode
    <3> HIDE DEF e
    <3>. QED  BY DEF Node, NULL, Same, Found, NONE
  <2>7. Rereads(m, v, got)
    <3>1. Search(list, nm) = [is |-> "entry", entry |-> e]
      BY <1>9, <2>2
    <3>2. e.dated /\ e.attribute \in {"directory", "file"} /\ e.file_name = nm[1] /\ e.extension = nm[2]
      BY <2>1, <2>2 DEF IsLive, Fits, nm
    <3>3. /\ e.file_name # NONE /\ {e.file_name, e.extension} \cap OneLetter = {}
          /\ e.attribute = "file" => e.extension # NONE
      <4>1. f \in {j \in DOMAIN unit : IsLive(unit[j])}
        BY <2>1
      <4>. QED  BY <1>8, <4>1 DEF Ordered
    <3> HIDE DEF e
    <3>4. /\ got.flags = e.attribute /\ got.parent = node.inode /\ got.name = fat32_get_entry_name(e)
          /\ got.inode = e.cluster /\ got.length = e.size
      BY DEF Node
    <3>5. ASSUME e.attribute = "file"
          PROVE  /\ fat32_get_entry_name(e)[1] = nm[1] /\ fat32_get_entry_name(e)[2] = nm[2]
      <4>1. Trimmed(e.file_name) = e.file_name /\ Trimmed(e.extension) = e.extension
        BY <3>3, <3>5 DEF Trimmed
      <4>. QED  BY <3>2, <4>1 DEF fat32_get_entry_name
    <3> HIDE DEF got
    <3>6. ASSUME e.attribute = "file"
          PROVE  fat32_finddir_raw(m.disks[1], v, got.parent, got.name) = [is |-> "entry", entry |-> e]
      <4>1. Search(list, got.name) = Search(list, nm)
        BY <3>4, <3>5, <3>6, SearchSame
      <4>. QED  BY <1>0, <3>1, <3>4, <4>1
    <3>. QED  BY <3>2, <3>4, <3>6 DEF Rereads
  <2> HIDE DEF got, exact
  <2>. QED  BY <1>7, <2>4, <2>5, <2>6, <2>7 DEF found
<1>11. CASE ~ \E e \in Live(disk, dir) : Fits(e, name)
  <2>1. PICK f \in DOMAIN unit :
             /\ StopsAt(unit[f], nm)
             /\ \A j \in DOMAIN unit : StopsAt(unit[j], nm) => f <= j
             /\ unit[f].kind = "zero" \/ (unit[f].attribute = "file" /\ nm[2] = NONE)
    BY <1>2, <1>4, <1>8, <1>11, StopsElse DEF nm
  <2>2. Search(list, nm) = [is |-> NONE]
    BY <1>9, <2>1
  <2>3. found = Not(NONE)
    BY <1>6, <2>2 DEF NodeOf, NONE
  <2>4. Exact(disk, dir, name) = NULL
    BY <1>11 DEF Exact
  <2>. QED  BY <1>7, <2>3, <2>4 DEF Not, NONE, found
<1>. QED  BY <1>10, <1>11

\* What a search gives is what the name stands for.
Agrees(found, node) ==
    /\ found.is = "node" <=> node # NULL
    /\ found.is = "node" => Same(found.node, node)
FoundAgain(m, found) ==
    found.is = "node" /\ found.node.fs = "fat32" => Rereads(m, volume, found.node)

\* A search that comes to its end, in a tidy directory if it is one of FAT32.
Tried(m, found) ==
    /\ found.is \in {"node", NONE}
    /\ found.is = "node" /\ found.node.fs = "fat32" => Tidy(m.disks[1], volume, found.node.parent)

LEMMA InitrdExact ==
    ASSUME NEW m, IsSeq(m.initrd), NEW name
    PROVE  Agrees(initrd_finddir(m, name), InitrdNode(m.initrd, name))
<1> DEFINE files == m.initrd
           I == {k \in DOMAIN files : files[k].name = name}
           i == CHOOSE k \in DOMAIN files : /\ files[k].name = name
                                            /\ \A j \in 1 .. k - 1 : files[j].name # name
           got == Node("initrd", "file", i, 0, NoName, files[i].length)
<1>1. Len(files) \in Nat /\ DOMAIN files = 1 .. Len(files)
  BY SeqBasics
<1>2. CASE I = {}
  <2>1. ~ \E k \in DOMAIN files : files[k].name = name
    BY <1>2
  <2>2. initrd_finddir(m, name) = Not(NONE)
    BY <2>1 DEF initrd_finddir
  <2>3. InitrdNode(files, name) = NULL
    BY <1>2 DEF InitrdNode
  <2>. QED  BY <2>2, <2>3 DEF Agrees, Not, NONE
<1>3. CASE I # {}
  <2>1. I \in SUBSET Nat
    BY <1>1
  <2>2. Min(I) \in I /\ \A k \in I : Min(I) <= k
    <3> HIDE DEF I
    <3>. QED  BY <1>3, <2>1, LeastIsMin
  <2>3. i = Min(I)
    <3>1. /\ Min(I) \in DOMAIN files /\ files[Min(I)].name = name
          /\ \A j \in 1 .. Min(I) - 1 : files[j].name # name
      <4> DEFINE least == Min(I)
      <4>1. least \in DOMAIN files /\ files[least].name = name
        BY <2>2
      <4>2. ASSUME NEW j \in 1 .. least - 1, files[j].name = name PROVE FALSE
        <5>1. least \in Nat /\ least <= Len(files)
          <6> HIDE DEF least
          <6>. QED  BY <1>1, <4>1
        <5>2. j \in DOMAIN files /\ j < least
          <6> HIDE DEF least
          <6>. QED  BY <1>1, <5>1
        <5>3. j \in I
          BY <4>2, <5>2
        <5>4. least <= j
          BY <2>2, <5>3
        <5> HIDE DEF least
        <5>. QED  BY <1>1, <5>1, <5>2, <5>4
      <4>. QED  BY <4>1, <4>2
    <3>2. /\ i \in DOMAIN files /\ files[i].name = name
          /\ \A j \in 1 .. i - 1 : files[j].name # name
      BY <3>1
    <3>3. i \in I
      <4> HIDE DEF i
      <4>. QED  BY <3>2
    <3>4. Min(I) <= i
      <4> HIDE DEF i
      <4>. QED  BY <2>2, <3>3
    <3> DEFINE least == Min(I)
    <3>5. ~(least \in 1 .. i - 1)
      BY <3>1, <3>2
    <3>6. least \in DOMAIN files /\ i \in DOMAIN files /\ least <= i
      BY <3>1, <3>2, <3>4
    <3> HIDE DEF least, i
    <3>7. least = i
      BY <1>1, <3>5, <3>6
    <3>. QED  BY <3>7 DEF least
  <2>4. initrd_finddir(m, name) = Found(got)
    <3>1. \E k \in DOMAIN files : files[k].name = name
      BY <1>3
    <3>. QED  BY <3>1 DEF initrd_finddir
  <2>5. InitrdNode(files, name) = got
    <3>1. InitrdNode(files, name) =
              IF I = {} THEN NULL ELSE Node("initrd", "file", Min(I), 0, NoName, files[Min(I)].length)
      BY DEF InitrdNode
    <3> HIDE DEF i, I
    <3>. QED  BY <1>3, <2>3, <3>1
  <2>6. got # NULL /\ Found(got).is = "node" /\ Found(got).node = got /\ Same(got, got)
    <3> HIDE DEF i
    <3>. QED  BY DEF Node, NULL, NONE, Found, Same
  <2> HIDE DEF got
  <2>. QED  BY <2>4, <2>5, <2>6 DEF Agrees
<1>. QED  BY <1>2, <1>3

\* One step of the search, below nodes that agree.
LEMMA StepExact ==
    ASSUME NEW m, IsSeq(m.initrd), NEW node, NEW other, Same(node, other), NEW name,
           PlainIn(m, other, name)
    PROVE  /\ Agrees(finddir_fs(m, volume, node, name), Below(m, other, name))
           /\ FoundAgain(m, finddir_fs(m, volume, node, name))
           /\ Tried(m, finddir_fs(m, volume, node, name))
<1>1. node.fs = other.fs /\ node.flags = other.flags /\ node.inode = other.inode
  BY DEF Same
<1>2. CASE node.flags = "directory" /\ node.fs = "fat32"
  <2>1. Tidy(m.disks[1], volume, node.inode) /\ Clear(m.disks[1], node.inode, name)
    BY <1>1, <1>2 DEF PlainIn
  <2>2. /\ Agrees(finddir_fs(m, volume, node, name), Below(m, node, name))
        /\ FoundAgain(m, finddir_fs(m, volume, node, name))
        /\ Tried(m, finddir_fs(m, volume, node, name))
    BY <1>2, <2>1, FinddirExact DEF Agrees, FoundAgain, Tried
  <2>3. Below(m, node, name) = Below(m, other, name)
    BY <1>1 DEF Below
  <2>. QED  BY <2>2, <2>3
<1>3. CASE node.flags = "directory" /\ node.fs = "initrd"
  <2>1. finddir_fs(m, volume, node, name) = initrd_finddir(m, name)
    BY <1>3 DEF finddir_fs
  <2>2. Below(m, other, name) = InitrdNode(m.initrd, name)
    BY <1>1, <1>3 DEF Below
  <2>3. /\ initrd_finddir(m, name).is \in {"node", NONE}
        /\ initrd_finddir(m, name).is = "node" => initrd_finddir(m, name).node.fs = "initrd"
    <3>1. \/ initrd_finddir(m, name) = Not(NONE)
          \/ \E i : initrd_finddir(m, name) =
                     Found(Node("initrd", "file", i, 0, NoName, m.initrd[i].length))
      BY DEF initrd_finddir
    <3>2. Not(NONE).is = NONE
      BY DEF Not
    <3>3. \A x : Found(x).is = "node" /\ Found(x).node = x
      BY DEF Found
    <3>. QED  BY <3>1, <3>2, <3>3, NullIsNot DEF NONE
  <2>4. Agrees(initrd_finddir(m, name), InitrdNode(m.initrd, name))
    BY InitrdExact
  <2> DEFINE found == initrd_finddir(m, name)
  <2> HIDE DEF found
  <2>5. FoundAgain(m, found) /\ Tried(m, found)
    <3>1. found.is \in {"node", NONE} /\ (found.is = "node" => found.node.fs = "initrd")
      BY <2>3 DEF found
    <3>. QED  BY <3>1 DEF FoundAgain, Tried
  <2>. QED  BY <2>1, <2>2, <2>4, <2>5 DEF found
<1>4. CASE ~(node.flags = "directory" /\ node.fs \in {"fat32", "initrd"})
  <2>1. finddir_fs(m, volume, node, name) = Not(NONE)
    BY <1>4 DEF finddir_fs
  <2>2. Below(m, other, name) = NULL
    BY <1>1, <1>4 DEF Below
  <2>. QED  BY <2>1, <2>2 DEF Agrees, FoundAgain, Tried, Not, NONE
<1>. QED  BY <1>2, <1>3, <1>4

\* The nodes that a path names, step by step.
LEMMA NamedSteps ==
    ASSUME NEW path, IsSeq(path), NEW d \in 0 .. Len(path)
    PROVE  /\ NamedTo(path, d)[d] = FileAt(tree, Prefix(path, d))
           /\ \A i \in d + 1 .. Len(path) : NamedTo(path, d)[i] = Below(Here, NamedTo(path, d)[i - 1], path[i])
<1> DEFINE N == Len(path)
           m == Here
           t == tree
           start == FileAt(t, SubSeq(path, 1, d))
           Is(f, n) == f = [i \in d .. n |-> IF i = d THEN FileAt(t, SubSeq(path, 1, i))
                                             ELSE Below(m, f[i - 1], path[i])]
           Nodes == CHOOSE f : Is(f, N)
<1>1. N \in Nat /\ d \in Nat /\ d <= N
  BY SeqBasics
<1>2. NamedTo(path, d) = Nodes
  BY DEF NamedTo
<1> HIDE DEF m, t, N, Nodes
<1>3. Is(Nodes, N)
  <2> DEFINE S == {n \in Nat : \E f : Is(f, d + n)}
  <2>1. 0 \in S
    <3> DEFINE g == [i \in d .. d |-> start]
    <3>1. \A i \in d .. d : g[i] = IF i = d THEN FileAt(t, SubSeq(path, 1, i)) ELSE Below(m, g[i - 1], path[i])
      BY <1>1
    <3>2. Is(g, d + 0)
      BY <1>1, <3>1
    <3> HIDE DEF Is, g
    <3>. QED  BY <3>2
  <2>2. ASSUME NEW n \in S PROVE n + 1 \in S
    <3>1. PICK f : Is(f, d + n)
      OBVIOUS
    <3> DEFINE g == [i \in d .. d + (n + 1) |->
                        IF i <= d + n THEN f[i] ELSE Below(m, f[d + n], path[d + n + 1])]
    <3>2. ASSUME NEW i \in d .. d + (n + 1)
          PROVE  g[i] = IF i = d THEN FileAt(t, SubSeq(path, 1, i)) ELSE Below(m, g[i - 1], path[i])
      <4>1. CASE i = d + (n + 1)
        <5>1. g[i] = Below(m, f[d + n], path[i]) /\ g[i - 1] = f[d + n] /\ i # d
          BY <1>1, <4>1
        <5>. QED  BY <5>1
      <4>2. CASE i # d + (n + 1)
        <5>1. i \in d .. d + n /\ g[i] = f[i] /\ (i # d => g[i - 1] = f[i - 1])
          BY <1>1, <4>2
        <5>2. f[i] = IF i = d THEN FileAt(t, SubSeq(path, 1, i)) ELSE Below(m, f[i - 1], path[i])
          <6> DEFINE h == [j \in d .. d + n |-> IF j = d THEN FileAt(t, SubSeq(path, 1, j))
                                                ELSE Below(m, f[j - 1], path[j])]
          <6>1. h[i] = IF i = d THEN FileAt(t, SubSeq(path, 1, i)) ELSE Below(m, f[i - 1], path[i])
            BY <5>1
          <6>2. f = h
            BY <3>1
          <6> HIDE DEF h
          <6>. QED  BY <6>1, <6>2
        <5> HIDE DEF g
        <5>. QED  BY <5>1, <5>2
      <4>. QED  BY <4>1, <4>2
    <3>3. Is(g, d + (n + 1))
      BY <3>2
    <3> HIDE DEF g, Is
    <3>. QED  BY <3>3
  <2>3. N - d \in S
    <3> HIDE DEF S
    <3>1. S \in SUBSET Nat
      BY DEF S
    <3>2. S = Nat
      BY <2>1, <2>2, <3>1, AllNaturals
    <3>. QED  BY <1>1, <3>2
  <2>4. d + (N - d) = N
    BY <1>1
  <2> HIDE DEF Is
  <2>. QED  BY <2>3, <2>4 DEF Nodes
<1>4. /\ Nodes[d] = start
      /\ \A i \in d + 1 .. N : Nodes[i] = Below(m, Nodes[i - 1], path[i])
  <2> DEFINE g == [i \in d .. N |-> IF i = d THEN FileAt(t, SubSeq(path, 1, i))
                                    ELSE Below(m, Nodes[i - 1], path[i])]
  <2>1. g[d] = start /\ \A i \in d + 1 .. N : g[i] = Below(m, Nodes[i - 1], path[i])
    BY <1>1
  <2>2. Nodes = g
    BY <1>3
  <2> HIDE DEF g
  <2>. QED  BY <2>1, <2>2
<1>. QED  BY <1>2, <1>4 DEF N, m, t, Prefix

\* get_mount_point climbs to the deepest mount.
LEMMA DeepestIs ==
    ASSUME IsTree(tree), NEW path, IsSeq(path)
    PROVE  /\ Deepest(path) = get_mount_point(tree, path).depth
           /\ Deepest(path) \in 0 .. Len(path)
           /\ get_mount_point(tree, path).last = FileAt(tree, Prefix(path, Deepest(path)))
           /\ Deepest(path) # 0 => get_mount_point(tree, path).last # NULL
<1> DEFINE below == get_mount_point(tree, path)
           d == below.depth
           N == Len(path)
           K == {0} \union {k \in 1 .. Len(path) :
                     \E i \in DOMAIN tree : tree[i].path = SubSeq(path, 1, k) /\ tree[i].file # NULL}
<1>1. Climbing(tree, path, N, below)
  BY MountPoint
<1> HIDE DEF below
<1>2. /\ N \in Nat /\ d \in 0 .. N
      /\ below.last = FileAt(tree, Prefix(path, d))
      /\ d # 0 => MountedAt(tree, Prefix(path, d))
      /\ \A k \in d + 1 .. N : ~MountedAt(tree, Prefix(path, k))
  BY <1>1, SeqBasics DEF Climbing
<1> HIDE DEF d, N
<1>3. d \in K
  <2>1. CASE d = 0
    BY <2>1
  <2>2. CASE d # 0
    <3>1. PICK i \in DOMAIN tree : tree[i].path = Prefix(path, d) /\ tree[i].file # NULL
      BY <1>2, <2>2, FileAtKnown DEF MountedAt
    <3>2. d \in 1 .. N
      BY <1>2, <2>2
    <3>. QED  BY <3>1, <3>2 DEF Prefix, N
  <2>. QED  BY <2>1, <2>2
<1>4. ASSUME NEW k \in K PROVE k <= d
  <2> SUFFICES ASSUME ~(k <= d) PROVE FALSE
    OBVIOUS
  <2>1. /\ k \in d + 1 .. N
        /\ \E i \in DOMAIN tree : tree[i].path = Prefix(path, k) /\ tree[i].file # NULL
    BY <1>2 DEF Prefix, N
  <2>2. PICK i \in DOMAIN tree : tree[i].path = Prefix(path, k) /\ tree[i].file # NULL
    BY <2>1
  <2>3. Known(tree, Prefix(path, k))
    BY <2>2 DEF Known
  <2>4. PICK j \in DOMAIN tree : tree[j].path = Prefix(path, k) /\ FileAt(tree, Prefix(path, k)) = tree[j].file
    BY <2>3, FileAtKnown
  <2>5. i = j
    BY <2>2, <2>4 DEF IsTree
  <2>. QED  BY <1>2, <2>1, <2>2, <2>3, <2>4, <2>5 DEF MountedAt
<1>5. Max(K) = d
  <2>1. K \in SUBSET Int
    BY <1>2 DEF N
  <2> HIDE DEF K
  <2>2. \A y \in K : d >= y
    BY <1>2, <1>4, <2>1
  <2>3. Max(K) \in K /\ \A y \in K : Max(K) >= y
    BY <1>3, <2>2 DEF Max
  <2>4. Max(K) \in Int /\ d \in Int
    BY <1>3, <2>1, <2>3
  <2>5. Max(K) >= d /\ d >= Max(K)
    BY <1>3, <2>2, <2>3
  <2>. QED  BY <2>4, <2>5
<1>6. Deepest(path) = d
  BY <1>5 DEF Deepest
<1>. QED  BY <1>2, <1>6 DEF d, N, below, MountedAt

\* Of a plain path a search finds what it names, and a file that can be read.
LEMMA OpenExact ==
    ASSUME FilesInv, MountsInv, pc # "vfs", NEW path, IsSeq(path), Plain(path)
    PROVE  /\ Agrees(Open(path), Named(path)) /\ FoundAgain(Here, Open(path))
           /\ path # <<>> => Tried(Here, Open(path))
<1> DEFINE mount == get_mount_point(tree, path)
           d == Deepest(path)
           N == Len(path)
           node == NamedTo(path, d)
<1>1. IsTree(tree) /\ IsSeq(Here.initrd)
  <2>1. Here.initrd \in Seq([name : STRING, length : Nat])
    BY MachinesAssumption DEF FilesInv, BootInv, Here, Seen, Hardware
  <2>. QED  BY <2>1 DEF FilesInv, BootInv, IsSeq
<1>2. /\ d = mount.depth /\ d \in 0 .. N /\ N \in Nat
      /\ mount.last = FileAt(tree, Prefix(path, d)) /\ (d # 0 => mount.last # NULL)
  BY <1>1, DeepestIs, SeqBasics
<1>3. /\ node[d] = mount.last
      /\ \A i \in d + 1 .. N : node[i] = Below(Here, node[i - 1], path[i])
  BY <1>2, NamedSteps
<1>4. Named(path) = node[N]
  BY DEF Named
<1>5. \A i \in d .. N - 1 : PlainIn(Here, node[i], path[i + 1])
  BY DEF Plain
<1>6. Open(path) = kopen(Here, volume, tree, path)
  BY DEF Open
<1>9. mount.last.fs = "fat32" => mount.last.flags = "directory" /\ (d = N => path = <<>>)
  <2>1. PICK i \in DOMAIN tree : tree[i].path = Prefix(path, d) /\ mount.last = tree[i].file
    <3>1. Known(tree, Prefix(path, d))
      BY <1>1, <1>2, MountPoint DEF Climbing
    <3>. QED  BY <1>2, <3>1, FileAtKnown
  <2>2. MountOk(Here.disks, tree[i])
    BY DEF MountsInv, MountsOk
  <2>3. d = N => tree[i].path = path
    BY <2>1, WholePrefix
  <2> HIDE DEF mount, d, N
  <2>. QED  BY <2>1, <2>2, <2>3, NullIsNot
            DEF MountOk, NULL, fat32_create_fs_node, vfs_mapper, initrd_root, ata_device_create, NONE
<1> HIDE DEF mount, d, N, node
<1>7. CASE mount.last = NULL
  <2>1. d = 0 /\ fs_root(tree) = NULL
    <3>1. Prefix(path, 0) = <<>>
      BY WholePrefix
    <3>. QED  BY <1>2, <1>7, <3>1 DEF fs_root
  <2>2. Open(path).is # "node" /\ (path # <<>> => Open(path).is = NONE)
    BY <1>6, <1>7, <2>1 DEF kopen, mount, NONE
  <2>3. \A i \in 0 .. N : node[i] = NULL
    <3> DEFINE S == {i \in Nat : i <= N => node[i] = NULL}
    <3>1. 0 \in S
      BY <1>3, <1>7, <2>1
    <3>2. ASSUME NEW i \in S PROVE i + 1 \in S
      <4> SUFFICES ASSUME i + 1 <= N PROVE node[i + 1] = NULL
        OBVIOUS
      <4>1. i + 1 \in d + 1 .. N /\ (i + 1) - 1 = i /\ node[i] = NULL
        BY <1>2, <2>1
      <4>2. \A name : Below(Here, NULL, name) = NULL
        BY DEF Below, NULL, Node, NONE
      <4>. QED  BY <1>3, <4>1, <4>2
    <3>3. S = Nat
      <4>1. S \in SUBSET Nat
        OBVIOUS
      <4> HIDE DEF S
      <4>. QED  BY <3>1, <3>2, <4>1, AllNaturals
    <3>. QED  BY <1>2, <3>3
  <2>. QED  BY <1>2, <1>4, <2>2, <2>3 DEF Agrees, FoundAgain, Tried
<1>8. CASE mount.last # NULL
  <2>1. Open(path) = WalkFrom(Here, volume, mount, path)
    <3>1. ~(path = <<>> /\ fs_root(tree) = NULL)
      <4>1. CASE path = <<>>
        <5>1. N = 0 /\ d = 0
          BY <1>2, <4>1, EmptyIs DEF N
        <5>2. Prefix(path, 0) = <<>>
          BY WholePrefix
        <5>. QED  BY <1>2, <1>8, <5>1, <5>2 DEF fs_root
      <4>. QED  BY <4>1
    <3>. QED  BY <1>6, <1>8, <3>1 DEF kopen, mount
  <2>2. PICK walk :
             /\ WalkFrom(Here, volume, mount, path) = walk[N]
             /\ walk[d] = [is |-> "node", node |-> mount.last, freed |-> {}]
             /\ \A i \in d + 1 .. N : walk[i] = Walked(Here, volume, walk[i - 1], path[i])
    <3>1. mount.depth \in 0 .. Len(path)
      BY <1>2 DEF N
    <3>2. PICK walk : Walks(Here, volume, mount, path, walk)
      BY <3>1, WalkSteps
    <3>3. /\ WalkFrom(Here, volume, mount, path) = walk[N]
          /\ walk[d] = [is |-> "node", node |-> mount.last, freed |-> {}]
          /\ \A i \in d + 1 .. N : walk[i] = Walked(Here, volume, walk[i - 1], path[i])
      BY <1>2, <3>2 DEF N, Walks
    <3>. QED  BY <3>3
  <2> DEFINE P(i) == /\ Agrees(walk[i], node[i]) /\ FoundAgain(Here, walk[i])
                     /\ i = d \/ Tried(Here, walk[i])
             S == {i \in Nat : d + i <= N => P(d + i)}
  <2>3. 0 \in S
    <3>1. Same(mount.last, mount.last)
      BY DEF Same
    <3>2. FoundAgain(Here, walk[d])
      BY <1>9, <2>2 DEF FoundAgain, Rereads
    <3>3. P(d)
      BY <1>3, <1>8, <2>2, <3>1, <3>2 DEF Agrees
    <3> HIDE DEF P
    <3>. QED  BY <1>2, <3>3
  <2>4. ASSUME NEW i \in Nat, d + i <= N => P(d + i), d + (i + 1) <= N PROVE P(d + (i + 1))
    <3> DEFINE k == d + (i + 1)
    <3>1. k \in d + 1 .. N /\ k - 1 = d + i /\ k - 1 \in d .. N - 1 /\ (k - 1) + 1 = k /\ d + i <= N
      BY <1>2, <2>4
    <3> HIDE DEF k
    <3>2. P(k - 1)
      BY <2>4, <3>1
    <3>3. walk[k] = Walked(Here, volume, walk[k - 1], path[k])
      BY <2>2, <3>1
    <3>4. node[k] = Below(Here, node[k - 1], path[k]) /\ PlainIn(Here, node[k - 1], path[k])
      BY <1>3, <1>5, <3>1
    <3>5. CASE walk[k - 1].is = "node"
      <4>1. Same(walk[k - 1].node, node[k - 1])
        BY <3>2, <3>5 DEF Agrees
      <4>2. /\ Agrees(finddir_fs(Here, volume, walk[k - 1].node, path[k]), node[k])
            /\ FoundAgain(Here, finddir_fs(Here, volume, walk[k - 1].node, path[k]))
            /\ Tried(Here, finddir_fs(Here, volume, walk[k - 1].node, path[k]))
        BY <1>1, <3>4, <4>1, StepExact
      <4>3. walk[k] = Further(walk[k - 1], finddir_fs(Here, volume, walk[k - 1].node, path[k]))
        BY <3>3, <3>5 DEF Walked
      <4> DEFINE next == finddir_fs(Here, volume, walk[k - 1].node, path[k])
      <4>4. walk[k].is = next.is /\ walk[k].node = next.node
        BY <4>3 DEF Further
      <4> HIDE DEF next
      <4>5. Agrees(walk[k], node[k]) /\ FoundAgain(Here, walk[k]) /\ Tried(Here, walk[k])
        BY <4>2, <4>4 DEF Agrees, FoundAgain, Tried, next
      <4>. QED  BY <4>5 DEF k
    <3>6. CASE walk[k - 1].is # "node"
      <4>1. node[k - 1] = NULL /\ walk[k] = walk[k - 1]
        BY <3>2, <3>3, <3>6 DEF Agrees, Walked
      <4>2. \A name : Below(Here, NULL, name) = NULL
        BY DEF Below, NULL, Node, NONE
      <4>3. Tried(Here, walk[k - 1])
        <5>1. walk[d].is = "node"
          BY <2>2
        <5>. QED  BY <3>2, <3>6, <5>1
      <4>. QED  BY <3>4, <3>6, <4>1, <4>2, <4>3 DEF Agrees, FoundAgain, k
    <3>. QED  BY <3>5, <3>6
  <2>5. S = Nat
    <3>1. S \in SUBSET Nat /\ \A i \in S : i + 1 \in S
      <4> HIDE DEF P
      <4>. QED  BY <2>4
    <3> HIDE DEF S
    <3>. QED  BY <2>3, <3>1, AllNaturals
  <2>6. P(N)
    <3>1. N - d \in Nat /\ d + (N - d) = N
      BY <1>2
    <3> HIDE DEF P
    <3>2. N - d \in S
      <4> HIDE DEF S
      <4>. QED  BY <2>5, <3>1
    <3>. QED  BY <1>2, <3>1, <3>2
  <2>7. path # <<>> => Tried(Here, walk[N])
    <3>1. CASE N # d
      BY <2>6, <3>1
    <3>2. CASE N = d
      BY <1>9, <2>2, <3>2 DEF Tried
    <3>. QED  BY <3>1, <3>2
  <2>. QED  BY <1>4, <2>1, <2>2, <2>6, <2>7
<1>. QED  BY <1>7, <1>8

\* A descriptor leads to the file that its path names, at the place reads and
\* seeks have come to; an open succeeds exactly for paths that name something;
\* processes are in directories (sys_open, kopen_recursive, fat32_finddir_raw).
THEOREM OpensNamedInvariant == FilesSpec => []OpensNamed
<1>1. FilesInv /\ MountsInv /\ FoundInv => OpensNamed
  <2> SUFFICES ASSUME FilesInv, MountsInv, FoundInv PROVE OpensNamed
    OBVIOUS
  <2>1. ASSUME NEW s \in used, NEW fd \in Held(s), Plain(holds[s][fd].path)
        PROVE  /\ IsFd(s, fd)
               /\ Same(entries[s][fd].node, Named(holds[s][fd].path))
               /\ entries[s][fd].offset = holds[s][fd].at
    <3>1. s \in Slots /\ fd \in Fds /\ holds[s][fd] # NoHold
      BY DEF FilesInv, TablesInv, Held
    <3>2. IsFd(s, fd)
      BY <3>1 DEF FilesInv, OwnInv, OpenIn, IsFd
    <3>3. OpenAt(holds[s][fd], entries[s][fd])
      BY <3>1 DEF FoundInv, HoldsInv
    <3>4. pc # "vfs"
      BY DEF FilesInv, BootInv
    <3>5. IsSeq(holds[s][fd].path)
      BY <3>3 DEF OpenAt
    <3>6. Agrees(Open(holds[s][fd].path), Named(holds[s][fd].path))
      BY <2>1, <3>4, <3>5, OpenExact
    <3>. QED  BY <3>2, <3>3, <3>6 DEF OpenAt, Agrees
  <2>2. ASSUME reply.op = "open", stopped = "no", Plain(reply.path)
        PROVE  reply.ok <=> Named(reply.path) # NULL
    <3>1. pc # "vfs" /\ (reply.ok <=> Open(reply.path).is = "node")
      BY <2>2 DEF FoundInv, ReplyInv, NoReply, NONE
    <3>2. IsSeq(reply.path)
      BY <2>2 DEF FoundInv, ReplyInv
    <3>3. Agrees(Open(reply.path), Named(reply.path))
      BY <2>2, <3>1, <3>2, OpenExact
    <3>. QED  BY <3>1, <3>3 DEF Agrees
  <2>3. ASSUME stopped = "no", pc = "user", NEW s \in Slots, cwd[s] # <<>>, Plain(cwd[s])
        PROVE  Named(cwd[s]).flags = "directory"
    <3>1. IsSeq(cwd[s]) /\ Open(cwd[s]).is = "node" /\ Open(cwd[s]).node.flags = "directory"
      BY <2>3 DEF FoundInv, CwdInv, StandsIn, FilesInv, TablesInv
    <3>2. Agrees(Open(cwd[s]), Named(cwd[s]))
      BY <2>3, <3>1, OpenExact
    <3>. QED  BY <3>1, <3>2 DEF Agrees, Same
  <2>. QED  BY <2>1, <2>2, <2>3 DEF OpensNamed
<1>. QED  BY <1>1, FilesInvariant, MountsInvariant, FoundInvariant, PTL

-----------------------------------------------------------------------------
(* What a read gives is the file's.                                        *)

\* Of a sequence nothing is taken.
LEMMA NothingTaken ==
    /\ \A s : Len(SubSeq(s, 1, 0)) = 0 /\ DOMAIN SubSeq(s, 1, 0) = {}
    /\ Len(<<>>) = 0 /\ DOMAIN <<>> = {}
<1>1. \A s : Len(SubSeq(s, 1, 0)) = 0 /\ DOMAIN SubSeq(s, 1, 0) = 1 .. 0
  OBVIOUS
<1>2. 1 .. 0 = {}
  OBVIOUS
<1>. QED  BY <1>1, <1>2, EmptyIs

LEMMA DisksAre ==
    ASSUME FilesInv, MountsInv, NEW u \in 1 .. 4
    PROVE  Here.disks[u] \in Seq(Units(Here.disks[u]))
<1>1. Here.disks[u] = DisksAt(Hardware, controller)[u]
  BY DEF Here, Seen
<1>2. CASE controller = <<>>
  <2>1. Here.disks[u] = <<>>
    BY <1>1, <1>2 DEF DisksAt
  <2>. QED  BY <2>1
<1>3. CASE controller # <<>>
  <2>1. controller = ata_controller(Machines[machine].pci) /\ machine \in DOMAIN Machines
    BY <1>3 DEF MountsInv, FilesInv, BootInv, Hardware
  <2>. QED  BY <1>1, <2>1, DisksAssumption DEF Hardware
<1>. QED  BY <1>2, <1>3

\* A range of a raw disk.
LEMMA RawTrue ==
    ASSUME NEW disk, Len(disk) \in Nat, NEW from \in Nat, NEW size \in Nat, from + size <= Len(disk)
    PROVE  /\ Len(read_ata_bytes(disk, from, size).bytes) = size
           /\ \A i \in DOMAIN read_ata_bytes(disk, from, size).bytes :
                read_ata_bytes(disk, from, size).bytes[i] = disk[from + i]
<1> DEFINE bytes == read_ata_bytes(disk, from, size).bytes
<1>1. CASE size = 0
  <2>1. \A w : Len(Filled(w, 0, 0).bytes) = 0 /\ DOMAIN Filled(w, 0, 0).bytes = {}
    BY NothingTaken DEF Filled, Fails, Answer
  <2>2. ~(from > Len(disk)) /\ ~(from + size > Len(disk))
    OBVIOUS
  <2>3. bytes = Filled(Written(disk, from, size), 0, 0).bytes
    BY <1>1, <2>2 DEF read_ata_bytes, ata_max_offset
  <2> HIDE DEF bytes
  <2>. QED  BY <1>1, <2>1, <2>3 DEF bytes
<1>2. CASE size # 0
  <2>1. size \in Nat \ {0}
    BY <1>2
  <2>2. /\ IsSeq(bytes) /\ Len(bytes) = size
        /\ \A i \in 1 .. size : bytes[i] = disk[from + i]
    BY <2>1, RangeIs
  <2>3. DOMAIN bytes = 1 .. size
    BY <2>2, SeqBasics
  <2>. QED  BY <2>2, <2>3
<1>. QED  BY <1>1, <1>2

\* A range of a file of the initrd.
LEMMA InitrdTrue ==
    ASSUME NEW m, NEW node, NEW L \in Nat, m.initrd[node.inode].length = L, NEW from \in Nat, NEW size \in Nat
    PROVE  /\ from + size <= L => Len(initrd_read(m, node, from, size).bytes) = size
           /\ \A i \in DOMAIN initrd_read(m, node, from, size).bytes :
                initrd_read(m, node, from, size).bytes[i] =
                    [kind |-> "initrd", of |-> node.inode, at |-> from + i]
<1> DEFINE data == [i \in 1 .. L |-> [kind |-> "initrd", of |-> node.inode, at |-> i]]
           n == IF from + size > L THEN L - from ELSE size
           bytes == initrd_read(m, node, from, size).bytes
<1>1. CASE from > L
  <2>1. bytes = <<>>
    BY <1>1 DEF initrd_read, NoBytes, Answer
  <2>. QED  BY <1>1, <2>1, NothingTaken
<1>2. CASE ~(from > L)
  <2>1. bytes = SubSeq(data, from + 1, from + n)
    BY <1>2 DEF initrd_read, Answer
  <2>2. n \in Nat /\ from + n <= L /\ (from + size <= L => n = size)
    BY <1>2
  <2>3. \A i \in 1 .. L : data[i] = [kind |-> "initrd", of |-> node.inode, at |-> i]
    OBVIOUS
  <2> HIDE DEF data, bytes, n
  <2>4. \A s : \A a, b \in Int : b >= a - 1 =>
           /\ Len(SubSeq(s, a, b)) = b - a + 1 /\ DOMAIN SubSeq(s, a, b) = 1 .. b - a + 1
           /\ \A i \in 1 .. b - a + 1 : SubSeq(s, a, b)[i] = s[a + i - 1]
    OBVIOUS
  <2>5. /\ Len(bytes) = n /\ DOMAIN bytes = 1 .. n
        /\ \A i \in 1 .. n : bytes[i] = data[from + i]
    <3> DEFINE a == from + 1
               b == from + n
    <3>1. a \in Int /\ b \in Int /\ b >= a - 1 /\ b - a + 1 = n /\ \A i \in 1 .. n : a + i - 1 = from + i
      BY <2>2
    <3>2. bytes = SubSeq(data, a, b)
      BY <2>1
    <3> HIDE DEF a, b
    <3>3. /\ Len(bytes) = b - a + 1 /\ DOMAIN bytes = 1 .. b - a + 1
          /\ \A i \in 1 .. b - a + 1 : bytes[i] = data[a + i - 1]
      BY <2>4, <3>1, <3>2
    <3>. QED  BY <3>1, <3>3
  <2>6. \A i \in 1 .. n : from + i \in 1 .. L
    BY <2>2
  <2>. QED  BY <2>2, <2>3, <2>5, <2>6 DEF bytes
<1>. QED  BY <1>1, <1>2

\* A range of a file of FAT32 that the disk holds.
StoredAt(disk, v, node, n) ==
    /\ Spans(disk, v, Linked(disk, v, node.inode), n)
    /\ node.length <= n * cluster_size(v)
    /\ \A k \in 0 .. node.length - 1 : UnitsOf(disk, v, Linked(disk, v, node.inode), n)[k] =
                                          [kind |-> "data", of |-> node.inode, at |-> k + 1]
Crosses(v, from, size) == from % cluster_size(v) # 0 /\ (from % cluster_size(v)) + size > cluster_size(v)

LEMMA CopiedTrue ==
    ASSUME NEW disk, NEW v, NEW node, node.length \in Nat, NEW n \in 0 .. Len(disk),
           StoredAt(disk, v, node, n), NEW from \in Nat, NEW size \in Nat,
           from + size <= node.length, ~Crosses(v, from, size)
    PROVE  /\ Len(fat32_read_file(disk, v, node.inode, from, size).bytes) = size
           /\ \A i \in DOMAIN fat32_read_file(disk, v, node.inode, from, size).bytes :
                fat32_read_file(disk, v, node.inode, from, size).bytes[i] =
                    [kind |-> "data", of |-> node.inode, at |-> from + i]
<1> DEFINE bytes == fat32_read_file(disk, v, node.inode, from, size).bytes
           to == Linked(disk, v, node.inode)
<1>1. CASE size = 0
  <2>1. \A chain : Len(Copied(disk, v, chain, from, 0).bytes) = 0
                   /\ DOMAIN Copied(disk, v, chain, from, 0).bytes = {}
    BY NothingTaken DEF Copied, Fails, NoBytes, Answer
  <2>2. bytes = Copied(disk, v, fat32_create_fat_cluster_chain(disk, v, node.inode), from, 0).bytes
    BY <1>1 DEF fat32_read_file
  <2> HIDE DEF bytes
  <2>. QED  BY <1>1, <2>1, <2>2 DEF bytes
<1>2. CASE size # 0
  <2>1. size \in Nat \ {0}
    BY <1>2
  <2>2. Spans(disk, v, to, n)
    BY DEF StoredAt
  <2>3. from + size <= n * cluster_size(v)
    <3>1. n * cluster_size(v) \in Int
      <4>1. v.sectors \in Nat /\ SECTOR \in Nat
        BY <2>2, Fat32Assumption DEF Spans
      <4>2. cluster_size(v) \in Nat
        BY <4>1 DEF cluster_size
      <4>. QED  BY <4>2
    <3>2. node.length <= n * cluster_size(v)
      BY DEF StoredAt
    <3>. QED  BY <3>1, <3>2
  <2>4. ~(from % cluster_size(v) # 0 /\ (from % cluster_size(v)) + size > cluster_size(v))
    BY DEF Crosses
  <2> DEFINE start == node.inode
  <2> HIDE DEF start
  <2>5. Spans(disk, v, Linked(disk, v, start), n)
    BY <2>2 DEF start
  <2>6. /\ IsSeq(fat32_read_file(disk, v, start, from, size).bytes)
        /\ Len(fat32_read_file(disk, v, start, from, size).bytes) = size
        /\ \A i \in 1 .. size : fat32_read_file(disk, v, start, from, size).bytes[i] =
                                  UnitsOf(disk, v, Linked(disk, v, start), n)[from + i - 1]
    BY <2>1, <2>3, <2>4, <2>5, CopiedIs
  <2>7. /\ IsSeq(bytes) /\ Len(bytes) = size
        /\ \A i \in 1 .. size : bytes[i] = UnitsOf(disk, v, to, n)[from + i - 1]
    BY <2>6 DEF start
  <2>8. DOMAIN bytes = 1 .. size
    BY <2>7, SeqBasics
  <2>9. ASSUME NEW i \in 1 .. size PROVE bytes[i] = [kind |-> "data", of |-> node.inode, at |-> from + i]
    <3>1. from + i - 1 \in 0 .. node.length - 1 /\ (from + i - 1) + 1 = from + i
      OBVIOUS
    <3>2. UnitsOf(disk, v, to, n)[from + i - 1] =
              [kind |-> "data", of |-> node.inode, at |-> (from + i - 1) + 1]
      BY <3>1 DEF StoredAt
    <3> HIDE DEF bytes, to
    <3>. QED  BY <2>7, <3>1, <3>2
  <2>. QED  BY <2>7, <2>8, <2>9
<1>. QED  BY <1>1, <1>2

LEMMA FatTrue ==
    ASSUME NEW m, NEW v, NEW node, Rereads(m, v, node), node.flags # "directory", node.length \in Nat,
           NEW n \in 0 .. Len(m.disks[1]), StoredAt(m.disks[1], v, node, n), Len(m.disks[1]) \in Nat,
           NEW from \in Nat, NEW size \in Nat, ~Crosses(v, from, size)
    PROVE  /\ from + size <= node.length => Len(fat32_read(m.disks[1], v, node, from, size).bytes) = size
           /\ \A i \in DOMAIN fat32_read(m.disks[1], v, node, from, size).bytes :
                fat32_read(m.disks[1], v, node, from, size).bytes[i] =
                    [kind |-> "data", of |-> node.inode, at |-> from + i]
<1> DEFINE disk == m.disks[1]
           answer == fat32_read(disk, v, node, from, size)
<1>1. PICK e : /\ fat32_finddir_raw(m.disks[1], v, node.parent, node.name) = [is |-> "entry", entry |-> e]
               /\ e.dated /\ e.attribute = "file" /\ e.cluster = node.inode /\ e.size = node.length
  BY DEF Rereads
<1>2. Served(e, from, size) <=> from + size <= node.length
  BY <1>1 DEF Served
<1>3. CASE node.inode = 0
  <2>1. answer = NoBytes
    BY <1>3 DEF fat32_read
  <2>2. n = 0
    <3>1. n # 0 => 0 \in 0 .. n - 1
      OBVIOUS
    <3>2. n # 0 => Linked(disk, v, node.inode)[0] # 0
      BY <3>1 DEF StoredAt, Spans
    <3>3. Linked(disk, v, node.inode)[0] = node.inode
      BY LinkedSteps
    <3>. QED  BY <1>3, <3>2, <3>3
  <2>3. node.length <= 0
    <3>1. v.sectors \in Nat /\ SECTOR \in Nat
      BY Fat32Assumption DEF StoredAt, Spans
    <3>2. cluster_size(v) \in Nat
      BY <3>1 DEF cluster_size
    <3>3. n * cluster_size(v) = 0
      BY <2>2, <3>2
    <3>4. node.length <= n * cluster_size(v)
      BY DEF StoredAt
    <3>. QED  BY <3>3, <3>4
  <2>4. from + size <= node.length => size = 0
    BY <2>3
  <2>. QED  BY <2>1, <2>4, NothingTaken DEF NoBytes, Answer
<1>4. CASE node.inode # 0 /\ ~(from + size <= node.length)
  <2>1. answer = NoBytes
    BY <1>1, <1>2, <1>4 DEF fat32_read, ReadFound
  <2>. QED  BY <1>4, <2>1, NothingTaken DEF NoBytes, Answer
<1>5. CASE node.inode # 0 /\ from + size <= node.length
  <2>1. answer = fat32_read_file(disk, v, node.inode, from, size)
    BY <1>1, <1>2, <1>5 DEF fat32_read, ReadFound
  <2> HIDE DEF answer, disk
  <2>2. /\ node.length \in Nat /\ n \in 0 .. Len(disk) /\ StoredAt(disk, v, node, n)
        /\ from + size <= node.length /\ ~Crosses(v, from, size)
    BY <1>5 DEF disk
  <2>3. /\ Len(fat32_read_file(disk, v, node.inode, from, size).bytes) = size
        /\ \A i \in DOMAIN fat32_read_file(disk, v, node.inode, from, size).bytes :
             fat32_read_file(disk, v, node.inode, from, size).bytes[i] =
                 [kind |-> "data", of |-> node.inode, at |-> from + i]
    BY <2>2, CopiedTrue
  <2>. QED  BY <2>1, <2>3 DEF answer, disk
<1>. QED  BY <1>3, <1>4, <1>5

\* Of a plain path a read gives the file's units, and all that were asked for
\* when the range lies in the file.
LEMMA ReadTrue ==
    ASSUME FilesInv, MountsInv, pc # "vfs", NEW path, IsSeq(path), Plain(path), Stored(Named(path)),
           Open(path).is = "node", NEW from, NEW size,
           Open(path).node.length \in Nat => from \in Nat /\ size \in Nat
    PROVE  TrueBytes(Named(path), from, size, read_fs(Here, volume, Open(path).node, from, size).bytes)
<1> DEFINE node == Open(path).node
           named == Named(path)
           bytes == read_fs(Here, volume, node, from, size).bytes
<1>1. Same(node, named) /\ (node.fs = "fat32" => Rereads(Here, volume, node))
  BY OpenExact DEF Agrees, FoundAgain
<1>2. /\ node.fs = named.fs /\ node.flags = named.flags /\ node.inode = named.inode
      /\ node.length = named.length
  BY <1>1 DEF Same
<1>3. node.length \in Nat => from \in Nat /\ size \in Nat
  OBVIOUS
<1>4. \/ node.flags = "directory"
      \/ \E u \in 1 .. 4 : node = ata_device_create(u, Here.disks[u])
      \/ \E k \in DOMAIN Here.initrd : node = Node("initrd", "file", k, 0, NoName, Here.initrd[k].length)
      \/ node.fs = "fat32"
  BY NodeIs, NullIsNot DEF fat32_create_fs_node, vfs_mapper, initrd_root
<1>5. Stored(named)
  OBVIOUS
<1> HIDE DEF node, named
<1>6. ASSUME node.flags = "directory" PROVE TrueBytes(named, from, size, bytes)
  BY <1>2, <1>6 DEF TrueBytes
<1>7. ASSUME NEW u \in 1 .. 4, node = ata_device_create(u, Here.disks[u])
      PROVE  TrueBytes(named, from, size, bytes)
  <2> DEFINE disk == Here.disks[u]
  <2>1. node.fs = "ata" /\ node.inode = u /\ node.length = Len(disk)
    BY <1>7 DEF ata_device_create, Node, ata_max_offset
  <2>2. Len(disk) \in Nat
    <3>1. disk \in Seq(Units(disk))
      BY DisksAre
    <3> HIDE DEF disk
    <3>. QED  BY <3>1, LenProperties
  <2>3. bytes = read_ata_bytes(disk, from, size).bytes
    BY <2>1 DEF read_fs
  <2>4. \A i : Datum(named, from + i) = disk[from + i]
    BY <1>2, <2>1 DEF Datum
  <2> HIDE DEF disk, bytes
  <2>5. from \in Nat /\ size \in Nat
    BY <1>3, <2>1, <2>2
  <2>6. ASSUME from + size <= named.length
        PROVE  Len(bytes) = size /\ \A i \in DOMAIN bytes : bytes[i] = disk[from + i]
    BY <1>2, <2>1, <2>2, <2>3, <2>5, <2>6, RawTrue
  <2>. QED  BY <1>2, <2>1, <2>4, <2>6 DEF TrueBytes
<1>8. ASSUME NEW k \in DOMAIN Here.initrd,
             node = Node("initrd", "file", k, 0, NoName, Here.initrd[k].length)
      PROVE  TrueBytes(named, from, size, bytes)
  <2> DEFINE L == Here.initrd[k].length
  <2>1. node.fs = "initrd" /\ node.flags = "file" /\ node.inode = k /\ node.length = L
    BY <1>8 DEF Node
  <2>2. L \in Nat
    <3> DEFINE files == Here.initrd
               Kinds == [name : STRING, length : Nat]
    <3>1. files \in Seq(Kinds)
      BY MachineIs DEF FilesInv, IsMachine
    <3>2. k \in DOMAIN files
      OBVIOUS
    <3> DEFINE f == files[k]
    <3> HIDE DEF files, Kinds
    <3>3. f \in Kinds
      BY <3>1, <3>2
    <3> HIDE DEF f
    <3>4. f.length \in Nat
      BY <3>3 DEF Kinds
    <3>. QED  BY <3>4 DEF f, files
  <2>3. bytes = initrd_read(Here, node, from, size).bytes
    BY <2>1 DEF read_fs
  <2>4. \A i : Datum(named, from + i) = [kind |-> "initrd", of |-> node.inode, at |-> from + i]
    BY <1>2, <2>1 DEF Datum
  <2>5. Here.initrd[node.inode].length = L
    BY <2>1
  <2> HIDE DEF L, bytes
  <2>6. from \in Nat /\ size \in Nat
    BY <1>3, <2>1, <2>2
  <2>7. /\ from + size <= L => Len(bytes) = size
        /\ \A i \in DOMAIN bytes : bytes[i] = [kind |-> "initrd", of |-> node.inode, at |-> from + i]
    BY <2>2, <2>3, <2>5, <2>6, InitrdTrue
  <2>. QED  BY <1>2, <2>1, <2>4, <2>7 DEF TrueBytes
<1>9. ASSUME node.fs = "fat32", node.flags # "directory"
      PROVE  TrueBytes(named, from, size, bytes)
  <2> DEFINE disk == Here.disks[1]
  <2>1. node.flags = "file" /\ Rereads(Here, volume, node)
    BY <1>1, <1>9 DEF Rereads
  <2>2. /\ named.length \in Nat
        /\ \E n \in 0 .. Len(disk) :
             /\ Spans(disk, volume, Linked(disk, volume, named.inode), n)
             /\ named.length <= n * cluster_size(volume)
             /\ \A j \in 0 .. named.length - 1 :
                    UnitsOf(disk, volume, Linked(disk, volume, named.inode), n)[j] = Datum(named, j + 1)
    BY <1>2, <1>5, <1>9, <2>1 DEF Stored
  <2>3. \A i : Datum(named, i) = [kind |-> "data", of |-> node.inode, at |-> i]
    BY <1>2, <1>9 DEF Datum
  <2>4. PICK n \in 0 .. Len(disk) : StoredAt(disk, volume, node, n)
    <3> HIDE DEF disk
    <3>. QED  BY <1>2, <2>2, <2>3 DEF StoredAt
  <2>5. Len(disk) \in Nat
    <3>1. disk \in Seq(Units(disk))
      BY DisksAre
    <3> HIDE DEF disk
    <3>. QED  BY <3>1, LenProperties
  <2>6. bytes = fat32_read(disk, volume, node, from, size).bytes
    BY <1>9 DEF read_fs
  <2>7. from \in Nat /\ size \in Nat /\ node.length \in Nat
    BY <1>2, <1>3, <2>2
  <2> HIDE DEF bytes
  <2>8. ASSUME ~Crosses(volume, from, size)
        PROVE  /\ from + size <= node.length => Len(bytes) = size
               /\ \A i \in DOMAIN bytes : bytes[i] = [kind |-> "data", of |-> node.inode, at |-> from + i]
    BY <1>9, <2>1, <2>4, <2>5, <2>6, <2>7, <2>8, FatTrue
  <2>9. \A i : Datum(named, from + i) = [kind |-> "data", of |-> node.inode, at |-> from + i]
    BY <2>3
  <2>. QED  BY <1>2, <1>9, <2>8, <2>9 DEF TrueBytes, Crosses
<1>10. TrueBytes(named, from, size, bytes)
  <2> HIDE DEF bytes
  <2>. QED  BY <1>4, <1>6, <1>7, <1>8, <1>9
<1>. QED  BY <1>10 DEF bytes, node, named

\* The names of the entries right below a path.
ChildNames(t, path) == {Last(t[i].path) : i \in {j \in DOMAIN t : IsChild(t[j], path)}}

LEMMA NamesAre ==
    ASSUME NEW t, IsTree(t), NEW path
    PROVE  NamesIn(t, path) \in Seq(ChildNames(t, path))
<1> DEFINE T == ChildNames(t, path)
           n == Len(t)
           part(i) == IF IsChild(t[i], path) THEN <<Last(t[i].path)>> ELSE <<>>
           parts == [i \in 1 .. n |-> part(i)]
<1>1. IsSeq(t) /\ n \in Nat /\ DOMAIN t = 1 .. n
  BY SeqBasics DEF IsTree
<1>2. n # 0
  BY <1>1 DEF IsTree, Known
<1>3. NamesIn(t, path) = FlattenSeq(parts)
  BY <1>1 DEF NamesIn
<1>4. ASSUME NEW i \in 1 .. n PROVE part(i) \in Seq(T)
  <2>1. CASE IsChild(t[i], path)
    <3>1. Last(t[i].path) \in T
      BY <1>1, <2>1 DEF ChildNames
    <3> DEFINE name == Last(t[i].path)
    <3>2. part(i) = <<name>>
      BY <2>1
    <3> HIDE DEF name, T, part
    <3>. QED  BY <3>1, <3>2 DEF name
  <2>2. CASE ~IsChild(t[i], path)
    BY <2>2
  <2>. QED  BY <2>1, <2>2
<1> HIDE DEF T, part
<1>5. \A i \in 1 .. n : parts[i] = part(i)
  OBVIOUS
<1>6. parts = [i \in 1 .. n |-> parts[i]]
  OBVIOUS
<1> HIDE DEF parts, n
<1>7. IsSeq(parts) /\ Len(parts) = n
  BY <1>1, <1>6, MapAny
<1> DEFINE k == n - 1
<1>8. k \in Nat /\ n = k + 1
  BY <1>1, <1>2
<1>9. Len(parts) = k + 1 /\ \A i \in 1 .. k + 1 : parts[i] \in Seq(T)
  BY <1>4, <1>5, <1>7, <1>8
<1> HIDE DEF k
<1>10. FlattenSeq(parts) \in Seq(T)
  BY <1>7, <1>8, <1>9, FlattenLast
<1>. QED  BY <1>3, <1>10 DEF T

\* An entry right below a path has the path and its own name.
LEMMA ChildPath ==
    ASSUME NEW e, IsSeq(e.path), NEW path, IsChild(e, path)
    PROVE  IsSeq(path) /\ e.path = Append(path, Last(e.path))
<1> DEFINE p == e.path
           n == Len(p)
<1>1. p # <<>> /\ SubSeq(p, 1, n - 1) = path
  BY DEF IsChild, Front
<1>2. n \in Nat /\ n # 0
  BY <1>1, SeqBasics, EmptyIs, SameSeq
<1>3. Last(p) = p[n]
  BY DEF Last
<1> HIDE DEF p, n
<1>4. n - 1 \in 0 .. n
  BY <1>2
<1>5. IsSeq(path) /\ Len(path) = n - 1 /\ \A i \in 1 .. n - 1 : path[i] = p[i]
  <2>1. n - 1 \in 0 .. Len(p) /\ IsSeq(p)
    BY <1>4 DEF n, p
  <2>2. IsSeq(Prefix(p, n - 1)) /\ Len(Prefix(p, n - 1)) = n - 1 /\ \A i \in 1 .. n - 1 : Prefix(p, n - 1)[i] = p[i]
    BY <2>1, PrefixIs
  <2>. QED  BY <1>1, <2>2 DEF Prefix
<1> DEFINE q == Append(path, p[n])
<1>6. /\ IsSeq(q) /\ Len(q) = (n - 1) + 1 /\ \A i \in 1 .. n - 1 : q[i] = path[i]
      /\ q[(n - 1) + 1] = p[n]
  BY <1>5, AppendAny
<1> HIDE DEF q
<1>7. \A i \in 1 .. n : q[i] = p[i]
  BY <1>2, <1>5, <1>6
<1>8. Len(q) = n /\ (n - 1) + 1 = n
  BY <1>2, <1>6
<1>9. p = q
  <2>1. IsSeq(p) /\ Len(p) = n
    BY DEF p, n
  <2>. QED  BY <1>6, <1>7, <1>8, <2>1, SameSeq
<1>. QED  BY <1>3, <1>5, <1>9 DEF q, p

\* A mount on the way to a path is no deeper than the deepest.
LEMMA MountAbove ==
    ASSUME IsTree(tree), NEW path, IsSeq(path), NEW k \in 1 .. Len(path),
           NEW i \in DOMAIN tree, tree[i].path = Prefix(path, k), tree[i].file # NULL
    PROVE  k <= Deepest(path)
<1> DEFINE below == get_mount_point(tree, path)
           N == Len(path)
<1>1. Climbing(tree, path, N, below)
  BY MountPoint
<1>2. N \in Nat /\ below.depth \in 0 .. N /\ \A j \in below.depth + 1 .. N : ~MountedAt(tree, Prefix(path, j))
  BY <1>1, SeqBasics DEF Climbing
<1>3. Deepest(path) = below.depth
  BY DeepestIs
<1>4. Known(tree, Prefix(path, k))
  BY DEF Known
<1>5. PICK j \in DOMAIN tree : tree[j].path = Prefix(path, k) /\ FileAt(tree, Prefix(path, k)) = tree[j].file
  BY <1>4, FileAtKnown
<1>6. i = j
  BY <1>5 DEF IsTree
<1>7. MountedAt(tree, Prefix(path, k))
  BY <1>4, <1>5, <1>6 DEF MountedAt
<1> HIDE DEF below, N
<1>8. k \in 1 .. N
  BY DEF N
<1>. QED  BY <1>2, <1>3, <1>7, <1>8

\* A path that is mounted names what is mounted there.
LEMMA MountNamed ==
    ASSUME IsTree(tree), NEW path, IsSeq(path), Deepest(path) = Len(path), path # <<>>
    PROVE  Named(path) # NULL
<1> DEFINE N == Len(path)
<1>1. N \in Nat /\ N # 0
  BY SeqBasics, EmptyIs, SameSeq
<1>2. FileAt(tree, Prefix(path, N)) # NULL
  BY <1>1, DeepestIs
<1>3. N \in 0 .. Len(path)
  BY <1>1
<1>4. NamedTo(path, N)[N] = FileAt(tree, Prefix(path, N))
  BY <1>3, NamedSteps
<1>. QED  BY <1>2, <1>4 DEF Named

\* What a listing of the mapper's directory names is mounted.
LEMMA MapperNamed ==
    ASSUME FilesInv, MountsInv, pc # "vfs", NEW index,
           NameAt(readdir_mapper(tree, vfs_mapper(<<"dev">>)), index) \notin {NONE, UP, DOT}
    PROVE  Named(Append(<<"dev">>, NameAt(readdir_mapper(tree, vfs_mapper(<<"dev">>)), index))) # NULL
<1> DEFINE dev == <<"dev">>
           T == ChildNames(tree, dev)
           names == NamesIn(tree, dev)
           first == <<DOT, UP>>
           all == first \o names
           name == NameAt(readdir_mapper(tree, vfs_mapper(dev)), index)
           path == Append(dev, name)
<1>1. IsTree(tree)
  BY DEF FilesInv, BootInv
<1>2. names \in Seq(T)
  BY <1>1, NamesAre
<1>3. readdir_mapper(tree, vfs_mapper(dev)) = all
  BY DEF readdir_mapper, vfs_mapper, Node
<1>4. IsSeq(dev) /\ Len(dev) = 1
  BY DevIs
<1>5. name \notin {NONE, UP, DOT}
  OBVIOUS
<1>6. index \in DOMAIN all /\ name = all[index]
  BY <1>3, <1>5 DEF NameAt
<1> DEFINE V == T \union {DOT, UP}
<1>7. first \in Seq(V) /\ Len(first) = 2 /\ first[1] = DOT /\ first[2] = UP
  <2>1. DOT \in V /\ UP \in V
    OBVIOUS
  <2> HIDE DEF V
  <2>. QED  BY <2>1
<1>8. names \in Seq(V)
  <2>1. T \in SUBSET V
    OBVIOUS
  <2> HIDE DEF T, V, names
  <2>. QED  BY <1>2, <2>1
<1> HIDE DEF name, V, names, first, T, dev
<1>9. name \in T
  <2>1. Len(names) \in Nat /\ \A i \in 1 .. Len(names) : names[i] \in T
    BY <1>2, LenProperties, ElementOfSeq
  <2>2. /\ all \in Seq(V) /\ Len(all) = 2 + Len(names)
        /\ \A i \in 1 .. 2 + Len(names) : all[i] = IF i <= 2 THEN first[i] ELSE names[i - 2]
    <3>1. /\ first \o names \in Seq(V) /\ Len(first \o names) = Len(first) + Len(names)
          /\ \A i \in 1 .. Len(first) + Len(names) :
               (first \o names)[i] = IF i <= Len(first) THEN first[i] ELSE names[i - Len(first)]
      BY <1>7, <1>8, ConcatProperties
    <3>. QED  BY <1>7, <3>1
  <2>3. index \in 1 .. 2 + Len(names)
    BY <1>6, <2>2, LenProperties
  <2> HIDE DEF all
  <2>4. CASE index <= 2
    <3>1. index = 1 \/ index = 2
      BY <2>1, <2>3, <2>4
    <3>. QED  BY <1>5, <1>6, <1>7, <2>2, <2>3, <2>4, <3>1
  <2>5. CASE ~(index <= 2)
    <3>1. index - 2 \in 1 .. Len(names) /\ all[index] = names[index - 2]
      BY <2>1, <2>2, <2>3, <2>5
    <3>. QED  BY <1>6, <2>1, <3>1
  <2>. QED  BY <2>4, <2>5
<1>10. PICK i \in DOMAIN tree : IsChild(tree[i], dev) /\ name = Last(tree[i].path)
  BY <1>9 DEF T, ChildNames
<1>11. tree[i].path = path
  <2>1. IsSeq(tree[i].path)
    BY <1>1 DEF IsTree
  <2>. QED  BY <1>10, <2>1, ChildPath
<1>12. IsSeq(path) /\ Len(path) = 2
  <2>1. /\ IsSeq(Append(dev, name)) /\ Len(Append(dev, name)) = Len(dev) + 1
        /\ \A j \in 1 .. Len(dev) : Append(dev, name)[j] = dev[j]
        /\ Append(dev, name)[Len(dev) + 1] = name
    BY <1>4, AppendAny
  <2>. QED  BY <1>4, <2>1
<1>13. path # <<>> /\ Deepest(path) = 2
  <2> HIDE DEF path
  <2>1. path # <<>>
    BY <1>12, EmptyIs
  <2>2. MountOk(Here.disks, tree[i])
    BY DEF MountsInv, MountsOk
  <2>3. tree[i].file # NULL
    BY <1>11, <2>1, <2>2, NullIsNot DEF MountOk, vfs_mapper, initrd_root, ata_device_create, NONE
  <2>4. 2 \in 1 .. Len(path) /\ tree[i].path = Prefix(path, 2)
    <3>1. Prefix(path, Len(path)) = path /\ Prefix(path, 0) = <<>>
      BY <1>12, WholePrefix
    <3>. QED  BY <1>11, <1>12, <3>1
  <2>5. 2 <= Deepest(path)
    BY <1>1, <1>12, <2>3, <2>4, MountAbove
  <2>6. Deepest(path) \in 0 .. Len(path)
    BY <1>1, <1>12, DeepestIs
  <2>. QED  BY <1>12, <2>1, <2>5, <2>6
<1>14. Named(path) # NULL
  <2> HIDE DEF path
  <2>1. Deepest(path) = Len(path)
    BY <1>12, <1>13
  <2>. QED  BY <1>1, <1>12, <1>13, <2>1, MountNamed
<1>. QED  BY <1>14 DEF name, dev

\* What a listing of the initrd names is a file of it, or mounted over one.
LEMMA InitrdNamed ==
    ASSUME FilesInv, MountsInv, pc # "vfs", NEW path, IsSeq(path),
           NEW i \in DOMAIN tree, tree[i].path = path, tree[i].file = initrd_root,
           NEW k \in DOMAIN Here.initrd
    PROVE  Named(Append(path, Here.initrd[k].name)) # NULL
<1> DEFINE name == Here.initrd[k].name
           q == Append(path, name)
           n == Len(path)
           d == Deepest(q)
<1>1. IsTree(tree)
  BY DEF FilesInv, BootInv
<1>2. n \in Nat
  BY SeqBasics
<1>3. /\ IsSeq(q) /\ Len(q) = n + 1 /\ \A j \in 1 .. n : q[j] = path[j]
      /\ q[n + 1] = name
  BY AppendAny
<1> HIDE DEF q, name
<1>4. q # <<>>
  BY <1>2, <1>3, EmptyIs
<1>5. Prefix(q, n) = path
  <2>1. n \in 0 .. Len(q)
    BY <1>2, <1>3
  <2>2. IsSeq(Prefix(q, n)) /\ Len(Prefix(q, n)) = n /\ \A j \in 1 .. n : Prefix(q, n)[j] = q[j]
    BY <1>3, <2>1, PrefixIs
  <2>. QED  BY <1>3, <2>2, SameSeq
<1>6. initrd_root # NULL
  BY NullIsNot DEF initrd_root, NONE
<1>7. d \in 0 .. n + 1
  BY <1>1, <1>3, DeepestIs
<1>8. n <= d
  <2>1. CASE n = 0
    BY <1>7, <2>1
  <2>2. CASE n # 0
    <3>1. n \in 1 .. Len(q) /\ tree[i].path = Prefix(q, n) /\ tree[i].file # NULL
      BY <1>2, <1>3, <1>5, <1>6, <2>2
    <3>. QED  BY <1>1, <1>3, <3>1, MountAbove
  <2>. QED  BY <2>1, <2>2
<1> HIDE DEF n
<1>9. ASSUME d = n + 1 PROVE Named(q) # NULL
  BY <1>1, <1>3, <1>4, <1>9, MountNamed
<1>10. ASSUME d = n PROVE Named(q) # NULL
  <2>1. d \in 0 .. Len(q) /\ n + 1 \in d + 1 .. Len(q) /\ (n + 1) - 1 = n
    BY <1>2, <1>3, <1>10
  <2> DEFINE node == NamedTo(q, d)
  <2>2. node[d] = FileAt(tree, Prefix(q, d))
    BY <1>3, <2>1, NamedSteps
  <2>3. \A j \in d + 1 .. Len(q) : node[j] = Below(Here, node[j - 1], q[j])
    BY <1>3, <2>1, NamedSteps
  <2>4. FileAt(tree, path) = initrd_root
    <3>1. Known(tree, path)
      BY DEF Known
    <3>2. PICK j \in DOMAIN tree : tree[j].path = path /\ FileAt(tree, path) = tree[j].file
      BY <3>1, FileAtKnown
    <3>3. i = j
      BY <1>1, <3>2 DEF IsTree
    <3>. QED  BY <3>2, <3>3
  <2>5. Named(q) = node[n + 1]
    BY <1>3 DEF Named
  <2> HIDE DEF node, d
  <2>6. node[n + 1] = Below(Here, initrd_root, name)
    BY <1>3, <1>5, <1>10, <2>1, <2>2, <2>3, <2>4
  <2>7. Below(Here, initrd_root, name) = InitrdNode(Here.initrd, name)
    BY NullIsNot DEF Below, initrd_root
  <2>8. InitrdNode(Here.initrd, name) # NULL
    <3> DEFINE files == Here.initrd
               I == {j \in DOMAIN files : files[j].name = name}
    <3>1. k \in I
      BY DEF name
    <3>2. InitrdNode(files, name) = IF I = {} THEN NULL
              ELSE Node("initrd", "file", Min(I), 0, NoName, files[Min(I)].length)
      BY DEF InitrdNode
    <3>3. InitrdNode(files, name).fs = "initrd"
      <4> HIDE DEF I
      <4>. QED  BY <3>1, <3>2, NullIsNot
    <3>. QED  BY <3>3, NullIsNot DEF NONE
  <2>. QED  BY <2>5, <2>6, <2>7, <2>8
<1>11. Named(q) # NULL
  <2>1. d = n \/ d = n + 1
    <3> HIDE DEF d
    <3>. QED  BY <1>2, <1>7, <1>8
  <2>. QED  BY <1>9, <1>10, <2>1
<1>. QED  BY <1>11 DEF q, name

\* What a listing names is there.
LEMMA NameTrue ==
    ASSUME FilesInv, MountsInv, pc # "vfs", NEW r, GaveName(Here, volume, tree, r)
    PROVE  Named(r.path) # NULL
<1>1. PICK path, index :
        /\ IsSeq(path) /\ Open(path).is = "node"
        /\ readdir_fs(Here, tree, Open(path).node, index) \notin {NONE, UP, DOT}
        /\ r.path = Append(path, readdir_fs(Here, tree, Open(path).node, index))
  BY DEF GaveName, Open
<1> DEFINE node == Open(path).node
           name == readdir_fs(Here, tree, node, index)
<1>2. CASE node.fs = "mapper"
  <2>1. path = <<"dev">> /\ node = vfs_mapper(<<"dev">>)
    BY <1>1, <1>2, NodeIs, NullIsNot DEF fat32_create_fs_node, initrd_root, ata_device_create
  <2>2. name = NameAt(readdir_mapper(tree, vfs_mapper(<<"dev">>)), index)
    BY <1>2, <2>1 DEF readdir_fs
  <2> HIDE DEF name
  <2>3. name \notin {NONE, UP, DOT} /\ r.path = Append(path, name)
    BY <1>1 DEF name
  <2>. QED  BY <2>1, <2>2, <2>3, MapperNamed
<1>3. CASE node.fs = "initrd" /\ node.flags = "directory"
  <2>1. node = initrd_root
    BY <1>1, <1>3, NodeIs, NullIsNot DEF fat32_create_fs_node, vfs_mapper, ata_device_create
  <2>2. PICK i \in DOMAIN tree : tree[i].path = path /\ node = tree[i].file
    <3>1. ASSUME NEW left, NEW nm, finddir_fs(Here, volume, left, nm).is = "node",
                 node = finddir_fs(Here, volume, left, nm).node
          PROVE  FALSE
      <4> DEFINE got == finddir_fs(Here, volume, left, nm).node
      <4>1. \/ \E k \in DOMAIN Here.initrd : got = Node("initrd", "file", k, 0, NoName, Here.initrd[k].length)
            \/ got.fs = "fat32"
        BY <3>1, FoundFile
      <4>2. got.fs = "initrd" /\ got.flags = "directory"
        BY <1>3, <3>1
      <4> HIDE DEF got
      <4>. QED  BY <4>1, <4>2, NullIsNot
    <3>. QED  BY <1>1, <3>1, OpenShape
  <2>3. name = NameAt(initrd_readdir(Here), index)
    BY <1>3 DEF readdir_fs
  <2> HIDE DEF node
  <2>4. name \notin {NONE, UP, DOT} /\ r.path = Append(path, name)
    BY <1>1 DEF node
  <2>5. DOMAIN initrd_readdir(Here) = DOMAIN Here.initrd
        /\ \A k \in DOMAIN Here.initrd : initrd_readdir(Here)[k] = Here.initrd[k].name
    BY DEF initrd_readdir
  <2> HIDE DEF name
  <2>6. index \in DOMAIN Here.initrd /\ name = Here.initrd[index].name
    BY <2>3, <2>4, <2>5 DEF NameAt
  <2>. QED  BY <1>1, <2>1, <2>2, <2>4, <2>6, InitrdNamed
<1>4. CASE ~(node.fs = "mapper") /\ ~(node.fs = "initrd" /\ node.flags = "directory")
  <2>1. name = NameAt(<<>>, index)
    BY <1>4 DEF readdir_fs, fat32_readdir
  <2>2. name = NONE
    BY <2>1, NothingTaken DEF NameAt
  <2>. QED  BY <1>1, <2>2
<1>. QED  BY <1>2, <1>3, <1>4

\* A read answers with the bytes of the file its path names, and all of them
\* when the range lies in the file; what a listing names is there (sys_read_fs,
\* sys_readdir, load_program, read_fs, read_ata_bytes, fat32_read, initrd_read).
THEOREM ReadsBytesInvariant == FilesSpec => []ReadsBytes
<1>1. FilesInv /\ MountsInv /\ FoundInv /\ GivenInv => ReadsBytes
  <2> SUFFICES ASSUME FilesInv, MountsInv, FoundInv, GivenInv PROVE ReadsBytes
    OBVIOUS
  <2>1. reply.op \in {"bytes", "name"} => pc # "vfs"
    BY DEF FoundInv, ReplyInv, NoReply, NONE
  <2>2. ASSUME reply.op = "name" PROVE Named(reply.path) # NULL
    BY <2>1, <2>2, NameTrue DEF GivenInv
  <2>3. ASSUME reply.op = "bytes", Plain(reply.path), Stored(Named(reply.path))
        PROVE  TrueBytes(Named(reply.path), reply.from, reply.size, reply.bytes)
    <3> DEFINE path == reply.path
               from == reply.from
               size == reply.size
    <3>1. GaveBytes(Here, volume, tree, reply) /\ pc # "vfs"
      BY <2>1, <2>3 DEF GivenInv
    <3>2. /\ IsSeq(path) /\ Open(path).is = "node"
          /\ reply.bytes = read_fs(Here, volume, Open(path).node, from, size).bytes
          /\ Open(path).node.length \in Nat => from \in Nat /\ size \in Nat
      BY <3>1 DEF GaveBytes, Open
    <3>3. Plain(path) /\ Stored(Named(path))
      BY <2>3
    <3> HIDE DEF path, from, size
    <3>4. TrueBytes(Named(path), from, size, read_fs(Here, volume, Open(path).node, from, size).bytes)
      BY <3>1, <3>2, <3>3, ReadTrue
    <3>. QED  BY <3>2, <3>4 DEF path, from, size
  <2>. QED  BY <2>2, <2>3 DEF ReadsBytes
<1>. QED  BY <1>1, FilesInvariant, MountsInvariant, FoundInvariant, GivenInvariant, PTL

=============================================================================
