-------------------------------- MODULE Vfs --------------------------------
(***************************************************************************)
(* The virtual file system: kernel/fs/vfs.c with its mount tree            *)
(* (ds/tree.c), and the directories of tmpfs.c and devfs.c below it.       *)
(*                                                                         *)
(* A path is the sequence of its components: "/a/b" is <<a, b>>, "/a/" is  *)
(* <<a, Empty>>, and "/" is <<Empty>>.  A call that returns an error       *)
(* changes nothing and is no step.  A definition marked "mutant" is used   *)
(* by no action (README, "Mutants").                                       *)
(***************************************************************************)
EXTENDS Integers, Sequences, SequencesExt

CONSTANTS
  Names,      \* the names callers use
  Dev,        \* "dev", where devfs_install mounts the devices
  Empty,      \* the empty name
  Junk,       \* a name read from memory in which something else is
  MaxLength,  \* bound of the model: components of a path
  MaxFiles    \* bound of the model: directories and files of tmpfs

ASSUME VfsAssumption ==
  /\ Dev \in Names /\ Empty \notin Names /\ Junk \notin Names /\ Empty # Junk
  /\ MaxLength \in Nat \ {0} /\ MaxFiles \in Nat

\* The strings given to the vfs, all absolute.
Paths == UNION {[1..n -> Names \cup {Empty}] : n \in 1..MaxLength}
Root == <<Empty>>

\* fs_node_t: what finddir and mount return.  obj is its device pointer: an
\* object of tmpfs, or the position of a device.
Node(kind, obj) == [kind |-> kind, obj |-> obj]
NULL == Node("null", 0)
DevRoot == Node("devfs", 0)

VARIABLES
  registered,  \* the names on fs_drivers
  tree,        \* fs_tree: its nodes in the order of their creation, the root first
  files,       \* tmpfs: the entries of each directory (of a file: none)
  devices,     \* devfs: the names of the devices
  halted       \* the kernel went through a NULL node

vars == <<registered, tree, files, devices, halted>>

----------------------------------------------------------------------------
(* Lookup                                                                  *)

\* The walk of tmpfs_finddir over the entries of a directory.
FindEntry(s, name) ==
  LET i == SelectInSeq(s, LAMBDA e : e.name = name)
  IN IF i = 0 THEN NULL ELSE s[i].node

\* The walk of devfs_finddir over the devices.
FindDevice(name) ==
  LET i == SelectInSeq(devices, LAMBDA d : d = name)
  IN IF i = 0 THEN NULL ELSE Node("device", i)

\* vfs_finddir: files, devices and NULL have no finddir.
FindDir(node, name) ==
  CASE node.kind = "dir"   -> FindEntry(files[node.obj], name)
    [] node.kind = "devfs" -> FindDevice(name)
    [] OTHER               -> NULL

\* The names a directory lists.
Listed(node) ==
  IF node.kind = "devfs" THEN devices
  ELSE [i \in DOMAIN files[node.obj] |-> files[node.obj][i].name]

\* readdir of index 2 and up ("." and ".." come first): a name, or the end.
Readdir(node, index) ==
  LET s == Listed(node) IN IF index - 1 \in DOMAIN s THEN <<s[index - 1]>> ELSE <<>>

VfsReaddir(node, index) == IF node.kind \in {"dir", "devfs"} THEN Readdir(node, index) ELSE <<>>

\* split_path_and_get_depth: "/" has no components.
Split(path) == IF path = Root THEN <<>> ELSE path

\* The child of a node of the mount tree; 0: none.
Child(n, name) == SelectInSeq(tree, LAMBDA t : t.parent = n /\ t.name = name)

\* get_deepest_tree_node, one component further: down the mount tree, unless
\* a component before has been left over.
Down(above, name) ==
  LET child == IF above.rest = <<>> THEN Child(above.node, name) ELSE 0
  IN IF child # 0 THEN [above EXCEPT !.node = child] ELSE [above EXCEPT !.rest = Append(@, name)]

\* The node of the mount tree the components lead to, and those left over.
Deepest(comps) ==
  LET down[i \in 0..Len(comps)] ==
        IF i = 0 THEN [node |-> 1, rest |-> <<>>] ELSE Down(down[i - 1], comps[i])
  IN down[Len(comps)]

\* The nodes found from file on by finddir, one name after the other.
Follow(file, names) ==
  LET found[k \in 0..Len(names)] == IF k = 0 THEN file ELSE FindDir(found[k - 1], names[k])
  IN found

\* vfs_get_fs_node: from the node found in the mount tree on by finddir.
Lead(comps) == LET from == Deepest(comps) IN Follow(tree[from.node].file, from.rest)[Len(from.rest)]
Resolve(path) == Lead(Split(path))

----------------------------------------------------------------------------
(* Mounting                                                                *)

\* mount of a driver: tmpfs makes a new directory.
MountRootShared(type) ==   \* mutant: tmpfs has one root directory
  IF type = "devfs" THEN DevRoot ELSE Node("dir", 1)
MountRoot(type) == IF type = "devfs" THEN DevRoot ELSE Node("dir", Len(files) + 1)

\* get_driver.
HasDriver(type) == type \in registered

MountableAny(path) ==   \* mutant: the flags are not looked at
  IF path = Root THEN tree[1].file = NULL ELSE Resolve(path) # NULL

\* What vfs_mount asks for first: at "/" nothing mounted yet, elsewhere a directory.
Mountable(path) ==
  IF path = Root THEN tree[1].file = NULL ELSE Resolve(path).kind \in {"dir", "devfs"}

\* The names looked up for the nodes missing from the mount tree: after the
\* first, the pointer is left at the end of a component, not behind it.
LookedUp(rest) == [k \in DOMAIN rest |-> IF k = 1 THEN rest[1] ELSE Empty]

\* The nodes added to the mount tree, the last of them with the root of the
\* new file system.
Added(node, names, root) ==
  [k \in DOMAIN names |->
     [parent |-> IF k = 1 THEN node ELSE Len(tree) + k - 1,
      name   |-> names[k],
      file   |-> IF k = Len(names) THEN root ELSE Follow(tree[node].file, names)[k]]]

MountedKeeps(node, names, root) ==   \* mutant: a node already there keeps its file
  tree \o Added(node, names, root)

\* The tree after the mount: the root of the new file system replaces the
\* file of a node already there.
Mounted(node, names, root) ==
  IF names = <<>> THEN [tree EXCEPT ![node].file = root]
  ELSE tree \o Added(node, names, root)

\* vfs_mount, its checks passed.  A name that is not found gives NULL, and
\* the kernel stops when it takes the name of that node.
Mount(type, path) ==
  LET from  == Deepest(Split(path))
      names == LookedUp(from.rest)
  IN /\ type = "tmpfs" => Len(files) < MaxFiles
     /\ files' = IF type = "tmpfs" THEN Append(files, <<>>) ELSE files
     /\ IF \E k \in DOMAIN names : Follow(tree[from.node].file, names)[k] = NULL
        THEN halted' = TRUE /\ UNCHANGED tree
        ELSE tree' = Mounted(from.node, names, MountRoot(type)) /\ UNCHANGED halted

----------------------------------------------------------------------------
(* Calls                                                                   *)

\* generic_early: vfs_init and tmpfs_install are done.  (The driver of tar
\* archives, registered as well, has no state of its own and is left out.)
Init ==
  /\ registered = {"tmpfs"}
  /\ tree = <<[parent |-> 0, name |-> Empty, file |-> NULL]>>
  /\ files = <<>> /\ devices = <<>>
  /\ halted = FALSE

VfsMount(type, path) ==
  /\ ~halted
  /\ HasDriver(type)
  /\ Mountable(path)
  /\ Mount(type, path)
  /\ UNCHANGED <<registered, devices>>

\* A new object in a directory of tmpfs, behind those it has.
AddEntry(dir, name, kind) ==
  /\ Len(files) < MaxFiles
  /\ files' = Append([files EXCEPT ![dir] = Append(@, [name |-> name, node |-> Node(kind, Len(files) + 1)])],
                     <<>>)
  /\ UNCHANGED <<registered, tree, devices, halted>>

\* The directory a new name goes to: "/a" goes to "/".
Parent(path) == IF Len(path) = 1 THEN Root ELSE Front(path)

\* vfs_mkdir; only the directories of tmpfs have a mkdir.
VfsMkdir(path) ==
  /\ ~halted
  /\ LET parent == Resolve(Parent(path))
     IN parent.kind = "dir" /\ AddEntry(parent.obj, Last(path), "dir")

\* vfs_create frees the string its name lies in before it uses the name.
\* kfree clears the string; what create allocates may lie there by then.
VfsCreate(path) ==
  /\ ~halted
  /\ LET parent == Resolve(Parent(path))
     IN parent.kind = "dir" /\ \E name \in {Empty, Junk} : AddEntry(parent.obj, name, "file")

\* devfs_install, called once: the driver, and the mount of "/dev" if there
\* is a directory of that name.
DevfsInstall ==
  /\ ~halted
  /\ "devfs" \notin registered
  /\ registered' = registered \cup {"devfs"}
  /\ IF Mountable(<<Dev>>) THEN Mount("devfs", <<Dev>>) ELSE UNCHANGED <<tree, files, halted>>
  /\ UNCHANGED devices

AddDeviceTwice(name) ==   \* mutant: the name is not looked for
  /\ ~halted
  /\ "devfs" \in registered
  /\ Len(devices) < 2
  /\ devices' = Append(devices, name)
  /\ UNCHANGED <<registered, tree, files, halted>>

\* devfs_add_device.
AddDevice(name) ==
  /\ ~halted
  /\ "devfs" \in registered
  /\ ~Contains(devices, name)
  /\ devices' = Append(devices, name)
  /\ UNCHANGED <<registered, tree, files, halted>>

Next ==
  \/ \E path \in Paths : VfsMkdir(path)
  \/ \E path \in Paths : VfsCreate(path)
  \/ \E path \in Paths, type \in {"tmpfs", "devfs"} : VfsMount(type, path)
  \/ DevfsInstall
  \/ \E name \in Names : AddDevice(name)

Spec == Init /\ [][Next]_vars

----------------------------------------------------------------------------
(* Properties                                                              *)

\* The paths without empty components, where <<>> is the root, and what each
\* of them leads to.
NamedPaths == UNION {[1..n -> Names] : n \in 0..MaxLength}
At == [p \in NamedPaths |-> IF p = <<>> THEN Resolve(Root) ELSE Resolve(p)]

\* How many components of a path are not in the mount tree.
Missing(path) == Len(Deepest(Split(path)).rest)

\* No directory is reached by two paths, however file systems are mounted in
\* and over each other and whatever the mount tree still holds from before.
OnePlace ==
  \A p, q \in NamedPaths : At[p] = At[q] /\ At[p].kind = "dir" => p = q

\* A device is found by its name in every directory of devices, unless the
\* mount tree has a node of an earlier mount there.
DevicesFound ==
  \A p \in NamedPaths : At[p].kind = "devfs" /\ Len(p) < MaxLength =>
    \A i \in DOMAIN devices :
      LET q == Append(p, devices[i])
      IN Missing(q) = 0 \/ At[q] = Node("device", i)

\* A directory lists exactly the names finddir finds in it, up to its end.
ListedIsFound ==
  \A p \in NamedPaths :
    LET names == {VfsReaddir(At[p], i) : i \in 2..(Len(files) + Len(devices) + 2)} \ {<<>>}
    IN names = {<<n>> : n \in {m \in Names \cup {Empty, Junk} : FindDir(At[p], m) # NULL}}

\* Whatever is mounted over them, directories of both file systems list what is
\* found in them, and devices are in every directory of devices.
DirectoriesAgree == ListedIsFound /\ DevicesFound

\* A call that succeeds shows: the file system mounted, if no more than the
\* last component is missing from the mount tree, is what its path leads to;
\* a directory made at a path that led nowhere is found there.  (mkdir("//a")
\* makes /a, which "//a" does not lead to, hence the paths with names only.)
CallsShow ==
  [][/\ \A type \in {"tmpfs", "devfs"}, p \in Paths :
          VfsMount(type, p) /\ Missing(p) <= 1 => Resolve(p)' = MountRoot(type)
     /\ \A p \in NamedPaths \ {<<>>} :
          VfsMkdir(p) /\ Resolve(p) = NULL => Resolve(p)' = Node("dir", Len(files'))]_vars

\* "Split parent dir path and dir name" (vfs.c:347): vfs_create makes the file
\* the path names.
CreateShows ==
  [][\A p \in NamedPaths \ {<<>>} : VfsCreate(p) /\ Resolve(p) = NULL => Resolve(p)'.kind = "file"]_vars

\* The vfs behaves like a space of names.
Space == At
NS == INSTANCE Namespace WITH Paths <- NamedPaths, Nothing <- NULL, at <- Space
NamespaceSpec == NS!NSpec

============================================================================
