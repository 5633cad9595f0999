------------------------------- MODULE Tarfs --------------------------------
(***************************************************************************)
(* tarfs.c over ramdisk.c: looking up, listing and reading what a tar      *)
(* archive holds, through reads of the disk the archive lies on.           *)
(*                                                                         *)
(* An archive is a sequence of entries.  A path is the sequence of its     *)
(* characters, since tarfs compares beginnings of paths; that of a         *)
(* directory ends with "/" and comes before those of what is in it.        *)
(***************************************************************************)
EXTENDS Blocks

CONSTANTS
  TAR_BLOCK_SIZE,   \* 512 in the code
  HEADER_SIZE       \* sizeof(tar_hdr_t), 500 in the code

ASSUME TarfsAssumption ==
  /\ TAR_BLOCK_SIZE \in Nat \ {0} /\ HEADER_SIZE \in 1..(TAR_BLOCK_SIZE - 1)
  /\ BLOCK_SIZE % TAR_BLOCK_SIZE = 0

Entry(path, size) == [path |-> path, size |-> size]
IsDir(entry) == Last(entry.path) = "/"

----------------------------------------------------------------------------
(* The disk                                                                *)

\* The bytes of an archive: each entry's header and data, both filled up to
\* whole tar blocks, and two blocks of zeros behind the last.
Zeros(n) == [j \in 1..n |-> <<>>]
Filled(bytes) == bytes \o Zeros((-Len(bytes)) % TAR_BLOCK_SIZE)
HeaderBytes(i) == [j \in 1..HEADER_SIZE |-> <<"header", i, j>>]
DataBytes(i, size) == [j \in 1..size |-> <<"data", i, j>>]
Image(archive) ==
  FlattenSeq([i \in DOMAIN archive |->
    Filled(HeaderBytes(i)) \o Filled(DataBytes(i, archive[i].size))])
  \o Zeros(2 * TAR_BLOCK_SIZE)

\* create_ramdisk_from_address cuts the memory into blocks, the last of them
\* perhaps longer than what is left of it.
Disk(image) == [length |-> Len(image), bytes |-> image \o Zeros((-Len(image)) % BLOCK_SIZE)]

RamdiskRead(disk, offset, size) == Copied(disk.bytes, offset, Clipped(disk.length, offset, size))

----------------------------------------------------------------------------
(* The archive                                                             *)

\* What a header read at an offset says: the entry, or 0 at the end of the
\* disk and where there is no name.  (Other bytes would be taken for a name;
\* none are met.)
HeaderAt(disk, offset) ==
  LET got == RamdiskRead(disk, offset, HEADER_SIZE)
  IN IF got # <<>> /\ Head(got) # <<>> /\ got = HeaderBytes(Head(got)[2]) THEN Head(got)[2] ELSE 0

\* From one header to the next; the size of an entry without data wraps
\* around twice.
NextHeaderCut(offset, size) ==   \* mutant: rounds the size down
  Size(offset + TAR_BLOCK_SIZE + (size \div TAR_BLOCK_SIZE) * TAR_BLOCK_SIZE)
NextHeader(offset, size) ==
  Size(offset + TAR_BLOCK_SIZE + (Size(size - 1) \div TAR_BLOCK_SIZE + 1) * TAR_BLOCK_SIZE)

\* The loop over the headers: those met, in order, with their offsets.
Headers(archive) ==
  LET disk == Disk(Image(archive))
      met[k \in Nat] ==
        IF k = 0 THEN <<>>
        ELSE LET before == met[k - 1]
                 offset == IF before = <<>> THEN 0
                           ELSE NextHeader(Last(before).offset, archive[Last(before).entry].size)
                 entry  == HeaderAt(disk, offset)
             IN IF Len(before) < k - 1 \/ entry = 0 THEN before
                ELSE Append(before, [offset |-> offset, entry |-> entry])
  IN met[Len(archive) + 1]

\* count_slashes: one at the end does not count.
CountSlashes(path) == Len(SelectSeq(Front(path), LAMBDA c : c = "/"))

\* The last component of a path, without the slash of a directory.
LastName(path) ==
  LET bare == IF Last(path) = "/" THEN Front(path) ELSE path
      from == SelectLastInSeq(bare, LAMBDA c : c = "/")
  IN SubSeq(bare, from + 1, Len(bare))

\* tarfs_readdir_root and tarfs_readdir, the indexes from 2 on: dir is <<>>
\* for the root.
InDirAnyDepth(path, dir) == IsPrefix(dir, path) /\ path # dir   \* mutant: the slashes are not counted
InDir(path, dir) ==
  /\ CountSlashes(path) = IF dir = <<>> THEN 0 ELSE CountSlashes(dir) + 1
  /\ IsPrefix(dir, path)
Readdir(archive, dir) ==
  LET headers == SelectSeq(Headers(archive), LAMBDA h : InDir(archive[h.entry].path, dir))
  IN [k \in DOMAIN headers |-> LastName(archive[headers[k].entry].path)]

\* tarfs_finddir_root and tarfs_finddir: the first path that begins with the
\* directory's and the name.
Finds(archive, begin) ==
  SelectInSeq(Headers(archive), LAMBDA h : IsPrefix(begin, archive[h.entry].path))

\* tarfs_node_from_hdr.
NodeFromHeader(archive, h) ==
  [name     |-> LastName(archive[h.entry].path),
   kind     |-> IF IsDir(archive[h.entry]) THEN "FS_DIRECTORY" ELSE "FS_FILE",
   inode_no |-> h.offset]
NoNode == [name |-> <<>>, kind |-> "NULL", inode_no |-> 0]

Finddir(archive, dir, name) ==
  LET k == Finds(archive, dir \o name)
  IN IF k = 0 THEN NoNode ELSE NodeFromHeader(archive, Headers(archive)[k])

\* tarfs_read.
TarfsRead(archive, node, offset, size) ==
  LET disk == Disk(Image(archive))
      file_size == archive[HeaderAt(disk, node.inode_no)].size
  IN RamdiskRead(disk, node.inode_no + TAR_BLOCK_SIZE + offset, Clipped(file_size, offset, size))

============================================================================
