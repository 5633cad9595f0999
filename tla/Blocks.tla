------------------------------- MODULE Blocks -------------------------------
(***************************************************************************)
(* How tmpfs.c and ramdisk.c cut a range of bytes into blocks: the loops   *)
(* of tmpfs_read, tmpfs_write and ramdisk_read.  Sizes and offsets are     *)
(* size_t, which wraps around.                                             *)
(***************************************************************************)
EXTENDS Integers, Sequences, SequencesExt

CONSTANTS
  BLOCK_SIZE,   \* 4096 in the code
  SIZE_MAX      \* 2^64 - 1 in the code

ASSUME BlocksAssumption ==
  /\ BLOCK_SIZE \in Nat \ {0, 1} /\ SIZE_MAX \in Nat
  /\ SIZE_MAX > 3 * BLOCK_SIZE /\ (SIZE_MAX + 1) % BLOCK_SIZE = 0

Size(n) == n % (SIZE_MAX + 1)

\* The size of a read, cut at the end of the file.
ClippedOpen(length, offset, size) == IF offset >= length THEN 0 ELSE size   \* mutant: not cut
Clipped(length, offset, size) ==
  IF offset >= length THEN 0
  ELSE IF Size(offset + size) > length THEN length - offset
  ELSE size

Piece(block, from, count) == [block |-> block, from |-> from, count |-> count]

PiecesUncut(offset, size) ==   \* mutant: the first block is not shortened by the offset in it
  LET start == offset \div BLOCK_SIZE
      end   == Size(offset + size - 1) \div BLOCK_SIZE
      from(block) == IF block = start THEN offset % BLOCK_SIZE ELSE 0
  IN [k \in 1..(end - start + 1) |->
        LET block == start + k - 1
        IN Piece(block, from(block),
                 IF block = end THEN Size(((offset + size) % BLOCK_SIZE) - from(block))
                 ELSE BLOCK_SIZE)]

\* What is copied of each block, the first to the last.  A range that ends
\* with its block leaves nothing for that block, or wraps around; an empty
\* range at 0 has all blocks there could be.
Pieces(offset, size) ==
  LET start == offset \div BLOCK_SIZE
      end   == Size(offset + size - 1) \div BLOCK_SIZE
      from(block) == IF block = start THEN offset % BLOCK_SIZE ELSE 0
  IN [k \in 1..(end - start + 1) |->
        LET block == start + k - 1
        IN Piece(block, from(block),
                 IF block = end THEN Size(((offset + size) % BLOCK_SIZE) - from(block))
                 ELSE BLOCK_SIZE - from(block))]

\* A copy that leaves the blocks there are.
Astray(pieces, num_blocks) ==
  \E k \in DOMAIN pieces :
    /\ pieces[k].count > 0
    /\ pieces[k].block >= num_blocks \/ pieces[k].from + pieces[k].count > BLOCK_SIZE

\* The bytes of a piece, as indexes from 1 on.
Span(piece) ==
  [j \in 1..piece.count |-> piece.block * BLOCK_SIZE + piece.from + j]

\* What a read copies from "bytes", all the blocks in a row, into the buffer.
\* (One that goes astray has no result.)
Copied(bytes, offset, size) ==
  LET pieces == Pieces(offset, size)
      places == FlattenSeq([k \in DOMAIN pieces |-> Span(pieces[k])])
  IN [j \in DOMAIN places |-> bytes[places[j]]]

\* The ranges that are read and written as they should be: those which end
\* inside a block, and the empty ones but for that at 0.
EndsInside(offset, size) ==
  IF size = 0 THEN offset > 0 ELSE (offset + size) % BLOCK_SIZE # 0

----------------------------------------------------------------------------
(* A file of tmpfs                                                         *)

\* create leaves a file without blocks.
NewFile == [length |-> 0, bytes |-> <<>>]
NumBlocks(file) == Len(file.bytes) \div BLOCK_SIZE

\* The number of blocks tmpfs_write wants: it divides by SIZE_MAX.
NewNumBlocks(offset, size) == Size(offset + size - 1) \div SIZE_MAX + 1

\* The file with that many blocks; pages not touched yet are zero.
Grown(file, n) ==
  [file EXCEPT !.bytes = @ \o [j \in 1..((n - NumBlocks(file)) * BLOCK_SIZE) |-> 0]]

\* tmpfs_write of "size" bytes of one value.
TmpfsWrite(file, offset, size, byte) ==
  LET grown  == Grown(file, NewNumBlocks(offset, size))
      pieces == Pieces(offset, size)
      places == UNION {ToSet(Span(pieces[k])) : k \in DOMAIN pieces}
  IN [length |-> offset + size,
      bytes  |-> [j \in DOMAIN grown.bytes |-> IF j \in places THEN byte ELSE grown.bytes[j]]]

\* Whether tmpfs_write leaves the blocks the file has by then.
WriteAstray(file, offset, size) ==
  Astray(Pieces(offset, size), NumBlocks(Grown(file, NewNumBlocks(offset, size))))

TmpfsRead(file, offset, size) == Copied(file.bytes, offset, Clipped(file.length, offset, size))

============================================================================
