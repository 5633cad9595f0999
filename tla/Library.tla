------------------------------- MODULE Library ------------------------------
(***************************************************************************)
(* The routines that compute something and keep nothing, each against what *)
(* it should compute, and small objects through their operations: a file   *)
(* of tmpfs, the terminal, the log and a list.  They have nothing to do    *)
(* with each other, so a behaviour uses one of them.                       *)
(***************************************************************************)
EXTENDS CanonicalPath, Tarfs, Clock, Format, Terminal, Log, LinkedList

CONSTANTS
  Components, MaxComponents,   \* what paths are made of, and how long they are
  Cwds,                        \* the directories callers are in
  Archives,                    \* the archives
  Dates, Hours,                \* [year, month, day] records; the hours
  Parts, Rooms,                \* the parts of formats; the sizes of buffers
  Arguments, Widths, Flags,    \* what numbers are printed, with which widths and flags
  Bytes,                       \* the values written to the file
  MaxText,                     \* characters put on the terminal
  MaxLevels, MaxAdded,         \* levels of outputs of the log, and how many are added
  PieceLengths                 \* lengths of the pieces of messages

ASSUME LibraryAssumption ==
  MaxComponents \in Nat /\ Cwds \subseteq Seq(STRING) /\ PieceLengths \subseteq Nat

\* Archives lie in memory, with room behind them.
ASSUME ArchivesAssumption ==
  \A archive \in Archives :
    /\ archive \in Seq([path : Seq(STRING), size : Nat])
    /\ Len(Image(archive)) + 2 * BLOCK_SIZE <= SIZE_MAX

\* Dates there are, from 1970 on and before 2099: the code takes every fourth
\* year for a leap year, as 2100 is not.
ASSUME DatesAssumption ==
  /\ \A d \in Dates : /\ d[1] \in 1970..2098 /\ d[2] \in 1..12
                      /\ d[3] \in 1..MonthLengths(d[1])[d[2]]
  /\ Hours \subseteq 0..23

VARIABLES
  part,        \* what a behaviour uses
  call,        \* the routine asked and its arguments
  file,        \* the file of tmpfs
  astray,      \* a write has left the blocks of the file: not followed further
  kept,        \* what was last written to each place of the first block
  terminal,    \* the screen and the cursor
  text,        \* what was put on the terminal since it was cleared
  log_outputs, \* the outputs of the log
  added,       \* the outputs there were to be
  message,     \* the last message
  sent         \* what the outputs got of it

fileVars == <<file, astray, kept>>
terminalVars == <<terminal, text>>
logVars == <<log_outputs, added, message, sent>>
vars == <<part, call, fileVars, terminalVars, logVars, listVars>>

Idle == [routine |-> "none"]
NoMessage == [level |-> -1, pieces |-> <<>>]

Init ==
  /\ part \in {"routines", "file", "terminal", "log", "list"}
  /\ call = Idle
  /\ file = NewFile /\ astray = FALSE
  /\ kept = [j \in 1..BLOCK_SIZE |-> 0]
  /\ terminal = Cleared /\ text = <<>>
  /\ log_outputs = NoOutputs /\ added = <<>> /\ message = NoMessage /\ sent = <<>>
  /\ ListInit

----------------------------------------------------------------------------
(* The routines                                                            *)

Unasked == part = "routines" /\ call = Idle
Ask(routine, arguments) ==
  /\ call' = [routine |-> routine, args |-> arguments]
  /\ UNCHANGED <<part, fileVars, terminalVars, logVars, listVars>>

PathsOver(names) == UNION {[1..n -> names] : n \in 0..MaxComponents}

AskCanonicize ==
  /\ Unasked
  /\ \E path \in PathsOver(Components), absolute \in BOOLEAN, cwd \in Cwds :
       Ask("vfs_canonicize_path", [path |-> path, absolute |-> absolute, cwd |-> cwd])

AskTarfs == Unasked /\ \E archive \in Archives : Ask("tarfs", archive)

StatusB == [BINARY : BOOLEAN, HOURS24 : BOOLEAN]
AskClock ==
  /\ Unasked
  /\ \E d \in Dates, hour \in Hours, second \in {10, 59}, status_b \in StatusB, k \in 0..7 :
       Ask("read_cmos", [status_b |-> status_b, registers |-> k,
                         at |-> [year |-> d[1], month |-> d[2], day |-> d[3],
                                 hour |-> hour, minute |-> 59, second |-> second]])

AskPrint ==
  /\ Unasked
  /\ \E conv \in {"d", "u", "x", "X", "o", "p"}, size \in {"hh", "h", "", "l"},
        flags \in SUBSET Flags, width \in Widths, prec \in Widths, arg \in Arguments :
       /\ "PRECISION" \notin flags => prec = 0
       /\ Ask("printf", [conv |-> conv, size |-> size, flags |-> flags,
                         width |-> width, prec |-> prec, arg |-> arg])

AskFormat ==
  /\ Unasked
  /\ \E parts \in UNION {[1..n -> Parts] : n \in 0..2}, room \in Rooms :
       Ask("_vsnprintf", [parts |-> parts, room |-> room])

Answer ==
  /\ call # Idle
  /\ call' = Idle
  /\ UNCHANGED <<part, fileVars, terminalVars, logVars, listVars>>

----------------------------------------------------------------------------
(* The objects                                                             *)

\* A write of the file, astray or not, and what it should leave there.
Write(offset, size, byte) ==
  /\ part = "file" /\ ~astray
  /\ IF WriteAstray(file, offset, size)
     THEN astray' = TRUE /\ UNCHANGED file
     ELSE file' = TmpfsWrite(file, offset, size, byte) /\ UNCHANGED astray
  /\ kept' = IF EndsInside(offset, size)
             THEN [j \in 1..BLOCK_SIZE |-> IF j \in (offset + 1)..(offset + size) THEN byte ELSE kept[j]]
             ELSE kept
  /\ UNCHANGED <<part, call, terminalVars, logVars, listVars>>

TerminalPutchar(c) ==
  /\ part = "terminal" /\ Len(text) < MaxText
  /\ terminal' = Putchar(terminal, c)
  /\ text' = Append(text, c)
  /\ UNCHANGED <<part, call, fileVars, logVars, listVars>>

TerminalClear ==
  /\ part = "terminal"
  /\ terminal' = Cleared /\ text' = <<>>
  /\ UNCHANGED <<part, call, fileVars, logVars, listVars>>

AddOutput(max_level) ==
  LET output == [max_level |-> max_level, write_func |-> Len(added) + 1]
  IN /\ part = "log" /\ Len(added) < MaxAdded
     /\ log_outputs' = LogAddOutput(log_outputs, output)
     /\ added' = Append(added, output)
     /\ message' = NoMessage /\ sent' = <<>>
     /\ UNCHANGED <<part, call, fileVars, terminalVars, listVars>>

\* The pieces of a format, of given lengths, the first a conversion or not.
PiecesOf(lengths, first) ==
  [k \in DOMAIN lengths |->
     [conversion |-> (k % 2 = 1) = first, str |-> PieceText(k, lengths[k])]]

\* One message at a time: nothing of it stays in the log.
LogPrintf(level, pieces) ==
  /\ message' = [level |-> level, pieces |-> pieces]
  /\ sent' = LogVprintf(log_outputs, level, pieces)
  /\ UNCHANGED <<part, call, fileVars, terminalVars, log_outputs, added, listVars>>

ListStep ==
  /\ part = "list"
  /\ ListNext
  /\ UNCHANGED <<part, call, fileVars, terminalVars, logVars>>

Next ==
  \/ AskCanonicize \/ AskTarfs \/ AskClock \/ AskPrint \/ AskFormat \/ Answer
  \/ \E offset \in 0..BLOCK_SIZE, size \in 0..BLOCK_SIZE, byte \in Bytes : Write(offset, size, byte)
  \/ \E c \in Glyphs \cup {"\n"} : TerminalPutchar(c)
  \/ TerminalClear
  \/ \E max_level \in MaxLevels : AddOutput(max_level)
  \/ /\ part = "log" /\ message = NoMessage
     /\ \E level \in Levels, lengths \in UNION {[1..n -> PieceLengths] : n \in 1..2}, first \in BOOLEAN :
          LogPrintf(level, PiecesOf(lengths, first))
  \/ ListStep

Spec == Init /\ [][Next]_vars

----------------------------------------------------------------------------
(* Properties                                                              *)

\* vfs_canonicize_path, which goes from the end of the path to its start and
\* counts what it has to skip, arrives where the path leads from the root.
CanonicalRight ==
  call.routine = "vfs_canonicize_path" =>
    VfsCanonicizePath(call.args.path, call.args.absolute, call.args.cwd)
      = Led(IF call.args.absolute THEN <<>> ELSE Led(<<>>, call.args.cwd), call.args.path)

\* The directories of an archive, and what is in each: the entries whose
\* paths go one component further.
Dirs(archive) == {<<>>} \cup {archive[i].path : i \in {j \in DOMAIN archive : IsDir(archive[j])}}
NameIn(path, dir) == SelectSeq(SubSeq(path, Len(dir) + 1, Len(path)), LAMBDA c : c # "/")
ParentOf(path) == SubSeq(path, 1, SelectLastInSeq(Front(path), LAMBDA c : c = "/"))
EntriesOf(archive, dir) ==
  SelectSeq([i \in DOMAIN archive |-> i], LAMBDA i : ParentOf(archive[i].path) = dir)
\* Where an entry's header lies on the disk.
PlaceOf(archive, i) == SelectInSeq(Image(archive), LAMBDA byte : byte = <<"header", i, 1>>) - 1

\* A directory of an archive lists what is in it, each name once and in the
\* order of the archive: no header is missed, whatever the sizes of the
\* entries, and no directory shows what is in another.
ListsChildren ==
  call.routine = "tarfs" =>
    LET archive == call.args
    IN \A dir \in Dirs(archive) :
         LET entries == EntriesOf(archive, dir)
         IN Readdir(archive, dir) = [k \in DOMAIN entries |-> NameIn(archive[entries[k]].path, dir)]

\* A name listed is found, and leads to its own header, unless an earlier
\* path begins with the same characters (tarfs compares no further); and
\* nothing is found where no path begins so.
FindsChildren ==
  call.routine = "tarfs" =>
    LET archive == call.args
    IN \A dir \in Dirs(archive), i \in DOMAIN archive :
         LET name == NameIn(archive[i].path, ParentOf(archive[i].path))
             alike == {j \in DOMAIN archive : IsPrefix(dir \o name, archive[j].path)}
         IN /\ alike = {} => Finddir(archive, dir, name) = NoNode
            /\ ParentOf(archive[i].path) = dir /\ (\A j \in alike : i <= j) =>
                 Finddir(archive, dir, name) =
                   [name |-> name, kind |-> IF IsDir(archive[i]) THEN "FS_DIRECTORY" ELSE "FS_FILE",
                    inode_no |-> PlaceOf(archive, i)]

\* Readdir and finddir of one archive agree with it, and so with each other.
ChildrenRight == ListsChildren /\ FindsChildren

\* How much there is to read of a file.
Readable(end, offset, size) ==
  IF offset >= end THEN 0 ELSE IF size > end - offset THEN end - offset ELSE size

\* A read of a file in an archive gives the file's bytes and no others, over
\* the ends of the blocks of the disk, unless it ends where a block does.
TarReadsRight ==
  call.routine = "tarfs" =>
    LET archive == call.args
    IN \A i \in {j \in DOMAIN archive : ~IsDir(archive[j])},
          offset, size \in 0..(2 * BLOCK_SIZE) :
         LET node == [inode_no |-> PlaceOf(archive, i)]
             n == Readable(archive[i].size, offset, size)
         IN EndsInside(node.inode_no + TAR_BLOCK_SIZE + offset, n) =>
              TarfsRead(archive, node, offset, size) = [j \in 1..n |-> <<"data", i, offset + j>>]

\* A file of tmpfs gives back what was last written to each of its bytes,
\* or zero, as long as writes and reads end inside its one block; and such a
\* write stays in that block.
FileKeeps ==
  ~astray =>
    \A offset, size \in 0..(BLOCK_SIZE + 1) :
      LET n == Readable(file.length, offset, size)
      IN /\ EndsInside(offset, n) /\ offset + n < BLOCK_SIZE =>
              TmpfsRead(file, offset, size) = [j \in 1..n |-> kept[offset + j]]
         /\ EndsInside(offset, size) /\ offset + size < BLOCK_SIZE => ~WriteAstray(file, offset, size)

\* The seconds in one of the field behind the first k, of the old month and
\* the new year.
UnitBehind(k, at) ==
  <<60, 3600, 86400, MonthLengths(at.year)[at.month] * 86400, YearLength(at.year + 1) * 86400>>[k]

\* The date the clock chip shows is read as the seconds since 1970 in each of
\* its formats; but a leap year is a day ahead from its start, and the hour
\* from noon on twelve hours in the 12 hour format.  When the chip goes on
\* while it is read, the date is that before or after, or, if fields that were
\* read start again and others go up, ahead by one of the first field not yet
\* read: never behind.  (A century that ends there is left out.)
ClockRight ==
  call.routine = "read_cmos" =>
    LET at == call.args.at
        k == call.args.registers
        status_b == call.args.status_b
        later == OneLater(at)
        year == IF k >= 6 THEN at.year ELSE later.year
        hour == IF k >= 3 THEN at.hour ELSE later.hour
    IN \/ k = 6 /\ later.year % 100 = 0 /\ at.year # later.year
       \/ ReadCmos(status_b, ReadOneByOne(status_b, at, k)) - UnixTime(at)
            = (IF IsLeap(year) THEN 86400 ELSE 0)
              + (IF hour = 12 /\ ~status_b.HOURS24 THEN 43200 ELSE 0)
              + (IF k = 0 THEN 1 ELSE IF k <= RolledOver(at) THEN UnitBehind(k, at) ELSE 0)

\* The number an unsigned argument of the size stands for; a signed one's if
\* it is not negative.
Stands(args) == IF args.conv = "p" THEN args.arg ELSE args.arg % Values[args.size]
DigitsOf(n, base) == CHOOSE d \in 1..9 : n < base^d /\ \A e \in 1..(d - 1) : n >= base^e

\* "#" finds room for its 0x or 0 without taking digits of the number.
HasRoom(args, n) ==
  LET base == BaseOf(args.conv)
      digits == DigitsOf(n, base)
  IN \/ "HASH" \notin args.flags \/ base = 10 \/ n = 0 \/ "PRECISION" \in args.flags
     \/ args.width < digits
     \/ args.width >= digits + (IF base = 16 THEN 2 ELSE 1)

\* A number that is not negative is printed so that reading it gives the same
\* number, whatever flags, width and precision, unless "#" takes its digits;
\* it has the width and the digits asked for, and never more characters than
\* the buffer has.
NumbersRight ==
  call.routine = "printf" =>
    LET args == call.args
        n    == Stands(args)
        str  == Converted(args.conv, args.size, args.prec, args.width, args.flags, args.arg)
        AtMost(k) == IF k < PRINTF_NTOA_BUFFER_SIZE THEN k ELSE PRINTF_NTOA_BUFFER_SIZE
    IN ~(IsSigned(args.conv) /\ n >= Values[args.size] \div 2) =>
         /\ HasRoom(args, n) => ValueOf(str, BaseOf(args.conv)) = n
         /\ Len(str) <= PRINTF_NTOA_BUFFER_SIZE
         /\ "HASH" \notin args.flags =>
              /\ Len(str) >= AtMost(args.width)
              /\ "LEFT" \notin args.flags => NumberOfDigits(str) >= AtMost(args.prec)

\* A format is printed part by part, each conversion with the flags, fields
\* and arguments that belong to it, whether they are written or passed, text
\* and unknown conversions as they are; and never more than there is room for:
\* what does not fit ends the call, and what just fits loses a character.  But
\* a character or a string that with its width is longer than str_buffer leaves
\* that buffer, however much room the caller has, if what is before it fits.
FormatRight ==
  LET AsMuch(all, room, got) ==
        /\ Len(all) < room => got.string = all /\ got.returns = Len(all)
        /\ Len(all) = room => got.string = Front(all) /\ got.returns = room
        /\ Len(all) > room => got.returns = -1 /\ IsPrefix(got.string, all) /\ Len(got.string) <= room
      Reached(parts, k, room) == Len(PrintedOf(SubSeq(parts, 1, k - 1))) <= room
      Right(parts, room, got) ==
        /\ got.overrun <=> \E k \in DOMAIN parts : PartOverruns(parts[k]) /\ Reached(parts, k, room)
        /\ ~got.overrun => AsMuch(PrintedOf(parts), room, got)
  IN call.routine = "_vsnprintf" =>
       Right(call.args.parts, call.args.room,
             Formatted(FormatOf(call.args.parts), ArgsOf(call.args.parts), call.args.room))

\* The terminal shows the last lines of what was put on it, each where it
\* belongs and nothing drawn over anything else, through every mixture of
\* full lines, ends of lines, scrolling and clearing.
ScreenShows == terminal = Showing(Bottom(Lines(text)))

\* The room a message has behind its level.
Room == MAX_MSG_SIZE - 2 - LevelLength
Texted(chars, piece) == chars \o piece.str
TextOf(pieces) == FoldLeft(Texted, <<>>, pieces)

\* A message that fits reaches each of the first outputs added, as many as
\* there are places, whose level it has, whole and as one line, and no
\* other; one that does not fit leaves all of its text and the end of its
\* level out.
LogRight ==
  message # NoMessage /\ Len(TextOf(message.pieces)) # Room =>
    LET level == GetLevelString(message.level)
        line == IF Len(TextOf(message.pieces)) < Room
                THEN level \o TextOf(message.pieces) \o <<Cr, Lf>>
                ELSE Front(level) \o <<Cr, Lf>>
        hearing == {i \in DOMAIN added : i <= MAX_LOG_OUTPUTS /\ added[i].max_level >= message.level}
    IN /\ \A k \in DOMAIN sent : sent[k].string = line
       /\ {sent[k].output : k \in DOMAIN sent} = hearing
       /\ \A j, k \in DOMAIN sent : j < k => sent[j].output < sent[k].output

============================================================================
