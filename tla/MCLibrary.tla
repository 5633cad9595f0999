----------------------------- MODULE MCLibrary ------------------------------
(***************************************************************************)
(* Library for TLC: what the routines are asked, and beside its objects    *)
(* the tree of RegionTree.  Each is used while the other is as it was at   *)
(* the start.                                                              *)
(***************************************************************************)
EXTENDS Library, RegionTree

AllInit == Init /\ TreeInit

UseLibrary == TreeInit /\ Next /\ UNCHANGED treeVars
UseTree == Unasked /\ TreeNext /\ UNCHANGED vars

AllSpec == AllInit /\ [][UseLibrary \/ UseTree]_<<vars, treeVars>>

\* Long, int, short and char have 8, 6, 5 and 4 bits here.
ShortValues == [s \in {"hh", "h", "", "l"} |->
                  CASE s = "hh" -> 16 [] s = "h" -> 32 [] s = "" -> 64 [] OTHER -> 256]

\* The root, a directory, and one that is itself not canonical.
SomeCwds == {<<>>, <<"c", "d">>, <<"c", "..", "">>}

\* Files and directories with names that begin alike; a directory is before
\* what is in it, and no path is there twice.
Files == {<<"a">>, <<"a", "b">>, <<"d", "/", "a">>, <<"d", "/", "b", "a">>}
Entries == {Entry(path, size) : path \in Files, size \in {0, 1, 5}}
           \cup {Entry(<<"d", "/">>, 0), Entry(<<"d", "/", "b", "/">>, 0)}
SmallArchives ==
  {archive \in UNION {[1..n -> Entries] : n \in 1..3} :
     /\ \A i, j \in DOMAIN archive : archive[i].path = archive[j].path => i = j
     /\ \A i \in DOMAIN archive :
          ParentOf(archive[i].path) \in {<<>>} \cup {archive[j].path : j \in 1..(i - 1)}}

\* Years before, after and in leap years, and months around February.
SomeDates ==
  {<<year, month, day>> :
     year \in {1970, 1971, 1972, 1999, 2000, 2001, 2023, 2024, 2037},
     month \in {1, 2, 3, 12}, day \in {1, 28}}
  \cup {<<1999, 12, 31>>, <<2000, 2, 29>>, <<2023, 12, 31>>, <<2024, 4, 30>>}

\* Conversions with every kind of field, one that is not known, a text that
\* looks like a field, and %%; characters and strings that just fit the buffer
\* of 8 they are put together in, and longer ones.
Nothing == [from |-> "none", value |-> 0]
WrittenOut(n) == [from |-> "digits", value |-> n]
Passed(n) == [from |-> "argument", value |-> n]
Conv(conv, flags, width, prec, size, arg) ==
  [kind |-> "conversion", conv |-> conv, flags |-> flags, width |-> width, prec |-> prec,
   size |-> size, arg |-> arg]
LongString == <<"a", "b", "c", "d", "e", "f", "g", "h", "i">>
SomeParts ==
  {[kind |-> "text", str |-> <<"5", "d">>], [kind |-> "percent"]}
  \cup {Conv("s", flags, width, prec, "", <<"a", "b", "c">>) :
          flags \in {<<>>, <<"LEFT">>}, width \in {Nothing, WrittenOut(5), Passed(-4)},
          prec \in {Nothing, WrittenOut(2), Passed(1), Passed(-1)}}
  \cup {Conv("c", flags, width, Nothing, "", "z") :
          flags \in {<<>>, <<"LEFT">>}, width \in {Nothing, WrittenOut(3), Passed(2)}}
  \cup {Conv("c", <<>>, width, Nothing, "", "z") : width \in {WrittenOut(8), WrittenOut(9), Passed(-9)}}
  \cup {Conv("s", <<>>, width, prec, "", LongString) :
          width \in {Nothing, WrittenOut(9)}, prec \in {Nothing, Passed(8), Passed(9)}}
  \cup {Conv("d", <<"ZEROPAD", "PLUS">>, WrittenOut(4), Nothing, "", 3), Conv("x", <<"HASH">>, Nothing, Nothing, "hh", 15),
         Conv("u", <<>>, Passed(3), WrittenOut(2), "h", 7), Conv("i", <<"SPACE">>, Nothing, Passed(3), "l", 12),
         Conv("q", <<"LEFT">>, WrittenOut(3), Nothing, "l", 0)}

=============================================================================
