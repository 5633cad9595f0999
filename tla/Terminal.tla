------------------------------ MODULE Terminal ------------------------------
(***************************************************************************)
(* The text terminal of tty.c, which printf writes to character by         *)
(* character.  A cell of the screen is the set of the glyphs drawn in it:  *)
(* drawing sets the pixels of a glyph and clears none.  The pixels beside  *)
(* the last column and below the last row are never drawn in.              *)
(***************************************************************************)
EXTENDS Integers, Sequences, SequencesExt

CONSTANTS
  terminal_width, terminal_height,   \* in cells
  Glyphs                             \* the characters that are drawn

ASSUME TerminalAssumption ==
  terminal_width \in Nat \ {0} /\ terminal_height \in Nat \ {0}

Rows == 0..(terminal_height - 1)
Columns == 0..(terminal_width - 1)
BlankRow == [x \in Columns |-> {}]

\* terminal_clear, with which terminal_initialize ends.
Cleared == [screen |-> [y \in Rows |-> BlankRow], row |-> 0, column |-> 0]

ScrolledOver(screen) ==   \* mutant: the last row is not made blank
  [y \in Rows |-> IF y < terminal_height - 1 THEN screen[y + 1] ELSE screen[y]]
Scrolled(screen) ==
  [y \in Rows |-> IF y < terminal_height - 1 THEN screen[y + 1] ELSE BlankRow]

\* terminal_newline.
Newline(t) ==
  IF t.row + 1 = terminal_height
  THEN [t EXCEPT !.column = 0, !.screen = Scrolled(@)]
  ELSE [t EXCEPT !.column = 0, !.row = @ + 1]

Drawn(t, c) == [t EXCEPT !.screen[t.row][t.column] = @ \cup {c}, !.column = @ + 1]

\* terminal_putchar.
Putchar(t, c) ==
  IF c = "\n" THEN Newline(t)
  ELSE LET drawn == Drawn(t, c)
       IN IF drawn.column = terminal_width THEN Newline(drawn) ELSE drawn

----------------------------------------------------------------------------
(* The reference: paper.                                                   *)

\* The lines of a text on paper as wide as the terminal, the last one not
\* full: a full line is followed by a new one at once.
OnPaper(lines, c) ==
  LET full == Append(Last(lines), c)
  IN IF c = "\n" THEN Append(lines, <<>>)
     ELSE IF Len(full) < terminal_width THEN Append(Front(lines), full)
     ELSE Front(lines) \o <<full, <<>>>>
Lines(text) == FoldLeft(OnPaper, <<<<>>>>, text)

\* A screen that shows lines: each in a row, every other cell blank, and the
\* cursor behind the last.
Showing(lines) ==
  [screen |-> [y \in Rows |-> [x \in Columns |->
                 IF y < Len(lines) /\ x < Len(lines[y + 1]) THEN {lines[y + 1][x + 1]} ELSE {}]],
   row    |-> Len(lines) - 1,
   column |-> Len(Last(lines))]

\* The last lines, as many as the screen has rows.
Bottom(lines) ==
  IF Len(lines) <= terminal_height THEN lines
  ELSE SubSeq(lines, Len(lines) - terminal_height + 1, Len(lines))

=============================================================================
