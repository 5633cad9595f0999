------------------------------- MODULE Format -------------------------------
(***************************************************************************)
(* The format strings of _vsnprintf.c: how _vsnprintf walks a format, what *)
(* it reads of a conversion, which arguments it takes for it, and what it  *)
(* leaves in a buffer of a given size.  Numbers are printed by Ntoa.  A    *)
(* format and a string are sequences of characters.  A conversion is put   *)
(* together in str_buffer, which has PRINTF_NTOA_BUFFER_SIZE places: _ntoa *)
(* stops at its end, %c and %s do not (see Overruns).                      *)
(***************************************************************************)
EXTENDS Ntoa

EndOfString == "\\0"   \* the end of a string, read behind its last character
CharAt(format, i) == IF i \in DOMAIN format THEN format[i] ELSE EndOfString

\* The first place from i on whose character ends what is being read.
FirstFrom(format, i, Ends(_)) ==
  CHOOSE j \in i..(Len(format) + 1) :
    /\ Ends(CharAt(format, j))
    /\ \A k \in i..(j - 1) : ~Ends(CharAt(format, k))

IsDigit(char) == DigitOf(char) \in 0..9
Atoi(digits) == FoldLeft(LAMBDA n, c : n * 10 + DigitOf(c), 0, digits)

----------------------------------------------------------------------------
(* A conversion                                                            *)

FlagOf == [c \in {"0", "-", "+", " ", "#"} |->
             CASE c = "0" -> "ZEROPAD" [] c = "-" -> "LEFT" [] c = "+" -> "PLUS"
               [] c = " " -> "SPACE" [] c = "#" -> "HASH"]

\* A width or a precision at place i: digits, an argument, or nothing.
Field(format, i, args) ==
  LET end == FirstFrom(format, i, LAMBDA c : ~IsDigit(c))
  IN IF end > i THEN [value |-> Atoi(SubSeq(format, i, end - 1)), next |-> end, args |-> args]
     ELSE IF CharAt(format, i) = "*" THEN [value |-> Head(args), next |-> i + 1, args |-> Tail(args)]
     ELSE [value |-> 0, next |-> i, args |-> args]

\* A conversion c as far as it has been read: the next place, and the arguments
\* that are left.  First its flags, behind the % at place i.
Flagged(format, i, args) ==
  LET end == FirstFrom(format, i + 1, LAMBDA c : c \notin DOMAIN FlagOf)
  IN [flags |-> {FlagOf[format[j]] : j \in (i + 1)..(end - 1)}, next |-> end, args |-> args]

\* A negative width is one to the left.
Width(format, c) ==
  LET f == Field(format, c.next, c.args)
  IN [flags |-> c.flags \cup (IF f.value < 0 THEN {"LEFT"} ELSE {}),
      width |-> IF f.value < 0 THEN -f.value ELSE f.value,
      next  |-> f.next,
      args  |-> f.args]

\* The precision behind a point.  One taken from the arguments moves the start
\* of the format on by one (moved) instead of the place in it.
PrecisionAt(format, c, at) ==
  LET f == Field(format, at, c.args)
  IN [flags |-> c.flags \cup {"PRECISION"},
      width |-> c.width,
      prec  |-> IF f.value > 0 THEN f.value ELSE 0,
      moved |-> IF CharAt(format, at) = "*" THEN 1 ELSE 0,
      next  |-> f.next,
      args  |-> f.args]
NoPrecision(c) ==
  [flags |-> c.flags, width |-> c.width, prec |-> 0, moved |-> 0, next |-> c.next, args |-> c.args]
PrecisionKept(format, c) ==   \* mutant: the . of a precision is not passed over
  IF CharAt(format, c.next) = "." THEN PrecisionAt(format, c, c.next) ELSE NoPrecision(c)
Precision(format, c) ==
  IF CharAt(format, c.next) = "." THEN PrecisionAt(format, c, c.next + 1) ELSE NoPrecision(c)

\* The length: two letters of a kind, one, or none.  long long is long.
Length(format, i) ==
  LET c == CharAt(format, i)
      n == IF c \notin {"l", "h"} THEN 0 ELSE IF CharAt(format, i + 1) = c THEN 2 ELSE 1
  IN [size |-> IF n = 0 THEN "" ELSE IF c = "l" THEN "l" ELSE IF n = 2 THEN "hh" ELSE "h",
      next |-> i + n]

\* Its letter, behind the length.
Letter(format, c, length) ==
  [flags |-> c.flags, width |-> c.width, prec |-> c.prec, moved |-> c.moved, args |-> c.args,
   size |-> length.size, conv |-> CharAt(format, length.next), next |-> length.next + 1]
Lettered(format, c) == Letter(format, c, Length(format, c.next))

\* What stands behind the % at place i.
Conversion(format, i, args) ==
  Lettered(format, Precision(format, Width(format, Flagged(format, i, args))))

Justified(str, width, flags) ==
  IF "LEFT" \in flags THEN str \o Times(width - Len(str), " ")
  ELSE Times(width - Len(str), " ") \o str

\* As much of a string as the precision lets through.
Cut(str, prec, flags) ==
  IF "PRECISION" \in flags /\ Len(str) > prec THEN SubSeq(str, 1, prec) ELSE str

\* What a conversion puts together of its argument.
Shown(c, arg) ==
  CASE c.conv = "c" -> Justified(<<arg>>, c.width, c.flags)
    [] c.conv = "s" -> Justified(Cut(arg, c.prec, c.flags), c.width, c.flags)
    [] OTHER -> Converted(c.conv, c.size, c.prec, c.width, c.flags, arg)

\* A character or a string is put together with no look at the end of
\* str_buffer, whatever the width and the string's length.
Overruns(c, arg) == c.conv \in {"c", "s"} /\ Len(Shown(c, arg)) > PRINTF_NTOA_BUFFER_SIZE

Known == {"d", "i", "u", "x", "X", "o", "p", "c", "s"}

----------------------------------------------------------------------------
(* The walk                                                                *)

\* A string is printed behind what there is.  Text that does not fit is left
\* out, of anything else as much as fits is stored; either ends the walk.
PrintOut(s, str, max_len, text) ==
  LET room == max_len - Len(s.out)
  IN IF Len(str) <= room THEN [s EXCEPT !.out = @ \o str]
     ELSE [s EXCEPT !.out = IF text THEN @ ELSE @ \o SubSeq(str, 1, room), !.failed = TRUE]

\* Text up to the next %, with a %% at its start read as one.
PrintText(format, s, max_len) ==
  LET from == IF format[s.i] = "%" THEN s.i + 1 ELSE s.i
      end  == FirstFrom(format, from + 1, LAMBDA c : c \in {"%", EndOfString})
  IN [PrintOut(s, SubSeq(format, from, end - 1), max_len, TRUE) EXCEPT !.i = end]

\* A conversion; one that is not known prints its % and is text from there on.
\* One that leaves str_buffer has written over the stack: not followed further.
PrintConverted(format, s, max_len, c) ==
  IF c.conv \in Known /\ Overruns(c, Head(c.args)) THEN [s EXCEPT !.overrun = TRUE]
  ELSE IF c.conv \in Known
  THEN [PrintOut(s, Shown(c, Head(c.args)), max_len, FALSE) EXCEPT !.i = c.next, !.args = Tail(c.args)]
  ELSE [PrintOut(s, <<CharAt(format, s.i + c.moved)>>, max_len, FALSE)
          EXCEPT !.i = s.i + c.moved + 1, !.args = c.args]
PrintConversion(format, s, max_len) ==
  PrintConverted(format, s, max_len, Conversion(format, s.i, s.args))

\* The buffer's string and the result of the call, if it does not overrun.  When
\* the text takes all of the buffer, its last character gives way to the end of
\* the string.
Ended(s, max_len) ==
  IF s.failed THEN [string |-> s.out, returns |-> -1, overrun |-> s.overrun]
  ELSE [string  |-> IF Len(s.out) < max_len THEN s.out ELSE SubSeq(s.out, 1, max_len - 1),
        returns |-> Len(s.out),
        overrun |-> s.overrun]
Formatted(format, args, max_len) ==
  LET walk[k \in 0..Len(format)] ==
        IF k = 0 THEN [i |-> 1, out |-> <<>>, args |-> args, failed |-> FALSE, overrun |-> FALSE]
        ELSE LET s == walk[k - 1]
             IN IF s.failed \/ s.overrun \/ s.i > Len(format) THEN s
                ELSE IF format[s.i] # "%" \/ CharAt(format, s.i + 1) = "%"
                THEN PrintText(format, s, max_len)
                ELSE PrintConversion(format, s, max_len)
  IN Ended(walk[Len(format)], max_len)

----------------------------------------------------------------------------
(* Formats put together                                                    *)

\* A part of a format: text, a % or a conversion with its arguments.
NoArgument == <<>>
CharOf(flag) == CHOOSE c \in DOMAIN FlagOf : FlagOf[c] = flag
DigitsOfField(n) == IF n > 9 THEN <<DigitChars[(n \div 10) + 1], DigitChars[(n % 10) + 1]>> ELSE <<DigitChars[n + 1]>>

\* A field as it is written, and the argument it takes.
FieldText(f) == CASE f.from = "none" -> <<>> [] f.from = "digits" -> DigitsOfField(f.value)
                  [] f.from = "argument" -> <<"*">>
FieldArgs(f) == IF f.from = "argument" THEN <<f.value>> ELSE NoArgument

SizeText == [s \in {"", "h", "hh", "l"} |->
               CASE s = "" -> <<>> [] s = "h" -> <<"h">> [] s = "hh" -> <<"h", "h">> [] s = "l" -> <<"l">>]

PartText(part) ==
  CASE part.kind = "text" -> part.str
    [] part.kind = "percent" -> <<"%", "%">>
    [] part.kind = "conversion" ->
         <<"%">> \o [k \in DOMAIN part.flags |-> CharOf(part.flags[k])]
         \o FieldText(part.width)
         \o (IF part.prec.from = "none" THEN <<>> ELSE <<".">> \o FieldText(part.prec))
         \o SizeText[part.size] \o <<part.conv>>
PartArgs(part) ==
  IF part.kind # "conversion" THEN NoArgument
  ELSE FieldArgs(part.width) \o FieldArgs(part.prec)
       \o (IF part.conv \in Known THEN <<part.arg>> ELSE NoArgument)

\* What a part should print.
Abs(n) == IF n < 0 THEN -n ELSE n
PartPrinted(part) ==
  CASE part.kind = "text" -> part.str
    [] part.kind = "percent" -> <<"%">>
    [] part.kind = "conversion" /\ part.conv \notin Known -> PartText(part)
    [] part.kind = "conversion" /\ part.conv \in Known ->
         Shown([conv  |-> part.conv, size |-> part.size,
                flags |-> ToSet(part.flags)
                          \cup (IF part.prec.from = "none" THEN {} ELSE {"PRECISION"})
                          \cup (IF part.width.value < 0 THEN {"LEFT"} ELSE {}),
                width |-> Abs(part.width.value),
                prec  |-> IF part.prec.value < 0 THEN 0 ELSE part.prec.value], part.arg)

\* One that does not fit str_buffer.
PartOverruns(part) ==
  part.kind = "conversion" /\ part.conv \in {"c", "s"} /\ Len(PartPrinted(part)) > PRINTF_NTOA_BUFFER_SIZE

FormatOf(parts) == FlattenSeq([k \in DOMAIN parts |-> PartText(parts[k])])
ArgsOf(parts) == FlattenSeq([k \in DOMAIN parts |-> PartArgs(parts[k])])
PrintedOf(parts) == FlattenSeq([k \in DOMAIN parts |-> PartPrinted(parts[k])])

=============================================================================
