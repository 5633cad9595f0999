-------------------------------- MODULE Ntoa --------------------------------
(***************************************************************************)
(* Numbers in _vsnprintf.c: _ntoa, and the part of _vsnprintf that reads   *)
(* the argument and sets the flags for it.  A string is the sequence of    *)
(* its characters.                                                         *)
(***************************************************************************)
EXTENDS Integers, Sequences, SequencesExt

CONSTANTS
  PRINTF_NTOA_BUFFER_SIZE,   \* 256 in the code
  Values                     \* size -> the number of values: char, short, int, long

ASSUME NtoaAssumption ==
  /\ PRINTF_NTOA_BUFFER_SIZE \in Nat
  /\ \A s \in {"hh", "h", "", "l"} : Values[s] \in Nat /\ Values[s] % 2 = 0

DigitChars == <<"0", "1", "2", "3", "4", "5", "6", "7", "8", "9", "a", "b", "c", "d", "e", "f">>

\* The digits of a value, the last first; those that do not fit are dropped.
Digits(value, base) ==
  LET digits[k \in Nat] ==   \* k: room left
        IF k = 0 THEN [rest |-> value, str |-> <<>>]
        ELSE LET d == digits[k - 1]
             IN IF d.str # <<>> /\ d.rest = 0 THEN d
                ELSE [rest |-> d.rest \div base, str |-> Append(d.str, DigitChars[(d.rest % base) + 1])]
  IN digits[PRINTF_NTOA_BUFFER_SIZE].str

Times(n, char) == [j \in 1..(IF n > 0 THEN n ELSE 0) |-> char]

PaddedUnbounded(str, len, char) == str \o Times(len - Len(str), char)   \* mutant: no look at the buffer
\* The string made as long as it is to be, or as the buffer.
Padded(str, len, char) ==
  str \o Times((IF len < PRINTF_NTOA_BUFFER_SIZE THEN len ELSE PRINTF_NTOA_BUFFER_SIZE) - Len(str), char)

\* One more character, if there is room.
Put(str, char) == Padded(str, Len(str) + 1, char)

\* Places given up for "0x" and "0" of a string that is as long as it was to
\* be: padding zeros, if there are any.
Reduced(str, base, prec, width, flags) ==
  IF "PRECISION" \notin flags /\ str # <<>> /\ Len(str) \in {prec, width}
  THEN SubSeq(str, 1, IF base = 16 /\ Len(str) > 1 THEN Len(str) - 2 ELSE Len(str) - 1)
  ELSE str

Hashed(str, base, prec, width, flags) ==
  LET short == Reduced(str, base, prec, width, flags)
  IN Put(IF base = 16 THEN Put(short, IF "UPPERCASE" \in flags THEN "X" ELSE "x") ELSE short, "0")

Ntoa(value, base, negative, prec, width, given) ==
  LET flags  == IF value = 0 THEN given \ {"HASH"} ELSE given
      left   == "LEFT" \in flags
      room   == IF ~left /\ width > 0 /\ "ZEROPAD" \in flags
                   /\ (negative \/ flags \cap {"PLUS", "SPACE"} # {})
                THEN width - 1 ELSE width
      digits == IF "PRECISION" \in flags /\ value = 0 THEN <<>> ELSE Digits(value, base)
      zeros  == IF left THEN digits
                ELSE Padded(Padded(digits, prec, "0"), IF "ZEROPAD" \in flags THEN room ELSE 0, "0")
      spaces == IF left THEN zeros ELSE Padded(zeros, room, " ")
      hashed == IF "HASH" \in flags THEN Hashed(spaces, base, prec, room, flags) ELSE spaces
      signed == CASE negative -> Put(hashed, "-")
                  [] ~negative /\ "PLUS" \in flags -> Put(hashed, "+")
                  [] ~negative /\ "PLUS" \notin flags /\ "SPACE" \in flags -> Put(hashed, " ")
                  [] OTHER -> hashed
  IN IF left THEN Padded(Reverse(signed), width, " ") ELSE Reverse(signed)

----------------------------------------------------------------------------
(* The conversions                                                         *)

BaseOf(conv) == CASE conv \in {"x", "X", "p"} -> 16 [] conv = "o" -> 8 [] OTHER -> 10

\* The argument as the conversion reads it: as many of its bits as the size
\* has, with or without a sign.
IsSigned(conv) == conv \in {"d", "i"}
ReadAs(conv, size, arg) ==
  LET n == arg % Values[IF conv = "p" THEN "l" ELSE size]
  IN IF IsSigned(conv) /\ n >= Values[size] \div 2 THEN n - Values[size] ELSE n

\* The flags that count for it.
FlagsFor(conv, flags) ==
  (IF conv = "X" THEN flags \cup {"UPPERCASE"} ELSE flags)
  \ ((IF BaseOf(conv) = 10 THEN {"HASH"} ELSE {})
     \cup (IF IsSigned(conv) THEN {} ELSE {"PLUS", "SPACE"})
     \cup (IF "PRECISION" \in flags THEN {"ZEROPAD"} ELSE {}))

\* What is printed: a negative number is passed on as the unsigned one it is
\* converted to.
Converted(conv, size, prec, width, flags, arg) ==
  LET value == ReadAs(conv, size, arg)
  IN Ntoa(value % Values["l"], BaseOf(conv), value < 0, prec, width, FlagsFor(conv, flags))

----------------------------------------------------------------------------
(* Reading it back                                                         *)

DigitOf(char) == SelectInSeq(DigitChars, LAMBDA c : c = char) - 1

\* The number a string shows; what stands before an x is not part of it.
ValueOf(str, base) ==
  FoldLeft(LAMBDA n, c : IF c \in {"x", "X"} THEN 0
                         ELSE IF DigitOf(c) >= 0 THEN n * base + DigitOf(c) ELSE n, 0, str)
NumberOfDigits(str) == Len(SelectSeq(str, LAMBDA c : DigitOf(c) >= 0))

============================================================================
