-------------------------------- MODULE Clock -------------------------------
(***************************************************************************)
(* The date of time.c: read_cmos with secs_to_year, secs_to_month and      *)
(* bcd_to_binary.  The registers are the bytes of the clock chip; status B *)
(* says in which of four formats they are.  They are read one by one, with *)
(* no look at the chip's update flag.                                      *)
(***************************************************************************)
EXTENDS Integers, Sequences, SequencesExt

Total(seq) == FoldLeft(LAMBDA n, x : n + x, 0, seq)

SecsToYear(year) == ((year - 1970) * 365 + (year - 1968) \div 4) * 86400

IsLeap(year) == year % 4 = 0 /\ (year % 100 # 0 \/ year % 400 = 0)

\* The cases of secs_to_month fall through, from the month before the one
\* asked for down to January.
DaysOfMonthPlain(month, year) ==   \* mutant: no 29th of February
  CASE month = 2 -> 28 [] month \in {4, 6, 9, 11} -> 30 [] OTHER -> 31
DaysOfMonth(month, year) ==
  CASE month = 2 -> IF IsLeap(year) THEN 29 ELSE 28
    [] month \in {4, 6, 9, 11} -> 30
    [] OTHER -> 31
SecsToMonth(month, year) ==
  Total([m \in 1..(month - 1) |-> DaysOfMonth(m, year)]) * 86400

BcdToBinary(bcd) == (bcd \div 16) * 8 + (bcd \div 16) * 2 + (bcd % 16)

PM == 128   \* the bit of the hour's register for the afternoon

\* The hour in 12 hour format.  The bit is taken away before it is looked at
\* a second time.
Hour24(hour) ==
  LET once == IF hour >= PM THEN (hour % PM) + 12 ELSE hour
  IN IF once >= PM THEN IF (once % PM) + 12 = 24 THEN 12 ELSE (once % PM) + 12
     ELSE IF once = 12 THEN 0 ELSE once

ReadCmos(status_b, reg) ==
  LET binary(byte) == IF status_b.BINARY THEN byte ELSE BcdToBinary(byte)
      hour == IF status_b.BINARY THEN reg.hour
              ELSE BcdToBinary(reg.hour % PM) + (reg.hour \div PM) * PM
      year == binary(reg.century) * 100 + binary(reg.year)
  IN SecsToYear(year) + SecsToMonth(binary(reg.month), year) + (binary(reg.day) - 1) * 86400
     + (IF status_b.HOURS24 THEN hour ELSE Hour24(hour)) * 3600
     + binary(reg.minute) * 60 + binary(reg.second)

----------------------------------------------------------------------------
(* The chip and the calendar                                               *)

\* The registers at an instant: external, the format of the clock chip.
Registers(status_b, at) ==
  LET byte(n) == IF status_b.BINARY THEN n ELSE (n \div 10) * 16 + (n % 10)
      hour12 == IF at.hour % 12 = 0 THEN 12 ELSE at.hour % 12
  IN [century |-> byte(at.year \div 100), year |-> byte(at.year % 100), month |-> byte(at.month),
      day |-> byte(at.day), minute |-> byte(at.minute), second |-> byte(at.second),
      hour |-> IF status_b.HOURS24 THEN byte(at.hour)
               ELSE byte(hour12) + (IF at.hour >= 12 THEN PM ELSE 0)]

\* The registers in the order in which read_cmos reads them.
InOrder == <<"second", "minute", "hour", "day", "month", "year", "century">>

\* The instant a second later.
YearLength(year) == IF IsLeap(year) THEN 366 ELSE 365
MonthLengths(year) == <<31, YearLength(year) - 337, 31, 30, 31, 30, 31, 31, 30, 31, 30, 31>>
Longest(at) ==
  [second |-> 59, minute |-> 59, hour |-> 23, day |-> MonthLengths(at.year)[at.month], month |-> 12]
RolledOver(at) ==   \* how many fields start again
  CHOOSE n \in 0..5 : /\ n < 5 => at[InOrder[n + 1]] # Longest(at)[InOrder[n + 1]]
                      /\ \A k \in 1..n : at[InOrder[k]] = Longest(at)[InOrder[k]]
OneLater(at) ==
  LET n == RolledOver(at)
  IN [f \in DOMAIN at |->
        IF \E k \in 1..n : InOrder[k] = f THEN (IF f \in {"day", "month"} THEN 1 ELSE 0)
        ELSE IF f = InOrder[n + 1] THEN at[f] + 1 ELSE at[f]]

\* What read_cmos reads when the chip goes on behind its first k registers.
ReadOneByOne(status_b, at, k) ==
  [f \in ToSet(InOrder) |->
     IF \E j \in 1..k : InOrder[j] = f THEN Registers(status_b, at)[f]
     ELSE Registers(status_b, OneLater(at))[f]]

\* The seconds from the start of 1970 to an instant, counted year by year.
UnixTime(at) ==
  LET years  == Total([y \in 1..(at.year - 1970) |-> YearLength(1969 + y)])
      months == Total([m \in 1..(at.month - 1) |-> MonthLengths(at.year)[m]])
  IN (years + months + at.day - 1) * 86400 + at.hour * 3600 + at.minute * 60 + at.second

============================================================================
