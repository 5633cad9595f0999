-------------------------------- MODULE Log ---------------------------------
(***************************************************************************)
(* The kernel log of log.c: a table of outputs, and messages that are put  *)
(* together in a buffer by snprintf and vsnprintf (_vsnprintf.c).          *)
(*                                                                         *)
(* A character is a triple that tells where it comes from; the pieces of a *)
(* format are its conversions and the text between them.  A piece that is  *)
(* longer than the buffer in which _vsnprintf puts a conversion together   *)
(* (256 places, as many as a message has) is for Format, not for this      *)
(* module.                                                                 *)
(***************************************************************************)
EXTENDS Integers, Sequences, SequencesExt

CONSTANTS
  MAX_LOG_OUTPUTS,   \* 4 in the code
  MAX_MSG_SIZE,      \* 256 in the code
  LevelLength        \* of "[FATAL] " and the others with their colours: 16 to 19 in the code

ASSUME LogAssumption ==
  /\ MAX_LOG_OUTPUTS \in Nat /\ MAX_MSG_SIZE \in Nat /\ LevelLength \in Nat \ {0}
  /\ MAX_MSG_SIZE - 2 > LevelLength

Levels == 0..4   \* LOG_FATAL to LOG_DEBUG

Cr == <<"end", 13, 0>>
Lf == <<"end", 10, 0>>
Nul == <<"end", 0, 0>>
Garbage == <<"garbage", 0, 0>>   \* what lay on the stack

GetLevelString(level) == [j \in 1..LevelLength |-> <<"level", level, j>>]
PieceText(k, length) == [j \in 1..length |-> <<"text", k, j>>]

----------------------------------------------------------------------------
(* snprintf and vsnprintf into the message's buffer                        *)

\* _out_s: the characters that fit are stored, also when not all do.
OutS(buffer, from, idx, str, max_len) ==
  [i \in DOMAIN buffer |->
     IF i - idx \in 0..(Len(str) - 1) /\ i - from < max_len
     THEN str[i - idx + 1] ELSE buffer[i]]

\* One piece: text that does not fit is not stored at all, of a conversion as
\* much as fits is; either ends the call, with -1.
Printed(out, piece) ==
  LET fits == Len(piece.str) <= out.max_len - out.written
  IN IF out.failed THEN out
     ELSE [from    |-> out.from,
           max_len |-> out.max_len,
           buffer  |-> IF fits \/ piece.conversion
                       THEN OutS(out.buffer, out.from, out.from + out.written, piece.str, out.max_len)
                       ELSE out.buffer,
           written |-> IF fits THEN out.written + Len(piece.str) ELSE out.written,
           failed  |-> ~fits]

\* The end of the string is behind it, or on its last character.
EndPlace(written, max_len) == IF written < max_len THEN written ELSE max_len - 1

\* The string at index "from" of the buffer, and what the call returns.
Vsnprintf(buffer, from, max_len, pieces) ==
  LET out == FoldLeft(Printed, [from |-> from, max_len |-> max_len, buffer |-> buffer,
                                written |-> 0, failed |-> FALSE], pieces)
  IN IF out.failed THEN [buffer |-> out.buffer, returns |-> -1]
     ELSE [buffer  |-> OutS(out.buffer, from, from + EndPlace(out.written, max_len), <<Nul>>, max_len),
           returns |-> out.written]

----------------------------------------------------------------------------
(* log.c                                                                   *)

\* The message as log_vprintf leaves it in its buffer.  (A text that takes
\* all of the room puts the last zero behind the buffer: not followed.)
MsgBuffer(level, pieces) ==
  LET prefix == Vsnprintf([i \in 0..(MAX_MSG_SIZE - 1) |-> Garbage], 0, MAX_MSG_SIZE - 2,
                          <<[conversion |-> TRUE, str |-> GetLevelString(level)]>>)
      text == Vsnprintf(prefix.buffer, prefix.returns, MAX_MSG_SIZE - 2 - prefix.returns, pieces)
      msg_size == prefix.returns + text.returns
  IN OutS(text.buffer, 0, msg_size, <<Cr, Lf, Nul>>, MAX_MSG_SIZE)

\* What an output makes of it (write_serial): the characters before the first 0.
Written(buffer) ==
  LET ends == {n \in DOMAIN buffer : buffer[n] = Nul}
      end  == CHOOSE n \in ends : \A m \in ends : n <= m
  IN [j \in 1..end |-> buffer[j - 1]]

NoOutputs == [i \in 1..MAX_LOG_OUTPUTS |-> <<>>]   \* log_init; <<>> is a free place

\* log_add_output: the first free place, if there is one.
LogAddOutput(log_outputs, output) ==
  LET i == SelectInSeq(log_outputs, LAMBDA o : o = <<>>)
  IN IF i = 0 THEN log_outputs ELSE [log_outputs EXCEPT ![i] = output]

\* log_vprintf goes over the table and hands a message to the outputs that
\* have its level.
HandedOpen(to, output) ==   \* mutant: a message of the output's own level is left out
  IF output # <<>> /\ to.level < output.max_level
  THEN [level |-> to.level, outputs |-> Append(to.outputs, output)] ELSE to
Handed(to, output) ==
  IF output # <<>> /\ to.level <= output.max_level
  THEN [level |-> to.level, outputs |-> Append(to.outputs, output)] ELSE to
Outputs(log_outputs, level) ==
  FoldLeft(Handed, [level |-> level, outputs |-> <<>>], log_outputs).outputs

LogVprintf(log_outputs, level, pieces) ==
  LET outputs == Outputs(log_outputs, level)
  IN [k \in DOMAIN outputs |->
        [output |-> outputs[k].write_func, string |-> Written(MsgBuffer(level, pieces))]]

============================================================================
