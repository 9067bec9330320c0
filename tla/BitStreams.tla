----------------------------- MODULE BitStreams -----------------------------
(***************************************************************************)
(* The bit streams under the arithmetic coder: BitOutputStream with the    *)
(* CountingBitOutputStream around it (arithmetic_coding.cpp:3-22, 58-66,   *)
(* and the same in arithmetic_coding.py), and BitInputStream               *)
(* (arithmetic_coding.py:518-557).  A byte is the sequence of its bits,    *)
(* the highest first; a file is a sequence of bytes.                       *)
(***************************************************************************)
EXTENDS Integers, SequencesExt

CONSTANT ByteSize   \* 8

NewOutput == [currentbyte |-> <<>>, num_bits |-> 0, file |-> <<>>]

write(o, b) ==
  LET byte == Append(o.currentbyte, b) IN
  IF Len(byte) = ByteSize
  THEN [currentbyte |-> <<>>, num_bits |-> o.num_bits + 1, file |-> Append(o.file, byte)]
  ELSE [o EXCEPT !.currentbyte = byte, !.num_bits = @ + 1]

\* close pads the last byte with zeros.  The variant pads a full byte too.
PaddingWhole(n) == ByteSize - (n % ByteSize)
Padding(n) == (ByteSize - (n % ByteSize)) % ByteSize

close(o) ==
  [currentbyte |-> <<>>,
   num_bits    |-> o.num_bits + Padding(o.num_bits),
   file        |-> IF o.currentbyte = <<>> THEN o.file
                   ELSE Append(o.file, o.currentbyte \o
                          [k \in 1..(ByteSize - Len(o.currentbyte)) |-> 0])]

\* A reader is how many bits it has taken; behind the end it stays there.
read(pos, file) ==
  IF pos < ByteSize * Len(file)
  THEN file[(pos \div ByteSize) + 1][(pos % ByteSize) + 1]
  ELSE -1
=============================================================================
