--------------------------- MODULE ArithmeticCoder ---------------------------
(***************************************************************************)
(* The arithmetic coder: the encoder of arithmetic_coding.cpp and of       *)
(* arithmetic_coding.py, which are the same program but for the width of   *)
(* the interval, and the decoder, of which only the Python one exists.     *)
(* A message is encoded, finished and closed, and then decoded.            *)
(*                                                                         *)
(* A frequency table is its sequence of cumulative frequencies, from 0 to  *)
(* the total; symbol s has those from table[s] to table[s + 1].            *)
(***************************************************************************)
EXTENDS BitStreams

CONSTANTS StateSize,   \* STATE_SIZE
          Encoders,    \* 1: its range counts both ends (.py); 0: only one (.cpp)
          Tables,      \* the frequency tables
          MaxSymbols   \* bound: symbols in a message

MAX_RANGE == 2 ^ StateSize
MIN_RANGE == MAX_RANGE \div 4 + 2
MAX_TOTAL == MIN_RANGE
MASK      == MAX_RANGE - 1
Half      == MAX_RANGE \div 2     \* TOP_MASK
Quarter   == MAX_RANGE \div 4     \* SECOND_MASK

Symbols(table) == 1..(Len(table) - 1)

ASSUME CoderAssumption ==
  /\ ByteSize \in Nat \ {0}
  /\ StateSize \in Nat /\ StateSize > 2 /\ Encoders \subseteq 0..1 /\ MaxSymbols \in Nat
  /\ \A t \in Tables :
       /\ t \in Seq(Nat) /\ Len(t) > 1 /\ t[1] = 0
       /\ \A a, b \in DOMAIN t : a < b => t[a] < t[b]

\* What the proofs use of powers.
ASSUME PowersOfTwo ==
  /\ 2 ^ 0 = 1
  /\ \A n \in 0..(StateSize - 1) :
       /\ 2 ^ n \in Nat \ {0} /\ 2 ^ (n + 1) = 2 * 2 ^ n
       /\ 2 ^ (n + 1) <= MAX_RANGE

VARIABLES
  phase,    \* "encode", "shift" (the encoder's), "fill" (the decoder's
            \* constructor), "decode"
  closed,   \* which encoder is at work
  message,  \* history: the symbols encoded, each with its table
  enc,      \* the encoder: low, high, num_underflow
  out,      \* the stream it writes to
  dec,      \* the decoder: low, high, code
  pos,      \* bits the decoder has read
  decoded   \* the symbols decoded

vars == <<phase, closed, message, enc, out, dec, pos, decoded>>

Init ==
  /\ phase = "encode" /\ closed \in Encoders /\ message = <<>> /\ decoded = <<>>
  /\ enc = [low |-> 0, high |-> MASK, num_underflow |-> 0]
  /\ out = NewOutput
  /\ dec = [low |-> 0, high |-> MASK, code |-> 0] /\ pos = 0

(***************************************************************************)
(* update: the interval shrinks to the part of the symbol, then the loops  *)
(* widen it, one step here for one iteration.  While both ends have the    *)
(* same top bit it is shifted out; then, while low = 01... and             *)
(* high = 10..., the second bit is taken out.                              *)
(***************************************************************************)
\* A variant that takes the end of the part for the last number in it.
NewHighOpen(c, width, table, s)  == c.low + (table[s + 1] * width) \div Last(table)
NewHigh(c, width, table, s) == c.low + (table[s + 1] * width) \div Last(table) - 1
NewLow(c, width, table, s)  == c.low + (table[s] * width) \div Last(table)

Narrow(c, ends, table, s) ==
  LET width == c.high - c.low + ends IN
  [c EXCEPT !.low = NewLow(c, width, table, s), !.high = NewHigh(c, width, table, s)]

SameTop(c)   == (c.low \div Half) % 2 = (c.high \div Half) % 2
Straddles(c) == (c.low \div Quarter) % 2 = 1 /\ (c.high \div Quarter) % 2 = 0
Settled(c)   == ~SameTop(c) /\ ~Straddles(c)

Shifted(c) ==
  [c EXCEPT !.low = (2 * @) % MAX_RANGE, !.high = ((2 * @) % MAX_RANGE) + 1]

SecondOut(c) ==
  [c EXCEPT !.low = (2 * @) % Half, !.high = ((2 * @) % Half) + Half + 1]

(***************************************************************************)
(* The encoder.  The C++ one can be left with an empty interval by a table *)
(* of total MAX_TOTAL; the model does not narrow that one again.           *)
(***************************************************************************)
EncoderWrite(table, s) ==
  /\ phase = "encode" /\ Settled(enc) /\ enc.low <= enc.high
  /\ Len(message) < MaxSymbols
  /\ Last(table) <= MAX_TOTAL
  /\ enc' = Narrow(enc, closed, table, s)
  /\ message' = Append(message, [table |-> table, symbol |-> s])
  /\ UNCHANGED <<phase, closed, out, dec, pos, decoded>>

TopBit == enc.low \div Half

\* shift writes the top bit, then the pending ones, one step for one bit.
EncoderTopBit ==
  /\ phase = "encode" /\ SameTop(enc)
  /\ out' = write(out, TopBit)
  /\ phase' = "shift"
  /\ UNCHANGED <<closed, message, enc, dec, pos, decoded>>

\* A variant that does not invert the pending bits.
EncoderPendingSame ==
  /\ phase = "shift" /\ enc.num_underflow > 0
  /\ out' = write(out, TopBit)
  /\ enc' = [enc EXCEPT !.num_underflow = @ - 1]
  /\ UNCHANGED <<phase, closed, message, dec, pos, decoded>>

EncoderPending ==
  /\ phase = "shift" /\ enc.num_underflow > 0
  /\ out' = write(out, 1 - TopBit)
  /\ enc' = [enc EXCEPT !.num_underflow = @ - 1]
  /\ UNCHANGED <<phase, closed, message, dec, pos, decoded>>

EncoderShift ==
  /\ phase = "shift" /\ enc.num_underflow = 0
  /\ enc' = Shifted(enc)
  /\ phase' = "encode"
  /\ UNCHANGED <<closed, message, out, dec, pos, decoded>>

EncoderUnderflow ==
  /\ phase = "encode" /\ ~SameTop(enc) /\ Straddles(enc)
  /\ enc' = [SecondOut(enc) EXCEPT !.num_underflow = @ + 1]
  /\ UNCHANGED <<phase, closed, message, out, dec, pos, decoded>>

\* finish writes one bit, and the stream is closed.
Finish ==
  /\ phase = "encode" /\ Settled(enc)
  /\ out' = close(write(out, 1))
  /\ phase' = "fill"
  /\ UNCHANGED <<closed, message, enc, dec, pos, decoded>>

(***************************************************************************)
(* The decoder.  Behind the end of the file it reads zeros.                *)
(***************************************************************************)
CodeBit == IF read(pos, out.file) = -1 THEN 0 ELSE read(pos, out.file)

DecoderFill ==
  /\ phase = "fill"
  /\ dec' = [dec EXCEPT !.code = 2 * @ + CodeBit]
  /\ pos' = pos + 1
  /\ phase' = IF pos' = StateSize THEN "decode" ELSE "fill"
  /\ UNCHANGED <<closed, message, enc, out, decoded>>

\* The binary search finds the symbol with value in its part.
DecoderRead ==
  /\ phase = "decode" /\ Settled(dec)
  /\ Len(decoded) < Len(message)
  /\ LET table == message[Len(decoded) + 1].table
         width == dec.high - dec.low + 1
         value == ((dec.code - dec.low + 1) * Last(table) - 1) \div width
     IN  \E s \in Symbols(table) :
           /\ table[s] <= value /\ value < table[s + 1]
           /\ dec' = Narrow(dec, 1, table, s)
           /\ decoded' = Append(decoded, s)
  /\ UNCHANGED <<phase, closed, message, enc, out, pos>>

DecoderShift ==
  /\ phase = "decode" /\ SameTop(dec)
  /\ dec' = [Shifted(dec) EXCEPT !.code = ((2 * @) % MAX_RANGE) + CodeBit]
  /\ pos' = pos + 1
  /\ UNCHANGED <<phase, closed, message, enc, out, decoded>>

\* A variant that shifts the whole code, its top bit too.
CodeSecondOutWhole == ((2 * dec.code) % MAX_RANGE) + CodeBit
CodeSecondOut == (dec.code \div Half) * Half + ((2 * dec.code) % Half) + CodeBit

\* A variant that reads a bit and leaves the interval as it is.
DecoderUnderflowStuck ==
  /\ phase = "decode" /\ ~SameTop(dec) /\ Straddles(dec)
  /\ dec' = [dec EXCEPT !.code = CodeSecondOut]
  /\ UNCHANGED <<phase, closed, message, enc, out, pos, decoded>>

DecoderUnderflow ==
  /\ phase = "decode" /\ ~SameTop(dec) /\ Straddles(dec)
  /\ dec' = [SecondOut(dec) EXCEPT !.code = CodeSecondOut]
  /\ pos' = pos + 1
  /\ UNCHANGED <<phase, closed, message, enc, out, decoded>>

Decoder == DecoderFill \/ DecoderRead \/ DecoderShift \/ DecoderUnderflow

\* What the encoder does between two symbols.
Encoder == EncoderTopBit \/ EncoderPending \/ EncoderShift \/ EncoderUnderflow

Next ==
  \/ \E table \in Tables : \E s \in Symbols(table) : EncoderWrite(table, s)
  \/ Encoder \/ Finish \/ Decoder

Spec == Init /\ [][Next]_vars

\* The program runs on; when a message ends is the caller's choice.
FairSpec == Spec /\ WF_vars(Encoder \/ Decoder)
-----------------------------------------------------------------------------
(***************************************************************************)
(* The registers hold StateSize bits, also between the shifts; the bits    *)
(* not yet written are fewer than a byte (arithmetic_coding.h:69-99).      *)
(***************************************************************************)
Register == 0..MASK
Bits     == Seq(0..1)
Byte     == [1..ByteSize -> 0..1]

TypeOK ==
  /\ phase \in {"encode", "shift", "fill", "decode"} /\ closed \in Encoders
  /\ message \in Seq([table : Tables, symbol : Nat]) /\ decoded \in Seq(Nat)
  /\ enc \in [low : Register, high : Register, num_underflow : Nat]
  /\ dec \in [low : Register, high : Register, code : Register]
  /\ pos \in Nat
  /\ out \in [currentbyte : Bits, num_bits : Nat, file : Seq(Byte)]
  /\ Len(out.currentbyte) < ByteSize

(***************************************************************************)
(* Between two symbols the ends of the interval are in different halves,   *)
(* not both in the middle quarters, and wide enough for MAX_TOTAL, however *)
(* the symbols before them narrowed it (arithmetic_coding.py:71-81).  The  *)
(* C++ encoder, which counts one number less, keeps it so only as long as  *)
(* every table has a total below MAX_TOTAL.                                *)
(***************************************************************************)
GoodInterval(c) ==
  /\ 0 <= c.low /\ c.low < Half /\ Half <= c.high /\ c.high < MAX_RANGE
  /\ c.low < Quarter \/ c.high >= 3 * Quarter
  /\ c.high - c.low + 1 >= MIN_RANGE

Promised ==
  closed = 1 \/ \A k \in DOMAIN message : Last(message[k].table) < MAX_TOTAL

IntervalsGood ==
  /\ Promised /\ Settled(enc) => GoodInterval(enc)
  /\ Settled(dec) => GoodInterval(dec)

(***************************************************************************)
(* The interval of an encoder never empties, whatever tables it is given   *)
(* that it does not refuse: MAX_TOTAL is the "maximum allowed total        *)
(* frequency at all times during coding" (arithmetic_coding.h:79).         *)
(***************************************************************************)
IntervalNeverEmpty == enc.low <= enc.high

(***************************************************************************)
(* The decoder's code stays in the decoder's interval, through every       *)
(* narrowing, shift and underflow and behind the end of the file           *)
(* (arithmetic_coding.py:73, 211-212).                                     *)
(***************************************************************************)
CodeInInterval ==
  phase = "decode" => dec.low <= dec.code /\ dec.code <= dec.high

(***************************************************************************)
(* What is decoded is the message, if the Python program encoded it: the   *)
(* two share the range.  The single 1 that finish writes, with bits still  *)
(* pending and zeros as padding, is enough to decode the last symbol       *)
(* (arithmetic_coding.py:149-153, 227-233).                                *)
(***************************************************************************)
DecodedIsMessage ==
  closed = 1 => \A k \in DOMAIN decoded : decoded[k] = message[k].symbol

(***************************************************************************)
(* The bits counted are the bits in the file, the padding too              *)
(* (CountingBitOutputStream, arithmetic_coding.cpp:58-66).                 *)
(***************************************************************************)
BitsCounted ==
  out.num_bits = ByteSize * Len(out.file) + Len(out.currentbyte)

(***************************************************************************)
(* A finished message is decoded to its end: the loops of update end, for  *)
(* the encoder and the decoder (arithmetic_coding.py:107-121).             *)
(***************************************************************************)
EndIsReached == phase = "fill" ~> Len(decoded) = Len(message) /\ Settled(dec)
=============================================================================
