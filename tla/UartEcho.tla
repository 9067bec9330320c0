------------------------------ MODULE UartEcho ------------------------------
(***************************************************************************)
(* The UART of the FPGA (uart.v): a receiver, a buffer of one byte and a   *)
(* transmitter that sends every byte back, on one clock.                   *)
(*                                                                         *)
(* The other end is external: a sender, whose start bit may be a clock     *)
(* shorter or longer than ours and who pauses between bytes as it likes,   *)
(* and a receiver, for which a second uart_rx stands.                      *)
(***************************************************************************)
EXTENDS Integers, Sequences

CONSTANTS Cycles, Bits,  \* of uart_rx and uart_tx
          Bytes,         \* the bytes the sender sends
          Drifts         \* clocks by which its start bit is longer

Rx == INSTANCE UartRx
Tx == INSTANCE UartTx

\* "make sure CYCLES is even" (uart_rx.v:18).  A bit is sampled two clocks after
\* its middle, which must not be in the next bit when the start bit is short.
ASSUME EchoAssumption ==
  /\ Bits \in Nat \ {0}
  /\ Cycles \in Nat /\ Cycles >= 4 /\ Cycles % 2 = 0
  /\ Bytes \subseteq Rx!Byte
  /\ \A d \in Drifts : d \in -1..1 /\ Cycles \div 2 > 1 - d

VARIABLES
  rx, tx,                  \* the registers of uart_rx_inst and uart_tx_inst
  tx_data, tx_data_valid,  \* the buffer
  far,                     \* the registers of the receiver at the other end
  sender,                  \* the byte on the line, its drift, and the clock it is at:
                           \* at = 0 between bytes
  silence,                 \* history: clocks since the last byte, up to Settle
  muddled,                 \* history: a reset or an overrun since a Settle's silence
  under_way,               \* history: bytes sent and not yet back
  owed                     \* history: clocks the transmitter needs for them

vars == <<rx, tx, tx_data, tx_data_valid, far, sender, silence, muddled, under_way, owed>>

FrameClocks == (Bits + 2) * Cycles

\* History: the silence in which two frames that were picked up in their middle
\* end, one at either receiver, and the transmitter sends the byte it is at and
\* the one in the buffer.
Settle == 4 * FrameClocks + 4

NoByte == [k \in 0..(Bits - 1) |-> 0]

Init ==
  /\ rx = Rx!Reset /\ tx = Tx!Reset /\ tx_data = NoByte /\ tx_data_valid = FALSE
  /\ far = Rx!Reset
  /\ sender = [byte |-> NoByte, drift |-> 0, at |-> 0]
  /\ silence = 0 /\ muddled = TRUE /\ under_way = <<>> /\ owed = 0

(***************************************************************************)
(* The level of the pin: a start bit, the bits of the byte, a stop bit.    *)
(***************************************************************************)
Pin ==
  LET bit == (sender.at - 1 - sender.drift) \div Cycles IN
  IF sender.at = 0 THEN 1
  ELSE CASE bit <= 0        -> 0
         [] bit \in 1..Bits -> sender.byte[bit - 1]
         [] OTHER           -> 1

\* The byte in the buffer has not been taken, and the next one comes.
Overrun == rx.rx_data_valid /\ tx_data_valid /\ ~tx.tx_data_ready

(***************************************************************************)
(* The buffer.  A byte that arrives in the clock in which the one before   *)
(* it is taken stays valid.                                                *)
(***************************************************************************)
\* A variant that looks at the transmitter first.
BufferTakenFirst ==
  IF tx_data_valid /\ tx.tx_data_ready
  THEN tx_data_valid' = FALSE /\ UNCHANGED tx_data
  ELSE IF rx.rx_data_valid
  THEN tx_data_valid' = TRUE /\ tx_data' = rx.rx_data
  ELSE UNCHANGED <<tx_data, tx_data_valid>>

Buffer ==
  IF rx.rx_data_valid
  THEN tx_data_valid' = TRUE /\ tx_data' = rx.rx_data
  ELSE /\ tx_data_valid' = (tx_data_valid /\ ~tx.tx_data_ready)
       /\ UNCHANGED tx_data

\* One rising edge; begun holds the byte the sender begins with it, if any.
Edge(begun) ==
  /\ rx' = Rx!Clock(rx, Pin, TRUE)
  /\ tx' = Tx!Clock(tx, tx_data_valid, tx_data)
  /\ Buffer
  /\ far' = Rx!Clock(far, tx.tx_reg, TRUE)
  /\ silence' = IF begun # <<>> \/ sender'.at # 0 THEN 0
                ELSE IF silence < Settle THEN silence + 1 ELSE Settle
  /\ muddled' = (Overrun \/ (muddled /\ silence < Settle))
  /\ IF muddled'
     THEN under_way' = <<>> /\ owed' = 0
     ELSE /\ under_way' = (IF far.rx_data_valid /\ under_way # <<>>
                           THEN Tail(under_way) ELSE under_way) \o begun
          /\ owed' = (IF owed > 0 THEN owed - 1 ELSE 0) + Len(begun) * (FrameClocks + 1)

LineFree == sender.at \in {0, FrameClocks + sender.drift}

Continue ==
  /\ ~LineFree
  /\ sender' = [sender EXCEPT !.at = @ + 1]
  /\ Edge(<<>>)

Pause ==
  /\ LineFree
  /\ sender' = [byte |-> NoByte, drift |-> 0, at |-> 0]
  /\ Edge(<<>>)

Begin(b, d) ==
  /\ LineFree
  /\ sender' = [byte |-> b, drift |-> d, at |-> 1]
  /\ Edge(<<b>>)

\* rst_n goes low; the other end notices nothing.  A longer reset is one at
\* its end.
ResetPulse ==
  /\ rx' = Rx!Reset /\ tx' = Tx!Reset /\ tx_data' = NoByte /\ tx_data_valid' = FALSE
  /\ muddled' = TRUE /\ under_way' = <<>> /\ owed' = 0 /\ silence' = 0
  /\ UNCHANGED <<far, sender>>

Next ==
  \/ Continue \/ Pause \/ ResetPulse
  \/ \E b \in Bytes, d \in Drifts : Begin(b, d)

Spec == Init /\ [][Next]_vars
-----------------------------------------------------------------------------
TypeOK ==
  /\ rx \in Rx!Registers /\ tx \in Tx!Registers /\ far \in Rx!Registers
  /\ tx_data \in Rx!Byte /\ tx_data_valid \in BOOLEAN
  /\ sender.at \in 0..(FrameClocks + 1)
  /\ silence \in 0..Settle /\ muddled \in BOOLEAN
  /\ Len(under_way) <= 4
  /\ owed \in Nat

(***************************************************************************)
(* What comes back is the oldest byte that is under way, unchanged: none   *)
(* is lost, doubled or reordered between the two state machines and the    *)
(* buffer, at whatever clock of each other's frames they stand             *)
(* (uart.v:63-80).                                                         *)
(***************************************************************************)
EchoesInOrder ==
  far.rx_data_valid /\ ~muddled =>
    under_way # <<>> /\ far.rx_data = Head(under_way)

(***************************************************************************)
(* The transmitter needs one clock more for a byte than the sender.  A     *)
(* byte in the buffer is overwritten only when the transmitter is a whole  *)
(* byte and half a bit behind.  It falls behind by one clock for each byte *)
(* that comes without a pause, so that takes more of them than a frame has *)
(* clocks, 10 * CYCLES                                                     *)
(* (uart.v:72-78, uart_tx.v:60-94).                                        *)
(***************************************************************************)
OverrunsOnlyWhenBehind ==
  Overrun /\ ~muddled => owed >= FrameClocks + Cycles \div 2

(***************************************************************************)
(* After a silence everything is at rest and nothing is under way: every   *)
(* byte came back, and from a reset in the middle of a byte or an overrun  *)
(* the UART recovers by itself (uart_rx.v:72-105, uart_tx.v:60-86).        *)
(***************************************************************************)
AtRest ==
  /\ rx.state = "idle" /\ tx.state = "idle" /\ far.state = "idle"
  /\ ~rx.rx_data_valid /\ ~tx_data_valid /\ tx.tx_data_ready
  /\ under_way = <<>>

SilenceSettles == silence = Settle => AtRest
=============================================================================
