------------------------------- MODULE UartTx -------------------------------
(***************************************************************************)
(* The UART transmitter of the FPGA (uart_tx.v): its registers and what    *)
(* one rising edge of the clock makes of them, as in UartRx.               *)
(***************************************************************************)
EXTENDS Integers

CONSTANTS Cycles,  \* CYCLES, the clocks of a bit
          Bits     \* BITS

Level == 0..1
Byte == [0..(Bits - 1) -> Level]

Registers ==
  [state : {"idle", "start", "send_byte", "stop"},
   cycle_cnt : 0..(Cycles - 1), bit_cnt : 0..(Bits - 1),
   tx_data_latch : Byte, tx_reg : Level, tx_data_ready : BOOLEAN]

Reset ==
  [state |-> "idle", cycle_cnt |-> 0, bit_cnt |-> 0,
   tx_data_latch |-> [k \in 0..(Bits - 1) |-> 0], tx_reg |-> 1,
   tx_data_ready |-> FALSE]

LastCycle(t) == t.cycle_cnt = Cycles - 1
Taking(t, valid) == t.state = "idle" /\ valid

next_state(t, valid) ==
  CASE Taking(t, valid)                     -> "start"
    [] t.state = "start" /\ LastCycle(t)    -> "send_byte"
    [] t.state = "send_byte" /\ LastCycle(t) /\ t.bit_cnt = Bits - 1 -> "stop"
    [] t.state = "stop" /\ LastCycle(t)     -> "idle"
    [] OTHER                                -> t.state

(***************************************************************************)
(* tx_data_ready falls when a byte is taken and rises with the last clock  *)
(* of the stop bit, so that it is high exactly in S_IDLE, but for the      *)
(* first clock after a reset.  The variants raise it when the stop bit     *)
(* begins, and in S_IDLE only, when there is no byte to take.              *)
(***************************************************************************)
ReadyEarly(t, valid) ==
  ~Taking(t, valid) /\ (t.tx_data_ready \/ t.state \in {"stop", "idle"})
ReadyFromIdle(t, valid) ==
  ~Taking(t, valid) /\ (t.tx_data_ready \/ t.state = "idle")
NextReady(t, valid) ==
  /\ ~Taking(t, valid)
  /\ \/ t.tx_data_ready
     \/ t.state = "stop" /\ LastCycle(t)
     \/ t.state = "idle"

Clock(t, valid, data) ==
  LET next == next_state(t, valid) IN
  [state     |-> next,
   cycle_cnt |-> IF next # t.state \/ t.state = "idle" \/ LastCycle(t)
                 THEN 0 ELSE t.cycle_cnt + 1,
   bit_cnt   |-> IF t.state # "send_byte" THEN 0
                 ELSE IF LastCycle(t) THEN (t.bit_cnt + 1) % Bits ELSE t.bit_cnt,
   tx_data_latch |-> IF Taking(t, valid) THEN data ELSE t.tx_data_latch,
   tx_reg    |-> CASE t.state = "start"     -> 0
                   [] t.state = "send_byte" -> t.tx_data_latch[t.bit_cnt]
                   [] OTHER                 -> 1,
   tx_data_ready |-> NextReady(t, valid)]
=============================================================================
