------------------------------- MODULE UartRx -------------------------------
(***************************************************************************)
(* The UART receiver of the FPGA (uart_rx.v): its registers and what one   *)
(* rising edge of the clock makes of them.  Every always block reads the   *)
(* registers as they were before the edge, so an edge is a function from   *)
(* the old registers, the level of the pin and rx_data_ready to the new    *)
(* ones.                                                                   *)
(*                                                                         *)
(* In S_IDLE cycle_cnt counts on and wraps; nobody reads it there and it   *)
(* is cleared when S_IDLE is left, so here it stays 0.                     *)
(***************************************************************************)
EXTENDS Integers

CONSTANTS Cycles,  \* CYCLES, the clocks of a bit
          Bits     \* BITS

Level == 0..1
Byte == [0..(Bits - 1) -> Level]

Registers ==
  [state : {"idle", "start", "rec_byte", "stop", "data"},
   cycle_cnt : 0..(Cycles - 1), bit_cnt : 0..(Bits - 1),
   rx_d0 : Level, rx_d1 : Level, rx_data : Byte, rx_data_valid : BOOLEAN]

Reset ==
  [state |-> "idle", cycle_cnt |-> 0, bit_cnt |-> 0, rx_d0 |-> 0, rx_d1 |-> 0,
   rx_data |-> [k \in 0..(Bits - 1) |-> 0], rx_data_valid |-> FALSE]

\* A variant that counts one clock too many.
LastCycleLate(r) == r.cycle_cnt = Cycles
LastCycle(r) == r.cycle_cnt = Cycles - 1

HalfStop(r) == r.cycle_cnt = Cycles \div 2 - 1

next_state(r, ready) ==
  CASE r.state = "idle" /\ r.rx_d1 = 1 /\ r.rx_d0 = 0 -> "start"
    [] r.state = "start" /\ LastCycle(r)              -> "rec_byte"
    [] r.state = "rec_byte" /\ LastCycle(r) /\ r.bit_cnt = Bits - 1 -> "stop"
    [] r.state = "stop" /\ HalfStop(r)                -> "data"
    [] r.state = "data" /\ ready                      -> "idle"
    [] OTHER                                          -> r.state

Sampling(r) == r.state = "rec_byte" /\ r.cycle_cnt = Cycles \div 2 - 1

Clock(r, pin, ready) ==
  LET next == next_state(r, ready) IN
  [state     |-> next,
   cycle_cnt |-> IF next # r.state \/ r.state = "idle" \/ LastCycle(r)
                 THEN 0 ELSE r.cycle_cnt + 1,
   bit_cnt   |-> IF r.state # "rec_byte" THEN 0
                 ELSE IF LastCycle(r) THEN (r.bit_cnt + 1) % Bits ELSE r.bit_cnt,
   rx_d0     |-> pin,
   rx_d1     |-> r.rx_d0,
   rx_data   |-> IF Sampling(r) THEN [r.rx_data EXCEPT ![r.bit_cnt] = pin] ELSE r.rx_data,
   rx_data_valid |-> \/ r.state = "stop" /\ next # r.state
                     \/ r.rx_data_valid /\ ~(r.state = "data" /\ ready)]
=============================================================================
