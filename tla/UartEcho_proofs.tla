-------------------------- MODULE UartEcho_proofs --------------------------
(***************************************************************************)
(* The echo of the UART, for bits of any length, bytes of any size, pauses *)
(* of any length and a reset before any edge: the bytes come back in       *)
(* order, the first loss is bounded, and silence brings everything to      *)
(* rest.                                                                   *)
(***************************************************************************)
EXTENDS UartEcho, SequenceTheorems, TLAPS

(***************************************************************************)
(* Time.  Bit(k) is the clock of a frame at which bit k begins, Bit(Bits)  *)
(* that of the stop bit; a receiver is busy for Reception clocks.          *)
(***************************************************************************)
Half == Cycles \div 2
Bit(k) == Cycles * (k + 1)
Reception == Bit(Bits) + Half + 1

\* The clocks since a receiver left S_IDLE, and since a transmitter did.
Elapsed(r) ==
  CASE r.state = "start"    -> r.cycle_cnt
    [] r.state = "rec_byte" -> Bit(r.bit_cnt) + r.cycle_cnt
    [] r.state = "stop"     -> Bit(Bits) + r.cycle_cnt
    [] r.state = "data"     -> Bit(Bits) + Half
    [] OTHER                -> 0

Sent(t) ==
  CASE t.state = "start"     -> t.cycle_cnt
    [] t.state = "send_byte" -> Bit(t.bit_cnt) + t.cycle_cnt
    [] t.state = "stop"      -> Bit(Bits) + t.cycle_cnt
    [] OTHER                 -> 0

(***************************************************************************)
(* The registers of a receiver and of a transmitter at any time.           *)
(***************************************************************************)
GoodRx(r) ==
  /\ r \in Rx!Registers
  /\ r.rx_data_valid <=> r.state = "data"
  /\ r.state = "stop" => r.cycle_cnt < Half

\* The line is one clock behind the transmitter.
GoodTx(t) ==
  /\ t \in Tx!Registers
  /\ t.tx_data_ready => t.state = "idle"
  /\ t.state = "idle" \/ Sent(t) = 0 => t.tx_reg = 1
  /\ t.state # "idle" =>
       /\ Sent(t) \in 1..Cycles => t.tx_reg = 0
       /\ \A k \in 0..(Bits - 1) :
            Sent(t) - Bit(k) \in 1..Cycles => t.tx_reg = t.tx_data_latch[k]
       /\ Sent(t) > Bit(Bits) => t.tx_reg = 1

(***************************************************************************)
(* A receiver that follows a frame with byte b whose start bit went on the *)
(* line e - 1 clocks ago.  At clocks 0 and 1 it may still be at the end of *)
(* the frame before.                                                       *)
(***************************************************************************)
Waiting(r) == r.state = "idle" /\ r.rx_d0 = 1 /\ r.rx_d1 = 1
Tailing(r) == r.state = "data" /\ r.rx_d0 = 1 /\ r.rx_d1 = 1

Sampled(r, b) ==
  \A k \in 0..(Bits - 1) : Elapsed(r) >= Bit(k) + Half => r.rx_data[k] = b[k]

Following(r, b, e) ==
  /\ e \in 0..1 => Waiting(r) \/ Tailing(r)
  /\ e = 2 => r.state = "idle" /\ r.rx_d0 = 0 /\ r.rx_d1 = 1
  /\ e \in 3..(Reception + 2) => r.state # "idle" /\ Elapsed(r) = e - 3 /\ Sampled(r, b)
  /\ e = Reception + 1 => r.rx_d0 = 1
  /\ e = Reception + 2 => r.rx_d0 = 1 /\ r.rx_d1 = 1
  /\ e > Reception + 2 => Waiting(r)

-----------------------------------------------------------------------------
LEMMA Numbers ==
  /\ Cycles \in Nat /\ Half \in Nat /\ Cycles = 2 * Half /\ Half >= 2 /\ Bits \in Nat \ {0}
  /\ \A k \in 0..Bits : Bit(k) \in Nat
  /\ \A k \in 0..Bits : Bit(k + 1) = Bit(k) + Cycles
  /\ \A j, k \in 0..Bits : j < k => Bit(j) + Cycles <= Bit(k)
  /\ Bit(0) = Cycles
  /\ FrameClocks = Bit(Bits) + Cycles /\ FrameClocks \in Nat
  /\ Reception = Bit(Bits) + Half + 1 /\ Reception \in Nat
  /\ Bit(Bits) >= 2 * Cycles
<1>1. Cycles \in Nat /\ Cycles % 2 = 0 /\ Cycles >= 4 /\ Bits \in Nat \ {0}
  BY EchoAssumption
<1>2. Half \in Nat /\ Cycles = 2 * Half /\ Half >= 2
  BY <1>1 DEF Half
<1>3. ASSUME NEW k \in 0..Bits
      PROVE  Bit(k) \in Nat /\ Bit(k + 1) = Bit(k) + Cycles
  BY <1>1 DEF Bit
<1>4. ASSUME NEW j \in 0..Bits, NEW k \in 0..Bits, j < k
      PROVE  Bit(j) + Cycles <= Bit(k)
  <2>1. PICK d \in Nat : k = j + 1 + d
    <3>1. k - (j + 1) \in Nat /\ k = j + 1 + (k - (j + 1))
      BY <1>1, <1>4
    <3> QED BY <3>1
  <2>2. Cycles * (k + 1) = Cycles * (j + 1) + Cycles + Cycles * d /\ Cycles * d \in Nat
    BY <1>1, <2>1
  <2> QED BY <1>1, <1>3, <2>2 DEF Bit
<1>5. Bit(0) = Cycles
  BY <1>1 DEF Bit
<1>6. FrameClocks = Bit(Bits) + Cycles
  BY <1>1 DEF FrameClocks, Bit
<1>7. Bit(Bits) >= 2 * Cycles /\ Bit(Bits) \in Nat
  <2>1. Bit(0) + Cycles <= Bit(Bits)
    BY <1>1, <1>4
  <2> QED BY <1>1, <1>3, <1>5, <2>1
<1> QED BY <1>1, <1>2, <1>3, <1>4, <1>5, <1>6, <1>7 DEF Reception

-----------------------------------------------------------------------------
\* One edge of a receiver that is busy.
LEMMA RxType ==
  ASSUME NEW r \in Rx!Registers, NEW pin \in 0..1
  PROVE  Rx!Clock(r, pin, TRUE) \in Rx!Registers
<1> DEFINE s == Rx!Clock(r, pin, TRUE)
<1>1. Cycles \in Nat \ {0} /\ Bits \in Nat \ {0}
  BY Numbers
<1>2. Rx!next_state(r, TRUE) \in {"idle", "start", "rec_byte", "stop", "data"}
  BY DEF Rx!next_state, Rx!Registers
<1>3. (IF Rx!next_state(r, TRUE) # r.state \/ r.state = "idle" \/ Rx!LastCycle(r)
       THEN 0 ELSE r.cycle_cnt + 1) \in 0..(Cycles - 1)
  <2>1. r.cycle_cnt \in 0..(Cycles - 1)
    BY DEF Rx!Registers
  <2>2. ~ Rx!LastCycle(r) => r.cycle_cnt + 1 \in 0..(Cycles - 1)
    BY <1>1, <2>1 DEF Rx!LastCycle
  <2>3. 0 \in 0..(Cycles - 1)
    BY <1>1
  <2> QED BY <2>2, <2>3
<1>4. (IF r.state # "rec_byte" THEN 0
       ELSE IF Rx!LastCycle(r) THEN (r.bit_cnt + 1) % Bits ELSE r.bit_cnt) \in 0..(Bits - 1)
  BY <1>1 DEF Rx!Registers
<1>5. (IF Rx!Sampling(r) THEN [r.rx_data EXCEPT ![r.bit_cnt] = pin] ELSE r.rx_data) \in Rx!Byte
  BY DEF Rx!Registers, Rx!Byte, Rx!Level
<1>6. r.rx_d0 \in Rx!Level /\ pin \in Rx!Level
  BY DEF Rx!Registers, Rx!Level
<1> QED BY <1>2, <1>3, <1>4, <1>5, <1>6 DEF Rx!Clock, Rx!Registers

\* The bit a receiver or a transmitter is at, from the clocks gone by.
LEMMA BitAt ==
  ASSUME NEW j \in 0..(Bits - 1), NEW k \in 0..(Bits - 1),
         NEW x \in 0..(Cycles - 1), NEW y \in 0..(Cycles - 1),
         Bit(j) + x = Bit(k) + y
  PROVE  j = k /\ x = y
<1>1. /\ Cycles \in Nat /\ Bits \in Nat /\ Bit(j) \in Nat /\ Bit(k) \in Nat
      /\ j < k => Bit(j) + Cycles <= Bit(k)
      /\ k < j => Bit(k) + Cycles <= Bit(j)
  BY Numbers
<1>2. ~ (j < k) /\ ~ (k < j)
  BY <1>1
<1>3. j = k
  BY <1>1, <1>2
<1> QED BY <1>1, <1>3

\* What a state says of the clocks gone by.
LEMMA ElapsedIs ==
  ASSUME NEW r
  PROVE  /\ r.state = "start" => Elapsed(r) = r.cycle_cnt
         /\ r.state = "rec_byte" => Elapsed(r) = Bit(r.bit_cnt) + r.cycle_cnt
         /\ r.state = "stop" => Elapsed(r) = Bit(Bits) + r.cycle_cnt
         /\ r.state = "data" => Elapsed(r) = Bit(Bits) + Half
         /\ r.state = "idle" => Elapsed(r) = 0
BY DEF Elapsed

LEMMA RxBusy ==
  ASSUME NEW r, GoodRx(r), r.state # "idle", NEW pin \in 0..1
  PROVE  LET s == Rx!Clock(r, pin, TRUE) IN
         /\ Elapsed(r) \in 0..(Reception - 1)
         /\ r.state = "data" <=> Elapsed(r) = Reception - 1
         /\ r.state = "data" => s.state = "idle" /\ Elapsed(s) = 0
         /\ r.state # "data" => s.state # "idle" /\ Elapsed(s) = Elapsed(r) + 1
         /\ GoodRx(s) /\ s.rx_d0 = pin /\ s.rx_d1 = r.rx_d0
         /\ s.rx_data = IF r.state = "rec_byte" /\ r.cycle_cnt = Half - 1
                        THEN [r.rx_data EXCEPT ![r.bit_cnt] = pin] ELSE r.rx_data
<1> DEFINE s == Rx!Clock(r, pin, TRUE)
<1>0. s = Rx!Clock(r, pin, TRUE)
  OBVIOUS
<1> HIDE DEF s
<1> DEFINE c == r.cycle_cnt  b == r.bit_cnt
<1>1. /\ c \in 0..(Cycles - 1) /\ b \in 0..(Bits - 1)
      /\ r.state \in {"start", "rec_byte", "stop", "data"}
      /\ r.state = "stop" => c < Half
      /\ r.rx_data_valid <=> r.state = "data"
  BY DEF GoodRx, Rx!Registers
<1>2. /\ Cycles \in Nat /\ Half \in Nat /\ Cycles = 2 * Half /\ Half >= 2 /\ Bits \in Nat \ {0}
      /\ Bit(b) \in Nat /\ Bit(Bits) \in Nat /\ Bit(0) = Cycles /\ Bit(b + 1) = Bit(b) + Cycles
      /\ Bit(b) + Cycles <= Bit(Bits) /\ Bit(b) >= Cycles /\ Bit(Bits) >= 2 * Cycles
      /\ Reception = Bit(Bits) + Half + 1
  <2>1. b \in 0..Bits /\ Bits \in 0..Bits /\ b < Bits /\ 0 \in 0..Bits /\ (0 < b \/ b = 0)
    BY <1>1, Numbers
  <2> HIDE DEF b
  <2> QED BY <2>1, Numbers
<1>3. s \in Rx!Registers
  BY <1>0, RxType DEF GoodRx
<1>4. /\ s.rx_d0 = pin /\ s.rx_d1 = r.rx_d0
      /\ s.rx_data = IF r.state = "rec_byte" /\ r.cycle_cnt = Half - 1
                     THEN [r.rx_data EXCEPT ![r.bit_cnt] = pin] ELSE r.rx_data
  BY <1>0 DEF Rx!Clock, Rx!LastCycle, Rx!Sampling, Half
<1>5. /\ s.state = Rx!next_state(r, TRUE)
      /\ s.cycle_cnt = IF s.state # r.state \/ c = Cycles - 1 THEN 0 ELSE c + 1
      /\ s.bit_cnt = IF r.state # "rec_byte" THEN 0
                     ELSE IF c = Cycles - 1 THEN (b + 1) % Bits ELSE b
      /\ s.rx_data_valid <=> \/ r.state = "stop" /\ s.state # r.state
                             \/ r.rx_data_valid /\ ~(r.state = "data")
  BY <1>0 DEF Rx!Clock, Rx!LastCycle, Half
<1>6. /\ r.state = "start" => s.state = IF c = Cycles - 1 THEN "rec_byte" ELSE "start"
      /\ r.state = "rec_byte" =>
           s.state = IF c = Cycles - 1 /\ b = Bits - 1 THEN "stop" ELSE "rec_byte"
      /\ r.state = "stop" => s.state = IF c = Half - 1 THEN "data" ELSE "stop"
      /\ r.state = "data" => s.state = "idle"
  BY <1>5 DEF Rx!next_state, Rx!LastCycle, Rx!HalfStop, Half
<1>7. (s.rx_data_valid <=> s.state = "data") /\ (s.state = "stop" => s.cycle_cnt < Half)
  <2>0. Half \in Nat /\ Half >= 2
    BY <1>2
  <2>1. CASE r.state = "stop"
    <3>1. c < Half /\ c \in Nat
      BY <1>1, <2>1
    <3>2. CASE c = Half - 1
      BY <1>1, <1>5, <1>6, <2>1, <3>2
    <3>3. CASE c # Half - 1
      <4>1. s.state = "stop"
        BY <1>6, <2>1, <3>3
      <4>2. s.cycle_cnt = IF c = Cycles - 1 THEN 0 ELSE c + 1
        BY <1>5, <2>1, <4>1
      <4>3. s.cycle_cnt < Half
        <5>1. c + 1 < Half /\ 0 < Half
          BY <2>0, <3>1, <3>3
        <5> QED BY <4>2, <5>1
      <4>4. ~s.rx_data_valid
        BY <1>1, <1>5, <2>1, <4>1
      <4> QED BY <4>1, <4>3, <4>4
    <3> QED BY <3>2, <3>3
  <2>2. CASE r.state # "stop"
    <3>1. ~s.rx_data_valid /\ s.state # "data"
      BY <1>1, <1>5, <1>6, <2>2
    <3>2. s.state = "stop" => s.cycle_cnt = 0
      BY <1>5, <2>2
    <3>3. s.state = "stop" => s.cycle_cnt < Half
      <4>1. 0 < Half
        BY <2>0
      <4> QED BY <3>2, <4>1
    <3> QED BY <3>1, <3>3
  <2> QED BY <2>1, <2>2
<1>8. GoodRx(s)
  BY <1>3, <1>7 DEF GoodRx
<1> DEFINE x == Elapsed(r)  y == Elapsed(s)
<1>9. /\ r.state = "start" => x = c
      /\ r.state = "rec_byte" => x = Bit(b) + c
      /\ r.state = "stop" => x = Bit(Bits) + c
      /\ r.state = "data" => x = Bit(Bits) + Half
  BY ElapsedIs
<1>10. /\ s.state = "start" => y = s.cycle_cnt
       /\ s.state = "rec_byte" => y = Bit(s.bit_cnt) + s.cycle_cnt
       /\ s.state = "stop" => y = Bit(Bits) + s.cycle_cnt
       /\ s.state = "data" => y = Bit(Bits) + Half
       /\ s.state = "idle" => y = 0
  BY ElapsedIs
<1> HIDE DEF x, y, c, b
<1>11. x \in 0..(Reception - 1) /\ (r.state = "data" <=> x = Reception - 1)
  BY <1>1, <1>2, <1>9
<1>12. r.state = "data" => s.state = "idle" /\ y = 0
  BY <1>6, <1>10
<1>13. r.state = "start" => y = x + 1
  <2> SUFFICES ASSUME r.state = "start" PROVE y = x + 1
    OBVIOUS
  <2>0. x = c
    BY <1>9
  <2>1. CASE c = Cycles - 1
    <3>1. s.state = "rec_byte" /\ s.cycle_cnt = 0 /\ s.bit_cnt = 0
      BY <1>5, <1>6, <2>1
    <3>2. y = Bit(0) + 0
      BY <1>10, <3>1
    <3>3. Bit(0) = Cycles /\ Cycles \in Nat
      BY <1>2
    <3> QED BY <2>0, <2>1, <3>1, <3>2, <3>3
  <2>2. CASE c # Cycles - 1
    <3>1. s.state = "start"
      BY <1>6, <2>2
    <3>2. s.cycle_cnt = c + 1
      BY <1>5, <2>2, <3>1
    <3> QED BY <1>10, <2>0, <3>1, <3>2
  <2> QED BY <2>1, <2>2
<1>14. r.state = "rec_byte" => y = x + 1
  <2> SUFFICES ASSUME r.state = "rec_byte" PROVE y = x + 1
    OBVIOUS
  <2>0. x = Bit(b) + c /\ Bit(b) \in Int /\ c \in Int /\ Cycles \in Int
    BY <1>1, <1>2, <1>9
  <2>1. CASE c = Cycles - 1 /\ b = Bits - 1
    <3>1. s.state = "stop" /\ s.cycle_cnt = 0
      BY <1>5, <1>6, <2>1
    <3>2. b + 1 = Bits
      BY <1>1, <1>2, <2>1
    <3>3. Bit(Bits) = Bit(b) + Cycles
      BY <1>2, <3>2
    <3>4. y = Bit(Bits) + 0
      BY <1>10, <3>1
    <3> QED BY <2>0, <2>1, <3>1, <3>3, <3>4
  <2>2. CASE c = Cycles - 1 /\ b # Bits - 1
    <3>1. (b + 1) % Bits = b + 1
      BY <1>1, <1>2, <2>2
    <3>2. s.state = "rec_byte"
      BY <1>6, <2>2
    <3>3. s.cycle_cnt = 0 /\ s.bit_cnt = b + 1
      BY <1>5, <2>2, <3>1
    <3>4. y = Bit(b + 1) + 0
      BY <1>10, <3>2, <3>3
    <3>5. Bit(b + 1) = Bit(b) + Cycles
      BY <1>2
    <3> QED BY <2>0, <2>2, <3>2, <3>4, <3>5
  <2>3. CASE c # Cycles - 1
    <3>1. s.state = "rec_byte"
      BY <1>6, <2>3
    <3>2. s.cycle_cnt = c + 1 /\ s.bit_cnt = b
      BY <1>5, <2>3, <3>1
    <3>3. y = Bit(b) + (c + 1)
      BY <1>10, <3>1, <3>2
    <3> QED BY <2>0, <3>1, <3>3
  <2> QED BY <2>1, <2>2, <2>3
<1>15. r.state = "stop" => y = x + 1
  <2> SUFFICES ASSUME r.state = "stop" PROVE y = x + 1
    OBVIOUS
  <2>0. x = Bit(Bits) + c /\ Bit(Bits) \in Int /\ c \in Int /\ Half \in Int
    BY <1>1, <1>2, <1>9
  <2>1. CASE c = Half - 1
    <3>1. s.state = "data"
      BY <1>6, <2>1
    <3>2. y = Bit(Bits) + Half
      BY <1>10, <3>1
    <3> QED BY <2>0, <2>1, <3>1, <3>2
  <2>2. CASE c # Half - 1
    <3>1. s.state = "stop"
      BY <1>6, <2>2
    <3>2. c # Cycles - 1
      <4>1. c < Half /\ Cycles = 2 * Half /\ Half >= 2 /\ Half \in Nat
        BY <1>1, <1>2
      <4> QED BY <2>0, <4>1
    <3>3. s.cycle_cnt = c + 1
      BY <1>5, <3>1, <3>2
    <3>4. y = Bit(Bits) + (c + 1)
      BY <1>10, <3>1, <3>3
    <3> QED BY <2>0, <3>1, <3>4
  <2> QED BY <2>1, <2>2
<1>16. r.state # "data" => s.state # "idle" /\ y = x + 1
  <2>1. r.state # "data" => s.state # "idle"
    BY <1>1, <1>6
  <2>2. r.state # "data" => y = x + 1
    BY <1>1, <1>13, <1>14, <1>15
  <2> QED BY <2>1, <2>2
<1> QED BY <1>4, <1>8, <1>11, <1>12, <1>16 DEF x, y, s

LEMMA RxIdle ==
  ASSUME NEW r, GoodRx(r), r.state = "idle", NEW pin \in 0..1
  PROVE  LET s == Rx!Clock(r, pin, TRUE) IN
         /\ s.state = IF r.rx_d1 = 1 /\ r.rx_d0 = 0 THEN "start" ELSE "idle"
         /\ Elapsed(s) = 0 /\ Elapsed(r) = 0
         /\ GoodRx(s) /\ s.rx_d0 = pin /\ s.rx_d1 = r.rx_d0
<1> DEFINE s == Rx!Clock(r, pin, TRUE)
<1>0. s = Rx!Clock(r, pin, TRUE)
  OBVIOUS
<1> HIDE DEF s
<1>1. s \in Rx!Registers /\ ~r.rx_data_valid
  BY <1>0, RxType DEF GoodRx
<1>2. s.state = IF r.rx_d1 = 1 /\ r.rx_d0 = 0 THEN "start" ELSE "idle"
  BY <1>0 DEF Rx!Clock, Rx!next_state
<1>3. s.cycle_cnt = 0 /\ ~s.rx_data_valid /\ s.rx_d0 = pin /\ s.rx_d1 = r.rx_d0
  BY <1>0, <1>1 DEF Rx!Clock
<1>4. Elapsed(s) = 0 /\ Elapsed(r) = 0
  BY <1>2, <1>3 DEF Elapsed
<1> QED BY <1>1, <1>2, <1>3, <1>4 DEF GoodRx, s
-----------------------------------------------------------------------------
\* One edge of a transmitter.
LEMMA SentIs ==
  ASSUME NEW t
  PROVE  /\ t.state = "start" => Sent(t) = t.cycle_cnt
         /\ t.state = "send_byte" => Sent(t) = Bit(t.bit_cnt) + t.cycle_cnt
         /\ t.state = "stop" => Sent(t) = Bit(Bits) + t.cycle_cnt
         /\ t.state = "idle" => Sent(t) = 0
BY DEF Sent

LEMMA TxType ==
  ASSUME NEW t \in Tx!Registers, NEW valid \in BOOLEAN, NEW data \in Tx!Byte
  PROVE  Tx!Clock(t, valid, data) \in Tx!Registers
<1>1. Cycles \in Nat \ {0} /\ Bits \in Nat \ {0}
  BY Numbers
<1>2. Tx!next_state(t, valid) \in {"idle", "start", "send_byte", "stop"}
  BY DEF Tx!next_state, Tx!Registers
<1>3. (IF Tx!next_state(t, valid) # t.state \/ t.state = "idle" \/ Tx!LastCycle(t)
       THEN 0 ELSE t.cycle_cnt + 1) \in 0..(Cycles - 1)
  <2>1. t.cycle_cnt \in 0..(Cycles - 1)
    BY DEF Tx!Registers
  <2>2. ~ Tx!LastCycle(t) => t.cycle_cnt + 1 \in 0..(Cycles - 1)
    BY <1>1, <2>1 DEF Tx!LastCycle
  <2>3. 0 \in 0..(Cycles - 1)
    BY <1>1
  <2> QED BY <2>2, <2>3
<1>4. (IF t.state # "send_byte" THEN 0
       ELSE IF Tx!LastCycle(t) THEN (t.bit_cnt + 1) % Bits ELSE t.bit_cnt) \in 0..(Bits - 1)
  BY <1>1 DEF Tx!Registers
<1>5. (IF Tx!Taking(t, valid) THEN data ELSE t.tx_data_latch) \in Tx!Byte
  BY DEF Tx!Registers
<1>6. (CASE t.state = "start"     -> 0
         [] t.state = "send_byte" -> t.tx_data_latch[t.bit_cnt]
         [] OTHER                 -> 1) \in Tx!Level
  BY <1>1 DEF Tx!Registers, Tx!Byte, Tx!Level
<1>7. Tx!NextReady(t, valid) \in BOOLEAN
  BY DEF Tx!NextReady
<1> QED BY <1>2, <1>3, <1>4, <1>5, <1>6, <1>7 DEF Tx!Clock, Tx!Registers

LEMMA TxBusy ==
  ASSUME NEW t, GoodTx(t), t.state # "idle", NEW valid \in BOOLEAN, NEW data \in Tx!Byte
  PROVE  LET s == Tx!Clock(t, valid, data) IN
         /\ Sent(t) \in 0..(FrameClocks - 1)
         /\ Sent(t) = FrameClocks - 1 => s.state = "idle" /\ s.tx_data_ready /\ Sent(s) = 0
         /\ Sent(t) # FrameClocks - 1 => s.state # "idle" /\ Sent(s) = Sent(t) + 1
         /\ GoodTx(s) /\ s.tx_data_latch = t.tx_data_latch
<1> DEFINE s == Tx!Clock(t, valid, data)
<1>0. s = Tx!Clock(t, valid, data)
  OBVIOUS
<1> HIDE DEF s
<1> DEFINE c == t.cycle_cnt  b == t.bit_cnt
<1>1. /\ c \in 0..(Cycles - 1) /\ b \in 0..(Bits - 1)
      /\ t.state \in {"start", "send_byte", "stop"} /\ ~t.tx_data_ready
  BY DEF GoodTx, Tx!Registers
<1>2. /\ Cycles \in Nat /\ Cycles >= 4 /\ Bits \in Nat \ {0}
      /\ Bit(b) \in Nat /\ Bit(Bits) \in Nat /\ Bit(0) = Cycles /\ Bit(b + 1) = Bit(b) + Cycles
      /\ Bit(b) + Cycles <= Bit(Bits) /\ Bit(b) >= Cycles /\ Bit(Bits) >= 2 * Cycles
      /\ FrameClocks = Bit(Bits) + Cycles
  <2>1. b \in 0..Bits /\ Bits \in 0..Bits /\ b < Bits /\ 0 \in 0..Bits /\ (0 < b \/ b = 0)
    BY <1>1, Numbers
  <2> HIDE DEF b
  <2> QED BY <2>1, Numbers
<1>3. s \in Tx!Registers
  BY <1>0, TxType DEF GoodTx
<1>4. s.tx_data_latch = t.tx_data_latch
  BY <1>0 DEF Tx!Clock, Tx!Taking
<1>5. /\ s.state = Tx!next_state(t, valid)
      /\ s.cycle_cnt = IF s.state # t.state \/ c = Cycles - 1 THEN 0 ELSE c + 1
      /\ s.bit_cnt = IF t.state # "send_byte" THEN 0
                     ELSE IF c = Cycles - 1 THEN (b + 1) % Bits ELSE b
      /\ s.tx_data_ready <=> t.state = "stop" /\ c = Cycles - 1
  BY <1>0, <1>1 DEF Tx!Clock, Tx!LastCycle, Tx!NextReady, Tx!Taking
<1>6. /\ t.state = "start" => s.state = IF c = Cycles - 1 THEN "send_byte" ELSE "start"
      /\ t.state = "send_byte" =>
           s.state = IF c = Cycles - 1 /\ b = Bits - 1 THEN "stop" ELSE "send_byte"
      /\ t.state = "stop" => s.state = IF c = Cycles - 1 THEN "idle" ELSE "stop"
  BY <1>5 DEF Tx!next_state, Tx!LastCycle, Tx!Taking
<1>7. /\ t.state = "start" => s.tx_reg = 0
      /\ t.state = "send_byte" => s.tx_reg = t.tx_data_latch[b]
      /\ t.state = "stop" => s.tx_reg = 1
  BY <1>0 DEF Tx!Clock
<1> DEFINE x == Sent(t)  y == Sent(s)
<1>9. /\ t.state = "start" => x = c
      /\ t.state = "send_byte" => x = Bit(b) + c
      /\ t.state = "stop" => x = Bit(Bits) + c
  BY SentIs
<1>10. /\ s.state = "start" => y = s.cycle_cnt
       /\ s.state = "send_byte" => y = Bit(s.bit_cnt) + s.cycle_cnt
       /\ s.state = "stop" => y = Bit(Bits) + s.cycle_cnt
       /\ s.state = "idle" => y = 0
  BY SentIs
<1> HIDE DEF x, y, c, b
<1>11. /\ x \in 0..(FrameClocks - 1)
       /\ x = FrameClocks - 1 <=> t.state = "stop" /\ c = Cycles - 1
  <2>1. t.state = "start" => x \in 0..(FrameClocks - 1) /\ x # FrameClocks - 1
    BY <1>1, <1>2, <1>9
  <2>2. t.state = "send_byte" => x \in 0..(FrameClocks - 1) /\ x # FrameClocks - 1
    BY <1>1, <1>2, <1>9
  <2>3. t.state = "stop" => x \in 0..(FrameClocks - 1)
    BY <1>1, <1>2, <1>9
  <2>4. t.state = "stop" => (x = FrameClocks - 1 <=> c = Cycles - 1)
    BY <1>1, <1>2, <1>9
  <2> QED BY <1>1, <2>1, <2>2, <2>3, <2>4
<1>12. x = FrameClocks - 1 => s.state = "idle" /\ s.tx_data_ready /\ y = 0
  BY <1>5, <1>6, <1>10, <1>11
<1>13. t.state = "start" => y = x + 1
  <2> SUFFICES ASSUME t.state = "start" PROVE y = x + 1
    OBVIOUS
  <2>0. x = c
    BY <1>9
  <2>1. CASE c = Cycles - 1
    <3>1. s.state = "send_byte" /\ s.cycle_cnt = 0 /\ s.bit_cnt = 0
      BY <1>5, <1>6, <2>1
    <3>2. y = Bit(0) + 0
      BY <1>10, <3>1
    <3>3. Bit(0) = Cycles /\ Cycles \in Nat
      BY <1>2
    <3> QED BY <2>0, <2>1, <3>2, <3>3
  <2>2. CASE c # Cycles - 1
    <3>1. s.state = "start"
      BY <1>6, <2>2
    <3>2. s.cycle_cnt = c + 1
      BY <1>5, <2>2, <3>1
    <3> QED BY <1>10, <2>0, <3>1, <3>2
  <2> QED BY <2>1, <2>2
<1>14. t.state = "send_byte" => y = x + 1
  <2> SUFFICES ASSUME t.state = "send_byte" PROVE y = x + 1
    OBVIOUS
  <2>0. x = Bit(b) + c /\ Bit(b) \in Int /\ c \in Int /\ Cycles \in Int
    BY <1>1, <1>2, <1>9
  <2>1. CASE c = Cycles - 1 /\ b = Bits - 1
    <3>1. s.state = "stop" /\ s.cycle_cnt = 0
      BY <1>5, <1>6, <2>1
    <3>2. b + 1 = Bits
      BY <1>1, <1>2, <2>1
    <3>3. Bit(Bits) = Bit(b) + Cycles
      BY <1>2, <3>2
    <3>4. y = Bit(Bits) + 0
      BY <1>10, <3>1
    <3> QED BY <2>0, <2>1, <3>3, <3>4
  <2>2. CASE c = Cycles - 1 /\ b # Bits - 1
    <3>1. (b + 1) % Bits = b + 1
      BY <1>1, <1>2, <2>2
    <3>2. s.state = "send_byte"
      BY <1>6, <2>2
    <3>3. s.cycle_cnt = 0 /\ s.bit_cnt = b + 1
      BY <1>5, <2>2, <3>1
    <3>4. y = Bit(b + 1) + 0
      BY <1>10, <3>2, <3>3
    <3>5. Bit(b + 1) = Bit(b) + Cycles
      BY <1>2
    <3> QED BY <2>0, <2>2, <3>4, <3>5
  <2>3. CASE c # Cycles - 1
    <3>1. s.state = "send_byte"
      BY <1>6, <2>3
    <3>2. s.cycle_cnt = c + 1 /\ s.bit_cnt = b
      BY <1>5, <2>3, <3>1
    <3>3. y = Bit(b) + (c + 1)
      BY <1>10, <3>1, <3>2
    <3> QED BY <2>0, <3>3
  <2> QED BY <2>1, <2>2, <2>3
<1>15. t.state = "stop" /\ c # Cycles - 1 => y = x + 1
  <2> SUFFICES ASSUME t.state = "stop", c # Cycles - 1 PROVE y = x + 1
    OBVIOUS
  <2>0. x = Bit(Bits) + c /\ Bit(Bits) \in Int /\ c \in Int
    BY <1>1, <1>2, <1>9
  <2>1. s.state = "stop"
    BY <1>6
  <2>2. s.cycle_cnt = c + 1
    BY <1>5, <2>1
  <2>3. y = Bit(Bits) + (c + 1)
    BY <1>10, <2>1, <2>2
  <2> QED BY <2>0, <2>3
<1>16. x # FrameClocks - 1 => s.state # "idle" /\ y = x + 1
  <2>1. x # FrameClocks - 1 => s.state # "idle"
    BY <1>1, <1>6, <1>11
  <2>2. x # FrameClocks - 1 => y = x + 1
    BY <1>1, <1>11, <1>13, <1>14, <1>15
  <2> QED BY <2>1, <2>2
<1>17. s.tx_data_ready => s.state = "idle"
  BY <1>5, <1>6
<1>18. s.state = "idle" \/ y = 0 => s.tx_reg = 1
  <2>1. s.state = "idle" => t.state = "stop"
    BY <1>1, <1>6
  <2>2. s.state # "idle" => y # 0
    BY <1>11, <1>12, <1>16
  <2> QED BY <1>7, <2>1, <2>2
<1>19. ASSUME s.state # "idle"
       PROVE  /\ y \in 1..Cycles => s.tx_reg = 0
              /\ \A k \in 0..(Bits - 1) :
                   y - Bit(k) \in 1..Cycles => s.tx_reg = s.tx_data_latch[k]
              /\ y > Bit(Bits) => s.tx_reg = 1
  <2>1. y = x + 1 /\ x \in Nat
    BY <1>11, <1>12, <1>16, <1>19
  <2>2. y \in 1..Cycles => s.tx_reg = 0
    <3>1. t.state = "send_byte" => y > Cycles
      BY <1>1, <1>2, <1>9, <2>1
    <3>2. t.state = "stop" => y > Cycles
      BY <1>1, <1>2, <1>9, <2>1
    <3>3. y \in 1..Cycles => t.state = "start"
      BY <1>1, <1>2, <3>1, <3>2
    <3> QED BY <1>7, <3>3
  <2>3. ASSUME NEW k \in 0..(Bits - 1), y - Bit(k) \in 1..Cycles
        PROVE  s.tx_reg = s.tx_data_latch[k]
    <3>1. Bit(k) \in Nat /\ Bit(k) >= Cycles /\ Bit(k) + Cycles <= Bit(Bits)
      <4>1. k \in 0..Bits /\ Bits \in 0..Bits /\ k < Bits /\ 0 \in 0..Bits /\ (0 < k \/ k = 0)
        BY <1>2
      <4> QED BY <4>1, Numbers
    <3> DEFINE d == x - Bit(k)
    <3>2. d \in 0..(Cycles - 1) /\ x = Bit(k) + d
      BY <1>2, <2>1, <2>3, <3>1
    <3> HIDE DEF d
    <3>3. t.state # "start"
      BY <1>1, <1>2, <1>9, <3>1, <3>2
    <3>4. t.state # "stop"
      BY <1>1, <1>2, <1>9, <3>1, <3>2
    <3>5. t.state = "send_byte"
      BY <1>1, <3>3, <3>4
    <3>6. Bit(b) + c = Bit(k) + d
      BY <1>9, <3>2, <3>5
    <3>7. b = k
      BY <1>1, <3>2, <3>6, BitAt
    <3> QED BY <1>4, <1>7, <3>5, <3>7
  <2>4. y > Bit(Bits) => s.tx_reg = 1
    <3>1. t.state = "start" => ~(y > Bit(Bits))
      BY <1>1, <1>2, <1>9, <2>1
    <3>2. t.state = "send_byte" => ~(y > Bit(Bits))
      BY <1>1, <1>2, <1>9, <2>1
    <3> QED BY <1>1, <1>7, <3>1, <3>2
  <2> QED BY <2>2, <2>3, <2>4
<1>20. GoodTx(s)
  BY <1>3, <1>17, <1>18, <1>19 DEF GoodTx, y
<1> QED BY <1>4, <1>11, <1>12, <1>16, <1>20 DEF x, y, s

LEMMA TxIdle ==
  ASSUME NEW t, GoodTx(t), t.state = "idle", NEW valid \in BOOLEAN, NEW data \in Tx!Byte
  PROVE  LET s == Tx!Clock(t, valid, data) IN
         /\ valid => s.state = "start" /\ ~s.tx_data_ready /\ s.tx_data_latch = data
         /\ ~valid => s.state = "idle" /\ s.tx_data_ready
         /\ ~valid => s.tx_data_latch = t.tx_data_latch
         /\ Sent(s) = 0 /\ Sent(t) = 0 /\ GoodTx(s)
<1> DEFINE s == Tx!Clock(t, valid, data)
<1>0. s = Tx!Clock(t, valid, data)
  OBVIOUS
<1> HIDE DEF s
<1>1. s \in Tx!Registers
  BY <1>0, TxType DEF GoodTx
<1>2. /\ s.state = IF valid THEN "start" ELSE "idle"
      /\ s.tx_data_ready <=> ~valid
      /\ s.tx_data_latch = IF valid THEN data ELSE t.tx_data_latch
      /\ s.cycle_cnt = 0 /\ s.tx_reg = 1
  BY <1>0 DEF Tx!Clock, Tx!next_state, Tx!Taking, Tx!NextReady
<1>3. Sent(s) = 0 /\ Sent(t) = 0
  BY <1>2 DEF Sent
<1>4. /\ Cycles \in Nat /\ Bit(Bits) \in Nat /\ 0 \notin 1..Cycles
      /\ \A k \in 0..(Bits - 1) : Bit(k) \in Nat
  BY Numbers
<1>5. \A k \in 0..(Bits - 1) : ~(0 - Bit(k) \in 1..Cycles)
  BY <1>4
<1>6. ~(0 > Bit(Bits))
  BY <1>4
<1> QED BY <1>1, <1>2, <1>3, <1>4, <1>5, <1>6 DEF GoodTx, s
-----------------------------------------------------------------------------
\* One edge of a receiver that follows a frame.
LEMMA SampleAt ==
  ASSUME NEW r, GoodRx(r), NEW k \in 0..(Bits - 1), Elapsed(r) = Bit(k) + Half - 1
  PROVE  r.state = "rec_byte" /\ r.bit_cnt = k /\ r.cycle_cnt = Half - 1
<1> DEFINE c == r.cycle_cnt  b == r.bit_cnt
<1>1. /\ c \in 0..(Cycles - 1) /\ b \in 0..(Bits - 1)
      /\ r.state \in {"idle", "start", "rec_byte", "stop", "data"}
  BY DEF GoodRx, Rx!Registers
<1>2. /\ Cycles \in Nat /\ Half \in Nat /\ Cycles = 2 * Half /\ Half >= 2
      /\ Bit(k) \in Nat /\ Bit(k) >= Cycles /\ Bit(k) + Cycles <= Bit(Bits) /\ Bit(Bits) \in Nat
  <2>1. k \in 0..Bits /\ Bits \in 0..Bits /\ k < Bits /\ 0 \in 0..Bits /\ (0 < k \/ k = 0)
    BY Numbers
  <2> QED BY <2>1, Numbers
<1> DEFINE x == Elapsed(r)
<1>3. /\ r.state = "start" => x = c
      /\ r.state = "rec_byte" => x = Bit(b) + c
      /\ r.state = "stop" => x = Bit(Bits) + c
      /\ r.state = "data" => x = Bit(Bits) + Half
      /\ r.state = "idle" => x = 0
  BY ElapsedIs
<1>4. x = Bit(k) + Half - 1
  OBVIOUS
<1> HIDE DEF x, c, b
<1>5. r.state # "start"
  BY <1>1, <1>2, <1>3, <1>4
<1>6. r.state # "stop" /\ r.state # "data"
  BY <1>1, <1>2, <1>3, <1>4
<1>7. r.state # "idle"
  BY <1>2, <1>3, <1>4
<1>8. r.state = "rec_byte"
  BY <1>1, <1>5, <1>6, <1>7
<1>9. Half - 1 \in 0..(Cycles - 1) /\ Bit(b) + c = Bit(k) + (Half - 1)
  BY <1>2, <1>3, <1>4, <1>8
<1>10. b = k /\ c = Half - 1
  BY <1>1, <1>9, BitAt
<1> QED BY <1>8, <1>10 DEF b, c

LEMMA SampleStep ==
  ASSUME NEW r, GoodRx(r), r.state # "idle", NEW b \in Rx!Byte, Sampled(r, b), NEW pin \in 0..1,
         r.state # "data",
         \A k \in 0..(Bits - 1) : Elapsed(r) = Bit(k) + Half - 1 => pin = b[k]
  PROVE  LET s == Rx!Clock(r, pin, TRUE) IN
         Sampled(s, b)
<1> DEFINE s == Rx!Clock(r, pin, TRUE)
<1>1. /\ Elapsed(r) \in Nat /\ Elapsed(s) = Elapsed(r) + 1
      /\ s.rx_data = IF r.state = "rec_byte" /\ r.cycle_cnt = Half - 1
                     THEN [r.rx_data EXCEPT ![r.bit_cnt] = pin] ELSE r.rx_data
  <2>1. Reception - 1 \in Int
    BY Numbers
  <2>2. Elapsed(r) \in 0..(Reception - 1)
    BY RxBusy
  <2>3. Elapsed(r) \in Nat
    BY <2>1, <2>2
  <2> QED BY <2>3, RxBusy
<1>2. r.rx_data \in [0..(Bits - 1) -> 0..1]
  BY DEF GoodRx, Rx!Registers, Rx!Byte, Rx!Level
<1>3. ASSUME NEW k \in 0..(Bits - 1), Elapsed(s) >= Bit(k) + Half
      PROVE  s.rx_data[k] = b[k]
  <2>1. Bit(k) \in Nat /\ Half \in Nat
    BY Numbers
  <2>2. CASE Elapsed(r) = Bit(k) + Half - 1
    <3>1. r.state = "rec_byte" /\ r.bit_cnt = k /\ r.cycle_cnt = Half - 1
      BY <2>2, SampleAt
    <3>2. s.rx_data = [r.rx_data EXCEPT ![k] = pin]
      BY <1>1, <3>1
    <3> QED BY <1>2, <2>2, <3>2
  <2>3. CASE Elapsed(r) # Bit(k) + Half - 1
    <3>1. Elapsed(r) >= Bit(k) + Half
      <4>1. Elapsed(r) + 1 >= Bit(k) + Half /\ Elapsed(r) \in Nat
        BY <1>1, <1>3
      <4> HIDE DEF Elapsed
      <4> QED BY <2>1, <2>3, <4>1
    <3>2. r.rx_data[k] = b[k]
      BY <3>1 DEF Sampled
    <3>3. ~(r.state = "rec_byte" /\ r.cycle_cnt = Half - 1 /\ r.bit_cnt = k)
      <4> SUFFICES ASSUME r.state = "rec_byte", r.cycle_cnt = Half - 1, r.bit_cnt = k
                   PROVE  FALSE
        OBVIOUS
      <4>1. Elapsed(r) = Bit(k) + (Half - 1)
        BY ElapsedIs
      <4> QED BY <2>1, <2>3, <4>1
    <3> QED BY <1>1, <1>2, <3>2, <3>3
  <2> QED BY <2>2, <2>3
<1> QED BY <1>3 DEF Sampled

\* What the line must show at clock e of a frame with byte b.
Shows(pin, b, e) ==
  /\ e = 1 => pin = 0
  /\ e >= Reception => pin = 1
  /\ \A k \in 0..(Bits - 1) : e = Bit(k) + Half + 2 => pin = b[k]

\* A receiver that waits, or is at the end of a frame.
LEMMA RestStep ==
  ASSUME NEW r, GoodRx(r), Waiting(r) \/ Tailing(r), NEW pin \in 0..1
  PROVE  LET s == Rx!Clock(r, pin, TRUE) IN
         s.state = "idle" /\ s.rx_d0 = pin /\ s.rx_d1 = 1
<1> DEFINE s == Rx!Clock(r, pin, TRUE)
<1> SUFFICES s.state = "idle" /\ s.rx_d0 = pin /\ s.rx_d1 = 1
  OBVIOUS
<1>1. s.rx_d0 = pin /\ s.rx_d1 = 1
  BY DEF Rx!Clock, Waiting, Tailing
<1>2. CASE Waiting(r)
  <2>1. r.state = "idle" /\ r.rx_d0 # 0
    BY <1>2 DEF Waiting
  <2>2. s.state = "idle"
    BY <2>1, RxIdle
  <2> QED BY <1>1, <2>2
<1>3. CASE Tailing(r)
  <2>1. r.state = "data" /\ r.state # "idle"
    BY <1>3 DEF Tailing
  <2>2. s.state = "idle"
    BY <2>1, RxBusy
  <2> QED BY <1>1, <2>2
<1> QED BY <1>2, <1>3

LEMMA FollowStep ==
  ASSUME NEW r, GoodRx(r), NEW b \in Rx!Byte, NEW e \in Nat, e >= 1, Following(r, b, e),
         NEW pin \in 0..1,
         Shows(pin, b, e)
  PROVE  LET s == Rx!Clock(r, pin, TRUE) IN
         Following(s, b, e + 1)
<1> DEFINE s == Rx!Clock(r, pin, TRUE)
<1> SUFFICES Following(s, b, e + 1)
  OBVIOUS
<1>1. Reception \in Nat /\ Reception >= 5
  BY Numbers
<1>2. s.rx_d0 = pin /\ s.rx_d1 = r.rx_d0
  BY DEF Rx!Clock
<1>3. CASE e = 1
  <2>1. Waiting(r) \/ Tailing(r)
    BY <1>3 DEF Following
  <2>2. s.state = "idle"
    BY <2>1, RestStep
  <2>3. s.rx_d0 = 0 /\ s.rx_d1 = 1
    <3>1. pin = 0
      BY <1>3 DEF Shows
    <3> QED BY <2>1, <3>1, RestStep
  <2>4. e + 1 = 2 /\ ~(2 \in 0..1) /\ ~(2 \in 3..(Reception + 2)) /\ 2 # Reception + 1
        /\ 2 # Reception + 2 /\ ~(2 > Reception + 2)
    BY <1>1, <1>3
  <2> QED BY <2>2, <2>3, <2>4 DEF Following
<1>4. CASE e = 2
  <2>1. r.state = "idle" /\ r.rx_d0 = 0 /\ r.rx_d1 = 1
    BY <1>4 DEF Following
  <2>2. s.state = "start" /\ Elapsed(s) = 0
    <3>1. s.state = "start"
      BY <2>1, RxIdle
    <3>2. Elapsed(s) = 0
      BY <2>1, RxIdle
    <3> QED BY <3>1, <3>2
  <2>3. Sampled(s, b)
    <3>1. \A k \in 0..(Bits - 1) : Bit(k) \in Nat /\ Half \in Nat /\ Half >= 2
      BY Numbers
    <3>2. \A k \in 0..(Bits - 1) : ~(0 >= Bit(k) + Half)
      BY <3>1
    <3> QED BY <2>2, <3>2 DEF Sampled
  <2>4. e + 1 = 3 /\ ~(3 \in 0..1) /\ 3 # 2 /\ 3 - 3 = 0 /\ 3 # Reception + 1
        /\ 3 # Reception + 2 /\ ~(3 > Reception + 2)
    BY <1>1, <1>4
  <2> QED BY <2>2, <2>3, <2>4 DEF Following
<1>5. CASE e \in 3..(Reception + 1)
  <2>1. r.state # "idle" /\ Elapsed(r) = e - 3 /\ Sampled(r, b)
    <3>1. e \in 3..(Reception + 2)
      BY <1>1, <1>5
    <3> QED BY <3>1 DEF Following
  <2>2. Elapsed(r) # Reception - 1
    BY <1>1, <1>5, <2>1
  <2>3. s.state # "idle" /\ Elapsed(s) = Elapsed(r) + 1
    <3>1. r.state # "data"
      BY <2>1, <2>2, RxBusy
    <3>2. s.state # "idle"
      BY <2>1, <3>1, RxBusy
    <3>3. Elapsed(s) = Elapsed(r) + 1
      BY <2>1, <3>1, RxBusy
    <3> QED BY <3>2, <3>3
  <2>4. Elapsed(s) = (e + 1) - 3
    <3>1. (e - 3) + 1 = (e + 1) - 3
      OBVIOUS
    <3> QED BY <2>1, <2>3, <3>1
  <2>5. Sampled(s, b)
    <3>1. ASSUME NEW k \in 0..(Bits - 1), Elapsed(r) = Bit(k) + Half - 1
          PROVE  pin = b[k]
      <4>1. Bit(k) \in Nat /\ Half \in Nat
        BY Numbers
      <4>2. e = Bit(k) + Half + 2
        BY <2>1, <3>1, <4>1
      <4> QED BY <4>2 DEF Shows
    <3>2. r.state # "data"
      BY <2>1, <2>2, RxBusy
    <3>3. \A k \in 0..(Bits - 1) : Elapsed(r) = Bit(k) + Half - 1 => pin = b[k]
      BY <3>1
    <3> QED BY <2>1, <3>2, <3>3, SampleStep
  <2>6. e = Reception => s.rx_d0 = 1
    <3>1. e = Reception => pin = 1
      BY <1>1 DEF Shows
    <3> QED BY <1>2, <3>1
  <2>7. e = Reception + 1 => s.rx_d0 = 1 /\ s.rx_d1 = 1
    <3>1. e = Reception + 1 => r.rx_d0 = 1 /\ pin = 1
      BY <1>1 DEF Following, Shows
    <3> QED BY <1>2, <3>1
  <2>8. /\ ~(e + 1 \in 0..1) /\ e + 1 # 2 /\ ~(e + 1 > Reception + 2)
        /\ e + 1 = Reception + 1 => e = Reception
        /\ e + 1 = Reception + 2 => e = Reception + 1
    BY <1>1, <1>5
  <2> QED BY <2>3, <2>4, <2>5, <2>6, <2>7, <2>8 DEF Following
<1>6. CASE e >= Reception + 2
  <2>1. pin = 1
    BY <1>1, <1>6 DEF Shows
  <2>2. r.rx_d0 = 1 /\ s.state = "idle"
    <3>1. CASE e = Reception + 2
      <4>1. e \in 3..(Reception + 2)
        BY <1>1, <3>1
      <4>2. r.state # "idle" /\ Elapsed(r) = e - 3 /\ r.rx_d0 = 1
        BY <3>1, <4>1 DEF Following
      <4>3. Elapsed(r) = Reception - 1
        BY <1>1, <3>1, <4>2
      <4>4. r.state = "data"
        BY <4>2, <4>3, RxBusy
      <4>5. s.state = "idle"
        BY <4>2, <4>4, RxBusy
      <4> QED BY <4>2, <4>5
    <3>2. CASE e > Reception + 2
      <4>1. Waiting(r)
        BY <3>2 DEF Following
      <4>2. r.rx_d0 = 1
        BY <4>1 DEF Waiting
      <4>3. s.state = "idle"
        BY <4>1, RestStep
      <4> QED BY <4>2, <4>3
    <3>3. e = Reception + 2 \/ e > Reception + 2
      BY <1>1, <1>6
    <3> QED BY <3>1, <3>2, <3>3
  <2>3. Waiting(s)
    BY <1>2, <2>1, <2>2 DEF Waiting
  <2>4. /\ ~(e + 1 \in 0..1) /\ e + 1 # 2 /\ ~(e + 1 \in 3..(Reception + 2))
        /\ e + 1 # Reception + 1 /\ e + 1 # Reception + 2
    BY <1>1, <1>6
  <2> QED BY <2>3, <2>4 DEF Following
<1>7. e = 1 \/ e = 2 \/ e \in 3..(Reception + 1) \/ e >= Reception + 2
  BY <1>1
<1> QED BY <1>3, <1>4, <1>5, <1>6, <1>7

\* The line is high: what a receiver does that follows nothing.
LEMMA WaitStep ==
  ASSUME NEW r, GoodRx(r), Waiting(r) \/ Tailing(r)
  PROVE  LET s == Rx!Clock(r, 1, TRUE) IN
         Waiting(s)
<1> DEFINE s == Rx!Clock(r, 1, TRUE)
<1>1. 1 \in 0..1
  OBVIOUS
<1> QED BY <1>1, RestStep DEF Waiting

\* The byte a receiver that follows a frame ends with.
LEMMA FollowEnd ==
  ASSUME NEW r, GoodRx(r), NEW b \in Rx!Byte, NEW e \in Nat, e >= 3, Following(r, b, e)
  PROVE  /\ r.state = "data" <=> e = Reception + 2
         /\ r.state = "data" => r.rx_data = b
         /\ r.state = "idle" <=> e > Reception + 2
<1>1. Reception \in Nat /\ Reception = Bit(Bits) + Half + 1 /\ Bit(Bits) \in Nat /\ Half \in Nat
  BY Numbers
<1>2. CASE e <= Reception + 2
  <2>1. r.state # "idle" /\ Elapsed(r) = e - 3 /\ Sampled(r, b)
    <3>1. e \in 3..(Reception + 2)
      BY <1>1, <1>2
    <3> QED BY <3>1 DEF Following
  <2>2. 1 \in 0..1
    OBVIOUS
  <2>3. r.state = "data" <=> Elapsed(r) = Reception - 1
    BY <2>1, <2>2, RxBusy
  <2>4. Elapsed(r) = Reception - 1 <=> e = Reception + 2
    BY <1>1, <2>1
  <2>5. ASSUME e = Reception + 2
        PROVE  r.rx_data = b
    <3>1. Elapsed(r) = Bit(Bits) + Half
      BY <1>1, <2>1, <2>5
    <3>2. ASSUME NEW k \in 0..(Bits - 1)
          PROVE  r.rx_data[k] = b[k]
      <4>1. Bit(k) \in Nat /\ Cycles \in Nat /\ Bit(k) + Cycles <= Bit(Bits)
        <5>1. k \in 0..Bits /\ Bits \in 0..Bits /\ k < Bits
          BY Numbers
        <5> QED BY <5>1, Numbers
      <4>2. Bit(Bits) + Half >= Bit(k) + Half
        BY <1>1, <4>1
      <4> QED BY <2>1, <3>1, <4>2 DEF Sampled
    <3>3. r.rx_data \in [0..(Bits - 1) -> 0..1] /\ b \in [0..(Bits - 1) -> 0..1]
      BY DEF GoodRx, Rx!Registers, Rx!Byte, Rx!Level
    <3> HIDE DEF Following
    <3>4. r.rx_data = [k \in 0..(Bits - 1) |-> r.rx_data[k]] /\ b = [k \in 0..(Bits - 1) |-> b[k]]
      BY <3>3
    <3> QED BY <3>2, <3>4
  <2>6. ~(e > Reception + 2)
    BY <1>1, <1>2
  <2> QED BY <2>1, <2>3, <2>4, <2>5, <2>6
<1>3. CASE e > Reception + 2
  <2>1. Waiting(r) /\ e # Reception + 2
    BY <1>1, <1>3 DEF Following
  <2> QED BY <1>3, <2>1 DEF Waiting
<1> QED BY <1>1, <1>2, <1>3
-----------------------------------------------------------------------------
(***************************************************************************)
(* The inductive invariant.  Types holds of the registers at any time, and *)
(* Ready, of the one clock after a reset.  Quieting measures how much      *)
(* longer the UART can be busy after the line fell silent.  While nothing  *)
(* is muddled, Synced: both receivers follow the frame on their line, what *)
(* is under way is what stands in the registers, and the two counts bound  *)
(* how far the transmitter is behind.                                      *)
(***************************************************************************)
Types ==
  /\ GoodRx(rx) /\ GoodRx(far) /\ GoodTx(tx)
  /\ tx_data \in Rx!Byte /\ tx_data_valid \in BOOLEAN
  /\ sender \in [byte : Rx!Byte, drift : -1..1, at : Nat]
  /\ sender.at <= FrameClocks + sender.drift /\ Half > 1 - sender.drift
  /\ silence \in 0..Settle /\ muddled \in BOOLEAN
  /\ under_way \in Seq(Rx!Byte) /\ owed \in Nat

Ready ==
  tx.state = "idle" /\ ~tx.tx_data_ready =>
    silence = 0 /\ muddled /\ ~tx_data_valid /\ rx.state = "idle"

Front ==
  /\ Following(rx, sender.byte, sender.at)
  /\ Tailing(rx) /\ sender.at \in 0..1 => FrameClocks <= Reception + 2

Back ==
  IF tx.state = "idle"
  THEN \/ Waiting(far) \/ Tailing(far)
       \/ Following(far, tx.tx_data_latch, FrameClocks)
  ELSE Following(far, tx.tx_data_latch, Sent(tx))

One(c, b) == IF c THEN <<b>> ELSE <<>>
OnLine == sender.at \in 1..(Reception + 1)
InTx ==
  IF tx.state = "idle" THEN far.state \notin {"idle", "data"} ELSE Sent(tx) <= Reception + 1

Pipeline ==
  (One(far.state = "data", far.rx_data) \o One(InTx, tx.tx_data_latch))
  \o (One(tx_data_valid, tx_data)
      \o (One(rx.state = "data", rx.rx_data) \o One(OnLine, sender.byte)))

\* A byte came into the buffer no earlier than the transmitter took the one before.
Fresh ==
  tx_data_valid /\ tx.state # "idle" =>
    /\ rx.state = "data" => Sent(tx) >= FrameClocks - 2
    /\ OnLine /\ rx.state # "data" => sender.at <= Sent(tx) + Reception + 4 - FrameClocks
    /\ sender.at > Reception + 2 => sender.at <= Sent(tx) + Reception + 3
    /\ sender.at = 0 /\ rx.state # "data" => Sent(tx) >= FrameClocks - Reception - 3

\* The clocks the transmitter needs for a byte, and for what it has.
Clocks(c) == IF c THEN FrameClocks + 1 ELSE 0
TxWork ==
  (IF tx.state = "idle" THEN 0 ELSE FrameClocks - Sent(tx)) + Clocks(tx_data_valid)

Owing ==
  /\ OnLine /\ rx.state # "data" => owed >= FrameClocks + 2 - sender.at
  /\ rx.state = "data" => owed >= FrameClocks - Reception + Clocks(OnLine)
  /\ tx.state # "idle" \/ tx_data_valid =>
       owed >= TxWork + Clocks(rx.state = "data") + Clocks(OnLine) - (Reception + 2)

Quieting ==
  /\ silence >= 1 => sender.at = 0 /\ rx.rx_d0 = 1
  /\ silence >= 2 => rx.rx_d1 = 1
  /\ silence >= 1 /\ rx.state # "idle" => silence <= Elapsed(rx) + 1
  /\ silence > Reception /\ TxWork > 0 => TxWork + silence <= 2 * FrameClocks + Reception + 2
  /\ silence >= 2 * FrameClocks + Reception + 4 =>
       /\ far.rx_d0 = 1
       /\ far.state # "idle" => silence <= Elapsed(far) + 2 * FrameClocks + Reception + 4
  /\ silence >= 2 * FrameClocks + Reception + 5 => far.rx_d1 = 1

Synced == Front /\ Back /\ Fresh /\ Owing /\ under_way = Pipeline

IInv ==
  /\ Types /\ Ready /\ Quieting
  /\ muddled => under_way = <<>> /\ owed = 0
  /\ ~muddled => Synced

-----------------------------------------------------------------------------
\* What the sender does at an edge; begun is the byte it begins.
Line(begun) ==
  \/ /\ ~LineFree /\ begun = <<>>
     /\ sender' = [sender EXCEPT !.at = @ + 1]
  \/ /\ LineFree /\ begun = <<>>
     /\ sender' = [byte |-> NoByte, drift |-> 0, at |-> 0]
  \/ /\ LineFree
     /\ \E b \in Bytes, d \in Drifts :
          begun = <<b>> /\ sender' = [byte |-> b, drift |-> d, at |-> 1]

LEMMA NextIs ==
  ASSUME Next
  PROVE  ResetPulse \/ \E begun : Line(begun) /\ Edge(begun)
BY DEF Next, Continue, Pause, Begin, Line

LEMMA Times ==
  /\ Half \in Nat /\ Half >= 2
  /\ Reception \in Nat /\ Reception >= 11
  /\ FrameClocks \in Nat /\ FrameClocks = Reception + Half - 1
  /\ Settle \in Nat /\ Settle = 4 * FrameClocks + 4
<1>1. /\ Half \in Nat /\ Half >= 2 /\ Cycles = 2 * Half
      /\ Bit(Bits) \in Nat /\ Bit(Bits) >= 2 * Cycles
      /\ FrameClocks = Bit(Bits) + Cycles /\ Reception = Bit(Bits) + Half + 1
  BY Numbers
<1> QED BY <1>1 DEF Settle

LEMMA SameByte == Tx!Byte = Rx!Byte /\ Rx!Byte = [0..(Bits - 1) -> 0..1]
BY DEF Tx!Byte, Rx!Byte, Tx!Level, Rx!Level

LEMMA SenderCases ==
  ASSUME Types, NEW begun, Line(begun)
  PROVE  /\ sender' \in [byte : Rx!Byte, drift : -1..1, at : Nat]
         /\ sender'.at <= FrameClocks + sender'.drift /\ Half > 1 - sender'.drift
         /\ \/ /\ sender.at >= 1 /\ sender.at < FrameClocks + sender.drift
               /\ sender'.at = sender.at + 1 /\ sender'.byte = sender.byte
               /\ sender'.drift = sender.drift /\ begun = <<>>
            \/ sender.at \in {0, FrameClocks + sender.drift} /\ sender'.at = 0 /\ begun = <<>>
            \/ sender.at \in {0, FrameClocks + sender.drift} /\ sender'.at = 1
               /\ begun = <<sender'.byte>>
<1>1. /\ sender \in [byte : Rx!Byte, drift : -1..1, at : Nat]
      /\ sender.at <= FrameClocks + sender.drift /\ Half > 1 - sender.drift
  BY DEF Types
<1>2. CASE /\ ~LineFree /\ begun = <<>>
           /\ sender' = [sender EXCEPT !.at = @ + 1]
  <2>1. sender'.at = sender.at + 1 /\ sender'.byte = sender.byte /\ sender'.drift = sender.drift
    BY <1>1, <1>2
  <2>2. sender' \in [byte : Rx!Byte, drift : -1..1, at : Nat]
    BY <1>1, <1>2
  <2>3. sender.at # 0 /\ sender.at # FrameClocks + sender.drift
    BY <1>2 DEF LineFree
  <2>4. sender.at >= 1 /\ sender.at < FrameClocks + sender.drift
    BY <1>1, <2>3, Times
  <2>5. sender.at + 1 <= FrameClocks + sender.drift
    BY <1>1, <2>4, Times
  <2> QED BY <1>1, <1>2, <2>1, <2>2, <2>4, <2>5
<1>3. CASE /\ LineFree /\ begun = <<>>
           /\ sender' = [byte |-> NoByte, drift |-> 0, at |-> 0]
  <2>1. NoByte \in Rx!Byte
    BY SameByte DEF NoByte
  <2>2. sender'.at = 0 /\ sender'.drift = 0
    BY <1>3
  <2>3. 0 <= FrameClocks + 0 /\ Half > 1 - 0
    BY Times
  <2>4. sender' \in [byte : Rx!Byte, drift : -1..1, at : Nat]
    BY <1>3, <2>1
  <2> QED BY <1>3, <2>2, <2>3, <2>4 DEF LineFree
<1>4. CASE /\ LineFree
           /\ \E b \in Bytes, d \in Drifts :
                begun = <<b>> /\ sender' = [byte |-> b, drift |-> d, at |-> 1]
  <2>1. PICK b \in Bytes, d \in Drifts :
          begun = <<b>> /\ sender' = [byte |-> b, drift |-> d, at |-> 1]
    BY <1>4
  <2>2. b \in Rx!Byte /\ d \in -1..1 /\ Half > 1 - d
    BY EchoAssumption DEF Half
  <2>3. sender'.at = 1 /\ sender'.drift = d /\ sender'.byte = b
    BY <2>1
  <2>4. 1 <= FrameClocks + d
    BY <2>2, Times
  <2>5. sender' \in [byte : Rx!Byte, drift : -1..1, at : Nat]
    BY <2>1, <2>2
  <2> QED BY <1>4, <2>1, <2>2, <2>3, <2>4, <2>5 DEF LineFree
<1> QED BY <1>2, <1>3, <1>4 DEF Line

\* The whole bits that have gone by.
LEMMA DivIs ==
  ASSUME NEW C \in Nat, C >= 1, NEW k \in Int, NEW x \in Int, 0 <= x, x < C
  PROVE  (C * k + x) \div C = k
<1> DEFINE q == C * k + x  d == q \div C
<1>1. q \in Int
  OBVIOUS
<1>2. d \in Int /\ C * d <= q /\ q < C * d + C
  BY <1>1
<1> HIDE DEF d
<1>3. ~ (d < k)
  <2> SUFFICES ASSUME d + 1 <= k PROVE FALSE
    BY <1>2
  <2>1. C * (d + 1) <= C * k /\ C * (d + 1) = C * d + C
    BY <1>2
  <2> QED BY <1>2, <2>1
<1>4. ~ (k < d)
  <2> SUFFICES ASSUME k + 1 <= d PROVE FALSE
    BY <1>2
  <2>1. C * (k + 1) <= C * d /\ C * (k + 1) = C * k + C
    BY <1>2
  <2> QED BY <1>2, <2>1
<1>5. d = k
  BY <1>2, <1>3, <1>4
<1> QED BY <1>5 DEF d

LEMMA PinShows ==
  ASSUME Types
  PROVE  /\ Pin \in 0..1
         /\ sender.at = 0 => Pin = 1
         /\ sender.at >= 1 => Shows(Pin, sender.byte, sender.at)
<1> DEFINE n == sender.at  d == sender.drift  q == n - 1 - d  bit == q \div Cycles
<1>1. /\ n \in Nat /\ d \in -1..1 /\ sender.byte \in [0..(Bits - 1) -> 0..1]
      /\ n <= FrameClocks + d /\ Half > 1 - d
  BY SameByte DEF Types
<1>2. /\ Cycles \in Nat /\ Half \in Nat /\ Cycles = 2 * Half /\ Half >= 2 /\ Bits \in Nat \ {0}
      /\ FrameClocks = Bit(Bits) + Cycles /\ Reception = Bit(Bits) + Half + 1
      /\ Bit(Bits) \in Nat /\ Bit(Bits) >= 2 * Cycles
  BY Numbers
<1>3. /\ n = 0 => Pin = 1
      /\ n # 0 /\ bit <= 0 => Pin = 0
      /\ n # 0 /\ ~(bit <= 0) /\ bit \in 1..Bits => Pin = sender.byte[bit - 1]
      /\ n # 0 /\ ~(bit <= 0) /\ bit \notin 1..Bits => Pin = 1
  <2>1. Pin = IF n = 0 THEN 1
              ELSE CASE bit <= 0 -> 0
                     [] bit \in 1..Bits -> sender.byte[bit - 1]
                     [] OTHER -> 1
    BY DEF Pin
  <2> HIDE DEF n, bit
  <2>2. n = 0 => Pin = 1
    BY <2>1
  <2>3. n # 0 /\ bit <= 0 => Pin = 0
    BY <2>1
  <2>4. n # 0 /\ ~(bit <= 0) /\ bit \in 1..Bits => Pin = sender.byte[bit - 1]
    BY <2>1
  <2>5. n # 0 /\ ~(bit <= 0) /\ bit \notin 1..Bits => Pin = 1
    BY <2>1
  <2> QED BY <2>2, <2>3, <2>4, <2>5
<1> HIDE DEF n, d
<1>4. q \in Int /\ bit \in Int
  <2>1. q \in Int
    BY <1>1
  <2> HIDE DEF q
  <2> QED BY <1>2, <2>1
<1> HIDE DEF bit
<1>5. Pin \in 0..1
  <2>1. bit \in 1..Bits => bit - 1 \in 0..(Bits - 1)
    BY <1>2, <1>4
  <2>2. CASE n # 0 /\ ~(bit <= 0) /\ bit \in 1..Bits
    BY <1>1, <1>3, <2>1, <2>2
  <2>3. CASE ~(n # 0 /\ ~(bit <= 0) /\ bit \in 1..Bits)
    BY <1>3, <2>3
  <2> QED BY <2>2, <2>3
<1>6. n = 0 => Pin = 1
  BY <1>3
<1>7. n = 1 => Pin = 0
  <2> SUFFICES ASSUME n = 1 PROVE Pin = 0
    OBVIOUS
  <2>1. q = Cycles * 0 + q /\ q = Cycles * (-1) + (q + Cycles)
    BY <1>2, <1>4
  <2>2. CASE d = 1
    <3>1. q + Cycles \in Int /\ 0 <= q + Cycles /\ q + Cycles < Cycles
      BY <1>2, <2>2
    <3>2. (Cycles * (-1) + (q + Cycles)) \div Cycles = -1
      <4> DEFINE x == q + Cycles
      <4> HIDE DEF x, q
      <4>1. (Cycles * (-1) + x) \div Cycles = -1
        <5>1. x \in Int /\ 0 <= x /\ x < Cycles
          BY <3>1 DEF x
        <5>2. -1 \in Int /\ Cycles >= 1
          BY <1>2
        <5> QED BY <1>2, <5>1, <5>2, DivIs
      <4> QED BY <4>1 DEF x
    <3>3. bit = -1
      BY <2>1, <3>2 DEF bit
    <3> QED BY <1>3, <3>3
  <2>3. CASE d # 1
    <3>1. 0 <= q /\ q < Cycles
      BY <1>1, <1>2, <2>3
    <3>2. (Cycles * 0 + q) \div Cycles = 0
      <4> HIDE DEF q
      <4> QED BY <1>2, <1>4, <3>1, DivIs
    <3>3. bit = 0
      BY <2>1, <3>2 DEF bit
    <3> QED BY <1>3, <3>3
  <2> QED BY <2>2, <2>3
<1>8. ASSUME NEW k \in Nat, k <= Bits, Bit(k) <= q, q < Bit(k) + Cycles, n >= 1
      PROVE  Pin = IF k < Bits THEN sender.byte[k] ELSE 1
  <2> DEFINE x == q - Bit(k)
  <2>1. Bit(k) = Cycles * (k + 1) /\ Bit(k) \in Int
    BY <1>2 DEF Bit
  <2>2. x \in Int /\ 0 <= x /\ x < Cycles /\ q = Cycles * (k + 1) + x
    <3> HIDE DEF q
    <3>1. x \in Int /\ 0 <= x /\ x < Cycles /\ q = Bit(k) + x
      BY <1>2, <1>4, <1>8, <2>1
    <3> QED BY <2>1, <3>1
  <2> HIDE DEF x, q
  <2>3. (Cycles * (k + 1) + x) \div Cycles = k + 1
    <3>1. k + 1 \in Int /\ Cycles >= 1
      BY <1>2
    <3> QED BY <1>2, <2>2, <3>1, DivIs
  <2>4. bit = k + 1
    BY <2>2, <2>3 DEF bit
  <2>5. ~(k + 1 <= 0) /\ (k + 1 \in 1..Bits <=> k < Bits) /\ (k + 1) - 1 = k
    BY <1>2, <1>8
  <2>6. n # 0
    BY <1>1, <1>8
  <2> QED BY <1>3, <2>4, <2>5, <2>6
<1>9. n >= Reception => Pin = 1
  <2> SUFFICES ASSUME n >= Reception PROVE Pin = 1
    OBVIOUS
  <2>1. Bit(Bits) <= q /\ q < Bit(Bits) + Cycles /\ n >= 1
    BY <1>1, <1>2
  <2>2. Bits \in Nat /\ Bits <= Bits /\ ~(Bits < Bits)
    BY <1>2
  <2> HIDE DEF q, n
  <2> QED BY <1>8, <2>1, <2>2
<1>10. ASSUME NEW k \in 0..(Bits - 1), n = Bit(k) + Half + 2
       PROVE  Pin = sender.byte[k]
  <2>1. k \in Nat /\ k <= Bits /\ k < Bits /\ k \in 0..Bits
    BY <1>2
  <2>2. Bit(k) \in Nat
    BY <2>1, Numbers
  <2>3. Bit(k) <= q /\ q < Bit(k) + Cycles /\ n >= 1
    <3>1. d \in Int /\ d <= 1 /\ Half > 1 - d
      BY <1>1
    <3>2. q = Bit(k) + Half + 1 - d
      BY <1>2, <1>10, <2>2, <3>1
    <3>3. n >= 1
      BY <1>2, <1>10, <2>2
    <3> HIDE DEF q
    <3>4. Bit(k) <= q
      BY <1>2, <2>2, <3>1, <3>2
    <3>5. q < Bit(k) + Cycles
      BY <1>2, <2>2, <3>1, <3>2
    <3> QED BY <3>3, <3>4, <3>5
  <2> HIDE DEF q, n
  <2> QED BY <1>8, <2>1, <2>3
<1> QED BY <1>5, <1>6, <1>7, <1>9, <1>10 DEF Shows, n

-----------------------------------------------------------------------------
\* The ends of a frame.
LEMMA AtStart ==
  ASSUME NEW r, Waiting(r) \/ Tailing(r), NEW b, NEW e \in 0..1
  PROVE  Following(r, b, e)
<1>1. /\ e # 2 /\ ~(e \in 3..(Reception + 2)) /\ e # Reception + 1 /\ e # Reception + 2
      /\ ~(e > Reception + 2)
  BY Times
<1> QED BY <1>1 DEF Following

LEMMA AtEnd ==
  ASSUME NEW r, GoodRx(r), NEW b \in Rx!Byte, NEW e \in Nat, e >= Reception + 2,
         Following(r, b, e)
  PROVE  Waiting(r) \/ (e = Reception + 2 /\ Tailing(r))
<1>1. e > Reception + 2 \/ e = Reception + 2
  BY Times
<1>2. CASE e > Reception + 2
  BY <1>2 DEF Following
<1>3. CASE e = Reception + 2
  <2>1. e >= 3
    BY <1>3, Times
  <2>2. r.state = "data"
    BY <1>3, <2>1, FollowEnd
  <2>3. r.rx_d0 = 1 /\ r.rx_d1 = 1
    BY <1>3 DEF Following
  <2> QED BY <1>3, <2>2, <2>3 DEF Tailing
<1> QED BY <1>1, <1>2, <1>3

\* One edge of a receiver at the line of the frame that it follows.
LEMMA FollowLine ==
  ASSUME NEW r, GoodRx(r), NEW b \in Rx!Byte, NEW e \in Nat, Following(r, b, e),
         NEW pin \in 0..1, e = 0 => pin = 1, e >= 1 => Shows(pin, b, e)
  PROVE  LET s == Rx!Clock(r, pin, TRUE) IN
         /\ GoodRx(s)
         /\ e = 0 => Waiting(s)
         /\ e >= 1 => Following(s, b, e + 1)
<1> DEFINE s == Rx!Clock(r, pin, TRUE)
<1>1. GoodRx(s)
  <2>1. CASE r.state = "idle"
    BY <2>1, RxIdle
  <2>2. CASE r.state # "idle"
    BY <2>2, RxBusy
  <2> QED BY <2>1, <2>2
<1>2. e = 0 => Waiting(s)
  <2> SUFFICES ASSUME e = 0 PROVE Waiting(s)
    OBVIOUS
  <2>1. Waiting(r) \/ Tailing(r)
    <3>1. e \in 0..1
      OBVIOUS
    <3> QED BY <3>1 DEF Following
  <2>2. pin = 1
    OBVIOUS
  <2> QED BY <2>1, <2>2, WaitStep
<1>3. e >= 1 => Following(s, b, e + 1)
  BY FollowStep
<1> QED BY <1>1, <1>2, <1>3

LEMMA LineEnd ==
  ASSUME NEW s, GoodRx(s), NEW b \in Rx!Byte, NEW e \in Nat,
         e = 0 => Waiting(s), e >= 1 => Following(s, b, e + 1)
  PROVE  /\ s.state = "data" <=> e = Reception + 1
         /\ s.state = "data" => s.rx_data = b
<1>1. CASE e = 0
  <2>1. s.state = "idle"
    BY <1>1 DEF Waiting
  <2>2. e # Reception + 1
    BY <1>1, Times
  <2> QED BY <2>1, <2>2
<1>2. CASE e = 1
  <2>1. e + 1 = 2 /\ e >= 1
    BY <1>2
  <2>2. Following(s, b, 2)
    BY <2>1
  <2>3. s.state = "idle"
    BY <2>2 DEF Following
  <2>4. e # Reception + 1
    BY <1>2, Times
  <2> QED BY <2>3, <2>4
<1>3. CASE e >= 2
  <2>1. e + 1 \in Nat /\ e + 1 >= 3 /\ e >= 1 /\ (e + 1 = Reception + 2 <=> e = Reception + 1)
    BY <1>3, Times
  <2>2. Following(s, b, e + 1)
    BY <2>1
  <2>3. s.state = "data" <=> e + 1 = Reception + 2
    BY <2>1, <2>2, FollowEnd
  <2>4. s.state = "data" => s.rx_data = b
    BY <2>1, <2>2, FollowEnd
  <2> QED BY <2>1, <2>3, <2>4
<1>4. e = 0 \/ e = 1 \/ e >= 2
  OBVIOUS
<1> QED BY <1>1, <1>2, <1>3, <1>4

\* The receiver of the UART and the sender.
LEMMA FrontStep ==
  ASSUME Types, Front, NEW begun, Line(begun), rx' = Rx!Clock(rx, Pin, TRUE)
  PROVE  /\ Front'
         /\ rx'.state = "data" <=> sender.at = Reception + 1
         /\ rx'.state = "data" => rx'.rx_data = sender.byte
         /\ rx.state = "data" => sender.at \in 0..1 \/ sender.at = Reception + 2
         /\ sender.at = Reception + 2 => rx.state = "data"
         /\ rx.state = "data" /\ sender.at \in 0..1 => FrameClocks <= Reception + 2
         /\ GoodRx(rx')
<1> DEFINE n == sender.at  b == sender.byte
<1>1. GoodRx(rx) /\ n \in Nat /\ b \in Rx!Byte /\ sender.drift \in -1..1 /\ Half > 1 - sender.drift
  BY DEF Types
<1>2. Pin \in 0..1 /\ (n = 0 => Pin = 1) /\ (n >= 1 => Shows(Pin, b, n))
  BY PinShows
<1>3. Following(rx, b, n)
  BY DEF Front
<1>4. GoodRx(rx')
  BY <1>1, <1>2, <1>3, FollowLine
<1>5. n = 0 => Waiting(rx')
  BY <1>1, <1>2, <1>3, FollowLine
<1>6. n >= 1 => Following(rx', b, n + 1)
  BY <1>1, <1>2, <1>3, FollowLine
<1>7. /\ rx'.state = "data" <=> n = Reception + 1
      /\ rx'.state = "data" => rx'.rx_data = b
  BY <1>1, <1>4, <1>5, <1>6, LineEnd
<1> HIDE DEF n, b
<1>8. /\ rx.state = "data" => n \in 0..1 \/ n = Reception + 2
      /\ n = Reception + 2 => rx.state = "data"
  <2>1. CASE n \in 0..1
    <3>1. n # Reception + 2
      BY <2>1, Times
    <3> QED BY <2>1, <3>1
  <2>2. CASE n = 2
    <3>1. rx.state = "idle"
      BY <1>3, <2>2 DEF Following
    <3>2. n # Reception + 2
      BY <2>2, Times
    <3> QED BY <3>1, <3>2
  <2>3. CASE n >= 3
    BY <1>1, <1>3, <2>3, FollowEnd
  <2>4. n \in 0..1 \/ n = 2 \/ n >= 3
    BY <1>1
  <2> QED BY <2>1, <2>2, <2>3, <2>4
<1>9. rx.state = "data" /\ n \in 0..1 => FrameClocks <= Reception + 2
  <2> SUFFICES ASSUME rx.state = "data", n \in 0..1 PROVE FrameClocks <= Reception + 2
    OBVIOUS
  <2>1. Waiting(rx) \/ Tailing(rx)
    BY <1>3 DEF Following
  <2>2. Tailing(rx)
    BY <2>1 DEF Waiting
  <2> QED BY <2>2 DEF Front, n
<1>10. Front'
  <2>1. \/ sender'.at = n + 1 /\ sender'.byte = b /\ n >= 1
        \/ n \in {0, FrameClocks + sender.drift} /\ sender'.at \in 0..1
    <3>1. 0 \in 0..1 /\ 1 \in 0..1
      OBVIOUS
    <3> QED BY <3>1, SenderCases DEF n, b
  <2>2. CASE sender'.at = n + 1 /\ sender'.byte = b /\ n >= 1
    <3>1. Following(rx', sender'.byte, sender'.at)
      BY <1>6, <2>2
    <3>2. ~(sender'.at \in 0..1)
      BY <1>1, <2>2
    <3> QED BY <3>1, <3>2 DEF Front
  <2>3. CASE n \in {0, FrameClocks + sender.drift} /\ sender'.at \in 0..1
    <3>1. Waiting(rx') \/ (Tailing(rx') /\ FrameClocks <= Reception + 2)
      <4>1. CASE n = 0
        BY <1>5, <4>1
      <4>2. CASE n = FrameClocks + sender.drift
        <5>1. n + 1 \in Nat /\ n + 1 >= Reception + 2 /\ n >= 1
          BY <1>1, <4>2, Times
        <5>2. Waiting(rx') \/ (n + 1 = Reception + 2 /\ Tailing(rx'))
          BY <1>1, <1>4, <1>6, <5>1, AtEnd
        <5>3. n + 1 = Reception + 2 => FrameClocks <= Reception + 2
          BY <1>1, <4>2, Times
        <5> QED BY <5>2, <5>3
      <4> QED BY <2>3, <4>1, <4>2
    <3>2. Following(rx', sender'.byte, sender'.at)
      BY <2>3, <3>1, AtStart
    <3>3. Tailing(rx') => FrameClocks <= Reception + 2
      BY <3>1 DEF Waiting, Tailing
    <3> QED BY <3>2, <3>3 DEF Front
  <2> QED BY <2>1, <2>2, <2>3
<1> QED BY <1>4, <1>7, <1>8, <1>9, <1>10 DEF n, b

\* The transmitter and the receiver at the other end.
LEMMA TxShows ==
  ASSUME NEW t, GoodTx(t)
  PROVE  /\ t.state = "idle" => t.tx_reg = 1 /\ Shows(1, t.tx_data_latch, FrameClocks)
         /\ t.state # "idle" /\ Sent(t) = 0 => t.tx_reg = 1
         /\ t.state # "idle" /\ Sent(t) \in Nat /\ Sent(t) >= 1 =>
              Shows(t.tx_reg, t.tx_data_latch, Sent(t))
<1>1. /\ Half \in Nat /\ Half >= 2 /\ Cycles = 2 * Half /\ Cycles \in Nat
      /\ Bit(Bits) \in Nat /\ FrameClocks = Bit(Bits) + Cycles /\ FrameClocks \in Nat
      /\ Reception = Bit(Bits) + Half + 1
  BY Numbers
<1>2. ASSUME NEW k \in 0..(Bits - 1)
      PROVE  Bit(k) \in Nat /\ Bit(k) + Cycles <= Bit(Bits)
  <2>1. k \in 0..Bits /\ Bits \in 0..Bits /\ k < Bits
    BY Numbers
  <2> QED BY <2>1, Numbers
<1>3. Shows(1, t.tx_data_latch, FrameClocks)
  <2>1. FrameClocks # 1
    BY <1>1
  <2>2. \A k \in 0..(Bits - 1) : FrameClocks # Bit(k) + Half + 2
    BY <1>1, <1>2
  <2> QED BY <2>1, <2>2 DEF Shows
<1>4. t.state = "idle" \/ Sent(t) = 0 => t.tx_reg = 1
  BY DEF GoodTx
<1>5. ASSUME t.state # "idle", Sent(t) \in Nat, Sent(t) >= 1
      PROVE  Shows(t.tx_reg, t.tx_data_latch, Sent(t))
  <2> DEFINE n == Sent(t)
  <2>1. /\ n \in 1..Cycles => t.tx_reg = 0
        /\ \A k \in 0..(Bits - 1) : n - Bit(k) \in 1..Cycles => t.tx_reg = t.tx_data_latch[k]
        /\ n > Bit(Bits) => t.tx_reg = 1
    BY <1>5 DEF GoodTx
  <2>2. n \in Nat
    BY <1>5
  <2> HIDE DEF n
  <2>3. n = 1 => t.tx_reg = 0
    <3>1. n = 1 => n \in 1..Cycles
      BY <1>1
    <3> QED BY <2>1, <3>1
  <2>4. n >= Reception => t.tx_reg = 1
    <3>1. n >= Reception => n > Bit(Bits)
      BY <1>1, <2>2
    <3> QED BY <2>1, <3>1
  <2>5. ASSUME NEW k \in 0..(Bits - 1), n = Bit(k) + Half + 2
        PROVE  t.tx_reg = t.tx_data_latch[k]
    <3>1. n - Bit(k) \in 1..Cycles
      BY <1>1, <1>2, <2>5
    <3> QED BY <2>1, <3>1
  <2> QED BY <2>3, <2>4, <2>5 DEF Shows, n
<1> QED BY <1>3, <1>4, <1>5

Taking == tx.state = "idle" /\ tx_data_valid

LEMMA OneAlone ==
  ASSUME NEW x, NEW b, x \in {<<>>, <<b>>}
  PROVE  x \o <<>> = x /\ <<>> \o x = x
<1>1. <<b>> \in Seq({b}) /\ <<>> \in Seq({b})
  OBVIOUS
<1>2. x \in Seq({b})
  BY <1>1
<1> QED BY <1>2, ConcatEmptySeq

LEMMA BackStep ==
  ASSUME Types, Back, tx' = Tx!Clock(tx, tx_data_valid, tx_data),
         far' = Rx!Clock(far, tx.tx_reg, TRUE)
  PROVE  /\ Back' /\ GoodRx(far') /\ GoodTx(tx')
         /\ One(far'.state = "data", far'.rx_data) \o One(InTx', tx'.tx_data_latch)
              = One(InTx, tx.tx_data_latch) \o One(Taking, tx_data)
<1> DEFINE n == Sent(tx)  b == tx.tx_data_latch
<1>1. /\ GoodRx(far) /\ GoodTx(tx) /\ tx_data \in Tx!Byte /\ tx_data_valid \in BOOLEAN
      /\ b \in Rx!Byte /\ tx.tx_reg \in 0..1
  BY SameByte DEF Types, GoodTx, Tx!Registers, Tx!Level
<1>2. CASE tx.state = "idle"
  <2>1. tx.tx_reg = 1 /\ Shows(1, b, FrameClocks)
    BY <1>1, <1>2, TxShows
  <2>2. Waiting(far) \/ Tailing(far) \/ Following(far, b, FrameClocks)
    BY <1>2 DEF Back
  <2>3. FrameClocks \in Nat /\ FrameClocks >= 3 /\ FrameClocks >= 1 /\ FrameClocks >= Reception + 1
        /\ (FrameClocks >= Reception + 2 \/ FrameClocks = Reception + 1)
    BY Times
  <2>4. GoodRx(far')
    <3>1. CASE far.state = "idle"
      BY <1>1, <3>1, RxIdle
    <3>2. CASE far.state # "idle"
      BY <1>1, <3>2, RxBusy
    <3> QED BY <3>1, <3>2
  <2>5. CASE Waiting(far) \/ Tailing(far)
    <3>1. Waiting(far')
      BY <1>1, <2>1, <2>5, WaitStep
    <3>2. far'.state = "idle" /\ ~InTx
      BY <1>2, <2>5, <3>1 DEF Waiting, Tailing, InTx
    <3>3. CASE tx_data_valid
      <4>1. tx'.state = "start" /\ Sent(tx') = 0 /\ tx'.tx_data_latch = tx_data /\ GoodTx(tx')
        <5>1. tx'.state = "start"
          BY <1>1, <1>2, <3>3, TxIdle
        <5>2. Sent(tx') = 0 /\ GoodTx(tx')
          BY <1>1, <1>2, TxIdle
        <5>3. tx'.tx_data_latch = tx_data
          BY <1>1, <1>2, <3>3, TxIdle
        <5> QED BY <5>1, <5>2, <5>3
      <4>2. InTx'
        <5>1. 0 <= Reception + 1
          BY Times
        <5> QED BY <4>1, <5>1 DEF InTx
      <4>3. Back'
        <5>0. 0 \in 0..1
          OBVIOUS
        <5>1. Following(far', tx'.tx_data_latch, 0)
          BY <3>1, <5>0, AtStart
        <5> QED BY <4>1, <5>1 DEF Back
      <4> QED BY <1>2, <2>4, <3>2, <3>3, <4>1, <4>2, <4>3 DEF One, Taking
    <3>4. CASE ~tx_data_valid
      <4>1. tx'.state = "idle" /\ GoodTx(tx')
        BY <1>1, <1>2, <3>4, TxIdle
      <4>2. ~InTx'
        BY <3>2, <4>1 DEF InTx
      <4>3. Back'
        BY <3>1, <4>1 DEF Back
      <4> QED BY <1>2, <2>4, <3>2, <3>4, <4>1, <4>2, <4>3 DEF One, Taking
    <3> QED BY <3>3, <3>4
  <2>6. CASE ~(Waiting(far) \/ Tailing(far))
    <3>1. Following(far, b, FrameClocks)
      BY <2>2, <2>6
    <3>2. FrameClocks = Reception + 1
      <4>1. FrameClocks >= Reception + 2 => Waiting(far) \/ Tailing(far)
        BY <1>1, <2>3, <3>1, AtEnd
      <4> QED BY <2>3, <2>6, <4>1
    <3>3. far.state # "data" /\ far.state # "idle"
      <4>1. FrameClocks # Reception + 2 /\ ~(FrameClocks > Reception + 2)
        BY <3>2, Times
      <4> QED BY <1>1, <2>3, <3>1, <4>1, FollowEnd
    <3>4. InTx
      BY <1>2, <3>3 DEF InTx
    <3>5. far'.state = "data" /\ far'.rx_data = b
      <4>1. FrameClocks # 0 /\ 1 \in 0..1
        BY <2>3
      <4>2. Following(far', b, FrameClocks + 1)
        BY <1>1, <2>1, <2>3, <3>1, <4>1, FollowLine
      <4> QED BY <1>1, <2>3, <2>4, <3>2, <4>1, <4>2, LineEnd
    <3>6. Tailing(far')
      <4>1. Following(far', b, FrameClocks + 1)
        <5>1. FrameClocks # 0 /\ 1 \in 0..1
          BY <2>3
        <5> QED BY <1>1, <2>1, <2>3, <3>1, <5>1, FollowLine
      <4>2. FrameClocks + 1 \in Nat /\ FrameClocks + 1 >= Reception + 2
        BY <3>2, Times
      <4>3. Waiting(far') \/ Tailing(far')
        BY <1>1, <2>4, <4>1, <4>2, AtEnd
      <4> QED BY <3>5, <4>3 DEF Waiting
    <3>7. CASE tx_data_valid
      <4>1. tx'.state = "start" /\ Sent(tx') = 0 /\ tx'.tx_data_latch = tx_data /\ GoodTx(tx')
        <5>1. tx'.state = "start"
          BY <1>1, <1>2, <3>7, TxIdle
        <5>2. Sent(tx') = 0 /\ GoodTx(tx')
          BY <1>1, <1>2, TxIdle
        <5>3. tx'.tx_data_latch = tx_data
          BY <1>1, <1>2, <3>7, TxIdle
        <5> QED BY <5>1, <5>2, <5>3
      <4>2. InTx'
        <5>1. 0 <= Reception + 1
          BY Times
        <5> QED BY <4>1, <5>1 DEF InTx
      <4>3. Back'
        <5>0. 0 \in 0..1
          OBVIOUS
        <5>1. Following(far', tx'.tx_data_latch, 0)
          BY <3>6, <5>0, AtStart
        <5> QED BY <4>1, <5>1 DEF Back
      <4> QED BY <1>2, <2>4, <3>4, <3>5, <3>7, <4>1, <4>2, <4>3 DEF One, Taking
    <3>8. CASE ~tx_data_valid
      <4>1. tx'.state = "idle" /\ GoodTx(tx')
        BY <1>1, <1>2, <3>8, TxIdle
      <4>2. ~InTx'
        BY <3>5, <4>1 DEF InTx
      <4>3. Back'
        BY <3>6, <4>1 DEF Back
      <4> QED BY <1>2, <2>4, <3>4, <3>5, <3>8, <4>1, <4>2, <4>3 DEF One, Taking
    <3> QED BY <3>7, <3>8
  <2> QED BY <2>5, <2>6
<1>3. CASE tx.state # "idle"
  <2>1. /\ n \in 0..(FrameClocks - 1)
        /\ n = FrameClocks - 1 => tx'.state = "idle"
        /\ n # FrameClocks - 1 => tx'.state # "idle" /\ Sent(tx') = n + 1
        /\ GoodTx(tx') /\ tx'.tx_data_latch = b
    BY <1>1, <1>3, TxBusy
  <2>2. n \in Nat
    BY <2>1, Times
  <2>3. Following(far, b, n)
    BY <1>3 DEF Back
  <2>4. (n = 0 => tx.tx_reg = 1) /\ (n >= 1 => Shows(tx.tx_reg, b, n))
    BY <1>1, <1>3, <2>2, TxShows
  <2>5. /\ GoodRx(far')
        /\ n = 0 => Waiting(far')
        /\ n >= 1 => Following(far', b, n + 1)
        /\ far'.state = "data" <=> n = Reception + 1
        /\ far'.state = "data" => far'.rx_data = b
    <3>1. GoodRx(far') /\ (n = 0 => Waiting(far'))
      BY <1>1, <2>2, <2>3, <2>4, FollowLine
    <3>2. n >= 1 => Following(far', b, n + 1)
      BY <1>1, <2>2, <2>3, <2>4, FollowLine
    <3>3. /\ far'.state = "data" <=> n = Reception + 1
          /\ far'.state = "data" => far'.rx_data = b
      BY <1>1, <2>2, <3>1, <3>2, LineEnd
    <3> QED BY <3>1, <3>2, <3>3
  <2>6. InTx <=> n <= Reception + 1
    BY <1>3 DEF InTx
  <2>7. ~Taking
    BY <1>3 DEF Taking
  <2> HIDE DEF n, b
  <2>8. CASE n # FrameClocks - 1
    <3>1. tx'.state # "idle" /\ Sent(tx') = n + 1
      BY <2>1, <2>8
    <3>2. Following(far', b, n + 1)
      <4>1. CASE n = 0
        <5>1. Waiting(far')
          BY <2>5, <4>1
        <5>2. n + 1 \in 0..1
          BY <4>1
        <5> QED BY <5>1, <5>2, AtStart
      <4>2. CASE n >= 1
        BY <2>5, <4>2
      <4>3. n = 0 \/ n >= 1
        BY <2>2
      <4> QED BY <4>1, <4>2, <4>3
    <3>3. Back'
      BY <2>1, <3>1, <3>2 DEF Back
    <3>4. InTx' <=> n + 1 <= Reception + 1
      BY <3>1 DEF InTx
    <3>5. (n = Reception + 1 /\ InTx /\ ~InTx') \/ (n # Reception + 1 /\ (InTx <=> InTx'))
      BY <2>2, <2>6, <3>4, Times
    <3>6. One(far'.state = "data", far'.rx_data) \o One(InTx', tx'.tx_data_latch)
            = One(InTx, b) \o One(Taking, tx_data)
      <4>1. One(Taking, tx_data) = <<>>
        BY <2>7 DEF One
      <4>2. CASE n = Reception + 1
        <5>1. One(far'.state = "data", far'.rx_data) = <<b>>
          BY <2>5, <4>2 DEF One
        <5>2. One(InTx', tx'.tx_data_latch) = <<>> /\ One(InTx, b) = <<b>>
          BY <3>5, <4>2 DEF One
        <5> QED BY <4>1, <5>1, <5>2
      <4>3. CASE n # Reception + 1
        <5>1. One(far'.state = "data", far'.rx_data) = <<>>
          BY <2>5, <4>3 DEF One
        <5>2. One(InTx', tx'.tx_data_latch) = One(InTx, b)
          BY <2>1, <3>5, <4>3 DEF One
        <5>3. One(InTx, b) \in {<<>>, <<b>>}
          BY DEF One
        <5> DEFINE X == One(InTx, b)
        <5>4. X \in {<<>>, <<b>>}
          BY <5>3
        <5> HIDE DEF X
        <5>5. <<>> \o X = X \o <<>>
          BY <5>4, OneAlone
        <5> QED BY <4>1, <5>1, <5>2, <5>5 DEF X
      <4> QED BY <4>2, <4>3
    <3> QED BY <2>1, <2>5, <3>3, <3>6 DEF b
  <2>9. CASE n = FrameClocks - 1
    <3>1. tx'.state = "idle"
      BY <2>1, <2>9
    <3>2. n >= 1 /\ n + 1 = FrameClocks /\ FrameClocks >= 3 /\ FrameClocks \in Nat
      BY <2>9, Times
    <3>3. Following(far', b, FrameClocks)
      BY <2>5, <3>2
    <3>4. Back'
      BY <2>1, <3>1, <3>3 DEF Back
    <3>5. b \in Rx!Byte
      BY <1>1 DEF b
    <3>6. far'.state = "idle" <=> FrameClocks > Reception + 2
      BY <2>5, <3>2, <3>3, <3>5, FollowEnd
    <3>7. InTx' <=> far'.state # "idle" /\ far'.state # "data"
      BY <3>1 DEF InTx
    <3>8. (n = Reception + 1 /\ InTx /\ ~InTx') \/ (n # Reception + 1 /\ (InTx <=> InTx'))
      <4>1. n = Reception + 1 => InTx /\ ~InTx'
        <5>1. n = Reception + 1 => n <= Reception + 1
          BY <2>2, Times
        <5>2. n = Reception + 1 => ~InTx'
          BY <2>5, <3>7
        <5> QED BY <2>6, <5>1, <5>2
      <4>2. n # Reception + 1 => (InTx' <=> ~(FrameClocks > Reception + 2))
        BY <2>5, <3>6, <3>7
      <4>3. n # Reception + 1 => (n <= Reception + 1 <=> ~(FrameClocks > Reception + 2))
        BY <2>9, Times
      <4> QED BY <2>6, <4>1, <4>2, <4>3
    <3>9. One(far'.state = "data", far'.rx_data) \o One(InTx', tx'.tx_data_latch)
            = One(InTx, b) \o One(Taking, tx_data)
      <4>1. One(Taking, tx_data) = <<>>
        BY <2>7 DEF One
      <4>2. CASE n = Reception + 1
        <5>1. One(far'.state = "data", far'.rx_data) = <<b>>
          BY <2>5, <4>2 DEF One
        <5>2. One(InTx', tx'.tx_data_latch) = <<>> /\ One(InTx, b) = <<b>>
          BY <3>8, <4>2 DEF One
        <5> QED BY <4>1, <5>1, <5>2
      <4>3. CASE n # Reception + 1
        <5>1. One(far'.state = "data", far'.rx_data) = <<>>
          BY <2>5, <4>3 DEF One
        <5>2. One(InTx', tx'.tx_data_latch) = One(InTx, b)
          BY <2>1, <3>8, <4>3 DEF One
        <5>3. One(InTx, b) \in {<<>>, <<b>>}
          BY DEF One
        <5> DEFINE X == One(InTx, b)
        <5>4. X \in {<<>>, <<b>>}
          BY <5>3
        <5> HIDE DEF X
        <5>5. <<>> \o X = X \o <<>>
          BY <5>4, OneAlone
        <5> QED BY <4>1, <5>1, <5>2, <5>5 DEF X
      <4> QED BY <4>2, <4>3
    <3> QED BY <2>1, <2>5, <3>4, <3>9 DEF b
  <2> QED BY <2>8, <2>9
<1> QED BY <1>2, <1>3

-----------------------------------------------------------------------------
\* Where the bytes under way stand, after one edge.
LEMMA FrontMoves ==
  ASSUME Types, Front, NEW begun, Line(begun), rx' = Rx!Clock(rx, Pin, TRUE)
  PROVE  /\ One(rx'.state = "data", rx'.rx_data) \o One(OnLine', sender'.byte)
              = One(OnLine, sender.byte) \o begun
         /\ Clocks(rx'.state = "data") + Clocks(OnLine')
              = Clocks(OnLine) + Len(begun) * (FrameClocks + 1)
<1> DEFINE n == sender.at  b == sender.byte  D == One(rx'.state = "data", rx'.rx_data)
           L == One(OnLine, b)  M == One(OnLine', sender'.byte)
<1>1. /\ n \in Nat /\ sender.drift \in -1..1 /\ Half > 1 - sender.drift
  BY DEF Types
<1>2. (rx'.state = "data" <=> n = Reception + 1) /\ (rx'.state = "data" => rx'.rx_data = b)
  BY FrontStep
<1>3. \/ n >= 1 /\ sender'.at = n + 1 /\ sender'.byte = b /\ begun = <<>>
      \/ n \in {0, FrameClocks + sender.drift} /\ sender'.at = 0 /\ begun = <<>>
      \/ n \in {0, FrameClocks + sender.drift} /\ sender'.at = 1 /\ begun = <<sender'.byte>>
  BY SenderCases
<1>4. n \in {0, FrameClocks + sender.drift} => (OnLine <=> n = Reception + 1)
  <2>1. n = 0 => ~OnLine /\ n # Reception + 1
    BY Times DEF OnLine
  <2>2. FrameClocks + sender.drift >= Reception + 1
    BY <1>1, Times
  <2>3. n >= Reception + 1 => (n \in 1..(Reception + 1) <=> n = Reception + 1)
    BY <1>1, Times
  <2> QED BY <2>1, <2>2, <2>3 DEF OnLine
<1>5. OnLine <=> n \in 1..(Reception + 1)
  BY DEF OnLine
<1>6. OnLine' <=> sender'.at \in 1..(Reception + 1)
  BY DEF OnLine
<1>7. FrameClocks + 1 \in Nat
  BY Times
<1> HIDE DEF n, b
<1>8. /\ n = Reception + 1 => D = <<b>> /\ Clocks(rx'.state = "data") = FrameClocks + 1
      /\ n # Reception + 1 => D = <<>> /\ Clocks(rx'.state = "data") = 0
  BY <1>2 DEF One, Clocks
<1>9. /\ OnLine => L = <<b>> /\ Clocks(OnLine) = FrameClocks + 1
      /\ ~OnLine => L = <<>> /\ Clocks(OnLine) = 0
  BY DEF One, Clocks
<1>10. /\ OnLine' => M = <<sender'.byte>> /\ Clocks(OnLine') = FrameClocks + 1
       /\ ~OnLine' => M = <<>> /\ Clocks(OnLine') = 0
  BY DEF One, Clocks
<1> DEFINE cD == Clocks(rx'.state = "data")  cL == Clocks(OnLine)  cM == Clocks(OnLine')
<1>11. 0 + (FrameClocks + 1) = FrameClocks + 1 /\ (FrameClocks + 1) + 0 = FrameClocks + 1
       /\ 0 + 0 = 0 /\ 0 * (FrameClocks + 1) = 0 /\ 1 * (FrameClocks + 1) = FrameClocks + 1
  BY <1>7
<1>12. Len(<<>>) = 0 /\ Len(<<sender'.byte>>) = 1
  OBVIOUS
<1> HIDE DEF D, L, M, cD, cL, cM
<1>13. D \o M = L \o begun /\ cD + cM = cL + Len(begun) * (FrameClocks + 1)
  <2>1. CASE n >= 1 /\ sender'.at = n + 1 /\ sender'.byte = b /\ begun = <<>>
    <3>1. n = Reception + 1 => OnLine /\ ~OnLine'
      BY <1>1, <1>5, <1>6, <2>1, Times
    <3>2. n # Reception + 1 => (OnLine <=> OnLine')
      BY <1>1, <1>5, <1>6, <2>1, Times
    <3>3. CASE n = Reception + 1
      BY <1>8, <1>9, <1>10, <1>11, <1>12, <2>1, <3>1, <3>3 DEF cD, cL, cM
    <3>4. CASE n # Reception + 1 /\ OnLine
      <4>1. D = <<>> /\ L = <<b>> /\ M = <<b>> /\ cD = 0 /\ cL = FrameClocks + 1
            /\ cM = FrameClocks + 1
        BY <1>8, <1>9, <1>10, <2>1, <3>2, <3>4 DEF cD, cL, cM
      <4>2. <<>> \o <<b>> = <<b>> \o <<>>
        <5>1. <<b>> \in {<<>>, <<b>>}
          OBVIOUS
        <5> QED BY <5>1, OneAlone
      <4> QED BY <1>11, <1>12, <2>1, <4>1, <4>2
    <3>5. CASE n # Reception + 1 /\ ~OnLine
      <4>1. D = <<>> /\ L = <<>> /\ M = <<>> /\ cD = 0 /\ cL = 0 /\ cM = 0
        BY <1>8, <1>9, <1>10, <3>2, <3>5 DEF cD, cL, cM
      <4> QED BY <1>11, <1>12, <2>1, <4>1
    <3> QED BY <3>3, <3>4, <3>5
  <2>2. CASE n \in {0, FrameClocks + sender.drift} /\ sender'.at = 0 /\ begun = <<>>
    <3>1. ~OnLine'
      BY <1>6, <2>2, Times
    <3>2. OnLine <=> n = Reception + 1
      BY <1>4, <2>2 DEF n
    <3>3. CASE n = Reception + 1
      BY <1>8, <1>9, <1>10, <1>11, <1>12, <2>2, <3>1, <3>2, <3>3 DEF cD, cL, cM
    <3>4. CASE n # Reception + 1
      BY <1>8, <1>9, <1>10, <1>11, <1>12, <2>2, <3>1, <3>2, <3>4 DEF cD, cL, cM
    <3> QED BY <3>3, <3>4
  <2>3. CASE /\ n \in {0, FrameClocks + sender.drift} /\ sender'.at = 1
             /\ begun = <<sender'.byte>>
    <3>1. OnLine'
      <4>1. 1 \in 1..(Reception + 1)
        BY Times
      <4> QED BY <1>6, <2>3, <4>1
    <3>2. OnLine <=> n = Reception + 1
      BY <1>4, <2>3 DEF n
    <3>3. CASE n = Reception + 1
      BY <1>8, <1>9, <1>10, <1>11, <1>12, <2>3, <3>1, <3>2, <3>3 DEF cD, cL, cM
    <3>4. CASE n # Reception + 1
      BY <1>8, <1>9, <1>10, <1>11, <1>12, <2>3, <3>1, <3>2, <3>4 DEF cD, cL, cM
    <3> QED BY <3>3, <3>4
  <2> QED BY <1>3, <2>1, <2>2, <2>3 DEF n, b
<1> QED BY <1>13 DEF D, L, M, cD, cL, cM, b

LEMMA BufferMoves ==
  ASSUME Types, tx.state = "idle" => tx.tx_data_ready, Buffer, ~Overrun
  PROVE  /\ One(Taking, tx_data) \o One(tx_data_valid', tx_data')
              = One(tx_data_valid, tx_data) \o One(rx.state = "data", rx.rx_data)
         /\ tx_data' \in Rx!Byte /\ tx_data_valid' \in BOOLEAN
<1>1. /\ rx.rx_data_valid <=> rx.state = "data"
      /\ tx.tx_data_ready <=> tx.state = "idle"
      /\ rx.rx_data \in Rx!Byte /\ tx_data \in Rx!Byte /\ tx_data_valid \in BOOLEAN
  BY DEF Types, GoodRx, GoodTx, Rx!Registers
<1>2. CASE rx.state = "data"
  <2>1. tx_data_valid' = TRUE /\ tx_data' = rx.rx_data
    BY <1>1, <1>2 DEF Buffer
  <2>2. Taking <=> tx_data_valid
    BY <1>1, <1>2 DEF Overrun, Taking
  <2>3. One(Taking, tx_data) = One(tx_data_valid, tx_data)
    BY <2>2 DEF One
  <2>4. One(tx_data_valid', tx_data') = One(rx.state = "data", rx.rx_data)
    BY <1>2, <2>1 DEF One
  <2> QED BY <1>1, <2>1, <2>3, <2>4
<1>3. CASE rx.state # "data"
  <2>1. (tx_data_valid' <=> tx_data_valid /\ tx.state # "idle") /\ tx_data' = tx_data
        /\ tx_data_valid' \in BOOLEAN
    BY <1>1, <1>3 DEF Buffer
  <2>2. One(rx.state = "data", rx.rx_data) = <<>>
    BY <1>3 DEF One
  <2>3. <<>> \o <<tx_data>> = <<tx_data>> \o <<>>
    <3>1. <<tx_data>> \in {<<>>, <<tx_data>>}
      OBVIOUS
    <3> QED BY <3>1, OneAlone
  <2>4. CASE tx_data_valid /\ tx.state = "idle"
    <3>1. One(Taking, tx_data) = <<tx_data>> /\ One(tx_data_valid, tx_data) = <<tx_data>>
      BY <2>4 DEF One, Taking
    <3>2. One(tx_data_valid', tx_data') = <<>>
      BY <2>1, <2>4 DEF One
    <3> QED BY <1>1, <2>1, <2>2, <3>1, <3>2
  <2>5. CASE tx_data_valid /\ tx.state # "idle"
    <3>1. One(Taking, tx_data) = <<>> /\ One(tx_data_valid, tx_data) = <<tx_data>>
      BY <2>5 DEF One, Taking
    <3>2. One(tx_data_valid', tx_data') = <<tx_data>>
      BY <2>1, <2>5 DEF One
    <3> QED BY <1>1, <2>1, <2>2, <2>3, <3>1, <3>2
  <2>6. CASE ~tx_data_valid
    <3>1. One(Taking, tx_data) = <<>> /\ One(tx_data_valid, tx_data) = <<>>
      BY <2>6 DEF One, Taking
    <3>2. One(tx_data_valid', tx_data') = <<>>
      BY <2>1, <2>6 DEF One
    <3> QED BY <1>1, <2>1, <2>2, <3>1, <3>2
  <2> QED BY <2>4, <2>5, <2>6
<1> QED BY <1>2, <1>3

\* Concatenation as an operator of its own, so that its laws alone are used.
Cat(s, t) == s \o t

LEMMA CatType ==
  ASSUME NEW S, NEW s \in Seq(S), NEW t \in Seq(S)
  PROVE  Cat(s, t) \in Seq(S)
BY ConcatProperties DEF Cat

LEMMA CatAssociative ==
  ASSUME NEW S, NEW s \in Seq(S), NEW t \in Seq(S), NEW u \in Seq(S)
  PROVE  Cat(Cat(s, t), u) = Cat(s, Cat(t, u))
BY ConcatAssociative DEF Cat

Rest ==
  One(InTx, tx.tx_data_latch)
  \o (One(tx_data_valid, tx_data)
      \o (One(rx.state = "data", rx.rx_data) \o One(OnLine, sender.byte)))

LEMMA PipelineStep ==
  ASSUME Types, tx.state = "idle" => tx.tx_data_ready, Front, Back,
         NEW begun, Line(begun), Edge(begun), ~Overrun
  PROVE  /\ Pipeline = One(far.state = "data", far.rx_data) \o Rest
         /\ Pipeline' = Rest \o begun
         /\ Rest \in Seq(Rx!Byte) /\ begun \in Seq(Rx!Byte)
<1> DEFINE A == One(far.state = "data", far.rx_data)
           B == One(InTx, tx.tx_data_latch)
           C == One(tx_data_valid, tx_data)
           D == One(rx.state = "data", rx.rx_data)
           E == One(OnLine, sender.byte)
           T == One(Taking, tx_data)
           C1 == One(tx_data_valid', tx_data')
<1>1. /\ far.rx_data \in Rx!Byte /\ tx.tx_data_latch \in Rx!Byte /\ tx_data \in Rx!Byte
      /\ rx.rx_data \in Rx!Byte /\ sender.byte \in Rx!Byte
  BY SameByte DEF Types, GoodRx, GoodTx, Rx!Registers, Tx!Registers
<1>2. begun \in Seq(Rx!Byte)
  <2>1. sender' \in [byte : Rx!Byte, drift : -1..1, at : Nat]
    BY SenderCases
  <2>2. begun = <<>> \/ begun = <<sender'.byte>>
    BY SenderCases
  <2>3. sender'.byte \in Rx!Byte
    BY <2>1
  <2>4. <<sender'.byte>> \in Seq(Rx!Byte) /\ <<>> \in Seq(Rx!Byte)
    BY <2>3
  <2> QED BY <2>2, <2>4
<1>3. T \o C1 = C \o D /\ tx_data' \in Rx!Byte
  BY BufferMoves DEF Edge
<1>4. /\ A \in Seq(Rx!Byte) /\ B \in Seq(Rx!Byte) /\ C \in Seq(Rx!Byte) /\ D \in Seq(Rx!Byte)
      /\ E \in Seq(Rx!Byte) /\ T \in Seq(Rx!Byte) /\ C1 \in Seq(Rx!Byte)
  BY <1>1, <1>3 DEF One
<1>5. One(far'.state = "data", far'.rx_data) \o One(InTx', tx'.tx_data_latch) = B \o T
  BY BackStep DEF Edge
<1>6. One(rx'.state = "data", rx'.rx_data) \o One(OnLine', sender'.byte) = E \o begun
  BY FrontMoves DEF Edge
<1>7. Pipeline = (A \o B) \o (C \o (D \o E)) /\ Rest = B \o (C \o (D \o E))
  BY DEF Pipeline, Rest
<1>8. Pipeline' = (B \o T) \o (C1 \o (E \o begun))
  BY <1>5, <1>6 DEF Pipeline
<1> HIDE DEF A, B, C, D, E, T, C1
<1>9. /\ (A \o B) \o (C \o (D \o E)) = A \o (B \o (C \o (D \o E)))
      /\ (B \o T) \o (C1 \o (E \o begun)) = (B \o (C \o (D \o E))) \o begun
      /\ B \o (C \o (D \o E)) \in Seq(Rx!Byte)
  <2>1. Cat(T, C1) = Cat(C, D)
    BY <1>3 DEF Cat
  <2>2. Cat(D, E) \in Seq(Rx!Byte) /\ Cat(E, begun) \in Seq(Rx!Byte)
    BY <1>2, <1>4, CatType
  <2>3. Cat(C, Cat(D, E)) \in Seq(Rx!Byte) /\ Cat(C1, Cat(E, begun)) \in Seq(Rx!Byte)
    BY <1>2, <1>4, <2>2, CatType
  <2>4. Cat(Cat(A, B), Cat(C, Cat(D, E))) = Cat(A, Cat(B, Cat(C, Cat(D, E))))
    BY <1>2, <1>4, <2>3, CatAssociative
  <2>5. Cat(Cat(B, T), Cat(C1, Cat(E, begun))) = Cat(B, Cat(T, Cat(C1, Cat(E, begun))))
    BY <1>2, <1>4, <2>3, CatAssociative
  <2>6. Cat(T, Cat(C1, Cat(E, begun))) = Cat(Cat(C, D), Cat(E, begun))
    BY <1>2, <1>4, <2>1, <2>2, CatAssociative
  <2>7. Cat(Cat(C, D), Cat(E, begun)) = Cat(C, Cat(D, Cat(E, begun)))
    BY <1>2, <1>4, <2>2, CatAssociative
  <2>8. Cat(D, Cat(E, begun)) = Cat(Cat(D, E), begun)
    BY <1>2, <1>4, CatAssociative
  <2>9. Cat(C, Cat(Cat(D, E), begun)) = Cat(Cat(C, Cat(D, E)), begun)
    BY <1>2, <1>4, <2>2, CatAssociative
  <2>10. Cat(B, Cat(Cat(C, Cat(D, E)), begun)) = Cat(Cat(B, Cat(C, Cat(D, E))), begun)
    BY <1>2, <1>4, <2>3, CatAssociative
  <2>11. Cat(B, Cat(C, Cat(D, E))) \in Seq(Rx!Byte)
    BY <1>2, <1>4, <2>3, CatType
  <2>12. Cat(Cat(B, T), Cat(C1, Cat(E, begun))) = Cat(Cat(B, Cat(C, Cat(D, E))), begun)
    BY <2>5, <2>6, <2>7, <2>8, <2>9, <2>10
  <2> QED BY <2>4, <2>11, <2>12 DEF Cat
<1> QED BY <1>2, <1>7, <1>8, <1>9 DEF A

-----------------------------------------------------------------------------
\* One edge of the transmitter, in clocks.
LEMMA TxStep ==
  ASSUME Types, tx' = Tx!Clock(tx, tx_data_valid, tx_data)
  PROVE  /\ tx.state # "idle" => Sent(tx) \in Nat /\ Sent(tx) < FrameClocks
         /\ tx.state # "idle" /\ tx'.state # "idle" => Sent(tx') = Sent(tx) + 1
         /\ tx.state # "idle" /\ tx'.state = "idle" => Sent(tx) = FrameClocks - 1
         /\ tx.state = "idle" => (tx'.state # "idle" <=> tx_data_valid) /\ Sent(tx') = 0
         /\ tx'.state = "idle" => (tx'.tx_data_ready)
<1>1. GoodTx(tx) /\ tx_data \in Tx!Byte /\ tx_data_valid \in BOOLEAN
  BY SameByte DEF Types
<1>2. CASE tx.state = "idle"
  <2>1. Sent(tx') = 0
    BY <1>1, <1>2, TxIdle
  <2>2. tx_data_valid => tx'.state = "start"
    BY <1>1, <1>2, TxIdle
  <2>3. ~tx_data_valid => tx'.state = "idle" /\ tx'.tx_data_ready
    BY <1>1, <1>2, TxIdle
  <2> QED BY <1>2, <2>1, <2>2, <2>3
<1>3. CASE tx.state # "idle"
  <2>1. Sent(tx) \in 0..(FrameClocks - 1)
    BY <1>1, <1>3, TxBusy
  <2>2. Sent(tx) = FrameClocks - 1 => tx'.state = "idle" /\ tx'.tx_data_ready
    BY <1>1, <1>3, TxBusy
  <2>3. Sent(tx) # FrameClocks - 1 => tx'.state # "idle" /\ Sent(tx') = Sent(tx) + 1
    BY <1>1, <1>3, TxBusy
  <2>4. Sent(tx) \in Nat /\ Sent(tx) < FrameClocks
    BY <2>1, Times
  <2> QED BY <1>3, <2>2, <2>3, <2>4
<1> QED BY <1>2, <1>3

LEMMA WorkIs ==
  ASSUME Types
  PROVE  /\ TxWork \in Nat
         /\ TxWork = 0 <=> tx.state = "idle" /\ ~tx_data_valid
         /\ tx.state = "idle" /\ tx_data_valid => TxWork = FrameClocks + 1
         /\ tx.state # "idle" /\ ~tx_data_valid => TxWork = FrameClocks - Sent(tx)
         /\ tx.state # "idle" /\ tx_data_valid =>
              TxWork = FrameClocks - Sent(tx) + FrameClocks + 1
         /\ TxWork <= 2 * FrameClocks + 1
<1> DEFINE F == FrameClocks  n == Sent(tx)  w == TxWork
<1>1. F \in Nat
  BY Times
<1>2. tx.state # "idle" => n \in Nat /\ n < F
  <2>1. GoodTx(tx) /\ tx_data \in Tx!Byte /\ tx_data_valid \in BOOLEAN
    BY SameByte DEF Types
  <2>2. tx.state # "idle" => n \in 0..(F - 1)
    BY <2>1, TxBusy
  <2> HIDE DEF F, n
  <2> QED BY <1>1, <2>2
<1>3. /\ tx.state = "idle" /\ ~tx_data_valid => w = 0 + 0
      /\ tx.state = "idle" /\ tx_data_valid => w = 0 + (F + 1)
      /\ tx.state # "idle" /\ ~tx_data_valid => w = (F - n) + 0
      /\ tx.state # "idle" /\ tx_data_valid => w = (F - n) + (F + 1)
  BY DEF TxWork, Clocks
<1> HIDE DEF F, n, w
<1>4. CASE tx.state = "idle" /\ ~tx_data_valid
  <2>1. w = 0
    BY <1>3, <1>4
  <2>2. w \in Nat /\ w <= 2 * F + 1
    BY <1>1, <2>1
  <2> QED BY <1>4, <2>1, <2>2 DEF w, F, n
<1>5. CASE tx.state = "idle" /\ tx_data_valid
  <2>1. w = F + 1
    BY <1>1, <1>3, <1>5
  <2>2. w \in Nat /\ w # 0 /\ w <= 2 * F + 1
    BY <1>1, <2>1
  <2> QED BY <1>5, <2>1, <2>2 DEF w, F, n
<1>6. CASE tx.state # "idle" /\ ~tx_data_valid
  <2>1. w = F - n
    BY <1>1, <1>2, <1>3, <1>6
  <2>2. w \in Nat /\ w # 0 /\ w <= 2 * F + 1
    BY <1>1, <1>2, <1>6, <2>1
  <2> QED BY <1>6, <2>1, <2>2 DEF w, F, n
<1>7. CASE tx.state # "idle" /\ tx_data_valid
  <2>1. w = F - n + F + 1
    BY <1>1, <1>2, <1>3, <1>7
  <2>2. w \in Nat /\ w # 0 /\ w <= 2 * F + 1
    BY <1>1, <1>2, <1>7, <2>1
  <2> QED BY <1>7, <2>1, <2>2 DEF w, F, n
<1> QED BY <1>4, <1>5, <1>6, <1>7

\* The work of the transmitter shrinks by one, or grows by the byte that comes.
LEMMA WorkStep ==
  ASSUME Types, Types', tx' = Tx!Clock(tx, tx_data_valid, tx_data), Buffer,
         tx.state = "idle" /\ tx_data_valid => tx.tx_data_ready
  PROVE  /\ rx.state # "data" /\ TxWork = 0 => TxWork' = 0
         /\ rx.state # "data" /\ TxWork > 0 => TxWork' = TxWork - 1
         /\ rx.state = "data" /\ TxWork = 0 => TxWork' = FrameClocks + 1
         /\ rx.state = "data" /\ TxWork > 0 /\ ~Overrun => TxWork' = TxWork + FrameClocks
<1> DEFINE F == FrameClocks  n == Sent(tx)  w == TxWork  m == Sent(tx')
<1>1. F \in Nat
  BY Times
<1>2. /\ rx.rx_data_valid <=> rx.state = "data"
      /\ tx.tx_data_ready => tx.state = "idle"
      /\ tx_data_valid \in BOOLEAN
  BY DEF Types, GoodRx, GoodTx
<1>3. /\ rx.state = "data" => tx_data_valid' = TRUE
      /\ rx.state # "data" => (tx_data_valid' <=> tx_data_valid /\ tx.state # "idle")
  BY <1>2 DEF Buffer
<1>4. /\ tx.state # "idle" => n \in Nat /\ n < F
      /\ tx.state # "idle" /\ tx'.state # "idle" => m = n + 1
      /\ tx.state # "idle" /\ tx'.state = "idle" => n = F - 1
      /\ tx.state = "idle" => (tx'.state # "idle" <=> tx_data_valid) /\ m = 0
  BY TxStep
<1>5. /\ w = 0 <=> tx.state = "idle" /\ ~tx_data_valid
      /\ tx.state = "idle" /\ tx_data_valid => w = F + 1
      /\ tx.state # "idle" /\ ~tx_data_valid => w = F - n
      /\ tx.state # "idle" /\ tx_data_valid => w = F - n + F + 1
  BY WorkIs
<1> DEFINE v == TxWork'
<1>6. /\ v = 0 <=> tx'.state = "idle" /\ ~tx_data_valid'
      /\ tx'.state = "idle" /\ tx_data_valid' => v = F + 1
      /\ tx'.state # "idle" /\ ~tx_data_valid' => v = F - m
      /\ tx'.state # "idle" /\ tx_data_valid' => v = F - m + F + 1
  <2>1. TxWork' = (IF tx'.state = "idle" THEN 0 ELSE F - m) + Clocks(tx_data_valid')
    BY DEF TxWork
  <2>2. GoodTx(tx') /\ tx_data' \in Tx!Byte /\ tx_data_valid' \in BOOLEAN
    BY SameByte DEF Types
  <2>3. tx'.state # "idle" => m \in 0..(F - 1)
    BY <2>2, TxBusy
  <2>4. /\ tx'.state = "idle" /\ ~tx_data_valid' => v = 0 + 0
        /\ tx'.state = "idle" /\ tx_data_valid' => v = 0 + (F + 1)
        /\ tx'.state # "idle" /\ ~tx_data_valid' => v = (F - m) + 0
        /\ tx'.state # "idle" /\ tx_data_valid' => v = (F - m) + (F + 1)
    BY <2>1 DEF Clocks
  <2> HIDE DEF F, m, v
  <2>5. tx'.state # "idle" => m \in Nat /\ m < F
    BY <1>1, <2>3
  <2>6. tx'.state = "idle" /\ ~tx_data_valid' => v = 0
    BY <2>4
  <2>7. tx'.state = "idle" /\ tx_data_valid' => v = F + 1 /\ v # 0
    BY <1>1, <2>4
  <2>8. tx'.state # "idle" /\ ~tx_data_valid' => v = F - m /\ v # 0
    BY <1>1, <2>4, <2>5
  <2>9. tx'.state # "idle" /\ tx_data_valid' => v = F - m + F + 1 /\ v # 0
    BY <1>1, <2>4, <2>5
  <2> QED BY <2>2, <2>6, <2>7, <2>8, <2>9
<1>7. w \in Nat
  BY WorkIs
<1> HIDE DEF F, n, m, w, v
<1>8. rx.state # "data" /\ w = 0 => v = 0
  BY <1>3, <1>4, <1>5, <1>6
<1>9. rx.state # "data" /\ w > 0 => v = w - 1
  <2> SUFFICES ASSUME rx.state # "data", w > 0 PROVE v = w - 1
    OBVIOUS
  <2>1. tx.state # "idle" \/ tx_data_valid
    BY <1>5
  <2>2. CASE tx.state = "idle"
    <3>1. w = F + 1 /\ m = 0 /\ v = F - m
      BY <1>3, <1>4, <1>5, <1>6, <2>1, <2>2
    <3> QED BY <1>1, <3>1
  <2>3. CASE tx.state # "idle" /\ tx_data_valid
    <3>1. w = F - n + F + 1 /\ n \in Nat
      BY <1>4, <1>5, <2>3
    <3>2. CASE tx'.state = "idle"
      <4>1. v = F + 1 /\ n = F - 1
        BY <1>3, <1>4, <1>6, <2>3, <3>2
      <4> QED BY <1>1, <3>1, <4>1
    <3>3. CASE tx'.state # "idle"
      <4>1. v = F - m + F + 1 /\ m = n + 1
        BY <1>3, <1>4, <1>6, <2>3, <3>3
      <4> QED BY <1>1, <3>1, <4>1
    <3> QED BY <3>2, <3>3
  <2>4. CASE tx.state # "idle" /\ ~tx_data_valid
    <3>1. w = F - n /\ n \in Nat
      BY <1>4, <1>5, <2>4
    <3>2. CASE tx'.state = "idle"
      <4>1. v = 0 /\ n = F - 1
        BY <1>3, <1>4, <1>6, <2>4, <3>2
      <4> QED BY <1>1, <3>1, <4>1
    <3>3. CASE tx'.state # "idle"
      <4>1. v = F - m /\ m = n + 1
        BY <1>3, <1>4, <1>6, <2>4, <3>3
      <4> QED BY <1>1, <3>1, <4>1
    <3> QED BY <3>2, <3>3
  <2> QED BY <2>2, <2>3, <2>4
<1>10. rx.state = "data" /\ w = 0 => v = F + 1
  BY <1>3, <1>4, <1>5, <1>6
<1>11. rx.state = "data" /\ w > 0 /\ ~Overrun => v = w + F
  <2> SUFFICES ASSUME rx.state = "data", w > 0, ~Overrun PROVE v = w + F
    OBVIOUS
  <2>1. tx.state # "idle" \/ tx_data_valid
    BY <1>5
  <2>2. CASE tx.state = "idle"
    <3>1. w = F + 1 /\ m = 0 /\ v = F - m + F + 1
      BY <1>3, <1>4, <1>5, <1>6, <2>1, <2>2
    <3> QED BY <1>1, <3>1
  <2>3. CASE tx.state # "idle"
    <3>1. ~tx_data_valid
      BY <1>2, <2>3 DEF Overrun
    <3>2. w = F - n /\ n \in Nat
      BY <1>4, <1>5, <2>3, <3>1
    <3>3. CASE tx'.state = "idle"
      <4>1. v = F + 1 /\ n = F - 1
        BY <1>3, <1>4, <1>6, <2>3, <3>3
      <4> QED BY <1>1, <3>2, <4>1
    <3>4. CASE tx'.state # "idle"
      <4>1. v = F - m + F + 1 /\ m = n + 1
        BY <1>3, <1>4, <1>6, <2>3, <3>4
      <4> QED BY <1>1, <3>2, <4>1
    <3> QED BY <3>3, <3>4
  <2> QED BY <2>2, <2>3
<1> QED BY <1>8, <1>9, <1>10, <1>11 DEF w, v, F

\* The debt of the transmitter, after one edge.
LEMMA OwingStep ==
  ASSUME Types, Types', tx.state = "idle" => tx.tx_data_ready, Front, Owing,
         NEW begun, Line(begun), Edge(begun), ~Overrun,
         owed' = (IF owed > 0 THEN owed - 1 ELSE 0) + Len(begun) * (FrameClocks + 1)
  PROVE  Owing'
<1> DEFINE F == FrameClocks  R == Reception  n == sender.at
           g == Len(begun) * (F + 1)
           cD == Clocks(rx.state = "data")  cL == Clocks(OnLine)
           dD == Clocks(rx'.state = "data")  dL == Clocks(OnLine')
           w == TxWork  v == TxWork'  o == owed  p == owed'
<1>1. /\ F \in Nat /\ R \in Nat /\ Half \in Nat /\ Half >= 2 /\ F = R + Half - 1
      /\ n \in Nat /\ o \in Nat /\ sender.drift \in -1..1
  BY Times DEF Types
<1>2. g = 0 \/ g = F + 1
  <2>1. begun = <<>> \/ begun = <<sender'.byte>>
    BY SenderCases
  <2>2. Len(begun) = 0 \/ Len(begun) = 1
    BY <2>1
  <2>3. 0 * (F + 1) = 0 /\ 1 * (F + 1) = F + 1
    BY <1>1
  <2> QED BY <2>2, <2>3
<1>3. dD + dL = cL + g
  BY FrontMoves DEF Edge
<1>4. /\ rx'.state = "data" <=> n = R + 1
      /\ rx.state = "data" => n \in 0..1 \/ n = R + 2
  <2>1. rx' = Rx!Clock(rx, Pin, TRUE)
    BY DEF Edge
  <2>2. rx'.state = "data" <=> n = R + 1
    BY <2>1, FrontStep
  <2>3. rx.state = "data" => n \in 0..1 \/ n = R + 2
    BY <2>1, FrontStep
  <2> QED BY <2>2, <2>3
<1>5. \/ n >= 1 /\ sender'.at = n + 1 /\ g = 0
      \/ sender'.at = 0 /\ g = 0
      \/ sender'.at = 1 /\ g = F + 1
  <2>1. Len(<<>>) = 0 /\ Len(<<sender'.byte>>) = 1
    OBVIOUS
  <2>2. 0 * (F + 1) = 0 /\ 1 * (F + 1) = F + 1
    BY <1>1
  <2>3. \/ n >= 1 /\ sender'.at = n + 1 /\ begun = <<>>
        \/ sender'.at = 0 /\ begun = <<>>
        \/ sender'.at = 1 /\ begun = <<sender'.byte>>
    BY SenderCases
  <2> QED BY <2>1, <2>2, <2>3
<1>6. /\ rx.state = "data" => cD = F + 1
      /\ rx.state # "data" => cD = 0
      /\ OnLine => cL = F + 1
      /\ ~OnLine => cL = 0
      /\ rx'.state = "data" => dD = F + 1
      /\ rx'.state # "data" => dD = 0
      /\ OnLine' => dL = F + 1
      /\ ~OnLine' => dL = 0
  BY DEF Clocks
<1>7. /\ OnLine <=> n \in 1..(R + 1)
      /\ OnLine' <=> sender'.at \in 1..(R + 1)
  BY DEF OnLine
<1>8. /\ OnLine /\ rx.state # "data" => o >= F + 2 - n
      /\ rx.state = "data" => o >= F - R + cL
      /\ tx.state # "idle" \/ tx_data_valid => o >= w + cD + cL - (R + 2)
  BY DEF Owing
<1>9. /\ w \in Nat
      /\ w = 0 <=> tx.state = "idle" /\ ~tx_data_valid
      /\ v = 0 <=> tx'.state = "idle" /\ ~tx_data_valid'
  <2>1. v = 0 <=> tx'.state = "idle" /\ ~tx_data_valid'
    <3>1. TxWork' = (IF tx'.state = "idle" THEN 0 ELSE F - Sent(tx')) + Clocks(tx_data_valid')
      BY DEF TxWork
    <3>2. GoodTx(tx') /\ tx_data' \in Tx!Byte /\ tx_data_valid' \in BOOLEAN
      BY SameByte DEF Types
    <3> DEFINE m == Sent(tx')
    <3>3. tx'.state # "idle" => m \in 0..(F - 1)
      BY <3>2, TxBusy
    <3>4. /\ tx'.state = "idle" /\ ~tx_data_valid' => v = 0 + 0
          /\ tx'.state = "idle" /\ tx_data_valid' => v = 0 + (F + 1)
          /\ tx'.state # "idle" /\ ~tx_data_valid' => v = (F - m) + 0
          /\ tx'.state # "idle" /\ tx_data_valid' => v = (F - m) + (F + 1)
      BY <3>1 DEF Clocks
    <3> HIDE DEF F, m, v
    <3>5. tx'.state # "idle" => m \in Nat /\ m < F
      BY <1>1, <3>3
    <3>6. tx'.state = "idle" /\ tx_data_valid' => v # 0
      BY <1>1, <3>4
    <3>7. tx'.state # "idle" => v # 0
      BY <1>1, <3>2, <3>4, <3>5
    <3> QED BY <3>2, <3>4, <3>6, <3>7
  <2> QED BY <2>1, WorkIs
<1>10. /\ rx.state # "data" /\ w = 0 => v = 0
       /\ rx.state # "data" /\ w > 0 => v = w - 1
       /\ rx.state = "data" /\ w = 0 => v = F + 1
       /\ rx.state = "data" /\ w > 0 => v = w + F
  BY WorkStep DEF Edge
<1>11. p = (IF o > 0 THEN o - 1 ELSE 0) + g
  OBVIOUS
<1> HIDE DEF F, R, n, g, cD, cL, dD, dL, w, v, o, p
<1>12. cD \in Nat /\ cL \in Nat /\ dD \in Nat /\ dL \in Nat /\ g \in Nat /\ p \in Nat /\ p >= o - 1 + g
  <2>1. F + 1 \in Nat /\ 0 \in Nat
    BY <1>1
  <2>2. cD \in Nat
    BY <1>6, <2>1
  <2>3. cL \in Nat
    BY <1>6, <2>1
  <2>4. dD \in Nat
    BY <1>6, <2>1
  <2>5. dL \in Nat
    BY <1>6, <2>1
  <2>6. g \in Nat
    BY <1>2, <2>1
  <2>7. CASE o > 0
    <3>1. p = o - 1 + g
      BY <1>11, <2>7
    <3> QED BY <1>1, <2>2, <2>3, <2>4, <2>5, <2>6, <2>7, <3>1
  <2>8. CASE ~(o > 0)
    <3>1. p = 0 + g /\ o = 0
      BY <1>1, <1>11, <2>8
    <3> QED BY <2>2, <2>3, <2>4, <2>5, <2>6, <3>1
  <2> QED BY <2>7, <2>8
<1>13. OnLine' /\ rx'.state # "data" => p >= F + 2 - sender'.at
  <2> SUFFICES ASSUME OnLine', rx'.state # "data" PROVE p >= F + 2 - sender'.at
    OBVIOUS
  <2>1. CASE n >= 1 /\ sender'.at = n + 1 /\ g = 0
    <3>1. n + 1 <= R + 1
      BY <1>1, <1>7, <2>1
    <3>2. OnLine
      BY <1>1, <1>7, <2>1, <3>1
    <3>3. CASE rx.state = "data"
      <4>1. o >= F - R + (F + 1)
        BY <1>6, <1>8, <3>2, <3>3
      <4>2. p >= F - R + F
        BY <1>1, <1>12, <2>1, <4>1
      <4>3. F + 2 - (n + 1) <= F
        BY <1>1, <2>1
      <4>4. F - R + F >= F
        BY <1>1
      <4> QED BY <1>1, <1>12, <2>1, <4>2, <4>3, <4>4
    <3>4. CASE rx.state # "data"
      <4>1. o >= F + 2 - n
        BY <1>8, <3>2, <3>4
      <4>2. p >= F + 2 - (n + 1)
        BY <1>1, <1>12, <2>1, <4>1
      <4> QED BY <2>1, <4>2
    <3> QED BY <3>3, <3>4
  <2>2. CASE sender'.at = 0 /\ g = 0
    BY <1>1, <1>7, <2>2
  <2>3. CASE sender'.at = 1 /\ g = F + 1
    <3>1. p >= F + 1
      BY <1>1, <1>11, <2>3
    <3>2. F + 2 - 1 = F + 1
      BY <1>1
    <3> QED BY <2>3, <3>1, <3>2
  <2> QED BY <1>5, <2>1, <2>2, <2>3
<1>14. rx'.state = "data" => p >= F - R + dL
  <2> SUFFICES ASSUME rx'.state = "data" PROVE p >= F - R + dL
    OBVIOUS
  <2>1. n = R + 1 /\ rx.state # "data"
    <3>1. n = R + 1
      BY <1>4
    <3>2. ~(n \in 0..1) /\ n # R + 2
      <4>1. R >= 11
        BY Times DEF R
      <4> QED BY <1>1, <3>1, <4>1
    <3> QED BY <1>4, <3>1, <3>2
  <2>2. OnLine
    BY <1>1, <1>7, <2>1
  <2>3. o >= F + 2 - (R + 1)
    BY <1>8, <2>1, <2>2
  <2>4. dL = g
    BY <1>3, <1>6, <1>12, <2>2
  <2>5. p >= F + 2 - (R + 1) - 1 + g
    BY <1>1, <1>12, <2>3
  <2> QED BY <1>1, <1>12, <2>4, <2>5
<1>15. v # 0 => p >= v + dD + dL - (R + 2)
  <2> SUFFICES ASSUME v # 0 PROVE p >= v + dD + dL - (R + 2)
    OBVIOUS
  <2>1. CASE w > 0
    <3>1. o >= w + cD + cL - (R + 2)
      <4>1. w # 0
        BY <1>9, <2>1
      <4> QED BY <1>8, <1>9, <4>1
    <3>2. v = w + cD - 1
      <4>1. CASE rx.state = "data"
        <5>1. v = w + F /\ cD = F + 1
          BY <1>6, <1>10, <2>1, <4>1
        <5> QED BY <1>1, <1>9, <5>1
      <4>2. CASE rx.state # "data"
        <5>1. v = w - 1 /\ cD = 0
          BY <1>6, <1>10, <2>1, <4>2
        <5> QED BY <1>9, <5>1
      <4> QED BY <4>1, <4>2
    <3> QED BY <1>1, <1>3, <1>9, <1>12, <3>1, <3>2
  <2>2. CASE w = 0
    <3>1. rx.state = "data"
      BY <1>10, <2>2
    <3>2. v = F + 1
      BY <1>10, <2>2, <3>1
    <3>3. o >= F - R + cL
      BY <1>8, <3>1
    <3> QED BY <1>1, <1>3, <1>12, <3>2, <3>3
  <2>3. w > 0 \/ w = 0
    BY <1>9
  <2> QED BY <2>1, <2>2, <2>3
<1>16. tx'.state # "idle" \/ tx_data_valid' => p >= v + dD + dL - (R + 2)
  BY <1>9, <1>15
<1> QED BY <1>13, <1>14, <1>16 DEF Owing, F, R, p, v, dD, dL

LEMMA FreshStep ==
  ASSUME Types, tx.state = "idle" => tx.tx_data_ready, Front, Fresh,
         NEW begun, Line(begun), Edge(begun), ~Overrun
  PROVE  Fresh'
<1> DEFINE F == FrameClocks  R == Reception  n == sender.at  d == sender.drift  k == sender'.at
           s == Sent(tx)  z == Sent(tx')
<1>1. /\ F \in Nat /\ R \in Nat /\ R >= 11 /\ Half \in Nat /\ Half >= 2 /\ F = R + Half - 1
      /\ n \in Nat /\ d \in -1..1 /\ Half > 1 - d
  BY Times DEF Types
<1>2. /\ rx'.state = "data" <=> n = R + 1
      /\ rx.state = "data" => n \in 0..1 \/ n = R + 2
      /\ n = R + 2 => rx.state = "data"
      /\ rx.state = "data" /\ n \in 0..1 => F <= R + 2
  <2>1. rx' = Rx!Clock(rx, Pin, TRUE)
    BY DEF Edge
  <2> QED BY <2>1, FrontStep
<1>3. \/ n >= 1 /\ k = n + 1
      \/ n \in {0, F + d} /\ k = 0
      \/ n \in {0, F + d} /\ k = 1
  BY SenderCases
<1>4. /\ tx.state # "idle" => s \in Nat /\ s < F
      /\ tx.state # "idle" /\ tx'.state # "idle" => z = s + 1
      /\ tx.state = "idle" => (tx'.state # "idle" <=> tx_data_valid) /\ z = 0
  <2>1. tx' = Tx!Clock(tx, tx_data_valid, tx_data)
    BY DEF Edge
  <2> QED BY <2>1, TxStep
<1>5. /\ rx.rx_data_valid <=> rx.state = "data"
      /\ tx.tx_data_ready <=> tx.state = "idle"
      /\ tx_data_valid \in BOOLEAN
  BY DEF Types, GoodRx, GoodTx
<1>6. rx.state # "data" => (tx_data_valid' <=> tx_data_valid /\ tx.state # "idle")
  BY <1>5 DEF Edge, Buffer
<1>7. /\ OnLine <=> n \in 1..(R + 1)
      /\ OnLine' <=> k \in 1..(R + 1)
  BY DEF OnLine
<1>8. tx_data_valid /\ tx.state # "idle" =>
        /\ rx.state = "data" => s >= F - 2
        /\ OnLine /\ rx.state # "data" => n <= s + R + 4 - F
        /\ n > R + 2 => n <= s + R + 3
        /\ n = 0 /\ rx.state # "data" => s >= F - R - 3
  BY DEF Fresh
<1> HIDE DEF F, R, n, d, k, s, z
<1> SUFFICES ASSUME tx_data_valid', tx'.state # "idle"
             PROVE  /\ rx'.state = "data" => z >= F - 2
                    /\ OnLine' /\ rx'.state # "data" => k <= z + R + 4 - F
                    /\ k > R + 2 => k <= z + R + 3
                    /\ k = 0 /\ rx'.state # "data" => z >= F - R - 3
  BY DEF Fresh, F, R, n, k, z
<1>9. CASE rx.state = "data"
  <2>1. z \in Nat
    BY <1>4
  <2>2. rx'.state # "data"
    <3>1. n # R + 1
      BY <1>1, <1>2, <1>9
    <3> QED BY <1>2, <3>1
  <2>3. CASE n \in 0..1
    <3>1. F <= R + 2
      BY <1>2, <1>9, <2>3
    <3>2. k <= 2
      BY <1>1, <1>3, <2>3
    <3>3. k <= z + R + 4 - F /\ ~(k > R + 2) /\ z >= F - R - 3
      BY <1>1, <1>3, <2>1, <3>1, <3>2
    <3> QED BY <2>2, <3>3
  <2>4. CASE n = R + 2
    <3>1. CASE n >= 1 /\ k = n + 1
      <4>1. ~(k \in 1..(R + 1)) /\ k <= z + R + 3 /\ k # 0
        BY <1>1, <2>1, <2>4, <3>1
      <4> QED BY <1>7, <2>2, <4>1
    <3>2. CASE n \in {0, F + d} /\ k \in 0..1
      <4>1. F <= R + 3
        BY <1>1, <2>4, <3>2
      <4>2. k <= z + R + 4 - F /\ ~(k > R + 2) /\ z >= F - R - 3
        BY <1>1, <2>1, <3>2, <4>1
      <4> QED BY <2>2, <4>2
    <3> QED BY <1>3, <3>1, <3>2
  <2> QED BY <1>2, <1>9, <2>3, <2>4
<1>10. CASE rx.state # "data"
  <2>1. tx_data_valid /\ tx.state # "idle"
    BY <1>6, <1>10
  <2>2. z = s + 1 /\ s \in Nat
    BY <1>4, <2>1
  <2>3. /\ OnLine => n <= s + R + 4 - F
        /\ n > R + 2 => n <= s + R + 3
        /\ n = 0 => s >= F - R - 3
        /\ n # R + 2
    BY <1>2, <1>8, <1>10, <2>1
  <2>4. n = R + 1 => z >= F - 2
    <3>1. n = R + 1 => OnLine
      BY <1>1, <1>7
    <3> QED BY <1>1, <2>2, <2>3, <3>1
  <2>5. CASE n >= 1 /\ k = n + 1
    <3>1. n # R + 1 /\ k \in 1..(R + 1) => k <= z + R + 4 - F
      <4>1. n # R + 1 /\ k \in 1..(R + 1) => OnLine
        BY <1>1, <1>7, <2>5
      <4> QED BY <1>1, <2>2, <2>3, <2>5, <4>1
    <3>2. k > R + 2 => k <= z + R + 3
      BY <1>1, <2>2, <2>3, <2>5
    <3>3. k # 0
      BY <1>1, <2>5
    <3> QED BY <1>2, <1>7, <2>4, <3>1, <3>2, <3>3
  <2>6. CASE n \in {0, F + d} /\ k \in 0..1
    <3>1. n # R + 1 => k <= z + R + 4 - F /\ z >= F - R - 3
      <4>1. CASE n = 0
        BY <1>1, <2>2, <2>3, <2>6, <4>1
      <4>2. CASE n = F + d
        <5>1. n # R + 1 => n > R + 2
          BY <1>1, <2>3, <4>2
        <5>2. n # R + 1 => F + d <= s + R + 3
          BY <2>3, <4>2, <5>1
        <5> QED BY <1>1, <2>2, <2>6, <5>2
      <4> QED BY <2>6, <4>1, <4>2
    <3>2. ~(k > R + 2)
      BY <1>1, <2>6
    <3> QED BY <1>2, <2>4, <3>1, <3>2
  <2> QED BY <1>3, <2>5, <2>6
<1> QED BY <1>9, <1>10

-----------------------------------------------------------------------------
\* A receiver stays good, whatever it does.
LEMMA RxGood ==
  ASSUME NEW r, GoodRx(r), NEW pin \in 0..1
  PROVE  GoodRx(Rx!Clock(r, pin, TRUE))
<1>1. CASE r.state = "idle"
  BY <1>1, RxIdle
<1>2. CASE r.state # "idle"
  BY <1>2, RxBusy
<1> QED BY <1>1, <1>2

LEMMA TxGood ==
  ASSUME NEW t, GoodTx(t), NEW valid \in BOOLEAN, NEW data \in Tx!Byte
  PROVE  GoodTx(Tx!Clock(t, valid, data))
<1>1. CASE t.state = "idle"
  BY <1>1, TxIdle
<1>2. CASE t.state # "idle"
  BY <1>2, TxBusy
<1> QED BY <1>1, <1>2

LEMMA EdgeTypes ==
  ASSUME Types, NEW begun, Line(begun), Edge(begun)
  PROVE  Types'
<1>1. Pin \in 0..1 /\ tx.tx_reg \in 0..1
  BY PinShows DEF Types, GoodTx, Tx!Registers, Tx!Level
<1>2. GoodRx(rx')
  BY <1>1, RxGood DEF Types, Edge
<1>3. GoodRx(far')
  BY <1>1, RxGood DEF Types, Edge
<1>4. GoodTx(tx')
  BY TxGood, SameByte DEF Types, Edge
<1>5. tx_data' \in Rx!Byte /\ tx_data_valid' \in BOOLEAN
  <2>1. CASE rx.rx_data_valid
    BY <2>1 DEF Types, GoodRx, Rx!Registers, Edge, Buffer
  <2>2. CASE ~rx.rx_data_valid
    BY <2>2 DEF Types, Edge, Buffer
  <2> QED BY <2>1, <2>2
<1>6. /\ sender' \in [byte : Rx!Byte, drift : -1..1, at : Nat]
      /\ sender'.at <= FrameClocks + sender'.drift /\ Half > 1 - sender'.drift
  BY SenderCases
<1>7. silence' \in 0..Settle
  <2>1. silence \in 0..Settle /\ Settle \in Nat
    BY Times DEF Types
  <2>2. \/ silence' = 0
        \/ silence < Settle /\ silence' = silence + 1
        \/ silence' = Settle
    BY DEF Edge
  <2> QED BY <2>1, <2>2
<1>8. muddled' \in BOOLEAN
  BY DEF Edge
<1>9. begun = <<>> \/ begun = <<sender'.byte>>
  BY SenderCases
<1>10. begun \in Seq(Rx!Byte) /\ Len(begun) \in Nat
  <2>1. sender'.byte \in Rx!Byte
    BY <1>6
  <2>2. begun \in Seq(Rx!Byte)
    <3>1. CASE begun = <<>>
      BY <3>1
    <3>2. CASE begun = <<sender'.byte>>
      BY <2>1, <3>2
    <3> QED BY <1>9, <3>1, <3>2
  <2> QED BY <2>2
<1>11. under_way' \in Seq(Rx!Byte)
  <2>1. under_way \in Seq(Rx!Byte)
    BY DEF Types
  <2>2. under_way # <<>> => Tail(under_way) \in Seq(Rx!Byte)
    BY <2>1
  <2>3. (IF far.rx_data_valid /\ under_way # <<>> THEN Tail(under_way) ELSE under_way)
          \in Seq(Rx!Byte)
    BY <2>1, <2>2
  <2>4. \A s, t \in Seq(Rx!Byte) : s \o t \in Seq(Rx!Byte)
    OBVIOUS
  <2>5. (IF far.rx_data_valid /\ under_way # <<>> THEN Tail(under_way) ELSE under_way) \o begun
          \in Seq(Rx!Byte)
    BY <1>10, <2>3, <2>4
  <2>6. <<>> \in Seq(Rx!Byte)
    OBVIOUS
  <2> QED BY <2>5, <2>6 DEF Edge
<1>12. owed' \in Nat
  <2>1. owed \in Nat /\ FrameClocks \in Nat
    BY Times DEF Types
  <2>2. Len(begun) * (FrameClocks + 1) \in Nat
    BY <1>10, <2>1
  <2>3. (IF owed > 0 THEN owed - 1 ELSE 0) \in Nat
    BY <2>1
  <2>4. (IF owed > 0 THEN owed - 1 ELSE 0) + Len(begun) * (FrameClocks + 1) \in Nat
    BY <2>2, <2>3
  <2> QED BY <2>4 DEF Edge
<1> QED BY <1>2, <1>3, <1>4, <1>5, <1>6, <1>7, <1>8, <1>11, <1>12 DEF Types

\* The first clock after a reset: the transmitter does not say that it is ready.
LEMMA ReadyStep ==
  ASSUME Types, NEW begun, Line(begun), Edge(begun)
  PROVE  Ready'
<1>1. tx'.state = "idle" => tx'.tx_data_ready
  BY TxStep DEF Edge
<1> QED BY <1>1 DEF Ready

-----------------------------------------------------------------------------
(***************************************************************************)
(* Silence.  The line has been high for silence clocks.                    *)
(***************************************************************************)

-----------------------------------------------------------------------------
(***************************************************************************)
(* Silence.                                                                *)
(***************************************************************************)
\* The level of the line before a clock of silence.
LEMMA SilenceIs ==
  ASSUME Types, NEW begun, Line(begun), Edge(begun)
  PROVE  /\ silence \in Nat /\ silence' \in Nat
         /\ silence' >= 1 => silence' <= silence + 1
         /\ silence' >= 1 => sender'.at = 0
         /\ silence' >= 1 => Pin = 1
<1>1. silence \in 0..Settle /\ Settle \in Nat /\ Settle >= 1
  BY Times DEF Types
<1>2. \/ silence' = 0
      \/ silence < Settle /\ silence' = silence + 1
      \/ silence = Settle /\ silence' = Settle
  BY <1>1 DEF Edge
<1>3. silence' # 0 => sender'.at = 0
  BY DEF Edge
<1>4. sender'.at = 0 => Pin = 1
  <2> SUFFICES ASSUME sender'.at = 0 PROVE Pin = 1
    OBVIOUS
  <2>1. sender.at \in Nat /\ sender.drift \in -1..1 /\ Half > 1 - sender.drift
    BY DEF Types
  <2>2. sender.at \in {0, FrameClocks + sender.drift}
    BY <2>1, SenderCases
  <2>3. CASE sender.at = 0
    BY <2>3, PinShows
  <2>4. CASE sender.at = FrameClocks + sender.drift
    <3>1. sender.at >= Reception /\ sender.at >= 1
      BY <2>1, <2>4, Times
    <3>2. Shows(Pin, sender.byte, sender.at)
      BY <3>1, PinShows
    <3> QED BY <3>1, <3>2 DEF Shows
  <2> QED BY <2>2, <2>3, <2>4
<1>5. silence' # 0 => Pin = 1
  BY <1>3, <1>4
<1>6. silence' >= 1 => silence' # 0
  BY <1>1, <1>2
<1>7. silence' \in Nat /\ (silence' >= 1 => silence' <= silence + 1)
  BY <1>1, <1>2
<1> QED BY <1>1, <1>3, <1>5, <1>6, <1>7

\* A receiver whose line is high does not start, and one that is busy goes on.
LEMMA HighStep ==
  ASSUME NEW r, GoodRx(r), r.rx_d0 = 1, NEW pin \in 0..1
  PROVE  LET s == Rx!Clock(r, pin, TRUE) IN
         s.state # "idle" => r.state # "idle" /\ Elapsed(s) = Elapsed(r) + 1
<1> DEFINE s == Rx!Clock(r, pin, TRUE)
<1>1. r.state = "idle" => s.state = IF r.rx_d1 = 1 /\ r.rx_d0 = 0 THEN "start" ELSE "idle"
  BY RxIdle
<1>2. /\ r.state = "data" => s.state = "idle"
      /\ r.state # "idle" /\ r.state # "data" => Elapsed(s) = Elapsed(r) + 1
  BY RxBusy
<1> HIDE DEF s
<1>3. r.state = "idle" => s.state = "idle"
  BY <1>1
<1>4. s.state # "idle" => r.state # "idle" /\ Elapsed(s) = Elapsed(r) + 1
  BY <1>2, <1>3
<1> QED BY <1>4 DEF s

LEMMA ElapsedType ==
  ASSUME NEW r, GoodRx(r)
  PROVE  Elapsed(r) \in Nat /\ Elapsed(r) < Reception
<1>1. Reception \in Nat /\ Reception >= 11
  BY Times
<1>2. CASE r.state = "idle"
  BY <1>1, <1>2, ElapsedIs
<1>3. CASE r.state # "idle"
  <2>1. 1 \in 0..1
    OBVIOUS
  <2>2. Elapsed(r) \in 0..(Reception - 1)
    BY <1>3, <2>1, RxBusy
  <2> QED BY <1>1, <2>2
<1> QED BY <1>2, <1>3

\* When the receiver has been at rest for long enough, so is the transmitter.
LEMMA QuietWork ==
  ASSUME Types, Quieting, silence >= 2 * FrameClocks + Reception + 3
  PROVE  TxWork = 0
<1>1. /\ FrameClocks \in Nat /\ Reception \in Nat /\ silence \in Nat /\ TxWork \in Nat
  <2>1. TxWork \in Nat
    BY WorkIs
  <2> QED BY <2>1, Times DEF Types
<1>2. silence > Reception
  BY <1>1
<1>3. TxWork > 0 => TxWork + silence <= 2 * FrameClocks + Reception + 2
  BY <1>2 DEF Quieting
<1> HIDE DEF TxWork
<1> QED BY <1>1, <1>3

LEMMA QuietRx ==
  ASSUME Types, Quieting, silence > Reception
  PROVE  rx.state = "idle"
<1>1. silence \in Nat /\ Reception \in Nat
  BY Times DEF Types
<1>2. Elapsed(rx) \in Nat /\ Elapsed(rx) < Reception
  BY ElapsedType DEF Types
<1>3. silence >= 1 /\ rx.state # "idle" => silence <= Elapsed(rx) + 1
  BY DEF Quieting
<1> QED BY <1>1, <1>2, <1>3

LEMMA QuietingStep ==
  ASSUME Types, Types', Ready, Quieting, NEW begun, Line(begun), Edge(begun)
  PROVE  Quieting'
<1> DEFINE F == FrameClocks  R == Reception  q == silence  u == silence'  S == 2 * F + R + 4
           x == Elapsed(rx)  y == Elapsed(rx')  e == Elapsed(far)  f == Elapsed(far')
           w == TxWork  v == TxWork'
<1>1. /\ F \in Nat /\ R \in Nat /\ R >= 11 /\ q \in Nat /\ u \in Nat
      /\ u >= 1 => u <= q + 1
  BY SilenceIs, Times
<1>2. u >= 1 => sender'.at = 0 /\ Pin = 1
  BY SilenceIs
<1>3. rx' = Rx!Clock(rx, Pin, TRUE) /\ far' = Rx!Clock(far, tx.tx_reg, TRUE)
  BY DEF Edge
<1>4. rx'.rx_d0 = Pin /\ rx'.rx_d1 = rx.rx_d0 /\ far'.rx_d0 = tx.tx_reg /\ far'.rx_d1 = far.rx_d0
  BY <1>3 DEF Rx!Clock
<1>5. Pin \in 0..1 /\ tx.tx_reg \in 0..1
  BY PinShows DEF Types, GoodTx, Tx!Registers, Tx!Level
<1>6. GoodRx(rx) /\ GoodRx(far) /\ GoodRx(rx') /\ GoodRx(far')
  BY DEF Types
<1>7. x \in Nat /\ y \in Nat /\ e \in Nat /\ f \in Nat
  BY <1>6, ElapsedType
<1>8. rx.rx_d0 = 1 /\ rx'.state # "idle" => rx.state # "idle" /\ y = x + 1
  BY <1>3, <1>5, <1>6, HighStep
<1>9. far.rx_d0 = 1 /\ far'.state # "idle" => far.state # "idle" /\ f = e + 1
  BY <1>3, <1>5, <1>6, HighStep
<1>10. /\ q >= 1 => rx.rx_d0 = 1
       /\ q >= 1 /\ rx.state # "idle" => q <= x + 1
       /\ q > R /\ w > 0 => w + q <= 2 * F + R + 2
       /\ q >= S => far.rx_d0 = 1
       /\ q >= S /\ far.state # "idle" => q <= e + 2 * F + R + 4
  BY DEF Quieting
<1>11. v \in Nat /\ w \in Nat /\ v <= 2 * F + 1
  <2>1. TxWork \in Nat
    BY WorkIs
  <2>2. GoodTx(tx') /\ tx_data_valid' \in BOOLEAN /\ NoByte \in Tx!Byte
    BY SameByte, Numbers DEF Types, NoByte
  <2> DEFINE m == Sent(tx')
  <2>3. tx'.state # "idle" => m \in 0..(F - 1)
    BY <2>2, TxBusy
  <2>4. v = (IF tx'.state = "idle" THEN 0 ELSE F - m) + (IF tx_data_valid' THEN F + 1 ELSE 0)
    BY DEF TxWork, Clocks
  <2> HIDE DEF m, v, F
  <2>5. (IF tx'.state = "idle" THEN 0 ELSE F - m) \in 0..F
    BY <1>1, <2>3
  <2>6. (IF tx_data_valid' THEN F + 1 ELSE 0) \in 0..(F + 1)
    BY <1>1
  <2>7. v \in Nat /\ v <= 2 * F + 1
    BY <1>1, <2>4, <2>5, <2>6
  <2> QED BY <2>1, <2>7
<1>12. q > R => (w = 0 => v = 0) /\ (w > 0 => v = w - 1)
  <2> SUFFICES ASSUME q > R PROVE (w = 0 => v = 0) /\ (w > 0 => v = w - 1)
    OBVIOUS
  <2>1. rx.state # "data"
    BY QuietRx
  <2>2. tx.state = "idle" /\ tx_data_valid => tx.tx_data_ready
    BY DEF Ready
  <2>3. tx' = Tx!Clock(tx, tx_data_valid, tx_data) /\ Buffer
    BY DEF Edge
  <2> QED BY <2>1, <2>2, <2>3, WorkStep
<1>13. q >= S - 1 => tx.tx_reg = 1
  <2> SUFFICES ASSUME q >= S - 1 PROVE tx.tx_reg = 1
    OBVIOUS
  <2>1. silence >= 2 * FrameClocks + Reception + 3
    BY <1>1
  <2>2. TxWork = 0
    BY <2>1, QuietWork
  <2>3. tx.state = "idle"
    BY <2>2, WorkIs
  <2> QED BY <2>3 DEF Types, GoodTx
<1>14. S \in Nat /\ S = 2 * F + R + 4
  BY <1>1
<1> HIDE DEF F, R, q, u, S, x, y, e, f, w, v
<1>15. u >= 1 => sender'.at = 0 /\ rx'.rx_d0 = 1
  BY <1>2, <1>4
<1>16. u >= 2 => rx'.rx_d1 = 1
  <2>1. u >= 2 => q >= 1
    BY <1>1
  <2> QED BY <1>4, <1>10, <2>1
<1>17. u >= 1 /\ rx'.state # "idle" => u <= y + 1
  <2> SUFFICES ASSUME u >= 1, rx'.state # "idle" PROVE u <= y + 1
    OBVIOUS
  <2>1. CASE q >= 1
    <3>1. q <= x + 1 /\ y = x + 1
      BY <1>8, <1>10, <2>1
    <3> QED BY <1>1, <1>7, <3>1
  <2>2. CASE ~(q >= 1)
    BY <1>1, <1>7, <2>2
  <2> QED BY <2>1, <2>2
<1>18. u > R /\ v > 0 => v + u <= 2 * F + R + 2
  <2> SUFFICES ASSUME u > R, v > 0 PROVE v + u <= 2 * F + R + 2
    OBVIOUS
  <2>1. CASE q > R
    <3>1. w > 0 /\ v = w - 1
      BY <1>11, <1>12, <2>1
    <3>2. w + q <= 2 * F + R + 2
      BY <1>10, <2>1, <3>1
    <3> QED BY <1>1, <1>11, <3>1, <3>2
  <2>2. CASE ~(q > R)
    <3>1. u <= R + 1
      BY <1>1, <2>2
    <3> QED BY <1>1, <1>11, <3>1
  <2> QED BY <2>1, <2>2
<1>19. u >= S => far'.rx_d0 = 1
  <2>1. u >= S => q >= S - 1
    BY <1>1, <1>14
  <2> QED BY <1>4, <1>13, <2>1
<1>20. u >= S /\ far'.state # "idle" => u <= f + S
  <2> SUFFICES ASSUME u >= S, far'.state # "idle" PROVE u <= f + S
    OBVIOUS
  <2>1. CASE q >= S
    <3>1. q <= e + 2 * F + R + 4 /\ f = e + 1
      BY <1>9, <1>10, <2>1
    <3> QED BY <1>1, <1>7, <1>14, <2>1, <3>1
  <2>2. CASE ~(q >= S)
    BY <1>1, <1>7, <1>14, <2>2
  <2> QED BY <2>1, <2>2
<1>21. u >= S + 1 => far'.rx_d1 = 1
  <2>1. u >= S + 1 => q >= S
    BY <1>1, <1>14
  <2> QED BY <1>4, <1>10, <2>1
<1>22. u >= 2 * F + R + 5 => u >= S + 1
  BY <1>1, <1>14
<1>23. u >= S /\ far'.state # "idle" => u <= f + 2 * F + R + 4
  BY <1>1, <1>7, <1>14, <1>20
<1> QED BY <1>15, <1>16, <1>17, <1>18, <1>19, <1>21, <1>22, <1>23
       DEF Quieting, F, R, S, u, y, f, v

\* After Settle's silence everything is at rest.
LEMMA AllAtRest ==
  ASSUME Types, Ready, Quieting, silence = Settle
  PROVE  /\ sender.at = 0 /\ tx.state = "idle" /\ tx.tx_data_ready
         /\ ~tx_data_valid /\ Waiting(rx) /\ Waiting(far)
<1> DEFINE F == FrameClocks  R == Reception  q == silence  e == Elapsed(far)
<1>1. /\ F \in Nat /\ R \in Nat /\ R >= 11 /\ Half \in Nat /\ Half >= 2 /\ F = R + Half - 1
      /\ q = 4 * F + 4
  BY Times
<1>2. e \in Nat /\ e < R
  BY ElapsedType DEF Types
<1>3. far.state # "idle" /\ q >= 2 * F + R + 4 => q <= e + 2 * F + R + 4
  BY DEF Quieting
<1>4. rx.rx_d0 = 1 /\ rx.rx_d1 = 1 /\ sender.at = 0
  <2>1. silence >= 1 /\ silence >= 2
    BY <1>1
  <2> QED BY <2>1 DEF Quieting
<1>5. far.rx_d0 = 1 /\ far.rx_d1 = 1
  <2>1. silence >= 2 * FrameClocks + Reception + 4 /\ silence >= 2 * FrameClocks + Reception + 5
    BY <1>1
  <2> QED BY <2>1 DEF Quieting
<1>6. TxWork = 0
  <2>1. silence >= 2 * FrameClocks + Reception + 3
    BY <1>1
  <2> QED BY <2>1, QuietWork
<1>7. tx.state = "idle" /\ ~tx_data_valid
  BY <1>6, WorkIs
<1>8. rx.state = "idle"
  <2>1. silence > Reception
    BY <1>1
  <2> QED BY <2>1, QuietRx
<1>9. tx.tx_data_ready
  <2>1. silence # 0
    BY <1>1
  <2> QED BY <1>7, <2>1 DEF Ready
<1> HIDE DEF F, R, q, e
<1>10. far.state = "idle"
  BY <1>1, <1>2, <1>3
<1> QED BY <1>4, <1>5, <1>7, <1>8, <1>9, <1>10 DEF Waiting

LEMMA RestPipeline ==
  ASSUME sender.at = 0, tx.state = "idle", ~tx_data_valid, Waiting(rx), Waiting(far)
  PROVE  Pipeline = <<>>
<1>1. ~(far.state = "data") /\ ~InTx /\ ~(rx.state = "data") /\ ~OnLine
  BY DEF Waiting, InTx, OnLine
<1>2. Pipeline = (<<>> \o <<>>) \o (<<>> \o (<<>> \o <<>>))
  BY <1>1 DEF Pipeline, One
<1> QED BY <1>2

LEMMA RestIsSynced ==
  ASSUME Types, Ready, Quieting, silence = Settle, muddled, under_way = <<>>
  PROVE  Synced
<1>1. /\ sender.at = 0 /\ tx.state = "idle" /\ tx.tx_data_ready
      /\ ~tx_data_valid /\ Waiting(rx) /\ Waiting(far)
  BY AllAtRest
<1>2. Front
  <2>1. Following(rx, sender.byte, sender.at)
    BY <1>1, AtStart
  <2>2. ~Tailing(rx)
    BY <1>1 DEF Waiting, Tailing
  <2> QED BY <2>1, <2>2 DEF Front
<1>3. Back
  BY <1>1 DEF Back
<1>4. Fresh
  BY <1>1 DEF Fresh
<1>5. Owing
  <2>1. ~OnLine /\ rx.state # "data"
    BY <1>1 DEF OnLine, Waiting
  <2> QED BY <1>1, <2>1 DEF Owing
<1>6. under_way = Pipeline
  BY <1>1, RestPipeline
<1> QED BY <1>2, <1>3, <1>4, <1>5, <1>6 DEF Synced

-----------------------------------------------------------------------------
(***************************************************************************)
(* The invariant.                                                          *)
(***************************************************************************)
LEMMA ResetIsGood ==
  GoodRx(Rx!Reset) /\ GoodTx(Tx!Reset) /\ NoByte \in Rx!Byte /\ Rx!Reset.state = "idle"
<1>1. 0 \in 0..(Cycles - 1) /\ 0 \in 0..(Bits - 1)
  BY Numbers
<1>2. NoByte \in Rx!Byte
  BY DEF NoByte, Rx!Byte, Rx!Level
<1>3. Rx!Reset \in Rx!Registers
  BY <1>1 DEF Rx!Reset, Rx!Registers, Rx!Byte, Rx!Level
<1>4. Tx!Reset \in Tx!Registers
  BY <1>1 DEF Tx!Reset, Tx!Registers, Tx!Byte, Tx!Level
<1>5. GoodRx(Rx!Reset)
  BY <1>3 DEF GoodRx, Rx!Reset
<1>6. GoodTx(Tx!Reset)
  BY <1>4 DEF GoodTx, Tx!Reset
<1> QED BY <1>2, <1>5, <1>6 DEF Rx!Reset

LEMMA InitIInv == Init => IInv
<1> SUFFICES ASSUME Init PROVE IInv
  OBVIOUS
<1>1. /\ Half \in Nat /\ Half >= 2 /\ Reception \in Nat /\ FrameClocks \in Nat
      /\ Settle \in Nat /\ 0 \in 0..Settle
  BY Times
<1>2. sender \in [byte : Rx!Byte, drift : -1..1, at : Nat]
  BY ResetIsGood DEF Init
<1>3. sender.at <= FrameClocks + sender.drift /\ Half > 1 - sender.drift
  BY <1>1 DEF Init
<1>4. under_way \in Seq(Rx!Byte)
  BY DEF Init
<1>5. Types
  BY <1>1, <1>2, <1>3, <1>4, ResetIsGood DEF Init, Types
<1>6. Ready
  BY ResetIsGood DEF Init, Ready
<1>7. Quieting
  <2>1. silence = 0
    BY DEF Init
  <2>2. /\ ~(silence >= 1) /\ ~(silence >= 2) /\ ~(silence > Reception)
        /\ ~(silence >= 2 * FrameClocks + Reception + 4)
        /\ ~(silence >= 2 * FrameClocks + Reception + 5)
    BY <1>1, <2>1
  <2> QED BY <2>2 DEF Quieting
<1> QED BY <1>5, <1>6, <1>7 DEF Init, IInv

LEMMA ResetIInv ==
  ASSUME IInv, ResetPulse
  PROVE  IInv'
<1>1. /\ Half \in Nat /\ Half >= 2 /\ Reception \in Nat /\ FrameClocks \in Nat
      /\ Settle \in Nat /\ 0 \in 0..Settle
  BY Times
<1>2. Types
  BY DEF IInv
<1>3. under_way' \in Seq(Rx!Byte) /\ owed' \in Nat
  BY DEF ResetPulse
<1>4. Types'
  BY <1>1, <1>2, <1>3, ResetIsGood DEF ResetPulse, Types
<1>5. Ready'
  BY ResetIsGood DEF ResetPulse, Ready
<1>6. Quieting'
  <2>1. silence' = 0
    BY DEF ResetPulse
  <2>2. /\ ~(silence' >= 1) /\ ~(silence' >= 2) /\ ~(silence' > Reception)
        /\ ~(silence' >= 2 * FrameClocks + Reception + 4)
        /\ ~(silence' >= 2 * FrameClocks + Reception + 5)
    BY <1>1, <2>1
  <2> QED BY <2>2 DEF Quieting
<1> QED BY <1>4, <1>5, <1>6 DEF ResetPulse, IInv

LEMMA EdgeIInv ==
  ASSUME IInv, NEW begun, Line(begun), Edge(begun)
  PROVE  IInv'
<1>1. Types /\ Ready /\ Quieting
  BY DEF IInv
<1>2. Types'
  BY <1>1, EdgeTypes
<1>3. Ready'
  BY <1>1, ReadyStep
<1>4. Quieting'
  BY <1>1, <1>2, QuietingStep
<1>5. muddled' => under_way' = <<>> /\ owed' = 0
  BY DEF Edge
<1>6. ~muddled' => Synced'
  <2> SUFFICES ASSUME ~muddled' PROVE Synced'
    OBVIOUS
  <2>1. /\ ~Overrun /\ ~(muddled /\ silence < Settle)
        /\ under_way' = (IF far.rx_data_valid /\ under_way # <<>>
                         THEN Tail(under_way) ELSE under_way) \o begun
        /\ owed' = (IF owed > 0 THEN owed - 1 ELSE 0) + Len(begun) * (FrameClocks + 1)
    BY DEF Edge
  <2>2. muddled => silence = Settle
    <3>1. silence \in 0..Settle /\ Settle \in Nat
      BY <1>1, Times DEF Types
    <3> QED BY <2>1, <3>1
  <2>3. Synced
    <3>1. CASE muddled
      BY <1>1, <2>2, <3>1, RestIsSynced DEF IInv
    <3>2. CASE ~muddled
      BY <3>2 DEF IInv
    <3> QED BY <3>1, <3>2
  <2>4. tx.state = "idle" => tx.tx_data_ready
    <3>1. Settle # 0
      BY Times
    <3> QED BY <1>1, <2>2, <3>1 DEF Ready
  <2>5. Front /\ Back /\ Fresh /\ Owing /\ under_way = Pipeline
    BY <2>3 DEF Synced
  <2>6. /\ rx' = Rx!Clock(rx, Pin, TRUE) /\ tx' = Tx!Clock(tx, tx_data_valid, tx_data)
        /\ far' = Rx!Clock(far, tx.tx_reg, TRUE)
    BY DEF Edge
  <2>7. Front'
    BY <1>1, <2>5, <2>6, FrontStep
  <2>8. Back'
    BY <1>1, <2>5, <2>6, BackStep
  <2>9. Fresh'
    BY <1>1, <2>1, <2>4, <2>5, FreshStep
  <2>10. Owing'
    BY <1>1, <1>2, <2>1, <2>4, <2>5, OwingStep
  <2>11. under_way' = Pipeline'
    <3>1. /\ Pipeline = One(far.state = "data", far.rx_data) \o Rest
          /\ Pipeline' = Rest \o begun /\ Rest \in Seq(Rx!Byte)
      BY <1>1, <2>1, <2>4, <2>5, PipelineStep
    <3>2. far.rx_data_valid <=> far.state = "data"
      BY <1>1 DEF Types, GoodRx
    <3>3. far.rx_data \in Rx!Byte
      BY <1>1 DEF Types, GoodRx, Rx!Registers
    <3>4. CASE far.state = "data"
      <4>1. under_way = <<far.rx_data>> \o Rest
        BY <2>5, <3>1, <3>4 DEF One
      <4>2. under_way # <<>> /\ Tail(under_way) = Rest
        BY <3>1, <3>3, <4>1
      <4> QED BY <2>1, <3>1, <3>2, <3>4, <4>2
    <3>5. CASE far.state # "data"
      <4>1. under_way = <<>> \o Rest
        BY <2>5, <3>1, <3>5 DEF One
      <4>2. under_way = Rest
        BY <3>1, <4>1
      <4> QED BY <2>1, <3>1, <3>2, <3>5, <4>2
    <3> QED BY <3>4, <3>5
  <2> QED BY <2>7, <2>8, <2>9, <2>10, <2>11 DEF Synced
<1> QED BY <1>2, <1>3, <1>4, <1>5, <1>6 DEF IInv

LEMMA StutterIInv ==
  ASSUME IInv, UNCHANGED vars
  PROVE  IInv'
<1>1. Types'
  BY DEF IInv, Types, vars
<1>2. Ready'
  BY DEF IInv, Ready, vars
<1>3. TxWork' = TxWork /\ (OnLine' <=> OnLine) /\ (InTx' <=> InTx)
  BY DEF TxWork, OnLine, InTx, vars
<1>4. Quieting'
  BY <1>3 DEF IInv, Quieting, vars
<1>5. Synced => Synced'
  <2>1. Front => Front'
    BY DEF Front, vars
  <2>2. Back => Back'
    BY DEF Back, vars
  <2>3. Fresh => Fresh'
    BY <1>3 DEF Fresh, OnLine, vars
  <2>4. Owing => Owing'
    BY DEF Owing, TxWork, OnLine, Clocks, vars
  <2>5. Pipeline' = Pipeline
    BY DEF Pipeline, InTx, OnLine, One, vars
  <2> QED BY <2>1, <2>2, <2>3, <2>4, <2>5 DEF Synced, vars
<1> QED BY <1>1, <1>2, <1>4, <1>5 DEF IInv, vars

\* The echo's inductive invariant, for every length of a bit and of a byte:
\* what the two receivers and the transmitter are at is what the clocks of the
\* two lines say, and what is under way is the bytes between them.
THEOREM Invariance == Spec => []IInv
<1>1. Init => IInv
  BY InitIInv
<1>2. IInv /\ [Next]_vars => IInv'
  <2> SUFFICES ASSUME IInv, [Next]_vars PROVE IInv'
    OBVIOUS
  <2>1. CASE UNCHANGED vars
    BY <2>1, StutterIInv
  <2>2. CASE Next
    <3>1. CASE ResetPulse
      BY <3>1, ResetIInv
    <3>2. CASE \E begun : Line(begun) /\ Edge(begun)
      BY <3>2, EdgeIInv
    <3> QED BY <2>2, <3>1, <3>2, NextIs
  <2> QED BY <2>1, <2>2
<1> QED BY <1>1, <1>2, PTL DEF Spec
-----------------------------------------------------------------------------
LEMMA SentType ==
  ASSUME NEW t, GoodTx(t), t.state # "idle"
  PROVE  Sent(t) \in Nat /\ Sent(t) < FrameClocks
<1>1. TRUE \in BOOLEAN /\ t.tx_data_latch \in Tx!Byte
  BY DEF GoodTx, Tx!Registers
<1>2. Sent(t) \in 0..(FrameClocks - 1) /\ FrameClocks \in Nat
  BY <1>1, TxBusy, Times
<1> QED BY <1>2

\* A byte that has arrived at the other end is the only one of its frame.
LEMMA NotAllAtOnce ==
  ASSUME IInv, Synced
  PROVE  ~(far.state = "data" /\ InTx /\ tx_data_valid /\ rx.state = "data")
<1> SUFFICES ASSUME far.state = "data", InTx, tx_data_valid, rx.state = "data" PROVE FALSE
  OBVIOUS
<1> DEFINE F == FrameClocks  R == Reception  s == Sent(tx)
<1>1. /\ F \in Nat /\ R \in Nat /\ R >= 11 /\ Half \in Nat /\ Half >= 2 /\ F = R + Half - 1
  BY Times
<1>2. Types
  BY DEF IInv
<1>3. tx.state # "idle" /\ s <= R + 1
  BY DEF InTx
<1>4. s \in Nat
  BY <1>2, <1>3, SentType DEF Types
<1>5. s >= F - 2
  BY <1>3 DEF Synced, Fresh
<1>6. Following(far, tx.tx_data_latch, s)
  BY <1>3 DEF Synced, Back
<1>7. tx.tx_data_latch \in Rx!Byte /\ GoodRx(far)
  BY <1>2, SameByte DEF Types, GoodTx, Tx!Registers
<1> HIDE DEF F, R, s
<1>8. s >= 3
  BY <1>1, <1>4, <1>5
<1>9. s = Reception + 2
  BY <1>4, <1>6, <1>7, <1>8, FollowEnd
<1> QED BY <1>1, <1>3, <1>9 DEF R

LEMMA OneLength ==
  ASSUME NEW S, NEW c, NEW b, c => b \in S
  PROVE  /\ One(c, b) \in Seq(S) /\ Len(One(c, b)) \in 0..1
         /\ ~c => Len(One(c, b)) = 0
BY DEF One

LEMMA AtMostFour ==
  ASSUME IInv, Synced
  PROVE  Len(under_way) <= 4
<1> DEFINE a == One(far.state = "data", far.rx_data)
           b == One(InTx, tx.tx_data_latch)
           c == One(tx_data_valid, tx_data)
           d == One(rx.state = "data", rx.rx_data)
           e == One(OnLine, sender.byte)
<1>1. /\ far.rx_data \in Rx!Byte /\ tx.tx_data_latch \in Rx!Byte /\ tx_data \in Rx!Byte
      /\ rx.rx_data \in Rx!Byte /\ sender.byte \in Rx!Byte
  BY SameByte DEF IInv, Types, GoodRx, GoodTx, Rx!Registers, Tx!Registers
<1>2. /\ a \in Seq(Rx!Byte) /\ b \in Seq(Rx!Byte) /\ c \in Seq(Rx!Byte)
      /\ d \in Seq(Rx!Byte) /\ e \in Seq(Rx!Byte)
      /\ Len(a) \in 0..1 /\ Len(b) \in 0..1 /\ Len(c) \in 0..1 /\ Len(d) \in 0..1
      /\ Len(e) \in 0..1
  BY <1>1, OneLength
<1>3. Len(a) = 0 \/ Len(b) = 0 \/ Len(c) = 0 \/ Len(d) = 0
  <2>1. far.state # "data" \/ ~InTx \/ ~tx_data_valid \/ rx.state # "data"
    BY NotAllAtOnce
  <2>2. /\ far.state # "data" => Len(a) = 0
        /\ ~InTx => Len(b) = 0
        /\ ~tx_data_valid => Len(c) = 0
        /\ rx.state # "data" => Len(d) = 0
    BY DEF One
  <2> QED BY <2>1, <2>2
<1>4. under_way = (a \o b) \o (c \o (d \o e))
  BY DEF Synced, Pipeline
<1> HIDE DEF a, b, c, d, e
<1>5. Len((a \o b) \o (c \o (d \o e))) = Len(a) + Len(b) + (Len(c) + (Len(d) + Len(e)))
  <2>1. d \o e \in Seq(Rx!Byte) /\ Len(d \o e) = Len(d) + Len(e)
    BY <1>2
  <2>2. c \o (d \o e) \in Seq(Rx!Byte) /\ Len(c \o (d \o e)) = Len(c) + Len(d \o e)
    BY <1>2, <2>1
  <2>3. a \o b \in Seq(Rx!Byte) /\ Len(a \o b) = Len(a) + Len(b)
    BY <1>2
  <2> QED BY <2>1, <2>2, <2>3
<1>6. \A i, j, k, l, m \in 0..1 :
        i = 0 \/ j = 0 \/ k = 0 \/ l = 0 => i + j + (k + (l + m)) <= 4
  OBVIOUS
<1>7. Len(a) + Len(b) + (Len(c) + (Len(d) + Len(e))) <= 4
  BY <1>2, <1>3, <1>6
<1> QED BY <1>4, <1>5, <1>7

\* The registers and the buffer keep their ranges, and of the five places a
\* byte can be at no more than four are taken at once (uart.v:63-80).
THEOREM TypeCorrect == Spec => []TypeOK
<1>1. IInv => TypeOK
  <2> SUFFICES ASSUME IInv PROVE TypeOK
    OBVIOUS
  <2>1. Types
    BY DEF IInv
  <2>2. sender.at \in 0..(FrameClocks + 1)
    <3>1. sender.at \in Nat /\ sender.drift \in -1..1 /\ sender.at <= FrameClocks + sender.drift
      BY <2>1 DEF Types
    <3> QED BY <3>1, Times
  <2>3. Len(under_way) <= 4
    <3>1. CASE muddled
      BY <3>1 DEF IInv
    <3>2. CASE ~muddled
      BY <3>2, AtMostFour DEF IInv
    <3> QED BY <3>1, <3>2
  <2> QED BY <2>1, <2>2, <2>3 DEF Types, TypeOK, GoodRx, GoodTx
<1> QED BY <1>1, Invariance, PTL

\* The bytes come back in order, unchanged, none lost or doubled, whatever the
\* clocks of each other's frames the state machines stand at (uart.v:63-80).
THEOREM InOrder == Spec => []EchoesInOrder
<1>1. IInv => EchoesInOrder
  <2> SUFFICES ASSUME IInv, far.rx_data_valid, ~muddled
               PROVE  under_way # <<>> /\ far.rx_data = Head(under_way)
    BY DEF EchoesInOrder
  <2>1. Types /\ Synced
    BY DEF IInv
  <2>2. far.state = "data" /\ far.rx_data \in Rx!Byte
    BY <2>1 DEF Types, GoodRx, Rx!Registers
  <2> DEFINE b == One(InTx, tx.tx_data_latch)
             c == One(tx_data_valid, tx_data)
             d == One(rx.state = "data", rx.rx_data)
             e == One(OnLine, sender.byte)
  <2>3. /\ tx.tx_data_latch \in Rx!Byte /\ tx_data \in Rx!Byte
        /\ rx.rx_data \in Rx!Byte /\ sender.byte \in Rx!Byte
    BY <2>1, SameByte DEF Types, GoodRx, GoodTx, Rx!Registers, Tx!Registers
  <2>4. b \in Seq(Rx!Byte) /\ c \in Seq(Rx!Byte) /\ d \in Seq(Rx!Byte) /\ e \in Seq(Rx!Byte)
    BY <2>3, OneLength
  <2>5. under_way = (<<far.rx_data>> \o b) \o (c \o (d \o e))
    BY <2>1, <2>2 DEF Synced, Pipeline, One
  <2> HIDE DEF b, c, d, e
  <2>6. c \o (d \o e) \in Seq(Rx!Byte)
    <3>1. d \o e \in Seq(Rx!Byte)
      BY <2>4
    <3> QED BY <2>4, <3>1
  <2> QED BY <2>2, <2>4, <2>5, <2>6
<1> QED BY <1>1, Invariance, PTL

\* The first byte is lost only when the transmitter is a frame and half a bit
\* behind (uart.v:72-78, uart_tx.v:60-94).
THEOREM OverrunBound == Spec => []OverrunsOnlyWhenBehind
<1>1. IInv => OverrunsOnlyWhenBehind
  <2> SUFFICES ASSUME IInv, Overrun, ~muddled PROVE owed >= FrameClocks + Half
    BY DEF OverrunsOnlyWhenBehind, Half
  <2> DEFINE F == FrameClocks  R == Reception  s == Sent(tx)  w == TxWork
             cD == Clocks(rx.state = "data")  cL == Clocks(OnLine)
  <2>1. Types /\ Ready /\ Owing
    BY DEF IInv, Synced
  <2>2. F \in Nat /\ R \in Nat /\ Half \in Nat /\ F = R + Half - 1 /\ owed \in Nat
    BY <2>1, Times DEF Types
  <2>3. rx.state = "data" /\ tx_data_valid /\ tx.state # "idle"
    BY <2>1 DEF Overrun, Types, GoodRx, Ready
  <2>4. owed >= w + cD + cL - (R + 2)
    BY <2>1, <2>3 DEF Owing
  <2>5. cD = F + 1 /\ (cL = F + 1 \/ cL = 0)
    BY <2>3 DEF Clocks
  <2>6. w = F - s + F + 1
    BY <2>1, <2>3, WorkIs
  <2>7. s \in Nat /\ s < F
    BY <2>1, <2>3, SentType DEF Types
  <2> HIDE DEF F, R, s, w, cD, cL
  <2>8. owed >= F + Half
    BY <2>2, <2>4, <2>5, <2>6, <2>7
  <2> QED BY <2>8 DEF F
<1> QED BY <1>1, Invariance, PTL

\* A silence brings everything to rest, from a reset in the middle of a byte
\* or an overrun too (uart_rx.v:72-105, uart_tx.v:60-86).
THEOREM Settles == Spec => []SilenceSettles
<1>1. IInv => SilenceSettles
  <2> SUFFICES ASSUME IInv, silence = Settle PROVE AtRest
    BY DEF SilenceSettles
  <2>1. Types /\ Ready /\ Quieting
    BY DEF IInv
  <2>2. /\ sender.at = 0 /\ tx.state = "idle" /\ tx.tx_data_ready
        /\ ~tx_data_valid /\ Waiting(rx) /\ Waiting(far)
    BY <2>1, AllAtRest
  <2>3. under_way = <<>>
    BY <2>2, RestPipeline DEF IInv, Synced
  <2>4. rx.state = "idle" /\ far.state = "idle" /\ ~rx.rx_data_valid
    BY <2>1, <2>2 DEF Waiting, Types, GoodRx
  <2> QED BY <2>2, <2>3, <2>4 DEF AtRest
<1> QED BY <1>1, Invariance, PTL
=============================================================================
