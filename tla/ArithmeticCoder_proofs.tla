----------------------- MODULE ArithmeticCoder_proofs -----------------------
(***************************************************************************)
(* Proofs about the arithmetic coder, for every register width of more     *)
(* than two bits, every set of tables and both encoders.                   *)
(***************************************************************************)
EXTENDS ArithmeticCoder, WellFoundedInduction, TLAPS

(***************************************************************************)
(* Arithmetic: the constants of the coder in quarters, the two top bits of *)
(* a register, quotients, and the part of an interval a symbol gets.       *)
(***************************************************************************)
LEMMA Sizes ==
  /\ Quarter \in Nat /\ Quarter >= 2
  /\ Half = 2 * Quarter /\ MAX_RANGE = 4 * Quarter /\ MASK = 4 * Quarter - 1
  /\ MIN_RANGE = Quarter + 2 /\ MAX_TOTAL = Quarter + 2
<1> DEFINE q == 2 ^ (StateSize - 2)
<1>1. StateSize - 1 \in 0..(StateSize - 1) /\ StateSize - 2 \in 0..(StateSize - 1)
      /\ StateSize - 3 \in 0..(StateSize - 1) /\ (StateSize - 1) + 1 = StateSize
      /\ (StateSize - 2) + 1 = StateSize - 1 /\ (StateSize - 3) + 1 = StateSize - 2
  BY CoderAssumption
<1>2. 2 ^ (StateSize - 3) \in Nat \ {0} /\ q = 2 * 2 ^ (StateSize - 3)
  BY <1>1, PowersOfTwo
<1>3. 2 ^ (StateSize - 1) = 2 * q /\ 2 ^ StateSize = 2 * 2 ^ (StateSize - 1)
  BY <1>1, PowersOfTwo
<1>4. q \in Nat /\ q >= 2
  <2> HIDE DEF q
  <2> QED BY <1>2
<1>5. MAX_RANGE = 4 * q
  <2> HIDE DEF q
  <2> QED BY <1>3, <1>4 DEF MAX_RANGE
<1> HIDE DEF q
<1>6. Quarter = q /\ Half = 2 * q
  BY <1>4, <1>5 DEF Quarter, Half
<1> QED
  BY <1>4, <1>5, <1>6 DEF MIN_RANGE, MAX_TOTAL, MASK, Quarter

\* The top bit and the second bit of a register, and the register shifted.
LEMMA Ends ==
  ASSUME NEW Q \in Nat, Q >= 2, NEW x \in 0..(4 * Q - 1)
  PROVE  /\ (x \div (2 * Q)) % 2 = IF x < 2 * Q THEN 0 ELSE 1
         /\ (x \div Q) % 2 = IF x < Q \/ (2 * Q <= x /\ x < 3 * Q) THEN 0 ELSE 1
         /\ (2 * x) % (4 * Q) = IF x < 2 * Q THEN 2 * x ELSE 2 * x - 4 * Q
         /\ (2 * x) % (2 * Q) = IF x < Q THEN 2 * x ELSE
                                IF x < 2 * Q THEN 2 * x - 2 * Q ELSE
                                IF x < 3 * Q THEN 2 * x - 4 * Q ELSE 2 * x - 6 * Q
OBVIOUS
LEMMA Quotient ==
  ASSUME NEW x \in Nat, NEW n \in Nat \ {0}
  PROVE  /\ x \div n \in Nat /\ x % n \in 0..(n - 1)
         /\ x = n * (x \div n) + (x % n)
OBVIOUS

LEMMA Product ==
  ASSUME NEW a \in Int, NEW b \in Int, NEW n \in Nat, a <= b
  PROVE  n * a <= n * b /\ n * a \in Int /\ n * b \in Int
OBVIOUS

\* A quotient is bounded by what its dividend is bounded by.
LEMMA Below ==
  ASSUME NEW x \in Nat, NEW n \in Nat \ {0}, NEW q \in Nat
  PROVE  /\ x < n * q => x \div n < q
         /\ n * q <= x => q <= x \div n
<1> DEFINE d == x \div n
           r == x % n
<1>1. d \in Nat /\ r \in 0..(n - 1) /\ x = n * d + r
  BY Quotient
<1> HIDE DEF d, r
<1>2. ASSUME x < n * q, q <= d PROVE FALSE
  <2>1. n * q <= n * d /\ n * q \in Int /\ n * d \in Int
    BY <1>1, <1>2, Product
  <2> QED BY <1>1, <1>2, <2>1
<1>3. ASSUME n * q <= x, d < q PROVE FALSE
  <2>1. n * (d + 1) <= n * q /\ n * q \in Int
    BY <1>1, <1>3, Product
  <2>2. n * (d + 1) = n * d + n /\ n * d \in Int
    BY <1>1
  <2> QED BY <1>1, <1>3, <2>1, <2>2
<1>4. (x < n * q => d < q) /\ (n * q <= x => q <= d)
  BY <1>1, <1>2, <1>3
<1> QED BY <1>4 DEF d

\* Symbols up to y, and up to z, of a total of T have these parts of the width.
LEMMA Parts ==
  ASSUME NEW w \in Nat, NEW T \in Nat \ {0}, NEW y \in Nat, NEW z \in Nat, y < z, z <= T
  PROVE  /\ (y * w) \div T \in Nat /\ (z * w) \div T \in Nat
         /\ (y * w) \div T <= (z * w) \div T /\ (z * w) \div T <= w
         /\ T <= w => (y * w) \div T < (z * w) \div T
         /\ w > 0 => (y * w) \div T < w
<1> DEFINE a == (y * w) \div T
           b == (z * w) \div T
<1>1. y * w \in Nat /\ z * w \in Nat /\ y * w + w <= z * w /\ z * w <= T * w
  <2>1. w * (y + 1) <= w * z /\ w * z <= w * T
    BY Product
  <2> QED BY <2>1
<1>2. a \in Nat /\ b \in Nat /\ T * a <= y * w /\ z * w < T * b + T /\ T * a \in Nat /\ T * b \in Nat
  <2>1. /\ a \in Nat /\ (y * w) % T \in 0..(T - 1) /\ y * w = T * a + ((y * w) % T)
        /\ b \in Nat /\ (z * w) % T \in 0..(T - 1) /\ z * w = T * b + ((z * w) % T)
    BY <1>1, Quotient
  <2>2. T * a \in Nat /\ T * b \in Nat
    BY <2>1
  <2> HIDE DEF a, b
  <2> QED BY <1>1, <2>1, <2>2
<1> HIDE DEF a, b
<1>3. a <= b
  BY <1>1, <1>2, Below DEF b
<1>4. b <= w
  <2>1. z * w < T * (w + 1)
    BY <1>1
  <2>2. b < w + 1
    BY <1>1, <2>1, Below DEF b
  <2> QED BY <2>2, <1>2
<1>5. ASSUME T <= w PROVE a < b
  <2>1. T * (a + 1) <= z * w
    BY <1>1, <1>2, <1>5
  <2>2. a + 1 <= b
    BY <1>1, <1>2, <2>1, Below DEF b
  <2> QED BY <2>2, <1>2
<1>6. ASSUME w > 0 PROVE a < w
  <2>1. y * w < T * w
    BY <1>1, <1>6
  <2> QED BY <1>1, <2>1, Below DEF a
<1>7. /\ a \in Nat /\ b \in Nat /\ a <= b /\ b <= w
      /\ (T <= w => a < b) /\ (w > 0 => a < w)
  BY <1>2, <1>3, <1>4, <1>5, <1>6
<1> QED BY <1>7 DEF a, b

\* The code, at distance o of the low end, lies in the part of its symbol.
LEMMA CodeInPart ==
  ASSUME NEW w \in Nat \ {0}, NEW o \in 0..(w - 1), NEW T \in Nat \ {0},
         NEW y \in Nat, NEW z \in Nat, NEW v,
         v = ((o + 1) * T - 1) \div w, y <= v, v < z
  PROVE  (y * w) \div T <= o /\ o < (z * w) \div T
<1> DEFINE x == (o + 1) * T - 1
<1>1. x \in Nat /\ x + 1 = T * (o + 1) /\ y * w \in Nat /\ z * w \in Nat
  OBVIOUS
<1>2. v \in Nat /\ v = x \div w /\ w * v <= x /\ x < w * v + w /\ w * v \in Nat
  <2>1. x \div w \in Nat /\ x % w \in 0..(w - 1) /\ x = w * (x \div w) + (x % w)
    <3> HIDE DEF x
    <3> QED BY <1>1, Quotient
  <2>2. v = x \div w
    OBVIOUS
  <2> HIDE DEF x
  <2>3. w * v \in Nat
    BY <2>1, <2>2
  <2> QED BY <1>1, <2>1, <2>2, <2>3
<1> HIDE DEF x
<1>3. w * y <= w * v /\ w * (v + 1) <= w * z
  BY <1>2, Product
<1>4. w * (v + 1) = w * v + w /\ w * y = y * w /\ w * z = z * w
  BY <1>2
<1>5. y * w < T * (o + 1) /\ T * (o + 1) <= z * w
  BY <1>1, <1>2, <1>3, <1>4
<1>6. (y * w) \div T < o + 1 /\ o + 1 <= (z * w) \div T
  <2>1. o + 1 \in Nat
    OBVIOUS
  <2> QED BY <1>1, <1>5, <2>1, Below
<1>7. (y * w) \div T \in Nat /\ (z * w) \div T \in Nat
  BY <1>1, Quotient
<1> QED BY <1>6, <1>7

(***************************************************************************)
(* The bit streams: bytes in the file are full, what is left is less than  *)
(* a byte, and all of it is counted.                                       *)
(***************************************************************************)
StreamOK(o) ==
  /\ o \in [currentbyte : Bits, num_bits : Nat, file : Seq(Byte)]
  /\ Len(o.currentbyte) < ByteSize
  /\ o.num_bits = ByteSize * Len(o.file) + Len(o.currentbyte)

LEMMA FullByte ==
  ASSUME NEW s \in Seq(0..1), Len(s) = ByteSize
  PROVE  s \in Byte
<1>1. s \in [1..Len(s) -> 0..1]
  OBVIOUS
<1> QED BY <1>1 DEF Byte

LEMMA Written ==
  ASSUME NEW o, StreamOK(o), NEW b \in 0..1
  PROVE  StreamOK(write(o, b))
<1> DEFINE byte == Append(o.currentbyte, b)
<1>1. /\ byte \in Bits /\ Len(byte) = Len(o.currentbyte) + 1
      /\ Len(o.currentbyte) \in Nat /\ Len(o.file) \in Nat
  BY DEF StreamOK, Bits
<1>2. ByteSize \in Nat \ {0}
  BY CoderAssumption
<1>3. CASE Len(byte) = ByteSize
  <2>1. byte \in Byte
    <3> HIDE DEF byte
    <3> QED BY <1>1, <1>3, FullByte DEF Bits
  <2>2. write(o, b) = [currentbyte |-> <<>>, num_bits |-> o.num_bits + 1,
                       file |-> Append(o.file, byte)]
    BY <1>3 DEF write
  <2> HIDE DEF byte
  <2>3. /\ <<>> \in Bits /\ Len(<<>>) = 0
        /\ Append(o.file, byte) \in Seq(Byte)
        /\ Len(Append(o.file, byte)) = Len(o.file) + 1
    BY <2>1 DEF StreamOK, Bits
  <2>4. o.num_bits + 1 = ByteSize * (Len(o.file) + 1) + 0
    <3>1. ByteSize * (Len(o.file) + 1) = ByteSize * Len(o.file) + ByteSize
      BY <1>1, <1>2
    <3>2. ByteSize * Len(o.file) \in Nat
      BY <1>1, <1>2
    <3> QED BY <1>1, <1>2, <1>3, <3>1, <3>2 DEF StreamOK
  <2> QED BY <2>2, <2>3, <2>4, <1>2 DEF StreamOK
<1>4. CASE Len(byte) # ByteSize
  <2>1. write(o, b) = [o EXCEPT !.currentbyte = byte, !.num_bits = o.num_bits + 1]
    BY <1>4 DEF write
  <2> HIDE DEF byte
  <2>2. ByteSize * Len(o.file) \in Nat
    BY <1>1, <1>2
  <2>3. /\ o.num_bits + 1 \in Nat /\ Len(byte) < ByteSize
        /\ o.num_bits + 1 = ByteSize * Len(o.file) + Len(byte)
    BY <1>1, <1>2, <1>4, <2>2 DEF StreamOK
  <2> QED BY <1>1, <2>1, <2>3 DEF StreamOK
<1> QED BY <1>3, <1>4

LEMMA Remainder ==
  ASSUME NEW n \in Nat \ {0}, NEW q \in Nat, NEW r \in 0..(n - 1)
  PROVE  (n * q + r) % n = r
<1> DEFINE x == n * q + r
<1>1. x \in Nat /\ n * q \in Nat /\ n * (q + 1) = n * q + n
  OBVIOUS
<1>2. x \div n \in Nat /\ x % n \in 0..(n - 1) /\ x = n * (x \div n) + (x % n)
  <2> HIDE DEF x
  <2> QED BY <1>1, Quotient
<1>3. x \div n < q + 1 /\ q <= x \div n
  <2>1. n * q <= x /\ x < n * (q + 1) /\ q + 1 \in Nat
    BY <1>1
  <2> HIDE DEF x
  <2> QED BY <1>1, <2>1, Below
<1>4. x \div n = q
  <2> HIDE DEF x
  <2> QED BY <1>2, <1>3
<1>5. x = n * q + (x % n)
  BY <1>2, <1>4
<1> QED BY <1>1, <1>2, <1>5

LEMMA Closed ==
  ASSUME NEW o, StreamOK(o)
  PROVE  StreamOK(close(o))
<1> DEFINE l == Len(o.currentbyte)
           zeros == [k \in 1..(ByteSize - l) |-> 0]
<1>1. /\ ByteSize \in Nat \ {0} /\ l \in 0..(ByteSize - 1) /\ Len(o.file) \in Nat
      /\ o.num_bits = ByteSize * Len(o.file) + l
  BY CoderAssumption DEF StreamOK, Bits
<1>2. o.num_bits % ByteSize = l
  <2> HIDE DEF l
  <2> QED BY <1>1, Remainder
<1>3. CASE l = 0
  <2>1. Padding(o.num_bits) = 0
    <3>1. Padding(o.num_bits) = (ByteSize - 0) % ByteSize
      BY <1>2, <1>3 DEF Padding
    <3>2. (ByteSize * 1 + 0) % ByteSize = 0
      BY <1>1, Remainder
    <3>3. ByteSize * 1 + 0 = ByteSize - 0
      BY <1>1
    <3> QED BY <3>1, <3>2, <3>3
  <2>2. o.currentbyte = <<>>
    BY <1>3 DEF StreamOK, Bits
  <2>3. close(o) = [currentbyte |-> <<>>, num_bits |-> o.num_bits + 0, file |-> o.file]
    BY <2>1, <2>2 DEF close
  <2> QED BY <1>1, <1>3, <2>2, <2>3 DEF StreamOK
<1>4. CASE l > 0
  <2>1. Padding(o.num_bits) = ByteSize - l
    <3>1. Padding(o.num_bits) = (ByteSize - l) % ByteSize
      BY <1>2 DEF Padding
    <3> HIDE DEF l
    <3> QED BY <1>1, <1>4, <3>1
  <2>2. o.currentbyte # <<>>
    BY <1>4 DEF StreamOK, Bits
  <2>3. close(o) = [currentbyte |-> <<>>, num_bits |-> o.num_bits + (ByteSize - l),
                    file |-> Append(o.file, o.currentbyte \o zeros)]
    BY <2>1, <2>2 DEF close
  <2>4. o.currentbyte \o zeros \in Byte
    <3>1. zeros \in Seq(0..1) /\ Len(zeros) = ByteSize - l
      BY <1>1
    <3>2. o.currentbyte \in Seq(0..1)
      BY DEF StreamOK, Bits
    <3> HIDE DEF zeros
    <3>3. /\ o.currentbyte \o zeros \in Seq(0..1)
          /\ Len(o.currentbyte \o zeros) = l + (ByteSize - l)
      BY <3>1, <3>2
    <3>4. l + (ByteSize - l) = ByteSize
      BY <1>1
    <3> QED BY <3>3, <3>4, FullByte
  <2> DEFINE last == o.currentbyte \o zeros
  <2> HIDE DEF zeros, last
  <2>5. /\ <<>> \in Bits /\ Len(<<>>) = 0
        /\ Append(o.file, last) \in Seq(Byte)
        /\ Len(Append(o.file, last)) = Len(o.file) + 1
    BY <2>4 DEF StreamOK, Bits, last
  <2>6. o.num_bits + (ByteSize - l) = ByteSize * (Len(o.file) + 1) + 0
    <3>1. /\ ByteSize * (Len(o.file) + 1) = ByteSize * Len(o.file) + ByteSize
          /\ ByteSize * Len(o.file) \in Nat
      BY <1>1
    <3> HIDE DEF l
    <3> QED BY <1>1, <3>1
  <2>7. o.num_bits + (ByteSize - l) \in Nat
    <3>1. o.num_bits \in Nat
      BY DEF StreamOK
    <3> HIDE DEF l
    <3> QED BY <1>1, <3>1
  <2>8. close(o) = [currentbyte |-> <<>>, num_bits |-> o.num_bits + (ByteSize - l),
                    file |-> Append(o.file, last)]
    BY <2>3 DEF last
  <2> HIDE DEF l
  <2> QED BY <1>1, <2>5, <2>6, <2>7, <2>8 DEF StreamOK
<1> QED BY <1>1, <1>3, <1>4

LEMMA ReadBit ==
  ASSUME StreamOK(out), pos \in Nat
  PROVE  CodeBit \in 0..1
<1>1. CASE pos < ByteSize * Len(out.file)
  <2>1. /\ ByteSize \in Nat \ {0} /\ out.file \in Seq(Byte) /\ Len(out.file) \in Nat
    BY CoderAssumption DEF StreamOK
  <2>2. pos \div ByteSize \in Nat /\ pos % ByteSize \in 0..(ByteSize - 1)
    BY <2>1, Quotient
  <2>3. pos \div ByteSize < Len(out.file)
    BY <1>1, <2>1, Below
  <2>4. (pos \div ByteSize) + 1 \in 1..Len(out.file) /\ (pos % ByteSize) + 1 \in 1..ByteSize
    BY <2>1, <2>2, <2>3
  <2>5. out.file[(pos \div ByteSize) + 1] \in Byte
    BY <2>1, <2>4
  <2>6. out.file[(pos \div ByteSize) + 1][(pos % ByteSize) + 1] \in 0..1
    BY <2>4, <2>5 DEF Byte
  <2> QED BY <1>1, <2>6 DEF CodeBit, read
<1>2. CASE ~(pos < ByteSize * Len(out.file))
  BY <1>2 DEF CodeBit, read
<1> QED BY <1>1, <1>2

(***************************************************************************)
(* The interval: what a shift, an underflow and a narrowing make of its    *)
(* ends and of a code between them, with any bit shifted in.               *)
(***************************************************************************)
LEMMA ShiftEnds ==
  ASSUME NEW low \in Register, NEW high \in Register
  PROVE  /\ (2 * low) % MAX_RANGE \in Register
         /\ ((2 * high) % MAX_RANGE) + 1 \in Register
         /\ (low \div Half) % 2 = (high \div Half) % 2 =>
              \A code \in Register, bit \in 0..1 : low <= code /\ code <= high =>
                /\ ((2 * code) % MAX_RANGE) + bit \in Register
                /\ (2 * low) % MAX_RANGE <= ((2 * code) % MAX_RANGE) + bit
                /\ ((2 * code) % MAX_RANGE) + bit <= ((2 * high) % MAX_RANGE) + 1
<1> DEFINE Q == Quarter
<1>1. Q \in Nat /\ Q >= 2 /\ Half = 2 * Q /\ MAX_RANGE = 4 * Q /\ Register = 0..(4 * Q - 1)
  BY Sizes DEF Register
<1> HIDE DEF Q
<1>2. \A x \in Register :
        /\ (x \div Half) % 2 = IF x < 2 * Q THEN 0 ELSE 1
        /\ (2 * x) % MAX_RANGE = IF x < 2 * Q THEN 2 * x ELSE 2 * x - 4 * Q
  BY <1>1, Ends
<1>3. /\ (2 * low) % MAX_RANGE \in Register
      /\ ((2 * high) % MAX_RANGE) + 1 \in Register
  <2>1. /\ (2 * low) % MAX_RANGE = IF low < 2 * Q THEN 2 * low ELSE 2 * low - 4 * Q
        /\ (2 * high) % MAX_RANGE = IF high < 2 * Q THEN 2 * high ELSE 2 * high - 4 * Q
    BY <1>2
  <2> QED BY <1>1, <2>1
<1>4. ASSUME (low \div Half) % 2 = (high \div Half) % 2,
             NEW code \in Register, NEW bit \in 0..1, low <= code, code <= high
      PROVE  /\ ((2 * code) % MAX_RANGE) + bit \in Register
             /\ (2 * low) % MAX_RANGE <= ((2 * code) % MAX_RANGE) + bit
             /\ ((2 * code) % MAX_RANGE) + bit <= ((2 * high) % MAX_RANGE) + 1
  <2>1. /\ (low < 2 * Q) = (high < 2 * Q)
        /\ (2 * low) % MAX_RANGE = IF low < 2 * Q THEN 2 * low ELSE 2 * low - 4 * Q
        /\ (2 * high) % MAX_RANGE = IF high < 2 * Q THEN 2 * high ELSE 2 * high - 4 * Q
        /\ (2 * code) % MAX_RANGE = IF code < 2 * Q THEN 2 * code ELSE 2 * code - 4 * Q
    BY <1>2, <1>4
  <2> QED BY <1>1, <1>4, <2>1
<1> QED BY <1>3, <1>4

LEMMA SecondEnds ==
  ASSUME NEW low \in Register, NEW high \in Register
  PROVE  /\ (2 * low) % Half \in Register
         /\ ((2 * high) % Half) + Half + 1 \in Register
         /\ (low \div Half) % 2 # (high \div Half) % 2
            /\ (low \div Quarter) % 2 = 1 /\ (high \div Quarter) % 2 = 0 =>
              \A code \in Register, bit \in 0..1 : low <= code /\ code <= high =>
                /\ (code \div Half) * Half + ((2 * code) % Half) + bit \in Register
                /\ (2 * low) % Half <= (code \div Half) * Half + ((2 * code) % Half) + bit
                /\ (code \div Half) * Half + ((2 * code) % Half) + bit
                     <= ((2 * high) % Half) + Half + 1
<1> DEFINE Q == Quarter
<1>1. Q \in Nat /\ Q >= 2 /\ Half = 2 * Q /\ Register = 0..(4 * Q - 1) /\ Quarter = Q
  BY Sizes DEF Register
<1> HIDE DEF Q
<1>2. \A x \in Register :
        /\ (x \div Half) % 2 = IF x < 2 * Q THEN 0 ELSE 1
        /\ (x \div Quarter) % 2 = IF x < Q \/ (2 * Q <= x /\ x < 3 * Q) THEN 0 ELSE 1
        /\ (2 * x) % Half = IF x < Q THEN 2 * x ELSE
                            IF x < 2 * Q THEN 2 * x - 2 * Q ELSE
                            IF x < 3 * Q THEN 2 * x - 4 * Q ELSE 2 * x - 6 * Q
  BY <1>1, Ends
<1>3. \A x \in Register : (x \div Half) * Half = (IF x < 2 * Q THEN 0 ELSE 2 * Q)
  <2> TAKE x \in Register
  <2>1. x \div Half = IF x < 2 * Q THEN 0 ELSE 1
    BY <1>1
  <2> QED BY <1>1, <2>1
<1>4. /\ (2 * low) % Half \in Register
      /\ ((2 * high) % Half) + Half + 1 \in Register
  <2>1. /\ (2 * low) % Half \in 0..(2 * Q - 1)
        /\ (2 * high) % Half \in 0..(2 * Q - 2)
    <3>1. \A x \in Register :
            (2 * x) % Half = IF x < Q THEN 2 * x ELSE
                             IF x < 2 * Q THEN 2 * x - 2 * Q ELSE
                             IF x < 3 * Q THEN 2 * x - 4 * Q ELSE 2 * x - 6 * Q
      BY <1>2
    <3> QED BY <1>1, <3>1
  <2> QED BY <1>1, <2>1
<1>5. ASSUME (low \div Half) % 2 # (high \div Half) % 2,
             (low \div Quarter) % 2 = 1, (high \div Quarter) % 2 = 0,
             NEW code \in Register, NEW bit \in 0..1, low <= code, code <= high
      PROVE  /\ (code \div Half) * Half + ((2 * code) % Half) + bit \in Register
             /\ (2 * low) % Half <= (code \div Half) * Half + ((2 * code) % Half) + bit
             /\ (code \div Half) * Half + ((2 * code) % Half) + bit
                  <= ((2 * high) % Half) + Half + 1
  <2>1. Q <= low /\ low < 2 * Q /\ 2 * Q <= high /\ high < 3 * Q
    <3>1. (low < 2 * Q) # (high < 2 * Q)
      BY <1>2, <1>5
    <3>2. low < 2 * Q /\ 2 * Q <= high
      BY <1>1, <1>5, <3>1
    <3>3. /\ ~(low < Q \/ (2 * Q <= low /\ low < 3 * Q))
          /\ high < Q \/ (2 * Q <= high /\ high < 3 * Q)
      BY <1>2, <1>5
    <3> QED BY <1>1, <3>2, <3>3
  <2>2. (2 * low) % Half = 2 * low - 2 * Q /\ (2 * high) % Half = 2 * high - 4 * Q
    BY <1>1, <1>2, <2>1
  <2>3. (code \div Half) * Half + ((2 * code) % Half) = 2 * code - 2 * Q
    <3>0. (2 * code) % Half = IF code < Q THEN 2 * code ELSE
                              IF code < 2 * Q THEN 2 * code - 2 * Q ELSE
                              IF code < 3 * Q THEN 2 * code - 4 * Q ELSE 2 * code - 6 * Q
      BY <1>2
    <3>1. CASE code < 2 * Q
      <4>1. (code \div Half) * Half = 0
        BY <1>1, <1>3, <3>1
      <4>2. Q <= code /\ code < 3 * Q
        BY <1>1, <1>5, <2>1
      <4>3. (2 * code) % Half = 2 * code - 2 * Q
        BY <1>1, <3>0, <4>2, <3>1
      <4> QED BY <1>1, <4>1, <4>3
    <3>2. CASE 2 * Q <= code
      <4>1. (code \div Half) * Half = 2 * Q
        <5>1. ~(code < 2 * Q)
          BY <1>1, <3>2
        <5> QED BY <1>3, <5>1
      <4>2. Q <= code /\ code < 3 * Q
        BY <1>1, <1>5, <2>1
      <4>3. (2 * code) % Half = 2 * code - 4 * Q
        BY <1>1, <3>0, <4>2, <3>2
      <4> QED BY <1>1, <4>1, <4>3
    <3> QED BY <1>1, <3>1, <3>2
  <2>4. 2 * code - 2 * Q + bit \in Register
    BY <1>1, <1>5, <2>1
  <2> QED BY <1>1, <1>5, <2>1, <2>2, <2>3, <2>4
<1> QED BY <1>4, <1>5

\* Where the loops of update stop, the interval is a good one.
LEMMA SettledIsGood ==
  ASSUME NEW c, c.low \in Register, c.high \in Register, c.low <= c.high, Settled(c)
  PROVE  GoodInterval(c)
<1> DEFINE Q == Quarter
<1>1. /\ Q \in Nat /\ Q >= 2 /\ Half = 2 * Q /\ Register = 0..(4 * Q - 1) /\ Quarter = Q
      /\ MAX_RANGE = 4 * Q /\ MIN_RANGE = Q + 2
  BY Sizes DEF Register
<1> HIDE DEF Q
<1>2. \A x \in Register :
        /\ (x \div Half) % 2 = IF x < 2 * Q THEN 0 ELSE 1
        /\ (x \div Quarter) % 2 = IF x < Q \/ (2 * Q <= x /\ x < 3 * Q) THEN 0 ELSE 1
  BY <1>1, Ends
<1>3. (c.low < 2 * Q) # (c.high < 2 * Q)
  BY <1>2 DEF Settled, SameTop
<1>4. c.low < 2 * Q /\ 2 * Q <= c.high
  BY <1>1, <1>3
<1>5. c.low < Q \/ 3 * Q <= c.high
  <2>1. (c.low \div Quarter) % 2 # 1 \/ (c.high \div Quarter) % 2 # 0
    BY DEF Settled, Straddles
  <2>2. ~(Q <= c.low /\ c.high < 3 * Q)
    <3>1. /\ (c.low \div Quarter) % 2 =
               IF c.low < Q \/ (2 * Q <= c.low /\ c.low < 3 * Q) THEN 0 ELSE 1
          /\ (c.high \div Quarter) % 2 =
               IF c.high < Q \/ (2 * Q <= c.high /\ c.high < 3 * Q) THEN 0 ELSE 1
      BY <1>2
    <3> QED BY <1>1, <1>4, <2>1, <3>1
  <2> QED BY <1>1, <2>2
<1> QED BY <1>1, <1>4, <1>5 DEF GoodInterval

LEMMA TableFacts ==
  ASSUME NEW t \in Tables, NEW s \in Symbols(t)
  PROVE  /\ t[s] \in Nat /\ t[s + 1] \in Nat /\ t[s] < t[s + 1]
         /\ t[s + 1] <= Last(t) /\ Last(t) \in Nat \ {0} /\ s \in Nat
<1>1. /\ t \in Seq(Nat) /\ Len(t) > 1 /\ Len(t) \in Nat /\ t[1] = 0
      /\ \A a, b \in DOMAIN t : a < b => t[a] < t[b]
  BY CoderAssumption
<1>2. s \in DOMAIN t /\ s + 1 \in DOMAIN t /\ Len(t) \in DOMAIN t /\ 1 \in DOMAIN t /\ s \in Nat
  BY <1>1 DEF Symbols
<1>3. t[s] < t[s + 1] /\ t[s] \in Nat /\ t[s + 1] \in Nat /\ t[Len(t)] \in Nat
  BY <1>1, <1>2
<1>4. t[s + 1] <= t[Len(t)]
  <2>1. s + 1 = Len(t) \/ s + 1 < Len(t)
    BY <1>1 DEF Symbols
  <2> QED BY <1>1, <1>2, <1>3, <2>1
<1>5. t[1] < t[Len(t)]
  BY <1>1, <1>2
<1> QED BY <1>1, <1>2, <1>3, <1>4, <1>5 DEF Last

\* The narrowed interval: it stays in the registers, and is not empty if the
\* width is not below the total.
LEMMA NarrowEnds ==
  ASSUME NEW c, c.low \in Register, c.high \in Register, c.low <= c.high, Settled(c),
         NEW ends \in 0..1, NEW t \in Tables, NEW s \in Symbols(t), Last(t) <= MAX_TOTAL,
         NEW width, width = c.high - c.low + ends
  PROVE  /\ NewLow(c, width, t, s) \in Register /\ NewHigh(c, width, t, s) \in Register
         /\ ends = 1 \/ Last(t) < MAX_TOTAL =>
              NewLow(c, width, t, s) <= NewHigh(c, width, t, s)
<1> DEFINE T == Last(t)
           y == t[s]
           z == t[s + 1]
           a == (y * width) \div T
           b == (z * width) \div T
           Q == Quarter
<1>1. y \in Nat /\ z \in Nat /\ y < z /\ z <= T /\ T \in Nat \ {0}
  BY TableFacts
<1>2. /\ Q \in Nat /\ Q >= 2 /\ Half = 2 * Q /\ Register = 0..(4 * Q - 1)
      /\ MAX_RANGE = 4 * Q /\ MIN_RANGE = Q + 2 /\ MAX_TOTAL = Q + 2
  BY Sizes DEF Register
<1>3. GoodInterval(c)
  BY SettledIsGood
<1>4. T <= Q + 2
  BY <1>2
<1>5. NewLow(c, width, t, s) = c.low + a /\ NewHigh(c, width, t, s) = c.low + b - 1
  BY DEF NewLow, NewHigh
<1>6. c.low \in Nat /\ c.high \in Nat /\ width \in Nat /\ width >= Q + 1 + ends
      /\ c.low < 2 * Q /\ 2 * Q <= c.high /\ c.high < 4 * Q
  <2> HIDE DEF Q
  <2> QED BY <1>2, <1>3 DEF GoodInterval
<1> HIDE DEF T, y, z, Q
<1>7. /\ a \in Nat /\ b \in Nat /\ a <= b /\ b <= width
      /\ (T <= width => a < b) /\ (width > 0 => a < width)
  BY <1>1, <1>6, Parts
<1> HIDE DEF a, b
<1>8. c.low + a \in Register
  BY <1>2, <1>6, <1>7
<1>9. c.low + b - 1 \in Register
  <2>1. c.low = 0 => T <= width
    BY <1>1, <1>2, <1>4, <1>6
  <2> QED BY <1>2, <1>6, <1>7, <2>1
<1>10. ends = 1 \/ T < Q + 2 => c.low + a <= c.low + b - 1
  <2>1. T <= Q + 2 /\ (T < Q + 2 => T <= Q + 1)
    BY <1>1, <1>2, <1>4
  <2>2. ends = 1 \/ T < Q + 2 => T <= width
    BY <1>1, <1>2, <1>6, <2>1
  <2> QED BY <1>6, <1>7, <2>2
<1> QED BY <1>2, <1>5, <1>8, <1>9, <1>10 DEF T

(***************************************************************************)
(* The inductive invariant.  For the encoder: as long as its tables        *)
(* promise it, the interval is not empty, and it is a good one where the   *)
(* loops stop. For the decoder: the code it has read lies in its interval, *)
(* from the moment the constructor has filled it; until then it is less    *)
(* than a power of two for every bit read.                                 *)
(***************************************************************************)
EncType == [low : Register, high : Register, num_underflow : Nat]
DecType == [low : Register, high : Register, code : Register]
Coded   == [table : Tables, symbol : Nat]

EncoderInv ==
  /\ message \in Seq(Coded) /\ enc \in EncType /\ StreamOK(out)
  /\ \A k \in DOMAIN message : Last(message[k].table) <= MAX_TOTAL
  /\ phase = "shift" => SameTop(enc)
  /\ Promised => enc.low <= enc.high

DecoderInv ==
  /\ decoded \in Seq(Nat) /\ dec \in DecType /\ pos \in Nat
  /\ dec.low <= dec.high
  /\ phase \in {"encode", "shift"} => pos = 0 /\ dec.code = 0
  /\ phase = "fill" => pos < StateSize
  /\ phase # "decode" => dec.low = 0 /\ dec.high = MASK /\ dec.code < 2 ^ pos
  /\ CodeInInterval

IInv ==
  /\ phase \in {"encode", "shift", "fill", "decode"} /\ closed \in Encoders
  /\ EncoderInv /\ DecoderInv

(***************************************************************************)
(* One lemma for the initial states, and one for each action.              *)
(***************************************************************************)
LEMMA Initially ==
  ASSUME Init
  PROVE  IInv
<1>1. 0 \in Register /\ MASK \in Register /\ 0 <= MASK
  BY Sizes DEF Register
<1>2. StreamOK(NewOutput)
  <2>1. <<>> \in Bits /\ Len(<<>>) = 0 /\ <<>> \in Seq(Byte)
    BY DEF Bits
  <2>2. ByteSize \in Nat \ {0}
    BY CoderAssumption
  <2>3. 0 = ByteSize * 0 + 0 /\ 0 < ByteSize
    BY <2>2
  <2> QED BY <2>1, <2>3 DEF StreamOK, NewOutput
<1>3. enc \in EncType /\ enc.low <= enc.high
  BY <1>1 DEF Init, EncType
<1>4. dec \in DecType /\ dec.low <= dec.high /\ dec.code = 0 /\ dec.low = 0 /\ dec.high = MASK
  BY <1>1 DEF Init, DecType
<1>5. EncoderInv
  BY <1>2, <1>3 DEF Init, EncoderInv
<1>6. DecoderInv
  <2>1. dec.code < 2 ^ pos
    BY <1>4, PowersOfTwo DEF Init
  <2> QED BY <1>4, <2>1 DEF Init, DecoderInv, CodeInInterval
<1> QED BY <1>5, <1>6 DEF Init, IInv

LEMMA EncoderWriteStep ==
  ASSUME IInv, NEW t \in Tables, NEW s \in Symbols(t), EncoderWrite(t, s)
  PROVE  IInv'
<1>1. /\ phase = "encode" /\ Settled(enc) /\ enc.low <= enc.high /\ Last(t) <= MAX_TOTAL
      /\ closed \in 0..1 /\ enc \in EncType /\ message \in Seq(Coded)
  BY CoderAssumption DEF EncoderWrite, IInv, EncoderInv
<1> DEFINE w == enc.high - enc.low + closed
           m == [table |-> t, symbol |-> s]
<1>2. enc' = [enc EXCEPT !.low = NewLow(enc, w, t, s), !.high = NewHigh(enc, w, t, s)]
  BY DEF EncoderWrite, Narrow
<1>3. /\ NewLow(enc, w, t, s) \in Register /\ NewHigh(enc, w, t, s) \in Register
      /\ closed = 1 \/ Last(t) < MAX_TOTAL => NewLow(enc, w, t, s) <= NewHigh(enc, w, t, s)
  BY <1>1, NarrowEnds DEF EncType
<1> HIDE DEF w
<1>4. /\ enc' \in EncType /\ enc'.low = NewLow(enc, w, t, s)
      /\ enc'.high = NewHigh(enc, w, t, s)
  BY <1>1, <1>2, <1>3 DEF EncType
<1>5. m \in Coded
  BY TableFacts DEF Coded
<1>6. /\ message' \in Seq(Coded) /\ Len(message') = Len(message) + 1
      /\ Len(message) \in Nat
      /\ \A k \in 1..Len(message) : message'[k] = message[k]
      /\ message'[Len(message) + 1] = m
  <2>1. message' = Append(message, m)
    BY DEF EncoderWrite
  <2> HIDE DEF m
  <2> QED BY <1>1, <1>5, <2>1
<1>7. \A k \in DOMAIN message' : Last(message'[k].table) <= MAX_TOTAL
  <2> SUFFICES ASSUME NEW k \in 1..(Len(message) + 1)
               PROVE  Last(message'[k].table) <= MAX_TOTAL
    BY <1>6
  <2>1. CASE k \in 1..Len(message)
    BY <1>1, <1>6, <2>1 DEF IInv, EncoderInv
  <2>2. CASE k = Len(message) + 1
    BY <1>1, <1>6, <2>2
  <2> QED BY <1>6, <2>1, <2>2
<1>8. Promised' => enc'.low <= enc'.high
  <2>1. SUFFICES ASSUME Promised'
                 PROVE  closed = 1 \/ Last(t) < MAX_TOTAL
    BY <1>3, <1>4
  <2>2. closed' = closed
    BY DEF EncoderWrite
  <2>3. CASE closed # 1
    <3>1. Last(message'[Len(message) + 1].table) < MAX_TOTAL
      BY <1>6, <2>1, <2>2, <2>3 DEF Promised
    <3> QED BY <1>6, <3>1
  <2> QED BY <2>3
<1>9. EncoderInv'
  BY <1>1, <1>4, <1>6, <1>7, <1>8 DEF EncoderInv, EncoderWrite, IInv
<1>10. DecoderInv'
  BY DEF DecoderInv, CodeInInterval, EncoderWrite, IInv
<1> QED BY <1>9, <1>10 DEF IInv, EncoderWrite

LEMMA TopBitIsBit ==
  ASSUME IInv
  PROVE  TopBit \in 0..1
<1>1. enc.low \in 0..(4 * Quarter - 1) /\ Half = 2 * Quarter /\ Quarter \in Nat /\ Quarter >= 2
  BY Sizes DEF IInv, EncoderInv, EncType, Register
<1>2. enc.low \div Half \in 0..1
  BY <1>1
<1> QED BY <1>2 DEF TopBit

LEMMA EncoderTopBitStep ==
  ASSUME IInv, EncoderTopBit
  PROVE  IInv'
<1>1. StreamOK(out')
  BY TopBitIsBit, Written DEF EncoderTopBit, IInv, EncoderInv
<1>2. EncoderInv'
  <2>1. Promised' = Promised /\ SameTop(enc)'
    BY DEF Promised, EncoderTopBit, SameTop
  <2> QED BY <1>1, <2>1 DEF EncoderInv, EncoderTopBit, IInv, StreamOK
<1>3. DecoderInv'
  BY DEF DecoderInv, CodeInInterval, EncoderTopBit, IInv
<1> QED BY <1>2, <1>3 DEF IInv, EncoderTopBit

LEMMA EncoderPendingStep ==
  ASSUME IInv, EncoderPending
  PROVE  IInv'
<1>1. StreamOK(out')
  <2>1. 1 - TopBit \in 0..1
    BY TopBitIsBit
  <2> QED BY <2>1, Written DEF EncoderPending, IInv, EncoderInv
<1>2. enc' \in EncType /\ enc'.low = enc.low /\ enc'.high = enc.high
  BY DEF EncoderPending, IInv, EncoderInv, EncType
<1>3. EncoderInv'
  <2>1. Promised' = Promised
    BY DEF Promised, EncoderPending
  <2>2. SameTop(enc')
    BY <1>2 DEF SameTop, EncoderPending, IInv, EncoderInv
  <2> QED BY <1>1, <1>2, <2>1, <2>2 DEF EncoderInv, EncoderPending, IInv
<1>4. DecoderInv'
  BY DEF DecoderInv, CodeInInterval, EncoderPending, IInv
<1> QED BY <1>3, <1>4 DEF IInv, EncoderPending

LEMMA EncoderShiftStep ==
  ASSUME IInv, EncoderShift
  PROVE  IInv'
<1>1. enc \in EncType /\ SameTop(enc) /\ (Promised => enc.low <= enc.high)
  BY DEF EncoderShift, IInv, EncoderInv
<1>2. /\ enc' \in EncType /\ enc'.low = (2 * enc.low) % MAX_RANGE
      /\ enc'.high = ((2 * enc.high) % MAX_RANGE) + 1
  BY <1>1, ShiftEnds DEF EncoderShift, Shifted, EncType
<1>3. enc.low <= enc.high => enc'.low <= enc'.high
  <2> SUFFICES ASSUME enc.low <= enc.high PROVE enc'.low <= enc'.high
    OBVIOUS
  <2> DEFINE mid == ((2 * enc.low) % MAX_RANGE) + 0
  <2>1. enc.low \in Register /\ enc.high \in Register /\ enc.low <= enc.low /\ 0 \in 0..1
    BY <1>1, Sizes DEF EncType, Register
  <2>2. mid \in Register /\ enc'.low <= mid /\ mid <= enc'.high
    BY <1>1, <1>2, <2>1, ShiftEnds DEF SameTop
  <2>3. enc'.low \in Int /\ enc'.high \in Int /\ mid \in Int
    BY <1>2, <2>2 DEF EncType, Register
  <2> HIDE DEF mid
  <2> QED BY <2>2, <2>3
<1>4. EncoderInv'
  <2>1. Promised' = Promised
    BY DEF Promised, EncoderShift
  <2> QED BY <1>1, <1>2, <1>3, <2>1 DEF EncoderInv, EncoderShift, IInv
<1>5. DecoderInv'
  BY DEF DecoderInv, CodeInInterval, EncoderShift, IInv
<1> QED BY <1>4, <1>5 DEF IInv, EncoderShift

LEMMA EncoderUnderflowStep ==
  ASSUME IInv, EncoderUnderflow
  PROVE  IInv'
<1>1. /\ enc \in EncType /\ ~SameTop(enc) /\ Straddles(enc)
      /\ (Promised => enc.low <= enc.high)
  BY DEF EncoderUnderflow, IInv, EncoderInv
<1>2. /\ enc' \in EncType /\ enc'.low = (2 * enc.low) % Half
      /\ enc'.high = ((2 * enc.high) % Half) + Half + 1
  <2> DEFINE a == (2 * enc.low) % Half
             b == ((2 * enc.high) % Half) + Half + 1
  <2>1. a \in Register /\ b \in Register
    BY <1>1, SecondEnds DEF EncType
  <2>2. enc' = [[enc EXCEPT !.low = a, !.high = b] EXCEPT !.num_underflow = @ + 1]
    BY DEF EncoderUnderflow, SecondOut
  <2> HIDE DEF a, b
  <2> DEFINE e == [enc EXCEPT !.low = a, !.high = b]
  <2>3. e \in EncType /\ e.low = a /\ e.high = b
    BY <1>1, <2>1 DEF EncType
  <2>4. enc' = [e EXCEPT !.num_underflow = e.num_underflow + 1]
    BY <2>2
  <2> HIDE DEF e
  <2>5. enc' \in EncType /\ enc'.low = a /\ enc'.high = b
    BY <2>3, <2>4 DEF EncType
  <2> QED BY <2>5 DEF a, b
<1>3. enc.low <= enc.high => enc'.low <= enc'.high
  <2> SUFFICES ASSUME enc.low <= enc.high PROVE enc'.low <= enc'.high
    OBVIOUS
  <2> DEFINE mid == (enc.low \div Half) * Half + ((2 * enc.low) % Half) + 0
  <2>1. enc.low \in Register /\ enc.high \in Register /\ enc.low <= enc.low /\ 0 \in 0..1
    BY <1>1, Sizes DEF EncType, Register
  <2>2. mid \in Register /\ enc'.low <= mid /\ mid <= enc'.high
    BY <1>1, <1>2, <2>1, SecondEnds DEF SameTop, Straddles
  <2>3. enc'.low \in Int /\ enc'.high \in Int /\ mid \in Int
    BY <1>2, <2>2 DEF EncType, Register
  <2> HIDE DEF mid
  <2> QED BY <2>2, <2>3
<1>4. EncoderInv'
  <2>1. Promised' = Promised
    BY DEF Promised, EncoderUnderflow
  <2> QED BY <1>1, <1>2, <1>3, <2>1 DEF EncoderInv, EncoderUnderflow, IInv
<1>5. DecoderInv'
  BY DEF DecoderInv, CodeInInterval, EncoderUnderflow, IInv
<1> QED BY <1>4, <1>5 DEF IInv, EncoderUnderflow

LEMMA FinishStep ==
  ASSUME IInv, Finish
  PROVE  IInv'
<1>1. StreamOK(out')
  <2>1. 1 \in 0..1 /\ StreamOK(out)
    BY DEF IInv, EncoderInv
  <2> QED BY <2>1, Written, Closed DEF Finish
<1>2. EncoderInv'
  <2>1. Promised' = Promised
    BY DEF Promised, Finish
  <2> QED BY <1>1, <2>1 DEF EncoderInv, Finish, IInv
<1>3. DecoderInv'
  BY CoderAssumption DEF DecoderInv, CodeInInterval, Finish, IInv
<1> QED BY <1>2, <1>3 DEF IInv, Finish

LEMMA DecoderFillStep ==
  ASSUME IInv, DecoderFill
  PROVE  IInv'
<1>1. /\ phase = "fill" /\ pos \in Nat /\ pos < StateSize /\ dec \in DecType
      /\ dec.low = 0 /\ dec.high = MASK /\ dec.code < 2 ^ pos
      /\ pos' = pos + 1 /\ dec' = [dec EXCEPT !.code = 2 * dec.code + CodeBit]
      /\ phase' = IF pos' = StateSize THEN "decode" ELSE "fill"
      /\ StreamOK(out) /\ StateSize \in Nat
  BY CoderAssumption DEF DecoderFill, IInv, EncoderInv, DecoderInv
<1>2. CodeBit \in 0..1
  BY <1>1, ReadBit
<1>3. /\ 2 ^ pos \in Nat \ {0} /\ 2 ^ (pos + 1) = 2 * 2 ^ pos
      /\ 2 ^ (pos + 1) <= MAX_RANGE
  BY <1>1, PowersOfTwo
<1>4. dec.code \in Nat /\ Register = 0..(MAX_RANGE - 1) /\ MASK = MAX_RANGE - 1
      /\ MAX_RANGE \in Nat /\ MASK \in Nat
  BY <1>1, Sizes DEF DecType, Register, MASK
<1>5. 2 * dec.code + CodeBit < 2 ^ (pos + 1) /\ 2 * dec.code + CodeBit \in Register
  <2> DEFINE p == 2 ^ pos
             r == 2 ^ (pos + 1)
  <2>1. p \in Nat /\ r = 2 * p /\ r <= MAX_RANGE /\ dec.code < p
    BY <1>1, <1>3
  <2> HIDE DEF p, r
  <2>2. 2 * dec.code + CodeBit < r /\ 2 * dec.code + CodeBit \in Register
    BY <1>2, <1>4, <2>1
  <2> QED BY <2>2 DEF r
<1>6. /\ dec' \in DecType /\ dec'.low = 0 /\ dec'.high = MASK
      /\ dec'.code = 2 * dec.code + CodeBit
  BY <1>1, <1>5 DEF DecType
<1>7. dec'.low <= dec'.code /\ dec'.code <= dec'.high /\ dec'.low <= dec'.high
  BY <1>4, <1>5, <1>6
<1>8. DecoderInv'
  <2>1. phase' # "decode" => pos' < StateSize
    BY <1>1
  <2>2. pos' \in Nat /\ phase' \in {"fill", "decode"} /\ decoded' \in Seq(Nat)
    BY <1>1 DEF DecoderFill, IInv, DecoderInv
  <2>3. dec'.code < 2 ^ pos'
    BY <1>1, <1>5, <1>6
  <2> QED BY <1>6, <1>7, <2>1, <2>2, <2>3 DEF DecoderInv, CodeInInterval
<1>9. EncoderInv'
  <2>1. Promised' = Promised
    BY DEF Promised, DecoderFill
  <2> QED BY <1>1, <2>1 DEF EncoderInv, DecoderFill, IInv
<1> QED BY <1>1, <1>8, <1>9 DEF IInv, DecoderFill

\* The encoder's part of the invariant is left alone by the decoder.
LEMMA EncoderRests ==
  ASSUME IInv, phase = "decode",
         UNCHANGED <<phase, closed, message, enc, out>>, DecoderInv'
  PROVE  IInv'
<1>1. EncoderInv'
  <2>1. Promised' = Promised
    BY DEF Promised
  <2> QED BY <2>1 DEF EncoderInv, IInv
<1> QED BY <1>1 DEF IInv

LEMMA DecoderReadStep ==
  ASSUME IInv, DecoderRead
  PROVE  IInv'
<1> DEFINE t == message[Len(decoded) + 1].table
           w == dec.high - dec.low + 1
           o == dec.code - dec.low
           v == ((dec.code - dec.low + 1) * Last(t) - 1) \div w
<1>1. PICK s \in Symbols(t) :
        /\ t[s] <= v /\ v < t[s + 1]
        /\ dec' = Narrow(dec, 1, t, s)
        /\ decoded' = Append(decoded, s)
  BY DEF DecoderRead
<1>2. /\ phase = "decode" /\ Settled(dec) /\ dec \in DecType /\ decoded \in Seq(Nat)
      /\ dec.low <= dec.code /\ dec.code <= dec.high /\ dec.low <= dec.high
      /\ message \in Seq(Coded) /\ Len(decoded) < Len(message)
      /\ Len(decoded) \in Nat /\ Len(message) \in Nat
  BY DEF DecoderRead, IInv, EncoderInv, DecoderInv, CodeInInterval
<1>3. t \in Tables /\ Last(t) <= MAX_TOTAL
  <2>1. Len(decoded) + 1 \in DOMAIN message
    BY <1>2
  <2>2. message[Len(decoded) + 1] \in Coded
    BY <1>2, <2>1
  <2> QED BY <2>1, <2>2 DEF Coded, IInv, EncoderInv
<1> HIDE DEF t
<1>4. /\ t[s] \in Nat /\ t[s + 1] \in Nat /\ t[s] < t[s + 1]
      /\ Last(t) \in Nat \ {0} /\ s \in Nat
  BY <1>3, TableFacts
<1>5. /\ dec.low \in Nat /\ dec.high \in Nat /\ dec.code \in Nat
      /\ w \in Nat \ {0} /\ o \in 0..(w - 1) /\ dec.code = dec.low + o
  <2>1. dec.low \in Nat /\ dec.high \in Nat /\ dec.code \in Nat
    BY <1>2 DEF DecType, Register
  <2> QED BY <1>2, <2>1
<1>6. (t[s] * w) \div Last(t) <= o /\ o < (t[s + 1] * w) \div Last(t)
  <2>1. v = ((o + 1) * Last(t) - 1) \div w
    OBVIOUS
  <2>2. t[s] <= v /\ v < t[s + 1]
    BY <1>1
  <2> DEFINE T == Last(t)
             y == t[s]
             z == t[s + 1]
  <2>3. y \in Nat /\ z \in Nat /\ T \in Nat \ {0} /\ w \in Nat \ {0} /\ o \in 0..(w - 1)
    BY <1>4, <1>5
  <2>4. v = ((o + 1) * T - 1) \div w /\ y <= v /\ v < z
    BY <2>1, <2>2
  <2> HIDE DEF v, o, w, T, y, z
  <2>5. (y * w) \div T <= o /\ o < (z * w) \div T
    BY <2>3, <2>4, CodeInPart
  <2> QED BY <2>5 DEF T, y, z
<1>7. dec' = [dec EXCEPT !.low = NewLow(dec, w, t, s), !.high = NewHigh(dec, w, t, s)]
  BY <1>1 DEF Narrow
<1>8. NewLow(dec, w, t, s) \in Register /\ NewHigh(dec, w, t, s) \in Register
  BY <1>2, <1>3, NarrowEnds DEF DecType
<1>9. NewLow(dec, w, t, s) <= dec.code /\ dec.code <= NewHigh(dec, w, t, s)
  <2> DEFINE a == (t[s] * w) \div Last(t)
             b == (t[s + 1] * w) \div Last(t)
  <2>1. a \in Nat /\ b \in Nat
    <3>1. t[s] * w \in Nat /\ t[s + 1] * w \in Nat
      <4> HIDE DEF w
      <4> QED BY <1>4, <1>5
    <3> HIDE DEF w
    <3> QED BY <1>4, <3>1, Quotient
  <2>2. NewLow(dec, w, t, s) = dec.low + a /\ NewHigh(dec, w, t, s) = dec.low + b - 1
    BY DEF NewLow, NewHigh
  <2> HIDE DEF a, b, o, w, v
  <2>3. a <= o /\ o < b
    BY <1>6 DEF a, b
  <2>4. o \in Nat /\ dec.low \in Nat /\ dec.code = dec.low + o
    BY <1>5
  <2>5. dec.low + a <= dec.low + o /\ dec.low + o <= dec.low + b - 1
    BY <2>1, <2>3, <2>4
  <2> QED BY <2>2, <2>4, <2>5
<1> HIDE DEF w, o, v
<1>10. /\ dec' \in DecType /\ dec'.code = dec.code
       /\ dec'.low = NewLow(dec, w, t, s) /\ dec'.high = NewHigh(dec, w, t, s)
  BY <1>2, <1>7, <1>8 DEF DecType
<1>11. dec'.low <= dec'.code /\ dec'.code <= dec'.high /\ dec'.low <= dec'.high
  <2>1. dec'.low \in Nat /\ dec'.high \in Nat /\ dec'.code \in Nat
    BY <1>10 DEF DecType, Register
  <2> QED BY <1>9, <1>10, <2>1
<1>12. DecoderInv'
  <2>1. decoded' \in Seq(Nat) /\ phase' = "decode" /\ pos' \in Nat
    BY <1>1, <1>2, <1>4 DEF DecoderRead, IInv, DecoderInv
  <2> QED BY <1>10, <1>11, <2>1 DEF DecoderInv, CodeInInterval
<1> QED BY <1>2, <1>12, EncoderRests DEF DecoderRead

LEMMA DecoderShiftStep ==
  ASSUME IInv, DecoderShift
  PROVE  IInv'
<1>1. /\ phase = "decode" /\ SameTop(dec) /\ dec \in DecType
      /\ dec.low <= dec.code /\ dec.code <= dec.high /\ pos \in Nat /\ StreamOK(out)
  BY DEF DecoderShift, IInv, EncoderInv, DecoderInv, CodeInInterval
<1>2. CodeBit \in 0..1
  BY <1>1, ReadBit
<1> DEFINE a == (2 * dec.low) % MAX_RANGE
           b == ((2 * dec.high) % MAX_RANGE) + 1
           c == ((2 * dec.code) % MAX_RANGE) + CodeBit
<1>3. a \in Register /\ b \in Register /\ c \in Register /\ a <= c /\ c <= b
  BY <1>1, <1>2, ShiftEnds DEF DecType, SameTop
<1>4. dec' = [[dec EXCEPT !.low = a, !.high = b] EXCEPT !.code = c]
  BY <1>1 DEF DecoderShift, Shifted, DecType
<1> HIDE DEF a, b, c
<1>5. dec' \in DecType /\ dec'.low = a /\ dec'.high = b /\ dec'.code = c
  BY <1>1, <1>3, <1>4 DEF DecType
<1>6. dec'.low <= dec'.high
  BY <1>3, <1>5, Sizes DEF Register
<1>7. DecoderInv'
  BY <1>1, <1>3, <1>5, <1>6 DEF DecoderInv, CodeInInterval, DecoderShift, IInv
<1> QED BY <1>1, <1>7, EncoderRests DEF DecoderShift

LEMMA DecoderUnderflowStep ==
  ASSUME IInv, DecoderUnderflow
  PROVE  IInv'
<1>1. /\ phase = "decode" /\ ~SameTop(dec) /\ Straddles(dec) /\ dec \in DecType
      /\ dec.low <= dec.code /\ dec.code <= dec.high /\ pos \in Nat /\ StreamOK(out)
  BY DEF DecoderUnderflow, IInv, EncoderInv, DecoderInv, CodeInInterval
<1>2. CodeBit \in 0..1
  BY <1>1, ReadBit
<1> DEFINE a == (2 * dec.low) % Half
           b == ((2 * dec.high) % Half) + Half + 1
           c == (dec.code \div Half) * Half + ((2 * dec.code) % Half) + CodeBit
<1>3. a \in Register /\ b \in Register /\ c \in Register /\ a <= c /\ c <= b
  BY <1>1, <1>2, SecondEnds DEF DecType, SameTop, Straddles
<1>4. dec' = [[dec EXCEPT !.low = a, !.high = b] EXCEPT !.code = c]
  BY <1>1 DEF DecoderUnderflow, SecondOut, CodeSecondOut, DecType
<1> HIDE DEF a, b, c
<1>5. dec' \in DecType /\ dec'.low = a /\ dec'.high = b /\ dec'.code = c
  BY <1>1, <1>3, <1>4 DEF DecType
<1>6. dec'.low <= dec'.high
  BY <1>3, <1>5, Sizes DEF Register
<1>7. DecoderInv'
  BY <1>1, <1>3, <1>5, <1>6 DEF DecoderInv, CodeInInterval, DecoderUnderflow, IInv
<1> QED BY <1>1, <1>7, EncoderRests DEF DecoderUnderflow

LEMMA Stutter ==
  ASSUME IInv, UNCHANGED vars
  PROVE  IInv'
<1>1. EncoderInv'
  <2>1. Promised' = Promised
    BY DEF Promised, vars
  <2> QED BY <2>1 DEF EncoderInv, IInv, vars, SameTop
<1>2. DecoderInv'
  BY DEF DecoderInv, CodeInInterval, IInv, vars
<1> QED BY <1>1, <1>2 DEF IInv, vars

(***************************************************************************)
(* The inductive invariant holds in every reachable state.                 *)
(***************************************************************************)
THEOREM Invariance == Spec => []IInv
<1>1. Init => IInv
  BY Initially
<1>2. IInv /\ [Next]_vars => IInv'
  BY EncoderWriteStep, EncoderTopBitStep, EncoderPendingStep, EncoderShiftStep,
     EncoderUnderflowStep, FinishStep, DecoderFillStep, DecoderReadStep,
     DecoderShiftStep, DecoderUnderflowStep, Stutter
     DEF Next, Encoder, Decoder
<1> QED BY <1>1, <1>2, PTL DEF Spec

(***************************************************************************)
(* Type correctness: the registers never take more than StateSize bits,    *)
(* and fewer than a byte of bits is not yet written.                       *)
(***************************************************************************)
THEOREM TypeCorrect == Spec => []TypeOK
<1>1. IInv => TypeOK
  BY DEF IInv, EncoderInv, DecoderInv, StreamOK, TypeOK, EncType, DecType, Coded
<1> QED BY <1>1, Invariance, PTL

(***************************************************************************)
(* Between two symbols the interval is wide enough for MAX_TOTAL, of the   *)
(* decoder always, of the encoder as long as its tables promise it.        *)
(***************************************************************************)
THEOREM GoodIntervals == Spec => []IntervalsGood
<1>1. IInv => IntervalsGood
  BY SettledIsGood DEF IInv, EncoderInv, DecoderInv, EncType, DecType, IntervalsGood
<1> QED BY <1>1, Invariance, PTL

(***************************************************************************)
(* The decoder's code never leaves its interval, whatever the file holds.  *)
(***************************************************************************)
THEOREM CodeStays == Spec => []CodeInInterval
<1>1. IInv => CodeInInterval
  BY DEF IInv, DecoderInv
<1> QED BY <1>1, Invariance, PTL

(***************************************************************************)
(* The count of bits is the number of bits in the file and in the byte not *)
(* yet full.                                                               *)
(***************************************************************************)
THEOREM AllBitsCounted == Spec => []BitsCounted
<1>1. IInv => BitsCounted
  BY DEF IInv, EncoderInv, StreamOK, BitsCounted
<1> QED BY <1>1, Invariance, PTL

-----------------------------------------------------------------------------
(***************************************************************************)
(* Decoding.  A stream is the bits of a file and the zeros behind them;    *)
(* Number(S, p)[l] is the number its l bits from p on form.                *)
(***************************************************************************)
\* Induction, for a property given as a set of numbers.
LEMMA Induction ==
  ASSUME NEW S, 0 \in S, \A n \in Nat : n \in S => n + 1 \in S
  PROVE  Nat \subseteq S
<1> DEFINE R == OpToRel(<, Nat)
           T == Nat \ S
<1> SUFFICES ASSUME T # {} PROVE FALSE
  OBVIOUS
<1>1. IsWellFoundedOn(R, Nat)
  BY NatLessThanWellFounded
<1>2. \A x, y \in Nat : x < y => <<x, y>> \in R
  BY DEF OpToRel
<1> HIDE DEF R, T
<1>3. PICK x \in T : \A y \in T : ~ (<<y, x>> \in R)
  BY <1>1, WFMin DEF T
<1>4. x \in Nat /\ x # 0 /\ x \notin S
  BY <1>3 DEF T
<1>5. x - 1 \in Nat /\ x - 1 < x
  BY <1>4
<1>6. x - 1 \in S
  BY <1>2, <1>3, <1>4, <1>5 DEF T
<1>7. (x - 1) + 1 = x
  BY <1>4
<1> QED BY <1>4, <1>5, <1>6, <1>7

Streams == [Nat -> 0..1]

Numbers(f, S, p, n) ==
  f = [l \in 0..n |-> IF l = 0 THEN 0 ELSE 2 * f[l - 1] + S[p + (l - 1)]]

Number(S, p) == CHOOSE f : Numbers(f, S, p, StateSize)

LEMMA NumbersExist ==
  ASSUME NEW S, NEW p
  PROVE  \A n \in Nat : \E f : Numbers(f, S, p, n)
<1> DEFINE N == {n \in Nat : \E f : Numbers(f, S, p, n)}
<1>1. 0 \in N
  <2> DEFINE f == [l \in 0..0 |-> 0]
  <2>1. f = [l \in 0..0 |-> IF l = 0 THEN 0 ELSE 2 * f[l - 1] + S[p + (l - 1)]]
    OBVIOUS
  <2> HIDE DEF f
  <2>2. Numbers(f, S, p, 0)
    BY <2>1 DEF Numbers
  <2> QED BY <2>2
<1>2. ASSUME NEW n \in Nat, n \in N PROVE n + 1 \in N
  <2>1. PICK f : Numbers(f, S, p, n)
    BY <1>2
  <2> DEFINE g == [l \in 0..(n + 1) |-> IF l <= n THEN f[l] ELSE 2 * f[n] + S[p + n]]
  <2>2. ASSUME NEW l \in 0..(n + 1)
        PROVE  g[l] = IF l = 0 THEN 0 ELSE 2 * g[l - 1] + S[p + (l - 1)]
    <3>1. CASE l <= n
      <4>1. l \in 0..n
        BY <3>1
      <4>2. f[l] = IF l = 0 THEN 0 ELSE 2 * f[l - 1] + S[p + (l - 1)]
        BY <2>1, <4>1 DEF Numbers
      <4>3. l # 0 => l - 1 \in 0..(n + 1) /\ l - 1 <= n
        BY <3>1
      <4>4. l # 0 => g[l - 1] = f[l - 1]
        BY <4>3
      <4> QED BY <3>1, <4>2, <4>4
    <3>2. CASE l = n + 1
      <4>1. l # 0 /\ l - 1 = n /\ ~(l <= n) /\ n \in 0..(n + 1) /\ n <= n
        BY <3>2
      <4>2. g[n] = f[n] /\ g[l] = 2 * f[n] + S[p + n]
        BY <4>1
      <4> QED BY <4>1, <4>2
    <3> QED BY <3>1, <3>2
  <2>3. g = [l \in 0..(n + 1) |-> IF l = 0 THEN 0 ELSE 2 * g[l - 1] + S[p + (l - 1)]]
    BY <2>2
  <2> HIDE DEF g
  <2>4. Numbers(g, S, p, n + 1)
    BY <2>3 DEF Numbers
  <2> QED BY <2>4
<1> HIDE DEF N
<1>3. Nat \subseteq N
  BY <1>1, <1>2, Induction
<1> QED BY <1>3 DEF N

LEMMA NumberIs ==
  ASSUME NEW S, NEW p
  PROVE  /\ Number(S, p)[0] = 0
         /\ \A l \in 0..(StateSize - 1) : Number(S, p)[l + 1] = 2 * Number(S, p)[l] + S[p + l]
<1> DEFINE f == Number(S, p)
<1>1. StateSize \in Nat
  BY CoderAssumption
<1>2. Numbers(f, S, p, StateSize)
  BY <1>1, NumbersExist DEF Number
<1> HIDE DEF f
<1>3. \A l \in 0..StateSize : f[l] = IF l = 0 THEN 0 ELSE 2 * f[l - 1] + S[p + (l - 1)]
  BY <1>2 DEF Numbers
<1>4. f[0] = 0
  BY <1>1, <1>3
<1>5. ASSUME NEW l \in 0..(StateSize - 1) PROVE f[l + 1] = 2 * f[l] + S[p + l]
  <2>1. l + 1 \in 0..StateSize /\ l + 1 # 0 /\ (l + 1) - 1 = l
    BY <1>1
  <2> QED BY <1>3, <2>1
<1> QED BY <1>4, <1>5 DEF f

LEMMA NumberBound ==
  ASSUME NEW S \in Streams, NEW p \in Nat
  PROVE  \A l \in Nat : l <= StateSize => Number(S, p)[l] \in Nat /\ Number(S, p)[l] < 2 ^ l
<1> DEFINE f == Number(S, p)
           N == {l \in Nat : l <= StateSize => f[l] \in Nat /\ f[l] < 2 ^ l}
<1>1. StateSize \in Nat
  BY CoderAssumption
<1>2. 0 \in N
  BY NumberIs, PowersOfTwo
<1>3. ASSUME NEW l \in Nat, l \in N PROVE l + 1 \in N
  <2> SUFFICES ASSUME l + 1 <= StateSize PROVE f[l + 1] \in Nat /\ f[l + 1] < 2 ^ (l + 1)
    OBVIOUS
  <2>1. l \in 0..(StateSize - 1)
    BY <1>1
  <2>2. f[l] \in Nat /\ f[l] < 2 ^ l
    BY <1>1, <1>3
  <2>3. f[l + 1] = 2 * f[l] + S[p + l]
    BY <2>1, NumberIs
  <2>4. S[p + l] \in 0..1
    BY DEF Streams
  <2>5. 2 ^ l \in Nat /\ 2 ^ (l + 1) = 2 * 2 ^ l
    BY <2>1, PowersOfTwo
  <2> DEFINE a == f[l]  b == S[p + l]  c == 2 ^ l
  <2> HIDE DEF f, a, b, c
  <2>6. 2 * a + b \in Nat /\ 2 * a + b < 2 * c
    BY <2>2, <2>4, <2>5 DEF a, b, c
  <2> QED BY <2>3, <2>5, <2>6 DEF a, b, c
<1> HIDE DEF N
<1>4. Nat \subseteq N
  BY <1>2, <1>3, Induction
<1> QED BY <1>4 DEF N

\* The first bit of a number, and the others.
LEMMA NumberSlides ==
  ASSUME NEW S \in Streams, NEW p \in Nat
  PROVE  \A l \in Nat : l < StateSize =>
           Number(S, p)[l + 1] = S[p] * 2 ^ l + Number(S, p + 1)[l]
<1> DEFINE f == Number(S, p)
           g == Number(S, p + 1)
           N == {l \in Nat : l < StateSize => f[l + 1] = S[p] * 2 ^ l + g[l]}
<1>1. StateSize \in Nat /\ StateSize > 2
  BY CoderAssumption
<1>2. S[p] \in 0..1
  BY DEF Streams
<1>3. 0 \in N
  <2>1. 0 \in 0..(StateSize - 1)
    BY <1>1
  <2>2. f[0 + 1] = 2 * f[0] + S[p + 0] /\ f[0] = 0 /\ g[0] = 0
    BY <2>1, NumberIs
  <2>3. S[p] * 2 ^ 0 + 0 = S[p] /\ 2 * 0 + S[p + 0] = S[p]
    BY <1>2, PowersOfTwo
  <2> QED BY <2>2, <2>3
<1>4. ASSUME NEW l \in Nat, l \in N PROVE l + 1 \in N
  <2> SUFFICES ASSUME l + 1 < StateSize PROVE f[(l + 1) + 1] = S[p] * 2 ^ (l + 1) + g[l + 1]
    OBVIOUS
  <2>1. l \in 0..(StateSize - 1) /\ l + 1 \in 0..(StateSize - 1) /\ l <= StateSize
    BY <1>1
  <2>2. f[l + 1] = S[p] * 2 ^ l + g[l]
    BY <1>1, <1>4
  <2>3. f[(l + 1) + 1] = 2 * f[l + 1] + S[p + (l + 1)] /\ g[l + 1] = 2 * g[l] + S[(p + 1) + l]
    BY <2>1, NumberIs
  <2>4. 2 ^ l \in Nat /\ 2 ^ (l + 1) = 2 * 2 ^ l
    BY <2>1, PowersOfTwo
  <2>5. S[p + (l + 1)] \in 0..1 /\ p + (l + 1) = (p + 1) + l
    BY DEF Streams
  <2>6. g[l] \in Nat
    BY <2>1, NumberBound
  <2> DEFINE a == S[p]  b == S[(p + 1) + l]  c == 2 ^ l  d == g[l]
  <2>7. a \in 0..1 /\ b \in Nat /\ c \in Nat /\ d \in Nat
    BY <1>2, <2>4, <2>5, <2>6
  <2> HIDE DEF f, g, a, b, c, d
  <2>8. 2 * (a * c + d) + b = a * (2 * c) + (2 * d + b)
    BY <2>7
  <2> QED BY <2>2, <2>3, <2>4, <2>5, <2>8 DEF a, b, c, d
<1> HIDE DEF N
<1>5. Nat \subseteq N
  BY <1>3, <1>4, Induction
<1> QED BY <1>5 DEF N

LEMMA NumberOfZeros ==
  ASSUME NEW S \in Streams, NEW p \in Nat, \A k \in Nat : k >= p => S[k] = 0
  PROVE  \A l \in Nat : l <= StateSize => Number(S, p)[l] = 0
<1> DEFINE f == Number(S, p)
           N == {l \in Nat : l <= StateSize => f[l] = 0}
<1>1. StateSize \in Nat
  BY CoderAssumption
<1>2. 0 \in N
  BY NumberIs
<1>3. ASSUME NEW l \in Nat, l \in N PROVE l + 1 \in N
  <2> SUFFICES ASSUME l + 1 <= StateSize PROVE f[l + 1] = 0
    OBVIOUS
  <2>1. l \in 0..(StateSize - 1)
    BY <1>1
  <2>2. f[l] = 0
    BY <1>1, <1>3
  <2>3. f[l + 1] = 2 * f[l] + S[p + l]
    BY <2>1, NumberIs
  <2>4. S[p + l] = 0
    OBVIOUS
  <2> QED BY <2>2, <2>3, <2>4
<1> HIDE DEF N
<1>4. Nat \subseteq N
  BY <1>2, <1>3, Induction
<1> QED BY <1>4 DEF N

\* The bits of a register below the top one.
LowBits(S, p) == Number(S, p)[StateSize - 1]

LEMMA LowBitsAre ==
  ASSUME NEW S \in Streams, NEW p \in Nat
  PROVE  /\ S[p] \in 0..1 /\ S[p + StateSize - 1] \in 0..1
         /\ LowBits(S, p) \in Nat /\ LowBits(S, p) < Half
         /\ S[p] = 1 => LowBits(S, p) >= Quarter
         /\ S[p] = 0 => LowBits(S, p) < Quarter
         /\ S[p] = 0 => LowBits(S, p + 1) = 2 * LowBits(S, p) + S[p + StateSize - 1]
         /\ S[p] = 1 => LowBits(S, p + 1) = 2 * LowBits(S, p) - Half + S[p + StateSize - 1]
<1> DEFINE f == Number(S, p)  g == Number(S, p + 1)  k == StateSize - 2
           a == S[p]  b == S[p + StateSize - 1]  Q == 2 ^ k
<1>1. /\ StateSize \in Nat /\ StateSize > 2 /\ k \in Nat /\ k < StateSize /\ k <= StateSize
      /\ k + 1 = StateSize - 1 /\ k \in 0..(StateSize - 1) /\ (p + 1) + k = p + StateSize - 1
      /\ k + 1 \in 0..(StateSize - 1) /\ (k + 1) + 1 = StateSize
  BY CoderAssumption
<1>2. a \in 0..1 /\ b \in 0..1
  BY <1>1 DEF Streams
<1>3. LowBits(S, p) = f[k + 1] /\ LowBits(S, p + 1) = g[k + 1]
  BY <1>1 DEF LowBits
<1>4. f[k + 1] = a * Q + g[k]
  BY <1>1, NumberSlides
<1>5. g[k] \in Nat /\ g[k] < Q
  BY <1>1, NumberBound
<1>6. g[k + 1] = 2 * g[k] + b
  BY <1>1, NumberIs
<1>7. Q \in Nat /\ Quarter = Q /\ Half = 2 * Q
  <2>1. Q \in Nat /\ 2 ^ (k + 1) = 2 * Q /\ 2 ^ StateSize = 2 * 2 ^ (k + 1)
    BY <1>1, PowersOfTwo
  <2>2. MAX_RANGE = 4 * Quarter /\ Quarter \in Nat /\ Half = 2 * Quarter
    BY Sizes
  <2> HIDE DEF Q
  <2>3. 4 * Quarter = 4 * Q
    BY <2>1, <2>2 DEF MAX_RANGE
  <2> QED BY <2>1, <2>2, <2>3
<1> DEFINE d == g[k]
<1>8. d \in Nat /\ d < Q
  BY <1>5
<1>9. LowBits(S, p) = a * Q + d /\ LowBits(S, p + 1) = 2 * d + b
  BY <1>3, <1>4, <1>6
<1> HIDE DEF f, g, k, a, b, Q, d
<1>10. CASE a = 0
  <2>1. LowBits(S, p) = d
    BY <1>7, <1>8, <1>9, <1>10
  <2> QED BY <1>2, <1>7, <1>8, <1>9, <1>10, <2>1 DEF a, b
<1>11. CASE a = 1
  <2>1. LowBits(S, p) = Q + d
    BY <1>7, <1>8, <1>9, <1>11
  <2>2. Q + d < Half /\ Q + d >= Quarter /\ 2 * (Q + d) - Half + b = 2 * d + b
    BY <1>2, <1>7, <1>8
  <2>3. Q + d \in Nat
    BY <1>7, <1>8
  <2> QED BY <1>2, <1>9, <1>11, <2>1, <2>2, <2>3 DEF a, b
<1> QED BY <1>2, <1>10, <1>11

\* The stream of what is written: its bits, and zeros behind them.
StreamOf(o) ==
  [k \in Nat |->
     IF k < ByteSize * Len(o.file)
     THEN o.file[(k \div ByteSize) + 1][(k % ByteSize) + 1]
     ELSE IF k < o.num_bits THEN o.currentbyte[(k - ByteSize * Len(o.file)) + 1]
     ELSE 0]

\* Where a bit is: in which byte of the file, and where in it.
LEMMA Place ==
  ASSUME NEW L \in Nat, NEW k \in Nat
  PROVE  /\ ByteSize * L \in Nat /\ ByteSize * (L + 1) = ByteSize * L + ByteSize
         /\ ByteSize \in Nat \ {0}
         /\ k < ByteSize * L =>
              (k \div ByteSize) + 1 \in 1..L /\ (k % ByteSize) + 1 \in 1..ByteSize
         /\ ByteSize * L <= k /\ k < ByteSize * (L + 1) =>
              k \div ByteSize = L /\ k % ByteSize = k - ByteSize * L
<1>1. ByteSize \in Nat \ {0}
  BY CoderAssumption
<1>2. ByteSize * L \in Nat /\ ByteSize * (L + 1) = ByteSize * L + ByteSize
  BY <1>1
<1>3. k \div ByteSize \in Nat /\ k % ByteSize \in 0..(ByteSize - 1)
      /\ k = ByteSize * (k \div ByteSize) + (k % ByteSize)
  BY <1>1, Quotient
<1>4. ASSUME k < ByteSize * L
      PROVE  (k \div ByteSize) + 1 \in 1..L /\ (k % ByteSize) + 1 \in 1..ByteSize
  <2>1. k \div ByteSize < L
    BY <1>1, <1>4, Below
  <2> QED BY <1>1, <1>3, <2>1
<1>5. ASSUME ByteSize * L <= k, k < ByteSize * (L + 1)
      PROVE  k \div ByteSize = L /\ k % ByteSize = k - ByteSize * L
  <2>1. k \div ByteSize < L + 1 /\ L <= k \div ByteSize
    BY <1>1, <1>5, Below
  <2>2. k \div ByteSize = L
    BY <1>3, <2>1
  <2>3. k = ByteSize * L + (k % ByteSize)
    BY <1>3, <2>2
  <2> QED BY <1>2, <1>3, <2>2, <2>3
<1> QED BY <1>1, <1>2, <1>4, <1>5

LEMMA StreamIs ==
  ASSUME NEW o, StreamOK(o)
  PROVE  /\ StreamOf(o) \in Streams /\ o.num_bits \in Nat
         /\ \A k \in Nat : k >= o.num_bits => StreamOf(o)[k] = 0
<1> DEFINE L == Len(o.file)  c == Len(o.currentbyte)
<1>1. /\ L \in Nat /\ c \in Nat /\ o.num_bits = ByteSize * L + c /\ o.num_bits \in Nat
      /\ o.file \in Seq(Byte) /\ o.currentbyte \in Seq(0..1)
  BY DEF StreamOK, Bits
<1>2. ByteSize * L \in Nat
  BY <1>1, Place
<1>3. ASSUME NEW k \in Nat PROVE StreamOf(o)[k] \in 0..1
  <2>1. CASE k < ByteSize * L
    <3>1. (k \div ByteSize) + 1 \in 1..L /\ (k % ByteSize) + 1 \in 1..ByteSize
      BY <1>1, <2>1, Place
    <3>2. o.file[(k \div ByteSize) + 1] \in Byte
      BY <1>1, <3>1
    <3> QED BY <2>1, <3>1, <3>2 DEF StreamOf, Byte
  <2>2. CASE ByteSize * L <= k /\ k < o.num_bits
    <3>1. (k - ByteSize * L) + 1 \in 1..c /\ ~(k < ByteSize * L)
      BY <1>1, <1>2, <2>2
    <3>2. o.currentbyte[(k - ByteSize * L) + 1] \in 0..1
      BY <1>1, <3>1
    <3> QED BY <2>2, <3>1, <3>2 DEF StreamOf
  <2>3. CASE k >= o.num_bits
    <3>1. ~(k < ByteSize * L) /\ ~(k < o.num_bits)
      BY <1>1, <1>2, <2>3
    <3> QED BY <3>1 DEF StreamOf
  <2> QED BY <1>1, <1>2, <2>1, <2>2, <2>3
<1>4. ASSUME NEW k \in Nat, k >= o.num_bits PROVE StreamOf(o)[k] = 0
  <2>1. ~(k < ByteSize * L) /\ ~(k < o.num_bits)
    BY <1>1, <1>2, <1>4
  <2> QED BY <2>1 DEF StreamOf
<1>5. StreamOf(o) \in Streams
  BY <1>3 DEF Streams, StreamOf
<1> QED BY <1>1, <1>4, <1>5

\* write adds a bit behind the others.
LEMMA WriteAddsBit ==
  ASSUME NEW o, StreamOK(o), NEW b \in 0..1
  PROVE  /\ write(o, b).num_bits = o.num_bits + 1
         /\ StreamOf(write(o, b)) = [StreamOf(o) EXCEPT ![o.num_bits] = b]
<1> DEFINE L == Len(o.file)  c == Len(o.currentbyte)  n == o.num_bits
           byte == Append(o.currentbyte, b)  w == write(o, b)
<1>1. /\ L \in Nat /\ c \in Nat /\ n \in Nat /\ c < ByteSize
      /\ o.file \in Seq(Byte) /\ o.currentbyte \in Seq(0..1)
      /\ o \in [currentbyte : Bits, num_bits : Nat, file : Seq(Byte)]
  BY DEF StreamOK, Bits
<1> DEFINE m == ByteSize * L  M == ByteSize * (L + 1)
<1>2. m \in Nat /\ M = m + ByteSize /\ ByteSize \in Nat \ {0} /\ n = m + c
  BY <1>1, Place DEF StreamOK
<1>3. \A k \in Nat :
        /\ k < m => (k \div ByteSize) + 1 \in 1..L /\ (k % ByteSize) + 1 \in 1..ByteSize
        /\ m <= k /\ k < M => k \div ByteSize = L /\ k % ByteSize = k - m
  BY <1>1, Place
<1>4. \A k \in Nat : StreamOf(o)[k] =
     IF k < m THEN o.file[(k \div ByteSize) + 1][(k % ByteSize) + 1]
     ELSE IF k < n THEN o.currentbyte[(k - m) + 1] ELSE 0
  BY DEF StreamOf
<1> HIDE DEF m, M
<1>5. /\ Len(byte) = c + 1 /\ byte[c + 1] = b
      /\ \A j \in 1..c : byte[j] = o.currentbyte[j]
  BY <1>1
<1>6. n \in DOMAIN StreamOf(o) /\ DOMAIN StreamOf(w) = Nat /\ DOMAIN StreamOf(o) = Nat
  BY <1>1 DEF StreamOf
<1>7. CASE c + 1 = ByteSize
  <2>1. w = [currentbyte |-> <<>>, num_bits |-> n + 1, file |-> Append(o.file, byte)]
    BY <1>5, <1>7 DEF write
  <2> HIDE DEF byte, w
  <2>2. /\ Len(w.file) = L + 1 /\ w.file[L + 1] = byte
        /\ \A j \in 1..L : w.file[j] = o.file[j]
        /\ w.num_bits = n + 1 /\ n + 1 = M
    BY <1>1, <1>2, <1>7, <2>1
  <2>3. \A k \in Nat : StreamOf(w)[k] =
       IF k < M THEN w.file[(k \div ByteSize) + 1][(k % ByteSize) + 1]
       ELSE IF k < n + 1 THEN w.currentbyte[(k - M) + 1] ELSE 0
    BY <2>2 DEF StreamOf, M
  <2>4. ASSUME NEW k \in Nat PROVE StreamOf(w)[k] = IF k = n THEN b ELSE StreamOf(o)[k]
    <3>1. CASE k < m
      <4>1. (k \div ByteSize) + 1 \in 1..L
        BY <1>3, <3>1
      <4>2. k < M /\ k # n
        BY <1>1, <1>2, <3>1
      <4> QED BY <1>4, <2>3, <2>2, <3>1, <4>1, <4>2
    <3>2. CASE m <= k /\ k < M
      <4>1. k \div ByteSize = L /\ k % ByteSize = k - m
        BY <1>3, <3>2
      <4>2. ~(k < m) /\ k - m \in 0..c
        BY <1>1, <1>2, <1>7, <3>2
      <4>3. StreamOf(w)[k] = byte[(k - m) + 1]
        BY <2>3, <2>2, <3>2, <4>1
      <4>4. CASE k = n
        BY <1>1, <1>2, <1>5, <4>3, <4>4
      <4>5. CASE k # n
        <5>1. k < n /\ (k - m) + 1 \in 1..c
          BY <1>1, <1>2, <4>2, <4>5
        <5>2. StreamOf(o)[k] = o.currentbyte[(k - m) + 1]
          BY <1>4, <4>2, <5>1
        <5> QED BY <1>5, <4>3, <4>5, <5>1, <5>2
      <4> QED BY <4>4, <4>5
    <3>3. CASE k >= M
      <4>1. ~(k < M) /\ ~(k < n + 1) /\ ~(k < m) /\ ~(k < n) /\ k # n
        BY <1>1, <1>2, <2>2, <3>3
      <4> QED BY <1>4, <2>3, <2>2, <4>1
    <3> QED BY <1>1, <1>2, <3>1, <3>2, <3>3
  <2>5. StreamOf(w) = [StreamOf(o) EXCEPT ![n] = b]
    BY <1>6, <2>4 DEF StreamOf, w
  <2> QED BY <2>2, <2>5 DEF w
<1>8. CASE c + 1 # ByteSize
  <2>1. w = [o EXCEPT !.currentbyte = byte, !.num_bits = n + 1]
    BY <1>5, <1>8 DEF write
  <2> HIDE DEF byte, w
  <2>2. w.currentbyte = byte /\ w.file = o.file /\ w.num_bits = n + 1
    BY <1>1, <2>1
  <2>3. \A k \in Nat : StreamOf(w)[k] =
       IF k < m THEN w.file[(k \div ByteSize) + 1][(k % ByteSize) + 1]
       ELSE IF k < n + 1 THEN w.currentbyte[(k - m) + 1] ELSE 0
    BY <2>2 DEF StreamOf, m
  <2>4. ASSUME NEW k \in Nat PROVE StreamOf(w)[k] = IF k = n THEN b ELSE StreamOf(o)[k]
    <3>1. CASE k < m
      <4>1. k # n
        BY <1>1, <1>2, <3>1
      <4> QED BY <1>4, <2>3, <2>2, <3>1, <4>1
    <3>2. CASE m <= k /\ k < n
      <4>1. ~(k < m) /\ k < n + 1 /\ (k - m) + 1 \in 1..c /\ k # n
        BY <1>1, <1>2, <3>2
      <4> QED BY <1>4, <1>5, <2>3, <2>2, <3>2, <4>1
    <3>3. CASE k = n
      <4>1. ~(k < m) /\ k < n + 1 /\ (k - m) + 1 = c + 1
        BY <1>1, <1>2, <3>3
      <4> QED BY <1>4, <1>5, <2>3, <2>2, <3>3, <4>1
    <3>4. CASE k > n
      <4>1. ~(k < m) /\ ~(k < n + 1) /\ ~(k < n) /\ k # n
        BY <1>1, <1>2, <3>4
      <4> QED BY <1>4, <2>3, <2>2, <4>1
    <3> QED BY <1>1, <1>2, <3>1, <3>2, <3>3, <3>4
  <2>5. StreamOf(w) = [StreamOf(o) EXCEPT ![n] = b]
    BY <1>6, <2>4 DEF StreamOf, w
  <2> QED BY <2>2, <2>5 DEF w
<1> QED BY <1>7, <1>8

\* close adds only zeros.
LEMMA CloseAddsZeros ==
  ASSUME NEW o, StreamOK(o)
  PROVE  StreamOf(close(o)) = StreamOf(o) /\ close(o).currentbyte = <<>>
<1> DEFINE L == Len(o.file)  c == Len(o.currentbyte)  n == o.num_bits  w == close(o)
           zeros == [k \in 1..(ByteSize - c) |-> 0]
           last == o.currentbyte \o zeros
<1>1. /\ L \in Nat /\ c \in Nat /\ n \in Nat /\ c < ByteSize
      /\ o.file \in Seq(Byte) /\ o.currentbyte \in Seq(0..1)
  BY DEF StreamOK, Bits
<1> DEFINE m == ByteSize * L  M == ByteSize * (L + 1)
<1>2. m \in Nat /\ M = m + ByteSize /\ ByteSize \in Nat \ {0} /\ n = m + c
  BY <1>1, Place DEF StreamOK
<1>3. \A k \in Nat :
        /\ k < m => (k \div ByteSize) + 1 \in 1..L /\ (k % ByteSize) + 1 \in 1..ByteSize
        /\ m <= k /\ k < M => k \div ByteSize = L /\ k % ByteSize = k - m
  BY <1>1, Place
<1>4. \A k \in Nat : StreamOf(o)[k] =
     IF k < m THEN o.file[(k \div ByteSize) + 1][(k % ByteSize) + 1]
     ELSE IF k < n THEN o.currentbyte[(k - m) + 1] ELSE 0
  BY DEF StreamOf
<1> HIDE DEF m, M
<1>5. w.currentbyte = <<>> /\ StreamOK(w)
  BY Closed DEF close
<1>6. CASE o.currentbyte = <<>>
  <2>1. w.file = o.file
    BY <1>6 DEF close
  <2>2. c = 0 /\ Len(w.currentbyte) = 0
    BY <1>5, <1>6
  <2>3. w.num_bits = m + 0 /\ n = m + 0
    BY <1>2, <1>5, <2>1, <2>2 DEF StreamOK, m
  <2>4. w.num_bits = m /\ n = m
    BY <1>2, <2>3
  <2> HIDE DEF w
  <2>5. \A k \in Nat : StreamOf(w)[k] =
       IF k < m THEN w.file[(k \div ByteSize) + 1][(k % ByteSize) + 1]
       ELSE IF k < n THEN w.currentbyte[(k - m) + 1] ELSE 0
    BY <2>1, <2>4 DEF StreamOf, m
  <2>6. ASSUME NEW k \in Nat PROVE StreamOf(w)[k] = StreamOf(o)[k]
    <3>1. ~(k < m) => ~(k < n)
      BY <2>4
    <3> QED BY <1>4, <2>1, <2>4, <2>5, <3>1
  <2> QED BY <1>5, <2>6 DEF StreamOf, w
<1>7. CASE o.currentbyte # <<>>
  <2>1. w.file = Append(o.file, last)
    BY <1>7 DEF close
  <2>2. c >= 1
    BY <1>1, <1>7
  <2>3. zeros \in Seq(0..1) /\ Len(zeros) = ByteSize - c /\ \A j \in 1..(ByteSize - c) : zeros[j] = 0
    BY <1>1, <1>2
  <2> HIDE DEF zeros
  <2>4. /\ Len(last) = ByteSize
        /\ \A j \in 1..c : last[j] = o.currentbyte[j]
        /\ \A j \in (c + 1)..ByteSize : last[j] = 0
    <3>1. Len(last) = c + (ByteSize - c)
      <4>1. o.currentbyte \in Seq(0..1) /\ zeros \in Seq(0..1) /\ Len(zeros) = ByteSize - c
        BY <1>1, <2>3
      <4>2. last \in Seq(0..1) /\ Len(last) = c + (ByteSize - c)
        BY <4>1
      <4> QED BY <4>2
    <3>2. \A j \in 1..c : last[j] = o.currentbyte[j]
      BY <1>1, <2>3
    <3>3. ASSUME NEW j \in (c + 1)..ByteSize PROVE last[j] = 0
      <4>1. j - c \in 1..(ByteSize - c) /\ j \in 1..(c + (ByteSize - c)) /\ ~(j <= c)
        BY <1>1, <1>2
      <4>2. last[j] = zeros[j - c]
        BY <1>1, <2>3, <4>1
      <4> QED BY <2>3, <4>1, <4>2
    <3> QED BY <1>1, <1>2, <3>1, <3>2, <3>3
  <2> HIDE DEF last, w
  <2>5. /\ Len(w.file) = L + 1 /\ w.file[L + 1] = last
        /\ \A j \in 1..L : w.file[j] = o.file[j]
    BY <1>1, <2>1
  <2>6. w.num_bits = M
    <3>1. Len(w.currentbyte) = 0
      BY <1>5
    <3>2. w.num_bits = M + 0
      BY <1>5, <2>5, <3>1 DEF StreamOK, M
    <3> QED BY <1>2, <3>2
  <2>7. \A k \in Nat : StreamOf(w)[k] =
       IF k < M THEN w.file[(k \div ByteSize) + 1][(k % ByteSize) + 1]
       ELSE IF k < M THEN w.currentbyte[(k - M) + 1] ELSE 0
    BY <2>5, <2>6 DEF StreamOf, M
  <2>8. ASSUME NEW k \in Nat PROVE StreamOf(w)[k] = StreamOf(o)[k]
    <3>1. CASE k < m
      <4>1. (k \div ByteSize) + 1 \in 1..L
        BY <1>3, <3>1
      <4>2. k < M
        BY <1>1, <1>2, <3>1
      <4> QED BY <1>4, <2>7, <2>5, <3>1, <4>1, <4>2
    <3>2. CASE m <= k /\ k < M
      <4>1. k \div ByteSize = L /\ k % ByteSize = k - m
        BY <1>3, <3>2
      <4>2. ~(k < m)
        BY <1>2, <3>2
      <4>3. StreamOf(w)[k] = last[(k - m) + 1]
        BY <2>7, <2>5, <3>2, <4>1
      <4>4. CASE k < n
        <5>1. (k - m) + 1 \in 1..c
          BY <1>1, <1>2, <3>2, <4>4
        <5> QED BY <1>4, <2>4, <4>2, <4>3, <4>4, <5>1
      <4>5. CASE ~(k < n)
        <5>1. (k - m) + 1 \in (c + 1)..ByteSize
          BY <1>1, <1>2, <3>2, <4>5
        <5> QED BY <1>4, <2>4, <4>2, <4>3, <4>5, <5>1
      <4> QED BY <4>4, <4>5
    <3>3. CASE k >= M
      <4>1. ~(k < M) /\ ~(k < m) /\ ~(k < n)
        BY <1>1, <1>2, <3>3
      <4> QED BY <1>4, <2>7, <2>5, <2>6, <4>1
    <3> QED BY <1>1, <1>2, <3>1, <3>2, <3>3
  <2> QED BY <1>5, <2>8 DEF StreamOf, w
<1> QED BY <1>6, <1>7

\* What the decoder reads is the stream.
LEMMA CodeBitIs ==
  ASSUME StreamOK(out), out.currentbyte = <<>>, pos \in Nat
  PROVE  CodeBit = StreamOf(out)[pos]
<1>1. Len(out.currentbyte) = 0 /\ Len(out.file) \in Nat
  BY DEF StreamOK
<1>2. ByteSize * Len(out.file) \in Nat
  BY <1>1, Place
<1>3. out.num_bits = ByteSize * Len(out.file)
  <2>1. out.num_bits = ByteSize * Len(out.file) + 0
    BY <1>1 DEF StreamOK
  <2> QED BY <1>2, <2>1
<1>4. CASE pos < ByteSize * Len(out.file)
  <2>1. StreamOf(out)[pos] = read(pos, out.file)
    BY <1>4 DEF StreamOf, read
  <2>2. StreamOf(out)[pos] \in 0..1
    BY StreamIs DEF Streams
  <2> QED BY <2>1, <2>2 DEF CodeBit
<1>5. CASE ~(pos < ByteSize * Len(out.file))
  BY <1>3, <1>5 DEF StreamOf, CodeBit, read
<1> QED BY <1>4, <1>5

(***************************************************************************)
(* The trail of a message is every interval the encoder had, with the bits *)
(* that were written and pending and the symbols that were encoded.  The   *)
(* code a decoder has at a point of it, if it is still there, is the bit   *)
(* that is next in the stream and, behind the pending ones, StateSize - 1  *)
(* more.                                                                   *)
(***************************************************************************)
Points == [low : Register, high : Register, num_underflow : Nat, written : Nat, symbols : Nat]

AfterShift(p, q) ==
  /\ SameTop(p)
  /\ q.low = (2 * p.low) % MAX_RANGE /\ q.high = ((2 * p.high) % MAX_RANGE) + 1
  /\ q.num_underflow = 0 /\ q.written = p.written + 1 + p.num_underflow
  /\ q.symbols = p.symbols

AfterUnderflow(p, q) ==
  /\ ~SameTop(p) /\ Straddles(p)
  /\ q.low = (2 * p.low) % Half /\ q.high = ((2 * p.high) % Half) + Half + 1
  /\ q.num_underflow = p.num_underflow + 1 /\ q.written = p.written
  /\ q.symbols = p.symbols

AfterSymbol(p, q, m) ==
  /\ Settled(p) /\ p.symbols + 1 \in DOMAIN m
  /\ LET s == m[p.symbols + 1]
         width == p.high - p.low + 1
     IN  /\ q.low = NewLow(p, width, s.table, s.symbol)
         /\ q.high = NewHigh(p, width, s.table, s.symbol)
  /\ q.num_underflow = p.num_underflow /\ q.written = p.written
  /\ q.symbols = p.symbols + 1

Code(S, p) == S[p.written] * Half + LowBits(S, p.written + p.num_underflow + 1)

Inside(S, p) ==
  /\ p.low <= Code(S, p) /\ Code(S, p) <= p.high
  /\ \A k \in 1..p.num_underflow : S[p.written + k] = 1 - S[p.written]

LEMMA CodeIs ==
  ASSUME NEW S \in Streams, NEW p \in Points
  PROVE  LET n == p.written + p.num_underflow + 1
             T == LowBits(S, n)
             c == Code(S, p)
             b == S[p.written + p.num_underflow + StateSize]
         IN  /\ n \in Nat /\ p.written \in Nat /\ T \in Nat /\ T < Half /\ c \in Register
             /\ S[p.written] \in 0..1 /\ S[n] \in 0..1 /\ b \in 0..1
             /\ c = IF S[p.written] = 0 THEN T ELSE Half + T
             /\ (2 * c) % MAX_RANGE = 2 * T
             /\ (c \div Half) * Half = IF S[p.written] = 0 THEN 0 ELSE Half
             /\ (2 * c) % Half = IF S[n] = 0 THEN 2 * T ELSE 2 * T - Half
             /\ LowBits(S, n + 1) = (IF S[n] = 0 THEN 2 * T ELSE 2 * T - Half) + b
             /\ S[n] = 1 => T >= Quarter
             /\ S[n] = 0 => T < Quarter
<1> DEFINE n == p.written + p.num_underflow + 1
           T == LowBits(S, n)
           c == Code(S, p)
           b == S[p.written + p.num_underflow + StateSize]
           a == S[p.written]
           d == S[n]
           Q == Quarter
           U == LowBits(S, n + 1)
<1>1. /\ Q \in Nat /\ Q >= 2 /\ Half = 2 * Q /\ MAX_RANGE = 4 * Q
      /\ Register = 0..(4 * Q - 1)
  BY Sizes DEF Register
<1>2. n \in Nat /\ p.written \in Nat /\ p.num_underflow \in Nat
  BY DEF Points
<1>3. n + StateSize - 1 = p.written + p.num_underflow + StateSize
  <2>1. StateSize \in Nat
    BY CoderAssumption
  <2> QED BY <1>2, <2>1
<1>4. a \in 0..1
  BY <1>2 DEF Streams
<1>5. /\ d \in 0..1 /\ b \in 0..1 /\ T \in Nat /\ T < Half
      /\ d = 1 => T >= Q
      /\ d = 0 => T < Q
      /\ d = 0 => U = 2 * T + b
      /\ d = 1 => U = 2 * T - Half + b
  BY <1>2, <1>3, LowBitsAre
<1>6. c = a * Half + T
  BY DEF Code
<1> HIDE DEF n, T, c, b, a, d, Q, U
<1>7. c = IF a = 0 THEN T ELSE Half + T
  <2>1. a = 0 \/ a = 1
    BY <1>4
  <2>2. 0 * Half = 0 /\ 1 * Half = Half
    BY <1>1
  <2> QED BY <1>1, <1>5, <1>6, <2>1, <2>2
<1>8. c \in 0..(4 * Q - 1) /\ (a = 0 => c < 2 * Q) /\ (a = 1 => c >= 2 * Q)
  BY <1>1, <1>4, <1>5, <1>7
<1>9. /\ (2 * c) % (4 * Q) = IF c < 2 * Q THEN 2 * c ELSE 2 * c - 4 * Q
      /\ (2 * c) % (2 * Q) = IF c < Q THEN 2 * c ELSE
                             IF c < 2 * Q THEN 2 * c - 2 * Q ELSE
                             IF c < 3 * Q THEN 2 * c - 4 * Q ELSE 2 * c - 6 * Q
  BY <1>1, <1>8, Ends
<1>10. (2 * c) % MAX_RANGE = 2 * T
  BY <1>1, <1>4, <1>5, <1>7, <1>8, <1>9
<1>11. (2 * c) % Half = IF d = 0 THEN 2 * T ELSE 2 * T - Half
  BY <1>1, <1>4, <1>5, <1>7, <1>8, <1>9
<1>12. (c \div Half) * Half = IF a = 0 THEN 0 ELSE Half
  <2>1. c \div Half = IF a = 0 THEN 0 ELSE 1
    BY <1>1, <1>4, <1>8
  <2> QED BY <1>1, <1>4, <2>1
<1>13. U = (IF d = 0 THEN 2 * T ELSE 2 * T - Half) + b
  BY <1>5
<1>14. c \in Register
  BY <1>1, <1>8
<1> QED
  BY <1>2, <1>4, <1>5, <1>7, <1>10, <1>11, <1>12, <1>13, <1>14 DEF n, T, c, b, a, d, Q, U

\* The code goes along the trail as the decoder's does.
LEMMA CodeAfterShift ==
  ASSUME NEW S \in Streams, NEW p \in Points, NEW q \in Points, AfterShift(p, q)
  PROVE  Code(S, q) = ((2 * Code(S, p)) % MAX_RANGE)
                        + S[p.written + p.num_underflow + StateSize]
<1> DEFINE n == p.written + p.num_underflow + 1
           T == LowBits(S, n)
           b == S[p.written + p.num_underflow + StateSize]
           c == Code(S, p)
           d == S[n]
<1>1. /\ n \in Nat /\ T \in Nat /\ d \in 0..1 /\ b \in 0..1
      /\ (2 * c) % MAX_RANGE = 2 * T
      /\ LowBits(S, n + 1) = (IF d = 0 THEN 2 * T ELSE 2 * T - Half) + b
  BY CodeIs
<1>2. q.written = n /\ q.num_underflow = 0
  BY DEF AfterShift, Points
<1>3. n + 0 + 1 = n + 1
  BY <1>1
<1>4. Code(S, q) = d * Half + LowBits(S, n + 1)
  BY <1>2, <1>3 DEF Code
<1>5. Half \in Nat
  BY Sizes
<1> HIDE DEF n, T, b, c, d
<1>6. d * Half + LowBits(S, n + 1) = 2 * T + b
  <2>1. CASE d = 0
    BY <1>1, <1>5, <2>1
  <2>2. CASE d = 1
    <3>1. LowBits(S, n + 1) = 2 * T - Half + b
      BY <1>1, <2>2
    <3> QED BY <1>1, <1>5, <2>2, <3>1
  <2> QED BY <1>1, <2>1, <2>2
<1> QED BY <1>1, <1>4, <1>6 DEF b, c

LEMMA CodeAfterUnderflow ==
  ASSUME NEW S \in Streams, NEW p \in Points, NEW q \in Points, AfterUnderflow(p, q)
  PROVE  Code(S, q) = (Code(S, p) \div Half) * Half + ((2 * Code(S, p)) % Half)
                        + S[p.written + p.num_underflow + StateSize]
<1> DEFINE n == p.written + p.num_underflow + 1
           T == LowBits(S, n)
           b == S[p.written + p.num_underflow + StateSize]
           c == Code(S, p)
           d == S[n]
           a == S[p.written]
<1>1. /\ n \in Nat /\ T \in Nat /\ d \in 0..1 /\ b \in 0..1 /\ a \in 0..1
      /\ (c \div Half) * Half = IF a = 0 THEN 0 ELSE Half
      /\ (2 * c) % Half = IF d = 0 THEN 2 * T ELSE 2 * T - Half
      /\ LowBits(S, n + 1) = (IF d = 0 THEN 2 * T ELSE 2 * T - Half) + b
  BY CodeIs
<1>2. q.written = p.written /\ q.written + q.num_underflow + 1 = n + 1
  BY DEF AfterUnderflow, Points
<1>3. Code(S, q) = a * Half + LowBits(S, n + 1)
  BY <1>2 DEF Code
<1>4. Half \in Nat
  BY Sizes
<1> HIDE DEF n, T, b, c, d, a
<1>5. a * Half = (c \div Half) * Half
  BY <1>1, <1>4
<1> DEFINE x == IF d = 0 THEN 2 * T ELSE 2 * T - Half
           y == a * Half
<1>6. x \in Int /\ y \in Int /\ (2 * c) % Half = x /\ LowBits(S, n + 1) = x + b
  BY <1>1, <1>4
<1> HIDE DEF x, y
<1>7. y + (x + b) = y + x + b
  BY <1>1, <1>6
<1> QED BY <1>3, <1>5, <1>6, <1>7 DEF b, c, y

LEMMA CodeAfterSymbol ==
  ASSUME NEW S, NEW p, NEW q, NEW m, AfterSymbol(p, q, m)
  PROVE  Code(S, q) = Code(S, p)
BY DEF AfterSymbol, Code

\* And back: what is in the interval after a step was in it before, if the
\* bits that a shift writes are the top bit and, inverted, the pending ones.
LEMMA BackFromShift ==
  ASSUME NEW S \in Streams, NEW p \in Points, NEW q \in Points, AfterShift(p, q),
         S[p.written] = p.low \div Half,
         \A k \in 1..p.num_underflow : S[p.written + k] = 1 - S[p.written],
         Inside(S, q)
  PROVE  Inside(S, p)
<1> DEFINE Q == Quarter
           l == p.low
           h == p.high
           T == LowBits(S, p.written + p.num_underflow + 1)
           b == S[p.written + p.num_underflow + StateSize]
           c == Code(S, p)
           a == S[p.written]
<1>1. /\ Q \in Nat /\ Q >= 2 /\ Half = 2 * Q /\ MAX_RANGE = 4 * Q
      /\ Register = 0..(4 * Q - 1)
  BY Sizes DEF Register
<1>2. l \in 0..(4 * Q - 1) /\ h \in 0..(4 * Q - 1)
  BY <1>1 DEF Points
<1>3. /\ T \in Nat /\ T < Half /\ b \in 0..1 /\ a \in 0..1
      /\ c = IF a = 0 THEN T ELSE Half + T
      /\ (2 * c) % MAX_RANGE = 2 * T
  BY CodeIs
<1>4. Code(S, q) = 2 * T + b
  BY <1>3, CodeAfterShift
<1>5. /\ (2 * l) % (4 * Q) <= 2 * T + b /\ 2 * T + b <= ((2 * h) % (4 * Q)) + 1
      /\ (l \div (2 * Q)) % 2 = (h \div (2 * Q)) % 2
      /\ a = l \div (2 * Q)
  BY <1>1, <1>4 DEF Inside, AfterShift, SameTop
<1> HIDE DEF Q, l, h, T, b, c, a
<1>6. /\ (l \div (2 * Q)) % 2 = IF l < 2 * Q THEN 0 ELSE 1
      /\ (h \div (2 * Q)) % 2 = IF h < 2 * Q THEN 0 ELSE 1
      /\ (2 * l) % (4 * Q) = IF l < 2 * Q THEN 2 * l ELSE 2 * l - 4 * Q
      /\ (2 * h) % (4 * Q) = IF h < 2 * Q THEN 2 * h ELSE 2 * h - 4 * Q
  BY <1>1, <1>2, Ends
<1>7. a = IF l < 2 * Q THEN 0 ELSE 1
  BY <1>1, <1>2, <1>5
<1>8. l <= c /\ c <= h
  <2>1. CASE l < 2 * Q
    <3>1. h < 2 * Q
      BY <1>1, <1>5, <1>6, <2>1
    <3>2. 2 * l <= 2 * T + b /\ 2 * T + b <= 2 * h + 1 /\ c = T
      BY <1>3, <1>5, <1>6, <1>7, <2>1, <3>1
    <3> QED BY <1>2, <1>3, <3>2
  <2>2. CASE ~(l < 2 * Q)
    <3>1. ~(h < 2 * Q)
      BY <1>1, <1>5, <1>6, <2>2
    <3>2. /\ 2 * l - 4 * Q <= 2 * T + b /\ 2 * T + b <= (2 * h - 4 * Q) + 1
          /\ c = 2 * Q + T
      BY <1>1, <1>3, <1>5, <1>6, <1>7, <2>2, <3>1
    <3> QED BY <1>1, <1>2, <1>3, <3>2
  <2> QED BY <2>1, <2>2
<1> QED BY <1>8 DEF Inside, l, h, c

LEMMA BackFromUnderflow ==
  ASSUME NEW S \in Streams, NEW p \in Points, NEW q \in Points, AfterUnderflow(p, q),
         p.low <= p.high, Inside(S, q)
  PROVE  Inside(S, p)
<1> DEFINE Q == Quarter
           l == p.low
           h == p.high
           n == p.written + p.num_underflow + 1
           T == LowBits(S, n)
           b == S[p.written + p.num_underflow + StateSize]
           c == Code(S, p)
           a == S[p.written]
           d == S[n]
<1>1. /\ Q \in Nat /\ Q >= 2 /\ Half = 2 * Q /\ MAX_RANGE = 4 * Q
      /\ Register = 0..(4 * Q - 1)
  BY Sizes DEF Register
<1>2. l \in 0..(4 * Q - 1) /\ h \in 0..(4 * Q - 1)
  BY <1>1 DEF Points
<1>3. /\ T \in Nat /\ T < Half /\ b \in 0..1 /\ a \in 0..1 /\ d \in 0..1
      /\ c = IF a = 0 THEN T ELSE Half + T
      /\ (c \div Half) * Half = IF a = 0 THEN 0 ELSE Half
      /\ (2 * c) % Half = IF d = 0 THEN 2 * T ELSE 2 * T - Half
  BY CodeIs
<1>4. Code(S, q) = (c \div Half) * Half + ((2 * c) % Half) + b
  BY CodeAfterUnderflow
<1>5. q.written = p.written /\ q.num_underflow = p.num_underflow + 1 /\ p.num_underflow \in Nat
      /\ p.written \in Nat
  BY DEF AfterUnderflow, Points
<1>6. \A k \in 1..(p.num_underflow + 1) : S[p.written + k] = 1 - a
  BY <1>5 DEF Inside
<1>7. d = 1 - a
  <2>1. /\ p.num_underflow + 1 \in 1..(p.num_underflow + 1)
        /\ p.written + (p.num_underflow + 1) = n
    BY <1>5
  <2> QED BY <1>6, <2>1
<1>8. /\ (2 * l) % (2 * Q) <= Code(S, q) /\ Code(S, q) <= ((2 * h) % (2 * Q)) + 2 * Q + 1
      /\ (l \div (2 * Q)) % 2 # (h \div (2 * Q)) % 2
      /\ (l \div Q) % 2 = 1 /\ (h \div Q) % 2 = 0 /\ l <= h
  BY <1>1 DEF Inside, AfterUnderflow, SameTop, Straddles
<1> HIDE DEF Q, l, h, n, T, b, c, a, d
<1>9. Code(S, q) = 2 * c - 2 * Q + b
  <2>1. CASE a = 0
    BY <1>1, <1>3, <1>4, <1>7, <2>1
  <2>2. CASE a = 1
    BY <1>1, <1>3, <1>4, <1>7, <2>2
  <2> QED BY <1>3, <2>1, <2>2
<1>10. /\ (l \div (2 * Q)) % 2 = IF l < 2 * Q THEN 0 ELSE 1
       /\ (h \div (2 * Q)) % 2 = IF h < 2 * Q THEN 0 ELSE 1
       /\ (l \div Q) % 2 = IF l < Q \/ (2 * Q <= l /\ l < 3 * Q) THEN 0 ELSE 1
       /\ (h \div Q) % 2 = IF h < Q \/ (2 * Q <= h /\ h < 3 * Q) THEN 0 ELSE 1
       /\ (2 * l) % (2 * Q) = IF l < Q THEN 2 * l ELSE
                              IF l < 2 * Q THEN 2 * l - 2 * Q ELSE
                              IF l < 3 * Q THEN 2 * l - 4 * Q ELSE 2 * l - 6 * Q
       /\ (2 * h) % (2 * Q) = IF h < Q THEN 2 * h ELSE
                              IF h < 2 * Q THEN 2 * h - 2 * Q ELSE
                              IF h < 3 * Q THEN 2 * h - 4 * Q ELSE 2 * h - 6 * Q
  BY <1>1, <1>2, Ends
<1>11. l < 2 * Q /\ 2 * Q <= h
  BY <1>1, <1>2, <1>8, <1>10
<1>12. ~(l < Q \/ (2 * Q <= l /\ l < 3 * Q)) /\ (h < Q \/ (2 * Q <= h /\ h < 3 * Q))
  BY <1>8, <1>10
<1>13. Q <= l /\ l < 2 * Q /\ 2 * Q <= h /\ h < 3 * Q
  BY <1>1, <1>2, <1>11, <1>12
<1>14. c \in Int
  BY <1>1, <1>3
<1>15. l <= c /\ c <= h
  <2>1. (2 * l) % (2 * Q) = 2 * l - 2 * Q /\ (2 * h) % (2 * Q) = 2 * h - 4 * Q
    BY <1>1, <1>2, <1>10, <1>13
  <2>2. 2 * l - 2 * Q <= 2 * c - 2 * Q + b /\ 2 * c - 2 * Q + b <= (2 * h - 4 * Q) + 2 * Q + 1
    BY <1>8, <1>9, <2>1
  <2> QED BY <1>1, <1>2, <1>3, <1>14, <2>2
<1>16. \A k \in 1..p.num_underflow : S[p.written + k] = 1 - S[p.written]
  BY <1>5, <1>6 DEF a
<1> QED BY <1>15, <1>16 DEF Inside, l, h, c

MessageOK(m) ==
  /\ m \in Seq(Coded)
  /\ \A k \in DOMAIN m : m[k].symbol \in Symbols(m[k].table)

LEMMA BackFromSymbol ==
  ASSUME NEW S \in Streams, NEW p \in Points, NEW q \in Points, NEW m, MessageOK(m),
         AfterSymbol(p, q, m), p.low <= p.high, Inside(S, q)
  PROVE  Inside(S, p)
<1> DEFINE k == p.symbols + 1
           t == m[k].table
           s == m[k].symbol
           w == p.high - p.low + 1
           a == (t[s] * w) \div Last(t)
           b == (t[s + 1] * w) \div Last(t)
           c == Code(S, p)
<1>1. k \in DOMAIN m /\ t \in Tables /\ s \in Symbols(t)
  <2>1. k \in DOMAIN m /\ m \in Seq(Coded)
    BY DEF AfterSymbol, MessageOK
  <2>2. m[k] \in Coded /\ m[k].symbol \in Symbols(m[k].table)
    BY <2>1 DEF MessageOK
  <2> QED BY <2>1, <2>2 DEF Coded
<1>2. q.low = p.low + a /\ q.high = p.low + b - 1
  BY DEF AfterSymbol, NewLow, NewHigh
<1> HIDE DEF t, s
<1>3. p.low \in Nat /\ p.high \in Nat /\ w \in Nat
  BY DEF Points, Register
<1> HIDE DEF w
<1>4. a \in Nat /\ b \in Nat /\ b <= w
  <2>1. /\ t[s] \in Nat /\ t[s + 1] \in Nat /\ t[s] < t[s + 1]
        /\ t[s + 1] <= Last(t) /\ Last(t) \in Nat \ {0}
    BY <1>1, TableFacts
  <2> QED BY <1>3, <2>1, Parts
<1>5. q.low <= c /\ c <= q.high
  BY CodeAfterSymbol DEF Inside
<1>6. c \in Nat
  BY CodeIs DEF Register
<1> HIDE DEF a, b, c
<1>7. p.low <= c /\ c <= p.high
  BY <1>2, <1>3, <1>4, <1>5, <1>6 DEF w
<1>8. \A j \in 1..p.num_underflow : S[p.written + j] = 1 - S[p.written]
  BY DEF Inside, AfterSymbol
<1> QED BY <1>7, <1>8 DEF Inside, c

\* The parts of two symbols have no number in common.
LEMMA OnePart ==
  ASSUME NEW t \in Tables, NEW s \in Symbols(t), NEW r \in Symbols(t), s < r,
         NEW c, c.low \in Nat, NEW w \in Nat, NEW x \in Int,
         x <= NewHigh(c, w, t, s), NewLow(c, w, t, r) <= x
  PROVE  FALSE
<1> DEFINE b == (t[s + 1] * w) \div Last(t)
           a == (t[r] * w) \div Last(t)
<1>1. /\ t[s + 1] \in Nat /\ t[r] \in Nat /\ Last(t) \in Nat \ {0} /\ t[r] <= Last(t)
  <2>1. t[r] < t[r + 1] /\ t[r + 1] <= Last(t) /\ t[r + 1] \in Nat /\ t[r] \in Nat
        /\ Last(t) \in Nat \ {0}
    BY TableFacts
  <2> QED BY <2>1, TableFacts
<1>2. t[s + 1] = t[r] \/ t[s + 1] < t[r]
  <2>1. Len(t) \in Nat /\ t \in Seq(Nat) /\ \A i, j \in DOMAIN t : i < j => t[i] < t[j]
    BY CoderAssumption
  <2>2. s + 1 \in DOMAIN t /\ r \in DOMAIN t /\ (s + 1 = r \/ s + 1 < r)
    BY <2>1 DEF Symbols
  <2> QED BY <2>1, <2>2
<1>3. b <= a /\ b \in Nat /\ a \in Nat
  <2>1. a \in Nat /\ b \in Nat
    <3>1. t[s + 1] * w \in Nat /\ t[r] * w \in Nat
      BY <1>1
    <3> QED BY <1>1, <3>1, Quotient
  <2>2. CASE t[s + 1] < t[r]
    BY <1>1, <2>2, Parts
  <2>3. CASE t[s + 1] = t[r]
    <3>1. a = b
      BY <2>3
    <3> HIDE DEF a, b
    <3> QED BY <2>1, <3>1
  <2> QED BY <1>2, <2>1, <2>2, <2>3
<1>4. x <= c.low + b - 1 /\ c.low + a <= x
  BY DEF NewLow, NewHigh
<1> HIDE DEF a, b
<1> QED BY <1>3, <1>4

Follows(p, q, m) == AfterShift(p, q) \/ AfterUnderflow(p, q) \/ AfterSymbol(p, q, m)

End(tr) == tr[Len(tr)]

Trail(tr, m) ==
  /\ tr \in Seq(Points) /\ Len(tr) >= 1
  /\ tr[1] = [low |-> 0, high |-> MASK, num_underflow |-> 0, written |-> 0, symbols |-> 0]
  /\ \A i \in 1..(Len(tr) - 1) : Follows(tr[i], tr[i + 1], m)

Agrees(S, o) == \A k \in 0..(o.num_bits - 1) : S[k] = StreamOf(o)[k]

\* Whatever the rest of the stream will be: if it ends up in the interval of
\* now, it was in every one before.
Sound(tr, o) ==
  \A S \in Streams :
    Agrees(S, o) /\ Inside(S, End(tr)) => \A i \in 1..Len(tr) : Inside(S, tr[i])

LEMMA TrailGrows ==
  ASSUME NEW tr, NEW m, Trail(tr, m), NEW q \in Points, Follows(End(tr), q, m)
  PROVE  Trail(Append(tr, q), m) /\ End(Append(tr, q)) = q
<1> DEFINE u == Append(tr, q)
<1>1. tr \in Seq(Points) /\ Len(tr) \in Nat /\ Len(tr) >= 1
  BY DEF Trail
<1>2. /\ u \in Seq(Points) /\ Len(u) = Len(tr) + 1 /\ u[Len(tr) + 1] = q
      /\ \A i \in 1..Len(tr) : u[i] = tr[i]
  BY <1>1
<1> HIDE DEF u
<1>3. ASSUME NEW i \in 1..(Len(u) - 1) PROVE Follows(u[i], u[i + 1], m)
  <2>1. CASE i = Len(tr)
    <3>1. u[i] = End(tr) /\ u[i + 1] = q
      BY <1>1, <1>2, <2>1 DEF End
    <3> QED BY <3>1
  <2>2. CASE i # Len(tr)
    <3>1. i \in 1..(Len(tr) - 1) /\ i \in 1..Len(tr) /\ i + 1 \in 1..Len(tr)
      BY <1>1, <1>2, <2>2
    <3> QED BY <1>2, <3>1 DEF Trail
  <2> QED BY <2>1, <2>2
<1>4. Len(u) >= 1 /\ u[1] = tr[1] /\ End(u) = q
  BY <1>1, <1>2 DEF End
<1> QED BY <1>2, <1>3, <1>4 DEF Trail, u

LEMMA TrailOfLonger ==
  ASSUME NEW tr, NEW m \in Seq(Coded), NEW x, Trail(tr, m)
  PROVE  Trail(tr, Append(m, x))
<1> DEFINE n == Append(m, x)
<1>1. \A k \in DOMAIN m : k \in DOMAIN n /\ n[k] = m[k]
  OBVIOUS
<1> HIDE DEF n
<1>2. ASSUME NEW p, NEW q, Follows(p, q, m) PROVE Follows(p, q, n)
  <2>1. CASE AfterSymbol(p, q, m)
    <3>1. p.symbols + 1 \in DOMAIN m
      BY <2>1 DEF AfterSymbol
    <3>2. AfterSymbol(p, q, n)
      BY <1>1, <2>1, <3>1 DEF AfterSymbol
    <3> QED BY <3>2 DEF Follows
  <2> QED BY <1>2, <2>1 DEF Follows
<1> QED BY <1>2 DEF Trail, n

LEMMA SoundGrows ==
  ASSUME NEW tr \in Seq(Points), Len(tr) >= 1, NEW o, Sound(tr, o), NEW q \in Points,
         \A S \in Streams : Agrees(S, o) /\ Inside(S, q) => Inside(S, End(tr))
  PROVE  Sound(Append(tr, q), o)
<1> DEFINE u == Append(tr, q)
<1>1. /\ Len(u) = Len(tr) + 1 /\ u[Len(tr) + 1] = q /\ Len(tr) \in Nat
      /\ \A i \in 1..Len(tr) : u[i] = tr[i]
  OBVIOUS
<1> HIDE DEF u
<1>2. SUFFICES ASSUME NEW S \in Streams, Agrees(S, o), Inside(S, End(u)), NEW i \in 1..Len(u)
               PROVE  Inside(S, u[i])
  BY DEF Sound, u
<1>3. End(u) = q
  BY <1>1 DEF End
<1>4. \A j \in 1..Len(tr) : Inside(S, tr[j])
  BY <1>2, <1>3 DEF Sound
<1>5. i \in 1..Len(tr) \/ i = Len(tr) + 1
  BY <1>1
<1> QED BY <1>1, <1>2, <1>3, <1>4, <1>5

LEMMA SoundWritten ==
  ASSUME NEW tr, NEW o, StreamOK(o), NEW b \in 0..1, Sound(tr, o)
  PROVE  Sound(tr, write(o, b))
<1> DEFINE w == write(o, b)
<1>1. o.num_bits \in Nat /\ StreamOf(o) \in Streams
  BY StreamIs
<1>2. w.num_bits = o.num_bits + 1 /\ StreamOf(w) = [StreamOf(o) EXCEPT ![o.num_bits] = b]
  BY WriteAddsBit
<1> HIDE DEF w
<1>3. ASSUME NEW S, Agrees(S, w) PROVE Agrees(S, o)
  <2>1. SUFFICES ASSUME NEW k \in 0..(o.num_bits - 1) PROVE S[k] = StreamOf(o)[k]
    BY DEF Agrees
  <2>2. k \in 0..(w.num_bits - 1) /\ k # o.num_bits /\ k \in Nat
    BY <1>1, <1>2
  <2>3. StreamOf(w)[k] = StreamOf(o)[k]
    BY <1>1, <1>2, <2>2 DEF Streams
  <2> QED BY <1>3, <2>2, <2>3 DEF Agrees
<1> QED BY <1>3 DEF Sound, w

(***************************************************************************)
(* The invariant of a message that the Python encoder encodes.  There is a *)
(* trail, and the encoder is at its end; when the message is finished, the *)
(* stream lies in every interval of it, and the decoder goes along it.     *)
(***************************************************************************)
Shifting(p) ==
  /\ enc.num_underflow <= p.num_underflow
  /\ out.num_bits = p.written + 1 + (p.num_underflow - enc.num_underflow)
  /\ StreamOf(out)[p.written] = TopBit
  /\ \A k \in 1..(p.num_underflow - enc.num_underflow) :
       StreamOf(out)[p.written + k] = 1 - TopBit

DecoderAt(p) ==
  /\ dec.low = p.low /\ dec.high = p.high
  /\ dec.code = Code(StreamOf(out), p)
  /\ pos = p.written + p.num_underflow + StateSize
  /\ Len(decoded) = p.symbols

EncoderOnTrail(tr) ==
  /\ End(tr).low = enc.low /\ End(tr).high = enc.high
  /\ Sound(tr, out)
  /\ phase = "encode" =>
       /\ End(tr).num_underflow = enc.num_underflow
       /\ End(tr).written = out.num_bits
  /\ phase = "shift" => Shifting(End(tr))

DecoderOnTrail(tr) ==
  /\ Settled(End(tr))
  /\ \A i \in 1..Len(tr) : Inside(StreamOf(out), tr[i])
  /\ phase = "fill" => dec.code = Number(StreamOf(out), 0)[pos]
  /\ phase = "decode" => \E i \in 1..Len(tr) : DecoderAt(tr[i])

OnTrail(tr) ==
  /\ Trail(tr, message)
  /\ End(tr).symbols = Len(message)
  /\ phase \in {"encode", "shift"} => EncoderOnTrail(tr)
  /\ phase \in {"fill", "decode"} => DecoderOnTrail(tr)

MessageInv ==
  /\ MessageOK(message)
  /\ phase # "decode" => decoded = <<>>
  /\ phase \in {"fill", "decode"} => out.currentbyte = <<>>
  /\ \A k \in DOMAIN decoded : decoded[k] = message[k].symbol
  /\ \E tr : OnTrail(tr)

LEMMA MessageInitially ==
  ASSUME Init
  PROVE  MessageInv
<1> DEFINE p == [low |-> 0, high |-> MASK, num_underflow |-> 0, written |-> 0, symbols |-> 0]
           tr == <<p>>
<1>1. p \in Points
  BY Sizes DEF Points, Register
<1>2. /\ p.low = 0 /\ p.high = MASK /\ p.num_underflow = 0 /\ p.written = 0 /\ p.symbols = 0
  OBVIOUS
<1> HIDE DEF p
<1>3. tr \in Seq(Points) /\ Len(tr) = 1 /\ tr[1] = p
  BY <1>1
<1> HIDE DEF tr
<1>4. End(tr) = p
  BY <1>3 DEF End
<1>5. Trail(tr, message)
  BY <1>3 DEF Trail, p
<1>6. Sound(tr, out)
  BY <1>3, <1>4 DEF Sound
<1>7. EncoderOnTrail(tr)
  BY <1>2, <1>4, <1>6 DEF EncoderOnTrail, Init, NewOutput
<1>8. OnTrail(tr)
  BY <1>2, <1>4, <1>5, <1>7 DEF OnTrail, Init
<1>9. MessageOK(message)
  BY DEF Init, MessageOK
<1> QED BY <1>8, <1>9 DEF MessageInv, Init

LEMMA MessageGrows ==
  ASSUME MessageOK(message), NEW t \in Tables, NEW s \in Symbols(t),
         message' = Append(message, [table |-> t, symbol |-> s])
  PROVE  MessageOK(message')
<1> DEFINE x == [table |-> t, symbol |-> s]
<1>1. x \in Coded /\ x.table = t /\ x.symbol = s
  BY TableFacts DEF Coded
<1>2. message \in Seq(Coded) /\ message' = Append(message, x)
  BY DEF MessageOK
<1> HIDE DEF x
<1>3. /\ message' \in Seq(Coded) /\ Len(message') = Len(message) + 1 /\ Len(message) \in Nat
      /\ \A k \in 1..Len(message) : message'[k] = message[k]
      /\ message'[Len(message) + 1] = x
  BY <1>1, <1>2
<1>4. ASSUME NEW k \in DOMAIN message'
      PROVE  message'[k].symbol \in Symbols(message'[k].table)
  <2>1. k \in 1..Len(message) \/ k = Len(message) + 1
    BY <1>3
  <2>2. CASE k \in 1..Len(message)
    BY <1>2, <1>3, <2>2 DEF MessageOK
  <2>3. CASE k = Len(message) + 1
    BY <1>1, <1>3, <2>3
  <2> QED BY <2>1, <2>2, <2>3
<1> QED BY <1>3, <1>4 DEF MessageOK

\* One lemma for each step: of the encoder ...
LEMMA EncoderWriteTrail ==
  ASSUME IInv, IInv', MessageInv, closed = 1,
         NEW t \in Tables, NEW s \in Symbols(t), EncoderWrite(t, s)
  PROVE  MessageInv'
<1> DEFINE x == [table |-> t, symbol |-> s]
           w == enc.high - enc.low + 1
<1>1. PICK tr : OnTrail(tr)
  BY DEF MessageInv
<1> DEFINE p == End(tr)
<1>2. /\ phase = "encode" /\ phase' = "encode" /\ Settled(enc) /\ enc.low <= enc.high
      /\ message' = Append(message, x) /\ UNCHANGED <<out, decoded>>
      /\ enc' = [enc EXCEPT !.low = NewLow(enc, w, t, s), !.high = NewHigh(enc, w, t, s)]
  BY DEF EncoderWrite, Narrow
<1>3. /\ enc \in EncType /\ enc' \in EncType /\ message \in Seq(Coded) /\ out.num_bits \in Nat
  BY DEF IInv, EncoderInv, StreamOK
<1>4. /\ enc'.low = NewLow(enc, w, t, s) /\ enc'.high = NewHigh(enc, w, t, s)
      /\ enc'.num_underflow = enc.num_underflow
  BY <1>2, <1>3 DEF EncType
<1>5. MessageOK(message')
  BY <1>2, MessageGrows DEF MessageInv
<1>6. /\ Trail(tr, message) /\ p.symbols = Len(message) /\ p.low = enc.low /\ p.high = enc.high
      /\ Sound(tr, out) /\ p.num_underflow = enc.num_underflow /\ p.written = out.num_bits
  BY <1>1, <1>2 DEF OnTrail, EncoderOnTrail
<1>7. /\ tr \in Seq(Points) /\ Len(tr) >= 1 /\ Len(tr) \in Nat /\ p \in Points
  BY <1>6 DEF Trail, End
<1>8. PICK q \in Points :
        /\ q.low = enc'.low /\ q.high = enc'.high
        /\ q.num_underflow = enc.num_underflow /\ q.written = out.num_bits
        /\ q.symbols = Len(message) + 1
  <2> DEFINE r == [low |-> enc'.low, high |-> enc'.high, num_underflow |-> enc.num_underflow,
                   written |-> out.num_bits, symbols |-> Len(message) + 1]
  <2>1. r \in Points
    BY <1>3 DEF Points, EncType
  <2> QED BY <2>1
<1> HIDE DEF p
<1>9. /\ Len(message) + 1 \in DOMAIN message' /\ message'[Len(message) + 1] = x
      /\ Len(message') = Len(message) + 1 /\ x.table = t /\ x.symbol = s
  BY <1>2, <1>3
<1> HIDE DEF x
<1>10. AfterSymbol(p, q, message')
  <2>1. Settled(p)
    BY <1>2, <1>6 DEF Settled, SameTop, Straddles
  <2>2. /\ q.low = NewLow(p, p.high - p.low + 1, t, s)
        /\ q.high = NewHigh(p, p.high - p.low + 1, t, s)
    BY <1>4, <1>6, <1>8 DEF NewLow, NewHigh
  <2> QED BY <1>6, <1>8, <1>9, <2>1, <2>2 DEF AfterSymbol
<1>11. Trail(tr, message')
  BY <1>2, <1>3, <1>6, TrailOfLonger
<1> DEFINE u == Append(tr, q)
<1>12. Trail(u, message') /\ End(u) = q
  BY <1>8, <1>10, <1>11, TrailGrows DEF Follows, p
<1>13. ASSUME NEW S \in Streams, Inside(S, q) PROVE Inside(S, p)
  BY <1>2, <1>5, <1>6, <1>7, <1>8, <1>10, <1>13, BackFromSymbol
<1>14. Sound(u, out)
  BY <1>6, <1>7, <1>8, <1>13, SoundGrows DEF p
<1> HIDE DEF u
<1>15. EncoderOnTrail(u)'
  BY <1>2, <1>4, <1>8, <1>12, <1>14 DEF EncoderOnTrail
<1>16. OnTrail(u)'
  BY <1>2, <1>8, <1>9, <1>12, <1>15 DEF OnTrail
<1>17. decoded' = <<>>
  BY <1>2 DEF MessageInv
<1> QED BY <1>2, <1>5, <1>16, <1>17 DEF MessageInv

LEMMA EncoderTopBitTrail ==
  ASSUME IInv, MessageInv, EncoderTopBit
  PROVE  MessageInv'
<1>1. PICK tr : OnTrail(tr)
  BY DEF MessageInv
<1> DEFINE p == End(tr)
<1>2. /\ phase = "encode" /\ phase' = "shift" /\ out' = write(out, TopBit)
      /\ UNCHANGED <<message, enc, decoded>> /\ TopBit \in 0..1 /\ TopBit' = TopBit
  BY TopBitIsBit DEF EncoderTopBit, TopBit
<1>3. StreamOK(out) /\ enc.num_underflow \in Nat
  BY DEF IInv, EncoderInv, EncType
<1>4. /\ Trail(tr, message) /\ p.symbols = Len(message) /\ p.low = enc.low /\ p.high = enc.high
      /\ Sound(tr, out) /\ p.num_underflow = enc.num_underflow /\ p.written = out.num_bits
  BY <1>1, <1>2 DEF OnTrail, EncoderOnTrail
<1>5. /\ out'.num_bits = out.num_bits + 1
      /\ StreamOf(out') = [StreamOf(out) EXCEPT ![out.num_bits] = TopBit]
  BY <1>2, <1>3, WriteAddsBit
<1>6. StreamOf(out')[out.num_bits] = TopBit /\ out.num_bits \in Nat
  BY <1>3, <1>5, StreamIs DEF Streams
<1> HIDE DEF p
<1>7. Shifting(p)'
  <2>1. enc.num_underflow <= enc.num_underflow /\ enc.num_underflow - enc.num_underflow = 0
    BY <1>3
  <2>2. out'.num_bits = out.num_bits + 1 + 0
    BY <1>5, <1>6
  <2> QED BY <1>2, <1>4, <1>6, <2>1, <2>2 DEF Shifting
<1>8. Sound(tr, out')
  BY <1>2, <1>3, <1>4, SoundWritten
<1>9. EncoderOnTrail(tr)'
  BY <1>2, <1>4, <1>7, <1>8 DEF EncoderOnTrail, p
<1>10. OnTrail(tr)'
  BY <1>2, <1>4, <1>9 DEF OnTrail, p
<1> QED BY <1>2, <1>10 DEF MessageInv

LEMMA EncoderPendingTrail ==
  ASSUME IInv, MessageInv, EncoderPending
  PROVE  MessageInv'
<1>1. PICK tr : OnTrail(tr)
  BY DEF MessageInv
<1> DEFINE p == End(tr)  u == enc.num_underflow  T == TopBit  n == out.num_bits
           S == StreamOf(out)
<1>2. /\ phase = "shift" /\ phase' = "shift" /\ u > 0 /\ out' = write(out, 1 - T)
      /\ UNCHANGED <<message, decoded>> /\ T \in 0..1 /\ 1 - T \in 0..1
      /\ enc' = [enc EXCEPT !.num_underflow = u - 1]
  BY TopBitIsBit DEF EncoderPending
<1>3. StreamOK(out) /\ u \in Nat /\ enc \in EncType
  BY DEF IInv, EncoderInv, EncType
<1>4. enc'.low = enc.low /\ enc'.high = enc.high /\ enc'.num_underflow = u - 1
  BY <1>2, <1>3 DEF EncType
<1>5. TopBit' = T
  BY <1>4 DEF TopBit
<1>6. /\ Trail(tr, message) /\ p.symbols = Len(message) /\ p.low = enc.low /\ p.high = enc.high
      /\ Sound(tr, out)
      /\ u <= p.num_underflow /\ n = p.written + 1 + (p.num_underflow - u)
      /\ S[p.written] = T /\ \A k \in 1..(p.num_underflow - u) : S[p.written + k] = 1 - T
  BY <1>1, <1>2 DEF OnTrail, EncoderOnTrail, Shifting
<1>7. p.written \in Nat /\ p.num_underflow \in Nat
  <2>1. p \in Points
    BY <1>6 DEF Trail, End
  <2> QED BY <2>1 DEF Points
<1>8. out'.num_bits = n + 1 /\ StreamOf(out') = [S EXCEPT ![n] = 1 - T]
  BY <1>2, <1>3, WriteAddsBit
<1>9. n \in Nat /\ DOMAIN S = Nat
  BY <1>3, StreamIs DEF Streams
<1>10. Sound(tr, out')
  BY <1>2, <1>3, <1>6, SoundWritten
<1> DEFINE Z == StreamOf(out')
<1> HIDE DEF p, u, T, n, S, Z
<1>11. Z[n] = 1 - T /\ \A k \in Nat : k # n => Z[k] = S[k]
  BY <1>8, <1>9 DEF Z
<1>12. /\ u - 1 <= p.num_underflow
       /\ n + 1 = p.written + 1 + (p.num_underflow - (u - 1))
       /\ Z[p.written] = T
  <2>1. u - 1 <= p.num_underflow /\ n + 1 = p.written + 1 + (p.num_underflow - (u - 1))
    <3>1. u \in Nat /\ u <= p.num_underflow /\ n = p.written + 1 + (p.num_underflow - u)
      BY <1>3, <1>6
    <3> QED BY <1>7, <3>1
  <2>2. p.written # n
    BY <1>3, <1>6, <1>7, <1>9
  <2> QED BY <1>6, <1>7, <1>11, <2>1, <2>2
<1>13. ASSUME NEW k \in 1..(p.num_underflow - (u - 1)) PROVE Z[p.written + k] = 1 - T
  <2>1. CASE k \in 1..(p.num_underflow - u)
    <3>1. p.written + k \in Nat /\ p.written + k # n
      BY <1>3, <1>6, <1>7, <2>1
    <3> QED BY <1>6, <1>11, <2>1, <3>1
  <2>2. CASE k = p.num_underflow - u + 1
    <3>1. p.written + k = n
      BY <1>3, <1>6, <1>7, <2>2
    <3> QED BY <1>11, <3>1
  <2>3. k \in 1..(p.num_underflow - u) \/ k = p.num_underflow - u + 1
    BY <1>3, <1>6, <1>7
  <2> QED BY <2>1, <2>2, <2>3
<1>14. Shifting(p)'
  BY <1>4, <1>5, <1>8, <1>12, <1>13 DEF Shifting, Z
<1>15. EncoderOnTrail(tr)'
  BY <1>2, <1>4, <1>6, <1>10, <1>14 DEF EncoderOnTrail, p
<1>16. OnTrail(tr)'
  BY <1>2, <1>6, <1>15 DEF OnTrail, p
<1> QED BY <1>2, <1>16 DEF MessageInv

LEMMA EncoderShiftTrail ==
  ASSUME IInv, IInv', MessageInv, EncoderShift
  PROVE  MessageInv'
<1>1. PICK tr : OnTrail(tr)
  BY DEF MessageInv
<1> DEFINE p == End(tr)
<1>2. /\ phase = "shift" /\ phase' = "encode" /\ enc.num_underflow = 0
      /\ UNCHANGED <<message, out, decoded>> /\ enc' = Shifted(enc)
  BY DEF EncoderShift
<1>3. /\ StreamOK(out) /\ out.num_bits \in Nat /\ enc \in EncType /\ SameTop(enc)
      /\ enc' \in EncType
  BY <1>2 DEF IInv, EncoderInv, StreamOK
<1>4. /\ enc'.low = (2 * enc.low) % MAX_RANGE /\ enc'.high = ((2 * enc.high) % MAX_RANGE) + 1
      /\ enc'.num_underflow = 0
  BY <1>2, <1>3 DEF EncType, Shifted
<1>5. /\ Trail(tr, message) /\ p.symbols = Len(message) /\ p.low = enc.low /\ p.high = enc.high
      /\ Sound(tr, out) /\ 0 <= p.num_underflow
      /\ out.num_bits = p.written + 1 + (p.num_underflow - 0)
      /\ StreamOf(out)[p.written] = TopBit
      /\ \A k \in 1..(p.num_underflow - 0) : StreamOf(out)[p.written + k] = 1 - TopBit
  BY <1>1, <1>2 DEF OnTrail, EncoderOnTrail, Shifting
<1>6. /\ tr \in Seq(Points) /\ Len(tr) >= 1 /\ Len(tr) \in Nat /\ p \in Points
  BY <1>5 DEF Trail, End
<1>7. PICK q \in Points :
        /\ q.low = enc'.low /\ q.high = enc'.high
        /\ q.num_underflow = 0 /\ q.written = out.num_bits /\ q.symbols = Len(message)
  <2> DEFINE r == [low |-> enc'.low, high |-> enc'.high, num_underflow |-> 0,
                   written |-> out.num_bits, symbols |-> Len(message)]
  <2>1. Len(message) \in Nat
    BY DEF IInv, EncoderInv
  <2>2. r \in Points
    BY <1>3, <2>1 DEF Points, EncType
  <2> QED BY <2>2
<1> HIDE DEF p
<1>8. p.written \in Nat /\ p.num_underflow \in Nat
  BY <1>6 DEF Points
<1>9. out.num_bits = p.written + 1 + p.num_underflow /\ p.num_underflow - 0 = p.num_underflow
  BY <1>5, <1>8
<1>10. AfterShift(p, q)
  <2>1. SameTop(p)
    BY <1>3, <1>5 DEF SameTop
  <2> QED BY <1>4, <1>5, <1>7, <1>9, <2>1 DEF AfterShift
<1> DEFINE u == Append(tr, q)
<1>11. Trail(u, message) /\ End(u) = q
  BY <1>5, <1>7, <1>10, TrailGrows DEF Follows, p
<1>12. ASSUME NEW S \in Streams, Agrees(S, out), Inside(S, q) PROVE Inside(S, p)
  <2>1. \A k \in Nat : k <= p.num_underflow => S[p.written + k] = StreamOf(out)[p.written + k]
    <3> TAKE k \in Nat
    <3> HAVE k <= p.num_underflow
    <3>1. p.written + k \in 0..(out.num_bits - 1)
      BY <1>8, <1>9
    <3> QED BY <1>12, <3>1 DEF Agrees
  <2>2. S[p.written] = TopBit
    <3>1. p.written + 0 = p.written /\ 0 \in Nat /\ 0 <= p.num_underflow
      BY <1>8
    <3> QED BY <1>5, <2>1, <3>1
  <2>3. S[p.written] = p.low \div Half
    BY <1>5, <2>2 DEF TopBit
  <2>4. ASSUME NEW k \in 1..p.num_underflow PROVE S[p.written + k] = 1 - S[p.written]
    <3>1. k \in Nat /\ k <= p.num_underflow
      BY <1>8
    <3> QED BY <1>5, <1>9, <2>1, <2>2, <3>1
  <2> QED BY <1>6, <1>7, <1>10, <1>12, <2>3, <2>4, BackFromShift DEF p
<1>13. Sound(u, out)
  BY <1>5, <1>6, <1>7, <1>12, SoundGrows DEF p
<1> HIDE DEF u
<1>14. EncoderOnTrail(u)'
  BY <1>2, <1>4, <1>7, <1>11, <1>13 DEF EncoderOnTrail
<1>15. OnTrail(u)'
  BY <1>2, <1>7, <1>11, <1>14 DEF OnTrail
<1> QED BY <1>2, <1>15 DEF MessageInv

LEMMA EncoderUnderflowTrail ==
  ASSUME IInv, IInv', MessageInv, closed = 1, EncoderUnderflow
  PROVE  MessageInv'
<1>1. PICK tr : OnTrail(tr)
  BY DEF MessageInv
<1> DEFINE p == End(tr)
<1>2. /\ phase = "encode" /\ phase' = "encode" /\ ~SameTop(enc) /\ Straddles(enc)
      /\ UNCHANGED <<message, out, decoded>>
      /\ enc' = [SecondOut(enc) EXCEPT !.num_underflow = @ + 1]
  BY DEF EncoderUnderflow
<1>3. /\ out.num_bits \in Nat /\ enc \in EncType /\ enc' \in EncType /\ enc.low <= enc.high
  BY DEF IInv, EncoderInv, StreamOK, Promised
<1>4. /\ enc'.low = (2 * enc.low) % Half /\ enc'.high = ((2 * enc.high) % Half) + Half + 1
      /\ enc'.num_underflow = enc.num_underflow + 1
  BY <1>2, <1>3 DEF EncType, SecondOut
<1>5. /\ Trail(tr, message) /\ p.symbols = Len(message) /\ p.low = enc.low /\ p.high = enc.high
      /\ Sound(tr, out) /\ p.num_underflow = enc.num_underflow /\ p.written = out.num_bits
  BY <1>1, <1>2 DEF OnTrail, EncoderOnTrail
<1>6. /\ tr \in Seq(Points) /\ Len(tr) >= 1 /\ Len(tr) \in Nat /\ p \in Points
  BY <1>5 DEF Trail, End
<1>7. PICK q \in Points :
        /\ q.low = enc'.low /\ q.high = enc'.high
        /\ q.num_underflow = enc'.num_underflow /\ q.written = out.num_bits
        /\ q.symbols = Len(message)
  <2> DEFINE r == [low |-> enc'.low, high |-> enc'.high, num_underflow |-> enc'.num_underflow,
                   written |-> out.num_bits, symbols |-> Len(message)]
  <2>1. Len(message) \in Nat
    BY DEF IInv, EncoderInv
  <2>2. r \in Points
    BY <1>3, <2>1 DEF Points, EncType
  <2> QED BY <2>2
<1> HIDE DEF p
<1>8. AfterUnderflow(p, q)
  <2>1. ~SameTop(p) /\ Straddles(p)
    BY <1>2, <1>5 DEF SameTop, Straddles
  <2> QED BY <1>4, <1>5, <1>7, <2>1 DEF AfterUnderflow
<1> DEFINE u == Append(tr, q)
<1>9. Trail(u, message) /\ End(u) = q
  BY <1>5, <1>7, <1>8, TrailGrows DEF Follows, p
<1>10. ASSUME NEW S \in Streams, Inside(S, q) PROVE Inside(S, p)
  BY <1>3, <1>5, <1>6, <1>7, <1>8, <1>10, BackFromUnderflow
<1>11. Sound(u, out)
  BY <1>5, <1>6, <1>7, <1>10, SoundGrows DEF p
<1> HIDE DEF u
<1>12. EncoderOnTrail(u)'
  BY <1>2, <1>7, <1>9, <1>11 DEF EncoderOnTrail
<1>13. OnTrail(u)'
  BY <1>2, <1>7, <1>9, <1>12 DEF OnTrail
<1> QED BY <1>2, <1>13 DEF MessageInv

\* The single 1 of finish, and zeros: half the range, and inside.
LEMMA HalfIsInside ==
  ASSUME NEW S \in Streams, NEW p \in Points, p.low <= p.high, Settled(p),
         S[p.written] = 1, \A k \in Nat : k > p.written => S[k] = 0
  PROVE  Inside(S, p)
<1>1. p.written \in Nat /\ p.num_underflow \in Nat /\ p.low \in Register /\ p.high \in Register
  BY DEF Points
<1> DEFINE n == p.written + p.num_underflow + 1
<1>2. n \in Nat /\ \A k \in Nat : k >= n => S[k] = 0
  BY <1>1
<1> HIDE DEF n
<1>3. StateSize - 1 \in Nat /\ StateSize - 1 <= StateSize
  BY CoderAssumption
<1>4. LowBits(S, n) = 0
  BY <1>2, <1>3, NumberOfZeros DEF LowBits
<1>5. Code(S, p) = 1 * Half + 0
  BY <1>4 DEF Code, n
<1>6. p.low < Half /\ Half <= p.high /\ Half \in Nat /\ p.low \in Nat
  <2>1. p.low < Half /\ Half <= p.high
    BY <1>1, SettledIsGood DEF GoodInterval
  <2> QED BY <1>1, <2>1, Sizes DEF Register
<1>7. p.low <= Code(S, p) /\ Code(S, p) <= p.high
  BY <1>5, <1>6
<1>8. \A k \in 1..p.num_underflow : S[p.written + k] = 1 - S[p.written]
  <2> TAKE k \in 1..p.num_underflow
  <2>1. p.written + k \in Nat /\ p.written + k > p.written
    BY <1>1
  <2> QED BY <2>1
<1> QED BY <1>7, <1>8 DEF Inside

LEMMA FinishTrail ==
  ASSUME IInv, MessageInv, closed = 1, Finish
  PROVE  MessageInv'
<1>1. PICK tr : OnTrail(tr)
  BY DEF MessageInv
<1> DEFINE p == End(tr)  S == StreamOf(out')  n == out.num_bits
<1>2. /\ phase = "encode" /\ phase' = "fill" /\ Settled(enc) /\ out' = close(write(out, 1))
      /\ UNCHANGED <<message, dec, pos, decoded>>
  BY DEF Finish
<1>3. /\ StreamOK(out) /\ enc.low <= enc.high /\ pos = 0 /\ dec.code = 0 /\ 1 \in 0..1
  BY <1>2 DEF IInv, EncoderInv, DecoderInv, Promised
<1>4. /\ Trail(tr, message) /\ p.symbols = Len(message) /\ p.low = enc.low /\ p.high = enc.high
      /\ Sound(tr, out) /\ p.written = n
  BY <1>1, <1>2 DEF OnTrail, EncoderOnTrail
<1>5. p \in Points
  BY <1>4 DEF Trail, End
<1>6. Settled(p)
  BY <1>2, <1>4 DEF Settled, SameTop, Straddles
<1>7. S = [StreamOf(out) EXCEPT ![n] = 1] /\ out'.currentbyte = <<>>
  <2>1. StreamOK(write(out, 1))
    BY <1>3, Written
  <2> QED BY <1>2, <1>3, <2>1, WriteAddsBit, CloseAddsZeros
<1>8. /\ n \in Nat /\ StreamOf(out) \in Streams
      /\ \A k \in Nat : k >= n => StreamOf(out)[k] = 0
  BY <1>3, StreamIs
<1> HIDE DEF p, S, n
<1>9. /\ S \in Streams /\ S[n] = 1
      /\ \A k \in Nat : k # n => S[k] = StreamOf(out)[k]
  BY <1>3, <1>7, <1>8 DEF Streams
<1>10. \A k \in Nat : k > n => S[k] = 0
  BY <1>8, <1>9
<1>11. Inside(S, p)
  BY <1>3, <1>4, <1>5, <1>6, <1>9, <1>10, HalfIsInside
<1>12. Agrees(S, out)
  <2>1. SUFFICES ASSUME NEW k \in 0..(n - 1) PROVE S[k] = StreamOf(out)[k]
    BY DEF Agrees, n
  <2>2. k \in Nat /\ k # n
    BY <1>8
  <2> QED BY <1>9, <2>2
<1>13. \A i \in 1..Len(tr) : Inside(S, tr[i])
  BY <1>4, <1>9, <1>11, <1>12 DEF Sound, p
<1>14. dec'.code = Number(S, 0)[pos']
  BY <1>2, <1>3, NumberIs
<1>15. DecoderOnTrail(tr)'
  BY <1>2, <1>6, <1>13, <1>14 DEF DecoderOnTrail, p, S
<1>16. OnTrail(tr)'
  BY <1>2, <1>4, <1>15 DEF OnTrail, p
<1> QED BY <1>2, <1>7, <1>16 DEF MessageInv

\* ... and of the decoder.
LEMMA DecoderFillTrail ==
  ASSUME IInv, MessageInv, DecoderFill
  PROVE  MessageInv'
<1>1. PICK tr : OnTrail(tr)
  BY DEF MessageInv
<1> DEFINE S == StreamOf(out)  f == Number(S, 0)
<1>2. /\ phase = "fill" /\ dec' = [dec EXCEPT !.code = 2 * dec.code + CodeBit]
      /\ pos' = pos + 1 /\ phase' = IF pos' = StateSize THEN "decode" ELSE "fill"
      /\ UNCHANGED <<message, enc, out, decoded>>
  BY DEF DecoderFill
<1>3. /\ StreamOK(out) /\ pos \in Nat /\ pos < StateSize /\ dec \in DecType
      /\ dec.low = 0 /\ dec.high = MASK
  BY <1>2 DEF IInv, EncoderInv, DecoderInv
<1>4. /\ dec'.low = 0 /\ dec'.high = MASK /\ dec'.code = 2 * dec.code + CodeBit
  BY <1>2, <1>3 DEF DecType
<1>5. CodeBit = S[pos] /\ out.currentbyte = <<>>
  BY <1>2, <1>3, CodeBitIs DEF MessageInv
<1>6. /\ Trail(tr, message) /\ End(tr).symbols = Len(message) /\ Settled(End(tr))
      /\ \A i \in 1..Len(tr) : Inside(S, tr[i])
      /\ dec.code = f[pos]
  BY <1>1, <1>2 DEF OnTrail, DecoderOnTrail
<1>7. S \in Streams
  BY <1>3, StreamIs
<1>8. StateSize \in Nat /\ StateSize > 2
  BY CoderAssumption
<1>9. dec'.code = f[pos']
  <2>1. pos \in 0..(StateSize - 1) /\ 0 + pos = pos
    BY <1>3, <1>8
  <2>2. f[pos + 1] = 2 * f[pos] + S[pos]
    BY <2>1, NumberIs
  <2> QED BY <1>2, <1>4, <1>5, <1>6, <2>2
<1>10. ASSUME pos' = StateSize PROVE DecoderAt(tr[1])'
  <2> DEFINE k == StateSize - 1
  <2>1. k \in Nat /\ k < StateSize /\ k + 1 = StateSize /\ k \in 0..(StateSize - 1)
    BY <1>8
  <2>2. f[k + 1] = S[0] * 2 ^ k + Number(S, 0 + 1)[k]
    BY <1>7, <2>1, NumberSlides
  <2>3. 2 ^ k = Half
    <3>1. 2 ^ k \in Nat /\ 2 ^ (k + 1) = 2 * 2 ^ k
      BY <2>1, PowersOfTwo
    <3>2. MAX_RANGE = 2 * Half /\ Half \in Nat
      BY Sizes
    <3> DEFINE z == 2 ^ k
    <3>3. 2 * z = 2 * Half /\ z \in Nat
      BY <2>1, <3>1, <3>2 DEF MAX_RANGE
    <3> HIDE DEF z
    <3>4. z = Half
      BY <3>2, <3>3
    <3> QED BY <3>4 DEF z
  <2>4. tr[1] = [low |-> 0, high |-> MASK, num_underflow |-> 0, written |-> 0, symbols |-> 0]
    BY <1>6 DEF Trail
  <2>5. Code(S, tr[1]) = S[0] * Half + Number(S, 1)[k]
    BY <2>4 DEF Code, LowBits
  <2>6. dec'.code = Code(S, tr[1])
    <3>1. 0 + 1 = 1
      OBVIOUS
    <3> QED BY <1>9, <1>10, <2>1, <2>2, <2>3, <2>5, <3>1
  <2>7. Len(decoded') = 0
    BY <1>2 DEF MessageInv
  <2>8. pos' = 0 + 0 + StateSize
    BY <1>8, <1>10
  <2> QED BY <1>2, <1>4, <2>4, <2>6, <2>7, <2>8 DEF DecoderAt
<1>11. 1 \in 1..Len(tr)
  BY <1>6 DEF Trail
<1> HIDE DEF f
<1>12. DecoderOnTrail(tr)'
  <2>1. phase' = "decode" => DecoderAt(tr[1])'
    BY <1>2, <1>10
  <2> QED BY <1>2, <1>6, <1>9, <1>11, <2>1 DEF DecoderOnTrail, f
<1>13. OnTrail(tr)'
  BY <1>2, <1>6, <1>12 DEF OnTrail
<1> QED BY <1>2, <1>5, <1>13 DEF MessageInv

\* The decoder is at a point of the trail, and, unless that is the last one,
\* goes to the next.
LEMMA DecoderMoves ==
  ASSUME IInv, MessageInv, phase = "decode", UNCHANGED <<phase, message, out>>,
         \A k \in DOMAIN decoded' : decoded'[k] = message[k].symbol,
         \A p, q \in Points :
           /\ DecoderAt(p) /\ Inside(StreamOf(out), p)
           /\ Follows(p, q, message) /\ Inside(StreamOf(out), q)
           => DecoderAt(q)',
         \A p \in Points : DecoderAt(p) /\ Settled(p) => p.symbols # Len(message)
  PROVE  MessageInv'
<1>1. PICK tr : OnTrail(tr)
  BY DEF MessageInv
<1>2. /\ Trail(tr, message) /\ End(tr).symbols = Len(message) /\ Settled(End(tr))
      /\ \A i \in 1..Len(tr) : Inside(StreamOf(out), tr[i])
  BY <1>1 DEF OnTrail, DecoderOnTrail
<1>3. PICK i \in 1..Len(tr) : DecoderAt(tr[i])
  BY <1>1 DEF OnTrail, DecoderOnTrail
<1>4. tr \in Seq(Points) /\ Len(tr) \in Nat /\ tr[i] \in Points
  BY <1>2 DEF Trail
<1>5. i # Len(tr)
  BY <1>2, <1>3, <1>4 DEF End
<1>6. i \in 1..(Len(tr) - 1) /\ i + 1 \in 1..Len(tr) /\ tr[i + 1] \in Points
  BY <1>4, <1>5
<1>7. Follows(tr[i], tr[i + 1], message)
  BY <1>2, <1>6 DEF Trail
<1>8. DecoderAt(tr[i + 1])'
  BY <1>2, <1>3, <1>4, <1>6, <1>7
<1>9. DecoderOnTrail(tr)'
  BY <1>2, <1>6, <1>8 DEF DecoderOnTrail
<1>10. OnTrail(tr)'
  BY <1>2, <1>9 DEF OnTrail
<1> QED BY <1>10 DEF MessageInv

LEMMA SettledIs ==
  ASSUME NEW p, DecoderAt(p)
  PROVE  /\ SameTop(p) = SameTop(dec) /\ Straddles(p) = Straddles(dec)
         /\ Settled(p) = Settled(dec)
BY DEF DecoderAt, Settled, SameTop, Straddles

LEMMA DecoderShiftTrail ==
  ASSUME IInv, MessageInv, DecoderShift
  PROVE  MessageInv'
<1>1. /\ phase = "decode" /\ SameTop(dec) /\ pos' = pos + 1
      /\ UNCHANGED <<phase, message, out, decoded>>
      /\ dec' = [Shifted(dec) EXCEPT !.code = ((2 * dec.code) % MAX_RANGE) + CodeBit]
      /\ StreamOK(out) /\ pos \in Nat /\ dec \in DecType
  BY DEF DecoderShift, IInv, EncoderInv, DecoderInv, Shifted
<1>2. CodeBit = StreamOf(out)[pos] /\ StreamOf(out) \in Streams
  BY <1>1, CodeBitIs, StreamIs DEF MessageInv
<1>3. /\ dec'.low = (2 * dec.low) % MAX_RANGE /\ dec'.high = ((2 * dec.high) % MAX_RANGE) + 1
      /\ dec'.code = ((2 * dec.code) % MAX_RANGE) + CodeBit
  BY <1>1 DEF DecType, Shifted
<1>4. ASSUME NEW p \in Points, DecoderAt(p) PROVE ~Settled(p)
  BY <1>1, <1>4, SettledIs DEF Settled
<1>5. ASSUME NEW p \in Points, NEW q \in Points, DecoderAt(p), Follows(p, q, message)
      PROVE  DecoderAt(q)'
  <2>1. AfterShift(p, q)
    BY <1>1, <1>4, <1>5, SettledIs DEF Follows, AfterUnderflow, AfterSymbol
  <2>2. /\ dec.low = p.low /\ dec.high = p.high /\ dec.code = Code(StreamOf(out), p)
        /\ pos = p.written + p.num_underflow + StateSize /\ Len(decoded) = p.symbols
    BY <1>5 DEF DecoderAt
  <2>3. dec'.code = Code(StreamOf(out), q)
    BY <1>2, <1>3, <2>1, <2>2, CodeAfterShift
  <2>4. pos' = q.written + q.num_underflow + StateSize
    <3>1. /\ p.written \in Nat /\ p.num_underflow \in Nat /\ StateSize \in Nat
          /\ q.written = p.written + 1 + p.num_underflow /\ q.num_underflow = 0
      BY <2>1, CoderAssumption DEF AfterShift, Points
    <3> QED BY <1>1, <2>2, <3>1
  <2> QED BY <1>1, <1>3, <2>1, <2>2, <2>3, <2>4 DEF DecoderAt, AfterShift
<1>6. \A k \in DOMAIN decoded' : decoded'[k] = message[k].symbol
  BY <1>1 DEF MessageInv
<1> QED BY <1>1, <1>4, <1>5, <1>6, DecoderMoves

LEMMA DecoderUnderflowTrail ==
  ASSUME IInv, MessageInv, DecoderUnderflow
  PROVE  MessageInv'
<1>1. /\ phase = "decode" /\ ~SameTop(dec) /\ Straddles(dec) /\ pos' = pos + 1
      /\ UNCHANGED <<phase, message, out, decoded>>
      /\ dec' = [SecondOut(dec) EXCEPT !.code = CodeSecondOut]
      /\ StreamOK(out) /\ pos \in Nat /\ dec \in DecType
  BY DEF DecoderUnderflow, IInv, EncoderInv, DecoderInv
<1>2. CodeBit = StreamOf(out)[pos] /\ StreamOf(out) \in Streams
  BY <1>1, CodeBitIs, StreamIs DEF MessageInv
<1>3. /\ dec'.low = (2 * dec.low) % Half /\ dec'.high = ((2 * dec.high) % Half) + Half + 1
      /\ dec'.code = (dec.code \div Half) * Half + ((2 * dec.code) % Half) + CodeBit
  BY <1>1 DEF DecType, SecondOut, CodeSecondOut
<1>4. ASSUME NEW p \in Points, DecoderAt(p) PROVE ~Settled(p)
  BY <1>1, <1>4, SettledIs DEF Settled
<1>5. ASSUME NEW p \in Points, NEW q \in Points, DecoderAt(p), Follows(p, q, message)
      PROVE  DecoderAt(q)'
  <2>1. AfterUnderflow(p, q)
    BY <1>1, <1>4, <1>5, SettledIs DEF Follows, AfterShift, AfterSymbol
  <2>2. /\ dec.low = p.low /\ dec.high = p.high /\ dec.code = Code(StreamOf(out), p)
        /\ pos = p.written + p.num_underflow + StateSize /\ Len(decoded) = p.symbols
    BY <1>5 DEF DecoderAt
  <2>3. dec'.code = Code(StreamOf(out), q)
    BY <1>2, <1>3, <2>1, <2>2, CodeAfterUnderflow
  <2>4. pos' = q.written + q.num_underflow + StateSize
    <3>1. /\ p.written \in Nat /\ p.num_underflow \in Nat /\ StateSize \in Nat
          /\ q.written = p.written /\ q.num_underflow = p.num_underflow + 1
      BY <2>1, CoderAssumption DEF AfterUnderflow, Points
    <3> QED BY <1>1, <2>2, <3>1
  <2> QED BY <1>1, <1>3, <2>1, <2>2, <2>3, <2>4 DEF DecoderAt, AfterUnderflow
<1>6. \A k \in DOMAIN decoded' : decoded'[k] = message[k].symbol
  BY <1>1 DEF MessageInv
<1> QED BY <1>1, <1>4, <1>5, <1>6, DecoderMoves

\* The part of the symbol that is decoded and the part of the one that was
\* encoded both have the code, so they are the same.
LEMMA DecoderReadTrail ==
  ASSUME IInv, IInv', MessageInv, DecoderRead
  PROVE  MessageInv'
<1> DEFINE n == Len(decoded) + 1
           t == message[n].table
           r == message[n].symbol
           w == dec.high - dec.low + 1
<1>1. PICK s \in Symbols(t) : dec' = Narrow(dec, 1, t, s) /\ decoded' = Append(decoded, s)
  BY DEF DecoderRead
<1>2. /\ phase = "decode" /\ Settled(dec) /\ Len(decoded) < Len(message)
      /\ UNCHANGED <<phase, message, out, pos>>
      /\ dec' = [dec EXCEPT !.low = NewLow(dec, w, t, s), !.high = NewHigh(dec, w, t, s)]
  BY <1>1 DEF DecoderRead, Narrow
<1>3. /\ dec \in DecType /\ dec' \in DecType /\ decoded \in Seq(Nat) /\ message \in Seq(Coded)
      /\ dec.low <= dec.high /\ dec'.low <= dec'.code /\ dec'.code <= dec'.high
      /\ Len(decoded) \in Nat /\ Len(message) \in Nat /\ StreamOK(out)
  BY <1>2 DEF IInv, EncoderInv, DecoderInv, CodeInInterval
<1>4. n \in DOMAIN message /\ t \in Tables /\ r \in Symbols(t)
  <2>1. n \in DOMAIN message
    BY <1>2, <1>3
  <2>2. message[n] \in Coded /\ message[n].symbol \in Symbols(message[n].table)
    BY <1>3, <2>1 DEF MessageInv, MessageOK
  <2> QED BY <2>1, <2>2 DEF Coded
<1>5. /\ dec'.low = NewLow(dec, w, t, s) /\ dec'.high = NewHigh(dec, w, t, s)
      /\ dec'.code = dec.code
  BY <1>2, <1>3 DEF DecType
<1>6. dec.low \in Nat /\ dec.code \in Int /\ w \in Nat
  BY <1>3 DEF DecType, Register
<1>7. ASSUME NEW p \in Points, NEW q \in Points, DecoderAt(p), Follows(p, q, message)
      PROVE  AfterSymbol(p, q, message) /\ p.symbols + 1 = n
  <2>1. Settled(p) /\ p.symbols = Len(decoded)
    BY <1>2, <1>7, SettledIs DEF DecoderAt
  <2> QED BY <1>7, <2>1 DEF Follows, AfterShift, AfterUnderflow, Settled
<1>8. ASSUME NEW p \in Points, NEW q \in Points, DecoderAt(p), Follows(p, q, message)
      PROVE  /\ q.low = NewLow(dec, w, t, r) /\ q.high = NewHigh(dec, w, t, r)
             /\ Code(StreamOf(out), q) = dec.code
  <2>1. AfterSymbol(p, q, message) /\ p.symbols + 1 = n
    BY <1>7, <1>8
  <2>2. dec.low = p.low /\ dec.high = p.high /\ dec.code = Code(StreamOf(out), p)
    BY <1>8 DEF DecoderAt
  <2> QED BY <2>1, <2>2, CodeAfterSymbol DEF AfterSymbol, NewLow, NewHigh
<1>9. ASSUME NEW p \in Points, NEW q \in Points, DecoderAt(p), Follows(p, q, message),
             Inside(StreamOf(out), q)
      PROVE  s = r
  <2>1. NewLow(dec, w, t, r) <= dec.code /\ dec.code <= NewHigh(dec, w, t, r)
    BY <1>8, <1>9 DEF Inside
  <2>2. NewLow(dec, w, t, s) <= dec.code /\ dec.code <= NewHigh(dec, w, t, s)
    BY <1>3, <1>5
  <2>3. s \in Int /\ r \in Int
    BY <1>4 DEF Symbols
  <2> HIDE DEF t, r, w
  <2>4. ~(s < r) /\ ~(r < s)
    BY <1>4, <1>6, <2>1, <2>2, OnePart
  <2> QED BY <2>3, <2>4
<1>10. PICK tr : OnTrail(tr)
  BY DEF MessageInv
<1>11. /\ Trail(tr, message) /\ End(tr).symbols = Len(message)
       /\ \A i \in 1..Len(tr) : Inside(StreamOf(out), tr[i])
       /\ \E i \in 1..Len(tr) : DecoderAt(tr[i])
  BY <1>2, <1>10 DEF OnTrail, DecoderOnTrail
<1>12. PICK i \in 1..Len(tr) : DecoderAt(tr[i])
  BY <1>11
<1>13. /\ i \in 1..(Len(tr) - 1) /\ i + 1 \in 1..Len(tr)
       /\ tr[i] \in Points /\ tr[i + 1] \in Points
  <2>1. tr \in Seq(Points) /\ Len(tr) \in Nat
    BY <1>11 DEF Trail
  <2>2. i # Len(tr)
    BY <1>2, <1>3, <1>11, <1>12 DEF DecoderAt, End
  <2> QED BY <2>1, <2>2
<1>14. Follows(tr[i], tr[i + 1], message) /\ Inside(StreamOf(out), tr[i + 1])
  BY <1>11, <1>13 DEF Trail
<1>15. s = r
  BY <1>9, <1>12, <1>13, <1>14
<1>16. ASSUME NEW k \in DOMAIN decoded' PROVE decoded'[k] = message[k].symbol
  <2>1. decoded' = Append(decoded, s) /\ s \in Nat
    BY <1>1 DEF Symbols
  <2>2. k \in 1..Len(decoded) \/ k = n
    <3>1. DOMAIN decoded' = 1..(Len(decoded) + 1)
      BY <1>3, <2>1
    <3> QED BY <1>3, <3>1
  <2>3. CASE k \in 1..Len(decoded)
    <3>1. decoded'[k] = decoded[k]
      BY <1>3, <2>1, <2>3
    <3>2. k \in DOMAIN decoded
      BY <1>3, <2>3
    <3> QED BY <3>1, <3>2 DEF MessageInv
  <2>4. CASE k = n
    <3>1. decoded'[n] = s
      BY <1>3, <2>1
    <3> QED BY <1>15, <2>4, <3>1
  <2> QED BY <2>2, <2>3, <2>4
<1>17. ASSUME NEW p \in Points, NEW q \in Points, DecoderAt(p), Follows(p, q, message)
       PROVE  DecoderAt(q)'
  <2>1. q.symbols = n /\ q.written = p.written /\ q.num_underflow = p.num_underflow
    BY <1>7, <1>17 DEF AfterSymbol
  <2>2. pos' = q.written + q.num_underflow + StateSize
    BY <1>2, <1>17, <2>1 DEF DecoderAt
  <2>3. Len(decoded') = n
    <3>1. s \in Nat
      BY DEF Symbols
    <3> QED BY <1>1, <1>3, <3>1
  <2>4. dec'.low = q.low /\ dec'.high = q.high /\ dec'.code = Code(StreamOf(out), q)
    BY <1>5, <1>8, <1>15, <1>17
  <2> QED BY <1>2, <2>1, <2>2, <2>3, <2>4 DEF DecoderAt
<1>18. ASSUME NEW p \in Points, DecoderAt(p) PROVE p.symbols # Len(message)
  BY <1>2, <1>3, <1>18 DEF DecoderAt
<1> HIDE DEF n, t, r, w
<1> QED BY <1>2, <1>16, <1>17, <1>18, DecoderMoves

LEMMA MessageStutter ==
  ASSUME MessageInv, UNCHANGED vars
  PROVE  MessageInv'
<1>1. PICK tr : OnTrail(tr)
  BY DEF MessageInv
<1>2. EncoderOnTrail(tr)' = EncoderOnTrail(tr)
  BY DEF EncoderOnTrail, Shifting, TopBit, vars
<1>3. DecoderOnTrail(tr)' = DecoderOnTrail(tr)
  BY DEF DecoderOnTrail, DecoderAt, vars
<1>4. OnTrail(tr)'
  BY <1>1, <1>2, <1>3 DEF OnTrail, vars
<1> QED BY <1>4 DEF MessageInv, vars

(***************************************************************************)
(* Decoding a message that the Python program encoded gives the message,   *)
(* for every register width, byte size, set of tables and length: what     *)
(* finish writes is enough, and the decoder takes every decision of the    *)
(* encoder again.                                                          *)
(***************************************************************************)
THEOREM MessageIsDecoded == Spec => []DecodedIsMessage
<1> DEFINE MInv == closed = 1 => MessageInv
<1>1. Init => MInv
  BY MessageInitially
<1>2. IInv /\ IInv' /\ MInv /\ [Next]_vars => MInv'
  <2> SUFFICES ASSUME IInv, IInv', [Next]_vars, MInv, closed' = 1 PROVE MessageInv'
    OBVIOUS
  <2>1. closed = 1 /\ MessageInv
    BY DEF Next, Encoder, Decoder, vars, EncoderWrite, EncoderTopBit, EncoderPending,
           EncoderShift, EncoderUnderflow, Finish, DecoderFill, DecoderRead, DecoderShift,
           DecoderUnderflow
  <2> HIDE DEF MInv
  <2> QED
    BY <2>1, EncoderWriteTrail, EncoderTopBitTrail, EncoderPendingTrail, EncoderShiftTrail,
       EncoderUnderflowTrail, FinishTrail, DecoderFillTrail, DecoderReadTrail,
       DecoderShiftTrail, DecoderUnderflowTrail, MessageStutter
       DEF Next, Encoder, Decoder
<1>3. MInv => DecodedIsMessage
  BY DEF MessageInv, DecodedIsMessage
<1> QED BY <1>1, <1>2, <1>3, Invariance, PTL DEF Spec
=============================================================================
