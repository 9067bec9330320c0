------------------------ MODULE CarriedBoard_proofs ------------------------
(***************************************************************************)
(* For any frames the other end sends, in any order and any number: unless *)
(* a write failed, the files of the carried board hold the data received   *)
(* for them.                                                               *)
(***************************************************************************)
EXTENDS CarriedBoard, FiniteSetTheorems, SequenceTheorems,
        WellFoundedInduction, TLAPS

FrameSet ==
  [frame_type : {"control", "request", "transport"},
   id : FileNumbers \cup {0}, n_frame : 0..(NFrames - 1)]

\* The numbers whose files are written.
Kept(n) == n \in (1000..9999) \cup ((-999)..(-100))

Histories ==
  /\ frame \in FrameSet
  /\ file \in [FileNumbers -> Seq(Nat)]
  /\ received \in Seq(Inputs)

IInv == TypeOK /\ Histories /\ FilesAreTheDataReceived

-----------------------------------------------------------------------------
(***************************************************************************)
(* What the concatenation of many sequences is: FlattenSeq is defined by a *)
(* recursive function, FlattenAppend is what follows by induction.         *)
(***************************************************************************)

\* Induction, for a property given as a set of numbers.
LEMMA Induction ==
  ASSUME NEW S, 0 \in S, \A n \in Nat : n \in S => n + 1 \in S
  PROVE  Nat \subseteq S
<1> DEFINE R == OpToRel(<, Nat)
           T == Nat \ S
<1> SUFFICES ASSUME T # {} PROVE FALSE
  OBVIOUS
<1>1. IsWellFoundedOn(R, Nat)
  BY NatLessThanWellFounded
<1>2. \A x, y \in Nat : x < y => <<x, y>> \in R
  BY DEF OpToRel
<1> HIDE DEF R, T
<1>3. PICK x \in T : \A y \in T : ~ (<<y, x>> \in R)
  BY <1>1, WFMin DEF T
<1>4. x \in Nat /\ x # 0 /\ x \notin S
  BY <1>3 DEF T
<1>5. x - 1 \in Nat /\ x - 1 < x
  BY <1>4
<1>6. x - 1 \in S
  BY <1>2, <1>3, <1>4, <1>5 DEF T
<1>7. (x - 1) + 1 = x
  BY <1>4
<1> QED BY <1>4, <1>5, <1>6, <1>7

\* f is the function FlattenSeq computes for the first n sequences of s.
Flattens(f, s, n) == f = [i \in 1..n |-> IF i = 1 THEN s[i] ELSE f[i - 1] \o s[i]]

LEMMA FlattenedBy ==
  ASSUME NEW s, Len(s) # 0
  PROVE  FlattenSeq(s) = (CHOOSE f : Flattens(f, s, Len(s)))[Len(s)]
BY DEF FlattenSeq, Flattens

LEMMA FlattensAgree ==
  ASSUME NEW s, NEW t, NEW f, NEW g, NEW n \in Nat, NEW m \in Nat, n <= m,
         Flattens(f, s, n), Flattens(g, t, m), \A i \in 1..n : s[i] = t[i]
  PROVE  \A i \in 1..n : f[i] = g[i]
<1> DEFINE S == {i \in Nat : i \in 1..n => f[i] = g[i]}
<1>1. 0 \in S
  OBVIOUS
<1>2. ASSUME NEW i \in Nat, i \in S PROVE i + 1 \in S
  <2> SUFFICES ASSUME i + 1 \in 1..n PROVE f[i + 1] = g[i + 1]
    OBVIOUS
  <2>1. /\ f[i + 1] = IF i + 1 = 1 THEN s[i + 1] ELSE f[(i + 1) - 1] \o s[i + 1]
        /\ g[i + 1] = IF i + 1 = 1 THEN t[i + 1] ELSE g[(i + 1) - 1] \o t[i + 1]
    <3>1. i + 1 \in 1..m
      OBVIOUS
    <3> QED BY <3>1 DEF Flattens
  <2>2. (i + 1) - 1 = i /\ s[i + 1] = t[i + 1]
    OBVIOUS
  <2>3. i # 0 => f[i] = g[i]
    BY <1>2
  <2> QED BY <2>1, <2>2, <2>3
<1> HIDE DEF S
<1>3. Nat \subseteq S
  BY <1>1, <1>2, Induction
<1> QED BY <1>3 DEF S

LEMMA FlattensExists ==
  ASSUME NEW s
  PROVE  \A n \in Nat : \E f : Flattens(f, s, n)
<1> DEFINE S == {n \in Nat : \E f : Flattens(f, s, n)}
<1>1. 0 \in S
  <2> DEFINE f == [i \in 1..0 |-> s[i]]
  <2>1. Flattens(f, s, 0)
    BY DEF Flattens
  <2> QED BY <2>1
<1>2. ASSUME NEW n \in Nat, n \in S PROVE n + 1 \in S
  <2>1. PICK f : Flattens(f, s, n)
    BY <1>2
  <2> DEFINE g == [i \in 1..(n + 1) |-> IF i <= n THEN f[i]
                                        ELSE IF i = 1 THEN s[i] ELSE f[i - 1] \o s[i]]
  <2>2. ASSUME NEW i \in 1..(n + 1)
        PROVE  g[i] = IF i = 1 THEN s[i] ELSE g[i - 1] \o s[i]
    <3>1. CASE i <= n
      <4>1. i \in 1..n
        BY <3>1
      <4>2. f[i] = IF i = 1 THEN s[i] ELSE f[i - 1] \o s[i]
        BY <2>1, <4>1 DEF Flattens
      <4>3. i # 1 => i - 1 \in 1..(n + 1) /\ i - 1 <= n
        BY <3>1
      <4>4. i # 1 => g[i - 1] = f[i - 1]
        BY <4>3
      <4> QED BY <3>1, <4>2, <4>4
    <3>2. CASE i = n + 1
      <4>1. i # 1 => i - 1 \in 1..(n + 1) /\ i - 1 <= n
        BY <3>2
      <4>2. i # 1 => g[i - 1] = f[i - 1]
        BY <4>1
      <4>3. g[i] = IF i = 1 THEN s[i] ELSE f[i - 1] \o s[i]
        BY <3>2
      <4> QED BY <4>2, <4>3
    <3> QED BY <3>1, <3>2
  <2>3. g = [i \in 1..(n + 1) |-> IF i = 1 THEN s[i] ELSE g[i - 1] \o s[i]]
    BY <2>2
  <2> HIDE DEF g
  <2>4. Flattens(g, s, n + 1)
    BY <2>3 DEF Flattens
  <2> QED BY <2>4
<1> HIDE DEF S
<1>3. Nat \subseteq S
  BY <1>1, <1>2, Induction
<1> QED BY <1>3 DEF S

LEMMA FlattenAppend ==
  ASSUME NEW T, NEW s \in Seq(Seq(T)), NEW x \in Seq(T)
  PROVE  FlattenSeq(Append(s, x)) = FlattenSeq(s) \o x
<1> DEFINE n == Len(s)
           t == Append(s, x)
           g == CHOOSE f : Flattens(f, t, n + 1)
           f == CHOOSE f : Flattens(f, s, n)
<1>1. /\ n \in Nat /\ Len(t) = n + 1 /\ t[n + 1] = x
      /\ \A i \in 1..n : t[i] = s[i]
  OBVIOUS
<1> SUFFICES FlattenSeq(t) = FlattenSeq(s) \o x
  OBVIOUS
<1>2. FlattenSeq(t) = g[n + 1]
  <2>1. Len(t) # 0
    BY <1>1
  <2> QED BY <1>1, <2>1, FlattenedBy
<1>3. Flattens(g, t, n + 1) /\ Flattens(f, s, n)
  <2>1. (\E h : Flattens(h, t, n + 1)) /\ (\E h : Flattens(h, s, n))
    <3> HIDE DEF t
    <3>1. n + 1 \in Nat
      BY <1>1
    <3> QED BY <1>1, <3>1, FlattensExists
  <2> HIDE DEF t, n
  <2> QED BY <2>1
<1> HIDE DEF g, f, t
<1>4. g[n + 1] = IF n + 1 = 1 THEN t[n + 1] ELSE g[(n + 1) - 1] \o t[n + 1]
  <2>1. n + 1 \in 1..(n + 1)
    BY <1>1
  <2> QED BY <1>3, <2>1 DEF Flattens
<1>5. CASE n = 0
  <2>1. s = <<>> /\ FlattenSeq(s) = <<>>
    BY <1>5 DEF FlattenSeq
  <2>2. <<>> \o x = x
    OBVIOUS
  <2> QED BY <1>1, <1>2, <1>4, <1>5, <2>1, <2>2
<1>6. CASE n # 0
  <2>1. FlattenSeq(s) = f[n]
    BY <1>6, FlattenedBy DEF f
  <2>2. f[n] = g[n]
    <3>1. \A i \in 1..n : f[i] = g[i]
      <4> HIDE DEF n
      <4> QED BY <1>1, <1>3, FlattensAgree
    <3> QED BY <1>1, <1>6, <3>1
  <2>3. n + 1 # 1 /\ (n + 1) - 1 = n
    BY <1>1, <1>6
  <2> HIDE DEF n
  <2> QED BY <1>1, <1>2, <1>4, <2>1, <2>2, <2>3
<1> QED BY <1>5, <1>6

LEMMA FlattenType ==
  ASSUME NEW T
  PROVE  \A s \in Seq(Seq(T)) : FlattenSeq(s) \in Seq(T)
<1> DEFINE S == {n \in Nat : \A s \in Seq(Seq(T)) : Len(s) = n => FlattenSeq(s) \in Seq(T)}
<1>1. 0 \in S
  BY DEF FlattenSeq
<1>2. ASSUME NEW n \in Nat, n \in S PROVE n + 1 \in S
  <2> SUFFICES ASSUME NEW s \in Seq(Seq(T)), Len(s) = n + 1 PROVE FlattenSeq(s) \in Seq(T)
    OBVIOUS
  <2> DEFINE front == SubSeq(s, 1, n)
  <2>1. /\ front \in Seq(Seq(T)) /\ Len(front) = n /\ s[n + 1] \in Seq(T)
        /\ s = Append(front, s[n + 1])
    OBVIOUS
  <2> HIDE DEF front
  <2>2. FlattenSeq(front) \in Seq(T)
    BY <1>2, <2>1
  <2>3. FlattenSeq(s) = FlattenSeq(front) \o s[n + 1]
    BY <2>1, FlattenAppend
  <2> QED BY <2>1, <2>2, <2>3
<1> HIDE DEF S
<1>3. Nat \subseteq S
  BY <1>1, <1>2, Induction
<1> QED BY <1>3 DEF S
-----------------------------------------------------------------------------
\* The numbers that print in four characters.
LEMMA TensUpTo ==
  ASSUME NEW n \in Nat
  PROVE  /\ Digits(n) = 4 <=> 1000 <= n /\ n <= 9999
         /\ Digits(n) = 3 <=> 100 <= n /\ n <= 999
<1> DEFINE These == {t \in Tens : t <= n}
<1>1. Digits(n) = 1 + Cardinality(These)
  BY DEF Digits
<1>2. IsFiniteSet(These)
  <2>1. These \in SUBSET (0..n)
    BY DEF Tens
  <2>2. IsFiniteSet(0..n)
    BY FS_Interval
  <2> HIDE DEF These
  <2> QED BY <2>1, <2>2, FS_Subset
<1>3. /\ IsFiniteSet({10}) /\ Cardinality({10}) = 1
      /\ IsFiniteSet({10, 100}) /\ Cardinality({10, 100}) = 2
      /\ IsFiniteSet({10, 100, 1000}) /\ Cardinality({10, 100, 1000}) = 3
      /\ IsFiniteSet({10, 100, 1000, 10000}) /\ Cardinality({10, 100, 1000, 10000}) = 4
  <2>1. IsFiniteSet({10}) /\ Cardinality({10}) = 1
    BY FS_Singleton
  <2>2. IsFiniteSet({10, 100}) /\ Cardinality({10, 100}) = 2
    <3>1. {10, 100} = {10} \cup {100} /\ 100 \notin {10}
      OBVIOUS
    <3> QED BY <2>1, <3>1, FS_AddElement
  <2>3. IsFiniteSet({10, 100, 1000}) /\ Cardinality({10, 100, 1000}) = 3
    <3>1. {10, 100, 1000} = {10, 100} \cup {1000} /\ 1000 \notin {10, 100}
      OBVIOUS
    <3> QED BY <2>2, <3>1, FS_AddElement
  <2>4. IsFiniteSet({10, 100, 1000, 10000}) /\ Cardinality({10, 100, 1000, 10000}) = 4
    <3>1. {10, 100, 1000, 10000} = {10, 100, 1000} \cup {10000} /\ 10000 \notin {10, 100, 1000}
      OBVIOUS
    <3> QED BY <2>3, <3>1, FS_AddElement
  <2> QED BY <2>1, <2>2, <2>3, <2>4
<1>4. n < 100 => These \in SUBSET {10}
  BY DEF Tens
<1>5. 100 <= n /\ n <= 999 => These = {10, 100}
  BY DEF Tens
<1>6. 1000 <= n /\ n <= 9999 => These = {10, 100, 1000}
  BY DEF Tens
<1>7. n > 9999 => {10, 100, 1000, 10000} \in SUBSET These
  BY DEF Tens
<1> HIDE DEF These
<1>8. n < 100 => Cardinality(These) <= 1
  BY <1>3, <1>4, FS_Subset
<1>9. n > 9999 => Cardinality(These) >= 4
  BY <1>2, <1>3, <1>7, FS_Subset
<1>10. Cardinality(These) \in Nat
  BY <1>2, FS_CardinalityType
<1>11. Digits(n) \in Nat /\ (n < 100 => Digits(n) <= 2) /\ (n > 9999 => Digits(n) >= 5)
  BY <1>1, <1>8, <1>9, <1>10
<1>12. 100 <= n /\ n <= 999 => Digits(n) = 3
  BY <1>1, <1>3, <1>5
<1>13. 1000 <= n /\ n <= 9999 => Digits(n) = 4
  BY <1>1, <1>3, <1>6
<1> QED BY <1>11, <1>12, <1>13

LEMMA DigitsType ==
  ASSUME NEW n \in Nat
  PROVE  Digits(n) \in Nat
<1> DEFINE These == {t \in Tens : t <= n}
<1>1. These \in SUBSET (0..n)
  BY DEF Tens
<1>2. IsFiniteSet(0..n)
  BY FS_Interval
<1>3. Digits(n) = 1 + Cardinality(These)
  BY DEF Digits
<1> HIDE DEF These
<1>4. Cardinality(These) \in Nat
  BY <1>1, <1>2, FS_Subset, FS_CardinalityType
<1> QED BY <1>3, <1>4

LEMMA FourCharacters ==
  ASSUME NEW n \in Int
  PROVE  PrintedLength(n) = 4 <=> Kept(n)
<1>3. /\ Kept(n) <=> n \in 1000..9999 \/ n \in (-999)..(-100)
      /\ n \in 1000..9999 <=> 1000 <= n /\ n <= 9999
      /\ n \in (-999)..(-100) <=> -999 <= n /\ n <= -100
  BY DEF Kept
<1>4. SUFFICES PrintedLength(n) = 4 <=>
        (1000 <= n /\ n <= 9999) \/ (-999 <= n /\ n <= -100)
  BY <1>3
<1>1. CASE n < 0
  <2> DEFINE m == -n
  <2>1. m \in Nat /\ n = -m /\ PrintedLength(n) = 1 + Digits(m)
    BY <1>1 DEF PrintedLength
  <2> HIDE DEF m
  <2>2. Digits(m) = 3 <=> 100 <= m /\ m <= 999
    BY <2>1, TensUpTo
  <2>3. 1 + Digits(m) = 4 <=> Digits(m) = 3
    BY <2>1, DigitsType
  <2>4. ~ (1000 <= n /\ n <= 9999) /\ (-999 <= n /\ n <= -100 <=> 100 <= m /\ m <= 999)
    BY <1>1, <2>1
  <2> QED BY <2>1, <2>2, <2>3, <2>4
<1>2. CASE n >= 0
  BY <1>2, TensUpTo DEF PrintedLength
<1> QED BY <1>1, <1>2

-----------------------------------------------------------------------------
\* The data of one more frame is appended if the frame is for the file.
LEMMA OneMoreFrame ==
  ASSUME IInv, NEW f \in Inputs, Receive(f), NEW n \in FileNumbers
  PROVE  DataReceived(n)' = IF f.frame_type = "transport" /\ f.id = n
                            THEN DataReceived(n) \o f.data ELSE DataReceived(n)
<1> DEFINE Part(g) == IF g.frame_type = "transport" /\ g.id = n THEN g.data ELSE <<>>
           s == [k \in DOMAIN received |-> Part(received[k])]
           t == [k \in DOMAIN received' |-> Part(received'[k])]
<1>1. received \in Seq(Inputs) /\ received' = Append(received, f)
  BY DEF IInv, Histories, Receive
<1>2. \A g \in Inputs : Part(g) \in Seq(Nat)
  BY BoardAssumption
<1>3. DataReceived(n) = FlattenSeq(s) /\ DataReceived(n)' = FlattenSeq(t)
  BY DEF DataReceived
<1> HIDE DEF Part
<1>4. /\ DOMAIN received = 1..Len(received) /\ Len(received) \in Nat
      /\ DOMAIN received' = 1..(Len(received) + 1)
      /\ \A k \in 1..Len(received) : received'[k] = received[k] /\ received[k] \in Inputs
      /\ received'[Len(received) + 1] = f
  BY <1>1
<1>5. s \in Seq(Seq(Nat)) /\ Len(s) = Len(received)
  <2>1. s = [k \in 1..Len(received) |-> Part(received[k])]
    BY <1>4
  <2>2. \A k \in 1..Len(received) : Part(received[k]) \in Seq(Nat)
    BY <1>2, <1>4
  <2> QED BY <1>4, <2>1, <2>2, IsASeq
<1>6. t = Append(s, Part(f))
  <2>1. t = [k \in 1..(Len(received) + 1) |-> Part(received'[k])]
    BY <1>4
  <2>2. Append(s, Part(f)) = [k \in 1..(Len(s) + 1) |-> IF k <= Len(s) THEN s[k] ELSE Part(f)]
    <3> DEFINE a == Append(s, Part(f))
    <3> HIDE DEF s
    <3>1. /\ a \in Seq(Seq(Nat)) /\ Len(a) = Len(s) + 1 /\ a[Len(s) + 1] = Part(f)
          /\ \A k \in 1..Len(s) : a[k] = s[k]
      BY <1>2, <1>5, AppendProperties
    <3> HIDE DEF a
    <3>2. a = [k \in 1..(Len(s) + 1) |-> a[k]]
      BY <3>1
    <3>3. \A k \in 1..(Len(s) + 1) : k <= Len(s) => k \in 1..Len(s)
      BY <1>5
    <3>4. \A k \in 1..(Len(s) + 1) : ~ (k <= Len(s)) => k = Len(s) + 1
      BY <1>4, <1>5
    <3>5. \A k \in 1..(Len(s) + 1) : a[k] = IF k <= Len(s) THEN s[k] ELSE Part(f)
      BY <3>1, <3>3, <3>4
    <3>6. a = [k \in 1..(Len(s) + 1) |-> IF k <= Len(s) THEN s[k] ELSE Part(f)]
      BY <3>2, <3>5
    <3> QED BY <3>6 DEF a
  <2>3. \A k \in 1..(Len(received) + 1) :
          Part(received'[k]) = IF k <= Len(received) THEN s[k] ELSE Part(f)
    BY <1>4
  <2> HIDE DEF s
  <2> QED BY <1>5, <2>1, <2>2, <2>3
<1>7. FlattenSeq(t) = FlattenSeq(s) \o Part(f) /\ FlattenSeq(s) \in Seq(Nat)
  <2> HIDE DEF s, t
  <2> QED BY <1>2, <1>5, <1>6, FlattenAppend, FlattenType
<1>8. FlattenSeq(s) \o <<>> = FlattenSeq(s)
  BY <1>7
<1> HIDE DEF s, t
<1> QED BY <1>3, <1>7, <1>8 DEF Part

LEMMA InitEstablishes == Init => IInv
<1> SUFFICES ASSUME Init PROVE IInv
  OBVIOUS
<1>3. frame \in FrameSet
  <2>1. 0 \in 0..(NFrames - 1)
    BY BoardAssumption
  <2> QED BY <2>1 DEF Init, FrameSet
<1>4. file \in [FileNumbers -> Seq(Nat)] /\ received \in Seq(Inputs)
  BY DEF Init
<1>1. TypeOK /\ Histories
  BY <1>3, <1>4 DEF Init, TypeOK, Histories, FrameSet
<1>2. \A n \in FileNumbers : DataReceived(n) = <<>>
  BY DEF Init, DataReceived, FlattenSeq
<1>5. FilesAreTheDataReceived
  BY <1>2 DEF Init, FilesAreTheDataReceived
<1> QED BY <1>1, <1>5 DEF IInv

\* The output frame keeps its form.
LEMMA CountFrameType ==
  ASSUME NEW g \in FrameSet
  PROVE  CountFrame(g) \in FrameSet
<1>1. (g.n_frame + 1) % NFrames \in 0..(NFrames - 1)
  BY BoardAssumption DEF FrameSet
<1> QED BY <1>1 DEF CountFrame, FrameSet

LEMMA AfterWaitType ==
  ASSUME frame \in FrameSet, NEW type \in {"control", "request", "transport"},
         NEW n \in FileNumbers
  PROVE  /\ AfterWait \in FrameSet
         /\ [AfterWait EXCEPT !.frame_type = type] \in FrameSet
         /\ [AfterWait EXCEPT !.frame_type = type, !.id = n] \in FrameSet
BY DEF AfterWait, FrameSet

\* Nothing but the position in the program changes, or nothing at all.
LEMMA StartStep ==
  ASSUME IInv, Start \/ UNCHANGED vars
  PROVE  IInv'
<1>1. pc' \in {"wait", pc} /\ UNCHANGED <<frame, file, received, failed>>
  BY DEF Start, vars
<1>2. TypeOK' /\ Histories'
  BY <1>1 DEF IInv, TypeOK, Histories
<1>3. \A n : DataReceived(n)' = DataReceived(n)
  BY <1>1 DEF DataReceived
<1>4. FilesAreTheDataReceived'
  BY <1>1, <1>3 DEF IInv, FilesAreTheDataReceived
<1> QED BY <1>2, <1>4 DEF IInv

\* Requests and control frames leave the files alone.
LEMMA OtherStep ==
  ASSUME IInv, NEW f \in Inputs, WaitControl(f) \/ WaitRequest(f)
  PROVE  IInv'
<1>1. /\ Receive(f) /\ f.frame_type \in {"control", "request"}
      /\ UNCHANGED <<pc, file, failed>> /\ received' = Append(received, f)
  BY DEF WaitControl, WaitRequest, Receive
<1>2. frame' \in FrameSet
  <2>1. f.id \in FileNumbers /\ frame \in FrameSet
    BY DEF FileNumbers, IInv, Histories
  <2>2. CASE WaitControl(f)
    BY <2>1, <2>2, AfterWaitType, CountFrameType DEF WaitControl
  <2>3. CASE WaitRequest(f)
    <3>1. [AfterWait EXCEPT !.frame_type = "transport", !.id = f.id] \in FrameSet
      BY <2>1, AfterWaitType
    <3> QED BY <2>3, <3>1, CountFrameType DEF WaitRequest
  <2> QED BY <2>2, <2>3
<1>3. Histories' /\ TypeOK'
  BY <1>1, <1>2 DEF IInv, Histories, TypeOK, FrameSet
<1>4. \A n \in FileNumbers : DataReceived(n)' = DataReceived(n)
  BY <1>1, OneMoreFrame
<1>5. FilesAreTheDataReceived'
  BY <1>1, <1>4 DEF IInv, FilesAreTheDataReceived
<1> QED BY <1>3, <1>5 DEF IInv

LEMMA TransportStep ==
  ASSUME IInv, NEW f \in Inputs, WaitTransport(f)
  PROVE  IInv'
<1>1. /\ Receive(f) /\ f.frame_type = "transport" /\ pc' = pc
      /\ received' = Append(received, f)
      /\ f.id \in FileNumbers /\ f.id \in Int /\ f.data \in Seq(Nat)
  BY BoardAssumption DEF WaitTransport, Data, Receive, FileNumbers
<1>2. frame' \in FrameSet
  <2>1. [AfterWait EXCEPT !.frame_type = "transport"] \in FrameSet
    BY <1>1, AfterWaitType DEF IInv, Histories
  <2> QED BY <2>1, CountFrameType DEF WaitTransport
<1>3. \A n \in FileNumbers : DataReceived(n)' = IF f.id = n THEN DataReceived(n) \o f.data
                                                ELSE DataReceived(n)
  BY <1>1, OneMoreFrame
<1>4. file \in [FileNumbers -> Seq(Nat)] /\ received' \in Seq(Inputs)
      /\ failed \in BOOLEAN /\ DOMAIN file = FileNumbers /\ pc \in {"start", "wait", "dead"}
  BY <1>1 DEF IInv, Histories, TypeOK
<1>5. ~failed => \A n \in FileNumbers :
        file[n] = IF Kept(n) THEN DataReceived(n) ELSE <<>>
  BY DEF IInv, FilesAreTheDataReceived, Kept
<1>6. frame'.frame_type \in {"control", "request", "transport"}
      /\ frame'.n_frame \in 0..(NFrames - 1)
  BY <1>2 DEF FrameSet
<1>7. PrintedLength(f.id) = 4 <=> Kept(f.id)
  <2> DEFINE m == f.id
  <2>1. m \in Int
    BY <1>1
  <2> HIDE DEF m
  <2>2. PrintedLength(m) = 4 <=> Kept(m)
    BY <2>1, FourCharacters
  <2> QED BY <2>2 DEF m
<1>8. CASE PrintedLength(f.id) = 4
  <2>1. PICK k \in 0..Len(f.data) :
          /\ file' = [file EXCEPT ![f.id] = @ \o SubSeq(f.data, 1, k)]
          /\ failed' = (failed \/ k < Len(f.data))
    BY <1>8 DEF WaitTransport
  <2>2. SubSeq(f.data, 1, k) \in Seq(Nat) /\ (~failed' => SubSeq(f.data, 1, k) = f.data)
    <3>1. Len(f.data) \in Nat
      BY <1>1
    <3>2. SubSeq(f.data, 1, k) \in Seq(Nat)
      BY <1>1, <2>1
    <3>3. ~failed' => ~ (k < Len(f.data)) /\ k \in 0..Len(f.data)
      BY <2>1, <1>4
    <3>5. ~failed' => k = Len(f.data)
      BY <3>1, <3>3
    <3>4. SubSeq(f.data, 1, Len(f.data)) = f.data
      BY <1>1
    <3> QED BY <3>2, <3>4, <3>5
  <2>3. file' \in [FileNumbers -> Seq(Nat)] /\ failed' \in BOOLEAN
    BY <1>1, <1>4, <2>1, <2>2
  <2>4. TypeOK' /\ Histories'
    BY <1>1, <1>2, <1>4, <1>6, <2>3 DEF TypeOK, Histories
  <2>5. ASSUME ~failed', NEW n \in FileNumbers
        PROVE  file'[n] = IF Kept(n)
                          THEN DataReceived(n)' ELSE <<>>
    <3>1. ~failed
      BY <2>1, <2>5
    <3>2. CASE n = f.id
      <4>1. file'[n] = file[n] \o f.data
        BY <1>1, <1>4, <2>1, <2>2, <2>5, <3>2
      <4> QED BY <1>3, <1>5, <1>7, <1>8, <3>1, <3>2, <4>1
    <3>3. CASE n # f.id
      <4>1. file'[n] = file[n]
        BY <1>4, <2>1, <3>3
      <4> QED BY <1>3, <1>5, <3>1, <3>3, <4>1
    <3> QED BY <3>2, <3>3
  <2>6. FilesAreTheDataReceived'
    BY <2>5 DEF FilesAreTheDataReceived, Kept
  <2> QED BY <2>4, <2>6 DEF IInv
<1>9. CASE PrintedLength(f.id) # 4
  <2>1. UNCHANGED <<file, failed>>
    BY <1>9 DEF WaitTransport
  <2>2. TypeOK' /\ Histories'
    BY <1>1, <1>2, <1>4, <1>6, <2>1 DEF TypeOK, Histories
  <2>3. FilesAreTheDataReceived'
    <3>1. ~ Kept(f.id)
      BY <1>7, <1>9
    <3>2. ASSUME ~failed', NEW n \in FileNumbers
          PROVE  file'[n] = IF Kept(n)
                            THEN DataReceived(n)' ELSE <<>>
      BY <1>3, <1>5, <2>1, <3>1, <3>2
    <3> QED BY <3>2 DEF FilesAreTheDataReceived, Kept
  <2> QED BY <2>2, <2>3 DEF IInv
<1> QED BY <1>8, <1>9

LEMMA OverrunStep ==
  ASSUME IInv, NEW f \in Inputs, NameOverruns(f)
  PROVE  IInv'
<1>1. /\ pc' = "dead" /\ failed' = TRUE /\ file' = file
      /\ received' = Append(received, f) /\ f.id \in FileNumbers
      /\ frame' = [AfterWait EXCEPT !.frame_type = "transport"]
  BY DEF NameOverruns, Data, Receive, FileNumbers
<1>2. frame' \in FrameSet
  BY <1>1, AfterWaitType DEF IInv, Histories
<1>3. TypeOK' /\ Histories'
  <2>1. file \in [FileNumbers -> Seq(Nat)] /\ received' \in Seq(Inputs)
        /\ DOMAIN file = FileNumbers
    BY <1>1 DEF IInv, TypeOK, Histories
  <2>2. frame'.frame_type \in {"control", "request", "transport"}
        /\ frame'.n_frame \in 0..(NFrames - 1)
    BY <1>2 DEF FrameSet
  <2> QED BY <1>1, <1>2, <2>1, <2>2 DEF TypeOK, Histories
<1> QED BY <1>1, <1>3 DEF IInv, FilesAreTheDataReceived

(***************************************************************************)
(* The inductive invariant: the property itself, with the types of the     *)
(* frames and of the files (main.c:46-87).                                 *)
(***************************************************************************)
THEOREM Invariance == Spec => []IInv
<1>1. IInv /\ [Next]_vars => IInv'
  BY StartStep, OtherStep, TransportStep, OverrunStep DEF Next
<1> QED BY InitEstablishes, <1>1, PTL DEF Spec

(***************************************************************************)
(* The types of the carried board's variables; n_frame stays within its    *)
(* 16 bits (main.c:46-87).                                                 *)
(***************************************************************************)
THEOREM TypeCorrect == Spec => []TypeOK
<1>1. IInv => TypeOK
  BY DEF IInv
<1> QED BY Invariance, <1>1, PTL

(***************************************************************************)
(* The .yuv files hold the data received for them, whole and in order,     *)
(* however many frames come and whatever their numbers are                 *)
(* (main.c:64-85).                                                         *)
(***************************************************************************)
THEOREM FilesHoldTheData == Spec => []FilesAreTheDataReceived
<1>1. IInv => FilesAreTheDataReceived
  BY DEF IInv
<1> QED BY Invariance, <1>1, PTL
=============================================================================
