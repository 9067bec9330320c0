------------------------- MODULE CentreBoard_proofs -------------------------
(***************************************************************************)
(* For any block size, any sizes and names of images, and any frames the   *)
(* other end sends: answers are in order and whole but for a full last     *)
(* block, requests do not multiply, and a .bin file keeps the order of     *)
(* what it was opened for.                                                 *)
(***************************************************************************)
EXTENDS CentreBoard, FiniteSetTheorems, SequenceTheorems,
        WellFoundedInduction, TLAPS

\* The frame an answer is sent in.
Answering ==
  pc \in {"send", "request"} => frame.frame_type = "transport"

\* How far the answer is: whole blocks, until the last one has been sent.
Whole == IF img > 0 /\ img % DataMax = 0 THEN img - DataMax ELSE img

Progress ==
  /\ covered \in Seq(Nat) /\ \A k \in DOMAIN covered : covered[k] = k
  /\ pc = "send" =>
       /\ p = Len(covered)
       /\ i < TotalFrames(img) => Len(covered) = i * DataMax
       /\ i = TotalFrames(img) /\ img >= 0 => Len(covered) = Whole
  /\ pc = "request" /\ img >= 0 => Len(covered) <= img
  /\ pc \in {"send", "request"} /\ -DataMax < img /\ img < 0 => covered = <<>>

Histories == written \in Seq(FrameSet) /\ received \in Seq(Inputs)

IInv == TypeOK /\ Answering /\ Progress /\ Histories /\ RequestsMatch

-----------------------------------------------------------------------------
LEMMA Division ==
  ASSUME NEW n \in Int, NEW d \in Nat \ {0}
  PROVE  /\ n \div d \in Int /\ n % d \in 0..(d - 1)
         /\ n = d * (n \div d) + (n % d)
         /\ n >= 0 => n \div d \in Nat
  OBVIOUS

LEMMA Small ==
  ASSUME NEW n \in Nat, NEW d \in Nat \ {0}, n < d
  PROVE  n \div d = 0 /\ n % d = n
<1> DEFINE q == n \div d  r == n % d  m == d * q
<1>1. q \in Nat /\ r \in 0..(d - 1) /\ n = m + r
  <2>1. n \in Int /\ n >= 0
    OBVIOUS
  <2>2. n \div d \in Nat /\ n % d \in 0..(d - 1) /\ n = d * (n \div d) + (n % d)
    BY <2>1, Division
  <2> QED BY <2>2
<1> HIDE DEF q, r
<1>2. q >= 1 => m >= d
  BY <1>1
<1>3. m \in Nat /\ (q = 0 => m = 0)
  BY <1>1
<1> HIDE DEF m
<1>4. q = 0
  BY <1>1, <1>2, <1>3
<1> QED BY <1>1, <1>3, <1>4 DEF q, r

LEMMA SmallNegative ==
  ASSUME NEW n \in Nat, NEW d \in Nat \ {0}, n > 0, n < d
  PROVE  (-n) % d = d - n
<1> DEFINE q == (-n) \div d  r == (-n) % d  m == d * q
<1>1. q \in Int /\ r \in 0..(d - 1) /\ -n = m + r
  BY Division
<1> HIDE DEF q, r
<1>2. /\ q >= 0 => m >= 0
      /\ q <= -2 => m <= -2 * d
      /\ q = -1 => m = -d
      /\ m \in Int
  <2>1. q <= -2 => d * q <= d * (-2)
    BY <1>1
  <2> QED BY <1>1, <2>1
<1> HIDE DEF m
<1>3. q = -1
  BY <1>1, <1>2
<1> QED BY <1>1, <1>2, <1>3 DEF r

\* The blocks of an image that is there: the last one holds the rest.
LEMMA BlocksOfImage ==
  ASSUME NEW s \in Sizes \cup {0}, s >= 0
  PROVE  /\ s \in Nat /\ TotalFrames(s) \in Nat
         /\ Rem(s) = s % DataMax
         /\ s % DataMax = 0 => TotalFrames(s) * DataMax = s
         /\ s % DataMax # 0 => (TotalFrames(s) - 1) * DataMax + (s % DataMax) = s
         /\ s % DataMax \in 0..(DataMax - 1)
         /\ s = 0 <=> TotalFrames(s) = 0
<1> DEFINE q == s \div DataMax  r == s % DataMax  u == IF r # 0 THEN 1 ELSE 0
<1>1. s \in Nat /\ DataMax \in Nat \ {0} /\ s < Words /\ Words \in Nat \ {0}
  BY BoardAssumption
<1>2. q \in Nat /\ r \in 0..(DataMax - 1) /\ s = DataMax * q + r
  <2>1. s \in Int /\ s >= 0
    BY <1>1
  <2>2. s \div DataMax \in Nat /\ s % DataMax \in 0..(DataMax - 1)
        /\ s = DataMax * (s \div DataMax) + (s % DataMax)
    BY <1>1, <2>1, Division
  <2> QED BY <2>2
<1>3. TotalFrames(s) = (q + u) % Words /\ Rem(s) = r
  BY <1>1 DEF TotalFrames, Quot, Rem
<1> HIDE DEF q, r
<1>4. q * DataMax = DataMax * q /\ DataMax * q \in Nat /\ DataMax * q >= q
  BY <1>1, <1>2
<1>5. q = 0 <=> DataMax * q = 0
  BY <1>1, <1>2
<1>6. s % DataMax = r
  BY DEF r
<1>7. q + u \in Nat /\ q + u <= s
  BY <1>1, <1>2, <1>4
<1>8. TotalFrames(s) = q + u
  <2> HIDE DEF u
  <2>1. q + u < Words
    BY <1>1, <1>7
  <2> QED BY <1>1, <1>3, <1>7, <2>1, Small
<1>9. CASE r = 0
  BY <1>1, <1>2, <1>3, <1>4, <1>5, <1>6, <1>8, <1>9
<1>10. CASE r # 0
  <2>1. TotalFrames(s) = q + 1 /\ TotalFrames(s) - 1 = q
    BY <1>2, <1>8, <1>10
  <2> QED BY <1>1, <1>2, <1>3, <2>1, <1>4, <1>6, <1>10
<1> QED BY <1>9, <1>10

\* A size a little below zero makes a single frame, too long to be copied.
LEMMA BlocksOfNegative ==
  ASSUME NEW s \in Sizes \cup {0}, -DataMax < s, s < 0
  PROVE  TotalFrames(s) = 1 /\ Rem(s) % Lens > DataMax
<1> DEFINE m == -s
<1>1. /\ m \in Nat /\ m > 0 /\ m < DataMax /\ DataMax \in Nat \ {0}
      /\ Words \in Nat \ {0} /\ 1 < Words /\ Lens \in Nat \ {0} /\ Lens >= 2 * DataMax
  BY BoardAssumption
<1>2. m \div DataMax = 0 /\ m % DataMax = m
  BY <1>1, Small
<1>3. Quot(s) = -0 /\ Rem(s) = -m
  <2>1. ~ (s >= 0)
    BY BoardAssumption
  <2>2. Quot(s) = -(m \div DataMax) /\ Rem(s) = -(m % DataMax)
    BY <2>1 DEF Quot, Rem
  <2> HIDE DEF m
  <2> QED BY <1>2, <2>2
<1> HIDE DEF m
<1>4. TotalFrames(s) = 1 % Words
  <2>1. Rem(s) # 0 /\ Quot(s) + 1 = 1
    BY <1>1, <1>3
  <2> QED BY <2>1 DEF TotalFrames
<1>5. 1 % Words = 1
  BY <1>1, Small
<1>6. (-m) % Lens = Lens - m
  <2>1. m < Lens
    BY <1>1
  <2> QED BY <1>1, <2>1, SmallNegative
<1> QED BY <1>1, <1>3, <1>4, <1>5, <1>6

LEMMA Frames ==
  ASSUME NEW s \in Sizes \cup {0}
  PROVE  s \in Int /\ TotalFrames(s) \in Nat /\ Rem(s) % Lens \in Nat
<1>1. s \in Int /\ DataMax \in Nat \ {0} /\ Words \in Nat \ {0} /\ Lens \in Nat \ {0}
  BY BoardAssumption
<1>2. \A n \in Nat : n \div DataMax \in Int /\ n % DataMax \in Int
  BY <1>1
<1>3. Quot(s) \in Int /\ Rem(s) \in Int
  <2>1. s >= 0 => s \in Nat
    BY <1>1
  <2>2. ~ (s >= 0) => -s \in Nat
    BY <1>1
  <2> QED BY <1>1, <1>2, <2>1, <2>2 DEF Quot, Rem
<1>4. \A n \in Int : n % Words \in Nat /\ n % Lens \in Nat
  BY <1>1
<1>5. TotalFrames(s) \in Nat
  <2>1. Quot(s) + (IF Rem(s) # 0 THEN 1 ELSE 0) \in Int
    BY <1>3
  <2> QED BY <1>4, <2>1 DEF TotalFrames
<1> QED BY <1>1, <1>3, <1>4, <1>5

LEMMA CountType ==
  ASSUME NEW S, NEW s \in Seq(S), NEW type
  PROVE  Count(s, type) \in Nat
<1>1. {k \in DOMAIN s : s[k].frame_type = type} \subseteq 1..Len(s) /\ Len(s) \in Nat
  OBVIOUS
<1>2. IsFiniteSet(1..Len(s))
  BY <1>1, FS_Interval
<1> QED BY <1>1, <1>2, FS_Subset, FS_CardinalityType DEF Count

\* One more frame counts if it is of the type.
LEMMA CountAppend ==
  ASSUME NEW S, NEW s \in Seq(S), NEW f \in S, NEW type
  PROVE  /\ Count(s, type) \in Nat
         /\ Count(Append(s, f), type) = Count(s, type) + IF f.frame_type = type THEN 1 ELSE 0
<1> DEFINE These == {k \in DOMAIN s : s[k].frame_type = type}
           Then == {k \in DOMAIN Append(s, f) : Append(s, f)[k].frame_type = type}
           n == Len(s) + 1
<1>1. /\ DOMAIN s = 1..Len(s) /\ Len(s) \in Nat
      /\ DOMAIN Append(s, f) = 1..n
      /\ \A k \in 1..Len(s) : Append(s, f)[k] = s[k]
      /\ Append(s, f)[n] = f
  BY AppendProperties
<1>2. IsFiniteSet(These) /\ Cardinality(These) \in Nat
  <2>1. These \subseteq 1..Len(s) /\ IsFiniteSet(1..Len(s))
    BY <1>1, FS_Interval
  <2> QED BY <2>1, FS_Subset, FS_CardinalityType
<1>3. Then = IF f.frame_type = type THEN These \cup {n} ELSE These
  <2>1. \A k \in 1..n : k \in 1..Len(s) \/ k = n
    BY <1>1
  <2>2. 1..Len(s) \subseteq 1..n /\ n \in 1..n /\ n \notin 1..Len(s)
    BY <1>1
  <2> QED BY <1>1, <2>1, <2>2
<1>4. n \notin These
  BY <1>1
<1>5. Cardinality(These \cup {n}) = Cardinality(These) + 1
  BY <1>2, <1>4, FS_AddElement
<1>6. Count(s, type) = Cardinality(These) /\ Count(Append(s, f), type) = Cardinality(Then)
  BY DEF Count
<1> HIDE DEF These, Then
<1> QED BY <1>2, <1>3, <1>5, <1>6

-----------------------------------------------------------------------------
LEMMA InitEstablishes == Init => IInv
<1> SUFFICES ASSUME Init PROVE IInv
  OBVIOUS
<1> USE DEF Init
<1>1. TypeOK
  <2>1. 0 \in Nat /\ 0 \in 0..(NFrames - 1) /\ <<>> \in Seq(Nat) /\ Len(<<>>) = 0
    BY BoardAssumption
  <2>2. 0 <= DataMax
    BY BoardAssumption
  <2>3. frame \in FrameSet
    BY <2>1 DEF FrameSet
  <2> QED BY <2>1, <2>2, <2>3 DEF TypeOK
<1>2. Answering /\ Progress /\ Histories
  BY DEF Answering, Progress, Histories
<1>3. Count(<<>>, "request") = 0
  BY FS_EmptySet DEF Count
<1>4. RequestsMatch
  BY <1>3 DEF RequestsMatch
<1> QED BY <1>1, <1>2, <1>4 DEF IInv

\* A frame arrives: the answer that may have been under way is over.
LEMMA ReceiveStep ==
  ASSUME IInv, NEW f \in Inputs, Receive(f),
         \/ WaitRequest(f) \/ WaitTransport(f) \/ WaitControl(f)
         \/ ReadFaults(f) \/ NameFaults(f)
  PROVE  IInv'
<1> USE DEF IInv, Receive
<1>1. AfterWait \in FrameSet /\ AfterWait.data = frame.data /\ AfterWait.n_frame = frame.n_frame
  <2>1. frame \in FrameSet
    BY DEF TypeOK
  <2> HIDE DEF IInv, Receive
  <2> QED BY <2>1 DEF AfterWait, FrameSet
<1>2. NextNumber(frame.n_frame) \in 0..(NFrames - 1)
  BY BoardAssumption DEF TypeOK, FrameSet, NextNumber
<1>3. /\ received' = Append(received, f) /\ UNCHANGED <<written, size, name>> /\ pc = "wait"
  BY DEF WaitRequest, WaitTransport, WaitControl, ReadFaults, NameFaults
<1>4. Histories'
  BY <1>3 DEF Histories
<1>5. Count(received', "request")
        = Count(received, "request") + (IF f.frame_type = "request" THEN 1 ELSE 0)
      /\ Count(received, "request") \in Nat
  BY <1>3, CountAppend DEF Histories
<1>6. Count(written', "request") = Count(written, "request") /\ Count(written, "request") \in Nat
  <2>1. Count(written, "request") \in Nat
    <3>1. written \in Seq(FrameSet) /\ frame \in FrameSet
      BY DEF Histories, TypeOK
    <3> QED BY <3>1, CountAppend
  <2> QED BY <1>3, <2>1
<1>7. CASE WaitRequest(f)
  <2> USE <1>7 DEF WaitRequest
  <2>1. f.id \in Nat
    BY BoardAssumption
  <2>2. frame' \in FrameSet /\ frame'.data = frame.data /\ frame'.frame_type = "transport"
    BY <1>1, <2>1 DEF FrameSet
  <2>3. img' \in Sizes \cup {0}
    BY DEF SizeRead, TypeOK
  <2>4. /\ TotalFrames(img') \in Nat /\ img' \in Int
        /\ img' >= 0 => (TotalFrames(img') = 0 <=> img' = 0)
    BY <2>3, Frames, BlocksOfImage
  <2>5. pc' = "send" /\ i' = 0 /\ p' = 0 /\ covered' = <<>>
    OBVIOUS
  <2>6. TypeOK' /\ Answering'
    <3>1. i' \in 0..TotalFrames(img')
      BY <2>4, <2>5
    <3> QED BY <1>3, <2>2, <2>3, <2>5, <3>1 DEF TypeOK, Answering
  <2>7. Progress'
    <3>1. 0 * DataMax = 0 /\ DataMax \in Nat \ {0}
      BY BoardAssumption
    <3>2. covered' \in Seq(Nat) /\ DOMAIN covered' = {} /\ Len(covered') = 0
      BY <2>5
    <3>3. TotalFrames(img') = 0 /\ img' >= 0 => Whole' = 0
      BY <2>4 DEF Whole
    <3> QED BY <2>4, <2>5, <3>1, <3>2, <3>3 DEF Progress
  <2>8. RequestsMatch'
    BY <1>3, <1>5, <1>6 DEF RequestsMatch
  <2> QED BY <1>4, <2>6, <2>7, <2>8
<1>8. CASE ~WaitRequest(f)
  <2>1. pc' \in {"wait", "dead"} /\ p' = p /\ covered' = covered /\ img' = img
    BY <1>8, <1>3 DEF WaitTransport, WaitControl, ReadFaults, NameFaults
  <2>2. frame' \in {AfterWait, [AfterWait EXCEPT !.n_frame = NextNumber(AfterWait.n_frame)]}
    BY <1>8 DEF WaitTransport, WaitControl, ReadFaults, NameFaults
  <2>3. frame' \in FrameSet /\ frame'.data = frame.data
    BY <1>1, <1>2, <2>2 DEF FrameSet
  <2>4. TypeOK' /\ Answering' /\ Progress'
    BY <1>3, <2>1, <2>3 DEF TypeOK, Answering, Progress
  <2>5. RequestsMatch'
    BY <1>3, <1>5, <1>6, <2>1 DEF RequestsMatch
  <2> QED BY <1>4, <2>4, <2>5
<1> QED BY <1>7, <1>8

LEMMA SendChunkStep ==
  ASSUME IInv, SendChunk
  PROVE  IInv'
<1> USE DEF IInv, SendChunk
<1> DEFINE len == DataLen  T == TotalFrames(img)  rest == img % DataMax
<1>1. /\ frame.data \in Seq(Nat) /\ i \in Nat /\ T \in Nat /\ i < T /\ p \in Nat /\ img \in Int
      /\ p = Len(covered) /\ p = i * DataMax /\ DataMax \in Nat \ {0}
      /\ img \in Sizes \cup {0}
  <2>1. img \in Sizes \cup {0}
    BY DEF TypeOK
  <2>2. T \in Nat /\ img \in Int
    BY <2>1, Frames
  <2> QED BY <2>1, <2>2, BoardAssumption DEF TypeOK, FrameSet, Progress
<1>2. img >= 0 =>
        /\ img \in Nat /\ rest \in 0..(DataMax - 1) /\ img # 0
        /\ rest = 0 => T * DataMax = img
        /\ rest # 0 => (T - 1) * DataMax + rest = img
        /\ Rem(img) % Lens = rest
  <2>1. ASSUME img >= 0 PROVE Rem(img) % Lens = rest
    <3>1. Rem(img) = rest /\ rest \in 0..(DataMax - 1) /\ rest \in Nat
      BY <1>1, <2>1, BlocksOfImage
    <3>2. rest < Lens /\ Lens \in Nat \ {0}
      BY <3>1, BoardAssumption
    <3> HIDE DEF rest
    <3> QED BY <3>1, <3>2, Small
  <2> QED BY <1>1, <2>1, BlocksOfImage
<1>3. ~ (-DataMax < img /\ img < 0)
  <2> SUFFICES ASSUME -DataMax < img, img < 0 PROVE FALSE
    OBVIOUS
  <2>1. T = 1 /\ Rem(img) % Lens > DataMax
    BY <1>1, BlocksOfNegative
  <2>2. DataLen = Rem(img) % Lens
    <3>1. i = T - 1
      BY <1>1, <2>1
    <3> QED BY <3>1 DEF DataLen
  <2>3. DataLen <= DataMax
    OBVIOUS
  <2>4. Rem(img) % Lens \in Nat
    BY <1>1, Frames
  <2> QED BY <1>1, <2>1, <2>2, <2>3, <2>4
<1>4. len \in 0..DataMax
  <2>1. Rem(img) % Lens \in Nat /\ len <= DataMax
    BY <1>1, Frames
  <2> QED BY <1>1, <2>1 DEF DataLen
<1>5. Chunk \in Seq(Nat) /\ Len(Chunk) = len /\ \A k \in 1..len : Chunk[k] = p + k
  <2>1. Chunk = [k \in 1..len |-> p + k]
    BY DEF Chunk
  <2>2. len \in Nat /\ \A k \in 1..len : p + k \in Nat
    BY <1>1, <1>4
  <2> HIDE DEF len
  <2> QED BY <2>1, <2>2, IsASeq
<1>12. i = T - 1 => len = Rem(img) % Lens
  BY DEF DataLen
<1>13. i # T - 1 => len = DataMax
  BY DEF DataLen
<1> HIDE DEF len
<1>6. frame' \in FrameSet /\ frame'.frame_type = "transport"
      /\ frame'.data = Chunk /\ Len(frame'.data) <= DataMax
  <2>1. frame' = [frame EXCEPT !.data = Chunk] /\ frame \in FrameSet
    BY DEF TypeOK
  <2>2. frame.frame_type = "transport"
    BY DEF Answering
  <2>3. Len(Chunk) <= DataMax
    BY <1>1, <1>4, <1>5
  <2> HIDE DEF IInv, SendChunk
  <2> QED BY <1>5, <2>1, <2>2, <2>3 DEF FrameSet
<1>7. p' = p + len /\ UNCHANGED <<size, name, received, img>> /\ p' \in Nat
  BY <1>1, <1>4, <1>5
<1>8. CASE i' = i + 1 /\ pc' = pc /\ written' = Append(written, frame') /\ covered' = covered \o Chunk
  <2>1. written' \in Seq(FrameSet)
    BY <1>6, <1>8 DEF Histories
  <2>2. \A k \in DOMAIN written' : written'[k] \in FrameSet
    BY <2>1
  <2>3. TypeOK'
    <3>1. i' \in 0..TotalFrames(img')
      BY <1>1, <1>7, <1>8
    <3>2. size' \in [Files -> Sizes] /\ name' \in [Files -> Names] /\ pc' = "send"
      BY <1>7, <1>8 DEF TypeOK
    <3> HIDE DEF IInv, SendChunk
    <3> QED BY <1>1, <1>6, <1>7, <2>2, <3>1, <3>2 DEF TypeOK
  <2>4. covered' \in Seq(Nat) /\ Len(covered') = p + len /\ \A k \in DOMAIN covered' : covered'[k] = k
    <3> HIDE DEF T, rest
    <3>1. covered \in Seq(Nat) /\ DOMAIN covered = 1..p /\ \A k \in 1..p : covered[k] = k
      <4>1. covered \in Seq(Nat) /\ \A k \in DOMAIN covered : covered[k] = k
        BY DEF Progress
      <4>2. p = Len(covered)
        BY <1>1
      <4> HIDE DEF IInv, SendChunk
      <4> QED BY <4>1, <4>2
    <3>2. covered' \in Seq(Nat) /\ Len(covered') = p + len
          /\ \A k \in 1..(p + len) : covered'[k] = IF k <= p THEN covered[k] ELSE Chunk[k - p]
      <4>1. Chunk \in Seq(Nat) /\ Len(Chunk) = len /\ covered' = covered \o Chunk
        BY <1>5, <1>8
      <4>2. covered \in Seq(Nat) /\ p = Len(covered)
        BY <1>1, <3>1
      <4> HIDE DEF IInv, SendChunk
      <4> QED BY <4>1, <4>2, ConcatProperties
    <3>3. ASSUME NEW k \in 1..(p + len) PROVE covered'[k] = k
      <4>1. CASE k <= p
        BY <1>1, <3>1, <3>2, <4>1
      <4>2. CASE k > p
        <5>1. k - p \in 1..len /\ p + (k - p) = k
          <6>1. p \in Nat /\ len \in Nat
            BY <1>1, <1>4
          <6> HIDE DEF IInv, SendChunk
          <6> QED BY <4>2, <6>1
        <5> QED BY <1>1, <1>5, <3>2, <4>2, <5>1
      <4> QED BY <1>1, <1>4, <4>1, <4>2
    <3> QED BY <3>2, <3>3
  <2>5. (i' < T => p + len = i' * DataMax) /\ (i' = T /\ img >= 0 => p + len = Whole)
    <3> HIDE DEF IInv, SendChunk
    <3>1. i' = i + 1
      BY <1>8
    <3>2. CASE i = T - 1
      <4>1. i' = T
        BY <1>1, <3>1, <3>2
      <4>2. ASSUME img >= 0 PROVE p + len = Whole
        <5>1. len = rest
          BY <1>2, <1>12, <3>2, <4>2
        <5> DEFINE b == (T - 1) * DataMax
        <5>2. p = b /\ T * DataMax = b + DataMax /\ b \in Nat
          <6>1. T = (T - 1) + 1 /\ T - 1 \in Nat
            BY <1>1, <3>2
          <6>2. \A x \in Nat : (x + 1) * DataMax = x * DataMax + DataMax /\ x * DataMax \in Nat
            BY <1>1
          <6> HIDE DEF T
          <6> QED BY <1>1, <3>2, <6>1, <6>2
        <5>3. /\ rest = 0 => b + DataMax = img
              /\ rest # 0 => b + rest = img
              /\ rest \in Nat /\ img \in Nat /\ img # 0
          BY <1>1, <1>2, <4>2, <5>2
        <5>4. Whole = IF rest = 0 THEN img - DataMax ELSE img
          BY <5>3 DEF Whole
        <5> HIDE DEF b, T, rest
        <5> QED BY <1>1, <5>1, <5>2, <5>3, <5>4
      <4> QED BY <1>1, <4>1, <4>2
    <3>3. CASE i # T - 1
      <4>1. len = DataMax /\ i' < T
        BY <1>1, <1>13, <3>1, <3>3
      <4>2. (i + 1) * DataMax = i * DataMax + DataMax
        BY <1>1
      <4> QED BY <1>1, <3>1, <4>1, <4>2
    <3> QED BY <3>2, <3>3
  <2>7. Progress'
    <3>1. pc' = "send" /\ p' = Len(covered') /\ Whole' = Whole /\ img' = img
      BY <1>7, <1>8, <2>4 DEF Whole
    <3> HIDE DEF IInv, SendChunk
    <3> QED BY <1>3, <1>7, <2>4, <2>5, <3>1 DEF Progress
  <2>8. Count(written', "request") = Count(written, "request") /\ Count(written, "request") \in Nat
    <3>1. written \in Seq(FrameSet) /\ frame' \in FrameSet /\ frame'.frame_type # "request"
      BY <1>6 DEF Histories
    <3> HIDE DEF IInv, SendChunk
    <3> QED BY <1>8, <3>1, CountAppend
  <2>9. RequestsMatch'
    BY <1>7, <1>8, <2>8 DEF RequestsMatch
  <2>10. Answering' /\ Histories'
    BY <1>6, <1>7, <2>1 DEF Answering, Histories
  <2> QED BY <2>3, <2>7, <2>9, <2>10
<1>9. CASE pc' = "request" /\ UNCHANGED <<written, covered, i>>
  <2>1. TypeOK'
    BY <1>1, <1>6, <1>7, <1>9 DEF TypeOK
  <2>2. img >= 0 => p <= img
    <3> SUFFICES ASSUME img >= 0 PROVE p <= img
      OBVIOUS
    <3> DEFINE b == T - 1
    <3> HIDE DEF IInv, SendChunk
    <3>1. b \in Nat /\ i <= b /\ T = b + 1
      BY <1>1
    <3> HIDE DEF b
    <3>3. T * DataMax = b * DataMax + DataMax /\ b * DataMax \in Nat
      BY <1>1, <3>1
    <3>4. i * DataMax <= b * DataMax
      BY <1>1, <3>1
    <3>5. /\ rest = 0 => T * DataMax = img
          /\ rest # 0 => b * DataMax + rest = img
          /\ rest \in Nat /\ img \in Nat
      BY <1>1, <1>2, <3>1
    <3> HIDE DEF T, rest
    <3> QED BY <1>1, <3>3, <3>4, <3>5
  <2>3. Progress'
    BY <1>1, <1>3, <1>7, <1>9, <2>2 DEF Progress
  <2>4. RequestsMatch'
    BY <1>7, <1>9 DEF RequestsMatch
  <2>5. Answering' /\ Histories'
    BY <1>6, <1>7, <1>9 DEF Answering, Histories
  <2> QED BY <2>1, <2>3, <2>4, <2>5
<1> QED BY <1>8, <1>9

LEMMA SendRequestStep ==
  ASSUME IInv, SendRequest
  PROVE  IInv'
<1> DEFINE request == [frame EXCEPT !.frame_type = "request"]
<1>1. /\ frame \in FrameSet /\ written \in Seq(FrameSet)
      /\ pc \in {"send", "request"} /\ pc' = "wait" /\ UNCHANGED <<size, name, img, i, p, received, covered>>
      /\ frame' = [request EXCEPT !.n_frame = NextNumber(request.n_frame)]
      /\ written' = Append(written, request) \/ written' = written
  BY DEF IInv, TypeOK, Histories, SendRequest
<1>2. request \in FrameSet /\ request.frame_type = "request" /\ request.data = frame.data
  BY <1>1 DEF FrameSet
<1>3. NextNumber(request.n_frame) \in 0..(NFrames - 1)
  BY <1>2, BoardAssumption DEF FrameSet, NextNumber
<1>4. frame' \in FrameSet /\ frame'.data = frame.data
  <2> HIDE DEF request
  <2> QED BY <1>1, <1>2, <1>3 DEF FrameSet
<1>5. written' \in Seq(FrameSet)
      /\ Count(written', "request") <= Count(written, "request") + 1
      /\ Count(written', "request") \in Nat /\ Count(written, "request") \in Nat
  <2> HIDE DEF request
  <2>1. CASE written' = Append(written, request)
    <3>1. Count(written', "request") = Count(written, "request") + 1
          /\ Count(written, "request") \in Nat /\ written' \in Seq(FrameSet)
      BY <1>1, <1>2, <2>1, CountAppend
    <3> QED BY <3>1
  <2>2. CASE written' = written
    <3>1. Count(written, "request") \in Nat
      BY <1>1, <1>2, CountAppend
    <3> QED BY <1>1, <2>2, <3>1
  <2> QED BY <1>1, <2>1, <2>2
<1>6. TypeOK'
  BY <1>1, <1>4, <1>5 DEF IInv, TypeOK
<1>7. Answering' /\ Progress' /\ Histories'
  <2>1. img \in Int /\ DataMax \in Nat
    BY BoardAssumption, Frames DEF IInv, TypeOK
  <2> HIDE DEF request
  <2> QED BY <1>1, <1>5, <2>1 DEF IInv, Answering, Progress, Histories
<1>8. RequestsMatch'
  <2>1. Count(received, "request") = Count(received, "request")'
    BY <1>1
  <2>2. Count(written, "request") + 1 <= Count(received, "request")
    BY <1>1 DEF IInv, RequestsMatch
  <2>3. Count(received, "request") \in Nat
    BY CountType DEF IInv, Histories
  <2> HIDE DEF request
  <2>4. Count(written', "request") + 0 <= Count(received', "request")
    BY <1>5, <2>1, <2>2, <2>3
  <2> QED BY <1>1, <2>4 DEF RequestsMatch
<1> QED BY <1>6, <1>7, <1>8 DEF IInv

LEMMA CopyFaultsStep ==
  ASSUME IInv, CopyFaults
  PROVE  IInv'
<1>1. pc = "send" /\ pc' = "dead" /\ UNCHANGED <<size, name, frame, img, i, p, written, received, covered>>
  BY DEF CopyFaults
<1>2. Count(written, "request") \in Nat /\ Count(received, "request") \in Nat
  BY CountType DEF IInv, Histories
<1>3. TypeOK' /\ Answering' /\ Progress' /\ Histories'
  BY <1>1 DEF IInv, TypeOK, Answering, Progress, Histories
<1>4. RequestsMatch'
  <2>1. Count(written, "request") + 1 <= Count(received, "request")
    BY <1>1 DEF IInv, RequestsMatch
  <2>2. Count(written', "request") + 0 <= Count(received', "request")
    BY <1>1, <1>2, <2>1
  <2> QED BY <1>1, <2>2 DEF RequestsMatch
<1> QED BY <1>3, <1>4 DEF IInv

(***************************************************************************)
(* The inductive invariant: an answer is sent in data frames of whole      *)
(* blocks, as many as the loop has turned, until the last                  *)
(* (master.c:95-140).                                                      *)
(***************************************************************************)
THEOREM Invariance == Spec => []IInv
<1>1. ASSUME IInv, UNCHANGED vars PROVE IInv'
  BY <1>1 DEF vars, IInv, TypeOK, Answering, Progress, Whole, Histories, RequestsMatch
<1>2. IInv /\ [Next]_vars => IInv'
  BY <1>1, ReceiveStep, SendChunkStep, SendRequestStep, CopyFaultsStep
     DEF Next, WaitRequest, WaitTransport, WaitControl, ReadFaults, NameFaults
<1> QED BY InitEstablishes, <1>2, PTL DEF Spec

(***************************************************************************)
(* The types of the centre board's variables (master.c:84-140).            *)
(***************************************************************************)
THEOREM TypeCorrect == Spec => []TypeOK
<1>1. IInv => TypeOK
  BY DEF IInv
<1> QED BY Invariance, <1>1, PTL

(***************************************************************************)
(* An answer is what img.file points to from its start, in order and       *)
(* without a repetition, for any image asked for and any size read; it     *)
(* passes the end only for a size a block or more below zero               *)
(* (master.c:99-114).                                                      *)
(***************************************************************************)
THEOREM AnswersArePrefixes == Spec => []AnswerIsPrefix
<1>1. IInv => AnswerIsPrefix
  <2> SUFFICES ASSUME IInv, pc \in {"send", "request"}
               PROVE  covered = <<>> \/ Len(covered) <= img \/ img <= -DataMax
    BY DEF IInv, Progress, AnswerIsPrefix
  <2> DEFINE T == TotalFrames(img)  rest == img % DataMax
  <2>1. /\ Len(covered) \in Nat /\ img \in Int /\ img \in Sizes \cup {0} /\ DataMax \in Nat \ {0}
        /\ T \in Nat
    BY BoardAssumption, Frames DEF IInv, TypeOK, Progress
  <2>2. CASE img < 0
    BY <2>1, <2>2 DEF IInv, Progress
  <2>3. CASE img >= 0 /\ pc = "request"
    BY <2>3 DEF IInv, Progress
  <2>4. CASE img >= 0 /\ pc = "send" /\ i = T
    <3>1. Len(covered) = Whole
      BY <2>4 DEF IInv, Progress
    <3> QED BY <2>1, <2>4, <3>1 DEF Whole
  <2>5. CASE img >= 0 /\ pc = "send" /\ i < T
    <3> DEFINE b == T - 1
    <3>1. i \in Nat /\ b \in Nat /\ i <= b /\ T = b + 1
      BY <2>1, <2>5 DEF IInv, TypeOK
    <3>2. /\ rest = 0 => T * DataMax = img
          /\ rest # 0 => b * DataMax + rest = img
          /\ rest \in Nat /\ img \in Nat
      <4>1. /\ rest = 0 => T * DataMax = img
            /\ rest # 0 => (T - 1) * DataMax + rest = img
            /\ rest \in 0..(DataMax - 1) /\ img \in Nat
        BY <2>1, <2>5, BlocksOfImage
      <4> HIDE DEF T, rest
      <4> QED BY <2>1, <4>1
    <3>3. Len(covered) = i * DataMax
      BY <2>5 DEF IInv, Progress
    <3> HIDE DEF b
    <3>4. T * DataMax = b * DataMax + DataMax /\ b * DataMax \in Nat
      BY <2>1, <3>1
    <3>5. i * DataMax <= b * DataMax
      BY <2>1, <3>1
    <3> HIDE DEF T, rest
    <3>6. b * DataMax <= img
      BY <2>1, <3>1, <3>2, <3>4
    <3> QED BY <2>1, <3>1, <3>3, <3>4, <3>5, <3>6
  <2>6. i \in 0..T
    BY DEF IInv, TypeOK
  <2> QED BY <2>1, <2>2, <2>3, <2>4, <2>5, <2>6
<1> QED BY Invariance, <1>1, PTL

(***************************************************************************)
(* An answer no send failed in carries the whole of an image that ends     *)
(* with a part of a block (master.c:100-109).                              *)
(***************************************************************************)
THEOREM PartBlocksAreSent == Spec => []PartBlockIsSent
<1>1. IInv => PartBlockIsSent
  BY DEF IInv, Progress, Whole, PartBlockIsSent, LoopDone
<1> QED BY Invariance, <1>1, PTL

(***************************************************************************)
(* The board's requests do not multiply, whatever the other end sends      *)
(* (master.c:95-119).                                                      *)
(***************************************************************************)
THEOREM RequestsDoNotMultiply == Spec => []RequestsMatch
<1>1. IInv => RequestsMatch
  BY DEF IInv
<1> QED BY Invariance, <1>1, PTL

-----------------------------------------------------------------------------
(***************************************************************************)
(* The order of the code streams.  FlattenSeq is defined by a recursive    *)
(* function; FlattenAppend and FlattenType follow by induction.            *)
(***************************************************************************)

\* Induction, for a property given as a set of numbers.
LEMMA Induction ==
  ASSUME NEW S, 0 \in S, \A n \in Nat : n \in S => n + 1 \in S
  PROVE  Nat \subseteq S
<1> DEFINE R == OpToRel(<, Nat)
           T == Nat \ S
<1> SUFFICES ASSUME T # {} PROVE FALSE
  OBVIOUS
<1>1. IsWellFoundedOn(R, Nat)
  BY NatLessThanWellFounded
<1>2. \A x, y \in Nat : x < y => <<x, y>> \in R
  BY DEF OpToRel
<1> HIDE DEF R, T
<1>3. PICK x \in T : \A y \in T : ~ (<<y, x>> \in R)
  BY <1>1, WFMin DEF T
<1>4. x \in Nat /\ x # 0 /\ x \notin S
  BY <1>3 DEF T
<1>5. x - 1 \in Nat /\ x - 1 < x
  BY <1>4
<1>6. x - 1 \in S
  BY <1>2, <1>3, <1>4, <1>5 DEF T
<1>7. (x - 1) + 1 = x
  BY <1>4
<1> QED BY <1>4, <1>5, <1>6, <1>7

\* f is the function FlattenSeq computes for the first n sequences of s.
Flattens(f, s, n) == f = [j \in 1..n |-> IF j = 1 THEN s[j] ELSE f[j - 1] \o s[j]]

LEMMA FlattenedBy ==
  ASSUME NEW s, Len(s) # 0
  PROVE  FlattenSeq(s) = (CHOOSE f : Flattens(f, s, Len(s)))[Len(s)]
BY DEF FlattenSeq, Flattens

LEMMA FlattensAgree ==
  ASSUME NEW s, NEW t, NEW f, NEW g, NEW n \in Nat, NEW m \in Nat, n <= m,
         Flattens(f, s, n), Flattens(g, t, m), \A j \in 1..n : s[j] = t[j]
  PROVE  \A j \in 1..n : f[j] = g[j]
<1> DEFINE S == {j \in Nat : j \in 1..n => f[j] = g[j]}
<1>1. 0 \in S
  OBVIOUS
<1>2. ASSUME NEW j \in Nat, j \in S PROVE j + 1 \in S
  <2> SUFFICES ASSUME j + 1 \in 1..n PROVE f[j + 1] = g[j + 1]
    OBVIOUS
  <2>1. /\ f[j + 1] = IF j + 1 = 1 THEN s[j + 1] ELSE f[(j + 1) - 1] \o s[j + 1]
        /\ g[j + 1] = IF j + 1 = 1 THEN t[j + 1] ELSE g[(j + 1) - 1] \o t[j + 1]
    <3>1. j + 1 \in 1..m
      OBVIOUS
    <3> QED BY <3>1 DEF Flattens
  <2>2. (j + 1) - 1 = j /\ s[j + 1] = t[j + 1]
    OBVIOUS
  <2>3. j # 0 => f[j] = g[j]
    BY <1>2
  <2> QED BY <2>1, <2>2, <2>3
<1> HIDE DEF S
<1>3. Nat \subseteq S
  BY <1>1, <1>2, Induction
<1> QED BY <1>3 DEF S

LEMMA FlattensExists ==
  ASSUME NEW s
  PROVE  \A n \in Nat : \E f : Flattens(f, s, n)
<1> DEFINE S == {n \in Nat : \E f : Flattens(f, s, n)}
<1>1. 0 \in S
  <2> DEFINE f == [j \in 1..0 |-> s[j]]
  <2>1. Flattens(f, s, 0)
    BY DEF Flattens
  <2> QED BY <2>1
<1>2. ASSUME NEW n \in Nat, n \in S PROVE n + 1 \in S
  <2>1. PICK f : Flattens(f, s, n)
    BY <1>2
  <2> DEFINE g == [j \in 1..(n + 1) |-> IF j <= n THEN f[j]
                                        ELSE IF j = 1 THEN s[j] ELSE f[j - 1] \o s[j]]
  <2>2. ASSUME NEW j \in 1..(n + 1)
        PROVE  g[j] = IF j = 1 THEN s[j] ELSE g[j - 1] \o s[j]
    <3>1. CASE j <= n
      <4>1. j \in 1..n
        BY <3>1
      <4>2. f[j] = IF j = 1 THEN s[j] ELSE f[j - 1] \o s[j]
        BY <2>1, <4>1 DEF Flattens
      <4>3. j # 1 => j - 1 \in 1..(n + 1) /\ j - 1 <= n
        BY <3>1
      <4>4. j # 1 => g[j - 1] = f[j - 1]
        BY <4>3
      <4> QED BY <3>1, <4>2, <4>4
    <3>2. CASE j = n + 1
      <4>1. j # 1 => j - 1 \in 1..(n + 1) /\ j - 1 <= n
        BY <3>2
      <4>2. j # 1 => g[j - 1] = f[j - 1]
        BY <4>1
      <4>3. g[j] = IF j = 1 THEN s[j] ELSE f[j - 1] \o s[j]
        BY <3>2
      <4> QED BY <4>2, <4>3
    <3> QED BY <3>1, <3>2
  <2>3. g = [j \in 1..(n + 1) |-> IF j = 1 THEN s[j] ELSE g[j - 1] \o s[j]]
    BY <2>2
  <2> HIDE DEF g
  <2>4. Flattens(g, s, n + 1)
    BY <2>3 DEF Flattens
  <2> QED BY <2>4
<1> HIDE DEF S
<1>3. Nat \subseteq S
  BY <1>1, <1>2, Induction
<1> QED BY <1>3 DEF S

LEMMA FlattenAppend ==
  ASSUME NEW T, NEW s \in Seq(Seq(T)), NEW x \in Seq(T)
  PROVE  FlattenSeq(Append(s, x)) = FlattenSeq(s) \o x
<1> DEFINE n == Len(s)
           t == Append(s, x)
           g == CHOOSE f : Flattens(f, t, n + 1)
           f == CHOOSE f : Flattens(f, s, n)
<1>1. /\ n \in Nat /\ Len(t) = n + 1 /\ t[n + 1] = x
      /\ \A j \in 1..n : t[j] = s[j]
  OBVIOUS
<1> SUFFICES FlattenSeq(t) = FlattenSeq(s) \o x
  OBVIOUS
<1>2. FlattenSeq(t) = g[n + 1]
  <2>1. Len(t) # 0
    BY <1>1
  <2> QED BY <1>1, <2>1, FlattenedBy
<1>3. Flattens(g, t, n + 1) /\ Flattens(f, s, n)
  <2>1. (\E h : Flattens(h, t, n + 1)) /\ (\E h : Flattens(h, s, n))
    <3> HIDE DEF t
    <3>1. n + 1 \in Nat
      BY <1>1
    <3> QED BY <1>1, <3>1, FlattensExists
  <2> HIDE DEF t, n
  <2> QED BY <2>1
<1> HIDE DEF g, f, t
<1>4. g[n + 1] = IF n + 1 = 1 THEN t[n + 1] ELSE g[(n + 1) - 1] \o t[n + 1]
  <2>1. n + 1 \in 1..(n + 1)
    BY <1>1
  <2> QED BY <1>3, <2>1 DEF Flattens
<1>5. CASE n = 0
  <2>1. s = <<>> /\ FlattenSeq(s) = <<>>
    BY <1>5 DEF FlattenSeq
  <2>2. <<>> \o x = x
    OBVIOUS
  <2> QED BY <1>1, <1>2, <1>4, <1>5, <2>1, <2>2
<1>6. CASE n # 0
  <2>1. FlattenSeq(s) = f[n]
    BY <1>6, FlattenedBy DEF f
  <2>2. f[n] = g[n]
    <3>1. \A j \in 1..n : f[j] = g[j]
      <4> HIDE DEF n
      <4> QED BY <1>1, <1>3, FlattensAgree
    <3> QED BY <1>1, <1>6, <3>1
  <2>3. n + 1 # 1 /\ (n + 1) - 1 = n
    BY <1>1, <1>6
  <2> HIDE DEF n
  <2> QED BY <1>1, <1>2, <1>4, <2>1, <2>2, <2>3
<1> QED BY <1>5, <1>6

LEMMA FlattenType ==
  ASSUME NEW T
  PROVE  \A s \in Seq(Seq(T)) : FlattenSeq(s) \in Seq(T)
<1> DEFINE S == {n \in Nat : \A s \in Seq(Seq(T)) : Len(s) = n => FlattenSeq(s) \in Seq(T)}
<1>1. 0 \in S
  BY DEF FlattenSeq
<1>2. ASSUME NEW n \in Nat, n \in S PROVE n + 1 \in S
  <2> SUFFICES ASSUME NEW s \in Seq(Seq(T)), Len(s) = n + 1 PROVE FlattenSeq(s) \in Seq(T)
    OBVIOUS
  <2> DEFINE front == SubSeq(s, 1, n)
  <2>1. /\ front \in Seq(Seq(T)) /\ Len(front) = n /\ s[n + 1] \in Seq(T)
        /\ s = Append(front, s[n + 1])
    OBVIOUS
  <2> HIDE DEF front
  <2>2. FlattenSeq(front) \in Seq(T)
    BY <1>2, <2>1
  <2>3. FlattenSeq(s) = FlattenSeq(front) \o s[n + 1]
    BY <2>1, FlattenAppend
  <2> QED BY <2>1, <2>2, <2>3
<1> HIDE DEF S
<1>3. Nat \subseteq S
  BY <1>1, <1>2, Induction
<1> QED BY <1>3 DEF S

\* A subsequence stays one when a part of what comes is added to it.
LEMMA SubsequenceGrows ==
  ASSUME NEW s \in Seq(Nat), NEW t \in Seq(Nat), NEW d \in Seq(Nat),
         NEW k \in 0..Len(d), IsSubsequence(s, t)
  PROVE  IsSubsequence(s \o SubSeq(d, 1, k), t \o d)
<1>1. PICK h \in [DOMAIN s -> DOMAIN t] :
        /\ \A a \in DOMAIN s : s[a] = t[h[a]]
        /\ \A a, b \in DOMAIN s : a < b => h[a] < h[b]
  BY DEF IsSubsequence
<1> DEFINE m == Len(s)  n == Len(t)
           u == s \o SubSeq(d, 1, k)  v == t \o d
           g == [a \in 1..(m + k) |-> IF a <= m THEN h[a] ELSE n + (a - m)]
<1>2. /\ m \in Nat /\ n \in Nat /\ k \in Nat /\ Len(d) \in Nat /\ k <= Len(d)
      /\ DOMAIN s = 1..m /\ DOMAIN t = 1..n
  OBVIOUS
<1>3. /\ SubSeq(d, 1, k) \in Seq(Nat) /\ Len(SubSeq(d, 1, k)) = k
      /\ \A a \in 1..k : SubSeq(d, 1, k)[a] = d[a]
  BY <1>2
<1>4. /\ u \in Seq(Nat) /\ Len(u) = m + k
      /\ \A a \in 1..(m + k) : u[a] = IF a <= m THEN s[a] ELSE SubSeq(d, 1, k)[a - m]
  BY <1>3, ConcatProperties
<1>5. /\ v \in Seq(Nat) /\ Len(v) = n + Len(d)
      /\ \A a \in 1..(n + Len(d)) : v[a] = IF a <= n THEN t[a] ELSE d[a - n]
  BY ConcatProperties
<1> HIDE DEF m, n, u, v
<1>6. DOMAIN u = 1..(m + k) /\ DOMAIN v = 1..(n + Len(d))
  BY <1>4, <1>5
<1>7. ASSUME NEW a \in 1..(m + k), a <= m
      PROVE  g[a] = h[a] /\ a \in 1..m /\ h[a] \in 1..n /\ h[a] \in 1..(n + Len(d)) /\ u[a] = v[g[a]]
  <2>1. a \in 1..m /\ h[a] \in 1..n /\ g[a] = h[a]
    BY <1>1, <1>2, <1>7
  <2>2. h[a] \in 1..(n + Len(d)) /\ h[a] <= n
    BY <1>2, <2>1
  <2>3. u[a] = s[a] /\ v[h[a]] = t[h[a]] /\ s[a] = t[h[a]]
    BY <1>1, <1>2, <1>4, <1>5, <1>7, <2>1, <2>2
  <2> QED BY <2>1, <2>2, <2>3
<1>8. ASSUME NEW a \in 1..(m + k), ~ (a <= m)
      PROVE  g[a] = n + (a - m) /\ g[a] > n /\ g[a] \in 1..(n + Len(d)) /\ u[a] = v[g[a]]
  <2>1. g[a] = n + (a - m)
    BY <1>8
  <2>2. a - m \in 1..k /\ n + (a - m) \in 1..(n + Len(d)) /\ n + (a - m) > n
        /\ (n + (a - m)) - n = a - m
    BY <1>2, <1>8
  <2>3. u[a] = SubSeq(d, 1, k)[a - m] /\ SubSeq(d, 1, k)[a - m] = d[a - m]
    BY <1>3, <1>4, <1>8, <2>2
  <2>4. v[n + (a - m)] = d[a - m]
    <3> DEFINE x == n + (a - m)
    <3>1. x \in 1..(n + Len(d)) /\ ~ (x <= n) /\ x - n = a - m
      BY <1>2, <2>2
    <3> HIDE DEF x
    <3>2. v[x] = d[x - n]
      BY <1>5, <3>1
    <3> QED BY <3>1, <3>2 DEF x
  <2> HIDE DEF g
  <2> QED BY <2>1, <2>2, <2>3, <2>4
<1>9. g \in [DOMAIN u -> DOMAIN v]
  <2>1. \A a \in 1..(m + k) : g[a] \in 1..(n + Len(d))
    <3> HIDE DEF g
    <3> QED BY <1>7, <1>8
  <2>2. g = [a \in 1..(m + k) |-> g[a]]
    OBVIOUS
  <2> HIDE DEF g
  <2> QED BY <1>6, <2>1, <2>2
<1>10. ASSUME NEW a \in 1..(m + k), NEW b \in 1..(m + k), a < b
       PROVE  g[a] < g[b]
  <2> HIDE DEF g
  <2>1. CASE b <= m
    <3>1. a <= m
      BY <1>2, <1>10, <2>1
    <3> QED BY <1>1, <1>2, <1>7, <1>10, <2>1, <3>1
  <2>2. CASE ~ (b <= m) /\ a <= m
    <3>1. g[b] > n /\ g[b] \in Int
      BY <1>2, <1>8, <2>2
    <3>2. g[a] = h[a] /\ h[a] \in 1..n
      BY <1>7, <2>2
    <3> QED BY <1>2, <3>1, <3>2
  <2>3. CASE ~ (b <= m) /\ ~ (a <= m)
    <3>1. g[a] = n + (a - m) /\ g[b] = n + (b - m)
      BY <1>8, <2>3
    <3> QED BY <1>2, <1>10, <3>1
  <2> QED BY <2>1, <2>2, <2>3
<1>11. \A a \in 1..(m + k) : u[a] = v[g[a]]
  <2> HIDE DEF g
  <2> QED BY <1>7, <1>8
<1>12. IsSubsequence(u, v)
  <2> HIDE DEF g
  <2> QED BY <1>6, <1>9, <1>10, <1>11 DEF IsSubsequence
<1> QED BY <1>12 DEF u, v

\* A name a .bin file was opened under, and the data meant for it.
Openings == [name : Names, data : Seq(Nat)]

Streams ==
  /\ code \in [Names -> Seq(Nat)] /\ opened \in Seq(Openings)
  /\ name \in [Files -> Names] /\ CodeInOrder

\* The data of one more frame is appended if the file is opened for it.
LEMMA OneMoreFrame ==
  ASSUME opened \in Seq(Openings), NEW o \in Openings, opened' = Append(opened, o), NEW n \in Names
  PROVE  /\ CodeReceived(n) \in Seq(Nat)
         /\ CodeReceived(n)' = IF o.name = n THEN CodeReceived(n) \o o.data ELSE CodeReceived(n)
<1> DEFINE Part(g) == IF g.name = n THEN g.data ELSE <<>>
           s == [k \in DOMAIN opened |-> Part(opened[k])]
           t == [k \in DOMAIN opened' |-> Part(opened'[k])]
<1>1. opened \in Seq(Openings) /\ opened' = Append(opened, o)
  OBVIOUS
<1>2. \A g \in Openings : Part(g) \in Seq(Nat)
  BY DEF Openings
<1>3. CodeReceived(n) = FlattenSeq(s) /\ CodeReceived(n)' = FlattenSeq(t)
  BY DEF CodeReceived
<1> HIDE DEF Part
<1>4. /\ DOMAIN opened = 1..Len(opened) /\ Len(opened) \in Nat
      /\ DOMAIN opened' = 1..(Len(opened) + 1)
      /\ \A k \in 1..Len(opened) : opened'[k] = opened[k] /\ opened[k] \in Openings
      /\ opened'[Len(opened) + 1] = o
  BY <1>1
<1>5. s \in Seq(Seq(Nat)) /\ Len(s) = Len(opened)
  <2>1. s = [k \in 1..Len(opened) |-> Part(opened[k])]
    BY <1>4
  <2>2. \A k \in 1..Len(opened) : Part(opened[k]) \in Seq(Nat)
    BY <1>2, <1>4
  <2> QED BY <1>4, <2>1, <2>2, IsASeq
<1>6. t = Append(s, Part(o))
  <2>1. t = [k \in 1..(Len(opened) + 1) |-> Part(opened'[k])]
    BY <1>4
  <2>2. Append(s, Part(o)) = [k \in 1..(Len(s) + 1) |-> IF k <= Len(s) THEN s[k] ELSE Part(o)]
    <3> DEFINE a == Append(s, Part(o))
    <3> HIDE DEF s
    <3>1. /\ a \in Seq(Seq(Nat)) /\ Len(a) = Len(s) + 1 /\ a[Len(s) + 1] = Part(o)
          /\ \A k \in 1..Len(s) : a[k] = s[k]
      BY <1>2, <1>5, AppendProperties
    <3> HIDE DEF a
    <3>2. a = [k \in 1..(Len(s) + 1) |-> a[k]]
      BY <3>1
    <3>3. \A k \in 1..(Len(s) + 1) : k <= Len(s) => k \in 1..Len(s)
      BY <1>5
    <3>4. \A k \in 1..(Len(s) + 1) : ~ (k <= Len(s)) => k = Len(s) + 1
      BY <1>4, <1>5
    <3>5. \A k \in 1..(Len(s) + 1) : a[k] = IF k <= Len(s) THEN s[k] ELSE Part(o)
      BY <3>1, <3>3, <3>4
    <3>6. a = [k \in 1..(Len(s) + 1) |-> IF k <= Len(s) THEN s[k] ELSE Part(o)]
      BY <3>2, <3>5
    <3> QED BY <3>6 DEF a
  <2>3. \A k \in 1..(Len(opened) + 1) :
          Part(opened'[k]) = IF k <= Len(opened) THEN s[k] ELSE Part(o)
    BY <1>4
  <2> HIDE DEF s
  <2> QED BY <1>5, <2>1, <2>2, <2>3
<1>7. FlattenSeq(t) = FlattenSeq(s) \o Part(o) /\ FlattenSeq(s) \in Seq(Nat)
  <2> HIDE DEF s, t
  <2> QED BY <1>2, <1>5, <1>6, FlattenAppend, FlattenType
<1>8. FlattenSeq(s) \o <<>> = FlattenSeq(s)
  BY <1>7
<1> HIDE DEF s, t
<1> QED BY <1>3, <1>7, <1>8 DEF Part

LEMMA StreamsStep ==
  ASSUME Streams, [Next]_vars
  PROVE  Streams'
<1>1. ASSUME NEW f \in Inputs, WaitTransport(f)
      PROVE  Streams'
  <2>1. PICK n \in NameRead(f.id), k \in 0..Len(f.data) :
          /\ code' = [code EXCEPT ![n] = @ \o SubSeq(f.data, 1, k)]
          /\ opened' = Append(opened, [name |-> n, data |-> f.data])
    BY <1>1 DEF WaitTransport
  <2> DEFINE o == [name |-> n, data |-> f.data]
  <2>2. /\ f.data \in Seq(Nat) /\ opened \in Seq(Openings) /\ code \in [Names -> Seq(Nat)]
        /\ n \in Names
    <3>1. n \in Names
      BY <2>1 DEF NameRead, Streams
    <3> QED BY <3>1, BoardAssumption DEF Streams
  <2>3. o \in Openings /\ o.name = n /\ o.data = f.data
    BY <2>2 DEF Openings
  <2>4. SubSeq(f.data, 1, k) \in Seq(Nat)
    BY <2>1, <2>2
  <2> HIDE DEF o
  <2>5. opened' = Append(opened, o)
    BY <2>1 DEF o
  <2>6. code' \in [Names -> Seq(Nat)] /\ opened' \in Seq(Openings)
    BY <2>1, <2>2, <2>3, <2>4, <2>5
  <2>7. ASSUME NEW m \in Names
        PROVE  IsSubsequence(code'[m], CodeReceived(m)')
    <3>1. IsSubsequence(code[m], CodeReceived(m)) /\ CodeReceived(m) \in Seq(Nat)
          /\ CodeReceived(m)' = IF n = m THEN CodeReceived(m) \o f.data ELSE CodeReceived(m)
      BY <2>2, <2>3, <2>5, OneMoreFrame DEF Streams, CodeInOrder
    <3>2. CASE m = n
      <4>1. code'[m] = code[m] \o SubSeq(f.data, 1, k) /\ code[m] \in Seq(Nat)
        BY <2>1, <2>2, <3>2
      <4> QED BY <2>1, <2>2, <3>1, <3>2, <4>1, SubsequenceGrows
    <3>3. CASE m # n
      <4>1. code'[m] = code[m]
        BY <2>1, <2>2, <3>3
      <4> QED BY <3>1, <3>3, <4>1
    <3> QED BY <3>2, <3>3
  <2>8. name' = name
    BY <1>1 DEF WaitTransport, Receive
  <2> QED BY <2>6, <2>7, <2>8 DEF Streams, CodeInOrder
<1>2. ASSUME UNCHANGED <<code, opened, name>>
      PROVE  Streams'
  <2>1. \A n \in Names : CodeReceived(n)' = CodeReceived(n)
    BY <1>2 DEF CodeReceived
  <2> QED BY <1>2, <2>1 DEF Streams, CodeInOrder
<1>3. ASSUME NEW f \in Inputs, WaitRequest(f) \/ WaitControl(f) \/ ReadFaults(f) \/ NameFaults(f)
      PROVE  UNCHANGED <<code, opened, name>>
  BY <1>3 DEF WaitRequest, WaitControl, ReadFaults, NameFaults, Receive
<1>4. ASSUME SendChunk \/ CopyFaults \/ SendRequest \/ UNCHANGED vars
      PROVE  UNCHANGED <<code, opened, name>>
  BY <1>4 DEF SendChunk, CopyFaults, SendRequest, vars
<1> QED BY <1>1, <1>2, <1>3, <1>4 DEF Next

(***************************************************************************)
(* A .bin file holds cells of the data frames it was opened for, in their  *)
(* order, whichever writes fail and images share its name                  *)
(* (master.c:120-140).                                                     *)
(***************************************************************************)
THEOREM CodeStaysInOrder == Spec => []CodeInOrder
<1>1. Init => Streams
  <2> SUFFICES ASSUME Init PROVE Streams
    OBVIOUS
  <2>1. \A n \in Names : code[n] = <<>> /\ CodeReceived(n) = <<>>
    BY DEF Init, CodeReceived, FlattenSeq
  <2>2. IsSubsequence(<<>>, <<>>)
    <3> DEFINE h == [a \in DOMAIN <<>> |-> a]
    <3>1. h \in [DOMAIN <<>> -> DOMAIN <<>>] /\ DOMAIN <<>> = {}
      OBVIOUS
    <3> QED BY <3>1 DEF IsSubsequence
  <2> QED BY <2>1, <2>2 DEF Init, Streams, CodeInOrder
<1>2. Streams /\ [Next]_vars => Streams'
  BY StreamsStep
<1>3. Streams => CodeInOrder
  BY DEF Streams
<1> QED BY <1>1, <1>2, <1>3, PTL DEF Spec
=============================================================================
