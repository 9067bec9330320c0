------------------------- MODULE SerialLink_proofs -------------------------
(***************************************************************************)
(* For every payload size, every set of frames, every capacity of the tty, *)
(* any number of faults and any content of the heap: what the parser       *)
(* accepts was sent; SerialLink implements OrderedChannel; and request and *)
(* control frames that nobody disturbs are all returned.                   *)
(***************************************************************************)
EXTENDS SerialLink, SequenceTheorems, TLAPS

(***************************************************************************)
(* The cells of a serialised frame, by position.                           *)
(***************************************************************************)
LEMMA ContentCells ==
  ASSUME NEW f, NEW heap, f.frame_type \in FrameTypes, Len(f.data) \in Nat
  PROVE  /\ Content(f, heap)[1] = tp_header[1] /\ Content(f, heap)[2] = tp_header[2]
         /\ Content(f, heap)[3] = f.addr
         /\ Content(f, heap)[4] = f.frame_type
         /\ Content(f, heap)[5] = f.id[1] /\ Content(f, heap)[6] = f.id[2]
         /\ Content(f, heap)[7] = f.n_frame
         /\ f.frame_type = TRANSPORT =>
              /\ Content(f, heap)[8] = Num(Len(f.data))
              /\ \A k \in 1..DataMax : k <= Len(f.data) =>
                   Content(f, heap)[k + 8] = f.data[k]
         /\ Len(Content(f, heap)) = FrameSize(f.frame_type) - 1
<1>1. FrameSize(f.frame_type) \in Nat /\ FrameSize(f.frame_type) >= 8
  BY DataMaxAssumption DEF FrameSize, TransportSize
<1>2. \A i \in 1..7 : Content(f, heap)[i] = Fields(f)[i]
  BY <1>1 DEF Content
<1>3. ASSUME f.frame_type = TRANSPORT
      PROVE  /\ Content(f, heap)[8] = Num(Len(f.data))
             /\ \A k \in 1..DataMax : k <= Len(f.data) =>
                  Content(f, heap)[k + 8] = f.data[k]
  <2>1. FrameSize(f.frame_type) = 9 + DataMax
    BY <1>3 DEF FrameSize, TransportSize
  <2>2. Content(f, heap)[8] = Num(Len(f.data))
    BY <2>1, DataMaxAssumption DEF Content
  <2>3. ASSUME NEW k \in 1..DataMax, k <= Len(f.data)
        PROVE  Content(f, heap)[k + 8] = f.data[k]
    <3>1. k + 8 \in 1..(FrameSize(f.frame_type) - 1)
      BY <2>1, DataMaxAssumption
    <3>2. k + 8 > 8 /\ (k + 8) - 8 = k
      BY DataMaxAssumption
    <3>3. QED
      BY <2>3, <3>1, <3>2, DataMaxAssumption DEF Content
  <2>4. QED
    BY <2>2, <2>3
<1>4. Len(Content(f, heap)) = FrameSize(f.frame_type) - 1
  BY <1>1 DEF Content
<1>5. QED
  BY <1>2, <1>3, <1>4 DEF Fields

(***************************************************************************)
(* A check sum stands for one content, and no number is a check sum.       *)
(***************************************************************************)
LEMMA CheckSums ==
  /\ \A a, b : crc16(a) = crc16(b) => a = b
  /\ \A a, v : crc16(a) # Num(v)
  /\ \A v, w : Num(v) = Num(w) => v = w
  BY DEF crc16, Num

(***************************************************************************)
(* Authenticity: if the parser accepts a buffer whose check sum is the one *)
(* the serialiser computed for the frame f, then it returns f, whatever    *)
(* the other cells of the buffer hold and whatever memory either side left *)
(* uncleared.                                                              *)
(***************************************************************************)
THEOREM AcceptedIsSent ==
  ASSUME NEW buf, NEW heap, NEW f \in Frame, NEW p,
         Accepts(buf, heap),
         buf[CheckSumAt(buf)] = crc16(Content(f, p))
  PROVE  ParsedFrame(buf) = f
<1> DEFINE g == ParsedFrame(buf)
<1>1. Content(g, heap) = Content(f, p)
  BY CheckSums DEF Accepts
<1>2. g.frame_type = buf[4] /\ g.frame_type \in FrameTypes
  BY DEF Accepts, ParsedFrame
<1>3. f.frame_type \in FrameTypes /\ f.data \in Seq(Word) /\ Len(f.data) \in 0..DataMax
  BY DataMaxAssumption DEF Frame
<1>4. g.data = <<>> \/ g.frame_type = TRANSPORT
  BY DEF ParsedFrame
<1>5. ASSUME g.frame_type = TRANSPORT
      PROVE  /\ Len(g.data) \in 0..DataMax
             /\ g.data = [k \in 1..Len(g.data) |-> buf[5 + k]]
  <2>1. PICK n \in 0..DataMax : ParsedDataLen(buf) = Num(n)
    BY <1>2, <1>5 DEF Accepts, LengthFits
  <2>2. g.data = [k \in 1..n |-> buf[5 + k]]
    BY <1>2, <1>5, <2>1 DEF ParsedFrame, Num
  <2>3. Len(g.data) = n
    BY <2>2, DataMaxAssumption
  <2>4. QED
    BY <2>2, <2>3
<1>6. Len(g.data) \in Nat /\ Len(f.data) \in Nat
  BY <1>3, <1>4, <1>5, DataMaxAssumption
<1>7. /\ g.addr = f.addr /\ g.frame_type = f.frame_type
      /\ g.id[1] = f.id[1] /\ g.id[2] = f.id[2] /\ g.n_frame = f.n_frame
  BY <1>1, <1>2, <1>3, <1>6, ContentCells
<1>8. g.data = f.data
  <2>1. CASE g.frame_type = TRANSPORT
    <3>0. f.frame_type = TRANSPORT
      BY <1>7, <2>1
    <3>1. Num(Len(g.data)) = Num(Len(f.data))
      <4>1. Content(g, heap)[8] = Num(Len(g.data))
        BY <1>2, <1>6, <2>1, ContentCells
      <4>2. Content(f, p)[8] = Num(Len(f.data))
        BY <1>3, <1>6, <3>0, ContentCells
      <4>3. QED
        BY <1>1, <4>1, <4>2
    <3>2. Len(g.data) = Len(f.data)
      BY <3>1, CheckSums
    <3>3. \A k \in 1..Len(f.data) : g.data[k] = f.data[k]
      <4>1. TAKE k \in 1..Len(f.data)
      <4>2. k \in 1..DataMax /\ k <= Len(g.data) /\ k <= Len(f.data)
        BY <1>3, <3>2, DataMaxAssumption
      <4>3. Content(g, heap)[k + 8] = g.data[k]
        BY <1>2, <1>6, <2>1, <4>2, ContentCells
      <4>4. Content(f, p)[k + 8] = f.data[k]
        BY <1>3, <1>6, <3>0, <4>2, ContentCells
      <4>5. QED
        BY <1>1, <4>3, <4>4
    <3>4. f.data = [k \in 1..Len(f.data) |-> f.data[k]]
      BY <1>3
    <3>5. QED
      BY <1>5, <2>1, <3>2, <3>3, <3>4
  <2>2. CASE g.frame_type # TRANSPORT
    BY <1>4, <1>7, <2>2 DEF Frame
  <2>3. QED
    BY <2>1, <2>2
<1>9. g = [addr |-> g.addr, frame_type |-> g.frame_type, id |-> <<g.id[1], g.id[2]>>,
           n_frame |-> g.n_frame, data |-> g.data]
  BY DEF ParsedFrame
<1>10. f = [addr |-> f.addr, frame_type |-> f.frame_type, id |-> <<f.id[1], f.id[2]>>,
            n_frame |-> f.n_frame, data |-> f.data]
  BY DEF Frame
<1>11. QED
  BY <1>7, <1>8, <1>9, <1>10

(***************************************************************************)
(* Request and control frames read back as they were written, from a       *)
(* buffer of which they fill the first eight cells                         *)
(* (transmission_protocol_test.cc:27-41 for one frame).                    *)
(***************************************************************************)
THEOREM ShortFramesReadBack ==
  ASSUME NEW f \in Frame, f.frame_type # TRANSPORT, NEW p, NEW buf, NEW heap,
         \A i \in 1..7 : buf[i] = Content(f, p)[i],
         buf[8] = crc16(Content(f, p))
  PROVE  Accepts(buf, heap) /\ ParsedFrame(buf) = f
<1>1. f.frame_type \in FrameTypes /\ f.data = <<>>
  BY DEF Frame
<1>2. /\ buf[1] = tp_header[1] /\ buf[2] = tp_header[2]
      /\ buf[3] = f.addr /\ buf[4] = f.frame_type
      /\ buf[5] = f.id[1] /\ buf[6] = f.id[2] /\ buf[7] = f.n_frame
  BY <1>1, ContentCells
<1>3. ParsedFrame(buf) = f
  BY <1>1, <1>2 DEF ParsedFrame, Frame
<1>4. Content(f, p) = Content(f, heap)
  BY DEF Content, FrameSize
<1>5. QED
  BY <1>1, <1>2, <1>3, <1>4 DEF Accepts, LengthFits, CheckSumAt, FrameSize, tp_header

(***************************************************************************)
(* The order the parser reads a transport frame in is not the order the    *)
(* serialiser writes it in (transmission_protocol.c:30-42, 74-88): a data  *)
(* frame is read back only if the low half of its file number is its       *)
(* data_len and its data begin with the rest of the number, n_frame and    *)
(* data_len, as far as they go.  Of the frames the master sends for file 0 *)
(* that can only be the empty one at the end of an image of whole blocks.  *)
(***************************************************************************)
THEOREM DataFramesReadBackOnlyIf ==
  ASSUME NEW f \in Frame, f.frame_type = TRANSPORT, NEW p, NEW buf, NEW heap,
         \A i \in 1..(8 + DataMax) : buf[i] = Content(f, p)[i],
         buf[9 + DataMax] = crc16(Content(f, p)),
         Accepts(buf, heap)
  PROVE  /\ f.id[1] = Num(Len(f.data))
         /\ Len(f.data) >= 1 => f.data[1] = f.id[2]
         /\ Len(f.data) >= 2 => f.data[2] = f.n_frame
         /\ Len(f.data) >= 3 => f.data[3] = Num(Len(f.data))
<1>1. Len(f.data) \in 0..DataMax
  BY DataMaxAssumption DEF Frame
<1>2. /\ buf[4] = TRANSPORT /\ buf[5] = f.id[1] /\ buf[6] = f.id[2]
      /\ buf[7] = f.n_frame /\ buf[8] = Num(Len(f.data))
  BY <1>1, DataMaxAssumption, ContentCells DEF Frame
<1>3. ParsedFrame(buf) = f
  BY <1>2, AcceptedIsSent DEF CheckSumAt, FrameSize, TransportSize
<1>4. PICK n \in 0..DataMax : buf[5] = Num(n)
  BY <1>2 DEF Accepts, LengthFits, ParsedDataLen
<1>5. f.data = [k \in 1..n |-> buf[5 + k]]
  BY <1>2, <1>3, <1>4 DEF ParsedFrame, ParsedDataLen, Num
<1>6. Len(f.data) = n
  BY <1>5, DataMaxAssumption
<1>7. \A k \in 1..n : f.data[k] = buf[5 + k]
  BY <1>5
<1>8. QED
  BY <1>2, <1>4, <1>6, <1>7, DataMaxAssumption

-----------------------------------------------------------------------------
Heaps == [1..DataMax -> Heap]

CheckSumCells == {crc16(Content(f, heap)) : f \in Frames, heap \in Heaps}

Item == [cell : Word \cup CheckSumCells, n : Nat]

(***************************************************************************)
(* Every cell on the line belongs to a frame sent after the last one that  *)
(* was returned, and a check sum is the check sum of its frame.            *)
(***************************************************************************)
Tagged(cells, frames, from) ==
  \A i \in 1..Len(cells) :
    /\ cells[i].n \in (from + 1)..Len(frames)
    /\ IsCheckSum(cells[i].cell) =>
         \E heap \in Heaps : cells[i].cell = crc16(Content(frames[cells[i].n], heap))

(***************************************************************************)
(* The cells keep the order of their frames, and nothing of a frame comes  *)
(* after its check sum.                                                    *)
(***************************************************************************)
Ordered(cells) ==
  \A i, j \in 1..Len(cells) : i < j =>
    /\ cells[i].n <= cells[j].n
    /\ IsCheckSum(cells[i].cell) => cells[i].n < cells[j].n

Types ==
  /\ status \in {"head", "body", "crashed"}
  /\ line \in Seq(Item) /\ Len(line) <= TtySize
  /\ head \in Seq(Item)
  /\ Len(head) = (IF status = "body" THEN CmdTypeSize ELSE 0)
  /\ sent \in Seq(Frames) /\ Len(sent) <= MaxSent
  /\ last \in 0..Len(sent)
  /\ faults \in 0..MaxFaults
  /\ disturbed \in BOOLEAN

IInv == Types /\ Tagged(line, sent, last) /\ Ordered(line)
-----------------------------------------------------------------------------
LEMMA DropCells ==
  ASSUME NEW S, NEW s \in Seq(S), NEW k \in 0..Len(s)
  PROVE  /\ Drop(s, k) \in Seq(S)
         /\ Len(Drop(s, k)) = Len(s) - k
         /\ \A i \in 1..(Len(s) - k) : Drop(s, k)[i] = s[i + k]
  BY DEF Drop

LEMMA LoseOneCell ==
  ASSUME NEW S, NEW s \in Seq(S), NEW k \in 1..Len(s)
  PROVE  LET t == SubSeq(s, 1, k - 1) \o Drop(s, k) IN
         /\ t \in Seq(S)
         /\ Len(t) = Len(s) - 1
         /\ \A i \in 1..(Len(s) - 1) : t[i] = IF i < k THEN s[i] ELSE s[i + 1]
<1> DEFINE u == SubSeq(s, 1, k - 1)
           v == Drop(s, k)
           t == u \o v
<1>1. u \in Seq(S) /\ Len(u) = k - 1 /\ \A i \in 1..(k - 1) : u[i] = s[i]
  OBVIOUS
<1>2. v \in Seq(S) /\ Len(v) = Len(s) - k /\ \A i \in 1..(Len(s) - k) : v[i] = s[i + k]
  BY DropCells
<1> HIDE DEF u, v
<1>3. t = u \o v
  OBVIOUS
<1> HIDE DEF t
<1>4. t \in Seq(S) /\ Len(t) = Len(s) - 1
  <2>1. u \o v \in Seq(S) /\ Len(u \o v) = Len(u) + Len(v)
    BY <1>1, <1>2, ConcatProperties
  <2>2. Len(s) \in Nat
    OBVIOUS
  <2>3. t \in Seq(S) /\ Len(t) = Len(u) + Len(v)
    BY <1>3, <2>1
  <2>4. Len(u) = k - 1 /\ Len(v) = Len(s) - k
    BY <1>1, <1>2
  <2>5. QED
    BY <2>2, <2>3, <2>4
<1>5. ASSUME NEW i \in 1..(Len(s) - 1), i < k PROVE t[i] = s[i]
  BY <1>1, <1>2, <1>3, <1>5
<1>6. ASSUME NEW i \in 1..(Len(s) - 1), ~(i < k) PROVE t[i] = s[i + 1]
  <2>1. i - (k - 1) \in 1..(Len(s) - k) /\ (i - (k - 1)) + k = i + 1
    BY <1>6
  <2>2. t[i] = v[i - (k - 1)]
    <3>1. i \in 1..(Len(u) + Len(v)) /\ ~(i <= Len(u))
      BY <1>1, <1>2, <1>6
    <3>2. (u \o v)[i] = v[i - Len(u)]
      BY <1>1, <1>2, <3>1, ConcatProperties
    <3>3. QED
      BY <1>1, <1>3, <3>2
  <2>3. QED
    BY <1>2, <2>1, <2>2
<1>7. QED
  BY <1>4, <1>5, <1>6 DEF t, u, v

(***************************************************************************)
(* Taking cells away keeps the rest tagged and in order.                   *)
(***************************************************************************)
LEMMA RestIsGood ==
  ASSUME NEW s \in Seq(Item), NEW k \in 0..Len(s),
         NEW frames, NEW from, Tagged(s, frames, from), Ordered(s)
  PROVE  Tagged(Drop(s, k), frames, from) /\ Ordered(Drop(s, k))
<1> DEFINE r == Drop(s, k)
<1>1. ASSUME NEW i \in 1..Len(r)
      PROVE  r[i] = s[i + k] /\ i \in Int /\ i + k \in 1..Len(s)
  BY DropCells
<1>2. k \in Int
  OBVIOUS
<1> HIDE DEF r
<1>3. Tagged(r, frames, from)
  <2>1. SUFFICES ASSUME NEW i \in 1..Len(r)
                 PROVE  /\ r[i].n \in (from + 1)..Len(frames)
                        /\ IsCheckSum(r[i].cell) =>
                             \E heap \in Heaps : r[i].cell =
                                crc16(Content(frames[r[i].n], heap))
    BY DEF Tagged
  <2>2. r[i] = s[i + k] /\ i + k \in 1..Len(s)
    BY <1>1
  <2>3. QED
    BY <2>2 DEF Tagged
<1>4. Ordered(r)
  <2>1. SUFFICES ASSUME NEW i \in 1..Len(r), NEW j \in 1..Len(r), i < j
                 PROVE  /\ r[i].n <= r[j].n
                        /\ IsCheckSum(r[i].cell) => r[i].n < r[j].n
    BY DEF Ordered
  <2>2. r[i] = s[i + k] /\ i \in Int /\ i + k \in 1..Len(s)
    BY <1>1
  <2>3. r[j] = s[j + k] /\ j \in Int /\ j + k \in 1..Len(s)
    BY <1>1
  <2>4. i + k < j + k
    BY <1>2, <2>1, <2>2, <2>3
  <2>5. QED
    BY <2>2, <2>3, <2>4 DEF Ordered
<1>5. QED
  BY <1>3, <1>4 DEF r
-----------------------------------------------------------------------------
LEMMA Serialised ==
  ASSUME NEW f \in Frames, NEW heap \in Heaps
  PROVE  /\ Len(frame2bit_stream(f, heap)) = FrameSize(f.frame_type)
         /\ FrameSize(f.frame_type) \in Nat /\ FrameSize(f.frame_type) >= 8
         /\ \A i \in 1..(FrameSize(f.frame_type) - 1) : frame2bit_stream(f, heap)[i] \in Word
         /\ frame2bit_stream(f, heap)[FrameSize(f.frame_type)] = crc16(Content(f, heap))
<1>1. f \in Frame /\ f.frame_type \in FrameTypes /\ Len(f.data) \in 0..DataMax
      /\ f.data \in Seq(Word)
  BY LinkAssumption, DataMaxAssumption DEF Frame
<1>2. FrameSize(f.frame_type) \in Nat /\ FrameSize(f.frame_type) >= 8
      /\ FrameSize(f.frame_type) <= 9 + DataMax
  BY DataMaxAssumption DEF FrameSize, TransportSize
<1>3. \A i \in 1..(FrameSize(f.frame_type) - 1) : Content(f, heap)[i] \in Word
  <2>1. TAKE i \in 1..(FrameSize(f.frame_type) - 1)
  <2>2. CASE i <= 7
    <3>1. f.addr \in Word /\ f.frame_type \in Word /\ f.id[1] \in Word
          /\ f.id[2] \in Word /\ f.n_frame \in Word
      BY <1>1 DEF Frame, FrameTypes, Word, Num, CONTROL, REQUEST, TRANSPORT
    <3>2. tp_header[1] \in Word /\ tp_header[2] \in Word
      BY DEF tp_header, Num, Word
    <3>3. QED
      BY <2>2, <3>1, <3>2, <1>1, ContentCells
  <2>3. CASE i = 8
    BY <2>3, <1>1, <1>2 DEF Content, Num, Word
  <2>4. CASE i > 8
    <3>1. i - 8 \in 1..DataMax
      BY <2>4, <1>2, DataMaxAssumption
    <3>2. heap[i - 8] \in Word
      BY <3>1, LinkAssumption DEF Heaps
    <3>3. i - 8 <= Len(f.data) => f.data[i - 8] \in Word
      BY <1>1, <3>1
    <3>4. Content(f, heap)[i] = IF i - 8 <= Len(f.data) THEN f.data[i - 8] ELSE heap[i - 8]
      BY <2>4, <1>2 DEF Content
    <3>5. QED
      BY <3>2, <3>3, <3>4
  <2>5. QED
    BY <2>2, <2>3, <2>4, <1>2
<1>4. Content(f, heap) \in Seq(Word) /\ Len(Content(f, heap)) = FrameSize(f.frame_type) - 1
  BY <1>2, <1>3 DEF Content
<1>5. QED
  BY <1>2, <1>3, <1>4 DEF frame2bit_stream
-----------------------------------------------------------------------------
LEMMA WordsAreNoCheckSums ==
  /\ \A w \in Word : ~IsCheckSum(w)
  /\ \A c : IsCheckSum(crc16(c))
  BY DEF Word, IsCheckSum, crc16

LEMMA InitIInv == Init => IInv
<1> SUFFICES ASSUME Init PROVE IInv
  OBVIOUS
<1>1. line \in Seq(Item) /\ Len(line) = 0 /\ head \in Seq(Item) /\ Len(head) = 0
      /\ sent \in Seq(Frames) /\ Len(sent) = 0
  BY DEF Init
<1>2. Types
  <2>1. Len(line) <= TtySize /\ Len(sent) <= MaxSent /\ faults \in 0..MaxFaults
    BY <1>1, LinkAssumption DEF Init
  <2>2. last \in 0..Len(sent)
    BY <1>1 DEF Init
  <2>3. QED
    BY <1>1, <2>1, <2>2 DEF Init, Types
<1>3. Tagged(line, sent, last) /\ Ordered(line)
  BY <1>1 DEF Tagged, Ordered
<1>4. QED
  BY <1>2, <1>3 DEF IInv

LEMMA SendIInv ==
  ASSUME IInv, NEW f \in Frames, NEW heap \in Heaps, Send(f, heap)
  PROVE  IInv'
<1> DEFINE b == frame2bit_stream(f, heap)
           W == Written(f, heap)
           w == [i \in 1..W |-> [cell |-> b[i], n |-> Len(sent) + 1]]
<1>1. /\ line \in Seq(Item) /\ sent \in Seq(Frames) /\ Len(line) \in 0..TtySize
      /\ Len(sent) \in Nat /\ last \in 0..Len(sent)
  BY DEF IInv, Types
<1>2. /\ Len(b) \in Nat
      /\ \A i \in 1..(Len(b) - 1) : b[i] \in Word
      /\ b[Len(b)] = crc16(Content(f, heap))
  BY Serialised
<1>3. W \in 1..Len(b) /\ Len(line) + W <= TtySize
  BY <1>1, <1>2, LinkAssumption DEF Send, Written, Least
<1>4. \A i \in 1..W : b[i] \in Word \cup CheckSumCells
  BY <1>2, <1>3 DEF CheckSumCells
<1> HIDE DEF b, W
<1>5. w \in Seq(Item) /\ Len(w) = W
  BY <1>1, <1>3, <1>4 DEF Item
<1>6. line' = line \o w
  BY DEF Send, b, W
<1> HIDE DEF w
<1>7. /\ line' \in Seq(Item) /\ Len(line') = Len(line) + W
      /\ \A i \in 1..Len(line) : line'[i] = line[i]
      /\ \A i \in (Len(line) + 1)..Len(line') : line'[i] = w[i - Len(line)]
  BY <1>1, <1>3, <1>5, <1>6, ConcatProperties
<1>8. \A i \in (Len(line) + 1)..Len(line') :
        /\ i - Len(line) \in 1..W
        /\ line'[i].cell = b[i - Len(line)]
        /\ line'[i].n = Len(sent) + 1
  <2>1. TAKE i \in (Len(line) + 1)..Len(line')
  <2>2. i - Len(line) \in 1..W
    BY <1>1, <1>3, <1>7
  <2>3. line'[i] = w[i - Len(line)]
    BY <1>7
  <2>4. w[i - Len(line)] = [cell |-> b[i - Len(line)], n |-> Len(sent) + 1]
    BY <2>2 DEF w
  <2>5. QED
    BY <2>2, <2>3, <2>4
<1>9. /\ sent' \in Seq(Frames) /\ Len(sent') = Len(sent) + 1 /\ sent'[Len(sent')] = f
      /\ \A i \in 1..Len(sent) : sent'[i] = sent[i]
      /\ last' = last
  BY <1>1 DEF Send
<1>10. Types'
  <2>1. Len(sent') <= MaxSent
    BY <1>1, <1>9, LinkAssumption DEF Send
  <2>2. disturbed' \in BOOLEAN
    BY DEF Send, IInv, Types
  <2>3. UNCHANGED <<status, head, faults>>
    BY DEF Send
  <2>4. Len(line') <= TtySize /\ last' \in 0..Len(sent')
    BY <1>1, <1>3, <1>7, <1>9
  <2>5. QED
    BY <1>7, <1>9, <2>1, <2>2, <2>3, <2>4 DEF IInv, Types
<1>11. Tagged(line', sent', last')
  <2>1. SUFFICES ASSUME NEW i \in 1..Len(line')
                 PROVE  /\ line'[i].n \in (last' + 1)..Len(sent')
                        /\ IsCheckSum(line'[i].cell) =>
                             \E h \in Heaps :
                               line'[i].cell = crc16(Content(sent'[line'[i].n], h))
    BY DEF Tagged
  <2>2. CASE i \in 1..Len(line)
    <3>1. /\ line[i].n \in (last + 1)..Len(sent)
          /\ IsCheckSum(line[i].cell) =>
               \E h \in Heaps : line[i].cell = crc16(Content(sent[line[i].n], h))
      BY <2>2 DEF IInv, Tagged
    <3>2. line'[i] = line[i] /\ sent'[line[i].n] = sent[line[i].n]
      BY <1>1, <1>7, <1>9, <2>2, <3>1
    <3>3. QED
      BY <1>1, <1>9, <3>1, <3>2
  <2>3. CASE i \in (Len(line) + 1)..Len(line')
    <3>1. /\ i - Len(line) \in 1..W /\ line'[i].cell = b[i - Len(line)]
          /\ line'[i].n = Len(sent')
      BY <1>8, <1>9, <2>3
    <3>2. ASSUME IsCheckSum(line'[i].cell) PROVE line'[i].cell = crc16(Content(f, heap))
      BY <1>2, <1>3, <3>1, <3>2, WordsAreNoCheckSums
    <3>3. QED
      BY <1>1, <1>9, <3>1, <3>2
  <2>4. QED
    BY <1>1, <1>3, <1>7, <2>2, <2>3
<1>12. Ordered(line')
  <2>1. SUFFICES ASSUME NEW i \in 1..Len(line'), NEW j \in 1..Len(line'), i < j
                 PROVE  /\ line'[i].n <= line'[j].n
                        /\ IsCheckSum(line'[i].cell) => line'[i].n < line'[j].n
    BY DEF Ordered
  <2>2. CASE j \in 1..Len(line)
    <3>1. i \in 1..Len(line)
      BY <2>1, <2>2, <1>1
    <3>2. QED
      BY <1>7, <2>1, <2>2, <3>1 DEF IInv, Ordered
  <2>3. CASE i \in 1..Len(line) /\ j \in (Len(line) + 1)..Len(line')
    <3>1. line'[i].n \in 1..Len(sent)
      BY <1>1, <1>7, <2>3 DEF IInv, Tagged
    <3>2. QED
      BY <1>1, <1>8, <2>3, <3>1
  <2>4. CASE i \in (Len(line) + 1)..Len(line') /\ j \in (Len(line) + 1)..Len(line')
    <3>1. i - Len(line) \in 1..(Len(b) - 1)
      BY <1>1, <1>2, <1>3, <1>7, <2>1, <2>4
    <3>2. ~IsCheckSum(line'[i].cell)
      BY <1>2, <1>8, <2>4, <3>1, WordsAreNoCheckSums
    <3>3. QED
      BY <1>1, <1>8, <2>4, <3>2
  <2>5. QED
    BY <1>1, <1>3, <1>7, <2>1, <2>2, <2>3, <2>4
<1>13. QED
  BY <1>10, <1>11, <1>12 DEF IInv

LEMMA ReadHeadIInv == ASSUME IInv, ReadHead PROVE IInv'
<1>1. PICK k \in 1..Least(CmdTypeSize, Len(line)) :
        /\ line' = Drop(line, k)
        /\ \/ k = CmdTypeSize /\ head' = SubSeq(line, 1, k) /\ status' = "body"
              /\ UNCHANGED disturbed
           \/ disturbed' = TRUE /\ UNCHANGED <<head, status>>
  BY DEF ReadHead
<1>2. UNCHANGED <<sent, got, last, faults>>
  BY DEF ReadHead
<1>3. line \in Seq(Item) /\ Len(line) \in Nat /\ k \in 1..Len(line) /\ k <= 4
      /\ Len(line) <= TtySize
  BY DEF IInv, Types, Least, CmdTypeSize
<1>4. line' \in Seq(Item) /\ Len(line') = Len(line) - k
  BY <1>1, <1>3, DropCells
<1>5. head' \in Seq(Item) /\ Len(head') = (IF status' = "body" THEN CmdTypeSize ELSE 0)
  <2>1. CASE k = CmdTypeSize /\ head' = SubSeq(line, 1, k) /\ status' = "body"
    BY <1>3, <2>1 DEF CmdTypeSize
  <2>2. CASE UNCHANGED <<head, status>>
    BY <2>2 DEF IInv, Types
  <2>3. QED
    BY <1>1, <2>1, <2>2
<1>6. Len(line') <= TtySize
  BY <1>3, <1>4, LinkAssumption
<1>7. status' \in {"head", "body", "crashed"} /\ disturbed' \in BOOLEAN
  BY <1>1 DEF IInv, Types
<1>8. Types'
  BY <1>2, <1>4, <1>5, <1>6, <1>7 DEF IInv, Types
<1>9. Tagged(line', sent', last') /\ Ordered(line')
  BY <1>1, <1>2, <1>3, RestIsGood DEF IInv
<1>10. QED
  BY <1>8, <1>9 DEF IInv

LEMMA ReadBodyFailsIInv == ASSUME IInv, ReadBodyFails PROVE IInv'
<1>1. head' \in Seq(Item) /\ Len(head') = 0
  BY DEF ReadBodyFails
<1>2. QED
  BY <1>1 DEF ReadBodyFails, IInv, Types

(***************************************************************************)
(* The frame that ReadBody returns is the frame whose number the check sum *)
(* bears, and that frame was sent after the last one returned.             *)
(***************************************************************************)
LEMMA ReturnedWasSent ==
  ASSUME IInv, status = "body",
         NEW m \in 0..Len(line), m <= TransportSize - CmdTypeSize,
         NEW rest \in [(CmdTypeSize + m + 1)..TransportSize -> Heap], NEW heap,
         Accepts(Buffer(m, rest), heap)
  PROVE  LET c == CheckSumAt(Buffer(m, rest)) - CmdTypeSize IN
         /\ c \in 1..m
         /\ line[c].n \in (last + 1)..Len(sent)
         /\ IsCheckSum(line[c].cell)
         /\ ParsedFrame(Buffer(m, rest)) = sent[line[c].n]
<1> DEFINE buf == Buffer(m, rest)
           at == CheckSumAt(buf)
<1>1. Len(line) \in Nat /\ line \in Seq(Item) /\ sent \in Seq(Frames)
  BY DEF IInv, Types
<1>2. at \in 8..TransportSize /\ TransportSize \in Nat /\ CmdTypeSize = 4
  BY DataMaxAssumption DEF CheckSumAt, FrameSize, TransportSize, CmdTypeSize
<1>3. IsCheckSum(buf[at])
  BY WordsAreNoCheckSums DEF Accepts
<1> HIDE DEF at
<1>4. at <= CmdTypeSize + m
  <2> SUFFICES ASSUME ~(at <= CmdTypeSize + m) PROVE FALSE
    OBVIOUS
  <2>1. at \in (CmdTypeSize + m + 1)..TransportSize
    BY <1>1, <1>2
  <2>2. buf[at] = rest[at]
    BY <1>1, <1>2, <2>1 DEF Buffer
  <2>3. QED
    BY <1>3, <2>1, <2>2, LinkAssumption, WordsAreNoCheckSums
<1>5. at - CmdTypeSize \in 1..m /\ at - CmdTypeSize \in 1..Len(line)
  BY <1>1, <1>2, <1>4
<1>6. buf[at] = line[at - CmdTypeSize].cell
  BY <1>1, <1>2, <1>4 DEF Buffer
<1>7. /\ line[at - CmdTypeSize].n \in (last + 1)..Len(sent)
      /\ \E h \in Heaps :
           buf[at] = crc16(Content(sent[line[at - CmdTypeSize].n], h))
  BY <1>3, <1>5, <1>6 DEF IInv, Tagged
<1>8. sent[line[at - CmdTypeSize].n] \in Frame
  BY <1>1, <1>7, LinkAssumption DEF IInv, Types
<1>9. ParsedFrame(buf) = sent[line[at - CmdTypeSize].n]
  <2>1. PICK h \in Heaps : buf[at] = crc16(Content(sent[line[at - CmdTypeSize].n], h))
    BY <1>7
  <2> HIDE DEF buf
  <2>2. Accepts(buf, heap)
    BY DEF buf
  <2>3. QED
    BY <1>8, <2>1, <2>2, AcceptedIsSent DEF at
<1>10. QED
  BY <1>3, <1>5, <1>6, <1>7, <1>9 DEF at

LEMMA ReadBodyIInv ==
  ASSUME IInv, status = "body",
         NEW m \in 0..Len(line), m <= TransportSize - CmdTypeSize,
         NEW rest \in [(CmdTypeSize + m + 1)..TransportSize -> Heap], NEW heap,
         ReadBody(m, rest, heap)
  PROVE  IInv'
<1> DEFINE c == CheckSumAt(Buffer(m, rest)) - CmdTypeSize
<1>1. line \in Seq(Item) /\ Len(line) \in Nat /\ Len(line) <= TtySize
      /\ sent \in Seq(Frames) /\ last \in 0..Len(sent)
  BY DEF IInv, Types
<1>2. line' = Drop(line, m) /\ line' \in Seq(Item) /\ Len(line') = Len(line) - m
      /\ \A i \in 1..Len(line') : line'[i] = line[i + m]
  BY <1>1, DropCells DEF ReadBody
<1>3. Tagged(line', sent, last) /\ Ordered(line')
  BY <1>1, <1>2, RestIsGood DEF IInv
<1>4. /\ head' \in Seq(Item) /\ Len(head') = 0 /\ status' \in {"head", "crashed"}
      /\ disturbed' \in BOOLEAN /\ UNCHANGED <<sent, faults>>
  BY DEF ReadBody, IInv, Types
<1>5. Len(line') <= TtySize
  BY <1>1, <1>2, LinkAssumption
<1>6. CASE Accepts(Buffer(m, rest), heap)
  <2>1. c \in 1..m /\ line[c].n \in (last + 1)..Len(sent) /\ IsCheckSum(line[c].cell)
    BY <1>6, ReturnedWasSent
  <2>2. last' = line[c].n
    BY <1>6 DEF ReadBody
  <2> HIDE DEF c
  <2>3. last' \in 0..Len(sent')
    BY <1>1, <1>4, <2>1, <2>2
  <2>4. Types'
    BY <1>2, <1>4, <1>5, <2>3 DEF IInv, Types
  <2>5. Tagged(line', sent', last')
    <3>1. SUFFICES ASSUME NEW i \in 1..Len(line')
                   PROVE  line'[i].n \in (last' + 1)..Len(sent)
      BY <1>3, <1>4 DEF Tagged
    <3>2. i + m \in 1..Len(line) /\ c \in 1..Len(line) /\ c < i + m
      BY <1>1, <1>2, <2>1
    <3>3. line[c].n < line[i + m].n
      BY <2>1, <3>2 DEF IInv, Ordered
    <3>4. line[i + m].n \in (last + 1)..Len(sent)
      BY <3>2 DEF IInv, Tagged
    <3>5. QED
      BY <1>1, <1>2, <2>1, <2>2, <3>3, <3>4
  <2>6. QED
    BY <1>3, <2>4, <2>5 DEF IInv
<1>7. CASE ~Accepts(Buffer(m, rest), heap)
  <2>1. last' = last
    BY <1>7 DEF ReadBody
  <2>2. QED
    BY <1>1, <1>2, <1>3, <1>4, <1>5, <2>1 DEF IInv, Types
<1>8. QED
  BY <1>6, <1>7

LEMMA GarbleIInv == ASSUME IInv, Garble PROVE IInv'
<1>1. PICK k \in 1..Len(line), w \in Noise : line' = [line EXCEPT ![k] = [@ EXCEPT !.cell = w]]
  BY DEF Garble
<1>2. line \in Seq(Item) /\ Len(line) \in Nat /\ w \in Word
  BY LinkAssumption DEF IInv, Types
<1>3. line[k] \in Item
  BY <1>2
<1> DEFINE x == [line[k] EXCEPT !.cell = w]
<1>3a. x \in Item /\ x.cell = w /\ x.n = line[k].n
  BY <1>2, <1>3 DEF Item
<1> HIDE DEF x
<1>3b. line' = [line EXCEPT ![k] = x]
  BY <1>1 DEF x
<1>4. /\ line' \in Seq(Item) /\ Len(line') = Len(line)
      /\ \A i \in 1..Len(line) : line'[i].n = line[i].n
      /\ \A i \in 1..Len(line) : i # k => line'[i] = line[i]
      /\ line'[k].cell = w
  BY <1>2, <1>3a, <1>3b
<1>5. Types'
  BY <1>4, LinkAssumption DEF Garble, IInv, Types
<1>6. \A i \in 1..Len(line') : IsCheckSum(line'[i].cell) => line'[i] = line[i]
  BY <1>2, <1>4, WordsAreNoCheckSums
<1>7. Tagged(line', sent', last')
  BY <1>4, <1>6 DEF Garble, IInv, Tagged
<1>8. Ordered(line')
  BY <1>4, <1>6 DEF IInv, Ordered
<1>9. QED
  BY <1>5, <1>7, <1>8 DEF IInv

LEMMA LoseCellIInv == ASSUME IInv, LoseCell PROVE IInv'
<1>1. PICK k \in 1..Len(line) : line' = SubSeq(line, 1, k - 1) \o Drop(line, k)
  BY DEF LoseCell
<1>2. line \in Seq(Item) /\ Len(line) \in Nat /\ Len(line) <= TtySize
  BY DEF IInv, Types
<1>3. /\ line' \in Seq(Item) /\ Len(line') = Len(line) - 1
      /\ \A i \in 1..Len(line') : line'[i] = IF i < k THEN line[i] ELSE line[i + 1]
  BY <1>1, <1>2, LoseOneCell
<1>4. Types'
  <2>1. faults' \in 0..MaxFaults /\ Len(line') <= TtySize
    BY <1>2, <1>3, LinkAssumption DEF LoseCell, IInv, Types
  <2>2. QED
    BY <1>3, <2>1 DEF LoseCell, IInv, Types
<1>5. Tagged(line', sent', last')
  <2>1. \A i \in 1..Len(line') : \E j \in 1..Len(line) : line'[i] = line[j]
    BY <1>2, <1>3
  <2>2. UNCHANGED <<sent, last>>
    BY DEF LoseCell
  <2>3. QED
    BY <2>1, <2>2 DEF IInv, Tagged
<1>6. Ordered(line')
  <2>1. SUFFICES ASSUME NEW i \in 1..Len(line'), NEW j \in 1..Len(line'), i < j
                 PROVE  /\ line'[i].n <= line'[j].n
                        /\ IsCheckSum(line'[i].cell) => line'[i].n < line'[j].n
    BY DEF Ordered
  <2>2. PICK p \in 1..Len(line), q \in 1..Len(line) :
          p < q /\ line'[i] = line[p] /\ line'[j] = line[q]
    BY <1>2, <1>3, <2>1
  <2>3. QED
    BY <2>2 DEF IInv, Ordered
<1>7. QED
  BY <1>4, <1>5, <1>6 DEF IInv
-----------------------------------------------------------------------------
(***************************************************************************)
(* A step of the receiver that reads a body, with its choices named.       *)
(***************************************************************************)
LEMMA BodySteps ==
  ASSUME IInv, Receive
  PROVE  \/ ReadHead
         \/ ReadBodyFails
         \/ /\ status = "body"
            /\ \E m \in 0..Len(line) :
                 /\ m <= TransportSize - CmdTypeSize
                 /\ \E rest \in [(CmdTypeSize + m + 1)..TransportSize -> Heap],
                       heap \in Heaps : ReadBody(m, rest, heap)
<1>1. Len(line) \in Nat /\ TransportSize - CmdTypeSize \in Nat
  BY DataMaxAssumption DEF IInv, Types, TransportSize, CmdTypeSize
<1>2. FewestRead \in {0, 1}
  BY DEF FewestRead
<1>3. \A m \in FewestRead..Least(TransportSize - CmdTypeSize, Len(line)) :
        m \in 0..Len(line) /\ m <= TransportSize - CmdTypeSize
  BY <1>1, <1>2 DEF Least
<1>4. QED
  BY <1>3 DEF Receive, Heaps

LEMMA NextIInv == IInv /\ [Next]_vars => IInv'
<1> SUFFICES ASSUME IInv, [Next]_vars PROVE IInv'
  OBVIOUS
<1>1. CASE \E f \in Frames, heap \in Heaps : Send(f, heap)
  BY <1>1, SendIInv
<1>2. CASE Receive
  BY <1>2, BodySteps, ReadHeadIInv, ReadBodyFailsIInv, ReadBodyIInv
<1>3. CASE Garble
  BY <1>3, GarbleIInv
<1>4. CASE LoseCell
  BY <1>4, LoseCellIInv
<1>5. CASE UNCHANGED vars
  BY <1>5 DEF vars, IInv, Types
<1>6. QED
  BY <1>1, <1>2, <1>3, <1>4, <1>5 DEF Next, Heaps

(***************************************************************************)
(* The strengthened invariant holds in every reachable state.              *)
(***************************************************************************)
THEOREM Invariance == Spec => []IInv
<1>1. QED
  BY InitIInv, NextIInv, PTL DEF Spec

(***************************************************************************)
(* Type correctness: the line never holds more than the tty can, and every *)
(* cell on it belongs to a frame that was sent.                            *)
(***************************************************************************)
THEOREM TypeCorrect == Spec => []TypeOK
<1>1. IInv => TypeOK
  <2>1. SUFFICES ASSUME IInv PROVE TypeOK
    OBVIOUS
  <2>2. \A i \in DOMAIN line : line[i].n \in DOMAIN sent
    BY <2>1 DEF IInv, Types, Tagged
  <2>3. \A i \in DOMAIN sent : sent[i] \in Frames
    BY <2>1 DEF IInv, Types
  <2>4. QED
    BY <2>1, <2>2, <2>3 DEF IInv, Types, TypeOK
<1>2. QED
  BY <1>1, Invariance, PTL

(***************************************************************************)
(* The serial link implements the ordered, lossy channel: whatever happens *)
(* on the line, a frame that wait_frame returns is a frame that was sent,  *)
(* unchanged, and sent later than every frame returned before it.          *)
(***************************************************************************)
THEOREM LinkImplementsChannel == Spec => ImplementsChannel
<1>1. Init => Channel!Init
  BY DEF Init, Channel!Init
<1>2. IInv /\ [Next]_vars => [Channel!Next]_Channel!vars
  <2> SUFFICES ASSUME IInv, [Next]_vars PROVE [Channel!Next]_Channel!vars
    OBVIOUS
  <2>1. ASSUME NEW f \in Frames, NEW heap \in Heaps, Send(f, heap)
        PROVE  Channel!Send(f)
    BY <2>1 DEF Send, Channel!Send
  <2>2. CASE ReadHead \/ ReadBodyFails \/ Garble \/ LoseCell \/ UNCHANGED vars
    BY <2>2 DEF ReadHead, ReadBodyFails, Garble, LoseCell, vars, Channel!vars
  <2>3. ASSUME status = "body",
               NEW m \in 0..Len(line), m <= TransportSize - CmdTypeSize,
               NEW rest \in [(CmdTypeSize + m + 1)..TransportSize -> Heap], NEW heap,
               ReadBody(m, rest, heap)
        PROVE  [Channel!Next]_Channel!vars
    <3>1. CASE Accepts(Buffer(m, rest), heap)
      <4> DEFINE n == line[CheckSumAt(Buffer(m, rest)) - CmdTypeSize].n
      <4>1. n \in (last + 1)..Len(sent) /\ ParsedFrame(Buffer(m, rest)) = sent[n]
        BY <2>3, <3>1, ReturnedWasSent
      <4>2. last' = n /\ got' = Append(got, ParsedFrame(Buffer(m, rest))) /\ UNCHANGED sent
        BY <2>3, <3>1 DEF ReadBody
      <4>3. Channel!Deliver(n)
        BY <4>1, <4>2 DEF Channel!Deliver
      <4>4. QED
        BY <4>1, <4>3 DEF Channel!Next
    <3>2. CASE ~Accepts(Buffer(m, rest), heap)
      BY <2>3, <3>2 DEF ReadBody, Channel!vars
    <3>3. QED
      BY <3>1, <3>2
  <2>4. CASE Receive
    BY <2>2, <2>3, <2>4, BodySteps
  <2>5. QED
    BY <2>1, <2>2, <2>4 DEF Next, Heaps, Channel!Next
<1>3. QED
  BY <1>1, <1>2, Invariance, PTL DEF Spec, ImplementsChannel, Channel!Spec

-----------------------------------------------------------------------------
Undisturbed == ~disturbed /\ faults = 0 /\ OnlyShortFrames

\* The cells of a short frame from the given one to its end.
Carries(cells, f, heap, from) ==
  /\ Len(cells) = 8 - from
  /\ \A i \in 1..(8 - from) : cells[i].cell = frame2bit_stream(f, heap)[i + from]

\* At most one frame is under way, the last one sent, and it is whole.
OneUnderWay(f, heap) ==
  /\ sent = Append(got, f) /\ f.frame_type # TRANSPORT
  /\ \/ status = "head" /\ Carries(line, f, heap, 0)
     \/ /\ status = "body" /\ Carries(line, f, heap, 4)
        /\ \A i \in 1..4 : head[i].cell = frame2bit_stream(f, heap)[i]

Delivered == Quiet /\ got = sent

Orderly ==
  Undisturbed => Delivered \/ \E f \in Frames, heap \in Heaps : OneUnderWay(f, heap)

-----------------------------------------------------------------------------
LEMMA UndisturbedBefore ==
  ASSUME IInv, [Next]_vars, Undisturbed'
  PROVE  Undisturbed /\ faults' = faults
<1>1. faults \in Nat /\ disturbed \in BOOLEAN /\ sent \in Seq(Frames)
  BY LinkAssumption DEF IInv, Types
<1>2. (faults' = faults \/ faults' = faults + 1) /\ (disturbed => disturbed')
      /\ (sent' = sent \/ \E f \in Frames : sent' = Append(sent, f))
  <2>1. ASSUME NEW f \in Frames, NEW heap \in Heaps, Send(f, heap)
        PROVE  faults' = faults /\ (disturbed => disturbed') /\ sent' = Append(sent, f)
    BY <2>1 DEF Send
  <2>2. CASE ReadHead \/ ReadBodyFails \/ Garble \/ LoseCell \/ UNCHANGED vars
    BY <2>2 DEF ReadHead, ReadBodyFails, Garble, LoseCell, vars
  <2>3. ASSUME NEW m, NEW rest, NEW heap, ReadBody(m, rest, heap)
        PROVE  faults' = faults /\ (disturbed => disturbed') /\ sent' = sent
    BY <2>3 DEF ReadBody
  <2>4. CASE Receive
    BY <2>2, <2>3, <2>4 DEF Receive
  <2> QED BY <2>1, <2>2, <2>4 DEF Next, Heaps
<1>3. faults = 0 /\ faults' = 0 /\ ~disturbed
  BY <1>1, <1>2 DEF Undisturbed
<1>4. OnlyShortFrames
  <2>1. CASE sent' = sent
    BY <2>1 DEF Undisturbed, OnlyShortFrames
  <2>2. ASSUME NEW f \in Frames, sent' = Append(sent, f) PROVE OnlyShortFrames
    <3>1. \A k \in DOMAIN sent : k \in DOMAIN sent' /\ sent'[k] = sent[k]
      BY <1>1, <2>2
    <3> QED BY <3>1 DEF Undisturbed, OnlyShortFrames
  <2> QED BY <1>2, <2>1, <2>2
<1> QED BY <1>3, <1>4 DEF Undisturbed

LEMMA ShortFrame ==
  ASSUME NEW f \in Frames, NEW heap \in Heaps, f.frame_type # TRANSPORT
  PROVE  /\ f \in Frame /\ FrameSize(f.frame_type) = 8 /\ Len(frame2bit_stream(f, heap)) = 8
         /\ frame2bit_stream(f, heap)[4] = f.frame_type
         /\ \A i \in 1..7 : frame2bit_stream(f, heap)[i] = Content(f, heap)[i]
         /\ frame2bit_stream(f, heap)[8] = crc16(Content(f, heap))
<1>1. f \in Frame /\ FrameSize(f.frame_type) = 8 /\ f.frame_type \in FrameTypes
  BY LinkAssumption DEF FrameSize, Frame
<1>2. Len(frame2bit_stream(f, heap)) = 8 /\ frame2bit_stream(f, heap)[8] = crc16(Content(f, heap))
  BY <1>1, Serialised
<1>3. \A i \in 1..7 : frame2bit_stream(f, heap)[i] = Content(f, heap)[i]
  <2>1. Content(f, heap) = [i \in 1..7 |-> Content(f, heap)[i]]
    BY <1>1 DEF Content
  <2>2. DOMAIN Content(f, heap) = 1..7 /\ Len(Content(f, heap)) = 7
    BY <2>1
  <2> QED BY <2>1, <2>2 DEF frame2bit_stream
<1>4. Content(f, heap)[4] = f.frame_type
  BY <1>1, ContentCells
<1> QED BY <1>1, <1>2, <1>3, <1>4

-----------------------------------------------------------------------------
LEMMA SendOrderly ==
  ASSUME IInv, Orderly, NEW f \in Frames, NEW heap \in Heaps, Send(f, heap),
         Undisturbed, Undisturbed'
  PROVE  OneUnderWay(f, heap)'
<1>1. Quiet /\ Written(f, heap) >= Len(frame2bit_stream(f, heap))
  <2>1. Len(frame2bit_stream(f, heap)) \in Nat /\ Written(f, heap) \in Int
    BY Serialised, LinkAssumption DEF Written, Least, IInv, Types
  <2>2. disturbed' = (disturbed \/ ~Quiet \/ Written(f, heap) < Len(frame2bit_stream(f, heap)))
    BY DEF Send
  <2>3. Quiet /\ ~(Written(f, heap) < Len(frame2bit_stream(f, heap)))
    BY <2>2, Zenon DEF Undisturbed
  <2> QED BY <2>1, <2>3
<1>2. got = sent /\ line = <<>> /\ status = "head" /\ sent' = Append(got, f)
  <2>1. ASSUME NEW g \in Frames, NEW h \in Heaps, OneUnderWay(g, h) PROVE FALSE
    BY <1>1, <2>1 DEF Quiet, OneUnderWay, Carries
  <2> QED BY <1>1, <2>1 DEF Orderly, Delivered, Quiet, Send
<1>3. f.frame_type # TRANSPORT
  <2>1. sent \in Seq(Frames)
    BY DEF IInv, Types
  <2>2. Len(sent) + 1 \in DOMAIN sent' /\ sent'[Len(sent) + 1] = f
    BY <1>2, <2>1
  <2> QED BY <2>2 DEF Undisturbed, OnlyShortFrames
<1>4. Written(f, heap) = 8
  <2>1. Len(frame2bit_stream(f, heap)) = 8
    BY <1>3, ShortFrame
  <2> QED BY <1>1, <1>2, <2>1, LinkAssumption DEF Written, Least
<1>5. line' = [i \in 1..8 |-> [cell |-> frame2bit_stream(f, heap)[i], n |-> Len(sent) + 1]]
  <2> DEFINE cells == [i \in 1..8 |-> [cell |-> frame2bit_stream(f, heap)[i], n |-> Len(sent) + 1]]
  <2>1. line' = <<>> \o cells
    BY <1>2, <1>4 DEF Send
  <2>2. cells \in Seq({cells[i] : i \in 1..8})
    BY IsASeq
  <2> HIDE DEF cells
  <2>3. <<>> \o cells = cells
    BY <2>2, ConcatEmptySeq
  <2> QED BY <2>1, <2>3 DEF cells
<1>6. Carries(line, f, heap, 0)'
  <2>1. Len(line') = 8 /\ \A i \in 1..8 : line'[i].cell = frame2bit_stream(f, heap)[i]
    BY <1>5
  <2>2. \A i \in 1..8 : i + 0 = i
    OBVIOUS
  <2> QED BY <2>1, <2>2 DEF Carries
<1> QED BY <1>2, <1>3, <1>6 DEF OneUnderWay, Send

LEMMA ReadHeadOrderly ==
  ASSUME IInv, Orderly, ReadHead, Undisturbed, Undisturbed'
  PROVE  \E f \in Frames, heap \in Heaps : OneUnderWay(f, heap)'
<1>1. PICK k \in 1..Least(CmdTypeSize, Len(line)) :
        /\ line' = Drop(line, k)
        /\ IF k = CmdTypeSize
           THEN head' = SubSeq(line, 1, k) /\ status' = "body" /\ UNCHANGED disturbed
           ELSE disturbed' = TRUE /\ UNCHANGED <<head, status>>
  BY DEF ReadHead
<1>2. k = 4 /\ head' = SubSeq(line, 1, 4) /\ status' = "body" /\ line' = Drop(line, 4)
  BY <1>1 DEF Undisturbed, CmdTypeSize
<1>3. line \in Seq(Item) /\ Len(line) \in Nat /\ Len(line) >= 4
  BY <1>1, <1>2 DEF IInv, Types, Least, CmdTypeSize
<1>4. PICK f \in Frames, heap \in Heaps : OneUnderWay(f, heap)
  BY <1>3 DEF Orderly, Delivered, Quiet
<1>5. status = "head" /\ sent' = Append(got', f) /\ Carries(line, f, heap, 0)
      /\ f.frame_type # TRANSPORT
  BY <1>4 DEF ReadHead, OneUnderWay
<1>6. Len(line) = 8 /\ \A i \in 1..8 : line[i].cell = frame2bit_stream(f, heap)[i]
  <2>1. \A i \in 1..8 : i + 0 = i
    OBVIOUS
  <2> QED BY <1>5, <2>1 DEF Carries
<1>7. Carries(line, f, heap, 4)'
  <2>1. Len(line') = 4 /\ \A i \in 1..4 : line'[i] = line[i + 4]
    <3>1. 4 \in 0..Len(line) /\ Len(line) - 4 = 4
      BY <1>6
    <3> QED BY <1>2, <1>3, <3>1, DropCells
  <2>2. \A i \in 1..4 : i + 4 \in 1..8
    OBVIOUS
  <2> QED BY <1>6, <2>1, <2>2 DEF Carries
<1>8. \A i \in 1..4 : head'[i].cell = frame2bit_stream(f, heap)[i]
  <2>1. \A i \in 1..4 : head'[i] = line[i]
    BY <1>2, <1>3
  <2> QED BY <1>6, <2>1
<1>9. OneUnderWay(f, heap)'
  BY <1>2, <1>5, <1>7, <1>8 DEF OneUnderWay
<1> QED BY <1>9

LEMMA ReadBodyOrderly ==
  ASSUME IInv, Orderly, status = "body",
         NEW m \in 0..Len(line), m <= TransportSize - CmdTypeSize,
         NEW rest \in [(CmdTypeSize + m + 1)..TransportSize -> Heap], NEW new \in Heaps,
         ReadBody(m, rest, new), Undisturbed, Undisturbed'
  PROVE  Delivered'
<1> DEFINE buf == Buffer(m, rest)
<1>1. PICK f \in Frames, heap \in Heaps : OneUnderWay(f, heap)
  BY DEF Orderly, Delivered, Quiet
<1> DEFINE stream == frame2bit_stream(f, heap)
<1>2. /\ sent = Append(got, f) /\ f.frame_type # TRANSPORT
      /\ Len(line) = 4 /\ \A i \in 1..4 : line[i].cell = stream[i + 4]
      /\ \A i \in 1..4 : head[i].cell = stream[i]
  BY <1>1 DEF OneUnderWay, Carries
<1>3. TransportSize \in Nat /\ TransportSize >= 10 /\ CmdTypeSize = 4
  BY DataMaxAssumption DEF TransportSize, CmdTypeSize
<1>4. \A i \in 1..4 : buf[i] = stream[i]
  BY <1>2, <1>3 DEF Buffer
<1>5. CheckSumAt(buf) = 8
  BY <1>2, <1>4, ShortFrame DEF CheckSumAt
<1>6. m = 4
  <2>1. disturbed' = (disturbed \/ m < CheckSumAt(buf) - CmdTypeSize)
    BY DEF ReadBody
  <2> HIDE DEF buf
  <2>2. ~(m < 4)
    BY <1>3, <1>5, <2>1 DEF Undisturbed
  <2> QED BY <1>2, <2>2
<1>7. \A i \in 5..8 : buf[i] = stream[i]
  <2>1. \A i \in 5..8 : buf[i] = line[i - 4].cell
    BY <1>3, <1>6 DEF Buffer
  <2>2. \A i \in 5..8 : i - 4 \in 1..4 /\ (i - 4) + 4 = i
    OBVIOUS
  <2> QED BY <1>2, <2>1, <2>2
<1>8. Accepts(buf, new) /\ ParsedFrame(buf) = f
  <2>1. \A i \in 1..8 : buf[i] = stream[i]
    BY <1>4, <1>7
  <2> HIDE DEF buf
  <2>2. f \in Frame /\ (\A i \in 1..7 : buf[i] = Content(f, heap)[i]) /\ buf[8] = crc16(Content(f, heap))
    BY <1>2, <2>1, ShortFrame
  <2> QED BY <1>2, <2>2, ShortFramesReadBack
<1>9. status' = "head" /\ got' = Append(got, f) /\ sent' = sent /\ line' = Drop(line, 4)
  BY <1>6, <1>8 DEF ReadBody
<1>10. line' = <<>>
  BY <1>2, <1>9 DEF Drop, IInv, Types
<1> QED BY <1>2, <1>9, <1>10 DEF Delivered, Quiet

(***************************************************************************)
(* The inductive invariant: what is under way of undisturbed short frames  *)
(* is at most one of them, whole, on the line or behind its head           *)
(* (transmission_protocol.c:113-169).                                      *)
(***************************************************************************)
THEOREM OrderlyAlways == Spec => []Orderly
<1>1. Init => Orderly
  BY DEF Init, Orderly, Delivered, Quiet
<1>2. IInv /\ Orderly /\ [Next]_vars => Orderly'
  <2> SUFFICES ASSUME IInv, Orderly, [Next]_vars, Undisturbed'
               PROVE  (Delivered \/ \E f \in Frames, heap \in Heaps : OneUnderWay(f, heap))'
    BY DEF Orderly
  <2>1. Undisturbed /\ faults' = faults
    BY UndisturbedBefore
  <2>2. faults \in Nat
    BY LinkAssumption DEF IInv, Types
  <2>3. ASSUME NEW f \in Frames, NEW heap \in Heaps, Send(f, heap)
        PROVE  OneUnderWay(f, heap)'
    BY <2>1, <2>3, SendOrderly
  <2>4. CASE ReadHead
    BY <2>1, <2>4, ReadHeadOrderly
  <2>5. ~ReadBodyFails /\ ~Garble /\ ~LoseCell
    BY <2>1, <2>2 DEF ReadBodyFails, Garble, LoseCell, Undisturbed
  <2>6. ASSUME status = "body",
               NEW m \in 0..Len(line), m <= TransportSize - CmdTypeSize,
               NEW rest \in [(CmdTypeSize + m + 1)..TransportSize -> Heap], NEW heap \in Heaps,
               ReadBody(m, rest, heap)
        PROVE  Delivered'
    BY <2>1, <2>6, ReadBodyOrderly
  <2>7. CASE UNCHANGED vars
    BY <2>1, <2>7 DEF Orderly, Delivered, OneUnderWay, Carries, Quiet, vars
  <2>8. CASE Receive
    BY <2>4, <2>5, <2>6, <2>8, BodySteps
  <2> QED BY <2>3, <2>5, <2>7, <2>8 DEF Next, Heaps
<1> QED BY <1>1, <1>2, Invariance, PTL DEF Spec

(***************************************************************************)
(* Request and control frames are returned, all of them and nothing else,  *)
(* if each is read after it has arrived (transmission_protocol.c:113-169). *)
(***************************************************************************)
THEOREM UndisturbedAreDelivered == Spec => []UndisturbedDelivery
<1>1. Orderly => UndisturbedDelivery
  <2> SUFFICES ASSUME Orderly, Undisturbed PROVE status # "crashed" /\ (Quiet => got = sent)
    BY DEF Undisturbed, UndisturbedDelivery
  <2>1. ASSUME NEW f \in Frames, NEW heap \in Heaps, OneUnderWay(f, heap)
        PROVE  status # "crashed" /\ ~Quiet
    BY <2>1 DEF OneUnderWay, Carries, Quiet
  <2> QED BY <2>1 DEF Orderly, Delivered, Quiet
<1> QED BY OrderlyAlways, <1>1, PTL
=============================================================================
