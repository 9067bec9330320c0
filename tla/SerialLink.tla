----------------------------- MODULE SerialLink -----------------------------
(***************************************************************************)
(* One direction of the serial line: send_frame at one end, receive_frame  *)
(* in the busy loop of wait_frame at the other, and between them the tty   *)
(* and the wire (external), which hold a bounded number of cells, deliver  *)
(* them when they like, and may garble or lose some.                       *)
(*                                                                         *)
(* Both file descriptors are O_NONBLOCK.  A read returns what has arrived, *)
(* up to what was asked for, or -1: since nothing else tells when a cell   *)
(* arrives, a read of an n-cell line may return any number up to n.  A     *)
(* write takes what the tty has room for, or returns -1.                   *)
(***************************************************************************)
EXTENDS FrameCodec

CONSTANTS Frames,      \* the frames the sender may send
          TtySize,     \* how many cells the tty and the wire hold
          Heap,        \* the words fresh memory may hold
          Noise,       \* the words a garbled cell may turn into
          MaxSent,     \* bound: frames sent
          MaxFaults    \* bound: cells garbled or lost on the wire

ASSUME LinkAssumption ==
  /\ Frames \subseteq Frame
  /\ TtySize \in Nat /\ MaxSent \in Nat /\ MaxFaults \in Nat
  /\ Heap \subseteq Word /\ Noise \subseteq Word

VARIABLES
  line,      \* cells written and not yet read, each with the number of its frame
  status,    \* the receiver: about to read a "head" or a "body", or "crashed"
  head,      \* temp of receive_frame: the cells of the first read
  sent,      \* history: the frames of which send_frame wrote something
  got,       \* the frames wait_frame returned
  last,      \* history: the number of the last frame returned, 0 if none
  faults,    \* cells garbled or lost so far
  disturbed  \* history: a cut write, an early read or an early send happened

vars == <<line, status, head, sent, got, last, faults, disturbed>>

Init ==
  /\ line = <<>> /\ status = "head" /\ head = <<>>
  /\ sent = <<>> /\ got = <<>> /\ last = 0
  /\ faults = 0 /\ disturbed = FALSE

Least(a, b) == IF a <= b THEN a ELSE b
Drop(s, n) == SubSeq(s, n + 1, Len(s))
Quiet == line = <<>> /\ status = "head"

(***************************************************************************)
(* send_frame: the frame is serialised and written with one write, whose   *)
(* result is returned.  A write cut short is no error to any caller.       *)
(***************************************************************************)
\* A variant that ignores how much room there is.
WrittenWhole(f, heap) == Len(frame2bit_stream(f, heap))
Written(f, heap) ==
  Least(Len(frame2bit_stream(f, heap)), TtySize - Len(line))

Send(f, heap) ==
  /\ Len(sent) < MaxSent
  /\ Written(f, heap) > 0
  /\ line' = line \o [i \in 1..Written(f, heap) |->
                        [cell |-> frame2bit_stream(f, heap)[i], n |-> Len(sent) + 1]]
  /\ sent' = Append(sent, f)
  /\ disturbed' = (disturbed \/ ~Quiet
                     \/ Written(f, heap) < Len(frame2bit_stream(f, heap)))
  /\ UNCHANGED <<status, head, got, last, faults>>

\* A variant that leaves the cells of a short read in the line.
ReadHeadPeeking ==
  /\ status = "head"
  /\ \E k \in 1..Least(CmdTypeSize, Len(line)) :
       IF k = CmdTypeSize
       THEN /\ line' = Drop(line, k)
            /\ head' = SubSeq(line, 1, k)
            /\ status' = "body"
            /\ UNCHANGED disturbed
       ELSE /\ disturbed' = TRUE
            /\ UNCHANGED <<line, head, status>>
  /\ UNCHANGED <<sent, got, last, faults>>

(***************************************************************************)
(* receive_frame, first read: the address, type and header of a frame.  A  *)
(* short read returns -1, and the cells it took are gone.                  *)
(***************************************************************************)
ReadHead ==
  /\ status = "head"
  /\ \E k \in 1..Least(CmdTypeSize, Len(line)) :
       /\ line' = Drop(line, k)
       /\ IF k = CmdTypeSize
          THEN /\ head' = SubSeq(line, 1, k)
               /\ status' = "body"
               /\ UNCHANGED disturbed
          ELSE /\ disturbed' = TRUE
               /\ UNCHANGED <<head, status>>
  /\ UNCHANGED <<sent, got, last, faults>>

(***************************************************************************)
(* receive_frame, second read.  No case of the switch on the type breaks,  *)
(* so every type reads as much as a transport frame needs.  With nothing   *)
(* there read returns -1, the sum is 7, and receive_frame returns -1: the  *)
(* head is gone.                                                           *)
(***************************************************************************)
ReadBodyFails ==
  /\ status = "body"
  /\ status' = "head" /\ head' = <<>> /\ disturbed' = TRUE
  /\ UNCHANGED <<line, sent, got, last, faults>>

\* The buffer after a second read of m cells, the rest of it as malloc left it.
Buffer(m, rest) ==
  [i \in 1..TransportSize |->
     CASE i <= CmdTypeSize     -> head[i].cell
       [] i \in (CmdTypeSize + 1)..(CmdTypeSize + m) -> line[i - CmdTypeSize].cell
       [] OTHER                -> rest[i]]

(***************************************************************************)
(* What was read goes to bit_stream2frame, however short it is.  A frame   *)
(* is copied out and returned; NULL is copied from, and the process dies.  *)
(***************************************************************************)
ReadBody(m, rest, heap) ==
  /\ line' = Drop(line, m)
  /\ head' = <<>>
  /\ IF Accepts(Buffer(m, rest), heap)
     THEN /\ status' = "head"
          /\ got' = Append(got, ParsedFrame(Buffer(m, rest)))
          /\ last' = line[CheckSumAt(Buffer(m, rest)) - CmdTypeSize].n
     ELSE status' = "crashed" /\ UNCHANGED <<got, last>>
  /\ disturbed' = (disturbed \/ m < CheckSumAt(Buffer(m, rest)) - CmdTypeSize)
  /\ UNCHANGED <<sent, faults>>

\* With an unknown type the size of the second read is not initialised, so it
\* may also ask for nothing and succeed.
FewestRead == IF head[CmdTypeSize].cell \in FrameTypes THEN 1 ELSE 0

Receive ==
  \/ ReadHead
  \/ ReadBodyFails
  \/ /\ status = "body"
     /\ \E m \in FewestRead..Least(TransportSize - CmdTypeSize, Len(line)) :
          \E rest \in [(CmdTypeSize + m + 1)..TransportSize -> Heap],
             heap \in [1..DataMax -> Heap] :
            ReadBody(m, rest, heap)

(***************************************************************************)
(* The wire garbles or loses one cell of those under way.                  *)
(***************************************************************************)
Garble ==
  /\ faults < MaxFaults
  /\ \E i \in 1..Len(line), w \in Noise :
       line' = [line EXCEPT ![i] = [@ EXCEPT !.cell = w]]
  /\ faults' = faults + 1
  /\ UNCHANGED <<status, head, sent, got, last, disturbed>>

LoseCell ==
  /\ faults < MaxFaults
  /\ \E i \in 1..Len(line) : line' = SubSeq(line, 1, i - 1) \o Drop(line, i)
  /\ faults' = faults + 1
  /\ UNCHANGED <<status, head, sent, got, last, disturbed>>

Next ==
  \/ \E f \in Frames, heap \in [1..DataMax -> Heap] : Send(f, heap)
  \/ Receive \/ Garble \/ LoseCell

Spec == Init /\ [][Next]_vars

\* wait_frame reads in a busy loop, so the receiver's steps are weakly fair.
FairSpec == Spec /\ WF_vars(Receive)
-----------------------------------------------------------------------------
TypeOK ==
  /\ status \in {"head", "body", "crashed"}
  /\ Len(line) <= TtySize
  /\ \A i \in DOMAIN line : line[i].n \in DOMAIN sent
  /\ Len(head) = (IF status = "body" THEN CmdTypeSize ELSE 0)
  /\ \A i \in DOMAIN sent : sent[i] \in Frames
  /\ last \in 0..Len(sent)
  /\ faults \in 0..MaxFaults
  /\ disturbed \in BOOLEAN

(***************************************************************************)
(* The link is an ordered channel that may lose frames: under every        *)
(* interleaving of cut writes, early reads, garbled and lost cells, what   *)
(* wait_frame returns is a frame that was sent, unchanged, once, in order. *)
(* It is the check sum that makes it so (bit_stream2frame).                *)
(***************************************************************************)
Channel == INSTANCE OrderedChannel
ImplementsChannel == Channel!Spec

(***************************************************************************)
(* A request or control frame written whole to a quiet line and read after *)
(* it has arrived is returned by wait_frame: no such frame is lost and     *)
(* none kills the receiver (transmission_protocol_test.cc:27-41).          *)
(***************************************************************************)
OnlyShortFrames == \A i \in DOMAIN sent : sent[i].frame_type # TRANSPORT

UndisturbedDelivery ==
  ~disturbed /\ faults = 0 /\ OnlyShortFrames =>
    /\ status # "crashed"
    /\ Quiet => got = sent

(***************************************************************************)
(* The busy loop of wait_frame empties the line, unless the receiver dies: *)
(* no arrival pattern makes it spin on cells it never takes.               *)
(***************************************************************************)
LineDrains == line # <<>> ~> (line = <<>> \/ status = "crashed")

(***************************************************************************)
(* The same for frames of every type, the data frames too: the format of   *)
(* serial-transmission-protocol.md is read as it is written.               *)
(***************************************************************************)
EveryTypeDelivered ==
  ~disturbed /\ faults = 0 =>
    /\ status # "crashed"
    /\ Quiet => got = sent
=============================================================================
