----------------------------- MODULE FrameCodec -----------------------------
(***************************************************************************)
(* The frame format of the serial protocol between the centre board (the   *)
(* master) and the carried board (the slave): what frame2bit_stream writes *)
(* and what bit_stream2frame accepts (transmission_protocol.c).            *)
(*                                                                         *)
(* A bit stream is a sequence of cells, one cell for two bytes: every      *)
(* field of a frame has an even size, so a field is one cell or two.       *)
(* data_len counts cells too.  A cell is a number or a check sum.  The     *)
(* CRC-16 is taken to be collision free: the check sum of a content is a   *)
(* cell that stands for that very content, and no number equals it.        *)
(***************************************************************************)
EXTENDS Integers, Sequences

CONSTANT DataMax   \* TP_FRAME_DATA_LEN_MAX, in cells (256 in the program)

ASSUME DataMaxAssumption == DataMax \in Nat \ {0}

Num(v) == <<"num", v>>
crc16(content) == <<"crc", content>>
IsCheckSum(cell) == cell[1] = "crc"

Word == {"num"} \X Nat

tp_header == <<Num(37099), Num(37099)>>       \* 0xEB 0x90 twice

CONTROL   == Num(1)
REQUEST   == Num(3)
TRANSPORT == Num(5)
FrameTypes == {CONTROL, REQUEST, TRANSPORT}

CmdTypeSize == 4                              \* TP_FRAME_SIZE_CMD_TYPE
TransportSize == 9 + DataMax                  \* TP_FRAME_SIZE_TRANSPORT_DATA
FrameSize(type) == IF type = TRANSPORT THEN TransportSize ELSE 8

(***************************************************************************)
(* frame_t.  n_file and cmd_id are one union, here "id", two cells with    *)
(* the low half first.  Of the data array only the first data_len cells    *)
(* mean anything, and only in a transport frame: data_len is Len(data).    *)
(***************************************************************************)
Frame ==
  {f \in [addr : Word, frame_type : FrameTypes, id : Word \X Word,
          n_frame : Word, data : Seq(Word)] :
     /\ Len(f.data) <= DataMax
     /\ f.frame_type # TRANSPORT => f.data = <<>>}

(***************************************************************************)
(* frame_without_check_sum2bit_stream.  heap is what malloc returned and   *)
(* nobody wrote, a buffer of arbitrary words: of the payload the           *)
(* serialiser copies data_len cells and skips the rest.                    *)
(***************************************************************************)
Fields(f) ==
  <<tp_header[1], tp_header[2], f.addr, f.frame_type, f.id[1], f.id[2], f.n_frame>>

Content(f, heap) ==
  [i \in 1..(FrameSize(f.frame_type) - 1) |->
     IF i <= 7 THEN Fields(f)[i]
     ELSE IF i = 8 THEN Num(Len(f.data))
     ELSE IF i - 8 <= Len(f.data) THEN f.data[i - 8] ELSE heap[i - 8]]

frame2bit_stream(f, heap) ==
  Append(Content(f, heap), crc16(Content(f, heap)))

(***************************************************************************)
(* bit_stream2frame fills a frame from a buffer of TransportSize cells.    *)
(* For a transport frame it reads data_len and the data first and n_file   *)
(* and n_frame after them: not the order the serialiser wrote them in.     *)
(***************************************************************************)
ParsedDataLen(buf) == buf[5]

LengthFits(buf) ==
  buf[4] = TRANSPORT => ParsedDataLen(buf) \in {Num(n) : n \in 0..DataMax}

\* A variant that reads n_frame before cmd_id.
ParsedNumberFirst(buf) ==
  [addr |-> buf[3], frame_type |-> buf[4],
   id |-> <<buf[6], buf[7]>>, n_frame |-> buf[5], data |-> <<>>]

ParsedFrame(buf) ==
  IF buf[4] = TRANSPORT
  THEN [addr |-> buf[3], frame_type |-> buf[4],
        id |-> <<buf[6 + DataMax], buf[7 + DataMax]>>,
        n_frame |-> buf[8 + DataMax],
        data |-> [k \in 1..ParsedDataLen(buf)[2] |-> buf[5 + k]]]
  ELSE [addr |-> buf[3], frame_type |-> buf[4],
        id |-> <<buf[5], buf[6]>>, n_frame |-> buf[7], data |-> <<>>]

CheckSumAt(buf) == FrameSize(buf[4])

\* A variant that does not compare the check sums.
AcceptsUnchecked(buf, heap) ==
  /\ <<buf[1], buf[2]>> = tp_header
  /\ buf[4] \in FrameTypes
  /\ LengthFits(buf)

(***************************************************************************)
(* The parser returns a frame and not NULL.  It re-serialises the frame it *)
(* parsed, into memory it does not clear ("heap"), and compares the check  *)
(* sums.  A data_len above the array's size is undefined behaviour (a      *)
(* memcpy past the array); it is counted among the failures.               *)
(***************************************************************************)
Accepts(buf, heap) ==
  /\ <<buf[1], buf[2]>> = tp_header
  /\ buf[4] \in FrameTypes
  /\ LengthFits(buf)
  /\ buf[CheckSumAt(buf)] = crc16(Content(ParsedFrame(buf), heap))
=============================================================================
