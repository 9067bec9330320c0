---------------------------- MODULE MCSerialLink ----------------------------
(***************************************************************************)
(* Small instances of SerialLink: two cells of payload and, for the        *)
(* frames, one of each kind the two programs send.  The end-of-image frame *)
(* is the one master.c sends for the last block of an image whose size is  *)
(* a multiple of the payload: its data_len is 0.  Memory that is not       *)
(* cleared holds a word that is also the code of a type.                   *)
(***************************************************************************)
EXTENDS SerialLink

F(addr, type, file, n, data) ==
  [addr |-> Num(addr), frame_type |-> type, id |-> <<Num(file), Num(0)>>,
   n_frame |-> Num(n), data |-> data]

RequestFrame    == F(1, REQUEST, 0, 0, <<>>)
NextRequest     == F(1, REQUEST, 1, 1, <<>>)
ControlFrame    == F(1, CONTROL, 0, 1, <<>>)
DataFrame       == F(0, TRANSPORT, 0, 0, <<Num(1), Num(0)>>)
ShortDataFrame  == F(0, TRANSPORT, 1, 0, <<Num(1)>>)
EndOfImageFrame == F(0, TRANSPORT, 0, 0, <<>>)

AllFrames   == {RequestFrame, ControlFrame, DataFrame, ShortDataFrame, EndOfImageFrame}
WrongFrames == {NextRequest, EndOfImageFrame}

OldWords    == {Num(1)}
NoiseWords  == {Num(0), Num(1), Num(3)}
=============================================================================
