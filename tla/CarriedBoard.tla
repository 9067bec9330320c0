---------------------------- MODULE CarriedBoard ----------------------------
(***************************************************************************)
(* main.c, the program of the carried board: it requests raw image 0 once, *)
(* then appends the data frames it receives to a file.  What it should do  *)
(* with a request or a control frame is left as a TODO.                    *)
(*                                                                         *)
(* The other end of the line is open: wait_frame returns any frame of      *)
(* Inputs.                                                                 *)
(***************************************************************************)
EXTENDS Integers, FiniteSets, SequencesExt

CONSTANTS Inputs,      \* the frames the other end may send
          NFrames,     \* n_frame wraps at this value (2^16)
          MaxInputs    \* bound: frames received

ASSUME BoardAssumption ==
  /\ NFrames \in Nat \ {0} /\ MaxInputs \in Nat
  /\ \A f \in Inputs : f.id \in Int /\ f.data \in Seq(Nat)

VARIABLES
  pc,        \* "start", "wait" in the loop, or "dead"
  frame,     \* output_frame
  file,      \* file[n]: what the .yuv file of image n holds
  received,  \* history: the frames wait_frame returned
  failed     \* history: sprintf or fwrite went wrong

vars == <<pc, frame, file, received, failed>>

FileNumbers == {f.id : f \in Inputs}

Init ==
  /\ pc = "start"
  /\ frame = [frame_type |-> "request", id |-> 0, n_frame |-> 0]
  /\ file = [n \in FileNumbers |-> <<>>]
  /\ received = <<>> /\ failed = FALSE

\* The first request, whether send_frame succeeds or not.
Start ==
  /\ pc = "start" /\ pc' = "wait"
  /\ UNCHANGED <<frame, file, received, failed>>

\* wait_frame leaves CONTROL and RESEND in the output frame; cmd_id and n_file
\* are the same field.
AfterWait == [frame EXCEPT !.frame_type = "control", !.id = 0]

\* n_frame is a 16-bit counter; the variant is a wider one.
CountFrameWide(f) == [f EXCEPT !.n_frame = @ + 1]
CountFrame(f) == [f EXCEPT !.n_frame = (@ + 1) % NFrames]

Receive(f) ==
  /\ pc = "wait"
  /\ Len(received) < MaxInputs
  /\ received' = Append(received, f)

WaitControl(f) ==
  /\ Receive(f) /\ f.frame_type = "control"
  /\ frame' = CountFrame(AfterWait)
  /\ UNCHANGED <<pc, file, failed>>

WaitRequest(f) ==
  /\ Receive(f) /\ f.frame_type = "request"
  /\ frame' = CountFrame([AfterWait EXCEPT !.frame_type = "transport", !.id = f.id])
  /\ UNCHANGED <<pc, file, failed>>

(***************************************************************************)
(* The number of characters "%d" prints: it takes n_file for signed.       *)
(***************************************************************************)
Tens == {10, 100, 1000, 10000, 100000, 1000000, 10000000, 100000000, 1000000000}
Digits(n) == 1 + Cardinality({t \in Tens : t <= n})
PrintedLength(n) == IF n < 0 THEN 1 + Digits(-n) ELSE Digits(n)

(***************************************************************************)
(* The name of the file must come out as long as the buffer, which allows  *)
(* the number four characters.  If it does not, or if the file does not    *)
(* open, nothing is kept; a failing fwrite keeps k cells.                  *)
(***************************************************************************)
Data(f) == Receive(f) /\ f.frame_type = "transport"

\* A variant that opens the file with "w".
WaitTransportTruncating(f) ==
  /\ Data(f)
  /\ frame' = CountFrame([AfterWait EXCEPT !.frame_type = "transport"])
  /\ IF PrintedLength(f.id) = 4
     THEN /\ file' = [file EXCEPT ![f.id] = f.data]
          /\ UNCHANGED failed
     ELSE UNCHANGED <<file, failed>>
  /\ UNCHANGED pc

WaitTransport(f) ==
  /\ Data(f)
  /\ frame' = CountFrame([AfterWait EXCEPT !.frame_type = "transport"])
  /\ IF PrintedLength(f.id) = 4
     THEN \E k \in 0..Len(f.data) :
            /\ file' = [file EXCEPT ![f.id] = @ \o SubSeq(f.data, 1, k)]
            /\ failed' = (failed \/ k < Len(f.data))
     ELSE UNCHANGED <<file, failed>>
  /\ UNCHANGED pc

\* sprintf writes behind the end of its buffer, the terminator at least, and
\* may kill the program.
NameOverruns(f) ==
  /\ Data(f)
  /\ pc' = "dead" /\ failed' = TRUE
  /\ frame' = [AfterWait EXCEPT !.frame_type = "transport"]
  /\ UNCHANGED file

Next ==
  \/ Start
  \/ \E f \in Inputs : \/ WaitControl(f) \/ WaitRequest(f)
                       \/ WaitTransport(f) \/ NameOverruns(f)

Spec == Init /\ [][Next]_vars
-----------------------------------------------------------------------------
TypeOK ==
  /\ pc \in {"start", "wait", "dead"}
  /\ frame.frame_type \in {"control", "request", "transport"}
  /\ frame.n_frame \in 0..(NFrames - 1)
  /\ DOMAIN file = FileNumbers
  /\ failed \in BOOLEAN

DataReceived(n) ==
  FlattenSeq([k \in DOMAIN received |->
    IF received[k].frame_type = "transport" /\ received[k].id = n
    THEN received[k].data ELSE <<>>])

(***************************************************************************)
(* Unless a write failed, the .yuv file of an image whose number prints in *)
(* four characters is the concatenation of the data frames received for    *)
(* it, whatever came between them; no other file is ever written           *)
(* (main.c:64-85).                                                         *)
(***************************************************************************)
FilesAreTheDataReceived ==
  ~failed => \A n \in FileNumbers :
    file[n] = IF n \in (1000..9999) \cup ((-999)..(-100))
              THEN DataReceived(n) ELSE <<>>
=============================================================================
