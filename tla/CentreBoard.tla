---------------------------- MODULE CentreBoard ----------------------------
(***************************************************************************)
(* master.c, the program that stands for the centre board: it answers a    *)
(* request for an image with the data frames of the image and a request    *)
(* for the compressed image, and appends the data frames it receives to a  *)
(* file.                                                                   *)
(*                                                                         *)
(* The other end of the line is open: wait_frame returns any frame of      *)
(* Inputs, send_frame succeeds or returns -1.  A cell of an image is its   *)
(* position behind img.file; sizes are in cells, as in FrameCodec.         *)
(*                                                                         *)
(* imgs is allocated and never filled: the loop of parse that should fill  *)
(* it starts where the first one ended, behind the last option.  So sizes  *)
(* may be negative, images may share a name, and a use of img.file or of   *)
(* a name may kill the program.  Nor is n_file compared with img_number:   *)
(* what lies behind imgs is anything, and another thing at each use.       *)
(***************************************************************************)
EXTENDS Integers, SequencesExt

CONSTANTS DataMax,     \* TP_FRAME_DATA_LEN_MAX
          Images,      \* img_number: images are numbered from 0
          Sizes,       \* the values of off_t
          Names,       \* what basename may return
          Words,       \* size_t wraps at this value (2^64)
          Lens,        \* data_len wraps at this value (2^16)
          NFrames,     \* n_frame wraps at this value (2^16)
          Inputs,      \* the frames the other end may send
          MaxInputs    \* bound: frames received

ASSUME BoardAssumption ==
  /\ DataMax \in Nat \ {0} /\ Images \in Nat \ {0} /\ NFrames \in Nat \ {0}
  /\ Sizes \subseteq Int
  /\ Words \in Nat /\ Words > 1 /\ \A s \in Sizes : s < Words
  /\ Lens \in Nat /\ Lens >= 2 * DataMax
  /\ \A f \in Inputs : f.id \in Nat /\ f.data \in Seq(Nat)

Files == 0..(Images - 1)

VARIABLES
  size,      \* imgs[n].size
  name,      \* basename(imgs[n].name)
  pc,        \* "wait", "send" (the for loop), "request" or "dead"
  frame,     \* output_frame
  img,       \* img.size, of the copy the answer is sent from
  i, p,      \* the loop's counter, and how far p_file has moved
  code,      \* code[n]: what the file n.bin holds
  written,   \* history: the frames of which send_frame wrote something
  received,  \* history: the frames wait_frame returned
  opened,    \* history: the names of the files opened, and what for
  covered    \* history: the cells written for the request being answered

vars == <<size, name, pc, frame, img, i, p, code, written, received, opened, covered>>

Init ==
  /\ size \in [Files -> Sizes] /\ name \in [Files -> Names]
  /\ pc = "wait" /\ img = 0 /\ i = 0 /\ p = 0
  /\ frame = [frame_type |-> "none", id |-> 0, n_frame |-> 0, data |-> <<>>]
  /\ code = [n \in Names |-> <<>>]
  /\ written = <<>> /\ received = <<>> /\ opened = <<>> /\ covered = <<>>

\* What imgs[n] may hold when it is read.
SizeRead(n) == IF n \in Files THEN {size[n]} ELSE Sizes
NameRead(n) == IF n \in Files THEN {name[n]} ELSE Names

\* n_frame is a 16-bit counter; the variant is a wider one.
NextNumberWide(n) == n + 1
NextNumber(n) == (n + 1) % NFrames

\* wait_frame leaves CONTROL and RESEND in the output frame; cmd_id and n_file
\* are the same field.
AfterWait == [frame EXCEPT !.frame_type = "control", !.id = 0]

(***************************************************************************)
(* wait_frame returned a frame.  A request starts the loop over the image; *)
(* any other frame is dealt with at once, and n_frame is incremented.      *)
(***************************************************************************)
Receive(f) ==
  /\ pc = "wait"
  /\ Len(received) < MaxInputs
  /\ received' = Append(received, f)
  /\ UNCHANGED <<size, name, written>>

WaitRequest(f) ==
  /\ Receive(f) /\ f.frame_type = "request"
  /\ frame' = [AfterWait EXCEPT !.frame_type = "transport", !.id = f.id]
  /\ img' \in SizeRead(f.id)
  /\ pc' = "send" /\ i' = 0 /\ p' = 0 /\ covered' = <<>>
  /\ UNCHANGED <<code, opened>>

\* A variant that writes the whole frame again after a short fwrite.
WaitTransportRetrying(f) ==
  /\ Receive(f) /\ f.frame_type = "transport"
  /\ \E n \in NameRead(f.id) :
       /\ \E k \in 0..Len(f.data) :
            code' = [code EXCEPT ![n] = @ \o SubSeq(f.data, 1, k) \o f.data]
       /\ opened' = Append(opened, [name |-> n, data |-> f.data])
  /\ frame' = [AfterWait EXCEPT !.n_frame = NextNumber(@)]
  /\ UNCHANGED <<pc, img, i, p, covered>>

\* Whatever goes wrong with the file ends the case: k cells reached the file.
WaitTransport(f) ==
  /\ Receive(f) /\ f.frame_type = "transport"
  /\ \E n \in NameRead(f.id) :
       /\ \E k \in 0..Len(f.data) :
            code' = [code EXCEPT ![n] = @ \o SubSeq(f.data, 1, k)]
       /\ opened' = Append(opened, [name |-> n, data |-> f.data])
  /\ frame' = [AfterWait EXCEPT !.n_frame = NextNumber(@)]
  /\ UNCHANGED <<pc, img, i, p, covered>>

WaitControl(f) ==
  /\ Receive(f) /\ f.frame_type = "control"
  /\ frame' = [AfterWait EXCEPT !.n_frame = NextNumber(@)]
  /\ UNCHANGED <<pc, img, i, p, code, opened, covered>>

(***************************************************************************)
(* The loop over the frames of the image, and the request that follows it. *)
(* / and % round towards zero; the number of frames is then taken for a    *)
(* size_t, the rest for a data_len.                                        *)
(***************************************************************************)
Quot(s) == IF s >= 0 THEN s \div DataMax ELSE -((-s) \div DataMax)
Rem(s) == IF s >= 0 THEN s % DataMax ELSE -((-s) % DataMax)

\* A variant that rounds down.
TotalFramesDown(s) == Quot(s) % Words
TotalFrames(s) == (Quot(s) + (IF Rem(s) # 0 THEN 1 ELSE 0)) % Words

DataLen == IF i = TotalFrames(img) - 1 THEN Rem(img) % Lens ELSE DataMax

\* A variant that forgets to move p_file.
ChunkFromStart == [k \in 1..DataLen |-> k]
Chunk == [k \in 1..DataLen |-> p + k]

\* A variant that tries again, under the next number, when send_frame fails.
SendChunkRetrying ==
  /\ pc = "send" /\ i < TotalFrames(img) /\ DataLen <= DataMax
  /\ \/ /\ frame' = [frame EXCEPT !.data = Chunk]
        /\ written' = Append(written, frame')
        /\ covered' = covered \o Chunk
        /\ i' = i + 1 /\ p' = p + Len(Chunk)
     \/ /\ frame' = [frame EXCEPT !.data = Chunk, !.n_frame = NextNumber(@)]
        /\ UNCHANGED <<written, covered, i, p>>
  /\ UNCHANGED <<size, name, pc, img, code, received, opened>>

SendChunk ==
  /\ pc = "send" /\ i < TotalFrames(img) /\ DataLen <= DataMax
  /\ frame' = [frame EXCEPT !.data = Chunk]
  /\ p' = p + Len(Chunk)
  /\ \/ /\ written' = Append(written, frame')
        /\ covered' = covered \o Chunk
        /\ i' = i + 1
        /\ UNCHANGED pc
     \/ /\ pc' = "request"
        /\ UNCHANGED <<written, covered, i>>
  /\ UNCHANGED <<size, name, img, code, received, opened>>

(***************************************************************************)
(* Reading imgs behind its end, what img.file points to or a name may      *)
(* fault.  A negative rest makes the copy longer than output_frame: then   *)
(* it kills the program or leaves it without its stack.  "dead" stands     *)
(* for both.                                                               *)
(***************************************************************************)
ReadFaults(f) ==
  /\ Receive(f) /\ f.frame_type = "request" /\ f.id \notin Files
  /\ pc' = "dead" /\ frame' = AfterWait
  /\ UNCHANGED <<img, i, p, code, opened, covered>>

CopyFaults ==
  /\ pc = "send" /\ i < TotalFrames(img)
  /\ pc' = "dead"
  /\ UNCHANGED <<size, name, frame, img, i, p, code, written, received, opened, covered>>

NameFaults(f) ==
  /\ Receive(f) /\ f.frame_type = "transport"
  /\ pc' = "dead" /\ frame' = AfterWait
  /\ UNCHANGED <<img, i, p, code, opened, covered>>

\* A variant that does not leave the answer when the request is sent.
SendRequestStaying ==
  /\ pc = "request" \/ (pc = "send" /\ i = TotalFrames(img))
  /\ frame' = [frame EXCEPT !.n_frame = NextNumber(@)]
  /\ Len(written) < 2 * MaxInputs
  /\ written' = Append(written, [frame EXCEPT !.frame_type = "request"])
  /\ UNCHANGED <<size, name, pc, img, i, p, code, received, opened, covered>>

SendRequest ==
  /\ pc = "request" \/ (pc = "send" /\ i = TotalFrames(img))
  /\ pc' = "wait"
  /\ LET request == [frame EXCEPT !.frame_type = "request"] IN
       /\ frame' = [request EXCEPT !.n_frame = NextNumber(@)]
       /\ written' \in {Append(written, request), written}
  /\ UNCHANGED <<size, name, img, i, p, code, received, opened, covered>>

Next ==
  \/ \E f \in Inputs : WaitRequest(f) \/ WaitTransport(f)
                      \/ WaitControl(f) \/ ReadFaults(f) \/ NameFaults(f)
  \/ SendChunk \/ CopyFaults \/ SendRequest

Spec == Init /\ [][Next]_vars

FairSpec == Spec /\ WF_vars(SendChunk \/ CopyFaults \/ SendRequest)
-----------------------------------------------------------------------------
FrameSet ==
  [frame_type : {"none", "control", "request", "transport"}, id : Nat,
   n_frame : 0..(NFrames - 1), data : Seq(Nat)]

TypeOK ==
  /\ size \in [Files -> Sizes] /\ name \in [Files -> Names]
  /\ pc \in {"wait", "send", "request", "dead"}
  /\ img \in Sizes \cup {0}
  /\ frame \in FrameSet /\ Len(frame.data) <= DataMax
  /\ pc \in {"send", "request"} => i \in 0..TotalFrames(img)
  /\ p \in Nat
  /\ \A k \in DOMAIN written : written[k] \in FrameSet

(***************************************************************************)
(* The data frames of an answer carry what img.file points to from its     *)
(* start, without a gap or a repeated cell, however often requests come    *)
(* and sends fail, for any image asked for.  They pass the end of the      *)
(* image only if its size is a block or more below zero; a size between    *)
(* that and zero sends nothing (master.c:99-114).                          *)
(***************************************************************************)
AnswerIsPrefix ==
  /\ \A k \in DOMAIN covered : covered[k] = k
  /\ pc \in {"send", "request"} =>
       covered = <<>> \/ Len(covered) <= img \/ img <= -DataMax

(***************************************************************************)
(* An answer no send failed in carries the whole image, if the image ends  *)
(* with a part of a block (master.c:100-109).  Of an image of whole blocks *)
(* nothing is said: its last block is not sent, see the README.            *)
(***************************************************************************)
LoopDone == pc = "send" /\ i = TotalFrames(img)

PartBlockIsSent ==
  LoopDone /\ img >= 0 /\ img % DataMax # 0 => Len(covered) = img

(***************************************************************************)
(* The board asks for a compressed image at most once for each request it  *)
(* received, and only after it has gone through the answer to it           *)
(* (master.c:95-119).                                                      *)
(***************************************************************************)
Count(s, type) == Cardinality({k \in DOMAIN s : s[k].frame_type = type})

RequestsMatch ==
  Count(written, "request") + (IF pc \in {"send", "request"} THEN 1 ELSE 0)
    <= Count(received, "request")

(***************************************************************************)
(* What a .bin file holds are cells of the data frames it was opened for,  *)
(* in the order they were received, whichever writes failed and however    *)
(* many images share its name (master.c:120-140).                          *)
(***************************************************************************)
CodeReceived(n) ==
  FlattenSeq([k \in DOMAIN opened |-> IF opened[k].name = n THEN opened[k].data ELSE <<>>])

IsSubsequence(s, t) ==
  \E h \in [DOMAIN s -> DOMAIN t] :
    /\ \A a \in DOMAIN s : s[a] = t[h[a]]
    /\ \A a, b \in DOMAIN s : a < b => h[a] < h[b]

CodeInOrder == \A n \in Names : IsSubsequence(code[n], CodeReceived(n))

(***************************************************************************)
(* Every answer comes to its end, whatever send_frame returns: the board   *)
(* waits for frames again, or died of an image it never loaded; at sizes   *)
(* below zero that may take as many frames as there are values of size_t   *)
(* (master.c:103-119).                                                     *)
(***************************************************************************)
AnswerEnds == pc = "send" ~> pc \in {"wait", "dead"}
=============================================================================
