--------------------------- MODULE OrderedChannel ---------------------------
(***************************************************************************)
(* What a caller of send_frame and wait_frame may rely on, whatever the    *)
(* line does: frames may be lost, but a frame that is handed up is one     *)
(* that was sent, as it was sent, at most once and in the order of         *)
(* sending.                                                                *)
(***************************************************************************)
EXTENDS Integers, Sequences

CONSTANT Frames

VARIABLES sent,   \* the frames handed to the line so far
          got,    \* the frames handed up so far
          last    \* index in sent of the last frame handed up, 0 if none

vars == <<sent, got, last>>

Init == sent = <<>> /\ got = <<>> /\ last = 0

Send(f) == sent' = Append(sent, f) /\ UNCHANGED <<got, last>>

Deliver(i) ==
  /\ got' = Append(got, sent[i])
  /\ last' = i
  /\ UNCHANGED sent

Next == \/ \E f \in Frames : Send(f)
        \/ \E i \in (last + 1)..Len(sent) : Deliver(i)

Spec == Init /\ [][Next]_vars
=============================================================================
