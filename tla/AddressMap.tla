----------------------------- MODULE AddressMap -----------------------------
(***************************************************************************)
(* What the driver's list of buffers promises to the look-up of an         *)
(* address, the look-up being one step.  The promise covers a buffer until *)
(* it, or a buffer allocated after it, is freed.                           *)
(***************************************************************************)
EXTENDS Naturals, Sequences

CONSTANTS Threads, Addresses, Pages,
          Answers,   \* what a look-up may return
          None       \* no address

VARIABLES covered,   \* address and page of the buffers covered, the oldest first
          asked,     \* the address a thread looks up while its buffer is covered
          answer     \* what its last look-up returned

vars == <<covered, asked, answer>>

Init ==
  /\ covered = <<>>
  /\ asked = [t \in Threads |-> None]
  /\ answer \in [Threads -> Answers]

IsCovered(a, bufs) == \E k \in DOMAIN bufs : bufs[k].addr = a

Malloc(a, p) ==
  /\ ~IsCovered(a, covered)
  /\ covered' = Append(covered, [addr |-> a, page |-> p])
  /\ UNCHANGED <<asked, answer>>

\* Freeing the k-th takes the older ones from the promise, too.
Free(k) ==
  /\ covered' = SubSeq(covered, k + 1, Len(covered))
  /\ asked' = [t \in Threads |-> IF IsCovered(asked[t], covered') THEN asked[t] ELSE None]
  /\ UNCHANGED answer

Ask(t, a) ==
  /\ asked' = [asked EXCEPT ![t] = IF IsCovered(a, covered) THEN a ELSE None]
  /\ \E x \in Answers : answer' = [answer EXCEPT ![t] = x]
  /\ UNCHANGED covered

Answer(t, x) ==
  /\ \A k \in DOMAIN covered : covered[k].addr = asked[t] => x = covered[k].page
  /\ asked' = [asked EXCEPT ![t] = None]
  /\ answer' = [answer EXCEPT ![t] = x]
  /\ UNCHANGED covered

Next ==
  \/ \E a \in Addresses, p \in Pages : Malloc(a, p)
  \/ \E k \in DOMAIN covered : Free(k)
  \/ \E t \in Threads, a \in Addresses : Ask(t, a)
  \/ \E t \in Threads, x \in Answers : Answer(t, x)

Spec == Init /\ [][Next]_vars
=============================================================================
