------------------------------ MODULE Loopback ------------------------------
(***************************************************************************)
(* The loopback transfer of the kernel driver: the ioctl copies a buffer   *)
(* of the PS in bursts to the memory of the PL and back to another buffer  *)
(* (axi_tangxi.c:88-241), and the interrupt handler signals the completion *)
(* it waits for (axitangxi_dev.c:96-162).  The ioctl takes no lock, so     *)
(* several callers run at once, and the handler runs between any two of    *)
(* their steps.                                                            *)
(*                                                                         *)
(* The PL is external: it queues a burst when the last of its four         *)
(* registers is written, carries the bursts out in turn, and after reading *)
(* and again after writing puts the cause in the status register and       *)
(* raises the interrupt.  The status register holds one cause.             *)
(*                                                                         *)
(* Sizes and offsets are in words, Align of them to 16 bytes.  A word of a *)
(* buffer is the number of the call it was filled for and its position.    *)
(*                                                                         *)
(* A call is sound if both its buffers are covered, in the sense of module *)
(* Buffers, by blocks of the list all the time it looks them up, if the    *)
(* user's pointer it prints from is mapped, and if its burst_data is the   *)
(* one of axitangxi_data_init.  An unsound call goes wrong before its      *)
(* first burst: it crashes the kernel or loops for ever.  What a transfer  *)
(* to or from a wrong address destroys is not modelled.                    *)
(***************************************************************************)
EXTENDS Integers, Sequences

CONSTANTS Callers,    \* user threads
          Sizes,      \* tx_data_size
          Rooms,      \* rx_data_size
          Align,      \* ADDR_ALIGN_BASE_16
          BurstData,  \* burst_data of axitangxi_data_init
          Soundness,  \* bound: whether there are sound and unsound calls
          MaxCalls,   \* bound: ioctl calls
          Overlapping \* bound: the sizes of calls that overlap

ASSUME LoopbackAssumption ==
  /\ Align \in Nat \ {0} /\ BurstData \in Nat \ {0} /\ BurstData % Align = 0
  /\ Sizes \subseteq Nat \ {0} /\ Overlapping \subseteq Sizes
  /\ \E n \in Sizes : \A k \in Sizes : k <= n
  /\ Rooms \subseteq Nat /\ Soundness \subseteq BOOLEAN
  /\ MaxCalls \in Nat

None == "none"
ASSUME NoneAssumption == None \notin Callers

Dead == -1      \* a completion whose function has returned, or not yet initialised

VARIABLES
  pc, phase,    \* of each caller: where it is, and in which of the two passes
  size, room,   \* tx_data_size and rx_data_size of its call
  sound,        \* whether its call is sound
  left, next,   \* data_remaining and the offset of tx/rx_data_ps_next
  writes,       \* how many registers of the burst at hand are written
  rc,           \* what its last call returned
  number,       \* the number of its call
  comp,         \* the completion in its stack frame: completes not yet taken, or Dead
  target,       \* axitangxi_irq_data.comp: whose completion it points to
  sleepsOn,     \* the completion the caller waits on
  last,         \* last_s2mm_pl_done and last_s2mm_ps_done, by pass
  regs,         \* the DMA registers
  queue, fifo,  \* the PL: bursts to carry out, words read for the first of them
  cause, edge,  \* pl_irq_task_num, and an interrupt raised and not yet handled
  handler,      \* irq_handler: "idle", or about to "test" the flag of the cause it
                \* has read, to "signal" or to "clear" the status register
  irq,          \* irq_TX: the cause it has read
  signalled,    \* whose completion it signals
  pl, rx,       \* the PL's memory and the receive buffer, for each caller's addresses
  kernel,       \* "up", or "crashed" by a use of a dead completion
  calls,        \* bound: calls made
  crowded, big, late, strayed
                \* history: calls overlapped; a call took several bursts; a call
                \* timed out while the PL or the handler was busy; a call was
                \* not sound

arguments == <<size, room, sound, number>>
caller == <<pc, phase, arguments, left, next, writes, rc, sleepsOn>>
shared == <<comp, target, last, kernel>>
device == <<regs, queue, fifo, cause, edge, pl, rx>>
handling == <<handler, irq, signalled>>
history == <<calls, crowded, big, late, strayed>>
vars == <<caller, shared, device, handling, history>>

RoundUp(n) == IF n % Align = 0 THEN n ELSE n + Align - (n % Align)
Longest == RoundUp(CHOOSE n \in Sizes : \A k \in Sizes : k <= n)
Junk == <<0, 0>>

Addresses == {"mm2s_ps_addr", "s2mm_pl_addr", "mm2s_pl_addr", "s2mm_ps_addr"}
BeatCounts == {"mm2s_ps_size", "s2mm_pl_size", "mm2s_pl_size", "s2mm_ps_size"}

Init ==
  /\ pc = [c \in Callers |-> "user"] /\ phase = [c \in Callers |-> 1]
  /\ size = [c \in Callers |-> 0] /\ room = [c \in Callers |-> 0]
  /\ sound = [c \in Callers |-> TRUE] /\ left = [c \in Callers |-> 0]
  /\ next = [c \in Callers |-> 0] /\ writes = [c \in Callers |-> 0]
  /\ rc = [c \in Callers |-> "none"] /\ number = [c \in Callers |-> 0]
  /\ comp = [c \in Callers |-> Dead] /\ target = None
  /\ sleepsOn = [c \in Callers |-> None]
  /\ last = [k \in 1..2 |-> FALSE]
  /\ regs = [r \in Addresses \cup BeatCounts |->
               IF r \in Addresses THEN <<None, 0>> ELSE 0]
  /\ queue = <<>> /\ fifo = <<>> /\ cause = "none" /\ edge = FALSE
  /\ handler = "idle" /\ irq = "none" /\ signalled = None /\ kernel = "up"
  /\ pl = [c \in Callers |-> [k \in 1..BurstData |-> Junk]]
  /\ rx = [c \in Callers |-> [k \in 1..Longest |-> Junk]]
  /\ calls = 0 /\ crowded = FALSE /\ big = FALSE /\ late = FALSE
  /\ strayed = FALSE

(***************************************************************************)
(* The ioctl.  It looks up the receive buffer, then the transmit buffer,   *)
(* and publishes the address of its completion before this is initialised; *)
(* both passes initialise whatever the global points to.                   *)
(***************************************************************************)
Others(c) == {d \in Callers \ {c} : pc[d] # "user"}

Enter(c, n, m, ok) ==
  /\ kernel = "up" /\ pc[c] = "user" /\ calls < MaxCalls
  /\ \A d \in Others(c) : {n, size[d]} \subseteq Overlapping
  /\ pc' = [pc EXCEPT ![c] = "rx"]
  /\ phase' = [phase EXCEPT ![c] = 1]
  /\ size' = [size EXCEPT ![c] = n]
  /\ room' = [room EXCEPT ![c] = m]
  /\ sound' = [sound EXCEPT ![c] = ok]
  /\ calls' = calls + 1
  /\ number' = [number EXCEPT ![c] = calls + 1]
  /\ rc' = [rc EXCEPT ![c] = "none"]
  /\ crowded' = (crowded \/ Others(c) # {})
  /\ big' = (big \/ n > BurstData)
  /\ strayed' = (strayed \/ ~ok)
  /\ UNCHANGED <<left, next, writes, sleepsOn, shared, device, handling, late>>

LookUpRx(c) ==
  /\ kernel = "up" /\ pc[c] = "rx"
  /\ pc' = [pc EXCEPT ![c] = "tx"]
  /\ UNCHANGED <<phase, arguments, left, next, writes, rc, sleepsOn, shared, device,
                 handling, history>>

LookUpTx(c) ==
  /\ kernel = "up" /\ pc[c] = "tx"
  /\ pc' = [pc EXCEPT ![c] = "init"]
  /\ target' = c
  /\ UNCHANGED <<phase, arguments, left, next, writes, rc, sleepsOn, comp, last, kernel,
                 device, handling, history>>

\* Where an unsound call goes wrong: a look-up goes round a closed list or
\* over entries that are gone, the pointer is not mapped, or the loop's bursts
\* are empty.
Stray(c) ==
  /\ kernel = "up" /\ ~sound[c] /\ pc[c] \in {"rx", "tx", "init", "burst"}
  /\ \/ pc' = [pc EXCEPT ![c] = "spin"] /\ UNCHANGED kernel
     \/ kernel' = "crashed" /\ UNCHANGED pc
  /\ UNCHANGED <<phase, arguments, left, next, writes, rc, sleepsOn, comp, target, last,
                 device, handling, history>>

InitCompletion(c) ==
  /\ kernel = "up" /\ pc[c] = "init"
  /\ pc' = [pc EXCEPT ![c] = "burst"]
  /\ left' = [left EXCEPT ![c] = size[c]]
  /\ next' = [next EXCEPT ![c] = 0]
  /\ writes' = [writes EXCEPT ![c] = 0]
  /\ comp' = [comp EXCEPT ![target] = 0]
  /\ UNCHANGED <<phase, arguments, rc, sleepsOn, target, last, kernel, device,
                 handling, history>>

(***************************************************************************)
(* The loop over the bursts, the same in both passes.  A rest smaller than *)
(* a burst is rounded up.  The flag that tells the handler to signal is    *)
(* set when the last burst is prepared, whatever the earlier ones do.      *)
(***************************************************************************)
\* A variant that forgets the shorter last burst.
WholeBursts(c) == BurstData
BurstLen(c) == IF left[c] < BurstData THEN RoundUp(left[c]) ELSE BurstData

Prepare(c) ==
  /\ kernel = "up" /\ pc[c] = "burst" /\ left[c] > 0 /\ sound[c]
  /\ pc' = [pc EXCEPT ![c] = "write"]
  /\ last' = [last EXCEPT ![phase[c]] = @ \/ left[c] <= BurstLen(c)]
  /\ UNCHANGED <<phase, arguments, left, next, writes, rc, sleepsOn, comp, target,
                 kernel, device, handling, history>>

\* What is written, in order: the address in the PL's memory is the same for
\* every burst.
Writes(c) ==
  LET ps == <<c, next[c]>>
      pl_ == <<c, 0>>
      beats == BurstLen(c) \div Align - 1
  IN IF phase[c] = 1
     THEN << <<"mm2s_ps_addr", ps>>, <<"mm2s_ps_size", beats>>,
             <<"s2mm_pl_addr", pl_>>, <<"s2mm_pl_size", beats>> >>
     ELSE << <<"mm2s_pl_addr", pl_>>, <<"mm2s_pl_size", beats>>,
             <<"s2mm_ps_addr", ps>>, <<"s2mm_ps_size", beats>> >>

Burst(k, r) ==
  IF k = 1
  THEN [pass |-> 1, from |-> r["mm2s_ps_addr"], to |-> r["s2mm_pl_addr"],
        reads |-> (r["mm2s_ps_size"] + 1) * Align, len |-> (r["s2mm_pl_size"] + 1) * Align]
  ELSE [pass |-> 2, from |-> r["mm2s_pl_addr"], to |-> r["s2mm_ps_addr"],
        reads |-> (r["mm2s_pl_size"] + 1) * Align, len |-> (r["s2mm_ps_size"] + 1) * Align]

\* A variant that does not start again at the first register.
NextWriteOn(k) == k + 1
NextWrite(k) == (k + 1) % 4

Writel(c) ==
  /\ kernel = "up" /\ pc[c] = "write"
  /\ LET w == Writes(c)[writes[c] + 1] IN regs' = [regs EXCEPT ![w[1]] = w[2]]
  /\ writes' = [writes EXCEPT ![c] = NextWrite(@)]
  /\ IF writes[c] = 3
     THEN /\ queue' = Append(queue, Burst(phase[c], regs'))
          /\ left' = [left EXCEPT ![c] = IF @ < BurstLen(c) THEN 0 ELSE @ - BurstLen(c)]
          /\ next' = [next EXCEPT ![c] = @ + BurstLen(c)]
          /\ pc' = [pc EXCEPT ![c] = "burst"]
     ELSE UNCHANGED <<queue, left, next, pc>>
  /\ UNCHANGED <<phase, arguments, rc, sleepsOn, shared, fifo, cause, edge, pl, rx,
                 handling, history>>

(***************************************************************************)
(* The wait is for the completion the global points to when it begins.     *)
(***************************************************************************)
Sleep(c) ==
  /\ kernel = "up" /\ pc[c] = "burst" /\ left[c] = 0
  /\ next' = [next EXCEPT ![c] = 0]
  /\ sleepsOn' = [sleepsOn EXCEPT ![c] = target]
  /\ pc' = [pc EXCEPT ![c] = "sleep"]
  /\ kernel' \in IF comp[target] = Dead THEN {"up", "crashed"} ELSE {"up"}
  /\ UNCHANGED <<phase, arguments, left, writes, rc, comp, target, last,
                 device, handling, history>>

Wake(c) ==
  /\ kernel = "up" /\ pc[c] = "sleep" /\ comp[sleepsOn[c]] > 0
  /\ sleepsOn' = [sleepsOn EXCEPT ![c] = None]
  /\ IF phase[c] = 1
     THEN /\ phase' = [phase EXCEPT ![c] = 2]
          /\ pc' = [pc EXCEPT ![c] = "init"]
          /\ comp' = [comp EXCEPT ![sleepsOn[c]] = @ - 1]
          /\ UNCHANGED rc
     ELSE /\ pc' = [pc EXCEPT ![c] = "user"]
          /\ rc' = [rc EXCEPT ![c] = "0"]
          /\ comp' = [[comp EXCEPT ![sleepsOn[c]] = @ - 1] EXCEPT ![c] = Dead]
          /\ UNCHANGED phase
  /\ UNCHANGED <<arguments, left, next, writes, target, last, kernel,
                 device, handling, history>>

\* A variant without the time limit.
TimeOutNever(c) == FALSE

TimeOut(c) ==
  /\ kernel = "up" /\ pc[c] = "sleep" /\ comp[sleepsOn[c]] <= 0
  /\ pc' = [pc EXCEPT ![c] = "user"]
  /\ rc' = [rc EXCEPT ![c] = "ETIME"]
  /\ sleepsOn' = [sleepsOn EXCEPT ![c] = None]
  /\ comp' = [comp EXCEPT ![c] = Dead]
  /\ late' = (late \/ queue # <<>> \/ edge \/ handler # "idle")
  /\ UNCHANGED <<phase, arguments, left, next, writes, target, last,
                 kernel, device, handling, calls, crowded, big, strayed>>

(***************************************************************************)
(* The PL.                                                                 *)
(***************************************************************************)
Raise(what) == cause' = what /\ edge' = TRUE

ReadBurst ==
  /\ kernel = "up" /\ queue # <<>> /\ fifo = <<>>
  /\ LET b == Head(queue) IN
       /\ fifo' = [k \in 1..b.reads |->
                     IF b.pass = 1 THEN <<number[b.from[1]], b.from[2] + k>>
                                   ELSE pl[b.from[1]][k]]
       /\ Raise(IF b.pass = 1 THEN "MM2S_PS_DONE" ELSE "MM2S_PL_DONE")
  /\ UNCHANGED <<caller, shared, regs, queue, pl, rx, handling, history>>

WriteBurst ==
  /\ kernel = "up" /\ fifo # <<>>
  /\ LET b == Head(queue)
         there == b.to[2]
         Stored(old) == [k \in DOMAIN old |->
           IF k - there \in DOMAIN fifo /\ k - there <= b.len
           THEN fifo[k - there] ELSE old[k]]
     IN IF b.pass = 1
        THEN /\ pl' = [pl EXCEPT ![b.to[1]] = Stored(@)]
             /\ Raise("S2MM_PL_DONE") /\ UNCHANGED rx
        ELSE /\ rx' = [rx EXCEPT ![b.to[1]] = Stored(@)]
             /\ Raise("S2MM_PS_DONE") /\ UNCHANGED pl
  /\ queue' = Tail(queue) /\ fifo' = <<>>
  /\ UNCHANGED <<caller, shared, regs, handling, history>>

(***************************************************************************)
(* irq_handler: it reads the cause, tests the flag of that cause, signals, *)
(* and clears the register, a cause that came in between included.  The    *)
(* callers run on between any two of these: a signal to a completion that  *)
(* is gone by then may crash the kernel.                                   *)
(***************************************************************************)
\* Which of the flags the handler tests for a cause; a variant that also does
\* so when the PL has read for the second pass.
FlagOnRead(what) == CASE what = "S2MM_PL_DONE" -> 1
                      [] what \in {"MM2S_PL_DONE", "S2MM_PS_DONE"} -> 2
                      [] OTHER -> 0
Flag(what) == CASE what = "S2MM_PL_DONE" -> 1
                [] what = "S2MM_PS_DONE" -> 2
                [] OTHER -> 0

ReadIrq ==
  /\ kernel = "up" /\ edge /\ handler = "idle"
  /\ edge' = FALSE
  /\ IF Flag(cause) = 0 THEN handler' = "clear" /\ UNCHANGED irq
                        ELSE handler' = "test" /\ irq' = cause
  /\ UNCHANGED <<caller, shared, regs, queue, fifo, cause, pl, rx, signalled, history>>

\* A flag once set stays set, so the pointer is loaded in the same step.
TestLast ==
  /\ kernel = "up" /\ handler = "test"
  /\ IF last[Flag(irq)] THEN handler' = "signal" /\ signalled' = target
                        ELSE handler' = "clear" /\ UNCHANGED signalled
  /\ irq' = "none"
  /\ UNCHANGED <<caller, shared, device, history>>

Complete ==
  /\ kernel = "up" /\ handler = "signal"
  /\ handler' = "clear" /\ signalled' = None
  /\ IF comp[signalled] = Dead
     THEN kernel' \in {"up", "crashed"} /\ UNCHANGED comp
     ELSE comp' = [comp EXCEPT ![signalled] = @ + 1] /\ UNCHANGED kernel
  /\ UNCHANGED <<caller, target, last, device, irq, history>>

ClearIrq ==
  /\ kernel = "up" /\ handler = "clear"
  /\ handler' = "idle" /\ cause' = "none"
  /\ UNCHANGED <<caller, shared, regs, queue, fifo, edge, pl, rx, irq, signalled, history>>

Step(c) ==
  \/ LookUpRx(c) \/ LookUpTx(c) \/ InitCompletion(c)
  \/ Prepare(c) \/ Writel(c) \/ Sleep(c) \/ Wake(c) \/ TimeOut(c)

Next ==
  \/ \E c \in Callers, n \in Sizes, m \in Rooms, ok \in Soundness : Enter(c, n, m, ok)
  \/ \E c \in Callers : Step(c) \/ Stray(c)
  \/ ReadBurst \/ WriteBurst
  \/ ReadIrq \/ TestLast \/ Complete \/ ClearIrq

Spec == Init /\ [][Next]_vars

\* The scheduler lets every caller in the kernel run, and the timer of the
\* wait expires; neither the PL nor its interrupts are relied upon.
FairSpec == Spec /\ \A c \in Callers : WF_vars(Step(c))
-----------------------------------------------------------------------------
TypeOK ==
  /\ \A c \in Callers :
       /\ pc[c] \in {"user", "rx", "tx", "init", "burst", "write", "sleep", "spin"}
       /\ pc[c] \in {"burst", "write", "sleep"} =>
            left[c] \in 0..size[c] /\ next[c] \in 0..RoundUp(size[c])
       /\ comp[c] \in Nat \cup {Dead}
       /\ pc[c] # "write" => writes[c] = 0
  /\ target \in Callers \cup {None} /\ kernel \in {"up", "crashed"}
  /\ handler \in {"idle", "test", "signal", "clear"}
  /\ handler = "signal" => signalled \in Callers

Received(c) == \A k \in 1..size[c] : rx[c][k] = <<number[c], k>>

Quiet == ~crowded /\ ~big /\ ~late /\ ~strayed

(***************************************************************************)
(* As long as every call was sound and took one burst, no two overlapped   *)
(* and none was given up while the PL or the interrupt handler was busy, a *)
(* call that returns 0 has brought back the whole buffer, whichever        *)
(* interrupts were lost and although the flags of earlier calls are never  *)
(* reset (axi_tangxi.c:120,162).                                           *)
(***************************************************************************)
AloneIsDone == Quiet => \A c \in Callers : rc[c] = "0" => Received(c)

(***************************************************************************)
(* Under the same conditions no interrupt signals and no caller waits for  *)
(* a completion whose stack frame is gone (axi_tangxi.c:188,202), however  *)
(* long the handler stays between its reading of the cause and its signal  *)
(* (axitangxi_dev.c:113,123,135).                                          *)
(***************************************************************************)
AloneIsSafe == Quiet => kernel = "up"

(***************************************************************************)
(* The bursts of a call that overlaps no other stay within the caller's    *)
(* own buffer, rounded up to 16 bytes, and the last one of each pass ends  *)
(* where that does, for every size (axi_tangxi.c:107-118,149-160).  So     *)
(* the receive buffer is overrun exactly if it is shorter than the         *)
(* transmit buffer rounded up: its own size is never looked at             *)
(* (axi_tangxi.c:141).                                                     *)
(***************************************************************************)
InOwnBuffer(c) ==
  LET b == queue'[Len(queue')]
      ps == IF b.pass = 1 THEN b.from ELSE b.to
      end == ps[2] + b.len
  IN /\ ps[1] = c /\ b.len = b.reads
     /\ end <= RoundUp(size[c])
     /\ left'[c] = 0 => end = RoundUp(size[c])
     /\ b.pass = 2 /\ left'[c] = 0 => (end > room[c] <=> RoundUp(size[c]) > room[c])

BurstsInBounds ==
  [][\A c \in Callers :
       ~crowded /\ pc[c] = "write" /\ pc'[c] = "burst" => InOwnBuffer(c)]_vars

(***************************************************************************)
(* Every sound ioctl returns, with lost interrupts and any number of       *)
(* callers that take each other's completions, the unsound ones included:  *)
(* the wait has a time limit (axi_tangxi.c:220,233).  Soundness is needed: *)
(* the look-ups of lines 195-199 and the loop of line 107 have none.       *)
(***************************************************************************)
EveryCallEnds ==
  \A c \in Callers :
    pc[c] # "user" /\ sound[c] ~> (pc[c] = "user" \/ kernel = "crashed")

(***************************************************************************)
(* A call that returns 0 has brought the buffer back: the signal of the    *)
(* last S2MM_PS_DONE means the end of the whole transfer                   *)
(* (axitangxi_dev.c:120).                                                  *)
(***************************************************************************)
SuccessMeansDone == \A c \in Callers : rc[c] = "0" => Received(c)
=============================================================================
