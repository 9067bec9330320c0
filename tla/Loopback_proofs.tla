-------------------------- MODULE Loopback_proofs --------------------------
(***************************************************************************)
(* For any number of callers and calls, any sizes and any length of burst: *)
(* the bursts of calls that do not overlap stay in their buffers, and      *)
(* sound calls of one burst that neither overlap nor are given up while    *)
(* the PL or the handler is busy are safe and bring their buffers back.    *)
(* Three layers of invariants, each under a weaker promise of what the     *)
(* next one assumes.                                                       *)
(***************************************************************************)
EXTENDS Loopback, TLAPS


Multiple(x) == \E q \in Nat : x = Align * q

-----------------------------------------------------------------------------
\* Multiples of Align, which lengths and offsets of bursts are.
LEMMA AlignPositive == Align \in Nat \ {0} /\ BurstData \in Nat \ {0}
BY LoopbackAssumption

LEMMA Quotient ==
  ASSUME NEW x \in Nat, NEW n \in Nat \ {0}
  PROVE  /\ x \div n \in Nat /\ x % n \in 0..(n - 1)
         /\ x = n * (x \div n) + (x % n)
OBVIOUS

LEMMA Products ==
  ASSUME NEW p \in Nat, NEW q \in Nat
  PROVE  /\ Align * p \in Nat
         /\ Align * (p + 1) = Align * p + Align
         /\ Align * p < Align * q <=> p < q
         /\ Align * p <= Align * q <=> p <= q
         /\ Align * p + Align * q = Align * (p + q)
BY AlignPositive

LEMMA MultiplesAdd ==
  ASSUME NEW x \in Nat, NEW y \in Nat, Multiple(x), Multiple(y)
  PROVE  /\ Multiple(x + y)
         /\ x <= y => Multiple(y - x)
         /\ x < y => x + Align <= y
<1>1. PICK p \in Nat : x = Align * p
  BY DEF Multiple
<1>2. PICK q \in Nat : y = Align * q
  BY DEF Multiple
<1>3. x + y = Align * (p + q) /\ p + q \in Nat
  BY <1>1, <1>2, Products
<1>4. ASSUME x <= y PROVE Multiple(y - x)
  <2>1. p <= q
    BY <1>1, <1>2, <1>4, Products
  <2>2. q - p \in Nat
    BY <2>1
  <2>3. Align * p + Align * (q - p) = Align * (p + (q - p)) /\ Align * (q - p) \in Nat
    BY <2>2, Products
  <2>4. p + (q - p) = q
    OBVIOUS
  <2>5. y - x = Align * (q - p)
    BY <1>1, <1>2, <2>3, <2>4
  <2> QED BY <2>2, <2>5 DEF Multiple
<1>5. ASSUME x < y PROVE x + Align <= y
  <2>1. p < q
    BY <1>1, <1>2, <1>5, Products
  <2>2. p + 1 \in Nat /\ p + 1 <= q
    BY <2>1
  <2>3. Align * (p + 1) <= Align * q
    BY <2>2, Products
  <2> QED BY <1>1, <1>2, <2>3, Products
<1> QED BY <1>3, <1>4, <1>5 DEF Multiple

LEMMA RoundedUp ==
  ASSUME NEW n \in Nat
  PROVE  /\ RoundUp(n) \in Nat /\ Multiple(RoundUp(n))
         /\ n <= RoundUp(n) /\ RoundUp(n) < n + Align
<1> DEFINE q == n \div Align
           r == n % Align
<1>1. q \in Nat /\ r \in 0..(Align - 1) /\ n = Align * q + r
  BY AlignPositive, Quotient
<1>2. RoundUp(n) = IF r = 0 THEN n ELSE n + Align - r
  BY DEF RoundUp
<1> HIDE DEF q, r
<1>3. Align * q \in Nat /\ Align * (q + 1) = Align * q + Align /\ q + 1 \in Nat
  BY <1>1, Products
<1>4. CASE r = 0
  <2>1. RoundUp(n) = Align * q
    BY <1>1, <1>2, <1>3, <1>4
  <2>2. Multiple(RoundUp(n))
    BY <1>1, <2>1 DEF Multiple
  <2> QED BY <1>2, <1>4, <2>2, AlignPositive
<1>5. CASE r # 0
  <2>1. RoundUp(n) = Align * (q + 1)
    BY <1>1, <1>2, <1>3, <1>5, AlignPositive
  <2>2. Multiple(RoundUp(n))
    BY <1>3, <2>1 DEF Multiple
  <2> QED BY <1>1, <1>2, <1>3, <1>5, <2>2, AlignPositive
<1> QED BY <1>4, <1>5

\* RoundUp(n) is the least multiple from n on.
LEMMA RoundedLeast ==
  ASSUME NEW n \in Nat, NEW x \in Nat, Multiple(x), n <= x
  PROVE  RoundUp(n) <= x
<1>1. RoundUp(n) \in Nat /\ Multiple(RoundUp(n)) /\ RoundUp(n) < n + Align
  BY RoundedUp
<1>2. x < RoundUp(n) => x + Align <= RoundUp(n)
  BY <1>1, MultiplesAdd
<1> QED BY <1>1, <1>2, AlignPositive

LEMMA LongestIsLongest ==
  ASSUME NEW n \in Sizes
  PROVE  n \in Nat \ {0} /\ RoundUp(n) <= Longest /\ Longest \in Nat
<1> DEFINE m == CHOOSE j \in Sizes : \A k \in Sizes : k <= j
<1>1. m \in Sizes /\ \A k \in Sizes : k <= m
  BY LoopbackAssumption
<1>2. Longest = RoundUp(m)
  BY DEF Longest
<1> HIDE DEF m
<1>3. n \in Nat \ {0} /\ m \in Nat /\ n <= m
  BY <1>1, LoopbackAssumption
<1>4. RoundUp(m) \in Nat /\ Multiple(RoundUp(m)) /\ m <= RoundUp(m)
  BY <1>3, RoundedUp
<1> QED BY <1>2, <1>3, <1>4, RoundedLeast

LEMMA BurstDataMultiple == Multiple(BurstData)
<1>1. BurstData = Align * (BurstData \div Align) + (BurstData % Align)
      /\ BurstData \div Align \in Nat /\ BurstData % Align = 0
  BY LoopbackAssumption, Quotient
<1>2. BurstData = Align * (BurstData \div Align)
  BY <1>1, Products
<1> QED BY <1>1, <1>2 DEF Multiple

\* The next burst of n words.
Chunk(n) == IF n < BurstData THEN RoundUp(n) ELSE BurstData

LEMMA ChunkFacts ==
  ASSUME NEW n \in Nat \ {0}
  PROVE  /\ Chunk(n) \in Nat \ {0} /\ Multiple(Chunk(n)) /\ Chunk(n) <= BurstData
         /\ n < BurstData => n <= Chunk(n) /\ Chunk(n) = RoundUp(n)
         /\ n >= BurstData => Chunk(n) = BurstData
         /\ Chunk(n) \div Align - 1 \in Nat
         /\ ((Chunk(n) \div Align - 1) + 1) * Align = Chunk(n)
<1>1. /\ Chunk(n) \in Nat \ {0} /\ Multiple(Chunk(n)) /\ Chunk(n) <= BurstData
      /\ n < BurstData => n <= Chunk(n) /\ Chunk(n) = RoundUp(n)
      /\ n >= BurstData => Chunk(n) = BurstData
  BY RoundedUp, RoundedLeast, BurstDataMultiple, AlignPositive DEF Chunk
<1>2. PICK q \in Nat : Chunk(n) = Align * q
  BY <1>1 DEF Multiple
<1>3. Chunk(n) \div Align = q
  <2> DEFINE d == Chunk(n) \div Align
             r == Chunk(n) % Align
  <2>1. d \in Nat /\ r \in 0..(Align - 1) /\ Chunk(n) = Align * d + r
    BY <1>1, AlignPositive, Quotient
  <2> HIDE DEF d, r
  <2>2. Align * d <= Align * q /\ Align * q < Align * d + Align
    BY <1>2, <2>1, Products, AlignPositive
  <2>3. d <= q /\ q < d + 1
    BY <2>1, <2>2, Products
  <2>4. d = q
    BY <2>1, <2>3
  <2> QED BY <2>4 DEF d
<1>4. q > 0
  BY <1>1, <1>2, AlignPositive
<1>5. q * Align = Chunk(n)
  BY <1>2, AlignPositive
<1> QED BY <1>1, <1>3, <1>4, <1>5

\* One turn of the loop over the bursts: the burst ends within the rounded
\* buffer, and what is left begins at a multiple again.
LEMMA OneTurn ==
  ASSUME NEW n \in Nat \ {0}, NEW l \in 1..n, NEW o \in Nat, l + o = n, Multiple(o)
  PROVE  /\ o + Chunk(l) <= RoundUp(n)
         /\ Multiple(o + Chunk(l))
         /\ l >= Chunk(l) => (l - Chunk(l)) + (o + Chunk(l)) = n /\ l - Chunk(l) \in 0..n
         /\ l <= BurstData /\ l >= Chunk(l) => l - Chunk(l) = 0
<1>1. /\ l \in Nat \ {0} /\ Chunk(l) \in Nat \ {0} /\ Multiple(Chunk(l))
      /\ l < BurstData => l <= Chunk(l) /\ Chunk(l) = RoundUp(l)
      /\ l >= BurstData => Chunk(l) = BurstData
  BY ChunkFacts
<1>2. Multiple(o + Chunk(l))
  BY <1>1, MultiplesAdd
<1>3. RoundUp(n) \in Nat /\ Multiple(RoundUp(n)) /\ n <= RoundUp(n)
  BY RoundedUp
<1>4. o + Chunk(l) <= RoundUp(n)
  <2>1. CASE l < BurstData
    <3>1. o <= RoundUp(n) /\ RoundUp(n) - o \in Nat /\ l <= RoundUp(n) - o
      BY <1>3
    <3>2. Multiple(RoundUp(n) - o)
      BY <1>3, <3>1, MultiplesAdd
    <3>3. RoundUp(l) <= RoundUp(n) - o
      BY <1>1, <3>1, <3>2, RoundedLeast
    <3> QED BY <1>1, <1>3, <2>1, <3>3
  <2>2. CASE l >= BurstData
    BY <1>1, <1>3, <2>2
  <2> QED BY <2>1, <2>2, AlignPositive
<1> QED BY <1>1, <1>2, <1>4, AlignPositive

-----------------------------------------------------------------------------
\* The types, and what a caller in the loop over the bursts has left.
Place == (Callers \cup {None}) \X Nat
Bursts == [pass : 1..2, from : Place, to : Place, reads : Nat, len : Nat]

PlacesInCode == {"user", "rx", "tx", "init", "burst", "write", "sleep", "spin"}

Types ==
  /\ pc \in [Callers -> PlacesInCode]
  /\ phase \in [Callers -> 1..2] /\ writes \in [Callers -> 0..3]
  /\ size \in [Callers -> Nat] /\ left \in [Callers -> Nat] /\ next \in [Callers -> Nat]
  /\ number \in [Callers -> Nat] /\ rc \in [Callers -> {"none", "0", "ETIME"}]
  /\ room \in [Callers -> Nat] /\ sound \in [Callers -> BOOLEAN] /\ strayed \in BOOLEAN
  /\ comp \in [Callers -> Nat \cup {Dead}]
  /\ target \in Callers \cup {None} /\ sleepsOn \in [Callers -> Callers \cup {None}]
  /\ last \in [1..2 -> BOOLEAN]
  /\ DOMAIN regs = Addresses \cup BeatCounts
  /\ \A r \in Addresses : regs[r] \in Place
  /\ \A r \in BeatCounts : regs[r] \in Nat
  /\ queue \in Seq(Bursts) /\ edge \in BOOLEAN
  /\ handler \in {"idle", "test", "signal", "clear"} /\ kernel \in {"up", "crashed"}
  /\ calls \in Nat /\ crowded \in BOOLEAN /\ big \in BOOLEAN /\ late \in BOOLEAN

InLoop(c) == pc[c] \in {"burst", "write", "sleep"}

Loop(c) ==
  /\ pc[c] # "user" => size[c] \in Sizes
  /\ pc[c] \notin {"user", "rx", "tx", "spin"} => target # None
  /\ pc[c] # "write" => writes[c] = 0
  /\ InLoop(c) => left[c] <= size[c] /\ next[c] <= RoundUp(size[c])
  /\ InLoop(c) /\ left[c] > 0 => left[c] + next[c] = size[c] /\ Multiple(next[c])
  /\ pc[c] = "write" => left[c] > 0
  /\ pc[c] = "sleep" => left[c] = 0 /\ sleepsOn[c] \in Callers

Basics ==
  /\ Types /\ \A c \in Callers : Loop(c)
  /\ last[1] \/ last[2] => target # None
  /\ ~strayed => \A c \in Callers : sound[c]
  /\ handler = "test" => Flag(irq) \in 1..2
  /\ handler = "signal" => signalled \in Callers
  /\ fifo # <<>> => queue # <<>>

LEMMA BasicsInit == Init => Basics
<1> SUFFICES ASSUME Init PROVE Basics
  OBVIOUS
<1>1. Dead \in Nat \cup {Dead}
  OBVIOUS
<1>2. queue \in Seq(Bursts)
  BY DEF Init
<1>3. /\ DOMAIN regs = Addresses \cup BeatCounts
      /\ \A r \in Addresses : regs[r] \in Place
      /\ \A r \in BeatCounts : regs[r] \in Nat
  <2>1. Addresses \cap BeatCounts = {}
    BY DEF Addresses, BeatCounts
  <2>2. <<None, 0>> \in Place
    BY DEF Place
  <2> QED BY <2>1, <2>2 DEF Init
<1>4. Types
  <2>1. /\ pc \in [Callers -> PlacesInCode]
        /\ phase \in [Callers -> 1..2] /\ writes \in [Callers -> 0..3]
        /\ size \in [Callers -> Nat] /\ left \in [Callers -> Nat] /\ next \in [Callers -> Nat]
        /\ number \in [Callers -> Nat] /\ rc \in [Callers -> {"none", "0", "ETIME"}]
    BY DEF Init, PlacesInCode
  <2>2. /\ comp \in [Callers -> Nat \cup {Dead}]
        /\ target \in Callers \cup {None} /\ sleepsOn \in [Callers -> Callers \cup {None}]
        /\ last \in [1..2 -> BOOLEAN]
    BY <1>1 DEF Init
  <2>3. /\ edge \in BOOLEAN /\ handler \in {"idle", "test", "signal", "clear"}
        /\ kernel \in {"up", "crashed"}
        /\ calls \in Nat /\ crowded \in BOOLEAN /\ big \in BOOLEAN /\ late \in BOOLEAN
        /\ room \in [Callers -> Nat] /\ sound \in [Callers -> BOOLEAN] /\ strayed \in BOOLEAN
    BY DEF Init
  <2> QED BY <1>2, <1>3, <2>1, <2>2, <2>3 DEF Types
<1>5. \A c \in Callers : Loop(c)
  BY DEF Init, Loop, InLoop
<1> QED BY <1>4, <1>5 DEF Basics, Init

\* What a caller writes: the register, and a value of its type.
LEMMA WhatIsWritten ==
  ASSUME Basics, NEW c \in Callers, pc[c] = "write", NEW k \in 0..3,
         NEW w, w = Writes(c)[k + 1]
  PROVE  \/ w[1] \in Addresses /\ w[2] \in Place
         \/ w[1] \in BeatCounts /\ w[2] \in Nat
<1>1. left[c] \in Nat \ {0} /\ next[c] \in Nat
  BY DEF Basics, Types, Loop
<1>2. BurstLen(c) = Chunk(left[c])
  BY DEF BurstLen, Chunk
<1> DEFINE beats == BurstLen(c) \div Align - 1
<1>3. beats \in Nat
  BY <1>1, <1>2, ChunkFacts
<1> HIDE DEF beats
<1>4. <<c, next[c]>> \in Place /\ <<c, 0>> \in Place
  BY <1>1 DEF Place
<1>5. Writes(c) = IF phase[c] = 1
     THEN << <<"mm2s_ps_addr", <<c, next[c]>> >>, <<"mm2s_ps_size", beats>>,
             <<"s2mm_pl_addr", <<c, 0>> >>, <<"s2mm_pl_size", beats>> >>
     ELSE << <<"mm2s_pl_addr", <<c, 0>> >>, <<"mm2s_pl_size", beats>>,
             <<"s2mm_ps_addr", <<c, next[c]>> >>, <<"s2mm_ps_size", beats>> >>
  BY DEF Writes, beats
<1>6. k = 0 \/ k = 1 \/ k = 2 \/ k = 3
  OBVIOUS
<1>7. CASE phase[c] = 1
  BY <1>3, <1>4, <1>5, <1>6, <1>7 DEF Addresses, BeatCounts
<1>8. CASE phase[c] # 1
  BY <1>3, <1>4, <1>5, <1>6, <1>8 DEF Addresses, BeatCounts
<1> QED BY <1>7, <1>8

LEMMA BurstsTyped ==
  ASSUME NEW r, \A a \in Addresses : r[a] \in Place, \A b \in BeatCounts : r[b] \in Nat,
         NEW k \in 1..2
  PROVE  Burst(k, r) \in Bursts
<1>1. Align \in Nat
  BY AlignPositive
<1>2. /\ r["mm2s_ps_addr"] \in Place /\ r["s2mm_pl_addr"] \in Place
      /\ r["mm2s_pl_addr"] \in Place /\ r["s2mm_ps_addr"] \in Place
  BY DEF Addresses
<1>3. /\ r["mm2s_ps_size"] \in Nat /\ r["s2mm_pl_size"] \in Nat
      /\ r["mm2s_pl_size"] \in Nat /\ r["s2mm_ps_size"] \in Nat
  BY DEF BeatCounts
<1>4. /\ (r["mm2s_ps_size"] + 1) * Align \in Nat /\ (r["s2mm_pl_size"] + 1) * Align \in Nat
      /\ (r["mm2s_pl_size"] + 1) * Align \in Nat /\ (r["s2mm_ps_size"] + 1) * Align \in Nat
  BY <1>1, <1>3
<1> QED BY <1>2, <1>4 DEF Burst, Bursts

LEMMA EnterBasics ==
  ASSUME Basics, NEW c \in Callers, NEW n \in Sizes, NEW m \in Rooms, NEW ok \in Soundness,
         Enter(c, n, m, ok)
  PROVE  Basics'
<1>1. n \in Nat /\ m \in Nat /\ ok \in BOOLEAN
  BY LoopbackAssumption
<1>2. Types'
  BY <1>1 DEF Basics, Types, Enter, shared, device, handling, Others, PlacesInCode
<1>3. ASSUME NEW d \in Callers PROVE Loop(d)'
  <2>1. CASE d = c
    BY <1>1, <2>1 DEF Basics, Types, Loop, InLoop, Enter
  <2>2. CASE d # c
    <3>1. /\ pc'[d] = pc[d] /\ size'[d] = size[d] /\ left'[d] = left[d] /\ next'[d] = next[d]
          /\ writes'[d] = writes[d] /\ sleepsOn'[d] = sleepsOn[d] /\ target' = target
      BY <1>1, <2>2 DEF Basics, Types, Enter, shared
    <3> QED BY <3>1 DEF Basics, Loop, InLoop
  <2> QED BY <2>1, <2>2
<1>4. ~strayed' => \A d \in Callers : sound'[d]
  BY <1>1 DEF Basics, Types, Enter
<1> QED BY <1>2, <1>3, <1>4 DEF Basics, Enter, shared, device, handling

LEMMA LookUpBasics ==
  ASSUME Basics, NEW c \in Callers, LookUpRx(c) \/ LookUpTx(c) \/ Stray(c)
  PROVE  Basics'
<1>1. /\ pc[c] # "user" /\ pc[c] # "write" /\ pc[c] # "sleep"
      /\ UNCHANGED <<phase, arguments, left, next, writes, rc, sleepsOn, comp, last,
                     device, handling, history>>
  BY DEF LookUpRx, LookUpTx, Stray, shared
<1>2. /\ kernel' \in {"up", "crashed"}
      /\ \/ pc' = [pc EXCEPT ![c] = "tx"] /\ target' = target
         \/ pc' = [pc EXCEPT ![c] = "init"] /\ target' = c
         \/ pc' = [pc EXCEPT ![c] = "spin"] /\ target' = target
         \/ pc' = pc /\ target' = target
  BY DEF LookUpRx, LookUpTx, Stray, shared, Basics, Types
<1>3. c # None
  BY NoneAssumption
<1>4. Types'
  BY <1>1, <1>2 DEF Basics, Types, device, history, arguments, handling, PlacesInCode
<1>5. ASSUME NEW d \in Callers PROVE Loop(d)'
  <2>1. Loop(d) /\ Loop(c) /\ pc \in [Callers -> PlacesInCode]
    BY DEF Basics, Types
  <2>2. /\ UNCHANGED <<size, left, next, writes, sleepsOn>>
        /\ target # None => target' # None
    BY <1>1, <1>2, <1>3 DEF arguments
  <2>3. CASE d = c
    <3>1. \/ pc'[d] \in {"tx", "spin"}
          \/ pc'[d] = "init" /\ target' # None
          \/ pc'[d] = pc[d] /\ target' = target
      BY <1>2, <1>3, <2>1, <2>3
    <3>2. size[d] \in Sizes /\ writes[d] = 0
      BY <1>1, <2>1, <2>3 DEF Loop
    <3>3. CASE pc'[d] \in {"tx", "spin"}
      BY <2>2, <3>2, <3>3 DEF Loop, InLoop
    <3>4. CASE pc'[d] = "init" /\ target' # None
      BY <2>2, <3>2, <3>4 DEF Loop, InLoop
    <3>5. CASE pc'[d] = pc[d] /\ target' = target
      BY <2>1, <2>2, <2>3, <3>5 DEF Loop, InLoop
    <3> QED BY <3>1, <3>3, <3>4, <3>5
  <2>4. CASE d # c
    <3>1. pc'[d] = pc[d]
      BY <1>2, <2>1, <2>4
    <3> QED BY <2>1, <2>2, <3>1 DEF Loop, InLoop
  <2> QED BY <2>3, <2>4
<1>6. last[1] \/ last[2] => target' # None
  BY <1>2, <1>3 DEF Basics
<1> QED BY <1>1, <1>4, <1>5, <1>6 DEF Basics, device, arguments, handling, history

LEMMA InitCompletionBasics ==
  ASSUME Basics, NEW c \in Callers, InitCompletion(c)
  PROVE  Basics'
<1>1. size[c] \in Sizes /\ size[c] \in Nat /\ target \in Callers
  BY DEF Basics, Types, Loop, InitCompletion
<1>2. RoundUp(size[c]) \in Nat /\ size[c] <= RoundUp(size[c])
  BY <1>1, RoundedUp
<1>3. Multiple(0)
  BY Products DEF Multiple
<1>4. Types'
  BY <1>1 DEF Basics, Types, InitCompletion, device, history, arguments, handling, PlacesInCode
<1>5. ASSUME NEW d \in Callers PROVE Loop(d)'
  <2>1. CASE d = c
    <3>1. /\ pc'[d] = "burst" /\ left'[d] = size[d] /\ next'[d] = 0 /\ writes'[d] = 0
          /\ UNCHANGED <<size, target>>
      BY <2>1 DEF Basics, Types, InitCompletion, arguments
    <3> QED BY <1>1, <1>2, <1>3, <2>1, <3>1, NoneAssumption DEF Loop, InLoop
  <2>2. CASE d # c
    <3>1. /\ UNCHANGED <<pc[d], left[d], next[d], writes[d]>>
          /\ UNCHANGED <<size, target, sleepsOn>>
      BY <2>2 DEF Basics, Types, InitCompletion, arguments
    <3> QED BY <3>1 DEF Basics, Loop, InLoop
  <2> QED BY <2>1, <2>2
<1> QED BY <1>4, <1>5 DEF Basics, InitCompletion, device, arguments, handling, history

LEMMA PrepareBasics ==
  ASSUME Basics, NEW c \in Callers, Prepare(c)
  PROVE  Basics'
<1>1. target # None
  BY DEF Basics, Loop, Prepare
<1>2. Types'
  BY DEF Basics, Types, Prepare, device, history, arguments, handling, PlacesInCode
<1>3. ASSUME NEW d \in Callers PROVE Loop(d)'
  BY DEF Basics, Types, Loop, InLoop, Prepare, arguments
<1> QED BY <1>1, <1>2, <1>3 DEF Basics, Prepare, device, arguments, handling, history

LEMMA WritelBasics ==
  ASSUME Basics, NEW c \in Callers, Writel(c)
  PROVE  Basics'
<1>1. pc[c] = "write" /\ writes[c] \in 0..3 /\ left[c] \in Nat \ {0} /\ next[c] \in Nat
      /\ size[c] \in Nat \ {0} /\ left[c] <= size[c] /\ left[c] + next[c] = size[c]
      /\ Multiple(next[c]) /\ phase[c] \in 1..2
  BY LongestIsLongest DEF Basics, Types, Loop, InLoop, Writel
<1> DEFINE w == Writes(c)[writes[c] + 1]
<1>2. /\ DOMAIN regs' = Addresses \cup BeatCounts
      /\ \A r \in Addresses : regs'[r] \in Place
      /\ \A r \in BeatCounts : regs'[r] \in Nat
  <2>1. \/ w[1] \in Addresses /\ w[2] \in Place
        \/ w[1] \in BeatCounts /\ w[2] \in Nat
    BY <1>1, WhatIsWritten
  <2>2. regs' = [regs EXCEPT ![w[1]] = w[2]]
    BY DEF Writel
  <2>3. Addresses \cap BeatCounts = {}
    BY DEF Addresses, BeatCounts
  <2> HIDE DEF w
  <2> QED BY <2>1, <2>2, <2>3 DEF Basics, Types
<1>3. /\ BurstLen(c) = Chunk(left[c]) /\ Chunk(left[c]) \in Nat \ {0}
      /\ next[c] + Chunk(left[c]) <= RoundUp(size[c])
      /\ Multiple(next[c] + Chunk(left[c]))
      /\ left[c] >= Chunk(left[c]) =>
           /\ (left[c] - Chunk(left[c])) + (next[c] + Chunk(left[c])) = size[c]
           /\ left[c] - Chunk(left[c]) \in 0..size[c]
  BY <1>1, OneTurn, ChunkFacts DEF BurstLen, Chunk
<1>4. /\ writes' = [writes EXCEPT ![c] = NextWrite(writes[c])]
      /\ NextWrite(writes[c]) \in 0..3
      /\ writes[c] = 3 => NextWrite(writes[c]) = 0
  BY <1>1 DEF Writel, NextWrite
<1>5. CASE writes[c] = 3
  <2> DEFINE l == IF left[c] < Chunk(left[c]) THEN 0 ELSE left[c] - Chunk(left[c])
             o == next[c] + Chunk(left[c])
  <2>1. /\ left' = [left EXCEPT ![c] = l] /\ next' = [next EXCEPT ![c] = o]
        /\ pc' = [pc EXCEPT ![c] = "burst"] /\ queue' = Append(queue, Burst(phase[c], regs'))
    BY <1>3, <1>5 DEF Writel
  <2>2. l \in Nat /\ o \in Nat /\ l <= size[c] /\ o <= RoundUp(size[c])
        /\ (l > 0 => l + o = size[c] /\ Multiple(o))
    BY <1>1, <1>3
  <2> HIDE DEF l, o
  <2>3. queue' \in Seq(Bursts)
    <3>1. Burst(phase[c], regs') \in Bursts
      BY <1>1, <1>2, BurstsTyped
    <3>2. queue \in Seq(Bursts)
      BY DEF Basics, Types
    <3> QED BY <2>1, <3>1, <3>2
  <2>4. Types'
    BY <1>2, <1>4, <2>1, <2>2, <2>3 DEF Basics, Types, Writel, shared, history, arguments, handling, PlacesInCode
  <2>5. ASSUME NEW d \in Callers PROVE Loop(d)'
    <3>1. CASE d = c
      BY <1>1, <1>4, <1>5, <2>1, <2>2, <3>1 DEF Basics, Types, Loop, InLoop, Writel, shared, arguments
    <3>2. CASE d # c
      BY <1>4, <2>1, <3>2 DEF Basics, Types, Loop, InLoop, Writel, shared, arguments
    <3> QED BY <3>1, <3>2
  <2>6. queue' # <<>>
    BY <1>1, <1>2, <2>1, BurstsTyped DEF Basics, Types
  <2> QED BY <2>4, <2>5, <2>6 DEF Basics, Writel, shared, arguments, handling, history
<1>6. CASE writes[c] # 3
  <2>1. Types'
    BY <1>2, <1>4, <1>6 DEF Basics, Types, Writel, shared, history, arguments, handling, PlacesInCode
  <2>2. ASSUME NEW d \in Callers PROVE Loop(d)'
    BY <1>1, <1>4, <1>6 DEF Basics, Types, Loop, InLoop, Writel, shared, arguments
  <2> QED BY <2>1, <2>2 DEF Basics, Writel, shared, arguments, handling, history
<1> QED BY <1>5, <1>6

LEMMA SleepBasics ==
  ASSUME Basics, NEW c \in Callers, Sleep(c)
  PROVE  Basics'
<1>1. target \in Callers /\ pc[c] = "burst" /\ left[c] = 0 /\ 0 <= RoundUp(size[c])
  <2>1. target \in Callers /\ pc[c] = "burst" /\ left[c] = 0 /\ size[c] \in Nat
    BY DEF Basics, Types, Loop, Sleep
  <2>2. RoundUp(size[c]) \in Nat
    BY <2>1, RoundedUp
  <2> QED BY <2>1, <2>2
<1>2. Types'
  BY <1>1 DEF Basics, Types, Sleep, device, history, arguments, handling, PlacesInCode
<1>3. ASSUME NEW d \in Callers PROVE Loop(d)'
  <2>1. UNCHANGED <<size, left, writes, target>>
    BY DEF Sleep, arguments
  <2>2. CASE d = c
    <3>1. pc'[d] = "sleep" /\ next'[d] = 0 /\ sleepsOn'[d] = target
      BY <2>2 DEF Basics, Types, Sleep
    <3> QED BY <1>1, <2>1, <2>2, <3>1 DEF Basics, Loop, InLoop
  <2>3. CASE d # c
    <3>1. pc'[d] = pc[d] /\ next'[d] = next[d] /\ sleepsOn'[d] = sleepsOn[d]
      BY <2>3 DEF Basics, Types, Sleep
    <3> QED BY <2>1, <3>1 DEF Basics, Loop, InLoop
  <2> QED BY <2>2, <2>3
<1> QED BY <1>2, <1>3 DEF Basics, Sleep, device, arguments, handling, history

LEMMA WakeBasics ==
  ASSUME Basics, NEW c \in Callers, Wake(c)
  PROVE  Basics'
<1>1. /\ sleepsOn[c] \in Callers /\ comp[sleepsOn[c]] - 1 \in Nat
  <2>1. sleepsOn[c] \in Callers /\ comp[sleepsOn[c]] > 0
    BY DEF Basics, Types, Loop, Wake
  <2>2. comp[sleepsOn[c]] \in Nat \cup {-1}
    BY <2>1 DEF Basics, Types, Dead
  <2> QED BY <2>1, <2>2
<1>2. comp' \in [Callers -> Nat \cup {Dead}]
  <2> DEFINE v == comp[sleepsOn[c]] - 1
  <2>1. comp \in [Callers -> Nat \cup {Dead}] /\ v \in Nat \cup {Dead}
    BY <1>1 DEF Basics, Types
  <2>2. \/ comp' = [comp EXCEPT ![sleepsOn[c]] = v]
        \/ comp' = [[comp EXCEPT ![sleepsOn[c]] = v] EXCEPT ![c] = Dead]
    BY DEF Wake
  <2> HIDE DEF v
  <2>3. [comp EXCEPT ![sleepsOn[c]] = v] \in [Callers -> Nat \cup {Dead}]
    BY <2>1
  <2> QED BY <2>2, <2>3
<1>3. /\ phase' = [phase EXCEPT ![c] = 2] /\ pc' = [pc EXCEPT ![c] = "init"] /\ rc' = rc
      \/ /\ phase' = phase /\ pc' = [pc EXCEPT ![c] = "user"]
         /\ rc' = [rc EXCEPT ![c] = "0"]
  BY DEF Wake
<1>4. Types'
  <2>1. /\ pc' \in [Callers -> PlacesInCode]
        /\ phase' \in [Callers -> 1..2] /\ rc' \in [Callers -> {"none", "0", "ETIME"}]
    <3>1. /\ pc \in [Callers -> PlacesInCode]
          /\ phase \in [Callers -> 1..2] /\ rc \in [Callers -> {"none", "0", "ETIME"}]
      BY DEF Basics, Types
    <3>2. CASE phase' = [phase EXCEPT ![c] = 2] /\ pc' = [pc EXCEPT ![c] = "init"] /\ rc' = rc
      BY <3>1, <3>2 DEF PlacesInCode
    <3>3. CASE phase' = phase /\ pc' = [pc EXCEPT ![c] = "user"]
               /\ rc' = [rc EXCEPT ![c] = "0"]
      BY <3>1, <3>3 DEF PlacesInCode
    <3> QED BY <1>3, <3>2, <3>3
  <2>2. UNCHANGED <<arguments, left, next, writes, target, last, kernel,
                    device, handling, history>>
        /\ sleepsOn' = [sleepsOn EXCEPT ![c] = None]
    BY DEF Wake
  <2> QED BY <1>2, <2>1, <2>2 DEF Basics, Types, device, history, arguments, handling
<1>5. ASSUME NEW d \in Callers PROVE Loop(d)'
  <2>1. /\ pc'[d] = pc[d] \/ pc'[d] \in {"init", "user"}
        /\ pc[d] = "user" => pc'[d] = "user"
        /\ d = c => pc[d] = "sleep" /\ pc'[d] \in {"init", "user"}
    BY <1>3 DEF Basics, Types, Wake
  <2>2. UNCHANGED <<size, left, next, writes, target>>
        /\ (d # c => sleepsOn'[d] = sleepsOn[d])
    BY DEF Wake, arguments, Basics, Types
  <2>3. d = c => writes[d] = 0
    BY DEF Basics, Loop, Wake
  <2>4. d # c => pc'[d] = pc[d]
    BY <1>3 DEF Basics, Types
  <2> QED BY <2>1, <2>2, <2>3, <2>4 DEF Basics, Loop, InLoop
<1> QED BY <1>4, <1>5 DEF Basics, Wake, device, arguments, handling, history

LEMMA TimeOutBasics ==
  ASSUME Basics, NEW c \in Callers, TimeOut(c)
  PROVE  Basics'
<1>1. Types'
  BY DEF Basics, Types, TimeOut, device, arguments, handling, PlacesInCode
<1>2. ASSUME NEW d \in Callers PROVE Loop(d)'
  BY DEF Basics, Types, Loop, InLoop, TimeOut, arguments
<1> QED BY <1>1, <1>2 DEF Basics, TimeOut, device, arguments, handling

Hardware == ReadBurst \/ WriteBurst \/ ReadIrq \/ TestLast \/ Complete \/ ClearIrq

LEMMA DeviceBasics ==
  ASSUME Basics, Hardware \/ UNCHANGED vars
  PROVE  Basics'
<1> DEFINE Handled ==
             /\ handler' \in {"idle", "test", "signal", "clear"}
             /\ handler' = "test" => Flag(irq') \in 1..2
             /\ handler' = "signal" => signalled' \in Callers
<1>1. /\ UNCHANGED <<caller, target, last, regs, history>>
      /\ queue' \in Seq(Bursts) /\ (fifo' # <<>> => queue' # <<>>)
      /\ edge' \in BOOLEAN /\ Handled
      /\ kernel' \in {"up", "crashed"} /\ comp' \in [Callers -> Nat \cup {Dead}]
  <2>1. CASE ReadBurst
    BY <2>1 DEF ReadBurst, Raise, shared, handling, Basics, Types
  <2>2. CASE WriteBurst
    <3>1. queue \in Seq(Bursts) /\ queue # <<>> /\ queue' = Tail(queue)
      BY <2>2 DEF WriteBurst, Basics, Types
    <3>2. Tail(queue) \in Seq(Bursts)
      BY <3>1
    <3>3. edge' = TRUE /\ fifo' = <<>>
      BY <2>2 DEF WriteBurst, Raise
    <3>4. UNCHANGED <<caller, shared, regs, handling, history>>
      BY <2>2 DEF WriteBurst
    <3> QED BY <3>1, <3>2, <3>3, <3>4 DEF shared, handling, Basics, Types
  <2>3. CASE ReadIrq
    <3>1. Flag(cause) # 0 => Flag(cause) \in 1..2
      BY DEF Flag
    <3> QED BY <2>3, <3>1 DEF ReadIrq, shared, Basics, Types
  <2>4. CASE TestLast
    <3>1. last[Flag(irq)] => target \in Callers
      BY <2>4 DEF TestLast, Basics, Types
    <3> QED BY <2>4, <3>1 DEF TestLast, shared, device, Basics, Types
  <2>5. CASE Complete
    <3>1. signalled \in Callers
      BY <2>5 DEF Complete, Basics
    <3>2. comp[signalled] # Dead => comp[signalled] + 1 \in Nat
      <4>1. comp[signalled] \in Nat \cup {Dead}
        BY <3>1 DEF Basics, Types
      <4> QED BY <4>1
    <3>3. comp' \in [Callers -> Nat \cup {Dead}] /\ kernel' \in {"up", "crashed"}
      BY <2>5, <3>1, <3>2 DEF Complete, Basics, Types
    <3> QED BY <2>5, <3>3 DEF Complete, device, Basics, Types
  <2>6. CASE ClearIrq
    BY <2>6 DEF ClearIrq, shared, Basics, Types
  <2>7. CASE UNCHANGED vars
    BY <2>7 DEF vars, shared, device, handling, Basics, Types
  <2> QED BY <2>1, <2>2, <2>3, <2>4, <2>5, <2>6, <2>7 DEF Hardware
<1>2. Types'
  BY <1>1 DEF Basics, Types, caller, arguments, history
<1>3. ASSUME NEW d \in Callers PROVE Loop(d)'
  BY <1>1 DEF Basics, Loop, InLoop, caller, arguments
<1> QED BY <1>1, <1>2, <1>3 DEF Basics, caller, arguments, history

(***************************************************************************)
(* The types, and the arithmetic of the loop: as long as something is      *)
(* left, the bursts so far and the rest make up the buffer, and the next   *)
(* burst begins at a multiple of 16 bytes (axi_tangxi.c:107-133).          *)
(***************************************************************************)
THEOREM BasicsAlways == Spec => []Basics
<1>1. Init => Basics
  BY BasicsInit
<1>2. Basics /\ [Next]_vars => Basics'
  BY EnterBasics, LookUpBasics, InitCompletionBasics, PrepareBasics, WritelBasics,
     SleepBasics, WakeBasics, TimeOutBasics, DeviceBasics DEF Next, Step, Hardware
<1> QED BY <1>1, <1>2, PTL DEF Spec

(***************************************************************************)
(* The types of the driver's variables (axi_tangxi.c:88-241).              *)
(***************************************************************************)
THEOREM TypeCorrect == Spec => []TypeOK
<1>1. Basics => TypeOK
  <2> SUFFICES ASSUME Basics PROVE TypeOK
    OBVIOUS
  <2>1. ASSUME NEW c \in Callers
        PROVE  /\ pc[c] \in {"user", "rx", "tx", "init", "burst", "write", "sleep", "spin"}
               /\ pc[c] \in {"burst", "write", "sleep"} =>
                    left[c] \in 0..size[c] /\ next[c] \in 0..RoundUp(size[c])
               /\ comp[c] \in Nat \cup {Dead}
               /\ pc[c] # "write" => writes[c] = 0
    <3>1. size[c] \in Nat /\ left[c] \in Nat /\ next[c] \in Nat /\ RoundUp(size[c]) \in Nat
      BY RoundedUp DEF Basics, Types
    <3> QED BY <3>1 DEF Basics, Types, Loop, InLoop, PlacesInCode
  <2> QED BY <2>1 DEF Basics, Types, TypeOK
<1> QED BY <1>1, BasicsAlways, PTL

-----------------------------------------------------------------------------
\* Calls that do not overlap: the registers of a burst hold what its caller
\* has written.
WrittenSoFar(c) == \A k \in 1..writes[c] : regs[Writes(c)[k][1]] = Writes(c)[k][2]

Apart ==
  /\ \A c, d \in Callers : pc[c] # "user" /\ pc[d] # "user" => c = d
  /\ \A c \in Callers : pc[c] = "write" => WrittenSoFar(c)

BurstOf(c) ==
  LET ps == <<c, next[c]>>
      pl_ == <<c, 0>>
      n == Chunk(left[c])
  IN [pass |-> phase[c], from |-> IF phase[c] = 1 THEN ps ELSE pl_,
      to |-> IF phase[c] = 1 THEN pl_ ELSE ps, reads |-> n, len |-> n]

\* The register a write goes to, and the four of a burst differ.
LEMMA OneWrite ==
  ASSUME Basics, NEW c \in Callers, Writel(c), WrittenSoFar(c)
  PROVE  /\ writes[c] # 3 => WrittenSoFar(c)'
         /\ writes[c] = 3 => Burst(phase[c], regs') = BurstOf(c)
<1> DEFINE w == Writes(c)
           n == writes[c]
           beats == BurstLen(c) \div Align - 1
<1>1. n \in 0..3 /\ left[c] \in Nat \ {0} /\ phase[c] \in 1..2
  BY DEF Basics, Types, Loop, Writel
<1>2. w = IF phase[c] = 1
     THEN << <<"mm2s_ps_addr", <<c, next[c]>> >>, <<"mm2s_ps_size", beats>>,
             <<"s2mm_pl_addr", <<c, 0>> >>, <<"s2mm_pl_size", beats>> >>
     ELSE << <<"mm2s_pl_addr", <<c, 0>> >>, <<"mm2s_pl_size", beats>>,
             <<"s2mm_ps_addr", <<c, next[c]>> >>, <<"s2mm_ps_size", beats>> >>
  BY DEF Writes
<1>3. (beats + 1) * Align = Chunk(left[c])
  BY <1>1, ChunkFacts DEF BurstLen, Chunk
<1> HIDE DEF beats
<1>4. \A j, k \in 1..4 : j # k => w[j][1] # w[k][1]
  <2> SUFFICES ASSUME NEW j \in 1..4, NEW k \in 1..4, j # k PROVE w[j][1] # w[k][1]
    OBVIOUS
  <2>1. (j = 1 \/ j = 2 \/ j = 3 \/ j = 4) /\ (k = 1 \/ k = 2 \/ k = 3 \/ k = 4)
    OBVIOUS
  <2>2. CASE phase[c] = 1
    BY <1>2, <2>1, <2>2
  <2>3. CASE phase[c] # 1
    BY <1>2, <2>1, <2>3
  <2> QED BY <2>2, <2>3
<1>5. \A k \in 1..4 : w[k][1] \in Addresses \cup BeatCounts
  <2> SUFFICES ASSUME NEW k \in 1..4 PROVE w[k][1] \in Addresses \cup BeatCounts
    OBVIOUS
  <2>1. k = 1 \/ k = 2 \/ k = 3 \/ k = 4
    OBVIOUS
  <2>2. CASE phase[c] = 1
    BY <1>2, <2>1, <2>2 DEF Addresses, BeatCounts
  <2>3. CASE phase[c] # 1
    BY <1>2, <2>1, <2>3 DEF Addresses, BeatCounts
  <2> QED BY <2>2, <2>3
<1>6. regs' = [regs EXCEPT ![w[n + 1][1]] = w[n + 1][2]]
  BY DEF Writel
<1>7. DOMAIN regs = Addresses \cup BeatCounts
  BY DEF Basics, Types
<1>8. \A k \in 1..(n + 1) : regs'[w[k][1]] = w[k][2]
  <2> SUFFICES ASSUME NEW k \in 1..(n + 1) PROVE regs'[w[k][1]] = w[k][2]
    OBVIOUS
  <2>1. k \in 1..4 /\ n + 1 \in 1..4
    BY <1>1
  <2>2. CASE k = n + 1
    BY <1>5, <1>6, <1>7, <2>1, <2>2
  <2>3. CASE k # n + 1
    <3>1. k \in 1..n
      BY <1>1, <2>3
    <3>2. regs[w[k][1]] = w[k][2]
      BY <3>1 DEF WrittenSoFar
    <3>3. w[k][1] # w[n + 1][1]
      BY <1>4, <2>1, <2>3
    <3> QED BY <1>5, <1>6, <1>7, <2>1, <3>2, <3>3
  <2> QED BY <2>2, <2>3
<1>9. ASSUME n # 3 PROVE WrittenSoFar(c)'
  <2>1. writes'[c] = n + 1
    BY <1>1, <1>9 DEF Basics, Types, Writel, NextWrite
  <2>2. UNCHANGED <<phase, next, left>>
    BY <1>9 DEF Writel
  <2>3. Writes(c)' = w
    BY <2>2 DEF Writes, BurstLen
  <2> QED BY <1>8, <2>1, <2>3 DEF WrittenSoFar
<1>10. ASSUME n = 3 PROVE Burst(phase[c], regs') = BurstOf(c)
  <2>1. /\ regs'[w[1][1]] = w[1][2] /\ regs'[w[2][1]] = w[2][2]
        /\ regs'[w[3][1]] = w[3][2] /\ regs'[w[4][1]] = w[4][2]
    BY <1>8, <1>10
  <2>2. CASE phase[c] = 1
    <3>1. /\ regs'["mm2s_ps_addr"] = <<c, next[c]>> /\ regs'["mm2s_ps_size"] = beats
          /\ regs'["s2mm_pl_addr"] = <<c, 0>> /\ regs'["s2mm_pl_size"] = beats
      BY <1>2, <2>1, <2>2
    <3> QED BY <1>3, <2>2, <3>1 DEF Burst, BurstOf
  <2>3. CASE phase[c] = 2
    <3>1. /\ regs'["mm2s_pl_addr"] = <<c, 0>> /\ regs'["mm2s_pl_size"] = beats
          /\ regs'["s2mm_ps_addr"] = <<c, next[c]>> /\ regs'["s2mm_ps_size"] = beats
      BY <1>2, <2>1, <2>3
    <3> QED BY <1>3, <2>3, <3>1 DEF Burst, BurstOf
  <2> QED BY <1>1, <2>2, <2>3
<1> QED BY <1>9, <1>10

\* What keeps the registers of the bursts being written.
LEMMA RegistersKept ==
  ASSUME UNCHANGED regs, NEW c \in Callers, WrittenSoFar(c),
         UNCHANGED <<writes[c], phase[c], next[c], left[c]>>
  PROVE  WrittenSoFar(c)'
<1>1. Writes(c)' = Writes(c)
  BY DEF Writes, BurstLen
<1> QED BY <1>1 DEF WrittenSoFar

LEMMA CrowdedBefore == ASSUME [Next]_vars, ~crowded' PROVE ~crowded
<1>1. ASSUME NEW c \in Callers, Step(c) \/ Stray(c) PROVE ~crowded
  BY <1>1 DEF Step, LookUpRx, LookUpTx, Stray, InitCompletion, Prepare, Writel, Sleep, Wake,
              TimeOut, history
<1>2. ASSUME Hardware \/ UNCHANGED vars PROVE ~crowded
  BY <1>2 DEF Hardware, ReadBurst, WriteBurst, ReadIrq, TestLast, Complete, ClearIrq, vars,
              history
<1> QED BY <1>1, <1>2 DEF Next, Enter, Hardware

LEMMA ApartStep ==
  ASSUME Basics, ~crowded => Apart, [Next]_vars
  PROVE  ~crowded' => Apart'
<1> SUFFICES ASSUME ~crowded' PROVE Apart'
  OBVIOUS
<1>1. ~crowded
  BY CrowdedBefore
<1>2. Apart
  BY <1>1
<1>3. ASSUME NEW c \in Callers, NEW n \in Sizes, NEW m \in Rooms, NEW ok \in Soundness,
             Enter(c, n, m, ok)
      PROVE  Apart'
  <2>1. \A d \in Callers : d # c => pc[d] = "user"
    BY <1>3 DEF Enter, Others
  <2>2. pc' = [pc EXCEPT ![c] = "rx"]
    BY <1>3 DEF Enter
  <2>3. \A d \in Callers : pc'[d] # "user" => d = c /\ pc'[d] = "rx"
    BY <2>1, <2>2 DEF Basics, Types
  <2> QED BY <2>3 DEF Apart
<1>4. ASSUME NEW c \in Callers, Writel(c) PROVE Apart'
  <2>1. pc[c] = "write" /\ WrittenSoFar(c) /\ \A d \in Callers : d # c => pc[d] = "user"
    BY <1>2, <1>4 DEF Apart, Writel
  <2>2. writes[c] # 3 => WrittenSoFar(c)'
    BY <1>4, <2>1, OneWrite
  <2>3. \A d \in Callers : d # c => pc'[d] = "user"
    BY <1>4, <2>1 DEF Basics, Types, Writel
  <2>4. CASE writes[c] = 3
    <3>1. pc'[c] = "burst"
      BY <1>4, <2>4 DEF Writel, Basics, Types
    <3> QED BY <2>3, <3>1 DEF Apart
  <2>5. CASE writes[c] # 3
    BY <2>2, <2>3, <2>5 DEF Apart
  <2> QED BY <2>4, <2>5
<1>5. ASSUME NEW c \in Callers,
             \/ LookUpRx(c) \/ LookUpTx(c) \/ Stray(c) \/ InitCompletion(c)
             \/ Prepare(c) \/ Sleep(c) \/ Wake(c) \/ TimeOut(c)
      PROVE  Apart'
  <2>1. pc[c] \notin {"user", "write"}
    BY <1>5 DEF LookUpRx, LookUpTx, Stray, InitCompletion, Prepare, Sleep, Wake, TimeOut
  <2>2. \A d \in Callers : d # c => pc[d] = "user"
    BY <1>2, <2>1 DEF Apart
  <2>3. \A d \in Callers : d # c => pc'[d] = "user"
    BY <1>5, <2>2 DEF Basics, Types, LookUpRx, LookUpTx, Stray, InitCompletion, Prepare,
                      Sleep, Wake, TimeOut
  <2>4. pc'[c] = "write" => writes'[c] = 0
    BY <1>5, <2>1 DEF Basics, Types, Loop, LookUpRx, LookUpTx, Stray, InitCompletion, Prepare,
                      Sleep, Wake, TimeOut
  <2>5. pc'[c] = "write" => WrittenSoFar(c)'
    BY <2>4 DEF WrittenSoFar
  <2> QED BY <2>3, <2>5 DEF Apart
<1>6. ASSUME Hardware \/ UNCHANGED vars PROVE Apart'
  <2>1. UNCHANGED <<caller, regs>>
    BY <1>6 DEF Hardware, ReadBurst, WriteBurst, ReadIrq, TestLast, Complete, ClearIrq, vars,
                device
  <2>2. \A c \in Callers : WrittenSoFar(c) => WrittenSoFar(c)'
    BY <2>1, RegistersKept DEF caller
  <2> QED BY <1>2, <2>1, <2>2 DEF Apart, caller
<1> QED BY <1>3, <1>4, <1>5, <1>6 DEF Next, Step, Hardware

(***************************************************************************)
(* The inductive invariant of calls that do not overlap: each burst is     *)
(* carried out with the four registers its own caller wrote                *)
(* (axi_tangxi.c:122-133,150-161).                                         *)
(***************************************************************************)
THEOREM ApartAlways == Spec => [](~crowded => Apart)
<1>1. Init => Apart
  BY DEF Init, Apart
<1>2. Basics /\ (~crowded => Apart) /\ [Next]_vars => (~crowded => Apart)'
  BY ApartStep
<1> QED BY <1>1, <1>2, BasicsAlways, PTL DEF Spec

\* The burst a caller queues is the one BurstOf describes.
LEMMA QueuedInOwnBuffer ==
  ASSUME Basics, Apart, NEW c \in Callers, Writel(c), pc'[c] = "burst"
  PROVE  InOwnBuffer(c)
<1>1. pc[c] = "write" /\ WrittenSoFar(c)
  BY DEF Writel, Apart
<1>2. writes[c] = 3
  BY <1>1 DEF Writel, Basics, Types
<1>3. /\ left[c] \in Nat \ {0} /\ next[c] \in Nat /\ size[c] \in Nat \ {0} /\ room[c] \in Nat
      /\ left[c] <= size[c] /\ left[c] + next[c] = size[c] /\ Multiple(next[c])
      /\ phase[c] \in 1..2
  BY <1>1, LongestIsLongest DEF Basics, Types, Loop, InLoop
<1>11. left[c] \in 1..size[c]
  BY <1>3
<1> DEFINE n == Chunk(left[c])
           up == RoundUp(size[c])
           b == BurstOf(c)
           ps == IF b.pass = 1 THEN b.from ELSE b.to
           end == ps[2] + b.len
<1>4. /\ n \in Nat \ {0} /\ next[c] + n <= up /\ up \in Nat
      /\ left[c] < BurstData => left[c] <= n
      /\ left[c] >= BurstData => n = BurstData
      /\ Multiple(next[c] + n) /\ up < size[c] + Align
  <2>1. n \in Nat \ {0} /\ (left[c] < BurstData => left[c] <= n)
        /\ (left[c] >= BurstData => n = BurstData)
    BY <1>3, ChunkFacts
  <2>2. next[c] + n <= up /\ Multiple(next[c] + n)
    BY <1>3, <1>11, OneTurn
  <2>3. up \in Nat /\ up < size[c] + Align
    BY <1>3, RoundedUp
  <2> QED BY <2>1, <2>2, <2>3
<1>5. queue'[Len(queue')] = b
  <2>1. queue \in Seq(Bursts) /\ queue' = Append(queue, b)
    BY <1>1, <1>2, OneWrite DEF Writel, Basics, Types
  <2> HIDE DEF b
  <2> QED BY <2>1
<1>6. ps = <<c, next[c]>> /\ b.len = n /\ b.reads = n /\ b.pass = phase[c]
  BY <1>3 DEF BurstOf
<1>7. left'[c] = IF left[c] < n THEN 0 ELSE left[c] - n
  BY <1>2 DEF Writel, BurstLen, Chunk, Basics, Types
<1> HIDE DEF b, n, up
<1>8. end = next[c] + n
  BY <1>6
<1>9. left'[c] = 0 => end = up
  <2>1. left'[c] = 0 => size[c] <= next[c] + n
    BY <1>3, <1>4, <1>7
  <2>2. left'[c] = 0 => up <= next[c] + n
    BY <1>3, <1>4, <2>1, RoundedLeast DEF up
  <2> QED BY <1>3, <1>4, <1>8, <2>2
<1>10. end <= up /\ ps[1] = c /\ b.len = b.reads
  BY <1>4, <1>6, <1>8
<1> QED BY <1>5, <1>9, <1>10 DEF InOwnBuffer, up

(***************************************************************************)
(* The bursts of a call that overlaps no other stay within its own buffer  *)
(* rounded up to 16 bytes and end where that does, for every size of       *)
(* buffer and burst, so that a receive buffer shorter than that, and only  *)
(* such a one, is overrun (axi_tangxi.c:107-118,141-160).                  *)
(***************************************************************************)
THEOREM BurstsStayInBounds == Spec => BurstsInBounds
<1> DEFINE Queues == \A c \in Callers :
             ~crowded /\ pc[c] = "write" /\ pc'[c] = "burst" => InOwnBuffer(c)
<1>1. Basics /\ (~crowded => Apart) /\ [Next]_vars => [Queues]_vars
  <2> SUFFICES ASSUME Basics, Apart, Next, ~crowded,
                      NEW c \in Callers, pc[c] = "write", pc'[c] = "burst"
               PROVE  InOwnBuffer(c)
    OBVIOUS
  <2>1. ASSUME NEW d \in Callers, NEW n \in Sizes, NEW m \in Rooms, NEW ok \in Soundness,
               Enter(d, n, m, ok)
        PROVE  FALSE
    BY <2>1 DEF Enter, Basics, Types
  <2>2. ASSUME NEW d \in Callers, Step(d) \/ Stray(d) PROVE Writel(c)
    <3>1. d = c
      BY <2>2 DEF Apart, Step, LookUpRx, LookUpTx, Stray, InitCompletion, Prepare, Writel,
                  Sleep, Wake, TimeOut
    <3> QED BY <2>2, <3>1 DEF Step, LookUpRx, LookUpTx, Stray, InitCompletion, Prepare, Sleep,
                              Wake, TimeOut
  <2>3. ASSUME Hardware PROVE FALSE
    BY <2>3 DEF Hardware, ReadBurst, WriteBurst, ReadIrq, TestLast, Complete, ClearIrq, caller
  <2>4. Writel(c)
    BY <2>1, <2>2, <2>3 DEF Next, Hardware
  <2> QED BY <2>4, QueuedInOwnBuffer
<1> QED BY <1>1, BasicsAlways, ApartAlways, PTL DEF Spec, BurstsInBounds

-----------------------------------------------------------------------------
\* Sound calls of one burst that do not overlap and do not time out while the
\* PL or the handler works for them: at most one burst is queued, that of the
\* caller that waits for it, and an interrupt is pending, or a signal on its
\* way, only while its completion is open.
Issued(c) == pc[c] = "sleep" \/ (pc[c] = "burst" /\ left[c] = 0)
WholeBurst(c) ==
  [pass |-> phase[c], from |-> <<c, 0>>, to |-> <<c, 0>>,
   reads |-> Chunk(size[c]), len |-> Chunk(size[c])]

AloneCaller(c) ==
  /\ pc[c] # "user" => size[c] <= BurstData
  /\ pc[c] \notin {"user", "rx", "tx"} => target = c
  /\ pc[c] = "sleep" => sleepsOn[c] = c
  /\ InLoop(c) /\ ~Issued(c) => left[c] = size[c] /\ next[c] = 0 /\ comp[c] = 0
  /\ Issued(c) => comp[c] # Dead

Signalling == handler \in {"test", "signal"}

Alone ==
  /\ kernel = "up"
  /\ \A c \in Callers : AloneCaller(c)
  /\ queue # <<>> =>
       \E c \in Callers : Issued(c) /\ comp[c] = 0 /\ queue = <<WholeBurst(c)>>
  /\ edge => \E c \in Callers : Issued(c) /\ comp[c] = 0
  /\ edge /\ cause \in {"S2MM_PL_DONE", "S2MM_PS_DONE"} => queue = <<>>
  /\ Signalling =>
       /\ queue = <<>> /\ ~edge
       /\ \E c \in Callers :
            Issued(c) /\ comp[c] = 0 /\ (handler = "signal" => signalled = c)

LEMMA QuietBefore == ASSUME Basics, [Next]_vars, Quiet' PROVE Quiet
<1> DEFINE Grows == /\ crowded => crowded'
                    /\ big => big'
                    /\ late => late'
                    /\ strayed => strayed'
<1>1. ASSUME NEW c \in Callers, NEW n \in Sizes, NEW m \in Rooms, NEW ok \in Soundness,
             Enter(c, n, m, ok)
      PROVE  Grows
  BY <1>1 DEF Enter
<1>2. ASSUME NEW c \in Callers, TimeOut(c) PROVE Grows
  BY <1>2 DEF TimeOut
<1>3. ASSUME NEW c \in Callers, Step(c) \/ Stray(c) PROVE Grows
  BY <1>2, <1>3 DEF Step, LookUpRx, LookUpTx, Stray, InitCompletion, Prepare, Writel, Sleep,
                    Wake, history
<1>4. ASSUME Hardware \/ UNCHANGED vars PROVE Grows
  <2>1. UNCHANGED history
    BY <1>4 DEF Hardware, ReadBurst, WriteBurst, ReadIrq, TestLast, Complete, ClearIrq, vars
  <2> QED BY <2>1 DEF history
<1> HIDE DEF Grows
<1>5. Grows
  BY <1>1, <1>3, <1>4 DEF Next, Hardware
<1> USE DEF Grows
<1> QED BY <1>5 DEF Quiet

LEMMA QuietIsApart ==
  ASSUME ~crowded => Apart, Quiet, NEW c \in Callers, pc[c] # "user"
  PROVE  Apart /\ \A d \in Callers : d # c => pc[d] = "user"
BY DEF Quiet, Apart

LEMMA IssuedActive == ASSUME NEW c \in Callers, Issued(c) PROVE pc[c] # "user" /\ InLoop(c)
BY DEF Issued, InLoop

\* While the only caller has issued nothing, or has been signalled, the PL
\* rests and no interrupt is pending.
LEMMA Rest ==
  ASSUME ~crowded => Apart, Quiet, Alone, NEW c \in Callers, pc[c] # "user",
         ~Issued(c) \/ comp[c] # 0
  PROVE  queue = <<>> /\ ~edge /\ ~Signalling
<1>1. \A d \in Callers : d # c => ~Issued(d)
  BY QuietIsApart, IssuedActive
<1> QED BY <1>1 DEF Alone

LEMMA EnterAlone ==
  ASSUME Basics, Quiet, Alone, Quiet', NEW c \in Callers, NEW n \in Sizes,
         NEW m \in Rooms, NEW ok \in Soundness, Enter(c, n, m, ok)
  PROVE  Alone'
<1>1. \A d \in Callers : pc[d] = "user"
  BY DEF Enter, Others, Quiet
<1>2. queue = <<>> /\ ~edge /\ ~Signalling
  BY <1>1, IssuedActive DEF Alone
<1>3. n <= BurstData
  <2>1. big' = (big \/ n > BurstData) /\ ~big'
    BY DEF Enter, Quiet
  <2>2. ~(n > BurstData) /\ n \in Nat /\ BurstData \in Nat
    BY <2>1, LoopbackAssumption
  <2> QED BY <2>2
<1>4. /\ pc' = [pc EXCEPT ![c] = "rx"] /\ size' = [size EXCEPT ![c] = n]
      /\ UNCHANGED <<queue, edge, kernel, handler>>
  BY DEF Enter, shared, device, handling
<1>5. ASSUME NEW d \in Callers PROVE AloneCaller(d)'
  <2>1. pc'[d] = IF d = c THEN "rx" ELSE "user"
    BY <1>1, <1>4 DEF Basics, Types
  <2>2. d = c => size'[d] <= BurstData
    BY <1>3, <1>4 DEF Basics, Types
  <2> QED BY <2>1, <2>2 DEF AloneCaller, InLoop, Issued
<1> QED BY <1>2, <1>4, <1>5 DEF Alone, Signalling

\* Quiet calls do not stray.
LEMMA LookUpAlone ==
  ASSUME Basics, ~crowded => Apart, Quiet, Alone, NEW c \in Callers,
         LookUpRx(c) \/ LookUpTx(c) \/ Stray(c)
  PROVE  Alone'
<1>1. ~Stray(c)
  BY DEF Stray, Quiet, Basics
<1>2. pc[c] \in {"rx", "tx"} /\ ~Issued(c)
  BY <1>1 DEF LookUpRx, LookUpTx, Issued
<1>3. queue = <<>> /\ ~edge /\ ~Signalling /\ \A d \in Callers : d # c => pc[d] = "user"
  BY <1>2, Rest, QuietIsApart
<1>4. /\ pc' = [pc EXCEPT ![c] = "tx"] \/ (pc' = [pc EXCEPT ![c] = "init"] /\ target' = c)
      /\ UNCHANGED <<size, queue, edge, kernel, handler>>
  BY <1>1 DEF LookUpRx, LookUpTx, shared, device, handling, arguments
<1>5. ASSUME NEW d \in Callers PROVE AloneCaller(d)'
  <2>1. CASE d = c
    BY <1>2, <1>4, <2>1 DEF Basics, Types, Alone, AloneCaller, InLoop, Issued
  <2>2. CASE d # c
    <3>1. pc'[d] = "user"
      BY <1>3, <1>4, <2>2 DEF Basics, Types
    <3> QED BY <3>1 DEF AloneCaller, InLoop, Issued
  <2> QED BY <2>1, <2>2
<1> QED BY <1>3, <1>4, <1>5 DEF Alone, Signalling

LEMMA InitCompletionAlone ==
  ASSUME Basics, ~crowded => Apart, Quiet, Alone, NEW c \in Callers, InitCompletion(c)
  PROVE  Alone'
<1>1. pc[c] = "init" /\ ~Issued(c) /\ target = c
  BY DEF InitCompletion, Issued, Alone, AloneCaller
<1>2. queue = <<>> /\ ~edge /\ ~Signalling /\ \A d \in Callers : d # c => pc[d] = "user"
  BY <1>1, Rest, QuietIsApart
<1>3. /\ pc' = [pc EXCEPT ![c] = "burst"] /\ left' = [left EXCEPT ![c] = size[c]]
      /\ next' = [next EXCEPT ![c] = 0] /\ comp' = [comp EXCEPT ![c] = 0]
      /\ UNCHANGED <<size, target, sleepsOn, queue, edge, kernel, handler>>
  BY <1>1 DEF InitCompletion, device, arguments, handling
<1>4. size[c] \in Nat \ {0}
  BY <1>1, LongestIsLongest DEF Basics, Loop
<1>5. ASSUME NEW d \in Callers PROVE AloneCaller(d)'
  <2>1. CASE d = c
    <3>1. /\ pc'[d] = "burst" /\ left'[d] = size[d] /\ next'[d] = 0 /\ comp'[d] = 0
      BY <1>3, <2>1 DEF Basics, Types
    <3> QED BY <1>1, <1>3, <1>4, <2>1, <3>1 DEF Alone, AloneCaller, Issued, InLoop
  <2>2. CASE d # c
    <3>1. pc'[d] = "user"
      BY <1>2, <1>3, <2>2 DEF Basics, Types
    <3> QED BY <3>1 DEF AloneCaller, Issued, InLoop
  <2> QED BY <2>1, <2>2
<1> QED BY <1>2, <1>3, <1>5 DEF Alone, Signalling

LEMMA PrepareAlone ==
  ASSUME Basics, ~crowded => Apart, Quiet, Alone, NEW c \in Callers, Prepare(c)
  PROVE  Alone'
<1>1. pc[c] = "burst" /\ left[c] > 0 /\ ~Issued(c)
  BY DEF Prepare, Issued
<1>2. queue = <<>> /\ ~edge /\ ~Signalling /\ \A d \in Callers : d # c => pc[d] = "user"
  BY <1>1, Rest, QuietIsApart
<1>3. /\ pc' = [pc EXCEPT ![c] = "write"]
      /\ UNCHANGED <<size, left, next, target, comp, sleepsOn, queue, edge, kernel, handler>>
  BY DEF Prepare, device, arguments, handling
<1>4. ASSUME NEW d \in Callers PROVE AloneCaller(d)'
  <2>1. pc'[d] = IF d = c THEN "write" ELSE "user"
    BY <1>2, <1>3 DEF Basics, Types
  <2> QED BY <1>1, <1>3, <2>1 DEF Alone, AloneCaller, Issued, InLoop
<1> QED BY <1>2, <1>3, <1>4 DEF Alone, Signalling

LEMMA WritelAlone ==
  ASSUME Basics, ~crowded => Apart, Quiet, Alone, NEW c \in Callers, Writel(c)
  PROVE  Alone'
<1>1. pc[c] = "write" /\ ~Issued(c) /\ InLoop(c)
  BY DEF Writel, Issued, InLoop
<1>2. queue = <<>> /\ ~edge /\ ~Signalling /\ Apart /\ \A d \in Callers : d # c => pc[d] = "user"
  BY <1>1, Rest, QuietIsApart
<1>3. /\ target = c /\ size[c] <= BurstData /\ left[c] = size[c] /\ next[c] = 0 /\ comp[c] = 0
      /\ size[c] \in Nat \ {0}
  BY <1>1, LongestIsLongest DEF Alone, AloneCaller, Basics, Loop
<1>4. UNCHANGED <<size, target, comp, sleepsOn, edge, kernel, phase, handler>>
  BY DEF Writel, shared, arguments, handling
<1>5. ASSUME NEW d \in Callers, d # c PROVE AloneCaller(d)'
  <2>1. pc'[d] = "user"
    BY <1>2, <1>5 DEF Writel, Basics, Types
  <2> QED BY <2>1 DEF AloneCaller, Issued, InLoop
<1>6. CASE writes[c] = 3
  <2>1. Burst(phase[c], regs') = BurstOf(c)
    BY <1>1, <1>2, <1>6, OneWrite DEF Apart
  <2>2. BurstOf(c) = WholeBurst(c)
    BY <1>3 DEF BurstOf, WholeBurst
  <2>3. queue' = <<WholeBurst(c)>>
    BY <1>2, <1>6, <2>1, <2>2 DEF Writel
  <2>4. /\ Chunk(left[c]) \in Nat /\ left[c] <= Chunk(left[c]) /\ left[c] \in Nat
        /\ (left[c] >= BurstData => Chunk(left[c]) = left[c])
    BY <1>3, ChunkFacts, AlignPositive
  <2>5. pc'[c] = "burst" /\ left'[c] = 0
    BY <1>6, <2>4 DEF Writel, BurstLen, Chunk, Basics, Types
  <2>6. AloneCaller(c)' /\ Issued(c)'
    BY <1>3, <1>4, <2>5 DEF AloneCaller, Issued, InLoop, Dead
  <2>7. WholeBurst(c)' = WholeBurst(c)
    BY <1>4 DEF WholeBurst
  <2> QED BY <1>2, <1>3, <1>4, <1>5, <2>3, <2>6, <2>7 DEF Alone, Signalling
<1>7. CASE writes[c] # 3
  <2>1. UNCHANGED <<pc, left, next, queue>>
    BY <1>7 DEF Writel
  <2>2. AloneCaller(c)'
    BY <1>4, <2>1 DEF Alone, AloneCaller, Issued, InLoop
  <2> QED BY <1>2, <1>4, <1>5, <2>1, <2>2 DEF Alone, Signalling
<1> QED BY <1>6, <1>7

LEMMA SleepAlone ==
  ASSUME Basics, ~crowded => Apart, Quiet, Alone, NEW c \in Callers, Sleep(c)
  PROVE  Alone'
<1>1. pc[c] = "burst" /\ left[c] = 0 /\ Issued(c)
  BY DEF Sleep, Issued
<1>2. target = c /\ comp[c] # Dead /\ size[c] <= BurstData
  BY <1>1 DEF Alone, AloneCaller
<1>3. /\ pc' = [pc EXCEPT ![c] = "sleep"] /\ sleepsOn' = [sleepsOn EXCEPT ![c] = c]
      /\ kernel' = "up"
      /\ UNCHANGED <<size, left, phase, target, comp, queue, edge, cause, handler, signalled>>
  BY <1>2 DEF Sleep, device, arguments, handling
<1>4. \A d \in Callers : d # c => pc[d] = "user"
  BY <1>1, QuietIsApart
<1>5. ASSUME NEW d \in Callers PROVE AloneCaller(d)'
  <2>1. CASE d = c
    <3>1. pc'[d] = "sleep" /\ sleepsOn'[d] = d
      BY <1>3, <2>1 DEF Basics, Types
    <3> QED BY <1>2, <1>3, <2>1, <3>1 DEF AloneCaller, Issued, InLoop
  <2>2. CASE d # c
    <3>1. pc'[d] = "user"
      BY <1>3, <1>4, <2>2 DEF Basics, Types
    <3> QED BY <3>1 DEF AloneCaller, Issued, InLoop
  <2> QED BY <2>1, <2>2
<1>6. ASSUME NEW d \in Callers, Issued(d) PROVE Issued(d)' /\ WholeBurst(d)' = WholeBurst(d)
  <2>1. d = c
    BY <1>4, <1>6, IssuedActive
  <2>2. pc'[d] = "sleep"
    BY <1>3, <2>1 DEF Basics, Types
  <2> QED BY <1>3, <2>2 DEF Issued, WholeBurst
<1>7. queue' # <<>> =>
       \E d \in Callers : Issued(d)' /\ comp'[d] = 0 /\ queue' = <<WholeBurst(d)'>>
  BY <1>3, <1>6 DEF Alone
<1>8. edge' => \E d \in Callers : Issued(d)' /\ comp'[d] = 0
  BY <1>3, <1>6 DEF Alone
<1>9. Signalling' =>
       \E d \in Callers : Issued(d)' /\ comp'[d] = 0 /\ (handler' = "signal" => signalled' = d)
  BY <1>3, <1>6 DEF Alone, Signalling
<1> QED BY <1>3, <1>5, <1>7, <1>8, <1>9 DEF Alone, Signalling

LEMMA WakeAlone ==
  ASSUME Basics, ~crowded => Apart, Quiet, Alone, NEW c \in Callers, Wake(c)
  PROVE  Alone'
<1>1. pc[c] = "sleep" /\ Issued(c) /\ sleepsOn[c] = c /\ comp[c] > 0
  BY DEF Wake, Issued, Alone, AloneCaller
<1>2. queue = <<>> /\ ~edge /\ ~Signalling /\ \A d \in Callers : d # c => pc[d] = "user"
  BY <1>1, Rest, QuietIsApart
<1>3. /\ pc' = [pc EXCEPT ![c] = "init"] \/ pc' = [pc EXCEPT ![c] = "user"]
      /\ UNCHANGED <<size, target, queue, edge, kernel, handler>>
  BY DEF Wake, device, arguments, handling
<1>4. ASSUME NEW d \in Callers PROVE AloneCaller(d)'
  <2>1. pc'[d] = "user" \/ (d = c /\ pc'[d] = "init")
    BY <1>2, <1>3 DEF Basics, Types
  <2>2. target = c /\ size[c] <= BurstData
    BY <1>1 DEF Alone, AloneCaller
  <2> QED BY <1>3, <2>1, <2>2 DEF AloneCaller, Issued, InLoop
<1> QED BY <1>2, <1>3, <1>4 DEF Alone, Signalling

LEMMA TimeOutAlone ==
  ASSUME Basics, ~crowded => Apart, Quiet, Alone, Quiet', NEW c \in Callers, TimeOut(c)
  PROVE  Alone'
<1>1. queue = <<>> /\ ~edge /\ ~Signalling
  BY DEF TimeOut, Quiet, Signalling
<1>2. pc[c] = "sleep" /\ \A d \in Callers : d # c => pc[d] = "user"
  BY QuietIsApart DEF TimeOut
<1>3. pc' = [pc EXCEPT ![c] = "user"] /\ UNCHANGED <<queue, edge, kernel, handler>>
  BY DEF TimeOut, device, handling
<1>4. ASSUME NEW d \in Callers PROVE AloneCaller(d)'
  <2>1. pc'[d] = "user"
    BY <1>2, <1>3 DEF Basics, Types
  <2> QED BY <2>1 DEF AloneCaller, Issued, InLoop
<1> QED BY <1>1, <1>3, <1>4 DEF Alone, Signalling

\* The callers stand still while the PL and the handler work.
LEMMA Still ==
  ASSUME UNCHANGED caller, UNCHANGED <<comp, target>>
  PROVE  \A d \in Callers : /\ AloneCaller(d) => AloneCaller(d)'
                            /\ Issued(d) => Issued(d)'
                            /\ WholeBurst(d)' = WholeBurst(d)
BY DEF caller, arguments, AloneCaller, Issued, InLoop, WholeBurst

LEMMA ReadBurstAlone == ASSUME Basics, Alone, ReadBurst PROVE Alone'
<1>1. UNCHANGED caller /\ UNCHANGED <<comp, target, kernel, queue, handler>> /\ queue # <<>>
      /\ cause' \in {"MM2S_PS_DONE", "MM2S_PL_DONE"}
  BY DEF ReadBurst, Raise, shared, handling
<1>2. PICK c \in Callers : Issued(c) /\ comp[c] = 0 /\ queue = <<WholeBurst(c)>>
  BY <1>1 DEF Alone
<1>3. ~Signalling'
  BY <1>1 DEF Alone, Signalling
<1> QED BY <1>1, <1>2, <1>3, Still DEF Alone

LEMMA WriteBurstAlone == ASSUME Basics, Alone, WriteBurst PROVE Alone'
<1>1. UNCHANGED caller /\ UNCHANGED <<comp, target, kernel, handler>> /\ queue # <<>>
      /\ queue' = Tail(queue)
  BY DEF WriteBurst, shared, handling, Basics
<1>2. PICK c \in Callers : Issued(c) /\ comp[c] = 0 /\ queue = <<WholeBurst(c)>>
  BY <1>1 DEF Alone
<1>3. queue' = <<>>
  BY <1>1, <1>2
<1>4. ~Signalling'
  BY <1>1 DEF Alone, Signalling
<1> QED BY <1>1, <1>2, <1>3, <1>4, Still DEF Alone

\* The handler reads a cause: if it is one to signal for, the burst is over.
LEMMA ReadIrqAlone == ASSUME Basics, Alone, ReadIrq PROVE Alone'
<1>1. /\ UNCHANGED caller /\ UNCHANGED <<comp, target, kernel, queue, cause>>
      /\ edge /\ edge' = FALSE
      /\ handler' = "clear" \/ (handler' = "test" /\ Flag(cause) # 0)
  BY DEF ReadIrq, shared
<1>2. PICK c \in Callers : Issued(c) /\ comp[c] = 0
  BY <1>1 DEF Alone
<1>3. Flag(cause) # 0 => queue = <<>>
  BY <1>1 DEF Flag, Alone
<1>4. Signalling' => handler' = "test" /\ queue' = <<>>
  BY <1>1, <1>3 DEF Signalling
<1> QED BY <1>1, <1>2, <1>4, Still DEF Alone

LEMMA TestLastAlone ==
  ASSUME Basics, ~crowded => Apart, Quiet, Alone, TestLast
  PROVE  Alone'
<1>1. /\ UNCHANGED caller /\ UNCHANGED <<comp, target, kernel, queue, cause, edge>>
      /\ handler' = "clear" \/ (handler' = "signal" /\ signalled' = target)
      /\ Signalling
  BY DEF TestLast, shared, device, Signalling
<1>2. PICK c \in Callers : Issued(c) /\ comp[c] = 0
  BY <1>1 DEF Alone
<1>3. queue = <<>> /\ ~edge /\ target = c
  BY <1>1, <1>2 DEF Alone, AloneCaller, Issued
<1>4. Signalling' => handler' = "signal" /\ signalled' = c
  BY <1>1, <1>3 DEF Signalling
<1>5. Issued(c)'
  BY <1>1, <1>2, Still
<1> QED BY <1>1, <1>2, <1>3, <1>4, <1>5, Still DEF Alone

LEMMA CompleteAlone ==
  ASSUME Basics, ~crowded => Apart, Quiet, Alone, Complete
  PROVE  Alone'
<1>1. /\ UNCHANGED caller /\ UNCHANGED <<target, queue, cause, edge>>
      /\ handler = "signal" /\ handler' = "clear"
  BY DEF Complete, device
<1>2. PICK c \in Callers : Issued(c) /\ comp[c] = 0 /\ signalled = c
  BY <1>1 DEF Alone, Signalling
<1>3. queue = <<>> /\ ~edge
  BY <1>1 DEF Alone, Signalling
<1>4. \A d \in Callers : d # c => pc[d] = "user"
  BY <1>2, IssuedActive, QuietIsApart
<1>5. comp' = [comp EXCEPT ![c] = 1] /\ kernel' = kernel
  BY <1>2 DEF Complete, Dead
<1>6. ASSUME NEW d \in Callers PROVE AloneCaller(d)'
  <2>1. CASE d = c
    <3>1. comp'[d] = 1
      BY <1>5, <2>1 DEF Basics, Types
    <3>2. pc'[d] = pc[d] /\ Issued(d)' /\ Issued(d) /\ size'[d] = size[d]
          /\ sleepsOn'[d] = sleepsOn[d] /\ target' = target
      BY <1>1, <1>2, <2>1 DEF caller, arguments, Issued
    <3>3. AloneCaller(d)
      BY DEF Alone
    <3> QED BY <3>1, <3>2, <3>3 DEF AloneCaller, Dead
  <2>2. CASE d # c
    <3>1. pc'[d] = "user"
      BY <1>1, <1>4, <2>2 DEF caller
    <3> QED BY <3>1 DEF AloneCaller, Issued, InLoop
  <2> QED BY <2>1, <2>2
<1> QED BY <1>1, <1>3, <1>5, <1>6 DEF Alone, Signalling

LEMMA ClearIrqAlone ==
  ASSUME Alone, ClearIrq \/ UNCHANGED vars
  PROVE  Alone'
<1>1. UNCHANGED caller /\ UNCHANGED <<comp, target, kernel, queue, edge>>
      /\ (cause' = cause \/ cause' = "none")
  BY DEF ClearIrq, shared, vars, device
<1>2. Signalling' => Signalling /\ UNCHANGED <<handler, signalled>>
  BY DEF ClearIrq, vars, handling, Signalling
<1>3. Signalling' => \E c \in Callers :
        Issued(c)' /\ comp'[c] = 0 /\ (handler' = "signal" => signalled' = c)
  BY <1>1, <1>2, Still DEF Alone
<1> QED BY <1>1, <1>2, <1>3, Still DEF Alone

LEMMA AloneStep ==
  ASSUME Basics, ~crowded => Apart, Quiet => Alone, [Next]_vars
  PROVE  Quiet' => Alone'
<1> SUFFICES ASSUME Quiet' PROVE Alone'
  OBVIOUS
<1>1. Quiet /\ Alone
  BY QuietBefore
<1>2. ASSUME NEW c \in Callers, NEW n \in Sizes, NEW m \in Rooms, NEW ok \in Soundness,
             Enter(c, n, m, ok)
      PROVE  Alone'
  BY <1>1, <1>2, EnterAlone
<1>3. ASSUME NEW c \in Callers, Step(c) \/ Stray(c) PROVE Alone'
  BY <1>1, <1>3, LookUpAlone, InitCompletionAlone, PrepareAlone, WritelAlone, SleepAlone,
     WakeAlone, TimeOutAlone DEF Step
<1>4. CASE Hardware \/ UNCHANGED vars
  BY <1>1, <1>4, ReadBurstAlone, WriteBurstAlone, ReadIrqAlone, TestLastAlone, CompleteAlone,
     ClearIrqAlone DEF Hardware
<1> QED BY <1>2, <1>3, <1>4 DEF Next, Hardware

(***************************************************************************)
(* The inductive invariant of quiet calls: whose burst the PL carries out, *)
(* and whom its interrupts signal (axi_tangxi.c:188-233,                   *)
(* axitangxi_dev.c:96-162).                                                *)
(***************************************************************************)
THEOREM AloneAlways == Spec => [](Quiet => Alone)
<1>1. Init => Alone
  BY DEF Init, Alone, AloneCaller, Issued, InLoop, Signalling
<1>2. Basics /\ (~crowded => Apart) /\ (Quiet => Alone) /\ [Next]_vars => (Quiet => Alone)'
  BY AloneStep
<1> QED BY <1>1, <1>2, BasicsAlways, ApartAlways, PTL DEF Spec

(***************************************************************************)
(* Quiet calls never use a completion whose stack frame is gone, neither   *)
(* to wait for it nor to signal it (axi_tangxi.c:188,202).                 *)
(***************************************************************************)
THEOREM AloneStaysSafe == Spec => []AloneIsSafe
<1>1. (Quiet => Alone) => AloneIsSafe
  BY DEF Alone, AloneIsSafe
<1> QED BY <1>1, AloneAlways, PTL

-----------------------------------------------------------------------------
\* Where the words of a quiet call are.
Moved(c, p) == \A k \in 1..size[c] : (IF p = 1 THEN pl[c][k] ELSE rx[c][k]) = <<number[c], k>>

CarriedFor(c) ==
  /\ Issued(c) /\ queue = <<>> => Moved(c, phase[c])
  /\ Issued(c) /\ fifo # <<>> =>
       DOMAIN fifo = 1..Chunk(size[c]) /\ \A k \in 1..size[c] : fifo[k] = <<number[c], k>>
  /\ pc[c] # "user" /\ phase[c] = 2 => Moved(c, 1)
  /\ rc[c] = "0" => pc[c] = "user" /\ Moved(c, 2)

Carried ==
  /\ DOMAIN pl = Callers /\ DOMAIN rx = Callers
  /\ \A c \in Callers : DOMAIN pl[c] = 1..BurstData /\ DOMAIN rx[c] = 1..Longest
  /\ \A c \in Callers : CarriedFor(c)

Idle(c) == pc[c] = "user"

\* A caller that is left alone, and whose memories are, keeps what it has.
LEMMA IdleCarried ==
  ASSUME NEW c \in Callers, Idle(c), Idle(c)', CarriedFor(c), UNCHANGED rx[c],
         UNCHANGED <<size[c], number[c], rc[c]>>
  PROVE  CarriedFor(c)'
BY DEF Idle, CarriedFor, Issued, Moved

\* What a step leaves of the other callers.
LEMMA OthersIdle ==
  ASSUME Basics, ~crowded => Apart, Quiet, NEW c \in Callers, pc[c] # "user",
         Step(c) \/ Stray(c)
  PROVE  \A d \in Callers : d # c =>
           Idle(d) /\ Idle(d)' /\ UNCHANGED <<size[d], number[d], rc[d]>>
<1> SUFFICES ASSUME NEW d \in Callers, d # c
             PROVE Idle(d) /\ Idle(d)' /\ UNCHANGED <<size[d], number[d], rc[d]>>
  OBVIOUS
<1>1. pc[d] = "user"
  BY QuietIsApart
<1>2. UNCHANGED <<size, number>> /\ rc'[d] = rc[d]
  BY DEF Basics, Types, Step, LookUpRx, LookUpTx, Stray, InitCompletion, Prepare, Writel,
         Sleep, Wake, TimeOut, arguments
<1>3. pc'[d] = pc[d]
  BY DEF Basics, Types, Step, LookUpRx, LookUpTx, Stray, InitCompletion, Prepare, Writel,
         Sleep, Wake, TimeOut, arguments
<1> QED BY <1>1, <1>2, <1>3 DEF Idle

LEMMA EnterCarried ==
  ASSUME Basics, Quiet, Carried, Quiet', NEW c \in Callers, NEW n \in Sizes,
         NEW m \in Rooms, NEW ok \in Soundness, Enter(c, n, m, ok)
  PROVE  Carried'
<1>1. \A d \in Callers : pc[d] = "user"
  BY DEF Enter, Others, Quiet
<1>2. /\ pc' = [pc EXCEPT ![c] = "rx"] /\ phase' = [phase EXCEPT ![c] = 1]
      /\ size' = [size EXCEPT ![c] = n] /\ number' = [number EXCEPT ![c] = calls + 1]
      /\ rc' = [rc EXCEPT ![c] = "none"] /\ UNCHANGED <<pl, rx>>
  BY DEF Enter, device
<1>3. ASSUME NEW d \in Callers PROVE CarriedFor(d)'
  <2>1. CASE d = c
    <3>1. pc'[d] = "rx" /\ phase'[d] = 1 /\ rc'[d] = "none"
      BY <1>2, <2>1 DEF Basics, Types
    <3> QED BY <3>1 DEF CarriedFor, Issued
  <2>2. CASE d # c
    <3>1. Idle(d) /\ Idle(d)' /\ UNCHANGED <<size[d], number[d], rc[d]>>
      BY <1>1, <1>2, <2>2 DEF Basics, Types, Idle
    <3> QED BY <1>2, <3>1, IdleCarried DEF Carried
  <2> QED BY <2>1, <2>2
<1> QED BY <1>2, <1>3 DEF Carried

\* Before a burst is issued, and while the caller falls asleep.
LEMMA IssueCarried ==
  ASSUME Basics, ~crowded => Apart, Quiet, Alone, Carried, NEW c \in Callers,
         \/ LookUpRx(c) \/ LookUpTx(c) \/ Stray(c)
         \/ InitCompletion(c) \/ Prepare(c) \/ Writel(c) \/ Sleep(c)
  PROVE  Carried'
<1>1. pc[c] # "user" /\ (Step(c) \/ Stray(c))
      /\ UNCHANGED <<phase, size, number, rc, fifo, pl, rx>>
  BY DEF LookUpRx, LookUpTx, Stray, InitCompletion, Prepare, Writel, Sleep, Step, device,
         arguments
<1>2. \A d \in Callers : d # c => CarriedFor(d)'
  BY <1>1, OthersIdle, IdleCarried DEF Carried
<1>3. rc[c] # "0"
  BY <1>1 DEF Carried, CarriedFor
<1>4. phase'[c] = 2 => Moved(c, 1)'
  BY <1>1 DEF Carried, CarriedFor, Moved
<1>5. CASE Sleep(c)
  <2>1. Issued(c) /\ queue' = queue
    BY <1>5 DEF Sleep, Issued, device
  <2> QED BY <1>1, <1>2, <1>3, <1>4, <2>1 DEF Carried, CarriedFor, Moved
<1>6. CASE ~Sleep(c)
  <2>1. ~Issued(c) /\ ~Stray(c)
    BY <1>6 DEF LookUpRx, LookUpTx, Stray, InitCompletion, Prepare, Writel, Issued, Quiet,
                Basics
  <2>2. fifo = <<>>
    BY <1>1, <2>1, Rest DEF Basics
  <2>3. Issued(c)' => queue' # <<>>
    <3>1. CASE InitCompletion(c)
      <4>1. pc'[c] = "burst" /\ left'[c] = size[c] /\ size[c] # 0
        BY <3>1, LongestIsLongest DEF InitCompletion, Basics, Types, Loop
      <4> QED BY <4>1 DEF Issued
    <3>2. CASE Prepare(c)
      BY <3>2 DEF Prepare, Basics, Types, Issued
    <3>3. CASE Writel(c)
      <4>1. CASE writes[c] = 3
        <5>1. queue \in Seq(Bursts) /\ queue' = Append(queue, Burst(phase[c], regs'))
          BY <3>3, <4>1 DEF Writel, Basics, Types
        <5> QED BY <5>1
      <4>2. CASE writes[c] # 3
        BY <3>3, <4>2 DEF Writel, Issued
      <4> QED BY <4>1, <4>2
    <3>4. CASE LookUpRx(c) \/ LookUpTx(c)
      <4>1. pc'[c] \in {"tx", "init"}
        BY <3>4 DEF LookUpRx, LookUpTx, Basics, Types
      <4> QED BY <4>1 DEF Issued
    <3> QED BY <1>6, <2>1, <3>1, <3>2, <3>3, <3>4
  <2> QED BY <1>1, <1>2, <1>3, <1>4, <2>2, <2>3 DEF Carried, CarriedFor
<1> QED BY <1>5, <1>6

LEMMA WakeCarried ==
  ASSUME Basics, ~crowded => Apart, Quiet, Alone, Carried, NEW c \in Callers, Wake(c)
  PROVE  Carried'
<1>1. pc[c] = "sleep" /\ Issued(c) /\ comp[c] > 0 /\ Step(c)
  BY DEF Wake, Issued, Alone, AloneCaller, Step
<1>2. queue = <<>> /\ UNCHANGED <<size, number, pl, rx>>
  BY <1>1, Rest DEF Wake, device, arguments
<1>3. Moved(c, phase[c])
  BY <1>1, <1>2 DEF Carried, CarriedFor
<1>4. \A d \in Callers : d # c => CarriedFor(d)'
  BY <1>1, <1>2, OthersIdle, IdleCarried DEF Carried
<1>5. rc[c] # "0"
  BY <1>1 DEF Carried, CarriedFor
<1>6. CASE phase[c] = 1
  <2>1. pc'[c] = "init" /\ phase'[c] = 2 /\ rc'[c] = rc[c]
    BY <1>6 DEF Wake, Basics, Types
  <2>2. Moved(c, 1)'
    BY <1>2, <1>3, <1>6 DEF Moved
  <2>3. CarriedFor(c)'
    BY <1>5, <2>1, <2>2 DEF CarriedFor, Issued
  <2> QED BY <1>2, <1>4, <2>3 DEF Carried
<1>7. CASE phase[c] = 2
  <2>1. pc'[c] = "user"
    BY <1>7 DEF Wake, Basics, Types
  <2>2. Moved(c, 2)'
    BY <1>2, <1>3, <1>7 DEF Moved
  <2>3. CarriedFor(c)'
    BY <2>1, <2>2 DEF CarriedFor, Issued
  <2> QED BY <1>2, <1>4, <2>3 DEF Carried
<1> QED BY <1>6, <1>7 DEF Basics, Types

LEMMA TimeOutCarried ==
  ASSUME Basics, ~crowded => Apart, Quiet, Carried, NEW c \in Callers, TimeOut(c)
  PROVE  Carried'
<1>1. pc[c] = "sleep" /\ Step(c) /\ UNCHANGED <<pl, rx>>
  BY DEF TimeOut, Step, device
<1>2. pc'[c] = "user" /\ rc'[c] = "ETIME"
  BY DEF TimeOut, Basics, Types
<1>3. CarriedFor(c)'
  BY <1>2 DEF CarriedFor, Issued
<1>4. \A d \in Callers : d # c => CarriedFor(d)'
  BY <1>1, OthersIdle, IdleCarried DEF Carried
<1> QED BY <1>1, <1>3, <1>4 DEF Carried

\* A burst of a quiet call holds the whole buffer.
LEMMA WholeBuffer ==
  ASSUME Basics, Alone, NEW c \in Callers, pc[c] # "user"
  PROVE  /\ size[c] \in Nat \ {0} /\ Chunk(size[c]) \in Nat /\ size[c] <= Chunk(size[c])
         /\ size[c] <= BurstData /\ size[c] <= Longest /\ Longest \in Nat
<1>1. size[c] \in Sizes /\ size[c] <= BurstData
  BY DEF Basics, Loop, Alone, AloneCaller
<1>2. size[c] \in Nat \ {0} /\ RoundUp(size[c]) <= Longest /\ Longest \in Nat
  BY <1>1, LongestIsLongest
<1>3. size[c] <= RoundUp(size[c]) /\ RoundUp(size[c]) \in Nat
  BY <1>2, RoundedUp
<1>4. Chunk(size[c]) \in Nat /\ size[c] <= Chunk(size[c])
  <2>1. /\ Chunk(size[c]) \in Nat
        /\ size[c] < BurstData => size[c] <= Chunk(size[c])
        /\ size[c] >= BurstData => Chunk(size[c]) = BurstData
    BY <1>2, ChunkFacts
  <2> QED BY <1>1, <1>2, <2>1, AlignPositive
<1> QED BY <1>1, <1>2, <1>3, <1>4

LEMMA ReadBurstCarried ==
  ASSUME Basics, ~crowded => Apart, Quiet, Alone, Carried, ReadBurst
  PROVE  Carried'
<1>1. UNCHANGED caller /\ UNCHANGED <<queue, pl, rx>> /\ queue # <<>>
  BY DEF ReadBurst
<1>2. PICK c \in Callers : Issued(c) /\ queue = <<WholeBurst(c)>>
  BY <1>1 DEF Alone
<1>3. pc[c] # "user" /\ \A d \in Callers : d # c => Idle(d)
  BY <1>2, IssuedActive, QuietIsApart DEF Idle
<1>4. Head(queue) = WholeBurst(c)
  BY <1>2
<1>5. /\ size[c] \in Nat \ {0} /\ Chunk(size[c]) \in Nat /\ size[c] <= Chunk(size[c])
      /\ size[c] <= BurstData
  BY <1>3, WholeBuffer
<1>6. fifo' = [k \in 1..Chunk(size[c]) |->
                 IF phase[c] = 1 THEN <<number[c], 0 + k>> ELSE pl[c][k]]
  BY <1>4 DEF ReadBurst, WholeBurst
<1>7. ASSUME NEW k \in 1..size[c] PROVE fifo'[k] = <<number[c], k>>
  <2>1. k \in 1..Chunk(size[c])
    BY <1>5
  <2>2. CASE phase[c] = 1
    BY <1>6, <2>1, <2>2
  <2>3. CASE phase[c] = 2
    <3>1. pl[c][k] = <<number[c], k>>
      BY <1>3, <2>3 DEF Carried, CarriedFor, Moved
    <3> QED BY <1>6, <2>1, <2>3, <3>1
  <2> QED BY <2>2, <2>3 DEF Basics, Types
<1>8. DOMAIN fifo' = 1..Chunk(size[c])
  BY <1>6
<1>9. CarriedFor(c)'
  BY <1>1, <1>3, <1>7, <1>8 DEF Carried, CarriedFor, Moved, Issued, caller, arguments
<1>10. \A d \in Callers : d # c => CarriedFor(d)'
  BY <1>1, <1>3, IdleCarried DEF Carried, caller, arguments, Idle
<1> QED BY <1>1, <1>9, <1>10 DEF Carried

LEMMA WriteBurstCarried ==
  ASSUME Basics, ~crowded => Apart, Quiet, Alone, Carried, WriteBurst
  PROVE  Carried'
<1>1. UNCHANGED caller /\ fifo # <<>> /\ fifo' = <<>> /\ queue # <<>>
  BY DEF WriteBurst, Basics
<1>2. PICK c \in Callers : Issued(c) /\ queue = <<WholeBurst(c)>>
  BY <1>1 DEF Alone
<1>3. pc[c] # "user" /\ \A d \in Callers : d # c => Idle(d)
  BY <1>2, IssuedActive, QuietIsApart DEF Idle
<1>4. Head(queue) = WholeBurst(c)
  BY <1>2
<1>5. /\ size[c] \in Nat \ {0} /\ Chunk(size[c]) \in Nat /\ size[c] <= Chunk(size[c])
      /\ size[c] <= BurstData /\ size[c] <= Longest /\ Longest \in Nat
  BY <1>3, WholeBuffer
<1>6. DOMAIN fifo = 1..Chunk(size[c]) /\ \A k \in 1..size[c] : fifo[k] = <<number[c], k>>
  BY <1>1, <1>2 DEF Carried, CarriedFor
<1> DEFINE Stored(old) == [k \in DOMAIN old |->
             IF k - 0 \in DOMAIN fifo /\ k - 0 <= Chunk(size[c]) THEN fifo[k - 0] ELSE old[k]]
<1>7. ASSUME NEW old, NEW m \in Nat, DOMAIN old = 1..m, size[c] <= m
      PROVE  DOMAIN Stored(old) = 1..m /\ \A k \in 1..size[c] : Stored(old)[k] = <<number[c], k>>
  <2>1. ASSUME NEW k \in 1..size[c] PROVE Stored(old)[k] = <<number[c], k>>
    <3>1. k \in DOMAIN old /\ k - 0 = k /\ k \in DOMAIN fifo /\ k <= Chunk(size[c])
      BY <1>5, <1>6, <1>7
    <3> QED BY <1>6, <3>1
  <2> QED BY <1>7, <2>1
<1>8. CASE phase[c] = 1
  <2>1. pl' = [pl EXCEPT ![c] = Stored(pl[c])] /\ rx' = rx
    BY <1>4, <1>8 DEF WriteBurst, WholeBurst
  <2>2. /\ DOMAIN Stored(pl[c]) = 1..BurstData
        /\ \A k \in 1..size[c] : Stored(pl[c])[k] = <<number[c], k>>
    BY <1>5, <1>7, AlignPositive DEF Carried
  <2> HIDE DEF Stored
  <2>3. pl'[c] = Stored(pl[c]) /\ DOMAIN pl' = Callers /\ \A d \in Callers : d # c => pl'[d] = pl[d]
    BY <2>1 DEF Carried
  <2>4. Moved(c, 1)'
    BY <1>1, <2>2, <2>3 DEF Moved, caller, arguments
  <2>5. CarriedFor(c)'
    BY <1>1, <1>3, <1>8, <2>4 DEF Carried, CarriedFor, caller, arguments
  <2>6. \A d \in Callers : d # c => CarriedFor(d)'
    BY <1>1, <1>3, <2>1, IdleCarried DEF Carried, caller, arguments, Idle
  <2> QED BY <2>1, <2>2, <2>3, <2>5, <2>6 DEF Carried
<1>9. CASE phase[c] = 2
  <2>1. rx' = [rx EXCEPT ![c] = Stored(rx[c])] /\ pl' = pl
    BY <1>4, <1>9 DEF WriteBurst, WholeBurst
  <2>2. /\ DOMAIN Stored(rx[c]) = 1..Longest
        /\ \A k \in 1..size[c] : Stored(rx[c])[k] = <<number[c], k>>
    BY <1>5, <1>7 DEF Carried
  <2> HIDE DEF Stored
  <2>3. rx'[c] = Stored(rx[c]) /\ DOMAIN rx' = Callers /\ \A d \in Callers : d # c => rx'[d] = rx[d]
    BY <2>1 DEF Carried
  <2>4. Moved(c, 2)' /\ Moved(c, 1)'
    BY <1>1, <1>3, <1>9, <2>1, <2>2, <2>3 DEF Carried, CarriedFor, Moved, caller, arguments
  <2>5. CarriedFor(c)'
    BY <1>1, <1>3, <1>9, <2>4 DEF Carried, CarriedFor, caller, arguments
  <2>6. \A d \in Callers : d # c => CarriedFor(d)'
    BY <1>1, <1>3, <2>3, IdleCarried DEF Carried, caller, arguments, Idle
  <2> QED BY <2>1, <2>2, <2>3, <2>5, <2>6 DEF Carried
<1> QED BY <1>8, <1>9 DEF Basics, Types

LEMMA IrqCarried ==
  ASSUME Carried, ReadIrq \/ TestLast \/ Complete \/ ClearIrq \/ UNCHANGED vars
  PROVE  Carried'
<1>1. UNCHANGED caller /\ UNCHANGED <<queue, fifo, pl, rx>>
  BY DEF ReadIrq, TestLast, Complete, ClearIrq, vars, device
<1> QED BY <1>1 DEF Carried, CarriedFor, Moved, Issued, caller, arguments

LEMMA CarriedStep ==
  ASSUME Basics, ~crowded => Apart, Quiet => Alone, Quiet => Carried, [Next]_vars
  PROVE  Quiet' => Carried'
<1> SUFFICES ASSUME Quiet' PROVE Carried'
  OBVIOUS
<1>1. Quiet /\ Alone /\ Carried
  BY QuietBefore
<1>2. ASSUME NEW c \in Callers, NEW n \in Sizes, NEW m \in Rooms, NEW ok \in Soundness,
             Enter(c, n, m, ok)
      PROVE  Carried'
  BY <1>1, <1>2, EnterCarried
<1>3. ASSUME NEW c \in Callers, Step(c) \/ Stray(c) PROVE Carried'
  BY <1>1, <1>3, IssueCarried, WakeCarried, TimeOutCarried DEF Step
<1>4. CASE Hardware \/ UNCHANGED vars
  BY <1>1, <1>4, ReadBurstCarried, WriteBurstCarried, IrqCarried DEF Hardware
<1> QED BY <1>2, <1>3, <1>4 DEF Next, Hardware

(***************************************************************************)
(* A quiet call that returns 0 has brought back the whole buffer,          *)
(* whichever of its interrupts were lost (axi_tangxi.c:120,162,            *)
(* axitangxi_dev.c:110-130).                                               *)
(***************************************************************************)
THEOREM AloneIsCarried == Spec => []AloneIsDone
<1>1. Init => Carried
  BY DEF Init, Carried, CarriedFor, Issued
<1>2. /\ Basics /\ (~crowded => Apart) /\ (Quiet => Alone) /\ (Quiet => Carried)
      /\ [Next]_vars
      => (Quiet => Carried)'
  BY CarriedStep
<1>3. (Quiet => Carried) => AloneIsDone
  BY DEF Carried, CarriedFor, Moved, AloneIsDone, Received
<1> QED BY <1>1, <1>2, <1>3, BasicsAlways, ApartAlways, AloneAlways, PTL DEF Spec
=============================================================================
