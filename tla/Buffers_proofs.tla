--------------------------- MODULE Buffers_proofs ---------------------------
(***************************************************************************)
(* For any number of threads, addresses, pages and cells: the list of      *)
(* buffers implements the address map, and the look-up of a covered buffer *)
(* stays among the entries that have not been freed.                       *)
(***************************************************************************)
EXTENDS Buffers, SequenceTheorems, TLAPS

\* The head of the list leads to the covered entries, the newest first.
Chained ==
  /\ covered # <<>> => link[ListHead] = covered[Len(covered)]
  /\ \A k \in DOMAIN covered : k > 1 => link[covered[k]] = covered[k - 1]

\* A mapped address has an entry of its own, which says so; the covered ones
\* and the one mmap is about to add are among them.
Owned ==
  /\ \A a \in Addresses : vma[a] # None =>
       use[vma[a]] = "taken" /\ user_addr[vma[a]] = a /\ phys_addr[vma[a]] \in Pages
  /\ \A k \in DOMAIN covered :
       user_addr[covered[k]] \in Addresses /\ vma[user_addr[covered[k]]] = covered[k]
  /\ \A j, k \in DOMAIN covered : covered[j] = covered[k] => j = k
  /\ adding # None =>
       /\ user_addr[adding] \in Addresses /\ vma[user_addr[adding]] = adding
       /\ \A k \in DOMAIN covered : covered[k] # adding

\* A thread that looks for a covered buffer has only passed newer ones.
OnTheWay(t) ==
  \E k \in DOMAIN covered :
    /\ user_addr[covered[k]] = want[t]
    /\ pos[t] = ListHead \/ \E j \in DOMAIN covered : j > k /\ pos[t] = covered[j]

IInv ==
  /\ TypeOK /\ Chained /\ Owned
  /\ \A t \in Threads : sure[t] => OnTheWay(t)

-----------------------------------------------------------------------------
LEMMA CoveredEntries ==
  ASSUME TypeOK, Owned, NEW k \in DOMAIN covered
  PROVE  /\ k \in 1..Len(covered) /\ Len(covered) \in Nat
         /\ covered[k] \in Cells /\ use[covered[k]] = "taken"
         /\ user_addr[covered[k]] \in Addresses /\ phys_addr[covered[k]] \in Pages
  BY BuffersAssumption DEF TypeOK, Owned, CellOr

\* What a thread on its way reaches next is the entry it looks for or a newer
\* one.
LEMMA NextIsCovered ==
  ASSUME IInv, NEW t \in Threads, sure[t]
  PROVE  \E k, i \in DOMAIN covered :
           k <= i /\ user_addr[covered[k]] = want[t] /\ Reached(t) = covered[i]
<1>1. PICK k \in DOMAIN covered :
        /\ user_addr[covered[k]] = want[t]
        /\ pos[t] = ListHead \/ \E j \in DOMAIN covered : j > k /\ pos[t] = covered[j]
  BY DEF IInv, OnTheWay
<1>2. covered \in Seq(Cells) /\ DOMAIN covered = 1..Len(covered) /\ Len(covered) \in Nat
  BY DEF IInv, TypeOK
<1>3. CASE pos[t] = ListHead
  <2>1. Reached(t) = covered[Len(covered)]
    BY <1>2, <1>3 DEF IInv, Chained, Reached
  <2> QED BY <1>1, <1>2, <2>1
<1>4. CASE \E j \in DOMAIN covered : j > k /\ pos[t] = covered[j]
  <2>1. PICK j \in DOMAIN covered : j > k /\ pos[t] = covered[j]
    BY <1>4
  <2>2. Reached(t) = covered[j - 1] /\ j - 1 \in DOMAIN covered /\ k <= j - 1
    BY <1>2, <2>1 DEF IInv, Chained, Reached
  <2> QED BY <1>1, <2>2
<1> QED BY <1>1, <1>3, <1>4

\* Addresses tell covered entries apart.
LEMMA OneAddressOneEntry ==
  ASSUME Owned, NEW j \in DOMAIN covered, NEW k \in DOMAIN covered,
         user_addr[covered[j]] = user_addr[covered[k]]
  PROVE  j = k
  BY DEF Owned

\* Freeing a covered entry leaves the newer ones, freeing another all of them.
LEMMA AfterFreeing ==
  ASSUME TypeOK, Owned, NEW c \in Cells
  PROVE  /\ \A m \in DOMAIN covered : covered[m] = c =>
              /\ After(c) = SubSeq(covered, m + 1, Len(covered))
              /\ After(c) \in Seq(Cells) /\ Len(After(c)) = Len(covered) - m
              /\ \A i \in DOMAIN After(c) : i + m \in DOMAIN covered /\ After(c)[i] = covered[i + m]
         /\ (\A m \in DOMAIN covered : covered[m] # c) => After(c) = covered
<1>1. covered \in Seq(Cells) /\ DOMAIN covered = 1..Len(covered) /\ Len(covered) \in Nat
  BY DEF TypeOK
<1>2. ASSUME NEW m \in DOMAIN covered, covered[m] = c
      PROVE  After(c) = SubSeq(covered, m + 1, Len(covered))
  BY <1>2 DEF After, Owned
<1>3. ASSUME NEW m \in DOMAIN covered
      PROVE  LET s == SubSeq(covered, m + 1, Len(covered)) IN
             /\ s \in Seq(Cells) /\ Len(s) = Len(covered) - m
             /\ \A i \in DOMAIN s : i + m \in DOMAIN covered /\ s[i] = covered[i + m]
  BY <1>1, <1>3, SubSeqProperties
<1>4. (\A m \in DOMAIN covered : covered[m] # c) => After(c) = covered
  BY DEF After
<1> QED BY <1>2, <1>3, <1>4

-----------------------------------------------------------------------------
LEMMA InitEstablishes == Init => IInv
<1> SUFFICES ASSUME Init PROVE IInv
  OBVIOUS
<1> USE DEF Init
<1>1. TypeOK
  BY BuffersAssumption DEF TypeOK, CellOr, Answers
<1>2. Chained /\ Owned
  BY DEF Chained, Owned
<1> QED BY <1>1, <1>2 DEF IInv

LEMMA MmapStep ==
  ASSUME IInv, NEW a \in Addresses, NEW p \in Pages, NEW c \in Cells, Mmap(a, p, c)
  PROVE  IInv'
<1> USE DEF Mmap, IInv, walk, history
<1>1. TypeOK'
  BY DEF TypeOK, CellOr
<1>2. \A k \in DOMAIN covered : covered[k] # c
  BY CoveredEntries
<1>3. \A b \in Addresses : vma[b] # c
  BY BuffersAssumption DEF Owned
<1>4. Chained'
  BY DEF Chained
<1>5. Owned'
  <2> USE BuffersAssumption DEF TypeOK, CellOr
  <2>1. (\A b \in Addresses : vma[b] # None =>
           use[vma[b]] = "taken" /\ user_addr[vma[b]] = b /\ phys_addr[vma[b]] \in Pages)'
    BY <1>3 DEF Owned
  <2>2. (\A k \in DOMAIN covered :
           user_addr[covered[k]] \in Addresses /\ vma[user_addr[covered[k]]] = covered[k])'
    <3> SUFFICES ASSUME NEW k \in DOMAIN covered
        PROVE  user_addr'[covered[k]] \in Addresses /\ vma'[user_addr'[covered[k]]] = covered[k]
      OBVIOUS
    <3>1. covered[k] \in Cells /\ covered[k] # c /\ user_addr'[covered[k]] = user_addr[covered[k]]
      BY <1>2, CoveredEntries
    <3>2. user_addr[covered[k]] # a
      BY <3>1 DEF Owned
    <3> QED BY <3>1, <3>2 DEF Owned
  <2> QED BY <2>1, <2>2, <1>2 DEF Owned
<1>6. \A t \in Threads : sure'[t] => OnTheWay(t)'
  BY <1>2, CoveredEntries DEF OnTheWay, TypeOK
<1> QED BY <1>1, <1>4, <1>5, <1>6

LEMMA MmapFailsStep ==
  ASSUME IInv, NEW c \in Cells, MmapFails(c)
  PROVE  IInv'
<1> USE DEF MmapFails, IInv, walk, history
<1>1. TypeOK'
  BY DEF TypeOK
<1>2. Chained'
  BY DEF Chained
<1>3. Owned'
  BY DEF Owned, TypeOK, CellOr
<1>4. \A t \in Threads : sure'[t] => OnTheWay(t)'
  BY DEF OnTheWay
<1> QED BY <1>1, <1>2, <1>3, <1>4

LEMMA ScribbleStep ==
  ASSUME IInv, NEW c \in Cells, Scribble(c)
  PROVE  IInv'
<1> USE DEF Scribble, IInv, walk, history
<1>1. TypeOK'
  BY DEF TypeOK, CellOr
<1>2. \A k \in DOMAIN covered : covered[k] # c /\ covered[k] \in Cells
  BY CoveredEntries
<1>3. Chained'
  BY <1>2, BuffersAssumption DEF Chained, TypeOK, CellOr
<1>4. Owned'
  BY <1>2, BuffersAssumption DEF Owned, TypeOK, CellOr
<1>5. \A t \in Threads : sure'[t] => OnTheWay(t)'
  BY <1>2 DEF OnTheWay, TypeOK
<1> QED BY <1>1, <1>3, <1>4, <1>5

LEMMA LinkEntryStep ==
  ASSUME IInv, LinkEntry
  PROVE  IInv'
<1> USE DEF LinkEntry, IInv, walk, history
<1>1. TypeOK'
  BY BuffersAssumption DEF TypeOK, CellOr
<1>2. Chained'
  BY BuffersAssumption, CoveredEntries DEF Chained, Owned, TypeOK, CellOr
<1>3. Owned'
  BY DEF Owned
<1>4. \A t \in Threads : sure'[t] => OnTheWay(t)'
  BY DEF OnTheWay
<1> QED BY <1>1, <1>2, <1>3, <1>4

LEMMA PublishStep ==
  ASSUME IInv, Publish
  PROVE  IInv'
<1> USE DEF Publish, IInv, walk
<1> DEFINE n == Len(covered)
<1>1. /\ covered \in Seq(Cells) /\ DOMAIN covered = 1..n /\ n \in Nat /\ adding \in Cells
      /\ covered' = Append(covered, adding) /\ covered' \in Seq(Cells)
      /\ DOMAIN covered' = 1..(n + 1) /\ Len(covered') = n + 1
      /\ covered'[n + 1] = adding /\ \A k \in 1..n : covered'[k] = covered[k]
  BY DEF TypeOK, CellOr
<1>2. TypeOK'
  BY <1>1 DEF TypeOK, CellOr
<1>3. Chained'
  <2>1. link'[ListHead] = adding /\ \A c \in Cells : link'[c] = link[c]
    BY BuffersAssumption DEF TypeOK, CellOr
  <2>2. ASSUME NEW k \in 1..(n + 1), k > 1
        PROVE  link'[covered'[k]] = covered'[k - 1]
    <3>1. CASE k = n + 1
      <4>1. n \in DOMAIN covered /\ covered # <<>> /\ covered'[k - 1] = covered[n]
        <5>1. n \in 1..n /\ k - 1 = n
          BY <1>1, <2>2, <3>1
        <5> QED BY <1>1, <5>1
      <4>2. link'[covered'[k]] = link[ListHead]
        BY <1>1, <2>1, <3>1
      <4> QED BY <4>1, <4>2 DEF Chained
    <3>2. CASE k # n + 1
      <4>1. k \in 1..n /\ k - 1 \in 1..n /\ covered[k] \in Cells
        BY <1>1, <2>2, <3>2
      <4> QED BY <1>1, <2>1, <2>2, <4>1 DEF Chained
    <3> QED BY <3>1, <3>2
  <2> QED BY <1>1, <2>1, <2>2 DEF Chained
<1>4. Owned'
  <2>1. (\A k \in DOMAIN covered :
           user_addr[covered[k]] \in Addresses /\ vma[user_addr[covered[k]]] = covered[k])'
    BY <1>1 DEF Owned
  <2>2. (\A j, k \in DOMAIN covered : covered[j] = covered[k] => j = k)'
    BY <1>1 DEF Owned
  <2> QED BY <2>1, <2>2 DEF Owned
<1>5. \A t \in Threads : sure'[t] => OnTheWay(t)'
  <2> SUFFICES ASSUME NEW t \in Threads, sure[t] PROVE OnTheWay(t)'
    OBVIOUS
  <2>1. PICK k \in DOMAIN covered :
          /\ user_addr[covered[k]] = want[t]
          /\ pos[t] = ListHead \/ \E j \in DOMAIN covered : j > k /\ pos[t] = covered[j]
    BY DEF OnTheWay
  <2>2. DOMAIN covered \subseteq DOMAIN covered' /\ \A i \in DOMAIN covered : covered'[i] = covered[i]
    BY <1>1
  <2> QED BY <2>1, <2>2 DEF OnTheWay
<1> QED BY <1>2, <1>3, <1>4, <1>5

\* What stays covered keeps its order and its place on the list.
LEMMA MunmapStep ==
  ASSUME IInv, NEW a \in Addresses, Munmap(a)
  PROVE  IInv'
<1> USE DEF Munmap, IInv
<1> DEFINE c == vma[a]  n == Len(covered)
<1>1. c \in Cells /\ c # None /\ user_addr[c] = a
  BY DEF TypeOK, CellOr, Owned
<1>2. covered \in Seq(Cells) /\ DOMAIN covered = 1..n /\ n \in Nat
  BY DEF TypeOK
<1>3. PICK m \in 0..n :
        /\ covered' \in Seq(Cells) /\ Len(covered') = n - m /\ DOMAIN covered' = 1..(n - m)
        /\ \A i \in 1..(n - m) : covered'[i] = covered[i + m] /\ i + m \in 1..n
        /\ \A k \in 1..n : covered[k] = c => k <= m
        /\ m > 0 => covered[m] = c
  <2>1. CASE \E m \in DOMAIN covered : covered[m] = c
    <3>1. PICK m \in DOMAIN covered : covered[m] = c
      BY <2>1
    <3>2. /\ After(c) \in Seq(Cells) /\ Len(After(c)) = n - m
          /\ \A i \in DOMAIN After(c) : i + m \in DOMAIN covered /\ After(c)[i] = covered[i + m]
      BY <1>1, <3>1, AfterFreeing
    <3>3. \A k \in 1..n : covered[k] = c => k <= m
      BY <1>2, <3>1 DEF Owned
    <3>4. covered' = After(c) /\ m \in 1..n
      BY <1>2
    <3>5. DOMAIN covered' = 1..(n - m)
      BY <3>2, <3>4
    <3> HIDE DEF Munmap, IInv
    <3>6. \A i \in 1..(n - m) : covered'[i] = covered[i + m] /\ i + m \in 1..n
      BY <1>2, <3>2, <3>4, <3>5
    <3>7. covered' \in Seq(Cells) /\ Len(covered') = n - m /\ m \in 0..n
      BY <1>2, <3>2, <3>4
    <3> WITNESS m \in 0..n
    <3> QED BY <3>1, <3>3, <3>5, <3>6, <3>7
  <2>2. CASE \A m \in DOMAIN covered : covered[m] # c
    <3>1. covered' = covered
      BY <1>1, <2>2, AfterFreeing
    <3> HIDE DEF Munmap, IInv
    <3>2. n - 0 = n /\ 0 \in 0..n /\ ~(0 > 0)
      BY <1>2
    <3>3. \A i \in 1..(n - 0) : covered'[i] = covered[i + 0] /\ i + 0 \in 1..n
      BY <1>2, <3>1, <3>2
    <3>4. covered' \in Seq(Cells) /\ Len(covered') = n - 0 /\ DOMAIN covered' = 1..(n - 0)
      BY <1>2, <3>1, <3>2
    <3>5. \A k \in 1..n : covered[k] = c => k <= 0
      BY <1>2, <2>2
    <3> WITNESS 0 \in 0..n
    <3> QED BY <3>2, <3>3, <3>4, <3>5
  <2> QED BY <2>1, <2>2
<1>4. TypeOK'
  <2>1. vma' \in [Addresses -> CellOr({None})] /\ use' \in [Cells -> {"free", "taken"}]
    BY <1>1 DEF TypeOK, CellOr
  <2>2. sure' \in [Threads -> BOOLEAN]
    <3>1. \A t \in Threads : (sure[t] /\ IsCovered(want[t], covered')) \in BOOLEAN
      OBVIOUS
    <3> QED BY <3>1
  <2> QED BY <1>3, <2>1, <2>2 DEF TypeOK, walk
<1>5. \A k \in 1..(n - m) : covered'[k] # c
  BY <1>2, <1>3
<1>6. Chained'
  <2>1. ASSUME covered' # <<>> PROVE link'[ListHead] = covered'[Len(covered')]
    <3>1. n - m \in 1..(n - m) /\ covered # <<>>
      BY <1>2, <1>3, <2>1
    <3>2. covered'[n - m] = covered[n]
      BY <1>2, <1>3, <3>1
    <3> QED BY <1>3, <3>1, <3>2 DEF Chained
  <2>2. ASSUME NEW k \in 1..(n - m), k > 1 PROVE link'[covered'[k]] = covered'[k - 1]
    <3>1. covered'[k] = covered[k + m] /\ covered'[k - 1] = covered[k + m - 1]
          /\ k + m \in DOMAIN covered /\ k + m > 1
      <4>1. k - 1 \in 1..(n - m) /\ k - 1 + m = k + m - 1 /\ k + m > 1
        BY <1>2, <2>2
      <4> QED BY <1>2, <1>3, <4>1
    <3> QED BY <3>1 DEF Chained
  <2> QED BY <1>3, <2>1, <2>2 DEF Chained
<1>7. Owned'
  <2>1. ASSUME NEW b \in Addresses, vma'[b] # None
        PROVE  use'[vma'[b]] = "taken" /\ user_addr'[vma'[b]] = b /\ phys_addr'[vma'[b]] \in Pages
    <3>1. b # a /\ vma'[b] = vma[b]
      BY <2>1 DEF TypeOK
    <3>2. vma[b] # c
      BY <1>1, <2>1, <3>1 DEF Owned
    <3> QED BY <2>1, <3>1, <3>2 DEF Owned, TypeOK, CellOr
  <2>2. ASSUME NEW k \in 1..(n - m)
        PROVE  user_addr'[covered'[k]] \in Addresses /\ vma'[user_addr'[covered'[k]]] = covered'[k]
    <3>1. covered'[k] = covered[k + m] /\ k + m \in DOMAIN covered
      BY <1>2, <1>3
    <3>2. user_addr[covered[k + m]] # a
      BY <1>5, <3>1 DEF Owned
    <3> QED BY <3>1, <3>2 DEF Owned, TypeOK
  <2>3. ASSUME NEW j \in 1..(n - m), NEW k \in 1..(n - m), covered'[j] = covered'[k]
        PROVE  j = k
    <3>1. j + m = k + m
      <4>1. j + m \in DOMAIN covered /\ k + m \in DOMAIN covered /\ covered[j + m] = covered[k + m]
        BY <1>2, <1>3, <2>3
      <4> QED BY <4>1 DEF Owned
    <3> QED BY <1>2, <3>1
  <2> QED BY <1>3, <2>1, <2>2, <2>3 DEF Owned
<1>8. ASSUME NEW t \in Threads, sure'[t] PROVE OnTheWay(t)'
  <2>1. sure[t] /\ IsCovered(want[t], covered')
    BY <1>8 DEF TypeOK
  <2>2. PICK i \in 1..(n - m) : user_addr[covered'[i]] = want[t]
    BY <1>3, <2>1 DEF IsCovered
  <2>3. PICK k \in DOMAIN covered :
          /\ user_addr[covered[k]] = want[t]
          /\ pos[t] = ListHead \/ \E j \in DOMAIN covered : j > k /\ pos[t] = covered[j]
    BY <2>1 DEF OnTheWay
  <2>4. i + m \in DOMAIN covered /\ covered'[i] = covered[i + m]
    BY <1>2, <1>3
  <2>5. k = i + m
    BY <2>2, <2>3, <2>4, OneAddressOneEntry
  <2>6. ASSUME NEW j \in DOMAIN covered, j > k
        PROVE  j - m \in DOMAIN covered' /\ j - m > i /\ covered'[j - m] = covered[j]
    BY <1>2, <1>3, <2>5, <2>6
  <2>7. i \in DOMAIN covered' /\ user_addr'[covered'[i]] = want'[t] /\ pos'[t] = pos[t]
    BY <1>3, <2>2 DEF walk
  <2> QED BY <2>3, <2>6, <2>7 DEF OnTheWay
<1> QED BY <1>4, <1>6, <1>7, <1>8

-----------------------------------------------------------------------------
\* A look-up that has ended is not on its way.
LEMMA ReturnStep ==
  ASSUME IInv, NEW t \in Threads, NEW x \in Answers, Return(t, x)
  PROVE  IInv'
<1> USE DEF Return, IInv, list
<1>1. TypeOK'
  BY DEF TypeOK, CellOr
<1>2. Chained' /\ Owned'
  BY DEF Chained, Owned
<1>3. \A u \in Threads : sure'[u] => OnTheWay(u)'
  BY DEF OnTheWay, TypeOK
<1> QED BY <1>1, <1>2, <1>3

LEMMA LookUpStep ==
  ASSUME IInv, NEW t \in Threads, NEW a \in Addresses, LookUp(t, a)
  PROVE  IInv'
<1> USE DEF LookUp, IInv, list
<1>1. TypeOK'
  <2>1. pos' \in [Threads -> CellOr({ListHead, None})] /\ want' \in [Threads -> Addresses \cup {None}]
        /\ answer' \in [Threads -> Answers]
    BY DEF TypeOK, CellOr, Answers
  <2>2. sure' \in [Threads -> BOOLEAN]
    <3>1. IsCovered(a, covered) \in BOOLEAN
      BY DEF IsCovered
    <3> QED BY <3>1 DEF TypeOK
  <2> QED BY <2>1, <2>2 DEF TypeOK
<1>2. Chained' /\ Owned'
  BY DEF Chained, Owned
<1>3. ASSUME NEW u \in Threads, sure'[u] PROVE OnTheWay(u)'
  <2>1. CASE u = t
    <3>1. IsCovered(a, covered) /\ pos'[u] = ListHead /\ want'[u] = a
      BY <1>3, <2>1 DEF TypeOK
    <3> QED BY <3>1 DEF IsCovered, OnTheWay
  <2>2. CASE u # t
    <3>1. sure[u] /\ pos'[u] = pos[u] /\ want'[u] = want[u]
      BY <1>3, <2>2 DEF TypeOK
    <3> QED BY <3>1 DEF OnTheWay
  <2> QED BY <2>1, <2>2
<1> QED BY <1>1, <1>2, <1>3

\* The entry passed is not the one looked for, so that one is further on.
LEMMA WalkOnStep ==
  ASSUME IInv, NEW t \in Threads, WalkOn(t)
  PROVE  IInv'
<1> USE DEF WalkOn, IInv, list, history
<1>1. TypeOK'
  BY DEF TypeOK, CellOr
<1>2. Chained' /\ Owned'
  BY DEF Chained, Owned
<1>3. ASSUME NEW u \in Threads, sure'[u] PROVE OnTheWay(u)'
  <2>1. CASE u = t
    <3>1. sure[t] /\ want'[t] = want[t] /\ pos'[t] = Reached(t)
      BY <1>3, <2>1 DEF TypeOK
    <3>2. PICK k \in DOMAIN covered, i \in DOMAIN covered :
            k <= i /\ user_addr[covered[k]] = want[t] /\ Reached(t) = covered[i]
      BY <3>1, NextIsCovered
    <3>3. k # i
      BY <3>2
    <3>4. i > k
      <4>1. DOMAIN covered = 1..Len(covered) /\ Len(covered) \in Nat
        BY DEF TypeOK
      <4> QED BY <3>2, <3>3, <4>1
    <3> QED BY <2>1, <3>1, <3>2, <3>4 DEF OnTheWay
  <2>2. CASE u # t
    <3>1. sure[u] /\ pos'[u] = pos[u] /\ want'[u] = want[u]
      BY <1>3, <2>2 DEF TypeOK
    <3> QED BY <3>1 DEF OnTheWay
  <2> QED BY <2>1, <2>2
<1> QED BY <1>1, <1>2, <1>3

\* The invariant is not about the kernel.
LEMMA KernelStep ==
  ASSUME IInv, UNCHANGED <<list, walk, history>>, kernel' \in {"up", "crashed"}
  PROVE  IInv'
<1> USE DEF IInv, list, walk, history
<1>1. TypeOK'
  BY DEF TypeOK
<1>2. Chained' /\ Owned'
  BY DEF Chained, Owned
<1>3. \A u \in Threads : sure'[u] => OnTheWay(u)'
  BY DEF OnTheWay
<1> QED BY <1>1, <1>2, <1>3

\* A look-up ends with something a look-up may return.
LEMMA WalkStep ==
  ASSUME IInv, NEW t \in Threads, Walk(t)
  PROVE  IInv'
<1>1. CASE NotFound(t)
  BY <1>1, ReturnStep DEF NotFound, Answers
<1>2. CASE Found(t)
  <2>1. phys_addr[Reached(t)] \in Answers
    BY <1>2 DEF Found, IInv, TypeOK, Answers
  <2> QED BY <1>2, <2>1, ReturnStep DEF Found
<1>3. CASE WalkOn(t)
  BY <1>3, WalkOnStep
<1>4. CASE Stray(t)
  <2>1. CASE Return(t, Junk)
    BY <2>1, ReturnStep DEF Answers
  <2>2. CASE kernel' = "crashed" /\ UNCHANGED <<list, walk, history>>
    BY <2>2, KernelStep
  <2> QED BY <1>4, <2>1, <2>2 DEF Stray
<1> QED BY <1>1, <1>2, <1>3, <1>4 DEF Walk

(***************************************************************************)
(* The inductive invariant: the covered entries are the front of the list, *)
(* and a thread that looks for one of them has only passed newer ones      *)
(* (279-302, 370-377).                                                     *)
(***************************************************************************)
THEOREM Invariance == Spec => []IInv
<1>1. IInv /\ UNCHANGED vars => IInv'
  BY KernelStep DEF IInv, TypeOK, vars
<1>2. IInv /\ Next => IInv'
  BY MmapStep, MmapFailsStep, ScribbleStep, LinkEntryStep, PublishStep, MunmapStep,
     LookUpStep, WalkStep DEF Next
<1> QED BY InitEstablishes, <1>1, <1>2, PTL DEF Spec

(***************************************************************************)
(* The types of the model of the driver's list (82-89, 279-383).           *)
(***************************************************************************)
THEOREM TypeCorrect == Spec => []TypeOK
<1>1. IInv => TypeOK
  BY DEF IInv
<1> QED BY Invariance, <1>1, PTL

(***************************************************************************)
(* The look-up of a covered buffer does not touch freed memory, although   *)
(* freed entries stay on the list (285-301).                               *)
(***************************************************************************)
THEOREM NoUse == Spec => []NoUseAfterFree
<1>1. IInv => NoUseAfterFree
  <2> SUFFICES ASSUME IInv, NEW t \in Threads, sure[t]
               PROVE  /\ pos[t] \in Cells => use[pos[t]] = "taken"
                      /\ Reached(t) \in Cells /\ use[Reached(t)] = "taken"
    BY DEF NoUseAfterFree
  <2>1. OnTheWay(t)
    BY DEF IInv
  <2>2. pos[t] = ListHead \/ \E j \in DOMAIN covered : pos[t] = covered[j]
    BY <2>1 DEF OnTheWay
  <2>3. \E i \in DOMAIN covered : Reached(t) = covered[i]
    BY NextIsCovered
  <2> QED BY <2>2, <2>3, CoveredEntries, BuffersAssumption DEF IInv
<1> QED BY Invariance, <1>1, PTL

-----------------------------------------------------------------------------
\* The refinement mapping, and what it makes of the steps.
Content(c) == [addr |-> user_addr[c], page |-> phys_addr[c]]
Buffered == [k \in DOMAIN covered |-> Content(covered[k])]
Asked == [t \in Threads |-> IF sure[t] THEN want[t] ELSE None]

USE DEF Content, Buffered, Asked

LEMMA InitMapped == Init => Map!Init
  BY DEF Init, Map!Init, Answers

\* A step that leaves the content of covered entries and the threads alone.
LEMMA Stutter ==
  ASSUME UNCHANGED <<covered, sure, want, answer>>,
         \A k \in DOMAIN covered : Content(covered[k])' = Content(covered[k])
  PROVE  UNCHANGED Map!vars
  BY DEF Map!vars

LEMMA ListStepsMapped ==
  ASSUME IInv, NEW c \in Cells,
         \/ \E a \in Addresses, p \in Pages : Mmap(a, p, c)
         \/ MmapFails(c) \/ Scribble(c) \/ LinkEntry
  PROVE  UNCHANGED Map!vars
<1> USE DEF walk, history
<1>1. \A k \in DOMAIN covered : covered[k] \in Cells /\ use[covered[k]] = "taken"
  BY CoveredEntries DEF IInv
<1>2. CASE \E a \in Addresses, p \in Pages : Mmap(a, p, c)
  BY <1>1, <1>2, Stutter DEF Mmap, IInv, TypeOK
<1>3. CASE MmapFails(c)
  BY <1>3, Stutter DEF MmapFails
<1>4. CASE Scribble(c)
  BY <1>1, <1>4, Stutter DEF Scribble, IInv, TypeOK
<1>5. CASE LinkEntry
  BY <1>5, Stutter DEF LinkEntry
<1> QED BY <1>2, <1>3, <1>4, <1>5

\* list_add takes effect when the head points to the new entry.
LEMMA PublishMapped ==
  ASSUME IInv, Publish
  PROVE  \E a \in Addresses, p \in Pages : Map!Malloc(a, p)
<1> DEFINE n == Len(covered)
<1>1. /\ covered \in Seq(Cells) /\ DOMAIN covered = 1..n /\ n \in Nat /\ adding \in Cells
      /\ covered' = Append(covered, adding)
      /\ DOMAIN covered' = 1..(n + 1)
      /\ covered'[n + 1] = adding /\ \A k \in 1..n : covered'[k] = covered[k]
  BY DEF Publish, IInv, TypeOK, CellOr
<1>2. user_addr[adding] \in Addresses /\ phys_addr[adding] \in Pages
  BY <1>1 DEF Publish, IInv, Owned
<1>3. ~Map!IsCovered(user_addr[adding], Buffered)
  <2>1. \A k \in DOMAIN covered : user_addr[covered[k]] # user_addr[adding]
    BY DEF Publish, IInv, Owned
  <2> QED BY <2>1 DEF Map!IsCovered
<1>4. Buffered' = Append(Buffered, Content(adding))
  <2>1. Buffered \in Seq({Content(c) : c \in Cells}) /\ Len(Buffered) = n
    BY <1>1
  <2>2. Append(Buffered, Content(adding)) =
          [k \in 1..(n + 1) |-> IF k = n + 1 THEN Content(adding) ELSE Buffered[k]]
    BY <2>1, AppendProperties
  <2>3. UNCHANGED <<user_addr, phys_addr>>
    BY DEF Publish
  <2> QED BY <1>1, <2>2, <2>3
<1>5. UNCHANGED <<Asked, answer>>
  BY DEF Publish, walk
<1> QED BY <1>2, <1>3, <1>4, <1>5 DEF Map!Malloc

\* Freeing a covered entry frees it in the map; freeing another changes nothing.
LEMMA MunmapMapped ==
  ASSUME IInv, NEW a \in Addresses, Munmap(a)
  PROVE  (\E k \in DOMAIN Buffered : Map!Free(k)) \/ UNCHANGED Map!vars
<1> DEFINE c == vma[a]  n == Len(covered)
<1>1. /\ TypeOK /\ Owned /\ c \in Cells /\ covered' = After(c)
      /\ UNCHANGED <<user_addr, phys_addr, want, answer>>
  BY DEF Munmap, IInv, TypeOK, CellOr, walk
<1>2. covered \in Seq(Cells) /\ DOMAIN covered = 1..n /\ n \in Nat
  BY <1>1 DEF TypeOK
<1>3. \A t \in Threads : sure'[t] = (sure[t] /\ IsCovered(want[t], covered'))
  BY DEF Munmap
<1>4. ASSUME NEW m \in DOMAIN covered, covered[m] = c PROVE Map!Free(m)
  <2>1. /\ covered' = SubSeq(covered, m + 1, n)
        /\ covered' \in Seq(Cells) /\ Len(covered') = n - m
        /\ \A i \in DOMAIN covered' : i + m \in DOMAIN covered /\ covered'[i] = covered[i + m]
    BY <1>1, <1>4, AfterFreeing
  <2>2. DOMAIN covered' = 1..(n - m)
    BY <1>2, <2>1
  <2>3. Buffered' = SubSeq(Buffered, m + 1, Len(Buffered))
    <3>1. Buffered \in Seq({Content(e) : e \in Cells}) /\ Len(Buffered) = n
      BY <1>2
    <3>2. SubSeq(Buffered, m + 1, n) = [i \in 1..(n - m) |-> Buffered[i + m]]
      BY <1>2, <3>1
    <3>3. Buffered' = [i \in 1..(n - m) |-> Content(covered'[i])]
      BY <1>1, <2>2
    <3>4. \A i \in 1..(n - m) : Buffered[i + m] = Content(covered'[i])
      BY <2>1, <2>2
    <3> HIDE DEF Content, Buffered
    <3> QED BY <3>1, <3>2, <3>3, <3>4
  <2>4. Asked' = [t \in Threads |-> IF Map!IsCovered(Asked[t], Buffered') THEN Asked[t] ELSE None]
    <3>1. \A t \in Threads : IsCovered(want[t], covered') <=> Map!IsCovered(want[t], Buffered')
      BY <1>1 DEF IsCovered, Map!IsCovered
    <3>2. ~Map!IsCovered(None, Buffered')
      <4>1. \A i \in DOMAIN covered' : user_addr[covered'[i]] \in Addresses
        BY <1>1, <2>1 DEF Owned
      <4> QED BY <1>1, <4>1, BuffersAssumption DEF Map!IsCovered
    <3> QED BY <1>1, <1>3, <3>1, <3>2
  <2> QED BY <1>1, <2>3, <2>4 DEF Map!Free
<1>5. ASSUME \A m \in DOMAIN covered : covered[m] # c PROVE UNCHANGED Map!vars
  <2>1. covered' = covered
    BY <1>1, <1>5, AfterFreeing
  <2>2. \A t \in Threads : sure[t] => IsCovered(want[t], covered)
    BY <1>1 DEF IInv, OnTheWay, IsCovered
  <2>3. sure' = sure
    BY <1>3, <2>1, <2>2 DEF IInv, TypeOK, Munmap
  <2> QED BY <1>1, <2>1, <2>3, Stutter
<1> QED BY <1>4, <1>5

LEMMA LookUpMapped ==
  ASSUME IInv, NEW t \in Threads, NEW a \in Addresses, LookUp(t, a)
  PROVE  Map!Ask(t, a)
<1>1. IsCovered(a, covered) <=> Map!IsCovered(a, Buffered)
  BY DEF IsCovered, Map!IsCovered
<1>2. Asked' = [Asked EXCEPT ![t] = IF Map!IsCovered(a, Buffered) THEN a ELSE None]
  BY <1>1 DEF LookUp, IInv, TypeOK
<1>3. answer' = [answer EXCEPT ![t] = NoPage] /\ NoPage \in Answers
  BY DEF LookUp, Answers
<1>4. UNCHANGED Buffered
  BY DEF LookUp, list
<1> QED BY <1>2, <1>3, <1>4 DEF Map!Ask

\* The answer to a thread that is sure is the page of its buffer.
LEMMA ReturnMapped ==
  ASSUME IInv, NEW t \in Threads, NEW x \in Answers, Return(t, x),
         sure[t] => \E i \in DOMAIN covered :
                      user_addr[covered[i]] = want[t] /\ x = phys_addr[covered[i]]
  PROVE  Map!Answer(t, x)
<1>1. ASSUME NEW k \in DOMAIN covered, user_addr[covered[k]] = Asked[t]
      PROVE  x = phys_addr[covered[k]]
  <2>1. sure[t]
    BY <1>1, CoveredEntries, BuffersAssumption DEF IInv
  <2> QED BY <1>1, <2>1, OneAddressOneEntry DEF IInv
<1>2. Asked' = [Asked EXCEPT ![t] = None]
  BY DEF Return, IInv, TypeOK
<1>3. answer' = [answer EXCEPT ![t] = x] /\ UNCHANGED Buffered
  BY DEF Return, list
<1> QED BY <1>1, <1>2, <1>3 DEF Map!Answer

LEMMA WalkMapped ==
  ASSUME IInv, NEW t \in Threads, Walk(t)
  PROVE  (\E x \in Answers : Map!Answer(t, x)) \/ UNCHANGED Map!vars
<1>1. sure[t] => \E k, i \in DOMAIN covered :
        k <= i /\ user_addr[covered[k]] = want[t] /\ Reached(t) = covered[i]
  BY NextIsCovered
<1>2. sure[t] => Reached(t) \in Cells /\ user_addr[Reached(t)] \in Addresses
  BY <1>1, CoveredEntries DEF IInv
<1>3. CASE NotFound(t)
  BY <1>2, <1>3, ReturnMapped, BuffersAssumption DEF NotFound, Answers
<1>4. CASE Found(t)
  <2>1. phys_addr[Reached(t)] \in Answers
    BY <1>4 DEF Found, IInv, TypeOK, Answers
  <2>2. sure[t] => \E i \in DOMAIN covered :
          user_addr[covered[i]] = want[t] /\ phys_addr[Reached(t)] = phys_addr[covered[i]]
    BY <1>1, <1>2, <1>4, BuffersAssumption DEF Found
  <2> QED BY <1>4, <2>1, <2>2, ReturnMapped DEF Found
<1>5. CASE WalkOn(t)
  BY <1>5, Stutter DEF WalkOn, list, history
<1>6. CASE Stray(t)
  <2>1. ~sure[t]
    BY <1>2, <1>6, BuffersAssumption DEF Stray
  <2>2. CASE Return(t, Junk)
    BY <2>1, <2>2, ReturnMapped DEF Answers
  <2>3. CASE kernel' = "crashed" /\ UNCHANGED <<list, walk, history>>
    BY <2>3, Stutter DEF list, walk, history
  <2> QED BY <1>6, <2>2, <2>3 DEF Stray
<1> QED BY <1>3, <1>4, <1>5, <1>6 DEF Walk

(***************************************************************************)
(* The driver's list keeps the promise of AddressMap for any number of     *)
(* threads, addresses, pages and cells: mmap adds a buffer when the head   *)
(* points to its entry, munmap takes it and the older ones away, and a     *)
(* look-up of a buffer that stays covered answers its page (279-302,       *)
(* 317-383).                                                               *)
(***************************************************************************)
THEOREM ListImplementsMap == Spec => ImplementsMap
<1>1. IInv /\ [Next]_vars => [Map!Next]_(Map!vars)
  <2> SUFFICES ASSUME IInv, [Next]_vars PROVE [Map!Next]_(Map!vars)
    OBVIOUS
  <2>1. CASE UNCHANGED vars
    BY <2>1, Stutter DEF vars, list, walk, history
  <2>2. CASE Next
    <3>1. ASSUME NEW c \in Cells,
                 \/ \E a \in Addresses, p \in Pages : Mmap(a, p, c)
                 \/ MmapFails(c) \/ Scribble(c)
          PROVE  UNCHANGED Map!vars
      BY <3>1, ListStepsMapped
    <3>2. CASE LinkEntry
      <4>1. adding \in Cells
        BY <3>2 DEF LinkEntry, IInv, TypeOK, CellOr
      <4> QED BY <3>2, <4>1, ListStepsMapped
    <3>3. CASE Publish
      BY <3>3, PublishMapped DEF Map!Next
    <3>4. ASSUME NEW a \in Addresses, Munmap(a) PROVE [Map!Next]_(Map!vars)
      BY <3>4, MunmapMapped DEF Map!Next
    <3>5. ASSUME NEW t \in Threads, NEW a \in Addresses, LookUp(t, a) PROVE Map!Next
      BY <3>5, LookUpMapped DEF Map!Next
    <3>6. ASSUME NEW t \in Threads, Walk(t) PROVE [Map!Next]_(Map!vars)
      BY <3>6, WalkMapped DEF Map!Next
    <3> QED BY <2>2, <3>1, <3>2, <3>3, <3>4, <3>5, <3>6 DEF Next
  <2> QED BY <2>1, <2>2
<1> QED BY InitMapped, Invariance, <1>1, PTL DEF Spec, ImplementsMap, Map!Spec
=============================================================================
