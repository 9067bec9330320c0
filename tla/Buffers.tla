------------------------------- MODULE Buffers -------------------------------
(***************************************************************************)
(* The driver's list of buffers (axitangxi_dev.c:279-383) under the        *)
(* library's malloc and free (libaxitangxi.c:116-154).  mmap puts a new    *)
(* entry in front of the list; munmap frees the entry but leaves it on the *)
(* list; the ioctl walks the list to find the page of an address.  One     *)
(* process with several threads: the kernel lets one of them at a time     *)
(* into mmap and munmap, and any number into the ioctl, which takes no     *)
(* lock.                                                                   *)
(*                                                                         *)
(* A cell is a piece of memory of the slab entries are allocated from.     *)
(* A freed cell keeps its content until it is allocated again, by mmap or  *)
(* by another part of the kernel, which fills it with Junk.                *)
(***************************************************************************)
EXTENDS Naturals, Sequences

CONSTANTS Threads,
          Addresses,   \* user addresses
          Pages,       \* physical memory for one buffer
          Cells

ListHead == "addr_list"
None == "none"
Junk == "junk"
NoPage == "0"          \* returned when the address is not found

ASSUME BuffersAssumption ==
  /\ {ListHead, None, Junk} \cap Cells = {}
  /\ {None, Junk} \cap Addresses = {} /\ {Junk, NoPage} \cap Pages = {}

VARIABLES
  use,                \* of each cell: "free" or "taken"
  link,               \* list.next of each cell and of the list's head
  user_addr, phys_addr,
  vma,                \* the entry behind each mapped address, or None
  adding,             \* the cell mmap is about to put on the list, or None
  pos, want,          \* of each thread: the entry its walk has reached and the
                      \* address it looks for, None when it does not walk
  answer,             \* what its last look-up returned
  kernel,             \* "up", or "crashed" by following Junk
  covered,            \* history: the entries of the buffers after which none
                      \* has been freed, the oldest first
  sure                \* history: whether a thread looks for one of them

list == <<use, link, user_addr, phys_addr, vma, adding>>
walk == <<pos, want, answer>>
history == <<covered, sure>>
vars == <<list, walk, kernel, history>>

Answers == Pages \cup {NoPage, Junk}

Init ==
  /\ use = [c \in Cells |-> "free"]
  /\ link = [c \in Cells \cup {ListHead} |-> IF c = ListHead THEN ListHead ELSE Junk]
  /\ user_addr = [c \in Cells |-> Junk] /\ phys_addr = [c \in Cells |-> Junk]
  /\ vma = [a \in Addresses |-> None] /\ adding = None
  /\ pos = [t \in Threads |-> None] /\ want = [t \in Threads |-> None]
  /\ answer = [t \in Threads |-> NoPage] /\ kernel = "up"
  /\ covered = <<>> /\ sure = [t \in Threads |-> FALSE]

(***************************************************************************)
(* mmap.  The page is freed before mmap returns, so any page may be given  *)
(* out at any time.  If there is none, or it cannot be mapped, the entry   *)
(* is lost.                                                                *)
(***************************************************************************)
Mmap(a, p, c) ==
  /\ kernel = "up" /\ adding = None /\ vma[a] = None /\ use[c] = "free"
  /\ use' = [use EXCEPT ![c] = "taken"]
  /\ user_addr' = [user_addr EXCEPT ![c] = a]
  /\ phys_addr' = [phys_addr EXCEPT ![c] = p]
  /\ vma' = [vma EXCEPT ![a] = c]
  /\ adding' = c
  /\ UNCHANGED <<link, walk, kernel, history>>

MmapFails(c) ==
  /\ kernel = "up" /\ adding = None /\ use[c] = "free"
  /\ use' = [use EXCEPT ![c] = "taken"]
  /\ UNCHANGED <<link, user_addr, phys_addr, vma, adding, walk, kernel, history>>

\* list_add: first the new entry points into the list, then the head to it.
LinkEntry ==
  /\ kernel = "up" /\ adding # None /\ link[adding] # link[ListHead]
  /\ link' = [link EXCEPT ![adding] = link[ListHead]]
  /\ UNCHANGED <<use, user_addr, phys_addr, vma, adding, walk, kernel, history>>

\* Two variants: the head points to the entry before the entry points on, and
\* the entry is added to itself.
PublishUnlinked ==
  /\ kernel = "up" /\ adding # None
  /\ link' = [link EXCEPT ![ListHead] = adding]
  /\ adding' = None
  /\ covered' = Append(covered, adding)
  /\ UNCHANGED <<use, user_addr, phys_addr, vma, walk, kernel, sure>>

PublishSelf ==
  /\ kernel = "up" /\ adding # None
  /\ link' = [link EXCEPT ![ListHead] = adding, ![adding] = adding]
  /\ adding' = None
  /\ covered' = Append(covered, adding)
  /\ UNCHANGED <<use, user_addr, phys_addr, vma, walk, kernel, sure>>

Publish ==
  /\ kernel = "up" /\ adding # None /\ link[adding] = link[ListHead]
  /\ link' = [link EXCEPT ![ListHead] = adding]
  /\ adding' = None
  /\ covered' = Append(covered, adding)
  /\ UNCHANGED <<use, user_addr, phys_addr, vma, walk, kernel, sure>>

(***************************************************************************)
(* munmap: vma_close frees the entry, which stays where it is on the list. *)
(***************************************************************************)
After(c) ==
  IF \E k \in DOMAIN covered : covered[k] = c
  THEN LET k == CHOOSE k \in DOMAIN covered : covered[k] = c
       IN SubSeq(covered, k + 1, Len(covered))
  ELSE covered

IsCovered(a, entries) == \E k \in DOMAIN entries : user_addr[entries[k]] = a

Munmap(a) ==
  /\ kernel = "up" /\ adding = None /\ vma[a] # None
  /\ use' = [use EXCEPT ![vma[a]] = "free"]
  /\ vma' = [vma EXCEPT ![a] = None]
  /\ covered' = After(vma[a])
  /\ sure' = [t \in Threads |-> sure[t] /\ IsCovered(want[t], covered')]
  /\ UNCHANGED <<link, user_addr, phys_addr, adding, walk, kernel>>

Scribble(c) ==
  /\ kernel = "up" /\ use[c] = "free" /\ link[c] # Junk
  /\ link' = [link EXCEPT ![c] = Junk]
  /\ user_addr' = [user_addr EXCEPT ![c] = Junk]
  /\ phys_addr' = [phys_addr EXCEPT ![c] = Junk]
  /\ UNCHANGED <<use, vma, adding, walk, kernel, history>>

(***************************************************************************)
(* The look-up, one step for one entry.                                    *)
(***************************************************************************)
LookUp(t, a) ==
  /\ kernel = "up" /\ pos[t] = None
  /\ pos' = [pos EXCEPT ![t] = ListHead]
  /\ want' = [want EXCEPT ![t] = a]
  /\ answer' = [answer EXCEPT ![t] = NoPage]
  /\ sure' = [sure EXCEPT ![t] = IsCovered(a, covered)]
  /\ UNCHANGED <<list, kernel, covered>>

Return(t, x) ==
  /\ pos' = [pos EXCEPT ![t] = None]
  /\ want' = [want EXCEPT ![t] = None]
  /\ answer' = [answer EXCEPT ![t] = x]
  /\ sure' = [sure EXCEPT ![t] = FALSE]
  /\ UNCHANGED <<list, kernel, covered>>

Walking(t) == kernel = "up" /\ pos[t] # None
Reached(t) == link[pos[t]]

NotFound(t) == Walking(t) /\ Reached(t) = ListHead /\ Return(t, NoPage)

\* Two variants: any entry is taken, and the wrong field is returned.
FoundAny(t) ==
  Walking(t) /\ Reached(t) \in Cells /\ Return(t, phys_addr[Reached(t)])

FoundUser(t) ==
  /\ Walking(t) /\ Reached(t) \in Cells
  /\ user_addr[Reached(t)] \in {want[t], Junk}
  /\ Return(t, user_addr[Reached(t)])

Found(t) ==
  /\ Walking(t) /\ Reached(t) \in Cells
  /\ user_addr[Reached(t)] \in {want[t], Junk}
  /\ Return(t, phys_addr[Reached(t)])

WalkOn(t) ==
  /\ Walking(t) /\ Reached(t) \in Cells
  /\ user_addr[Reached(t)] # want[t]
  /\ pos' = [pos EXCEPT ![t] = Reached(t)]
  /\ UNCHANGED <<list, want, answer, kernel, history>>

\* What is behind Junk may be read as an entry, or not be there at all.
Stray(t) ==
  /\ Walking(t) /\ Reached(t) = Junk
  /\ \/ Return(t, Junk)
     \/ kernel' = "crashed" /\ UNCHANGED <<list, walk, history>>

Walk(t) == NotFound(t) \/ Found(t) \/ WalkOn(t) \/ Stray(t)

Next ==
  \/ \E a \in Addresses, p \in Pages, c \in Cells : Mmap(a, p, c)
  \/ \E c \in Cells : MmapFails(c) \/ Scribble(c)
  \/ LinkEntry \/ Publish
  \/ \E a \in Addresses : Munmap(a)
  \/ \E t \in Threads, a \in Addresses : LookUp(t, a)
  \/ \E t \in Threads : Walk(t)

Spec == Init /\ [][Next]_vars

\* A thread in the kernel goes on; nobody need call the driver.
FairSpec == Spec /\ \A t \in Threads : WF_vars(Walk(t))
-----------------------------------------------------------------------------
CellOr(X) == Cells \cup X

TypeOK ==
  /\ use \in [Cells -> {"free", "taken"}]
  /\ link \in [CellOr({ListHead}) -> CellOr({ListHead, Junk})]
  /\ user_addr \in [Cells -> Addresses \cup {Junk}]
  /\ phys_addr \in [Cells -> Pages \cup {Junk}]
  /\ vma \in [Addresses -> CellOr({None})] /\ adding \in CellOr({None})
  /\ pos \in [Threads -> CellOr({ListHead, None})] /\ want \in [Threads -> Addresses \cup {None}]
  /\ answer \in [Threads -> Answers] /\ kernel \in {"up", "crashed"}
  /\ covered \in Seq(Cells) /\ sure \in [Threads -> BOOLEAN]

(***************************************************************************)
(* A look-up of a buffer finds its page although freed entries stay on the *)
(* list, get other content and are put on the list again, as long as no    *)
(* buffer allocated after it is freed (axitangxi_dev.c:279-302, 370-377).  *)
(***************************************************************************)
Map == INSTANCE AddressMap WITH
  covered <- [k \in DOMAIN covered |->
                [addr |-> user_addr[covered[k]], page |-> phys_addr[covered[k]]]],
  asked <- [t \in Threads |-> IF sure[t] THEN want[t] ELSE None]

ImplementsMap == Map!Spec

(***************************************************************************)
(* Nor does such a look-up touch an entry that has been freed: it never    *)
(* stands on one, and what it reaches next is not one (285-287).           *)
(***************************************************************************)
NoUseAfterFree ==
  \A t \in Threads : sure[t] /\ kernel = "up" =>
    /\ pos[t] \in Cells => use[pos[t]] = "taken"
    /\ Reached(t) \in Cells /\ use[Reached(t)] = "taken"

(***************************************************************************)
(* And it ends, although the list may have become a loop behind the        *)
(* entries it looks at (285).                                              *)
(***************************************************************************)
CoveredLookUpEnds ==
  \A t \in Threads : sure[t] ~> ~sure[t] \/ kernel = "crashed"

(***************************************************************************)
(* Two buffers that are mapped have different memory: the list holds the   *)
(* "parameters of different blocks of memory" (axitangxi_dev.c:88).        *)
(***************************************************************************)
BuffersDisjoint ==
  \A a, b \in Addresses :
    a # b /\ None \notin {vma[a], vma[b]} => phys_addr[vma[a]] # phys_addr[vma[b]]
=============================================================================
