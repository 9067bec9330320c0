--------------------------- MODULE DriverLifecycle ---------------------------
(***************************************************************************)
(* Loading and unloading the driver (axitangxi_dev.c:399-619) while        *)
(* processes open it through the library (libaxitangxi.c:36-154) and the   *)
(* PL raises interrupts.  A load does not notice that its interrupt,       *)
(* device number, character device or registers were refused: ret is       *)
(* unsigned (555) and the rest is not tested.  A load that fails further   *)
(* down returns without undoing what it has registered, and an unload      *)
(* keeps the mapping of the interrupt (550), which may be why the next     *)
(* load gets none (docs/resources/build.md:334).                           *)
(*                                                                         *)
(* Calls of the driver are atomic and one after another here; Loopback and *)
(* Buffers have their steps.  What processes write into the freed pages    *)
(* that mmap gave them (380), which may be anything of the kernel's, is    *)
(* left out: Buffers shows that they are shared.                           *)
(*                                                                         *)
(* The kernel is external: it takes a reference to the module for every    *)
(* open file and every mapping, unloads a module nobody refers to, opens a *)
(* device of a module that is loading, and may refuse any request.         *)
(***************************************************************************)
EXTENDS Naturals

CONSTANTS Processes,
          MaxMaps    \* bound: buffers a process has mapped

ASSUME LifecycleAssumption == MaxMaps \in Nat

\* "mapping" is the number of the interrupt line.
Resources == {"mapping", "irq", "region", "cdev", "class", "device"}
Steps == {"map_irq", "request_irq", "add_cdev", "class_create", "device_create", "reg_map",
          "init_list", "free_irq", "reg_unmap", "unregister"}

\* What makes a driver unsafe: a freed entry on its list, comp pointing into
\* a frame that is gone while the PL works, a pointer no mmap has returned.
Flaws == {"entry", "frame", "pointer"}

VARIABLES
  module,       \* "absent", "coming", "live" or "going"
  pc,           \* the next step of axitangxi_init or axitangxi_exit, or "none"
  held,         \* who has registered a resource: this load ("own") or an
                \* earlier one ("stale")
  regs,         \* how many of the registers are mapped: "none", "some" or "all"
  list,         \* whether addr_list is initialised
  flaws,        \* those of this load
  fd, maps,     \* of each process: whether the device is open, and its buffers
  busy,         \* the PL: at work for a transfer
  kernel,       \* "up" or "crashed"
  refused,      \* history: what the kernel refused this load
  spoilt        \* history: a load failed, and none that had the number of the
                \* interrupt line has been unloaded since

load == <<module, pc, held, regs, list, flaws, refused, spoilt>>
users == <<fd, maps>>
vars == <<load, users, busy, kernel>>

Init ==
  /\ module = "absent" /\ pc = "none" /\ held = [r \in Resources |-> {}]
  /\ regs = "none" /\ list = FALSE /\ flaws = {} /\ refused = {} /\ spoilt = FALSE
  /\ fd = [p \in Processes |-> FALSE] /\ maps = [p \in Processes |-> 0]
  /\ busy = FALSE /\ kernel = "up"

Crash == kernel' = "crashed" /\ UNCHANGED <<load, users, busy>>

(***************************************************************************)
(* axitangxi_init.  It registers nothing if the device tree has no node.   *)
(***************************************************************************)
Insmod ==
  /\ kernel = "up" /\ module = "absent"
  /\ module' = "coming" /\ pc' = "map_irq" /\ refused' = {}
  /\ UNCHANGED <<held, regs, list, flaws, spoilt, users, busy, kernel>>

At(step, next) == kernel = "up" /\ pc = step /\ pc' = next

\* The mapping an earlier load left is taken over, or is in the way.
MapIrq ==
  /\ At("map_irq", "request_irq")
  /\ \/ held' = [held EXCEPT !["mapping"] = {"own"}] /\ UNCHANGED refused
     \/ refused' = refused \cup {"mapping"} /\ UNCHANGED held
  /\ UNCHANGED <<module, regs, list, flaws, spoilt, users, busy, kernel>>

\* One handler per interrupt: a stale one keeps out the new one.
CanHaveIrq == "own" \in held["mapping"] /\ held["irq"] = {}

RequestIrq ==
  /\ At("request_irq", "add_cdev")
  /\ \/ CanHaveIrq /\ held' = [held EXCEPT !["irq"] = {"own"}] /\ UNCHANGED refused
     \/ CanHaveIrq /\ refused' = refused \cup {"irq"} /\ UNCHANGED held
     \/ ~CanHaveIrq /\ UNCHANGED <<held, refused>>
  /\ UNCHANGED <<module, regs, list, flaws, spoilt, users, busy, kernel>>

AddCdev ==
  /\ At("add_cdev", "class_create")
  /\ \E got \in SUBSET {"region", "cdev"} :
       /\ held' = [r \in Resources |-> held[r] \cup IF r \in got THEN {"own"} ELSE {}]
       /\ refused' = refused \cup ({"region", "cdev"} \ got)
  /\ UNCHANGED <<module, regs, list, flaws, spoilt, users, busy, kernel>>

\* The load returns an error; its code goes, what it has registered stays.
Fail ==
  /\ module' = "absent" /\ pc' = "none" /\ spoilt' = TRUE
  /\ held' = [r \in Resources |-> IF held[r] = {} THEN {} ELSE {"stale"}]
  /\ UNCHANGED <<regs, list, flaws, refused, users, busy, kernel>>

Register(r, step, next) ==
  /\ At(step, next)
  /\ held[r] = {} /\ held' = [held EXCEPT ![r] = {"own"}]
  /\ UNCHANGED <<module, regs, list, flaws, refused, spoilt, users, busy, kernel>>

\* A class of that name may be there already, or the kernel refuses it.
ClassCreate ==
  \/ Register("class", "class_create", "device_create")
  \/ kernel = "up" /\ pc = "class_create" /\ Fail

\* A variant that does not test what device_create returns.
DeviceCreateUntested ==
  \/ Register("device", "device_create", "reg_map")
  \/ /\ At("device_create", "reg_map")
     /\ UNCHANGED <<module, held, regs, list, flaws, refused, spoilt, users, busy, kernel>>

DeviceCreate ==
  \/ Register("device", "device_create", "reg_map")
  \/ kernel = "up" /\ pc = "device_create" /\ Fail

\* Any ioremap may return NULL.
RegMap ==
  /\ At("reg_map", "init_list")
  /\ \/ regs' = "all" /\ UNCHANGED refused
     \/ regs' = "some" /\ refused' = refused \cup {"regs"}
  /\ UNCHANGED <<module, held, list, flaws, spoilt, users, busy, kernel>>

InitList ==
  /\ At("init_list", "none") /\ list' = TRUE /\ module' = "live"
  /\ UNCHANGED <<held, regs, flaws, refused, spoilt, users, busy, kernel>>

(***************************************************************************)
(* axitangxi_exit.  free_irq removes the handler registered without a      *)
(* device, whoever did that, if this load knows the number of the line;    *)
(* the rest is found by the load's own handles.  irq_dispose_mapping is    *)
(* never called.                                                           *)
(***************************************************************************)
References == \E p \in Processes : fd[p] \/ maps[p] > 0

\* A variant of a driver that does not name itself as the owner.
RmmodAnyway ==
  /\ kernel = "up" /\ module = "live"
  /\ module' = "going" /\ pc' = "free_irq"
  /\ UNCHANGED <<held, regs, list, flaws, refused, spoilt, users, busy, kernel>>

Rmmod ==
  /\ kernel = "up" /\ module = "live" /\ ~References
  /\ module' = "going" /\ pc' = "free_irq"
  /\ UNCHANGED <<held, regs, list, flaws, refused, spoilt, users, busy, kernel>>

\* A variant that names a device request_irq was not told of.
FreeIrqOwn ==
  /\ At("free_irq", "reg_unmap")
  /\ held' = [held EXCEPT !["irq"] = @ \ {"own"}]
  /\ UNCHANGED <<module, regs, list, flaws, refused, spoilt, users, busy, kernel>>

FreeIrq ==
  /\ At("free_irq", "reg_unmap")
  /\ held' = [held EXCEPT !["irq"] = IF "own" \in held["mapping"] THEN {} ELSE @]
  /\ UNCHANGED <<module, regs, list, flaws, refused, spoilt, users, busy, kernel>>

RegUnmap ==
  /\ At("reg_unmap", "unregister") /\ regs' = "none"
  /\ UNCHANGED <<module, held, list, flaws, refused, spoilt, users, busy, kernel>>

\* Nobody opens a module that is going: one step for the four calls and the
\* freeing of the code, with its list and its pointers.
Unregister ==
  /\ At("unregister", "none")
  /\ held' = [r \in Resources |->
                IF r = "mapping" /\ held[r] # {} THEN {"stale"} ELSE held[r] \ {"own"}]
  /\ module' = "absent" /\ list' = FALSE /\ flaws' = {}
  /\ spoilt' = (spoilt /\ "own" \notin held["mapping"])
  /\ UNCHANGED <<regs, refused, users, busy, kernel>>

(***************************************************************************)
(* Processes: axitangxi_dev_init, _destroy, _malloc, _free, and the one    *)
(* ioctl that does something.  The node appears when the device is         *)
(* created, before the list it leads to is initialised.                    *)
(***************************************************************************)
Uses(p) == kernel = "up" /\ (fd[p] \/ maps[p] > 0)

\* Calls into the driver, which may be gone or not be ready.
IfLoaded(effect) == IF module = "absent" THEN Crash ELSE effect
IfReady(effect) == IF list THEN effect ELSE Crash

\* What reads or writes memory that is not its own may bring the kernel down.
MayCrash(danger) == kernel' \in IF danger THEN {"up", "crashed"} ELSE {"up"}

Open(p) ==
  /\ kernel = "up" /\ ~fd[p] /\ module \in {"coming", "live"}
  /\ \A r \in {"region", "cdev", "device"} : "own" \in held[r]
  /\ fd' = [fd EXCEPT ![p] = TRUE]
  /\ UNCHANGED <<load, maps, busy, kernel>>

Close(p) ==
  /\ Uses(p) /\ fd[p]
  /\ IfLoaded(fd' = [fd EXCEPT ![p] = FALSE] /\ UNCHANGED <<load, maps, busy, kernel>>)

\* list_add writes into the first entry of the list.
Malloc(p) ==
  /\ Uses(p) /\ fd[p] /\ maps[p] < MaxMaps
  /\ IfReady(/\ maps' = [maps EXCEPT ![p] = @ + 1] /\ MayCrash("entry" \in flaws)
             /\ UNCHANGED <<load, fd, busy>>)

\* axitangxi_vma_close frees entries and leaves them on the list.
Unmapped(entries) ==
  /\ flaws' = flaws \cup IF entries > 0 THEN {"entry"} ELSE {}
  /\ UNCHANGED <<module, pc, held, regs, list, refused, spoilt, busy, kernel>>

\* A variant that frees a buffer again.
FreeAgain(p) ==
  /\ Uses(p)
  /\ IfLoaded(maps' = [maps EXCEPT ![p] = @ - 1] /\ UNCHANGED fd /\ Unmapped(1))

Free(p) ==
  /\ Uses(p) /\ maps[p] > 0
  /\ IfLoaded(maps' = [maps EXCEPT ![p] = @ - 1] /\ UNCHANGED fd /\ Unmapped(1))

\* The process dies, and the kernel closes and unmaps what it had.
Exit(p) ==
  /\ Uses(p)
  /\ IfLoaded(/\ fd' = [fd EXCEPT ![p] = FALSE] /\ maps' = [maps EXCEPT ![p] = 0]
              /\ Unmapped(maps[p]))

\* The call looks its pointers up, reads the transmit buffer through the one
\* the process gave, known or not, and returns, in time or not: late leaves
\* the PL at work, and comp pointing into the frame of the call. (A call that
\* never returns keeps its process from all else: Loopback.)
LoopbackCall(p) ==
  /\ Uses(p) /\ fd[p]
  /\ IfReady(\E known, late \in BOOLEAN :
       /\ known => maps[p] > 0
       /\ busy' = late
       /\ flaws' = flaws \cup (IF known THEN {} ELSE {"pointer"})
                         \cup (IF late THEN {"frame"} ELSE {})
       /\ MayCrash(~known \/ "entry" \in flaws \/ regs = "some")
       /\ UNCHANGED <<module, pc, held, regs, list, refused, spoilt, users>>)

(***************************************************************************)
(* The PL raises an interrupt, its last or not.  The handler reads a       *)
(* register and may complete what comp points to.  The code of a stale     *)
(* handler has been freed, and may or may not still be there.              *)
(***************************************************************************)
Interrupt ==
  /\ kernel = "up" /\ busy
  /\ LET own == "own" \in held["irq"] IN
       /\ \/ ~(own /\ regs = "none") /\ kernel' = "up" /\ busy' \in BOOLEAN
          \/ /\ (own /\ (regs # "all" \/ "frame" \in flaws)) \/ "stale" \in held["irq"]
             /\ kernel' = "crashed" /\ UNCHANGED busy
       /\ UNCHANGED <<load, users>>

Next ==
  \/ Insmod \/ MapIrq \/ RequestIrq \/ AddCdev \/ ClassCreate \/ DeviceCreate \/ RegMap
  \/ InitList \/ Rmmod \/ FreeIrq \/ RegUnmap \/ Unregister
  \/ \E p \in Processes : \/ Open(p) \/ Close(p) \/ Malloc(p) \/ Free(p)
                           \/ LoopbackCall(p) \/ Exit(p)
  \/ Interrupt

Spec == Init /\ [][Next]_vars
-----------------------------------------------------------------------------
TypeOK ==
  /\ module \in {"absent", "coming", "live", "going"} /\ pc \in Steps \cup {"none"}
  /\ held \in [Resources -> SUBSET {"own", "stale"}]
  /\ regs \in {"none", "some", "all"} /\ list \in BOOLEAN /\ busy \in BOOLEAN
  /\ flaws \in SUBSET Flaws /\ refused \in SUBSET (Resources \cup {"regs"})
  /\ spoilt \in BOOLEAN
  /\ fd \in [Processes -> BOOLEAN] /\ maps \in [Processes -> 0..MaxMaps]
  /\ kernel \in {"up", "crashed"}

(***************************************************************************)
(* What brings the kernel down: a load under way, which publishes the      *)
(* handler and the device before what they use (553-591); the handler of a *)
(* load that failed (577-586); and a driver in use whose list has a freed  *)
(* entry, whose transfer has outlived its call, which was given a pointer  *)
(* of nobody's, or whose registers are not all there.  Unloading is none   *)
(* of them, nor is a process that keeps a buffer or dies: once a driver    *)
(* that had its interrupt is unloaded, nothing of it crashes the kernel    *)
(* (599-619).                                                              *)
(***************************************************************************)
SafeOnceLoaded ==
  kernel = "crashed" =>
    module = "coming" \/ "stale" \in held["irq"] \/ flaws # {} \/ regs = "some"

(***************************************************************************)
(* What an unload leaves: the mapping of the interrupt, which is never     *)
(* disposed of (550), and what earlier loads that failed have left: a      *)
(* device number with its cdev for ever, the handler until a load that has *)
(* the number of the line is unloaded (599-619).                           *)
(***************************************************************************)
NothingLeft ==
  module = "absent" =>
    /\ \A r \in Resources : "own" \notin held[r]
    /\ regs = "none" /\ ~list
    /\ ~spoilt => {r \in Resources : held[r] # {}} \subseteq {"mapping", "region", "cdev"}

(***************************************************************************)
(* A loaded driver has its class, device and list, and lacks nothing else  *)
(* that was not refused to it, except its interrupt, which it goes without *)
(* unnoticed also when its line has no number or a load that failed keeps  *)
(* the line (521-596).                                                     *)
(***************************************************************************)
LoadedIsWhole ==
  module = "live" =>
    /\ list /\ \A r \in {"class", "device"} : held[r] = {"own"}
    /\ \A r \in {"mapping", "region", "cdev"} \ refused : "own" \in held[r]
    /\ "regs" \notin refused => regs = "all"
    /\ held["irq"] = {"own"} \/ "irq" \in refused \/ "mapping" \in refused \/ spoilt

(***************************************************************************)
(* When the driver's code goes, with an unload or a load that fails, no    *)
(* process has the device open or a buffer mapped, and no handler stays    *)
(* unless a load has failed (562-619).                                     *)
(***************************************************************************)
CodeGoesUnused ==
  [][module # "absent" /\ module' = "absent" =>
       ~References /\ (spoilt' \/ held'["irq"] = {})]_vars
=============================================================================
