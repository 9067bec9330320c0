----------------------- MODULE DriverLifecycle_proofs -----------------------
(***************************************************************************)
(* The invariants of DriverLifecycle for any number of processes and       *)
(* buffers, and that nobody is in the driver when its code goes.           *)
(***************************************************************************)
EXTENDS DriverLifecycle, TLAPS

Loading == {"map_irq", "request_irq", "add_cdev", "class_create", "device_create", "reg_map",
            "init_list"}
Unloading == {"free_irq", "reg_unmap", "unregister"}

\* The load has got as far as one of these steps, or to its end.
Reached(steps) == module = "live" \/ pc \in steps

Phases ==
  \/ module \in {"absent", "live"} /\ pc = "none"
  \/ module = "coming" /\ pc \in Loading
  \/ module = "going" /\ pc \in Unloading

\* Nobody is in the driver before the device is created or when it goes.
UsersCome ==
  \A p \in Processes : /\ fd[p] => Reached({"reg_map", "init_list"})
                       /\ maps[p] > 0 => module = "live"

\* What there is of a load when.
OwnComes ==
  /\ module = "absent" \/ pc = "map_irq" => \A r \in Resources : "own" \notin held[r]
  /\ pc = "request_irq" => "own" \notin held["irq"]
  /\ "own" \in held["irq"] => held["irq"] = {"own"} /\ "own" \in held["mapping"]
  /\ pc \in {"reg_unmap", "unregister"} /\ "own" \in held["mapping"] => held["irq"] = {}
  /\ pc \in {"request_irq", "add_cdev", "class_create"} => "own" \notin held["class"]
  /\ Reached({"device_create", "reg_map", "init_list"} \cup Unloading) => held["class"] = {"own"}
  /\ "own" \in held["device"] <=> Reached({"reg_map", "init_list"} \cup Unloading)

\* What the driver works with.
ReadyComes ==
  /\ regs # "none" <=> Reached({"init_list", "free_irq", "reg_unmap"})
  /\ list <=> module \in {"live", "going"}
  /\ flaws # {} => list

\* What failed loads leave.
StaleComes ==
  /\ "stale" \notin held["device"]
  /\ ~spoilt => "stale" \notin held["irq"] \cup held["class"]

\* What a load lacks was refused to it, but for its interrupt.
WholeSoFar ==
  /\ Reached(Loading \ {"map_irq"}) => "own" \in held["mapping"] \/ "mapping" \in refused
  /\ Reached(Loading \ {"map_irq", "request_irq"}) =>
       held["irq"] = {"own"} \/ "irq" \in refused \/ "mapping" \in refused \/ spoilt
  /\ Reached({"class_create", "device_create", "reg_map", "init_list"}) =>
       \A r \in {"region", "cdev"} : "own" \in held[r] \/ r \in refused
  /\ Reached({"init_list"}) => regs = "all" \/ "regs" \in refused

IInv ==
  /\ TypeOK /\ Phases /\ UsersCome /\ OwnComes /\ ReadyComes /\ StaleComes /\ WholeSoFar
  /\ SafeOnceLoaded

-----------------------------------------------------------------------------
THEOREM InitEstablishes == Init => IInv
<1> SUFFICES ASSUME Init PROVE IInv
  OBVIOUS
<1> USE DEF Init, Resources, Steps, Reached, Loading, Unloading
<1>1. TypeOK
  <2>1. held \in [Resources -> SUBSET {"own", "stale"}]
    OBVIOUS
  <2>2. maps \in [Processes -> 0..MaxMaps] /\ fd \in [Processes -> BOOLEAN]
    BY LifecycleAssumption
  <2> QED BY <2>1, <2>2, Zenon DEF TypeOK
<1>2. Phases /\ UsersCome /\ SafeOnceLoaded
  BY DEF Phases, UsersCome, SafeOnceLoaded
<1>3. OwnComes /\ ReadyComes /\ StaleComes /\ WholeSoFar
  BY DEF OwnComes, ReadyComes, StaleComes, WholeSoFar
<1> QED BY <1>1, <1>2, <1>3 DEF IInv

\* The steps of init and exit.
LEMMA LoadSteps ==
  ASSUME IInv,
         \/ Insmod \/ MapIrq \/ RequestIrq \/ AddCdev \/ ClassCreate \/ DeviceCreate \/ RegMap
         \/ InitList \/ Rmmod \/ FreeIrq \/ RegUnmap \/ Unregister
  PROVE  IInv'
<1> USE DEF IInv, TypeOK, Phases, UsersCome, OwnComes, ReadyComes, StaleComes, WholeSoFar,
            SafeOnceLoaded, Reached, Loading, Unloading, Resources, Steps, At, users
<1>1. CASE Insmod
  <2> USE <1>1 DEF Insmod
  <2>1. held' \in [Resources -> SUBSET {"own", "stale"}]  OBVIOUS
  <2>2. TypeOK'  BY <2>1
  <2>3. Phases' /\ UsersCome' /\ SafeOnceLoaded'  OBVIOUS
  <2>4. OwnComes'  OBVIOUS
  <2>5. ReadyComes' /\ StaleComes'  OBVIOUS
  <2>6. WholeSoFar'  OBVIOUS
  <2> QED BY <2>2, <2>3, <2>4, <2>5, <2>6
<1>2. CASE MapIrq
  <2> USE <1>2 DEF MapIrq
  <2>1. held' \in [Resources -> SUBSET {"own", "stale"}]  OBVIOUS
  <2>2. TypeOK'  BY <2>1
  <2>3. Phases' /\ UsersCome' /\ SafeOnceLoaded'  OBVIOUS
  <2>4. OwnComes'  OBVIOUS
  <2>5. ReadyComes' /\ StaleComes'  OBVIOUS
  <2>6. WholeSoFar'  OBVIOUS
  <2> QED BY <2>2, <2>3, <2>4, <2>5, <2>6
<1>3. CASE RequestIrq
  <2> USE <1>3 DEF RequestIrq, CanHaveIrq
  <2>1. held' \in [Resources -> SUBSET {"own", "stale"}]  OBVIOUS
  <2>2. TypeOK'  BY <2>1
  <2>3. Phases' /\ UsersCome' /\ SafeOnceLoaded'  OBVIOUS
  <2>4. OwnComes'  OBVIOUS
  <2>5. ReadyComes' /\ StaleComes'  OBVIOUS
  <2>6. WholeSoFar'  OBVIOUS
  <2> QED BY <2>2, <2>3, <2>4, <2>5, <2>6
<1>4. CASE AddCdev
  <2> USE <1>4 DEF AddCdev
  <2>1. held' \in [Resources -> SUBSET {"own", "stale"}]  OBVIOUS
  <2>2. TypeOK'  BY <2>1
  <2>3. Phases' /\ UsersCome' /\ SafeOnceLoaded'  OBVIOUS
  <2>4. OwnComes'  OBVIOUS
  <2>5. ReadyComes' /\ StaleComes'  OBVIOUS
  <2>6. WholeSoFar'  OBVIOUS
  <2> QED BY <2>2, <2>3, <2>4, <2>5, <2>6
<1>5. CASE ClassCreate
  <2> USE <1>5 DEF ClassCreate, Register, Fail
  <2>1. held' \in [Resources -> SUBSET {"own", "stale"}]  OBVIOUS
  <2>2. TypeOK'  BY <2>1
  <2>3. Phases' /\ UsersCome' /\ SafeOnceLoaded'  OBVIOUS
  <2>4. OwnComes'  OBVIOUS
  <2>5. ReadyComes' /\ StaleComes'  OBVIOUS
  <2>6. WholeSoFar'  OBVIOUS
  <2> QED BY <2>2, <2>3, <2>4, <2>5, <2>6
<1>6. CASE DeviceCreate
  <2> USE <1>6 DEF DeviceCreate, Register, Fail
  <2>1. held' \in [Resources -> SUBSET {"own", "stale"}]  OBVIOUS
  <2>2. TypeOK'  BY <2>1
  <2>3. Phases' /\ UsersCome' /\ SafeOnceLoaded'  OBVIOUS
  <2>4. OwnComes'  OBVIOUS
  <2>5. ReadyComes' /\ StaleComes'  OBVIOUS
  <2>6. WholeSoFar'  OBVIOUS
  <2> QED BY <2>2, <2>3, <2>4, <2>5, <2>6
<1>7. CASE RegMap
  <2> USE <1>7 DEF RegMap
  <2>1. held' \in [Resources -> SUBSET {"own", "stale"}]  OBVIOUS
  <2>2. TypeOK'  BY <2>1
  <2>3. Phases' /\ UsersCome' /\ SafeOnceLoaded'  OBVIOUS
  <2>4. OwnComes'  OBVIOUS
  <2>5. ReadyComes' /\ StaleComes'  OBVIOUS
  <2>6. WholeSoFar'  OBVIOUS
  <2> QED BY <2>2, <2>3, <2>4, <2>5, <2>6
<1>8. CASE InitList
  <2> USE <1>8 DEF InitList
  <2>1. held' \in [Resources -> SUBSET {"own", "stale"}]  OBVIOUS
  <2>2. TypeOK'  BY <2>1
  <2>3. Phases' /\ UsersCome' /\ SafeOnceLoaded'  OBVIOUS
  <2>4. OwnComes'  OBVIOUS
  <2>5. ReadyComes' /\ StaleComes'  OBVIOUS
  <2>6. WholeSoFar'  OBVIOUS
  <2> QED BY <2>2, <2>3, <2>4, <2>5, <2>6
<1>9. CASE Rmmod
  <2> USE <1>9, LifecycleAssumption DEF Rmmod, References
  <2>1. held' \in [Resources -> SUBSET {"own", "stale"}]  OBVIOUS
  <2>2. TypeOK'  BY <2>1
  <2>3. Phases' /\ UsersCome' /\ SafeOnceLoaded'  OBVIOUS
  <2>4. OwnComes'  OBVIOUS
  <2>5. ReadyComes' /\ StaleComes'  OBVIOUS
  <2>6. WholeSoFar'  OBVIOUS
  <2> QED BY <2>2, <2>3, <2>4, <2>5, <2>6
<1>10. CASE FreeIrq
  <2> USE <1>10 DEF FreeIrq
  <2>1. held' \in [Resources -> SUBSET {"own", "stale"}]  OBVIOUS
  <2>2. TypeOK'  BY <2>1
  <2>3. Phases' /\ UsersCome' /\ SafeOnceLoaded'  OBVIOUS
  <2>4. OwnComes'  OBVIOUS
  <2>5. ReadyComes' /\ StaleComes'  OBVIOUS
  <2>6. WholeSoFar'  OBVIOUS
  <2> QED BY <2>2, <2>3, <2>4, <2>5, <2>6
<1>11. CASE RegUnmap
  <2> USE <1>11 DEF RegUnmap
  <2>1. held' \in [Resources -> SUBSET {"own", "stale"}]  OBVIOUS
  <2>2. TypeOK'  BY <2>1
  <2>3. Phases' /\ UsersCome' /\ SafeOnceLoaded'  OBVIOUS
  <2>4. OwnComes'  OBVIOUS
  <2>5. ReadyComes' /\ StaleComes'  OBVIOUS
  <2>6. WholeSoFar'  OBVIOUS
  <2> QED BY <2>2, <2>3, <2>4, <2>5, <2>6
<1>12. CASE Unregister
  <2> USE <1>12 DEF Unregister
  <2>1. held' \in [Resources -> SUBSET {"own", "stale"}]  OBVIOUS
  <2>2. TypeOK'  BY <2>1
  <2>3. Phases' /\ UsersCome' /\ SafeOnceLoaded'  OBVIOUS
  <2>4. OwnComes'  OBVIOUS
  <2>5. ReadyComes' /\ StaleComes'  OBVIOUS
  <2>6. WholeSoFar'  OBVIOUS
  <2> QED BY <2>2, <2>3, <2>4, <2>5, <2>6
<1> QED BY <1>1, <1>2, <1>3, <1>4, <1>5, <1>6, <1>7, <1>8, <1>9, <1>10, <1>11, <1>12

\* The calls of a process.
LEMMA UserSteps ==
  ASSUME IInv, NEW p \in Processes,
         Open(p) \/ Close(p) \/ Malloc(p) \/ Free(p) \/ LoopbackCall(p) \/ Exit(p)
  PROVE  IInv'
<1> USE DEF IInv, TypeOK, Phases, UsersCome, OwnComes, ReadyComes, StaleComes, WholeSoFar,
            SafeOnceLoaded, Reached, Loading, Unloading, Resources, Steps, Flaws,
            Uses, IfLoaded, IfReady, MayCrash, Unmapped, Crash, load, users
<1>1. CASE Open(p)          BY <1>1 DEF Open
<1>2. CASE Close(p)         BY <1>2 DEF Close
<1>3. CASE Malloc(p)
  <2>1. CASE list
    <3>1. /\ maps' = [maps EXCEPT ![p] = @ + 1] /\ maps[p] < MaxMaps /\ fd[p]
          /\ kernel' \in {"up", "crashed"} /\ (kernel' = "crashed" => flaws # {})
          /\ UNCHANGED <<load, fd, busy>>
      BY <1>3, <2>1 DEF Malloc
    <3>2. maps' \in [Processes -> 0..MaxMaps]
      BY <3>1, LifecycleAssumption
    <3>3. UsersCome'
      BY <2>1, <3>1
    <3> QED BY <3>1, <3>2, <3>3
  <2>2. CASE ~list  BY <1>3, <2>2 DEF Malloc
  <2> QED BY <2>1, <2>2
<1>4. CASE Free(p)
  <2>1. /\ maps[p] > 0 /\ maps' = [maps EXCEPT ![p] = @ - 1] /\ fd' = fd
        /\ Unmapped(1) /\ list
    BY <1>4 DEF Free
  <2>2. maps' \in [Processes -> 0..MaxMaps]
    BY <2>1, LifecycleAssumption
  <2>3. UsersCome'
    BY <2>1
  <2> QED BY <2>1, <2>2, <2>3
<1>5. CASE LoopbackCall(p)  BY <1>5 DEF LoopbackCall
<1>6. CASE Exit(p)
  <2>1. module # "absent"
    BY <1>6 DEF Exit
  <2>2. fd' = [fd EXCEPT ![p] = FALSE] /\ maps' = [maps EXCEPT ![p] = 0]
        /\ Unmapped(maps[p])
    BY <1>6, <2>1 DEF Exit
  <2>3. TypeOK'
    BY <2>2, LifecycleAssumption
  <2>4. UsersCome'
    BY <2>2
  <2>5. maps[p] > 0 => list
    OBVIOUS
  <2> QED BY <2>2, <2>3, <2>4, <2>5
<1> QED BY <1>1, <1>2, <1>3, <1>4, <1>5, <1>6

\* An interrupt brings the kernel down only where one of the causes is.
LEMMA InterruptStep ==
  ASSUME IInv, Interrupt
  PROVE  IInv'
<1> USE DEF IInv, TypeOK, Phases, UsersCome, OwnComes, ReadyComes, StaleComes, WholeSoFar,
            SafeOnceLoaded, Reached, Loading, Unloading, Resources, Steps, load, users
<1>1. CASE /\ kernel' \in {"up", "crashed"} /\ UNCHANGED <<load, users>>
           /\ busy' \in BOOLEAN
           /\ kernel' = "crashed" =>
                module = "coming" \/ "stale" \in held["irq"] \/ flaws # {} \/ regs = "some"
  BY <1>1
<1>2. "own" \in held["irq"] /\ regs = "none" => module = "coming"
  OBVIOUS
<1> QED BY <1>1, <1>2 DEF Interrupt

(***************************************************************************)
(* The inductive invariant: which resources a load holds at which of its   *)
(* steps, what failed loads have left, and when anybody is in the driver   *)
(* (521-619).                                                              *)
(***************************************************************************)
THEOREM Invariance == Spec => []IInv
<1>1. IInv /\ UNCHANGED vars => IInv'
  BY DEF IInv, TypeOK, Phases, UsersCome, OwnComes, ReadyComes, StaleComes, WholeSoFar,
         SafeOnceLoaded, Reached, Loading, Unloading, Resources, Steps, vars, load, users
<1>2. IInv /\ Next => IInv'
  BY LoadSteps, UserSteps, InterruptStep DEF Next
<1> QED BY InitEstablishes, <1>1, <1>2, PTL DEF Spec

(***************************************************************************)
(* The types of the model of axitangxi_init, axitangxi_exit and their      *)
(* users (521-619).                                                        *)
(***************************************************************************)
THEOREM TypeCorrect == Spec => []TypeOK
<1>1. IInv => TypeOK
  BY DEF IInv
<1> QED BY Invariance, <1>1, PTL

(***************************************************************************)
(* The kernel goes down only by a load under way, by a failed one's        *)
(* handler, or by one of the four flaws of a driver in use, and never by   *)
(* an unloaded driver that had its interrupt, for any number of processes  *)
(* and buffers (553-591, 599-619).                                         *)
(***************************************************************************)
THEOREM Safety == Spec => []SafeOnceLoaded
<1>1. IInv => SafeOnceLoaded
  BY DEF IInv
<1> QED BY Invariance, <1>1, PTL

(***************************************************************************)
(* An unload leaves the mapping of the interrupt, and of the loads that    *)
(* failed before it no handler if it had the number of the line (550,      *)
(* 599-619).                                                               *)
(***************************************************************************)
THEOREM Unloaded == Spec => []NothingLeft
<1>1. IInv => NothingLeft
  <2> USE DEF IInv, TypeOK, Phases, OwnComes, ReadyComes, StaleComes, Reached, Loading,
              Unloading, Resources
  <2>1. ASSUME IInv, module = "absent" PROVE regs = "none" /\ ~list
    BY <2>1
  <2>2. ASSUME IInv, module = "absent", ~spoilt, NEW r \in {"irq", "class", "device"}
        PROVE  held[r] = {}
    BY <2>2
  <2> QED BY <2>1, <2>2 DEF NothingLeft
<1> QED BY Invariance, <1>1, PTL

(***************************************************************************)
(* A loaded driver has its class, device and list, and lacks only what was *)
(* refused to it or, of its interrupt, what a failed load keeps (521-596). *)
(***************************************************************************)
THEOREM Whole == Spec => []LoadedIsWhole
<1>1. IInv => LoadedIsWhole
  BY DEF IInv, TypeOK, OwnComes, ReadyComes, StaleComes, WholeSoFar, Reached, Loading,
         Unloading, Resources, LoadedIsWhole
<1> QED BY Invariance, <1>1, PTL

(***************************************************************************)
(* The code of the driver goes only when no process is in it, and takes    *)
(* its handler with it unless a load has failed (562-619).                 *)
(***************************************************************************)
THEOREM UnusedWhenGone == Spec => CodeGoesUnused
<1> DEFINE Goes == module # "absent" /\ module' = "absent"
           Unused == ~References /\ (spoilt' \/ held'["irq"] = {})
<1>1. IInv /\ [Next]_vars => [Goes => Unused]_vars
  <2> SUFFICES ASSUME IInv, Next, Goes
               PROVE  Unused
    OBVIOUS
  <2> USE DEF At, Register, Fail, load, users
  <2>1. CASE ClassCreate \/ DeviceCreate
    <3>1. pc \in {"class_create", "device_create"} /\ spoilt'
      BY <2>1 DEF ClassCreate, DeviceCreate
    <3>2. ~References
      BY <3>1 DEF IInv, Phases, UsersCome, Reached, References, Loading, Unloading
    <3> QED BY <3>1, <3>2
  <2>2. CASE \/ Insmod \/ MapIrq \/ RequestIrq \/ AddCdev \/ RegMap \/ InitList \/ Rmmod
             \/ FreeIrq \/ RegUnmap
    BY <2>2 DEF Insmod, MapIrq, RequestIrq, AddCdev, RegMap, InitList, Rmmod, FreeIrq, RegUnmap
  <2>3. CASE Unregister
    <3>1. pc = "unregister" /\ spoilt' = (spoilt /\ "own" \notin held["mapping"])
          /\ held'["irq"] = held["irq"] \ {"own"}
      BY <2>3 DEF Unregister, Resources
    <3>2. module = "going"
      BY <3>1 DEF IInv, Phases, Loading, Unloading
    <3>3. ~References
      BY <3>1, <3>2 DEF IInv, UsersCome, Reached, References
    <3>4. "own" \in held["mapping"] => held["irq"] = {}
      BY <3>1 DEF IInv, OwnComes
    <3>5. ~spoilt => held["irq"] \subseteq {"own"}
      BY DEF IInv, TypeOK, StaleComes, Resources
    <3> QED BY <3>1, <3>3, <3>4, <3>5
  <2>4. ASSUME NEW p \in Processes,
               Open(p) \/ Close(p) \/ Malloc(p) \/ Free(p) \/ LoopbackCall(p) \/ Exit(p)
        PROVE  FALSE
    BY <2>4 DEF Open, Close, Malloc, Free, LoopbackCall, Exit, Unmapped, IfLoaded, IfReady,
                Crash
  <2>5. CASE Interrupt
    BY <2>5 DEF Interrupt
  <2> QED BY <2>1, <2>2, <2>3, <2>4, <2>5 DEF Next
<1> QED BY Invariance, <1>1, PTL DEF Spec, CodeGoesUnused
=============================================================================
