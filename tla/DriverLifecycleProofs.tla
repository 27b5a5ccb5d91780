------------------------ MODULE DriverLifecycleProofs ------------------------
(***************************************************************************)
(* Theorems about DriverLifecycle, for any number of units, devices and    *)
(* files, whatever fails and however probes and removes of different       *)
(* devices overlap: db_ptrs names no mapping that is gone, an ioctl keeps  *)
(* its mapping but for the interleavings the code leaves open, and what is *)
(* taken is given back, once, with the exceptions that are named.          *)
(***************************************************************************)
EXTENDS DriverLifecycle, TLAPS

DeviceStep(d) == Probe(d) \/ ProbeStep(d) \/ Detach(d) \/ RemoveStep(d)
FileStep(f) == Open(f) \/ Ioctl(f) \/ IoctlEnds(f) \/ Close(f)

-----------------------------------------------------------------------------
(* Facts about the parts of the actions. *)

\* The units of either build are numbered from 1.
LEMMA UnitsAreUnits ==
    ASSUME TypeOK
    PROVE  /\ Units \subseteq 1..ConfigCount
           /\ 0 \notin Units /\ Units \subseteq Nat
  BY LifecycleAssumption DEF TypeOK, Units

\* A pointer is none, or that of a device.
LEMMA PointerKinds ==
    /\ Null \in Pointers /\ Err \in Pointers /\ Devices \subseteq Pointers
    /\ Null \notin Devices /\ Err \notin Devices /\ Null # Err
    /\ "none" \notin Pointers
  BY LifecycleAssumption DEF Pointers

\* The clean-up keeps the types of what it changes.
LEMMA CleanupTyped ==
    ASSUME TypeOK, NEW c \in {"null", "live", "err"}, NEW d \in BOOLEAN,
           Cleanup(c, d), owner' \in BOOLEAN
    PROVE  /\ {region', registered', cdev'} \subseteq BOOLEAN
           /\ class' \in {"null", "live", "err"}
           /\ strays' \subseteq Units
           /\ over' \subseteq {"region", "cdev", "mapping"}
  BY DEF TypeOK, Cleanup, Missing

\* The build is chosen once.
LEMMA UnitsFixed ==
    ASSUME [Next]_vars
    PROVE  build' = build /\ Units' = Units
<1>1. build' = build
  BY DEF Next, vars, InitExit, ProbeStep, RemoveStep, Load, LoadNoRegion,
     LoadNoDriver, Loading, Unload, Exit, CreateClass, ClassFails, AddCdev, CdevFails,
     PassUnit, TakeUnit, CreateNode, NodeFails, MapUnit, MapFails, Probed, Probe,
     SkipUnit, DropUnit, UnmapUnit, ForgetUnit, DestroyNode, Detached, Detach, Open,
     Ioctl, IoctlEnds, Close
<1> QED  BY <1>1 DEF Units

\* The processes change nothing of the driver.
LEMMA FilesOnly ==
    ASSUME NEW f \in Files, FileStep(f)
    PROVE  UNCHANGED <<build, module, statics, bridges, sysfs, core, history>>
  BY DEF FileStep, Open, Ioctl, IoctlEnds, Close

\* A step of one device's probe or remove leaves those of the others alone.
LEMMA OthersStay ==
    ASSUME TypeOK, NEW d \in Devices, DeviceStep(d)
    PROVE  /\ module' = module /\ file' = file /\ call' = call
           /\ pc' \in [Devices -> Places] /\ unit' \in [Devices -> Nat \ {0}]
           /\ fresh' \in [Devices -> BOOLEAN]
           /\ bound' \subseteq Devices /\ \A e \in Devices \ {d} : e \in bound' <=> e \in bound
           /\ \A e \in Devices \ {d} : pc'[e] = pc[e] /\ unit'[e] = unit[e]
<1>1. \E to \in Places : pc' = [pc EXCEPT ![d] = to] \/ pc' = pc
  BY DEF DeviceStep, ProbeStep, RemoveStep, Probe, Detach, CreateClass, ClassFails,
     AddCdev, CdevFails, PassUnit, TakeUnit, CreateNode, NodeFails, MapUnit, MapFails,
     Probed, SkipUnit, DropUnit, UnmapUnit, ForgetUnit, DestroyNode, Detached,
     ProbeEnds, At, Places, Removal
<1>2. \/ unit' = unit \/ unit' = [unit EXCEPT ![d] = 1]
      \/ unit' = [unit EXCEPT ![d] = unit[d] + 1]
  BY DEF DeviceStep, ProbeStep, RemoveStep, Probe, Detach, CreateClass, ClassFails,
     AddCdev, CdevFails, PassUnit, TakeUnit, CreateNode, NodeFails, MapUnit, MapFails,
     Probed, SkipUnit, DropUnit, UnmapUnit, ForgetUnit, DestroyNode, Detached, ProbeEnds
<1>3. \E b \in BOOLEAN : fresh' = fresh \/ fresh' = [fresh EXCEPT ![d] = b]
  BY DEF DeviceStep, ProbeStep, RemoveStep, Probe, Detach, CreateClass, ClassFails,
     AddCdev, CdevFails, PassUnit, TakeUnit, CreateNode, NodeFails, MapUnit, MapFails,
     Probed, SkipUnit, DropUnit, UnmapUnit, ForgetUnit, DestroyNode, Detached, ProbeEnds
<1>4. bound' \in {bound, bound \cup {d}, bound \ {d}}
  BY DEF DeviceStep, ProbeStep, RemoveStep, Probe, Detach, CreateClass, ClassFails,
     AddCdev, CdevFails, PassUnit, TakeUnit, CreateNode, NodeFails, MapUnit, MapFails,
     Probed, SkipUnit, DropUnit, UnmapUnit, ForgetUnit, DestroyNode, Detached, ProbeEnds
<1>5. module' = module /\ file' = file /\ call' = call
  BY DEF DeviceStep, ProbeStep, RemoveStep, Probe, Detach, CreateClass, ClassFails,
     AddCdev, CdevFails, PassUnit, TakeUnit, CreateNode, NodeFails, MapUnit, MapFails,
     Probed, SkipUnit, DropUnit, UnmapUnit, ForgetUnit, DestroyNode, Detached, users
<1>6. /\ pc \in [Devices -> Places] /\ unit \in [Devices -> Nat \ {0}]
      /\ fresh \in [Devices -> BOOLEAN] /\ bound \subseteq Devices
  BY DEF TypeOK
<1>7. pc' \in [Devices -> Places] /\ \A e \in Devices \ {d} : pc'[e] = pc[e]
  BY <1>1, <1>6
<1>8. unit' \in [Devices -> Nat \ {0}] /\ \A e \in Devices \ {d} : unit'[e] = unit[e]
  BY <1>2, <1>6
<1>9. fresh' \in [Devices -> BOOLEAN]
  BY <1>3, <1>6
<1> QED  BY <1>4, <1>5, <1>6, <1>7, <1>8, <1>9

-----------------------------------------------------------------------------
\* TypeOK holds before the module is loaded,
LEMMA TypeInit == Init => TypeOK
<1> SUFFICES ASSUME Init PROVE TypeOK
  OBVIOUS
<1>1. /\ file \in [Files -> Units \cup {0}] /\ call \in [Files -> Pointers \cup {"none"}]
      /\ ptr \in [1..ConfigCount -> Pointers]
  BY DEF Init, Nowhere, Pointers
<1>2. /\ pc \in [Devices -> Places] /\ unit \in [Devices -> Nat \ {0}]
      /\ fresh \in [Devices -> BOOLEAN] /\ \A d \in Devices : pc[d] = "idle"
  BY DEF Init, Places
<1>3. /\ build \in {"res", "config"} /\ module \in {"out", "in", "leaving"}
      /\ class \in {"null", "live", "err"}
      /\ {region, registered, owner, cdev, crowded} \subseteq BOOLEAN
  BY DEF Init
<1>4. /\ live = {} /\ nodes = {} /\ strays = {} /\ bound = {} /\ loose = {}
      /\ raced = {} /\ failed = {} /\ over = {}
  BY DEF Init
<1> QED  BY <1>1, <1>2, <1>3, <1>4 DEF TypeOK

\* and is kept by every step.
LEMMA TypeStep == TypeOK /\ [Next]_vars => TypeOK'
<1> SUFFICES ASSUME TypeOK, [Next]_vars PROVE TypeOK'
  OBVIOUS
<1>b. build' = build /\ Units' = Units
  BY UnitsFixed
<1>1. CASE InitExit
  <2>1. /\ UNCHANGED <<live, nodes, core, users>>
        /\ module' \in {"out", "in", "leaving"}
        /\ ptr' \in {ptr, Nowhere} /\ owner' \in BOOLEAN /\ crowded' \in BOOLEAN
    BY <1>1 DEF InitExit, Load, LoadNoRegion, LoadNoDriver, Loading, Unload, Exit,
       TypeOK, statics, bridges, sysfs, core, users, history
  <2>2. /\ {region', registered', cdev'} \subseteq BOOLEAN
        /\ class' \in {"null", "live", "err"} /\ strays' \subseteq Units
        /\ failed' \subseteq {"region", "register", "class", "cdev", "device", "map"}
        /\ over' \subseteq {"region", "cdev", "mapping"}
    <3>1. CASE Load \/ LoadNoDriver \/ Unload
      BY <3>1 DEF Load, LoadNoDriver, Loading, Unload, TypeOK, statics, sysfs, history
    <3>2. CASE LoadNoRegion
      BY <3>2, <2>1, CleanupTyped DEF LoadNoRegion, TypeOK
    <3>3. CASE Exit
      BY <3>3, <2>1, CleanupTyped DEF Exit, TypeOK
    <3> QED  BY <1>1, <3>1, <3>2, <3>3 DEF InitExit
  <2>3. ptr' \in [1..ConfigCount -> Pointers]
    BY <2>1 DEF Nowhere, Pointers, TypeOK
  <2> QED  BY <1>b, <2>1, <2>2, <2>3 DEF TypeOK, core, users
<1>2. ASSUME NEW d \in Devices, DeviceStep(d)
      PROVE  TypeOK'
  <2>0. /\ module' = module /\ file' = file /\ call' = call
        /\ pc' \in [Devices -> Places] /\ unit' \in [Devices -> Nat \ {0}]
        /\ fresh' \in [Devices -> BOOLEAN] /\ bound' \subseteq Devices
        /\ \A e \in Devices \ {d} : pc'[e] = pc[e] /\ unit'[e] = unit[e]
    BY <1>2, OthersStay
  <2>1. pc'[d] \in {"node", "map", "unmap", "forget", "destroy"} => unit'[d] \in Units
    <3>1. CASE Probe(d) \/ Detach(d)
      BY <3>1 DEF Probe, Detach, At, TypeOK
    <3>2. CASE ProbeStep(d)
      BY <3>2 DEF ProbeStep, CreateClass, ClassFails, AddCdev, CdevFails, PassUnit,
         TakeUnit, CreateNode, NodeFails, MapUnit, MapFails, Probed, ProbeEnds, At, TypeOK
    <3>3. CASE RemoveStep(d)
      BY <3>3 DEF RemoveStep, SkipUnit, DropUnit, UnmapUnit, ForgetUnit, DestroyNode,
         Detached, At, TypeOK
    <3> QED  BY <1>2, <3>1, <3>2, <3>3 DEF DeviceStep
  <2>2. \A e \in Devices :
           pc'[e] \in {"node", "map", "unmap", "forget", "destroy"} => unit'[e] \in Units
    BY <2>0, <2>1 DEF TypeOK
  <2>3. ptr' \in [1..ConfigCount -> Pointers] /\ live' \subseteq Units \X Devices
    <3>1. CASE MapUnit(d)
      <4>1. unit[d] \in Units /\ d \in Pointers
        BY <3>1, PointerKinds DEF MapUnit, At, TypeOK
      <4>2. ptr' = [ptr EXCEPT ![unit[d]] = d] /\ live' = live \cup {<<unit[d], d>>}
        BY <3>1 DEF MapUnit
      <4>3. /\ ptr \in [1..ConfigCount -> Pointers] /\ live \subseteq Units \X Devices
            /\ <<unit[d], d>> \in Units \X Devices
        BY <4>1 DEF TypeOK
      <4>4. live' \subseteq Units \X Devices
        BY <4>2, <4>3, Zenon
      <4>5. ptr' \in [1..ConfigCount -> Pointers]
        BY <4>1, <4>2, <4>3
      <4> QED  BY <4>4, <4>5
    <3>2. CASE MapFails(d)
      BY <3>2, PointerKinds DEF MapFails, TypeOK
    <3>3. CASE ForgetUnit(d)
      BY <3>3, PointerKinds DEF ForgetUnit, TypeOK
    <3>4. CASE UnmapUnit(d) \/ Detached(d)
      BY <3>4 DEF UnmapUnit, Detached, TypeOK
    <3>5. CASE UNCHANGED bridges
      BY <3>5 DEF bridges, TypeOK
    <3> QED
      BY <1>2, <3>1, <3>2, <3>3, <3>4, <3>5
      DEF DeviceStep, Probe, Detach, ProbeStep, RemoveStep, CreateClass, ClassFails,
          AddCdev, CdevFails, PassUnit, TakeUnit, CreateNode, NodeFails, Probed,
          SkipUnit, DropUnit, DestroyNode
  <2>4. nodes' \subseteq Units
    <3>1. CASE CreateNode(d) \/ DestroyNode(d)
      BY <3>1 DEF CreateNode, DestroyNode, At, TypeOK
    <3>2. CASE UNCHANGED nodes
      BY <3>2 DEF TypeOK
    <3> QED
      BY <1>2, <3>1, <3>2
      DEF DeviceStep, Probe, Detach, ProbeStep, RemoveStep, CreateClass, ClassFails,
          AddCdev, CdevFails, PassUnit, TakeUnit, NodeFails, MapUnit, MapFails, Probed,
          SkipUnit, DropUnit, UnmapUnit, ForgetUnit, Detached, sysfs
  <2>5. /\ {region', registered', owner', cdev', crowded'} \subseteq BOOLEAN
        /\ class' \in {"null", "live", "err"} /\ strays' \subseteq Units
        /\ failed' \subseteq {"region", "register", "class", "cdev", "device", "map"}
        /\ over' \subseteq {"region", "cdev", "mapping"}
        /\ loose' \subseteq Files /\ raced' \subseteq Files
    <3>1. CASE ClassFails(d) \/ CdevFails(d) \/ NodeFails(d)
      <4>1. /\ owner' \in BOOLEAN /\ UNCHANGED <<users, crowded>>
            /\ failed' \subseteq {"region", "register", "class", "cdev", "device", "map"}
        BY <3>1 DEF ClassFails, CdevFails, NodeFails, TypeOK
      <4>2. \E c \in {"null", "live", "err"}, x \in BOOLEAN : Cleanup(c, x)
        BY <3>1 DEF ClassFails, CdevFails, NodeFails, TypeOK
      <4> QED  BY <4>1, <4>2, CleanupTyped DEF TypeOK, users
    <3>2. CASE Probe(d) \/ Detach(d)
      BY <3>2 DEF Probe, Detach, Overlap, TypeOK, statics, sysfs, users
    <3>3. CASE CreateClass(d) \/ AddCdev(d) \/ MapFails(d) \/ UnmapUnit(d)
      BY <3>3 DEF CreateClass, AddCdev, MapFails, UnmapUnit, TypeOK, statics, sysfs,
         users, history
    <3>4. CASE UNCHANGED <<statics, strays, users, history>>
      BY <3>4 DEF TypeOK, statics, users, history
    <3> QED
      BY <1>2, <3>1, <3>2, <3>3, <3>4
      DEF DeviceStep, ProbeStep, RemoveStep, PassUnit, TakeUnit, CreateNode, MapUnit,
          Probed, SkipUnit, DropUnit, ForgetUnit, DestroyNode, Detached, sysfs
  <2> QED  BY <1>b, <2>0, <2>2, <2>3, <2>4, <2>5 DEF TypeOK
<1>3. ASSUME NEW f \in Files, FileStep(f)
      PROVE  TypeOK'
  <2>1. UNCHANGED <<module, statics, bridges, sysfs, core, history>>
    BY <1>3, FilesOnly
  <2>2. /\ file' \in [Files -> Units \cup {0}] /\ loose' \subseteq Files
        /\ call' \in [Files -> Pointers \cup {"none"}] /\ raced' \subseteq Files
    <3>1. CASE Open(f)
      <4>1. PICK u \in nodes : file' = [file EXCEPT ![f] = u]
        BY <3>1 DEF Open
      <4>2. /\ u \in Units /\ file \in [Files -> Units \cup {0}]
            /\ call' = call /\ raced' = raced /\ loose' \subseteq Files
        BY <1>3, <3>1 DEF Open, TypeOK
      <4> QED  BY <1>b, <4>1, <4>2 DEF TypeOK
    <3>2. CASE Ioctl(f)
      BY <1>b, <1>3, <3>2, UnitsAreUnits DEF Ioctl, TypeOK
    <3>3. CASE IoctlEnds(f) \/ Close(f)
      BY <1>b, <3>3 DEF IoctlEnds, Close, TypeOK
    <3> QED  BY <1>3, <3>1, <3>2, <3>3 DEF FileStep
  <2> QED  BY <1>b, <2>1, <2>2 DEF TypeOK, statics, bridges, sysfs, core, history
<1>4. CASE UNCHANGED vars
  <2>1. UNCHANGED <<build, module, region, class, registered, owner, cdev>>
    BY <1>4 DEF vars, statics
  <2>2. UNCHANGED <<ptr, live, nodes, strays, bound, pc, unit, fresh>>
    BY <1>4 DEF vars, bridges, sysfs, core
  <2>3. UNCHANGED <<file, call, loose, raced, failed, crowded, over>>
    BY <1>4 DEF vars, users, history
  <2> QED  BY <1>b, <2>1, <2>2, <2>3 DEF TypeOK
<1> QED  BY <1>1, <1>2, <1>3, <1>4 DEF Next, DeviceStep, FileStep

\* Every state of the driver's life cycle is well typed: in particular a node is
\* made for a unit only and the pointers are NULL, an error, or that of a device
\* (xil_xvc_init, probe, remove, xil_xvc_exit).
THEOREM TypeCorrect == Spec => []TypeOK
  BY TypeInit, TypeStep, PTL DEF Spec

-----------------------------------------------------------------------------
(* db_ptrs *)

\* remove has cleared its device from the pointers of the units it has passed.
Swept ==
    \A d \in Devices, u \in Units :
        \/ pc[d] \in {"remove", "unmap", "forget"} /\ u < unit[d]
        \/ pc[d] = "destroy" /\ u <= unit[d]
        => ptr[u] # d

\* A probe or remove begins with the first unit.
Rested == \A d \in Devices : pc[d] = "idle" => unit[d] = 1

PointerInv == TypeOK /\ Swept /\ Rested /\ NoDangling

\* The pointers are clear at first,
LEMMA PointerInit == Init => PointerInv
<1> SUFFICES ASSUME Init PROVE PointerInv
  OBVIOUS
<1>1. \A d \in Devices : pc[d] = "idle" /\ unit[d] = 1
  BY DEF Init
<1>2. Swept /\ Rested /\ NoDangling
  BY <1>1 DEF Init, Swept, Rested, NoDangling
<1> QED  BY <1>2, TypeInit DEF PointerInv

\* What a step of one device does to a pointer and to the mappings: it stores its
\* own where it maps, none where that fails, and NULL where it removes; and a
\* mapping goes where its pointer is about to, or with its device.
PointerChange(d) ==
    \/ ptr' = ptr /\ live \subseteq live'
    \/ /\ pc[d] = "map" /\ pc'[d] = "unit"
       /\ ptr' = [ptr EXCEPT ![unit[d]] = d] /\ live' = live \cup {<<unit[d], d>>}
    \/ /\ pc[d] \in {"map", "forget"} /\ live' = live
       /\ \E x \in {Null, Err} : ptr' = [ptr EXCEPT ![unit[d]] = x]
       /\ pc[d] = "forget" => ptr' = [ptr EXCEPT ![unit[d]] = Null]
    \/ /\ pc[d] = "unmap" /\ pc'[d] = "forget" /\ unit' = unit /\ ptr' = ptr
       /\ live \ live' \subseteq {<<unit[d], ptr[unit[d]]>>}
    \/ /\ pc[d] = "remove" /\ unit[d] \notin Units /\ build = "res" /\ ptr' = ptr
       /\ live \ live' \subseteq {m \in live : m[2] = d}

LEMMA PointersChange ==
    ASSUME TypeOK, NEW d \in Devices, DeviceStep(d)
    PROVE  PointerChange(d)
<1>1. CASE MapUnit(d)
  BY <1>1 DEF MapUnit, At, TypeOK, PointerChange
<1>2. CASE MapFails(d)
  <2>1. pc[d] = "map" /\ live' = live
    BY <1>2 DEF MapFails, ProbeEnds, At
  <2>2. \E x \in {Null, Err} : ptr' = [ptr EXCEPT ![unit[d]] = x]
    BY <1>2 DEF MapFails
  <2> QED  BY <2>1, <2>2 DEF PointerChange
<1>3. CASE ForgetUnit(d)
  BY <1>3 DEF ForgetUnit, At, PointerChange
<1>4. CASE UnmapUnit(d)
  <2>1. pc[d] = "unmap" /\ pc'[d] = "forget" /\ unit' = unit /\ ptr' = ptr
    BY <1>4 DEF UnmapUnit, At, TypeOK
  <2>2. live \ live' \subseteq {<<unit[d], ptr[unit[d]]>>}
    BY <1>4 DEF UnmapUnit
  <2> QED  BY <2>1, <2>2 DEF PointerChange
<1>5. CASE Detached(d)
  <2>1. pc[d] = "remove" /\ unit[d] \notin Units /\ ptr' = ptr
    BY <1>5 DEF Detached, At
  <2>2. CASE build = "res"
    BY <1>5, <2>1, <2>2 DEF Detached, PointerChange
  <2>3. CASE build # "res"
    BY <1>5, <2>1, <2>3 DEF Detached, PointerChange
  <2> QED  BY <2>2, <2>3
<1>6. CASE UNCHANGED bridges
  BY <1>6 DEF bridges, PointerChange
<1> QED
  BY <1>1, <1>2, <1>3, <1>4, <1>5, <1>6
  DEF DeviceStep, Probe, Detach, ProbeStep, RemoveStep, CreateClass, ClassFails,
      AddCdev, CdevFails, PassUnit, TakeUnit, CreateNode, NodeFails, Probed,
      SkipUnit, DropUnit, DestroyNode

\* A remove passes a unit whose pointer is NULL.
LEMMA RemovePasses ==
    ASSUME TypeOK, Rested, NEW d \in Devices, DeviceStep(d), NEW u \in Units,
           \/ pc'[d] \in {"remove", "unmap", "forget"} /\ u < unit'[d]
           \/ pc'[d] = "destroy" /\ u <= unit'[d]
    PROVE  \/ /\ ptr'[u] = ptr[u]
              /\ \/ pc[d] \in {"remove", "unmap", "forget"} /\ u < unit[d]
                 \/ pc[d] = "destroy" /\ u <= unit[d]
           \/ ptr'[u] = Null
<1>1. /\ Units \subseteq 1..ConfigCount /\ unit[d] \in Nat /\ u \in Nat /\ u # 0
      /\ ptr \in [1..ConfigCount -> Pointers]
  BY UnitsAreUnits DEF TypeOK
<1>2. CASE Detach(d) \/ Probe(d)
  <2>1. unit'[d] = 1
    BY <1>2 DEF Detach, Probe, At, Rested
  <2>2. pc'[d] # "destroy"
    BY <1>2 DEF Detach, Probe, At, TypeOK
  <2> QED  BY <1>1, <2>1, <2>2
<1>3. CASE ProbeStep(d)
  <2>1. pc'[d] \notin Removal
    BY <1>3 DEF ProbeStep, CreateClass, ClassFails, AddCdev, CdevFails, PassUnit,
       TakeUnit, CreateNode, NodeFails, MapUnit, MapFails, Probed, ProbeEnds, At, TypeOK,
       Removal
  <2> QED  BY <2>1 DEF Removal
<1>4. CASE SkipUnit(d)
  <2>1. /\ ptr' = ptr /\ ptr[unit[d]] = Null /\ pc[d] = "remove" /\ pc' = pc
        /\ unit'[d] = unit[d] + 1
    BY <1>4 DEF SkipUnit, bridges, TypeOK
  <2> QED  BY <1>1, <2>1
<1>5. CASE DropUnit(d) \/ UnmapUnit(d)
  <2>1. /\ ptr' = ptr /\ pc[d] \in {"remove", "unmap"} /\ pc'[d] \in {"unmap", "forget"}
        /\ unit' = unit
    BY <1>5 DEF DropUnit, UnmapUnit, At, bridges, TypeOK
  <2> QED  BY <2>1
<1>6. CASE ForgetUnit(d)
  <2>1. /\ ptr' = [ptr EXCEPT ![unit[d]] = Null] /\ pc[d] = "forget" /\ unit' = unit
        /\ pc'[d] = "destroy"
    BY <1>6 DEF ForgetUnit, At, TypeOK
  <2> QED  BY <1>1, <2>1
<1>7. CASE DestroyNode(d)
  <2>1. /\ ptr' = ptr /\ pc[d] = "destroy" /\ pc'[d] = "remove" /\ unit'[d] = unit[d] + 1
    BY <1>7 DEF DestroyNode, At, bridges, TypeOK
  <2> QED  BY <1>1, <2>1
<1>8. CASE Detached(d)
  <2>1. pc'[d] = "idle"
    BY <1>8 DEF Detached, At, TypeOK
  <2> QED  BY <2>1
<1> QED  BY <1>2, <1>3, <1>4, <1>5, <1>6, <1>7, <1>8 DEF DeviceStep, RemoveStep

\* Every step keeps the pointers true.
LEMMA PointerStep == PointerInv /\ [Next]_vars => PointerInv'
<1> SUFFICES ASSUME PointerInv, [Next]_vars PROVE PointerInv'
  OBVIOUS
<1>a. /\ TypeOK /\ Units \subseteq 1..ConfigCount /\ Units \subseteq Nat /\ 0 \notin Units
      /\ ptr \in [1..ConfigCount -> Pointers] /\ Swept /\ Rested /\ NoDangling
  BY UnitsAreUnits DEF PointerInv, TypeOK
<1>b. TypeOK' /\ Units' = Units
  BY <1>a, TypeStep, UnitsFixed
\* Loading clears the pointers, unloading makes the property empty.
<1>1. CASE InitExit
  <2>1. CASE Load \/ LoadNoRegion \/ LoadNoDriver
    <3>1. UNCHANGED core /\ \A u \in Units : ptr'[u] = Null
      BY <1>a, <2>1 DEF Load, LoadNoRegion, LoadNoDriver, Loading, Nowhere
    <3>2. \A u \in Units : ptr'[u] \notin Devices
      BY <3>1, PointerKinds
    <3> QED  BY <1>a, <1>b, <3>1, <3>2 DEF PointerInv, Swept, Rested, NoDangling, core
  <2>2. CASE Unload \/ Exit
    <3>1. UNCHANGED <<bridges, core>> /\ (module' # "out" => module # "out")
      BY <2>2 DEF Unload, Exit
    <3> QED  BY <1>a, <1>b, <3>1 DEF PointerInv, Swept, Rested, NoDangling, bridges, core
  <2> QED  BY <1>1, <2>1, <2>2 DEF InitExit
<1>2. ASSUME NEW d \in Devices, DeviceStep(d)
      PROVE  PointerInv'
  <2>0. /\ module' = module /\ unit' \in [Devices -> Nat \ {0}]
        /\ \A e \in Devices \ {d} : pc'[e] = pc[e] /\ unit'[e] = unit[e]
        /\ PointerChange(d) /\ unit[d] \in Nat
    BY <1>2, <1>a, OthersStay, PointersChange DEF TypeOK
  <2>1. Rested'
    <3>1. pc'[d] = "idle" => unit'[d] = 1
      BY <1>2, <1>a
      DEF DeviceStep, Probe, Detach, ProbeStep, RemoveStep, CreateClass, ClassFails,
          AddCdev, CdevFails, PassUnit, TakeUnit, CreateNode, NodeFails, MapUnit,
          MapFails, Probed, SkipUnit, DropUnit, UnmapUnit, ForgetUnit, DestroyNode,
          Detached, ProbeEnds, At, TypeOK
    <3> QED  BY <1>a, <2>0, <3>1 DEF Rested
  <2>2. \A u \in Units : ptr'[u] = ptr[u] \/ ptr'[u] \notin Devices
                         \/ (ptr'[u] = d /\ pc'[d] = "unit")
    BY <1>a, <2>0, PointerKinds DEF PointerChange
  <2>3. Swept'
    <3> SUFFICES ASSUME NEW e \in Devices, NEW u \in Units,
                        \/ pc'[e] \in {"remove", "unmap", "forget"} /\ u < unit'[e]
                        \/ pc'[e] = "destroy" /\ u <= unit'[e]
                 PROVE  ptr'[u] # e
      BY <1>b DEF Swept
    <3>1. CASE e = d
      BY <1>2, <1>a, <3>1, RemovePasses, PointerKinds DEF Swept
    <3>2. CASE e # d
      <4>1. ptr[u] # e
        BY <1>a, <2>0, <3>2 DEF Swept
      <4> QED  BY <2>2, <3>2, <4>1
    <3> QED  BY <3>1, <3>2
  <2>4. NoDangling'
    <3> SUFFICES ASSUME NEW u \in Units, module # "out", ptr'[u] \in Devices,
                        \A e \in Devices : ~(pc'[e] = "forget" /\ unit'[e] = u)
                 PROVE  <<u, ptr'[u]>> \in live'
      BY <1>b, <2>0 DEF NoDangling
    <3>1. pc[d] = "forget" /\ unit[d] = u => ptr'[u] = Null
      <4>1. ASSUME pc[d] = "forget", unit[d] = u, ptr'[u] # Null PROVE FALSE
        <5>1. ForgetUnit(d)
          BY <1>2, <4>1 DEF DeviceStep, Probe, Detach, ProbeStep, RemoveStep,
             CreateClass, ClassFails, AddCdev, CdevFails, PassUnit, TakeUnit, CreateNode,
             NodeFails, MapUnit, MapFails, Probed, SkipUnit, DropUnit, UnmapUnit,
             DestroyNode, Detached, ProbeEnds, At
        <5> QED  BY <1>a, <4>1, <5>1 DEF ForgetUnit
      <4> QED  BY <4>1
    <3>2. ASSUME ptr'[u] = ptr[u], ptr[u] \in Devices
          PROVE  <<u, ptr[u]>> \in live
      <4>1. \A e \in Devices : ~(pc[e] = "forget" /\ unit[e] = u)
        BY <2>0, <3>1, <3>2, PointerKinds
      <4> QED  BY <1>a, <3>2, <4>1 DEF NoDangling
    <3>3. CASE ptr' = ptr /\ live \subseteq live'
      BY <3>2, <3>3
    <3>4. CASE /\ ptr' = [ptr EXCEPT ![unit[d]] = d]
               /\ live' = live \cup {<<unit[d], d>>}
      BY <1>a, <3>2, <3>4
    <3>5. CASE live' = live /\ \E x \in {Null, Err} : ptr' = [ptr EXCEPT ![unit[d]] = x]
      BY <1>a, <3>2, <3>5, PointerKinds
    <3>6. CASE /\ pc'[d] = "forget" /\ unit' = unit /\ ptr' = ptr
               /\ live \ live' \subseteq {<<unit[d], ptr[unit[d]]>>}
      <4>1. u # unit[d] /\ <<u, ptr[u]>> \in live
        BY <3>2, <3>6
      <4> QED  BY <3>6, <4>1
    <3>7. CASE /\ pc[d] = "remove" /\ unit[d] \notin Units /\ build = "res" /\ ptr' = ptr
               /\ live \ live' \subseteq {m \in live : m[2] = d}
      <4>1. u < unit[d]
        BY <1>a, <2>0, <3>7 DEF Units, TypeOK
      <4>2. ptr[u] # d
        BY <1>a, <3>7, <4>1 DEF Swept
      <4> QED  BY <3>2, <3>7, <4>2
    <3> QED  BY <2>0, <3>3, <3>4, <3>5, <3>6, <3>7 DEF PointerChange
  <2> QED  BY <1>b, <2>1, <2>3, <2>4 DEF PointerInv
<1>3. ASSUME NEW f \in Files, FileStep(f)
      PROVE  PointerInv'
  <2>1. UNCHANGED <<module, bridges, core>>
    BY <1>3, FilesOnly
  <2> QED  BY <1>a, <1>b, <2>1 DEF PointerInv, Swept, Rested, NoDangling, bridges, core
<1>4. CASE UNCHANGED vars
  BY <1>a, <1>b, <1>4 DEF vars, PointerInv, Swept, Rested, NoDangling, bridges, core
<1> QED  BY <1>1, <1>2, <1>3, <1>4 DEF Next, DeviceStep, FileStep

\* db_ptrs never names a mapping that is gone, however many units and devices
\* there are, whatever fails, and however their probes and removes overlap, but
\* between iounmap and the next store of a remove (xvc_driver_base.c:167-183 and
\* 189-223).
THEOREM PointersLive == Spec => []NoDangling
<1>1. PointerInv => NoDangling
  BY DEF PointerInv
<1> QED  BY <1>1, PointerInit, PointerStep, PTL DEF Spec

-----------------------------------------------------------------------------
(* Where the driver is. *)

\* The driver core calls probe only while the module is in, and remove only
\* while it is in or leaving; an open file pins the module.
Staged ==
    /\ module = "out" => bound = {} /\ Idle
    /\ \A f \in Files : /\ file[f] # 0 => module = "in"
                        /\ call[f] # "none" => file[f] # 0
    /\ build = "config" => \A u \in Units : ptr[u] # Err

LEMMA StagedInit == Init => Staged
<1> SUFFICES ASSUME Init PROVE Staged
  OBVIOUS
<1>1. \A f \in Files : file[f] = 0 /\ call[f] = "none"
  BY DEF Init
<1>2. build = "config" => \A u \in Units : ptr[u] # Err
  BY PointerKinds DEF Init, Units, Nowhere
<1>3. bound = {} /\ Idle
  BY DEF Init, Idle
<1> QED  BY <1>1, <1>2, <1>3 DEF Staged

LEMMA StagedStep == TypeOK /\ Staged /\ [Next]_vars => Staged'
<1> SUFFICES ASSUME TypeOK, Staged, [Next]_vars PROVE Staged'
  OBVIOUS
<1>a. /\ Units \subseteq 1..ConfigCount /\ ptr \in [1..ConfigCount -> Pointers]
      /\ 0 \notin Units
      /\ file \in [Files -> Units \cup {0}] /\ call \in [Files -> Pointers \cup {"none"}]
  BY UnitsAreUnits DEF TypeOK
<1>b. build' = build /\ Units' = Units
  BY UnitsFixed
<1>1. CASE InitExit
  <2>1. UNCHANGED <<core, users>> /\ ptr' \in {ptr, Nowhere}
    BY <1>1 DEF InitExit, Load, LoadNoRegion, LoadNoDriver, Loading, Unload, Exit,
       bridges, users
  <2>2. build = "config" => \A u \in Units : ptr'[u] # Err
    BY <1>a, <2>1, PointerKinds DEF Staged, Nowhere
  <2>3. module' = "out" => bound = {} /\ Idle
    BY <1>1 DEF InitExit, Load, LoadNoRegion, LoadNoDriver, Loading, Unload, Exit, Staged
  <2>4. \A f \in Files : file[f] # 0 => module' = "in"
    BY <1>1 DEF InitExit, Load, LoadNoRegion, LoadNoDriver, Loading, Unload, Exit,
       Staged, Pinned
  <2> QED  BY <1>b, <2>1, <2>2, <2>3, <2>4 DEF Staged, Idle, core, users
<1>2. ASSUME NEW d \in Devices, DeviceStep(d)
      PROVE  Staged'
  <2>1. module' = module /\ file' = file /\ call' = call
    BY <1>2, OthersStay
  <2>2. module # "out"
    <3>1. CASE Probe(d) \/ Detach(d)
      BY <3>1 DEF Probe, Detach
    <3>2. CASE ProbeStep(d) \/ RemoveStep(d)
      <4>1. pc[d] # "idle"
        BY <3>2 DEF ProbeStep, RemoveStep, CreateClass, ClassFails, AddCdev, CdevFails,
           PassUnit, TakeUnit, CreateNode, NodeFails, MapUnit, MapFails, Probed,
           SkipUnit, DropUnit, UnmapUnit, ForgetUnit, DestroyNode, Detached, ProbeEnds, At
      <4> QED  BY <4>1 DEF Staged, Idle
    <3> QED  BY <1>2, <3>1, <3>2 DEF DeviceStep
  <2>3. build = "config" => \A u \in Units : ptr'[u] # Err
    <3>1. CASE MapFails(d)
      BY <1>a, <3>1, PointerKinds DEF MapFails, Staged
    <3>2. CASE MapUnit(d)
      BY <1>a, <3>2, PointerKinds DEF MapUnit, Staged
    <3>3. CASE ForgetUnit(d)
      BY <1>a, <3>3, PointerKinds DEF ForgetUnit, Staged
    <3>4. CASE ptr' = ptr
      BY <3>4 DEF Staged
    <3> QED
      BY <1>2, <3>1, <3>2, <3>3, <3>4
      DEF DeviceStep, Probe, Detach, ProbeStep, RemoveStep, CreateClass, ClassFails,
          AddCdev, CdevFails, PassUnit, TakeUnit, CreateNode, NodeFails, Probed,
          SkipUnit, DropUnit, UnmapUnit, DestroyNode, Detached, bridges
  <2> QED  BY <1>b, <2>1, <2>2, <2>3 DEF Staged
<1>3. ASSUME NEW f \in Files, FileStep(f)
      PROVE  Staged'
  <2>1. UNCHANGED <<module, bridges, core>>
    BY <1>3, FilesOnly
  <2>2. \A g \in Files : /\ file'[g] # 0 => module = "in"
                         /\ call'[g] # "none" => file'[g] # 0
    <3>1. CASE Open(f)
      BY <1>a, <3>1 DEF Open, Staged
    <3>2. CASE Ioctl(f)
      BY <1>a, <3>2 DEF Ioctl, Staged
    <3>3. CASE IoctlEnds(f)
      BY <1>a, <3>3 DEF IoctlEnds, Staged
    <3>4. CASE Close(f)
      BY <1>a, <3>4 DEF Close, Staged
    <3> QED  BY <1>3, <3>1, <3>2, <3>3, <3>4 DEF FileStep
  <2> QED  BY <1>b, <2>1, <2>2 DEF Staged, Idle, bridges, core
<1>4. CASE UNCHANGED vars
  BY <1>b, <1>4 DEF vars, Staged, Idle, bridges, core, users
<1> QED  BY <1>1, <1>2, <1>3, <1>4 DEF Next, DeviceStep, FileStep

-----------------------------------------------------------------------------
(* The static variables, and the mappings of the res build. *)

\* What the class says, and what the region and the cdev have failed by.
Held ==
    /\ class = "null" => ~registered
    /\ class = "err" => "class" \in failed
    /\ cdev => owner
    /\ module # "out" => /\ ~region => failed \cap {"cdev", "device"} # {}
                         /\ owner /\ ~cdev => failed \cap {"cdev", "device"} # {}
    /\ strays \subseteq nodes

\* A mapping the kernel will release has its device bound, or about to be.
Managed ==
    build = "res" =>
        \A m \in live : m[2] \in bound \/ (pc[m[2]] = "unit" /\ unit[m[2]] \notin Units)

LEMMA HeldInit == Init => Held /\ Managed
  BY DEF Init, Held, Managed

\* The clean-up, run for a failure or at the end.
LEMMA HeldCleanup ==
    ASSUME TypeOK, NEW c \in {"null", "live", "err"}, NEW d \in BOOLEAN, Cleanup(c, d),
           owner' \in BOOLEAN, d => owner', c = "null" => ~registered,
           strays \subseteq nodes, nodes' = nodes
    PROVE  /\ class' = "null" => ~registered'
           /\ class' = "err" => c = "err"
           /\ cdev' => owner'
           /\ strays' \subseteq nodes'
  BY DEF TypeOK, Cleanup

LEMMA HeldStep == TypeOK /\ Held /\ [Next]_vars => Held'
<1> SUFFICES ASSUME TypeOK, Held, [Next]_vars PROVE Held'
  OBVIOUS
<1>1. CASE InitExit
  <2>1. CASE Load \/ LoadNoDriver
    BY <2>1 DEF Load, LoadNoDriver, Loading, NothingHeld, Held
  <2>2. CASE LoadNoRegion
    <3>1. /\ Cleanup("null", FALSE) /\ owner' = FALSE /\ nodes' = nodes
          /\ module' = "out" /\ ~registered
      BY <2>2 DEF LoadNoRegion, Loading, NothingHeld
    <3> QED  BY <3>1, HeldCleanup DEF Held
  <2>3. CASE Unload
    BY <2>3 DEF Unload, Held, statics, sysfs, history
  <2>4. CASE Exit
    <3>1. /\ Cleanup(class, cdev) /\ owner' = owner /\ nodes' = nodes
          /\ module' = "out" /\ failed' = failed
      BY <2>4 DEF Exit
    <3> QED  BY <3>1, HeldCleanup DEF Held, TypeOK
  <2> QED  BY <1>1, <2>1, <2>2, <2>3, <2>4 DEF InitExit
<1>2. ASSUME NEW d \in Devices, DeviceStep(d)
      PROVE  Held'
  <2>0. module' = module
    BY <1>2, OthersStay
  <2>1. CASE CreateClass(d)
    BY <2>0, <2>1 DEF CreateClass, Held, sysfs, history
  <2>2. CASE ClassFails(d)
    <3>1. /\ Cleanup("err", cdev) /\ owner' = owner /\ nodes' = nodes
          /\ failed' = failed \cup {"class"}
      BY <2>2 DEF ClassFails
    <3> QED  BY <2>0, <3>1 DEF Held, Cleanup
  <2>3. CASE AddCdev(d)
    BY <2>0, <2>3 DEF AddCdev, Held, sysfs, history
  <2>4. CASE CdevFails(d)
    <3>1. /\ Cleanup(class, FALSE) /\ owner' = TRUE /\ nodes' = nodes
          /\ failed' = failed \cup {"cdev"}
      BY <2>4 DEF CdevFails
    <3>2. failed' \cap {"cdev", "device"} # {}
      BY <3>1
    <3> QED  BY <2>0, <3>1, <3>2, HeldCleanup DEF Held, TypeOK
  <2>5. CASE NodeFails(d)
    <3>1. /\ Cleanup(class, cdev) /\ owner' = owner /\ nodes' = nodes
          /\ failed' = failed \cup {"device"}
      BY <2>5 DEF NodeFails
    <3>2. failed' \cap {"cdev", "device"} # {}
      BY <3>1
    <3> QED  BY <2>0, <3>1, <3>2, HeldCleanup DEF Held, TypeOK
  <2>6. CASE MapFails(d)
    BY <2>0, <2>6 DEF MapFails, Held, statics, sysfs
  <2>7. CASE CreateNode(d) \/ DestroyNode(d)
    BY <2>0, <2>7 DEF CreateNode, DestroyNode, Held, statics, history
  <2>8. CASE UNCHANGED <<statics, sysfs, failed>>
    BY <2>0, <2>8 DEF Held, statics, sysfs
  <2> QED
    BY <1>2, <2>1, <2>2, <2>3, <2>4, <2>5, <2>6, <2>7, <2>8
    DEF DeviceStep, Probe, Detach, ProbeStep, RemoveStep, PassUnit, TakeUnit, MapUnit,
        Probed, SkipUnit, DropUnit, UnmapUnit, ForgetUnit, Detached, history
<1>3. ASSUME NEW f \in Files, FileStep(f)
      PROVE  Held'
  BY <1>3, FilesOnly DEF Held, statics, sysfs, history
<1>4. CASE UNCHANGED vars
  BY <1>4 DEF vars, Held, statics, sysfs, history
<1> QED  BY <1>1, <1>2, <1>3, <1>4 DEF Next, DeviceStep, FileStep

LEMMA ManagedStep == TypeOK /\ Rested /\ Managed /\ [Next]_vars => Managed'
<1> SUFFICES ASSUME TypeOK, Rested, Managed, build = "res", [Next]_vars PROVE Managed'
  BY UnitsFixed DEF Managed
<1>a. build' = build /\ Units' = Units /\ Units = {1} /\ live \subseteq Units \X Devices
  BY UnitsFixed DEF Units, TypeOK
<1>1. CASE InitExit
  <2>1. UNCHANGED <<live, core>>
    BY <1>1 DEF InitExit, Load, LoadNoRegion, LoadNoDriver, Loading, Unload, Exit, bridges
  <2> QED  BY <1>a, <2>1 DEF Managed, core
<1>2. ASSUME NEW d \in Devices, DeviceStep(d)
      PROVE  Managed'
  <2>0. /\ \A e \in Devices \ {d} : e \in bound' <=> e \in bound
        /\ \A e \in Devices \ {d} : pc'[e] = pc[e] /\ unit'[e] = unit[e]
    BY <1>2, OthersStay
  <2> SUFFICES ASSUME NEW m \in live'
               PROVE  m[2] \in bound' \/ (pc'[m[2]] = "unit" /\ unit'[m[2]] \notin Units)
    BY <1>a DEF Managed
  <2>1. CASE MapUnit(d)
    <3>1. /\ live' = live \cup {<<unit[d], d>>} /\ pc[d] = "map" /\ pc'[d] = "unit"
          /\ unit'[d] = unit[d] + 1 /\ bound' = bound
      BY <2>1 DEF MapUnit, At, TypeOK
    <3>2. unit[d] = 1
      BY <1>a, <3>1 DEF TypeOK
    <3>3. CASE m = <<unit[d], d>>
      BY <1>a, <3>1, <3>2, <3>3
    <3>4. CASE m \in live
      <4>1. m[2] \in Devices
        BY <1>a, <3>4
      <4> QED  BY <1>a, <2>0, <3>1, <3>4, <4>1 DEF Managed
    <3> QED  BY <3>1, <3>3, <3>4
  <2>2. CASE Detached(d)
    <3>1. live' = {x \in live : x[2] # d}
      BY <1>a, <2>2 DEF Detached
    <3>2. m \in live /\ m[2] # d /\ m[2] \in Devices
      BY <1>a, <3>1
    <3> QED  BY <1>a, <2>0, <3>2 DEF Managed
  <2>3. CASE Probed(d)
    <3>1. live' = live /\ d \in bound'
      BY <2>3 DEF Probed, ProbeEnds, bridges
    <3>2. m[2] \in Devices /\ m \in live
      BY <1>a, <3>1
    <3> QED  BY <1>a, <2>0, <3>1, <3>2 DEF Managed
  <2>4. CASE /\ live' = live /\ bound \subseteq bound'
             /\ ~(pc[d] = "unit" /\ unit[d] \notin Units)
    <3>1. m[2] \in Devices /\ m \in live
      BY <1>a, <2>4
    <3> QED  BY <1>a, <2>0, <2>4, <3>1 DEF Managed
  <2>5. Probe(d) \/ Detach(d) => live' = live /\ bound' = bound /\ pc[d] = "idle"
    BY DEF Probe, Detach, At, bridges
  <2>6. PassUnit(d) \/ TakeUnit(d) => live' = live /\ bound' = bound /\ unit[d] \in Units
    BY DEF PassUnit, TakeUnit, At, bridges
  <2>7. CreateClass(d) \/ ClassFails(d) \/ AddCdev(d) \/ CdevFails(d) \/ CreateNode(d)
        \/ NodeFails(d) \/ MapFails(d)
        => live' = live /\ bound \subseteq bound' /\ pc[d] # "unit"
    BY DEF CreateClass, ClassFails, AddCdev, CdevFails, CreateNode, NodeFails, MapFails,
       ProbeEnds, At, bridges
  <2>8. SkipUnit(d) \/ DropUnit(d) \/ UnmapUnit(d) \/ ForgetUnit(d) \/ DestroyNode(d)
        => live' = live /\ bound' = bound /\ pc[d] # "unit"
    BY <1>a DEF SkipUnit, DropUnit, UnmapUnit, ForgetUnit, DestroyNode, At, bridges
  <2> QED
    BY <1>2, <2>1, <2>2, <2>3, <2>4, <2>5, <2>6, <2>7, <2>8
    DEF DeviceStep, ProbeStep, RemoveStep
<1>3. ASSUME NEW f \in Files, FileStep(f)
      PROVE  Managed'
  BY <1>a, <1>3, FilesOnly DEF Managed, bridges, core
<1>4. CASE UNCHANGED vars
  BY <1>a, <1>4 DEF vars, Managed, bridges, core
<1> QED  BY <1>1, <1>2, <1>3, <1>4 DEF Next, DeviceStep, FileStep

-----------------------------------------------------------------------------
(* Probes and removes, while no two overlap. *)

\* At most one device has a probe or remove under way.
Alone ==
    ~crowded => \A d, e \in Devices : pc[d] # "idle" /\ pc[e] # "idle" => d = e

\* What it has found of db_ptrs and of the class is still so.
Holds(d) ==
    /\ pc[d] \in {"node", "map"} => ptr[unit[d]] = Null
    /\ pc[d] \in {"unmap", "forget"} => ptr[unit[d]] # Null
    /\ \A u \in Units : \/ pc[d] \in {"remove", "unmap", "forget"} /\ u < unit[d]
                        \/ pc[d] = "destroy" /\ u <= unit[d]
                        => ptr[u] = Null
    /\ pc[d] = "class" => class = "null"
    /\ pc[d] = "cdev" => class = "live"

Serial == ~crowded => /\ cdev \/ registered => class = "live"
                      /\ \A d \in Devices : Holds(d)

\* While it goes on alone, the others are at rest.
LEMMA OthersRest ==
    ASSUME TypeOK, Alone, NEW d \in Devices, DeviceStep(d), ~crowded'
    PROVE  /\ ~crowded
           /\ \A e \in Devices \ {d} : pc[e] = "idle" /\ pc'[e] = "idle"
<1>1. CASE Probe(d) \/ Detach(d)
  <2>1. Overlap(d)
    BY <1>1 DEF Probe, Detach
  <2>2. ~crowded /\ \A e \in Devices \ {d} : pc[e] = "idle"
    BY <2>1 DEF Overlap
  <2> QED  BY <2>2, OthersStay
<1>2. CASE ProbeStep(d) \/ RemoveStep(d)
  <2>1. pc[d] # "idle" /\ crowded' = crowded
    BY <1>2 DEF ProbeStep, RemoveStep, CreateClass, ClassFails, AddCdev, CdevFails,
       PassUnit, TakeUnit, CreateNode, NodeFails, MapUnit, MapFails, Probed,
       SkipUnit, DropUnit, UnmapUnit, ForgetUnit, DestroyNode, Detached, ProbeEnds, At,
       history
  <2>2. \A e \in Devices \ {d} : pc[e] = "idle"
    BY <2>1 DEF Alone
  <2> QED  BY <2>1, <2>2, OthersStay
<1> QED  BY <1>1, <1>2 DEF DeviceStep

SerialInv == PointerInv /\ Staged /\ Held /\ Managed /\ Alone /\ Serial

LEMMA SerialInit == Init => SerialInv
<1> SUFFICES ASSUME Init PROVE SerialInv
  OBVIOUS
<1>1. \A d \in Devices : pc[d] = "idle"
  BY DEF Init
<1>2. Alone /\ Serial
  BY <1>1 DEF Init, Alone, Serial, Holds
<1> QED  BY <1>2, PointerInit, StagedInit, HeldInit DEF SerialInv

\* A step of a device that is alone keeps what it has found.
LEMMA HoldsStep ==
    ASSUME SerialInv, NEW d \in Devices, DeviceStep(d), ~crowded, Units' = Units
    PROVE  Holds(d)'
<1>a. /\ TypeOK /\ Rested /\ Holds(d)
      /\ Units \subseteq 1..ConfigCount /\ ptr \in [1..ConfigCount -> Pointers]
      /\ Units \subseteq Nat /\ 0 \notin Units /\ unit[d] \in Nat
      /\ pc[d] \in {"node", "map", "unmap", "forget", "destroy"} => unit[d] \in Units
  BY UnitsAreUnits DEF SerialInv, PointerInv, Serial, TypeOK
<1>1. \A u \in Units : \/ pc'[d] \in {"remove", "unmap", "forget"} /\ u < unit'[d]
                       \/ pc'[d] = "destroy" /\ u <= unit'[d]
                       => ptr'[u] = Null
  <2> SUFFICES ASSUME NEW u \in Units,
                      \/ pc'[d] \in {"remove", "unmap", "forget"} /\ u < unit'[d]
                      \/ pc'[d] = "destroy" /\ u <= unit'[d]
               PROVE  ptr'[u] = Null
    OBVIOUS
  <2>1. \/ /\ ptr'[u] = ptr[u]
           /\ \/ pc[d] \in {"remove", "unmap", "forget"} /\ u < unit[d]
              \/ pc[d] = "destroy" /\ u <= unit[d]
        \/ ptr'[u] = Null
    BY <1>a, RemovePasses
  <2>2. \/ pc[d] \in {"remove", "unmap", "forget"} /\ u < unit[d]
        \/ pc[d] = "destroy" /\ u <= unit[d]
        => ptr[u] = Null
    BY <1>a DEF Holds
  <2> QED  BY <2>1, <2>2
<1>2. CASE Probe(d) \/ Detach(d)
  <2>1. pc'[d] \in {"class", "unit", "remove"} /\ (pc'[d] = "class" => class' = "null")
    BY <1>a, <1>2 DEF Probe, Detach, At, statics, TypeOK
  <2> QED  BY <1>1, <2>1 DEF Holds
<1>3. CASE CreateClass(d)
  <2>1. pc'[d] = "cdev" /\ class' = "live"
    BY <1>a, <1>3 DEF CreateClass, At, TypeOK
  <2> QED  BY <1>1, <2>1 DEF Holds
<1>4. CASE ClassFails(d) \/ CdevFails(d) \/ NodeFails(d) \/ MapFails(d) \/ Probed(d)
           \/ Detached(d)
  <2>1. pc'[d] = "idle"
    BY <1>a, <1>4 DEF ClassFails, CdevFails, NodeFails, MapFails, Probed, Detached,
       ProbeEnds, At, TypeOK
  <2> QED  BY <1>1, <2>1 DEF Holds
<1>5. CASE AddCdev(d) \/ PassUnit(d) \/ MapUnit(d) \/ SkipUnit(d) \/ ForgetUnit(d)
           \/ DestroyNode(d)
  <2>1. pc'[d] \in {"unit", "remove", "destroy"}
    BY <1>a, <1>5 DEF AddCdev, PassUnit, MapUnit, SkipUnit, ForgetUnit, DestroyNode, At,
       TypeOK
  <2> QED  BY <1>1, <2>1 DEF Holds
<1>6. CASE TakeUnit(d) \/ CreateNode(d)
  <2>1. pc'[d] \in {"node", "map"} /\ ptr'[unit'[d]] = Null
    BY <1>a, <1>6 DEF TakeUnit, CreateNode, At, TypeOK, bridges, Holds
  <2> QED  BY <1>1, <2>1 DEF Holds
<1>7. CASE DropUnit(d) \/ UnmapUnit(d)
  <2>1. pc'[d] \in {"unmap", "forget"} /\ ptr'[unit'[d]] # Null
    BY <1>a, <1>7 DEF DropUnit, UnmapUnit, At, TypeOK, bridges, Holds
  <2> QED  BY <1>1, <2>1 DEF Holds
<1> QED
  BY <1>2, <1>3, <1>4, <1>5, <1>6, <1>7 DEF DeviceStep, ProbeStep, RemoveStep

\* The class and the cdev are there together, or not at all.
LEMMA ClassStep ==
    ASSUME SerialInv, NEW d \in Devices, DeviceStep(d), ~crowded
    PROVE  (cdev \/ registered => class = "live")'
<1>a. /\ TypeOK /\ Holds(d) /\ (cdev \/ registered => class = "live")
  BY DEF SerialInv, PointerInv, Serial
<1>1. CASE CreateClass(d)
  BY <1>1 DEF CreateClass
<1>2. CASE ClassFails(d)
  <2>1. class = "null" /\ ~cdev /\ ~registered
    BY <1>a, <1>2 DEF ClassFails, ProbeEnds, At, Holds
  <2> QED  BY <1>2, <2>1 DEF ClassFails, Cleanup
<1>3. CASE AddCdev(d)
  <2>1. class = "live"
    BY <1>a, <1>3 DEF AddCdev, At, Holds
  <2> QED  BY <1>3, <2>1 DEF AddCdev
<1>4. CASE CdevFails(d)
  <2>1. class = "live"
    BY <1>a, <1>4 DEF CdevFails, ProbeEnds, At, Holds
  <2> QED  BY <1>4, <2>1 DEF CdevFails, Cleanup
<1>5. CASE NodeFails(d)
  <2>1. Cleanup(class, cdev) /\ owner' = owner /\ (cdev => owner)
    BY <1>5 DEF NodeFails, SerialInv, Held
  <2> QED  BY <1>a, <2>1 DEF Cleanup, TypeOK
<1>6. CASE UNCHANGED statics
  BY <1>a, <1>6 DEF statics
<1> QED
  BY <1>1, <1>2, <1>3, <1>4, <1>5, <1>6
  DEF DeviceStep, Probe, Detach, ProbeStep, RemoveStep, PassUnit, TakeUnit, CreateNode,
      MapUnit, MapFails, Probed, SkipUnit, DropUnit, UnmapUnit, ForgetUnit, DestroyNode,
      Detached

LEMMA SerialStep == SerialInv /\ [Next]_vars => SerialInv'
<1> SUFFICES ASSUME SerialInv, [Next]_vars PROVE SerialInv'
  OBVIOUS
<1>a. PointerInv /\ TypeOK /\ Rested /\ Staged /\ Held /\ Managed /\ Alone /\ Serial
  BY DEF SerialInv, PointerInv
<1>b. PointerInv' /\ Staged' /\ Held' /\ Managed' /\ Units' = Units
  BY <1>a, PointerStep, StagedStep, HeldStep, ManagedStep, UnitsFixed
<1>1. CASE InitExit
  <2>1. CASE Load \/ LoadNoRegion \/ LoadNoDriver
    <3>1. /\ \A d \in Devices : pc'[d] = "idle"
          /\ ~registered' /\ ~cdev'
      <4>1. module = "out" /\ ~registered /\ ~cdev /\ pc' = pc
        BY <2>1 DEF Load, LoadNoRegion, LoadNoDriver, Loading, NothingHeld, core
      <4>2. ~registered' /\ ~cdev'
        <5>1. CASE Load \/ LoadNoDriver
          BY <4>1, <5>1 DEF Load, LoadNoDriver
        <5>2. CASE LoadNoRegion
          <6>1. Cleanup("null", FALSE) /\ "null" # "err"
            BY <5>2 DEF LoadNoRegion
          <6>2. registered' = FALSE /\ cdev' = (FALSE /\ ~owner')
            BY <6>1 DEF Cleanup
          <6> QED  BY <6>2
        <5> QED  BY <2>1, <5>1, <5>2
      <4> QED  BY <1>a, <4>1, <4>2 DEF Staged, Idle
    <3> QED  BY <1>b, <3>1 DEF SerialInv, Alone, Serial, Holds
  <2>2. CASE Unload
    BY <1>a, <1>b, <2>2
    DEF Unload, SerialInv, Alone, Serial, Holds, statics, bridges, core, history
  <2>3. CASE Exit
    <3>1. /\ \A d \in Devices : pc'[d] = "idle"
          /\ crowded' = crowded /\ Cleanup(class, cdev) /\ owner' = owner
      BY <2>3 DEF Exit, Idle, core
    <3>2. ~crowded' => (cdev' \/ registered' => class' = "live")
      BY <1>a, <3>1 DEF Cleanup, Serial, Held, TypeOK
    <3> QED  BY <1>b, <3>1, <3>2 DEF SerialInv, Alone, Serial, Holds
  <2> QED  BY <1>1, <2>1, <2>2, <2>3 DEF InitExit
<1>2. ASSUME NEW d \in Devices, DeviceStep(d)
      PROVE  SerialInv'
  <2>1. ASSUME ~crowded'
        PROVE  /\ \A e \in Devices \ {d} : pc'[e] = "idle"
               /\ Holds(d)' /\ (cdev \/ registered => class = "live")'
    BY <1>2, <1>a, <1>b, <2>1, OthersRest, HoldsStep, ClassStep
  <2>2. ASSUME ~crowded', NEW e \in Devices PROVE Holds(e)'
    BY <2>1, <2>2 DEF Holds
  <2> QED  BY <1>b, <2>1, <2>2 DEF SerialInv, Alone, Serial
<1>3. ASSUME NEW f \in Files, FileStep(f)
      PROVE  SerialInv'
  <2>1. UNCHANGED <<statics, bridges, core, history>>
    BY <1>3, FilesOnly
  <2> QED
    BY <1>a, <1>b, <2>1 DEF SerialInv, Alone, Serial, Holds, statics, bridges, core, history
<1>4. CASE UNCHANGED vars
  BY <1>a, <1>b, <1>4
  DEF vars, SerialInv, Alone, Serial, Holds, statics, bridges, core, history
<1> QED  BY <1>1, <1>2, <1>3, <1>4 DEF Next, DeviceStep, FileStep

-----------------------------------------------------------------------------
(* The ioctls. *)

\* A call that meets a remove is counted as raced, and so is one that has lost its
\* mapping; a file that is not loose has a unit with a mapping and no remove going
\* on, until probes and removes of two devices have overlapped.
Met ==
    \A f \in Files :
        /\ call[f] # "none" /\ Removing => f \in raced
        /\ call[f] \in Devices /\ <<file[f], call[f]>> \notin live => f \in raced
        /\ ~crowded /\ file[f] # 0 /\ f \notin loose
           => ptr[file[f]] \in Devices /\ ~Removing
        /\ call[f] # "none" /\ call[f] \notin Devices => f \in loose \/ crowded

CallInv == SerialInv /\ Met

LEMMA CallInit == Init => CallInv
<1> SUFFICES ASSUME Init PROVE CallInv
  OBVIOUS
<1>1. \A f \in Files : file[f] = 0 /\ call[f] = "none"
  BY DEF Init
<1>2. "none" \notin Devices
  BY LifecycleAssumption
<1> QED  BY <1>1, <1>2, SerialInit DEF CallInv, Met

\* A remove begins when the device is detached, which marks open files and calls,
LEMMA RemoveBegins ==
    ASSUME TypeOK, Staged, NEW d \in Devices, DeviceStep(d)
    PROVE  /\ loose \subseteq loose' /\ raced \subseteq raced'
           /\ \/ Removing' => Removing
              \/ /\ \A f \in Files : file[f] # 0 => f \in loose'
                 /\ \A f \in Files : call[f] # "none" => f \in raced'
<1>0. /\ \A e \in Devices \ {d} : pc'[e] = pc[e]
      /\ pc[d] \in Removal => Removing
  BY OthersStay DEF Removing
<1>1. CASE Detach(d)
  <2>1. CASE module = "in"
    BY <1>1, <2>1 DEF Detach
  <2>2. CASE module # "in"
    <3>1. \A f \in Files : file[f] = 0 /\ call[f] = "none"
      BY <2>2 DEF Staged
    <3> QED  BY <1>1, <2>2, <3>1 DEF Detach
  <2> QED  BY <2>1, <2>2
<1>2. CASE Probe(d) \/ ProbeStep(d)
  <2>1. pc'[d] \notin Removal /\ UNCHANGED users
    BY <1>2 DEF Probe, ProbeStep, CreateClass, ClassFails, AddCdev, CdevFails, PassUnit,
       TakeUnit, CreateNode, NodeFails, MapUnit, MapFails, Probed, ProbeEnds, At, TypeOK,
       Removal
  <2> QED  BY <1>0, <2>1 DEF Removing, users
<1>3. CASE RemoveStep(d)
  <2>1. pc[d] \in Removal /\ UNCHANGED users
    BY <1>3 DEF RemoveStep, SkipUnit, DropUnit, UnmapUnit, ForgetUnit, DestroyNode,
       Detached, At, Removal
  <2> QED  BY <1>0, <2>1 DEF users
<1> QED  BY <1>1, <1>2, <1>3 DEF DeviceStep

\* and mappings and pointers go in a remove only, or where none was mapped.
LEMMA RemoveTakes ==
    ASSUME SerialInv, NEW d \in Devices, DeviceStep(d)
    PROVE  /\ live \subseteq live' \/ Removing
           /\ ~crowded /\ ~Removing
              => \A u \in Units : ptr[u] \in Devices => ptr'[u] \in Devices
<1>a. /\ TypeOK /\ Serial /\ Units \subseteq 1..ConfigCount
      /\ ptr \in [1..ConfigCount -> Pointers] /\ PointerChange(d)
      /\ pc[d] \in {"node", "map"} => unit[d] \in Units
  BY UnitsAreUnits, PointersChange DEF SerialInv, PointerInv, TypeOK
<1>1. live \subseteq live' \/ Removing
  BY <1>a DEF PointerChange, Removing, Removal
<1>2. ASSUME ~crowded, ~Removing, NEW u \in Units, ptr[u] \in Devices
      PROVE  ptr'[u] \in Devices
  <2>1. pc[d] \notin Removal
    BY <1>2 DEF Removing
  <2>2. CASE ptr' = ptr
    BY <1>2, <2>2
  <2>3. CASE ptr' = [ptr EXCEPT ![unit[d]] = d]
    BY <1>a, <1>2, <2>3
  <2>4. CASE pc[d] = "map" /\ \E x \in {Null, Err} : ptr' = [ptr EXCEPT ![unit[d]] = x]
    <3>1. ptr[unit[d]] = Null
      BY <1>a, <1>2, <2>4 DEF Serial, Holds
    <3>2. u # unit[d]
      BY <1>2, <3>1, PointerKinds
    <3> QED  BY <1>a, <1>2, <2>4, <3>2
  <2> QED  BY <1>a, <2>1, <2>2, <2>3, <2>4 DEF PointerChange, Removal
<1> QED  BY <1>1, <1>2

LEMMA CallStep == CallInv /\ [Next]_vars => CallInv'
<1> SUFFICES ASSUME CallInv, [Next]_vars PROVE CallInv'
  OBVIOUS
<1>a. /\ SerialInv /\ Met /\ TypeOK /\ Staged /\ NoDangling /\ Units \subseteq Nat
      /\ file \in [Files -> Units \cup {0}] /\ call \in [Files -> Pointers \cup {"none"}]
  BY UnitsAreUnits DEF CallInv, SerialInv, PointerInv, TypeOK
<1>b. SerialInv' /\ Units' = Units /\ "none" \notin Devices
  BY <1>a, SerialStep, UnitsFixed, LifecycleAssumption
<1>1. CASE InitExit
  <2>1. CASE Load \/ LoadNoRegion \/ LoadNoDriver
    <3>1. \A f \in Files : file'[f] = 0 /\ call'[f] = "none"
      BY <1>a, <2>1 DEF Load, LoadNoRegion, LoadNoDriver, Loading, Staged, users
    <3> QED  BY <1>b, <3>1 DEF CallInv, Met
  <2>2. CASE Unload \/ Exit
    <3>1. UNCHANGED <<bridges, core, users, crowded>>
      BY <2>2 DEF Unload, Exit, history
    <3> QED  BY <1>a, <1>b, <3>1 DEF CallInv, Met, Removing, bridges, core, users
  <2> QED  BY <1>1, <2>1, <2>2 DEF InitExit
<1>2. ASSUME NEW d \in Devices, DeviceStep(d)
      PROVE  CallInv'
  <2>1. /\ file' = file /\ call' = call
        /\ loose \subseteq loose' /\ raced \subseteq raced'
        /\ live \subseteq live' \/ Removing
    BY <1>2, <1>a, OthersStay, RemoveBegins, RemoveTakes
  <2>2. crowded => crowded'
    BY <1>2 DEF DeviceStep, ProbeStep, RemoveStep, Probe, Detach, Overlap, CreateClass,
       ClassFails, AddCdev, CdevFails, PassUnit, TakeUnit, CreateNode, NodeFails, MapUnit,
       MapFails, Probed, SkipUnit, DropUnit, UnmapUnit, ForgetUnit, DestroyNode,
       Detached, history
  <2>3. ASSUME NEW f \in Files, call[f] # "none", Removing' PROVE f \in raced'
    BY <1>2, <1>a, <2>1, <2>3, RemoveBegins DEF Met
  <2>4. ASSUME NEW f \in Files, call[f] \in Devices, <<file[f], call[f]>> \notin live'
        PROVE  f \in raced'
    BY <1>a, <1>b, <2>1, <2>4 DEF Met
  <2>5. ASSUME NEW f \in Files, ~crowded', file[f] # 0, f \notin loose'
        PROVE  ptr'[file[f]] \in Devices /\ ~Removing'
    <3>1. ptr[file[f]] \in Devices /\ ~Removing /\ ~crowded /\ file[f] \in Units
      BY <1>a, <2>1, <2>2, <2>5 DEF Met
    <3>2. ~Removing'
      BY <1>2, <1>a, <2>5, <3>1, RemoveBegins
    <3> QED  BY <1>2, <1>a, <3>1, <3>2, RemoveTakes
  <2>6. ASSUME NEW f \in Files, call[f] # "none", call[f] \notin Devices
        PROVE  f \in loose' \/ crowded'
    BY <1>a, <2>1, <2>2, <2>6 DEF Met
  <2> QED  BY <1>b, <2>1, <2>3, <2>4, <2>5, <2>6 DEF CallInv, Met
<1>3. ASSUME NEW f \in Files, FileStep(f)
      PROVE  CallInv'
  <2>0. UNCHANGED <<module, bridges, core, crowded>> /\ (Removing' <=> Removing)
    BY <1>3, FilesOnly DEF core, history, Removing
  <2>1. \A g \in Files \ {f} :
           /\ file'[g] = file[g] /\ call'[g] = call[g]
           /\ g \in loose' <=> g \in loose
           /\ g \in raced' <=> g \in raced
    BY <1>3, <1>a DEF FileStep, Open, Ioctl, IoctlEnds, Close
  <2>2. /\ call'[f] # "none" /\ Removing => f \in raced'
        /\ call'[f] \in Devices /\ <<file'[f], call'[f]>> \notin live => f \in raced'
        /\ ~crowded /\ file'[f] # 0 /\ f \notin loose'
           => ptr[file'[f]] \in Devices /\ ~Removing
        /\ call'[f] # "none" /\ call'[f] \notin Devices => f \in loose' \/ crowded
    <3>1. CASE Open(f)
      <4>1. call' = call /\ call[f] = "none"
        BY <1>a, <3>1 DEF Open, Staged
      <4>2. file'[f] # 0 /\ f \notin loose' => ptr[file'[f]] \in Devices /\ ~Removing
        BY <1>a, <3>1 DEF Open
      <4> QED  BY <1>b, <4>1, <4>2
    <3>2. CASE Ioctl(f)
      <4>1. /\ file' = file /\ loose' = loose /\ call'[f] = ptr[file[f]]
            /\ file[f] \in Units /\ module # "out"
        BY <1>a, <3>2 DEF Ioctl, Staged
      <4>2. Removing => f \in raced'
        BY <3>2 DEF Ioctl
      <4>3. ptr[file[f]] \in Devices /\ <<file[f], ptr[file[f]]>> \notin live => Removing
        BY <1>a, <4>1 DEF NoDangling, Removing, Removal
      <4>4. ~crowded /\ f \notin loose => ptr[file[f]] \in Devices /\ ~Removing
        BY <1>a, <3>2 DEF Met, Ioctl
      <4> QED  BY <4>1, <4>2, <4>3, <4>4
    <3>3. CASE IoctlEnds(f)
      <4>1. file' = file /\ loose' = loose /\ call'[f] = "none"
        BY <1>a, <3>3 DEF IoctlEnds
      <4> QED  BY <1>a, <1>b, <4>1 DEF Met
    <3>4. CASE Close(f)
      <4>1. file'[f] = 0 /\ call'[f] = "none"
        BY <1>a, <3>4 DEF Close
      <4> QED  BY <1>b, <4>1
    <3> QED  BY <1>3, <3>1, <3>2, <3>3, <3>4 DEF FileStep
  <2> QED  BY <1>a, <1>b, <2>0, <2>1, <2>2 DEF CallInv, Met, bridges
<1>4. CASE UNCHANGED vars
  BY <1>a, <1>b, <1>4 DEF vars, CallInv, Met, Removing, bridges, core, users, history
<1> QED  BY <1>1, <1>2, <1>3, <1>4 DEF Next, DeviceStep, FileStep

\* A shift ioctl works on a bridge that is mapped until it returns, whatever has
\* failed, but for one that overlaps a remove and one on a file opened before its
\* unit was mapped, during a remove, or after devices have overlapped (char_ctrl_ioctl
\* reads db_ptrs with no lock, xvc_driver_base.c:66-80).
THEOREM CallsStayMapped == Spec => []CallsMapped
<1>1. CallInv => CallsMapped
  BY DEF CallInv, Met, CallsMapped
<1> QED  BY <1>1, CallInit, CallStep, PTL DEF Spec

-----------------------------------------------------------------------------
(* What is left behind. *)

\* While no two overlap, a mapping of the config build is the pointer's of its unit.
Pointed ==
    ~crowded /\ build = "config" =>
        \A m \in live : /\ ptr[m[1]] = m[2]
                        /\ \A d \in Devices : ~(pc[d] = "forget" /\ unit[d] = m[1])

\* And while no device_create or mapping has failed besides, a unit has a node just
\* while it has a pointer, or is between the two; there is none without the class,
\* and a device, or the probe of one, answers for every pointer.
Orderly == ~crowded /\ failed \cap {"device", "map"} = {}
Tidy ==
    Orderly =>
        /\ strays = {}
        /\ class # "live" => nodes = {}
        /\ \A d \in Devices : pc[d] = "cdev" => nodes = {}
        /\ \A u \in Units :
              u \in nodes <=> \/ ptr[u] # Null
                              \/ \E d \in Devices : pc[d] \in {"map", "destroy"} /\ unit[d] = u
        /\ (\E u \in Units : ptr[u] # Null)
           => bound # {} \/ \E d \in Devices : pc[d] \in {"unit", "node", "map"}

LeftInv == SerialInv /\ Pointed /\ Tidy /\ GivenBackOnce

LEMMA LeftInit == Init => LeftInv
<1> SUFFICES ASSUME Init PROVE LeftInv
  OBVIOUS
<1>1. /\ \A d \in Devices : pc[d] = "idle"
      /\ \A u \in Units : ptr[u] = Null
  BY UnitsAreUnits, TypeInit DEF Init, Nowhere
<1>2. /\ live = {} /\ nodes = {} /\ strays = {} /\ over = {} /\ ~region /\ ~registered
      /\ ~cdev
  BY DEF Init
<1> QED  BY <1>1, <1>2, SerialInit DEF LeftInv, Pointed, Tidy, GivenBackOnce

LEMMA PointedStep == SerialInv /\ Pointed /\ [Next]_vars => Pointed'
<1> SUFFICES ASSUME SerialInv, Pointed, build = "config", [Next]_vars PROVE Pointed'
  BY UnitsFixed DEF Pointed
<1>a. /\ TypeOK /\ Staged /\ Alone /\ Serial
      /\ Units \subseteq 1..ConfigCount /\ ptr \in [1..ConfigCount -> Pointers]
      /\ live \subseteq Units \X Devices /\ build' = build
  BY UnitsAreUnits, UnitsFixed DEF SerialInv, PointerInv, TypeOK
<1>1. CASE InitExit
  <2>1. CASE Load \/ LoadNoRegion \/ LoadNoDriver
    <3>1. live' = {}
      BY <2>1 DEF Load, LoadNoRegion, LoadNoDriver, Loading, NothingHeld
    <3> QED  BY <3>1 DEF Pointed
  <2>2. CASE Unload \/ Exit
    <3>1. UNCHANGED <<bridges, core, crowded>>
      BY <2>2 DEF Unload, Exit, history
    <3> QED  BY <1>a, <3>1 DEF Pointed, bridges, core
  <2> QED  BY <1>1, <2>1, <2>2 DEF InitExit
<1>2. ASSUME NEW d \in Devices, DeviceStep(d)
      PROVE  Pointed'
  <2> SUFFICES ASSUME ~crowded'
               PROVE  \A m \in live' :
                         /\ ptr'[m[1]] = m[2]
                         /\ \A e \in Devices : ~(pc'[e] = "forget" /\ unit'[e] = m[1])
    BY DEF Pointed
  <2>1. /\ ~crowded /\ Holds(d)
        /\ \A e \in Devices \ {d} : pc'[e] = "idle"
    BY <1>2, <1>a, OthersRest DEF Serial
  <2>2. /\ \A m \in live : /\ ptr[m[1]] = m[2] /\ m[1] \in Units /\ m[2] \in Devices
                           /\ ~(pc[d] = "forget" /\ unit[d] = m[1])
        /\ pc[d] \in {"map", "unmap", "forget"} => unit[d] \in Units
    BY <1>a, <2>1 DEF Pointed, TypeOK
  <2>3. CASE MapUnit(d)
    <3>1. /\ pc[d] = "map" /\ pc'[d] = "unit" /\ ptr' = [ptr EXCEPT ![unit[d]] = d]
          /\ live' = live \cup {<<unit[d], d>>}
      BY <1>a, <2>3 DEF MapUnit, At, TypeOK
    <3>2. ptr[unit[d]] = Null /\ unit[d] \in Units
      BY <2>1, <2>2, <3>1 DEF Holds
    <3>3. \A m \in live : m[1] # unit[d]
      BY <2>2, <3>2, PointerKinds
    <3>4. \A m \in live : ptr'[m[1]] = m[2]
      BY <1>a, <2>2, <3>1, <3>3
    <3>5. \A m \in live' : m \in live \/ m = <<unit[d], d>>
      BY <3>1
    <3>6. ptr'[unit[d]] = d
      BY <1>a, <3>1, <3>2
    <3> QED  BY <2>1, <3>1, <3>4, <3>5, <3>6
  <2>4. CASE MapFails(d)
    <3>1. /\ pc[d] = "map" /\ pc'[d] = "idle" /\ live' = live
          /\ ptr' = [ptr EXCEPT ![unit[d]] = Null]
      BY <1>a, <2>4 DEF MapFails, ProbeEnds, At, TypeOK
    <3>2. \A m \in live : m[1] # unit[d]
      BY <2>1, <2>2, <3>1, PointerKinds DEF Holds
    <3> QED  BY <1>a, <2>1, <2>2, <3>1, <3>2
  <2>5. CASE UnmapUnit(d)
    <3>1. /\ pc[d] = "unmap" /\ unit' = unit /\ ptr' = ptr
          /\ live' = live \ {<<unit[d], ptr[unit[d]]>>}
      BY <1>a, <2>5 DEF UnmapUnit, At
    <3>2. \A m \in live' : m[1] # unit[d]
      <4> SUFFICES ASSUME NEW m \in live', m[1] = unit[d] PROVE FALSE
        OBVIOUS
      <4>1. m \in live /\ m = <<m[1], m[2]>> /\ ptr[unit[d]] = m[2]
        BY <1>a, <2>2, <3>1
      <4> QED  BY <3>1, <4>1
    <3> QED  BY <2>1, <2>2, <3>1, <3>2
  <2>6. CASE ForgetUnit(d)
    <3>1. /\ pc[d] = "forget" /\ pc'[d] = "destroy" /\ live' = live
          /\ ptr' = [ptr EXCEPT ![unit[d]] = Null]
      BY <1>a, <2>6 DEF ForgetUnit, At, TypeOK
    <3>2. \A m \in live : m[1] # unit[d]
      BY <2>2, <3>1
    <3> QED  BY <1>a, <2>1, <2>2, <3>1, <3>2
  <2>7. CASE ptr' = ptr /\ live' = live /\ pc'[d] # "forget"
    BY <2>1, <2>2, <2>7
  <2>8. Probe(d) \/ Detach(d) => ptr' = ptr /\ live' = live /\ pc'[d] # "forget"
    BY <1>a DEF Probe, Detach, At, TypeOK, bridges
  <2>9. CreateClass(d) \/ ClassFails(d) \/ AddCdev(d) \/ CdevFails(d) \/ PassUnit(d)
        \/ TakeUnit(d) \/ CreateNode(d) \/ NodeFails(d) \/ Probed(d)
        => ptr' = ptr /\ live' = live /\ pc'[d] # "forget"
    BY <1>a DEF CreateClass, ClassFails, AddCdev, CdevFails, PassUnit, TakeUnit,
       CreateNode, NodeFails, Probed, ProbeEnds, At, TypeOK, bridges
  <2>10. SkipUnit(d) \/ DropUnit(d) \/ DestroyNode(d) \/ Detached(d)
         => ptr' = ptr /\ live' = live /\ pc'[d] # "forget"
    BY <1>a DEF SkipUnit, DropUnit, DestroyNode, Detached, At, TypeOK, bridges
  <2> QED
    BY <1>2, <2>3, <2>4, <2>5, <2>6, <2>7, <2>8, <2>9, <2>10
    DEF DeviceStep, ProbeStep, RemoveStep
<1>3. ASSUME NEW f \in Files, FileStep(f)
      PROVE  Pointed'
  BY <1>a, <1>3, FilesOnly DEF Pointed, bridges, core, history
<1>4. CASE UNCHANGED vars
  BY <1>a, <1>4 DEF vars, Pointed, bridges, core, history
<1> QED  BY <1>1, <1>2, <1>3, <1>4 DEF Next, DeviceStep, FileStep

LEMMA TidyInit ==
    ASSUME SerialInv, Tidy, [Next]_vars, InitExit
    PROVE  Tidy'
<1>a. Units' = Units /\ Units \subseteq 1..ConfigCount /\ Staged
  BY UnitsFixed, UnitsAreUnits DEF SerialInv, PointerInv
<1>1. CASE Load \/ LoadNoRegion \/ LoadNoDriver
  <2>1. nodes = {} /\ nodes' = {} /\ pc' = pc /\ ptr' = Nowhere /\ module = "out"
    BY <1>1 DEF Load, LoadNoRegion, LoadNoDriver, Loading, NothingHeld, core
  <2>2. strays' = {}
    <3>1. strays = {}
      BY <2>1 DEF SerialInv, Held
    <3>2. CASE Load \/ LoadNoDriver
      BY <3>1, <3>2 DEF Load, LoadNoDriver
    <3>3. CASE LoadNoRegion
      <4>1. Cleanup("null", FALSE) /\ "null" # "err"
        BY <3>3 DEF LoadNoRegion
      <4> QED  BY <2>1, <4>1 DEF Cleanup
    <3> QED  BY <1>1, <3>2, <3>3
  <2>3. \A d \in Devices : pc'[d] = "idle"
    BY <1>a, <2>1 DEF Staged, Idle
  <2>4. \A u \in Units : ptr'[u] = Null
    BY <1>a, <2>1 DEF Nowhere
  <2> QED  BY <1>a, <2>1, <2>2, <2>3, <2>4 DEF Tidy
<1>2. CASE Unload
  BY <1>a, <1>2 DEF Unload, Tidy, Orderly, statics, bridges, sysfs, core, history
<1>3. CASE Exit
  <2> SUFFICES ASSUME Orderly
               PROVE  Tidy'
    BY <1>3 DEF Exit, Tidy, Orderly
  <2>1. /\ \A d \in Devices : pc[d] = "idle" /\ pc'[d] = "idle"
        /\ bound = {} /\ UNCHANGED <<ptr, nodes, core>> /\ Cleanup(class, cdev)
    BY <1>3 DEF Exit, Idle, core, bridges
  <2>2. \A u \in Units : ptr[u] = Null
    BY <2>1 DEF Tidy
  <2>3. \A u \in Units : u \notin nodes
    BY <2>1, <2>2 DEF Tidy
  <2>4. nodes = {}
    BY <2>3 DEF SerialInv, PointerInv, TypeOK
  <2>5. strays' = {}
    BY <2>1, <2>4 DEF Cleanup, Tidy
  <2> QED  BY <1>a, <2>1, <2>2, <2>4, <2>5 DEF Tidy
<1> QED  BY <1>1, <1>2, <1>3 DEF InitExit

\* A step of the only probe or remove keeps what is there in order.
LEMMA TidyStep ==
    ASSUME SerialInv, Tidy, NEW d \in Devices, DeviceStep(d), Units' = Units
    PROVE  Tidy'
<1>o. Orderly' => /\ Orderly
                  /\ \A e \in Devices \ {d} : pc[e] = "idle" /\ pc'[e] = "idle"
  <2>1. SUFFICES ASSUME Orderly' PROVE failed \subseteq failed'
    BY OthersRest DEF SerialInv, PointerInv, Orderly
  <2> QED
    BY DEF DeviceStep, ProbeStep, RemoveStep, Probe, Detach, CreateClass,
       ClassFails, AddCdev, CdevFails, PassUnit, TakeUnit, CreateNode, NodeFails, MapUnit,
       MapFails, Probed, SkipUnit, DropUnit, UnmapUnit, ForgetUnit, DestroyNode,
       Detached, history
<1> SUFFICES ASSUME Orderly' PROVE Tidy'
  BY DEF Tidy
<1> DEFINE
      Answered == (\E u \in Units : ptr[u] # Null)
                  => bound # {} \/ pc[d] \in {"unit", "node", "map"}
      Noded == \A u \in Units :
                  u \in nodes <=> ptr[u] # Null \/ (pc[d] \in {"map", "destroy"} /\ unit[d] = u)
<1>a. /\ TypeOK /\ Orderly /\ Holds(d) /\ unit[d] \in Nat
      /\ Units \subseteq 1..ConfigCount /\ ptr \in [1..ConfigCount -> Pointers]
      /\ Units \subseteq Nat /\ nodes \subseteq Units
      /\ pc[d] \in {"node", "map", "unmap", "forget", "destroy"} => unit[d] \in Units
      /\ \A e \in Devices \ {d} : pc[e] = "idle" /\ pc'[e] = "idle"
  BY <1>o, UnitsAreUnits DEF SerialInv, PointerInv, Serial, TypeOK, Orderly
<1>b. /\ strays = {} /\ (class # "live" => nodes = {}) /\ (pc[d] = "cdev" => nodes = {})
  BY <1>a DEF Tidy
<1>c. Noded /\ Answered
  BY <1>a DEF Tidy
<1>d. SUFFICES /\ strays' = {}
               /\ class' # "live" => nodes' = {}
               /\ pc'[d] = "cdev" => nodes' = {}
               /\ Noded' /\ Answered'
  <2>1. ASSUME Noded', NEW u \in Units
        PROVE  u \in nodes' <=> \/ ptr'[u] # Null
                                \/ \E e \in Devices : pc'[e] \in {"map", "destroy"}
                                                      /\ unit'[e] = u
    BY <1>a, <2>1
  <2>2. ASSUME Answered', \E u \in Units : ptr'[u] # Null
        PROVE  bound' # {} \/ \E e \in Devices : pc'[e] \in {"unit", "node", "map"}
    BY <2>2
  <2>3. ASSUME pc'[d] = "cdev" => nodes' = {}, NEW e \in Devices, pc'[e] = "cdev"
        PROVE  nodes' = {}
    BY <1>a, <2>3
  <2> QED  BY <1>d, <2>1, <2>2, <2>3 DEF Tidy
<1>1. CASE Probe(d)
  <2>1. /\ pc[d] = "idle" /\ pc'[d] \in {"class", "unit"}
        /\ UNCHANGED <<statics, bridges, sysfs, bound, unit>>
    BY <1>a, <1>1 DEF Probe, At, TypeOK
  <2> QED  BY <1>b, <1>c, <2>1 DEF statics, bridges, sysfs
<1>2. CASE Detach(d)
  <2>1. /\ pc[d] = "idle" /\ pc'[d] = "remove"
        /\ UNCHANGED <<statics, bridges, sysfs, bound, unit>>
    BY <1>a, <1>2 DEF Detach, At, TypeOK
  <2> QED  BY <1>b, <1>c, <2>1 DEF statics, bridges, sysfs
<1>3. CASE CreateClass(d)
  <2>1. /\ pc[d] = "class" /\ pc'[d] = "cdev" /\ class' = "live"
        /\ UNCHANGED <<bridges, sysfs, bound, unit>>
    BY <1>a, <1>3 DEF CreateClass, At, TypeOK
  <2>2. nodes = {}
    BY <1>a, <1>b, <2>1 DEF Holds
  <2>3. Noded' /\ \A u \in Units : ptr[u] = Null
    BY <1>c, <2>1, <2>2 DEF bridges, sysfs
  <2> QED  BY <1>b, <2>1, <2>2, <2>3 DEF bridges, sysfs
<1>4. CASE ClassFails(d)
  <2>1. /\ pc[d] = "class" /\ pc'[d] = "idle" /\ class' = "err" /\ strays' = strays
        /\ UNCHANGED <<bridges, nodes>>
    BY <1>a, <1>4 DEF ClassFails, ProbeEnds, At, Cleanup, TypeOK
  <2>2. nodes = {}
    BY <1>a, <1>b, <2>1 DEF Holds
  <2>3. \A u \in Units : ptr[u] = Null
    BY <1>c, <2>1, <2>2
  <2> QED  BY <1>b, <2>1, <2>2, <2>3 DEF bridges
<1>5. CASE AddCdev(d)
  <2>1. /\ pc[d] = "cdev" /\ pc'[d] = "unit" /\ class' = class
        /\ UNCHANGED <<bridges, sysfs, bound, unit>>
    BY <1>a, <1>5 DEF AddCdev, At, TypeOK
  <2> QED  BY <1>b, <1>c, <2>1 DEF bridges, sysfs
<1>6. CASE CdevFails(d)
  <2>1. /\ pc[d] = "cdev" /\ pc'[d] = "idle" /\ Cleanup(class, FALSE)
        /\ UNCHANGED <<bridges, nodes>>
    BY <1>a, <1>6 DEF CdevFails, ProbeEnds, At, TypeOK
  <2>2. nodes = {} /\ class = "live"
    BY <1>a, <1>b, <2>1 DEF Holds
  <2>3. \A u \in Units : ptr[u] = Null
    BY <1>c, <2>1, <2>2
  <2>4. strays' = {}
    BY <2>1, <2>2 DEF Cleanup
  <2> QED  BY <2>1, <2>2, <2>3, <2>4 DEF bridges
<1>7. CASE PassUnit(d) \/ TakeUnit(d)
  <2>1. /\ pc[d] = "unit" /\ pc'[d] \in {"unit", "node"}
        /\ UNCHANGED <<statics, bridges, sysfs, bound>>
    BY <1>a, <1>7 DEF PassUnit, TakeUnit, At, TypeOK
  <2> QED  BY <1>b, <1>c, <2>1 DEF statics, bridges, sysfs
<1>8. CASE CreateNode(d)
  <2>1. /\ pc[d] = "node" /\ pc'[d] = "map" /\ nodes' = nodes \cup {unit[d]}
        /\ class = "live" /\ UNCHANGED <<statics, bridges, strays, bound, unit>>
    BY <1>a, <1>8 DEF CreateNode, Creatable, At, TypeOK
  <2>2. Noded' /\ Answered'
    BY <1>a, <1>c, <2>1 DEF bridges
  <2> QED  BY <1>b, <2>1, <2>2 DEF statics
<1>9. CASE NodeFails(d) \/ MapFails(d)
  <2>1. failed' \cap {"device", "map"} # {}
    BY <1>9 DEF NodeFails, MapFails
  <2> QED  BY <2>1 DEF Orderly
<1>10. CASE MapUnit(d)
  <2>1. /\ pc[d] = "map" /\ pc'[d] = "unit" /\ ptr' = [ptr EXCEPT ![unit[d]] = d]
        /\ UNCHANGED <<statics, sysfs, bound>>
    BY <1>a, <1>10 DEF MapUnit, At, TypeOK
  <2>2. \A u \in Units : ptr'[u] # Null <=> ptr[u] # Null \/ unit[d] = u
    BY <1>a, <2>1, PointerKinds
  <2>3. Noded' /\ Answered'
    BY <1>a, <1>c, <2>1, <2>2 DEF sysfs
  <2> QED  BY <1>b, <2>1, <2>3 DEF statics, sysfs
<1>11. CASE Probed(d)
  <2>1. /\ pc[d] = "unit" /\ pc'[d] = "idle" /\ d \in bound'
        /\ UNCHANGED <<statics, bridges, sysfs>>
    BY <1>a, <1>11 DEF Probed, ProbeEnds, At, TypeOK
  <2> QED  BY <1>b, <1>c, <2>1 DEF statics, bridges, sysfs
<1>12. CASE SkipUnit(d) \/ DropUnit(d) \/ UnmapUnit(d)
  <2>1. /\ pc[d] \in {"remove", "unmap"} /\ pc'[d] \in {"remove", "unmap", "forget"}
        /\ UNCHANGED <<statics, ptr, sysfs, bound>>
    BY <1>a, <1>12 DEF SkipUnit, DropUnit, UnmapUnit, At, TypeOK, bridges
  <2> QED  BY <1>b, <1>c, <2>1 DEF statics, sysfs
<1>13. CASE ForgetUnit(d)
  <2>1. /\ pc[d] = "forget" /\ pc'[d] = "destroy" /\ ptr' = [ptr EXCEPT ![unit[d]] = Null]
        /\ UNCHANGED <<statics, sysfs, bound, unit>>
    BY <1>a, <1>13 DEF ForgetUnit, At, TypeOK
  <2>2. ptr[unit[d]] # Null
    BY <1>a, <2>1 DEF Holds
  <2>3. \A u \in Units : ptr[u] # Null <=> ptr'[u] # Null \/ unit[d] = u
    BY <1>a, <2>1, <2>2
  <2>4. Noded' /\ Answered'
    BY <1>a, <1>c, <2>1, <2>3 DEF sysfs
  <2> QED  BY <1>b, <2>1, <2>4 DEF statics, sysfs
<1>14. CASE DestroyNode(d)
  <2>1. /\ pc[d] = "destroy" /\ pc'[d] = "remove"
        /\ UNCHANGED <<statics, ptr, strays, bound>>
        /\ nodes' = IF class = "live" /\ unit[d] \notin strays
                    THEN nodes \ {unit[d]} ELSE nodes
    BY <1>a, <1>14 DEF DestroyNode, At, TypeOK, bridges
  <2>2. unit[d] \in nodes /\ class = "live"
    BY <1>a, <1>b, <1>c, <2>1
  <2>3. nodes' = nodes \ {unit[d]}
    BY <1>b, <2>1, <2>2
  <2>4. ptr[unit[d]] = Null
    BY <1>a, <2>1 DEF Holds
  <2>5. Noded' /\ Answered'
    BY <1>a, <1>c, <2>1, <2>3, <2>4
  <2> QED  BY <1>b, <2>1, <2>3, <2>5 DEF statics
<1>15. CASE Detached(d)
  <2>1. /\ pc[d] = "remove" /\ pc'[d] = "idle" /\ unit[d] \notin Units
        /\ UNCHANGED <<statics, ptr, sysfs>>
    BY <1>a, <1>15 DEF Detached, At, TypeOK
  <2>2. \A u \in Units : u < unit[d]
    <3>1. unit[d] \in Nat /\ unit[d] # 0 /\ ConfigCount \in Nat
      BY LifecycleAssumption, <1>a DEF TypeOK
    <3> QED  BY <2>1, <3>1 DEF Units
  <2>3. \A u \in Units : ptr[u] = Null
    BY <1>a, <2>1, <2>2 DEF Holds
  <2> QED  BY <1>b, <1>c, <2>1, <2>3 DEF statics, sysfs
<1> QED
  BY <1>1, <1>2, <1>3, <1>4, <1>5, <1>6, <1>7, <1>8, <1>9, <1>10, <1>11, <1>12, <1>13,
     <1>14, <1>15 DEF DeviceStep, ProbeStep, RemoveStep

\* What the clean-up releases that is not held, it has released before.
LEMMA CleanupGives ==
    ASSUME NEW c, NEW d \in BOOLEAN, Cleanup(c, d), owner' \in BOOLEAN
    PROVE  /\ "region" \in over' => "region" \in over \/ ~region
           /\ "cdev" \in over' => "cdev" \in over \/ (owner' /\ ~d)
           /\ "mapping" \in over' => "mapping" \in over
  BY DEF Cleanup, Missing

LEMMA GivenBackStep == LeftInv /\ [Next]_vars => GivenBackOnce'
<1> SUFFICES ASSUME LeftInv, [Next]_vars PROVE GivenBackOnce'
  OBVIOUS
<1>a. /\ SerialInv /\ Pointed /\ Tidy /\ GivenBackOnce /\ TypeOK /\ Staged /\ Held
      /\ Managed /\ Alone /\ Serial /\ NoDangling
      /\ Units \subseteq 1..ConfigCount /\ ptr \in [1..ConfigCount -> Pointers]
      /\ live \subseteq Units \X Devices /\ nodes \subseteq Units
      /\ owner \in BOOLEAN /\ cdev \in BOOLEAN
  BY UnitsAreUnits DEF LeftInv, SerialInv, PointerInv, TypeOK
<1>1. CASE InitExit
  <2>1. CASE Load \/ LoadNoDriver
    <3>1. /\ over' = {} /\ live' = {} /\ nodes' = {} /\ ~registered' /\ ~cdev'
          /\ module' = "out" => failed' = {"register"}
      BY <2>1 DEF Load, LoadNoDriver, Loading, NothingHeld
    <3> QED  BY <3>1 DEF GivenBackOnce
  <2>2. CASE LoadNoRegion
    <3>1. /\ module = "out" /\ live' = {} /\ nodes' = {} /\ owner' = FALSE
          /\ Cleanup("null", FALSE) /\ "null" # "err" /\ "region" \in failed'
          /\ failed \subseteq failed' /\ crowded' = crowded
      BY <2>2 DEF LoadNoRegion, Loading, NothingHeld
    <3>2. ~region' /\ ~registered' /\ ~cdev'
      BY <3>1 DEF Cleanup
    <3>3. /\ "cdev" \in over' => "cdev" \in over
          /\ "mapping" \in over' => "mapping" \in over
      BY <3>1, CleanupGives
    <3> QED  BY <1>a, <3>1, <3>2, <3>3 DEF GivenBackOnce
  <2>3. CASE Unload
    BY <1>a, <2>3 DEF Unload, GivenBackOnce, history
  <2>4. CASE Exit
    <3>1. /\ module = "leaving" /\ Idle /\ bound = {} /\ owner' = owner
          /\ Cleanup(class, cdev)
          /\ UNCHANGED <<live, nodes, failed, crowded>>
      BY <2>4 DEF Exit, bridges
    <3>2. region' => "class" \in failed'
      BY <1>a, <3>1 DEF Cleanup, Held
    <3>3. registered' \/ cdev' => "class" \in failed /\ crowded
      <4>1. CASE class = "err"
        BY <1>a, <3>1, <4>1 DEF Cleanup, Held, Serial
      <4>2. CASE class # "err"
        BY <1>a, <3>1, <4>2 DEF Cleanup, Held
      <4> QED  BY <4>1, <4>2
    <3>4. ASSUME Orderly
          PROVE  nodes = {} /\ live = {}
      <4>1. \A u \in Units : ptr[u] = Null /\ u \notin nodes
        BY <1>a, <3>1, <3>4 DEF Tidy, Idle
      <4>2. nodes = {}
        BY <1>a, <4>1
      <4>3. CASE build = "config"
        <5>1. \A m \in live : m[1] \in Units /\ m[2] \in Devices /\ ptr[m[1]] = m[2]
          BY <1>a, <3>4, <4>3 DEF Pointed, Orderly
        <5>2. live = {}
          BY <4>1, <5>1, PointerKinds
        <5> QED  BY <4>2, <5>2
      <4>4. CASE build = "res"
        <5>1. \A m \in live : m[2] \in Devices /\ pc[m[2]] = "idle"
          BY <1>a, <3>1 DEF Idle
        <5>2. live = {}
          BY <3>1, <4>4, <5>1, <1>a DEF Managed
        <5> QED  BY <4>2, <5>2
      <4> QED  BY <1>a, <4>3, <4>4 DEF TypeOK
    <3>5. /\ "region" \in over' => failed' \cap {"region", "cdev", "device"} # {}
          /\ "cdev" \in over' => failed' \cap {"cdev", "device"} # {}
          /\ "mapping" \in over' => crowded'
      BY <1>a, <3>1, CleanupGives DEF GivenBackOnce, Held
    <3> QED  BY <3>1, <3>2, <3>3, <3>4, <3>5 DEF GivenBackOnce, Orderly
  <2> QED  BY <1>1, <2>1, <2>2, <2>3, <2>4 DEF InitExit
<1>2. ASSUME NEW d \in Devices, DeviceStep(d)
      PROVE  GivenBackOnce'
  <2>0. module' = module /\ module # "out"
    <3>1. module = "out" => pc[d] = "idle"
      BY <1>a DEF Staged, Idle
    <3>2. pc[d] = "idle" => module # "out"
      BY <1>2 DEF DeviceStep, Probe, Detach, ProbeStep, RemoveStep, CreateClass,
         ClassFails, AddCdev, CdevFails, PassUnit, TakeUnit, CreateNode, NodeFails,
         MapUnit, MapFails, Probed, SkipUnit, DropUnit, UnmapUnit, ForgetUnit,
         DestroyNode, Detached, ProbeEnds, At
    <3> QED  BY <1>2, <1>a, <3>1, <3>2, OthersStay
  <2> SUFFICES /\ "region" \in over' => failed' \cap {"region", "cdev", "device"} # {}
               /\ "cdev" \in over' => failed' \cap {"cdev", "device"} # {}
               /\ "mapping" \in over' => crowded'
    BY <2>0 DEF GivenBackOnce
  <2>1. CASE ClassFails(d)
    <3>1. /\ Cleanup("err", cdev) /\ failed' = failed \cup {"class"} /\ crowded' = crowded
      BY <2>1 DEF ClassFails
    <3>2. over' = over
      BY <3>1 DEF Cleanup
    <3> QED  BY <1>a, <3>1, <3>2 DEF GivenBackOnce
  <2>2. CASE CdevFails(d) \/ NodeFails(d)
    <3>1. /\ \E c \in {"null", "live", "err"}, x \in BOOLEAN : Cleanup(c, x)
          /\ owner' \in BOOLEAN /\ failed' \cap {"cdev", "device"} # {}
          /\ crowded' = crowded
      BY <1>a, <2>2 DEF CdevFails, NodeFails, TypeOK
    <3> QED  BY <1>a, <3>1, CleanupGives DEF GivenBackOnce
  <2>3. CASE UnmapUnit(d)
    <3>1. /\ UNCHANGED <<failed, crowded>> /\ pc[d] = "unmap" /\ unit[d] \in Units
          /\ over' = over \/ (/\ over' = over \cup {"mapping"} /\ build = "config"
                              /\ <<unit[d], ptr[unit[d]]>> \notin live)
      BY <1>a, <2>3 DEF UnmapUnit, At, TypeOK
    <3>2. ASSUME build = "config", <<unit[d], ptr[unit[d]]>> \notin live
          PROVE  crowded
      <4> SUFFICES ASSUME ~crowded PROVE FALSE
        OBVIOUS
      <4>1. ptr[unit[d]] \in Devices
        BY <1>a, <3>1, <3>2 DEF Serial, Holds, Staged, Pointers
      <4>2. PICK e \in Devices : pc[e] = "forget"
        BY <1>a, <2>0, <3>1, <3>2, <4>1 DEF NoDangling
      <4> QED  BY <1>a, <3>1, <4>2 DEF Alone
    <3> QED  BY <1>a, <3>1, <3>2 DEF GivenBackOnce
  <2>4. CASE over' = over /\ failed \subseteq failed' /\ (crowded => crowded')
    BY <1>a, <2>4 DEF GivenBackOnce
  <2>5. CASE Probe(d) \/ Detach(d)
    BY <2>4, <2>5 DEF Probe, Detach, Overlap
  <2>6. CASE MapFails(d)
    BY <2>4, <2>6 DEF MapFails
  <2>7. CASE UNCHANGED history
    BY <2>4, <2>7 DEF history
  <2> QED
    BY <1>2, <2>1, <2>2, <2>3, <2>5, <2>6, <2>7
    DEF DeviceStep, ProbeStep, RemoveStep, CreateClass, AddCdev, PassUnit, TakeUnit,
        CreateNode, MapUnit, Probed, SkipUnit, DropUnit, ForgetUnit, DestroyNode, Detached
<1>3. ASSUME NEW f \in Files, FileStep(f)
      PROVE  GivenBackOnce'
  BY <1>a, <1>3, FilesOnly DEF GivenBackOnce, statics, bridges, sysfs, history
<1>4. CASE UNCHANGED vars
  BY <1>a, <1>4 DEF vars, GivenBackOnce, statics, bridges, sysfs, history
<1> QED  BY <1>1, <1>2, <1>3, <1>4 DEF Next, DeviceStep, FileStep

LEMMA LeftStep == LeftInv /\ [Next]_vars => LeftInv'
<1> SUFFICES ASSUME LeftInv, [Next]_vars PROVE LeftInv'
  OBVIOUS
<1>a. SerialInv' /\ Pointed' /\ GivenBackOnce' /\ Units' = Units /\ SerialInv /\ Tidy
  BY SerialStep, PointedStep, GivenBackStep, UnitsFixed DEF LeftInv
<1>1. CASE InitExit
  BY <1>a, <1>1, TidyInit DEF LeftInv
<1>2. CASE \E d \in Devices : DeviceStep(d)
  BY <1>a, <1>2, TidyStep DEF LeftInv
<1>3. CASE \E f \in Files : FileStep(f)
  <2>1. UNCHANGED <<module, statics, bridges, sysfs, core, history>>
    BY <1>3, FilesOnly
  <2> QED
    BY <1>a, <2>1 DEF LeftInv, Tidy, Orderly, statics, bridges, sysfs, core, history
<1>4. CASE UNCHANGED vars
  BY <1>a, <1>4 DEF vars, LeftInv, Tidy, Orderly, statics, bridges, sysfs, core, history
<1> QED  BY <1>1, <1>2, <1>3, <1>4 DEF Next, DeviceStep, FileStep

\* What init and probe take is given back, and once, but for what the failure of a
\* call or an overlap of two devices leaves or releases twice
\* (xvc_driver_base.c:45-64, 117-133, 159-165 and 189-223).
THEOREM AllGivenBackOnce == Spec => []GivenBackOnce
<1>1. LeftInv => GivenBackOnce
  BY DEF LeftInv
<1> QED  BY <1>1, LeftInit, LeftStep, PTL DEF Spec
=============================================================================
