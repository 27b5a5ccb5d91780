--------------------------- MODULE DriverLifecycle ---------------------------
(***************************************************************************)
(* What jtag/zynqMP/src/driver/xvc_driver_base.c takes and gives back: the *)
(* region of device numbers, the class, the cdev, one node and one mapping *)
(* per unit (debug bridge), through init, probe, remove and exit, while    *)
(* processes open the nodes and call the shift ioctl.                      *)
(*                                                                         *)
(* build is "res", one unit whose mapping the kernel releases when its     *)
(* platform device is detached, or "config", the units of a user's         *)
(* xvc_user_config.h, which remove unmaps itself.  The driver core is      *)
(* external: it locks a device, not the driver, so probes and removes of   *)
(* different devices overlap, and unloads the module only when no open     *)
(* file pins it.  A run of xil_xvc_cleanup is one step.  A module that has *)
(* left something behind is not loaded again.  What device_destroy does    *)
(* with an error pointer for a class is not defined; here it finds nothing.*)
(***************************************************************************)
EXTENDS Naturals

CONSTANTS Devices,      \* platform devices the driver matches
          ConfigCount,  \* CONFIG_COUNT of the config build
          Files,        \* files the processes may have open
          Null, Err     \* NULL and an error pointer

ASSUME LifecycleAssumption ==
    /\ ConfigCount \in Nat \ {0}
    /\ Null \notin Devices /\ Err \notin Devices /\ Null # Err
    /\ "none" \notin Devices \cup {Null, Err}

VARIABLES
    build,       \* "res" or "config"
    module,      \* "out", "in", "leaving"
    region,      \* xvc_ioc_dev_region is allocated
    class,       \* xvc_dev_class: "null", "live" or "err"
    registered,  \* the kernel has a class of the driver's name
    owner,       \* xvc_char_ioc_dev.owner # NULL
    cdev,        \* xvc_char_ioc_dev is known to the kernel
    ptr,         \* db_ptrs: Null, Err, or the device it was mapped for
    live,        \* mappings: <<unit, device>>
    nodes,       \* units that have a device node,
    strays,      \*   and of these the ones whose class was destroyed
    bound,       \* devices the driver is bound to
    pc,          \* the probe or remove of each device,
    unit,        \*   its loop variable i, from 1,
    fresh,       \*   and whether it has added the cdev, so that status is 0
    file,        \* the unit a file is open on, 0 for a closed one
    call,        \* the pointer a running ioctl works on, "none"
    loose,       \* open files whose unit may have been without a mapping: not
                 \*   mapped when they were opened, or open during a remove
    raced,       \* files whose running ioctl has overlapped a remove
    failed,      \* calls into the kernel that have failed since it was loaded
    crowded,     \* probes or removes of two devices have overlapped
    over         \* what was released without being held

statics == <<region, class, registered, owner, cdev>>
bridges == <<ptr, live>>
sysfs == <<nodes, strays>>
core == <<bound, pc, unit, fresh>>
users == <<file, call, loose, raced>>
history == <<failed, crowded, over>>
vars == <<build, module, statics, bridges, sysfs, core, users, history>>

Units == IF build = "res" THEN {1} ELSE 1..ConfigCount
Nowhere == [u \in 1..ConfigCount |-> Null]

Idle == \A d \in Devices : pc[d] = "idle"
Removal == {"remove", "unmap", "forget", "destroy"}
Removing == \E d \in Devices : pc[d] \in Removal

Init ==
    /\ build \in {"res", "config"}
    /\ module = "out" /\ region = FALSE
    /\ class = "null" /\ registered = FALSE /\ owner = FALSE /\ cdev = FALSE
    /\ ptr = Nowhere /\ live = {} /\ nodes = {} /\ strays = {}
    /\ bound = {} /\ pc = [d \in Devices |-> "idle"]
    /\ unit = [d \in Devices |-> 1] /\ fresh = [d \in Devices |-> FALSE]
    /\ file = [f \in Files |-> 0] /\ call = [f \in Files |-> "none"]
    /\ loose = {} /\ raced = {}
    /\ failed = {} /\ crowded = FALSE /\ over = {}

-----------------------------------------------------------------------------
(* xil_xvc_cleanup, and init and exit. *)

\* What the clean-up gives back without its being held.
Missing(d) == (IF owner' /\ ~d THEN {"cdev"} ELSE {})
              \cup (IF region THEN {} ELSE {"region"})

\* The class is c and the cdev d.  class_destroy leaves the nodes, and cdev_del
\* the owner.
Cleanup_KeepRegion(c, d) ==
    IF c = "err"
    THEN class' = c /\ cdev' = d /\ UNCHANGED <<region, registered, strays, over>>
    ELSE /\ class' = "null" /\ registered' = FALSE /\ cdev' = (d /\ ~owner')
         /\ region' = (region /\ ~owner')
         /\ strays' = nodes
         /\ over' = over \cup Missing(d)
Cleanup(c, d) ==
    IF c = "err"
    THEN class' = c /\ cdev' = d /\ UNCHANGED <<region, registered, strays, over>>
    ELSE /\ class' = "null" /\ registered' = FALSE /\ cdev' = (d /\ ~owner')
         /\ region' = FALSE
         /\ strays' = nodes
         /\ over' = over \cup Missing(d)

NothingHeld == ~region /\ ~registered /\ ~cdev /\ live = {} /\ nodes = {}

\* The static variables are those of a new image of the module.
Loading ==
    /\ module = "out" /\ NothingHeld
    /\ owner' = FALSE /\ ptr' = Nowhere
    /\ UNCHANGED <<build, live, nodes, core, users>>

Load ==
    /\ Loading
    /\ module' = "in" /\ region' = TRUE /\ class' = "null"
    /\ failed' = {} /\ crowded' = FALSE /\ over' = {}
    /\ UNCHANGED <<registered, cdev, strays>>

\* alloc_chrdev_region fails: the clean-up gives back a region all the same.
LoadNoRegion ==
    /\ Loading
    /\ Cleanup("null", FALSE)
    /\ failed' = failed \cup {"region"}
    /\ UNCHANGED <<module, crowded>>

\* platform_driver_register fails, and nothing is given back.
LoadNoDriver ==
    /\ Loading
    /\ region' = TRUE /\ class' = "null"
    /\ failed' = {"register"} /\ crowded' = FALSE /\ over' = {}
    /\ UNCHANGED <<module, registered, cdev, strays>>

\* .owner = THIS_MODULE: an open file keeps the module.
Pinned_Ownerless == FALSE
Pinned == \E f \in Files : file[f] # 0

\* A probe or remove that is under way goes on.
Unload ==
    /\ module = "in" /\ ~Pinned
    /\ module' = "leaving"
    /\ UNCHANGED <<build, statics, bridges, sysfs, core, users, history>>

\* All devices are detached: the end of xil_xvc_exit.
Exit ==
    /\ module = "leaving" /\ Idle /\ bound = {}
    /\ module' = "out"
    /\ owner' = owner /\ Cleanup(class, cdev)
    /\ UNCHANGED <<build, bridges, nodes, core, users, failed, crowded>>

-----------------------------------------------------------------------------
(* probe, for device d *)

At(d, from, to) == pc[d] = from /\ pc' = [pc EXCEPT ![d] = to]
Overlap(d) == crowded' = (crowded \/ \E e \in Devices \ {d} : pc[e] # "idle")

Probe(d) ==
    /\ module = "in" /\ d \notin bound
    /\ At(d, "idle", IF class = "null" THEN "class" ELSE "unit")
    /\ Overlap(d)
    /\ UNCHANGED <<build, module, statics, bridges, sysfs, bound, unit, fresh, users,
                   failed, over>>

ProbeEnds(d, from, ok) ==
    /\ At(d, from, "idle")
    /\ bound' = bound \cup (IF ok THEN {d} ELSE {})
    /\ unit' = [unit EXCEPT ![d] = 1] /\ fresh' = [fresh EXCEPT ![d] = FALSE]

CreateClass(d) ==
    /\ At(d, "class", "cdev")
    /\ ~registered
    /\ class' = "live" /\ registered' = TRUE
    /\ UNCHANGED <<build, module, region, owner, cdev, bridges, sysfs, bound, unit,
                   fresh, users, history>>

\* There may be a class of this name already.  The error stays in xvc_dev_class.
ClassFails(d) ==
    /\ ProbeEnds(d, "class", FALSE)
    /\ owner' = owner /\ Cleanup("err", cdev)
    /\ failed' = failed \cup {"class"}
    /\ UNCHANGED <<build, module, bridges, nodes, users, crowded>>

AddCdev(d) ==
    /\ At(d, "cdev", "unit")
    /\ owner' = TRUE /\ cdev' = TRUE
    /\ fresh' = [fresh EXCEPT ![d] = TRUE]
    /\ UNCHANGED <<build, module, region, class, registered, bridges, sysfs, bound,
                   unit, users, history>>

CdevFails(d) ==
    /\ ProbeEnds(d, "cdev", FALSE)
    /\ owner' = TRUE /\ Cleanup(class, FALSE)
    /\ failed' = failed \cup {"cdev"}
    /\ UNCHANGED <<build, module, bridges, nodes, users, crowded>>

\* A unit that has a pointer is passed over.
PassUnit(d) ==
    /\ pc[d] = "unit" /\ unit[d] \in Units /\ ptr[unit[d]] # Null
    /\ unit' = [unit EXCEPT ![d] = unit[d] + 1]
    /\ UNCHANGED <<build, module, statics, bridges, sysfs, bound, pc, fresh, users,
                   history>>

TakeUnit(d) ==
    /\ unit[d] \in Units /\ ptr[unit[d]] = Null
    /\ At(d, "unit", "node")
    /\ UNCHANGED <<build, module, statics, bridges, sysfs, bound, unit, fresh, users,
                   history>>

\* device_create needs a class and a number that is not in use.
Creatable(u) == class = "live" /\ u \notin nodes

CreateNode_NextMinor(d) ==
    /\ At(d, "node", "map") /\ Creatable(unit[d])
    /\ nodes' = nodes \cup {unit[d] + 1}
    /\ UNCHANGED <<build, module, statics, bridges, strays, bound, unit, fresh, users,
                   history>>
CreateNode(d) ==
    /\ At(d, "node", "map") /\ Creatable(unit[d])
    /\ nodes' = nodes \cup {unit[d]}
    /\ UNCHANGED <<build, module, statics, bridges, strays, bound, unit, fresh, users,
                   history>>

\* The value of status is 0, or uninitialised.
NodeFails(d) ==
    /\ \E ok \in BOOLEAN : (fresh[d] => ok) /\ ProbeEnds(d, "node", ok)
    /\ owner' = owner /\ Cleanup(class, cdev)
    /\ failed' = failed \cup {"device"}
    /\ UNCHANGED <<build, module, bridges, nodes, users, crowded>>

MapUnit(d) ==
    /\ At(d, "map", "unit")
    /\ ptr' = [ptr EXCEPT ![unit[d]] = d] /\ live' = live \cup {<<unit[d], d>>}
    /\ unit' = [unit EXCEPT ![d] = unit[d] + 1]
    /\ UNCHANGED <<build, module, statics, sysfs, bound, fresh, users, history>>

\* ioremap returns NULL, devm_ioremap_resource an error; the node stays.
MapFails(d) ==
    /\ ProbeEnds(d, "map", FALSE)
    /\ ptr' = [ptr EXCEPT ![unit[d]] = IF build = "res" THEN Err ELSE Null]
    /\ failed' = failed \cup {"map"}
    /\ UNCHANGED <<build, module, statics, live, sysfs, users, crowded, over>>

Probed(d) ==
    /\ unit[d] \notin Units
    /\ ProbeEnds(d, "unit", TRUE)
    /\ UNCHANGED <<build, module, statics, bridges, sysfs, users, history>>

-----------------------------------------------------------------------------
(* remove, which tears down every unit, whichever device goes. *)

\* By hand while the module is in, which open files and running calls may meet.
Detach(d) ==
    /\ module \in {"in", "leaving"} /\ d \in bound
    /\ At(d, "idle", "remove")
    /\ Overlap(d)
    /\ IF module = "in"
       THEN /\ loose' = loose \cup {f \in Files : file[f] # 0}
            /\ raced' = raced \cup {f \in Files : call[f] # "none"}
       ELSE UNCHANGED <<loose, raced>>
    /\ UNCHANGED <<build, module, statics, bridges, sysfs, bound, unit, fresh, file,
                   call, failed, over>>

SkipUnit(d) ==
    /\ pc[d] = "remove" /\ unit[d] \in Units /\ ptr[unit[d]] = Null
    /\ unit' = [unit EXCEPT ![d] = unit[d] + 1]
    /\ UNCHANGED <<build, module, statics, bridges, sysfs, bound, pc, fresh, users,
                   history>>

DropUnit(d) ==
    /\ unit[d] \in Units /\ ptr[unit[d]] # Null
    /\ At(d, "remove", "unmap")
    /\ UNCHANGED <<build, module, statics, bridges, sysfs, bound, unit, fresh, users,
                   history>>

\* iounmap, of what the pointer is by now.
UnmapUnit(d) ==
    /\ At(d, "unmap", "forget")
    /\ LET mapping == <<unit[d], ptr[unit[d]]>> IN
          IF build = "config"
          THEN /\ live' = live \ {mapping}
               /\ over' = over \cup (IF mapping \in live THEN {} ELSE {"mapping"})
          ELSE UNCHANGED <<live, over>>
    /\ UNCHANGED <<build, module, statics, ptr, sysfs, bound, unit, fresh, users,
                   failed, crowded>>

ForgetUnit_Kept(d) ==
    /\ At(d, "forget", "destroy")
    /\ UNCHANGED <<build, module, statics, bridges, sysfs, bound, unit, fresh, users,
                   history>>
ForgetUnit(d) ==
    /\ At(d, "forget", "destroy")
    /\ ptr' = [ptr EXCEPT ![unit[d]] = Null]
    /\ UNCHANGED <<build, module, statics, live, sysfs, bound, unit, fresh, users,
                   history>>

\* device_destroy finds a node by its class and number.
DestroyNode(d) ==
    /\ At(d, "destroy", "remove")
    /\ nodes' = IF class = "live" /\ unit[d] \notin strays
                THEN nodes \ {unit[d]} ELSE nodes
    /\ unit' = [unit EXCEPT ![d] = unit[d] + 1]
    /\ UNCHANGED <<build, module, statics, bridges, strays, bound, fresh, users, history>>

\* The driver core undoes devm_ioremap_resource.
Detached(d) ==
    /\ unit[d] \notin Units
    /\ At(d, "remove", "idle")
    /\ live' = IF build = "res" THEN {m \in live : m[2] # d} ELSE live
    /\ bound' = bound \ {d} /\ unit' = [unit EXCEPT ![d] = 1]
    /\ UNCHANGED <<build, module, statics, ptr, sysfs, fresh, users, history>>

-----------------------------------------------------------------------------
(* The processes. *)

Open(f) ==
    /\ module = "in" /\ cdev /\ file[f] = 0
    /\ \E u \in nodes :
          /\ file' = [file EXCEPT ![f] = u]
          /\ loose' = loose \cup (IF ptr[u] \in Devices /\ ~Removing THEN {} ELSE {f})
    /\ UNCHANGED <<build, module, statics, bridges, sysfs, core, call, raced, history>>

\* char_ctrl_ioctl reads db_ptrs once.
Ioctl(f) ==
    /\ file[f] # 0 /\ call[f] = "none"
    /\ call' = [call EXCEPT ![f] = ptr[file[f]]]
    /\ raced' = raced \cup (IF Removing THEN {f} ELSE {})
    /\ UNCHANGED <<build, module, statics, bridges, sysfs, core, file, loose, history>>

IoctlEnds(f) ==
    /\ call[f] # "none"
    /\ call' = [call EXCEPT ![f] = "none"] /\ raced' = raced \ {f}
    /\ UNCHANGED <<build, module, statics, bridges, sysfs, core, file, loose, history>>

Close(f) ==
    /\ file[f] # 0 /\ call[f] = "none"
    /\ file' = [file EXCEPT ![f] = 0] /\ loose' = loose \ {f}
    /\ UNCHANGED <<build, module, statics, bridges, sysfs, core, call, raced, history>>

-----------------------------------------------------------------------------
InitExit == Load \/ LoadNoRegion \/ LoadNoDriver \/ Unload \/ Exit
ProbeStep(d) == \/ CreateClass(d) \/ ClassFails(d) \/ AddCdev(d) \/ CdevFails(d)
                \/ PassUnit(d) \/ TakeUnit(d) \/ CreateNode(d) \/ NodeFails(d)
                \/ MapUnit(d) \/ MapFails(d) \/ Probed(d)
RemoveStep(d) == \/ SkipUnit(d) \/ DropUnit(d) \/ UnmapUnit(d) \/ ForgetUnit(d)
                 \/ DestroyNode(d) \/ Detached(d)

Next == \/ InitExit
        \/ \E d \in Devices : Probe(d) \/ ProbeStep(d) \/ Detach(d) \/ RemoveStep(d)
        \/ \E f \in Files : Open(f) \/ Ioctl(f) \/ IoctlEnds(f) \/ Close(f)

Spec == Init /\ [][Next]_vars

-----------------------------------------------------------------------------
Pointers == Devices \cup {Null, Err}
Places == {"idle", "class", "cdev", "unit", "node", "map"} \cup Removal

TypeOK ==
    /\ build \in {"res", "config"} /\ module \in {"out", "in", "leaving"}
    /\ {region, registered, owner, cdev, crowded} \subseteq BOOLEAN
    /\ class \in {"null", "live", "err"}
    /\ ptr \in [1..ConfigCount -> Pointers]
    /\ live \subseteq Units \X Devices
    /\ nodes \subseteq Units /\ strays \subseteq Units
    /\ bound \subseteq Devices
    /\ pc \in [Devices -> Places] /\ fresh \in [Devices -> BOOLEAN]
    /\ unit \in [Devices -> Nat \ {0}]
    /\ \A d \in Devices :
          pc[d] \in {"node", "map", "unmap", "forget", "destroy"} => unit[d] \in Units
    /\ file \in [Files -> Units \cup {0}]
    /\ call \in [Files -> Pointers \cup {"none"}]
    /\ loose \subseteq Files /\ raced \subseteq Files
    /\ failed \subseteq {"region", "register", "class", "cdev", "device", "map"}
    /\ over \subseteq {"region", "cdev", "mapping"}

\* What init and probe take is given back, and once, with the exceptions named.
\* Of a module that has been unloaded there remains the region only after
\* platform_driver_register or class_create failed; the class and the cdev only
\* where class_create failed for a probe that overlapped another; a node or a
\* mapping only after device_create or ioremap failed, or after an overlap.  The
\* region and the cdev are released without being held only after a failure whose
\* error path has run the clean-up before, a mapping only in removes that overlap.
GivenBackOnce ==
    /\ module = "out" =>
          /\ region => failed \cap {"register", "class"} # {}
          /\ registered \/ cdev => "class" \in failed /\ crowded
          /\ nodes # {} \/ live # {} => failed \cap {"device", "map"} # {} \/ crowded
    /\ "region" \in over => failed \cap {"region", "cdev", "device"} # {}
    /\ "cdev" \in over => failed \cap {"cdev", "device"} # {}
    /\ "mapping" \in over => crowded

\* db_ptrs never names a mapping that is gone, whatever fails and however probes
\* and removes overlap, except between iounmap and the next store of a remove:
\* probe would leave such a unit alone and the ioctl would use it.
NoDangling ==
    \A u \in Units :
        module # "out" /\ ptr[u] \in Devices =>
            \/ <<u, ptr[u]>> \in live
            \/ \E d \in Devices : pc[d] = "forget" /\ unit[d] = u

\* A shift ioctl works on a bridge that is mapped until it returns, whatever has
\* failed, but for the two interleavings the code leaves open: one that overlaps
\* a remove may lose its mapping, and one on a file that was opened before its
\* unit was mapped, or was open during a remove, may find none to begin with (as
\* may any after probes and removes of two devices have overlapped).
CallsMapped ==
    \A f \in Files :
        call[f] # "none" /\ <<file[f], call[f]>> \notin live =>
            IF call[f] \in Devices THEN f \in raced ELSE f \in loose \/ crowded
=============================================================================
