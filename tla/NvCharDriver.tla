---------------------------- MODULE NvCharDriver ----------------------------
(***************************************************************************)
(* nv_char_driver_register, nv_char_driver_unregister and their devm       *)
(* variants: the table of devices, the device numbers, the class and the   *)
(* debugfs reference a driver takes, each step of which may fail, and how  *)
(* they are given back: by hand, or by the devres of the struct device the *)
(* driver is bound to, last action first.                                  *)
(*                                                                         *)
(* probe, remove, module init and exit are serialised by the driver core   *)
(* and the module loader.  `region' is the fate of the numbers the driver  *)
(* asks for; another driver may take them whenever they are free.          *)
(***************************************************************************)
EXTENDS Integers, Sequences

CONSTANTS
    Slot,       \* the indexes below drv->count
    MaxBinds    \* bound: how often the driver is registered

ASSUME DriverAssumption == MaxBinds \in Nat \ {0}

VARIABLES
    devm,       \* does the module call register_devm (TRUE) or register?
    at,         \* the next step of the registration or of its undoing
    table,      \* drv->devices: NULL, allocated, or a pointer to freed memory
    region,     \* who has the device numbers: "free", "nv" or "other"
    class,      \* drv->class: NULL, an error pointer or the class
    created,    \* is a class of drv's name registered with the kernel?
    devt,       \* drv->devt # 0
    managed,    \* drv->devm_managed
    devres,     \* the devres of the struct device, oldest first
    debugfs,    \* nv_char_debugfs_refcnt
    stage,      \* how far each device is registered or unregistered
    binds       \* registrations so far

numberVars == <<region, devt>>
classVars == <<class, created>>
vars == <<devm, at, table, numberVars, classVars, managed, devres, debugfs, stage, binds>>

Step(from, to) == at = from /\ at' = to

\* unregister_chrdev_region goes by the numbers, not by who registered them.
NoRegion == "free"

\* devm_release_action takes the action out of the devres list.
Unlist(r) ==
    \E i \in 1..Len(devres) :
        /\ devres[i] = r
        /\ devres' = SubSeq(devres, 1, i - 1) \o SubSeq(devres, i + 1, Len(devres))

\* Where a failed registration or an unregistration ends: with the devm variant
\* in the driver core, which undoes what devres knows of.
Failed == IF devm THEN "detach" ELSE "idle"

\* The driver is registered, or on its way through the unregistration.
UpPC == {"ready", "devices", "debugfsexit", "classexit", "regionexit"}

\* The thread is not inside the registration or unregistration of a device.
Quiet == \A i \in Slot : stage[i] \in {"none", "in"}

-----------------------------------------------------------------------------
(* Faults a plausible edit of the code would introduce.  They are not part of *)
(* the specification; each shows that some property below can be broken.      *)

\* The unregistration leaves the devices still in the table.
FreeTableSkipsDevices ==
    /\ Step("devices", "debugfsexit")
    /\ table' = "null"
    /\ UNCHANGED <<devm, numberVars, classVars, managed, devres, debugfs, stage, binds>>

\* A refused device number region is given back: err_region for err_devices.
TakeRegionFailsFrees ==
    /\ Step("region", Failed)
    /\ region' = NoRegion
    /\ table' = IF devm THEN table ELSE "null"
    /\ UNCHANGED <<devm, devt, classVars, managed, devres, debugfs, stage, binds>>

\* The devres action of the device numbers is not added.
ForgetRegionAction ==
    /\ devm /\ Step("regionaction", "class")
    /\ UNCHANGED <<devm, table, numberVars, classVars, managed, devres, debugfs, stage, binds>>

-----------------------------------------------------------------------------
(* Registration *)

\* kcalloc or devm_kcalloc of drv->devices.
AllocTable ==
    /\ at = "idle"
    /\ binds < MaxBinds
    /\ binds' = binds + 1
    /\ managed' = (devm \/ managed)
    /\ \/ /\ at' = "region"
          /\ table' = "live"
          /\ devres' = IF devm THEN Append(devres, "table") ELSE devres
       \/ at' = Failed /\ table' = "null" /\ UNCHANGED devres
    /\ UNCHANGED <<devm, numberVars, classVars, debugfs, stage>>

\* register_chrdev_region or alloc_chrdev_region.
TakeRegion ==
    /\ region = "free"
    /\ Step("region", IF devm THEN "regionaction" ELSE "class")
    /\ region' = "nv"
    /\ devt' = TRUE
    /\ UNCHANGED <<devm, table, classVars, managed, devres, debugfs, stage, binds>>

TakeRegionFails ==
    /\ Step("region", Failed)
    /\ table' = IF devm THEN table ELSE "null"
    /\ UNCHANGED <<devm, numberVars, classVars, managed, devres, debugfs, stage, binds>>

\* devm_add_action(nv_char_devm_chrdev_release), or its failure.
AddRegionAction ==
    /\ devm
    /\ \/ Step("regionaction", "class") /\ devres' = Append(devres, "region") /\ UNCHANGED region
       \/ Step("regionaction", "detach") /\ region' = NoRegion /\ UNCHANGED devres
    /\ UNCHANGED <<devm, table, devt, classVars, managed, debugfs, stage, binds>>

\* class_create, which refuses a name that is still registered.
CreateClass ==
    /\ ~created
    /\ Step("class", IF devm THEN "classaction" ELSE "debugfs")
    /\ class' = "ours" /\ created' = TRUE
    /\ UNCHANGED <<devm, table, numberVars, managed, devres, debugfs, stage, binds>>

\* The error path of nv_char_driver_register.
PlainClassFails ==
    /\ ~devm /\ Step("class", "idle")
    /\ class' = "err"
    /\ region' = NoRegion
    /\ table' = "null"
    /\ UNCHANGED <<devm, devt, created, managed, devres, debugfs, stage, binds>>

\* The error path of nv_char_driver_register_devm: devm_release_action calls
\* the action it removes, and the caller calls it a second time ("again").
DevmClassFails ==
    /\ devm /\ Step("class", "again")
    /\ class' = "err"
    /\ region' = NoRegion
    /\ Unlist("region")
    /\ UNCHANGED <<devm, table, devt, created, managed, debugfs, stage, binds>>

ReleaseRegionAgain ==
    /\ Step("again", "detach")
    /\ region' = NoRegion
    /\ UNCHANGED <<devm, table, devt, classVars, managed, devres, debugfs, stage, binds>>

\* devm_add_action(nv_char_devm_class_release), or its failure.
AddClassAction ==
    /\ devm
    /\ \/ Step("classaction", "debugfs") /\ devres' = Append(devres, "class")
          /\ UNCHANGED <<classVars, region>>
       \/ /\ Step("classaction", "again")
          /\ class' = "null" /\ created' = FALSE
          /\ region' = NoRegion
          /\ Unlist("region")
    /\ UNCHANGED <<devm, table, devt, managed, debugfs, stage, binds>>

\* nv_char_debugfs_init: a directory that cannot be created counts as none.
InitDebugfs ==
    /\ Step("debugfs", "ready")
    /\ debugfs' \in IF debugfs = 0 THEN {0, 1} ELSE {debugfs + 1}
    /\ UNCHANGED <<devm, table, numberVars, classVars, managed, devres, stage, binds>>

-----------------------------------------------------------------------------
(* Devices.  A device is registered by the module init or probe whose own   *)
(* call of nv_char_driver_register or its devm variant has returned 0 (all   *)
(* callers return or skip it otherwise), hence at = "ready"; the function    *)
(* itself tests the index and dev->registered.                               *)

StageGoto(i, from, to) == stage[i] = from /\ stage' = [stage EXCEPT ![i] = to]

\* nv_char_device_register_parent up to cdev_add.
RegisterDevice(i) ==
    /\ at = "ready" /\ Quiet
    /\ StageGoto(i, "none", "cdev")
    /\ UNCHANGED <<devm, at, table, numberVars, classVars, managed, devres, debugfs, binds>>

\* device_create and device_create_file in drv->class, then the slot ...
DeviceReady(i) ==
    /\ StageGoto(i, "cdev", "in")
    /\ UNCHANGED <<devm, at, table, numberVars, classVars, managed, devres, debugfs, binds>>

\* ... or the failure of one of the two, and cdev_del.
DeviceFails(i) ==
    /\ StageGoto(i, "cdev", "none")
    /\ UNCHANGED <<devm, at, table, numberVars, classVars, managed, devres, debugfs, binds>>

\* nv_char_device_unregister, by its caller or by the loop of the driver's
\* unregistration: the slot is cleared and the device destroyed in drv->class ...
HideDevice(i) ==
    /\ at \in {"ready", "devices"} /\ Quiet
    /\ StageGoto(i, "in", "hidden")
    /\ UNCHANGED <<devm, at, table, numberVars, classVars, managed, devres, debugfs, binds>>

\* ... and after the wait for its descriptors the cdev is deleted.
DelCdev(i) ==
    /\ StageGoto(i, "hidden", "none")
    /\ UNCHANGED <<devm, at, table, numberVars, classVars, managed, devres, debugfs, binds>>

-----------------------------------------------------------------------------
(* nv_char_driver_unregister and nv_char_driver_unregister_devm: by remove or *)
(* module exit, or by a probe or module init whose device does not register. *)
(* What is managed is left to devres.                                        *)

BeginUnregister ==
    /\ Quiet
    /\ Step("ready", "devices")
    /\ UNCHANGED <<devm, table, numberVars, classVars, managed, devres, debugfs, stage, binds>>

\* The end of the loop over drv->devices: no slot is in use any more.
FreeTable ==
    /\ \A i \in Slot : stage[i] = "none"
    /\ Step("devices", "debugfsexit")
    /\ table' = "null"
    /\ UNCHANGED <<devm, numberVars, classVars, managed, devres, debugfs, stage, binds>>

ExitDebugfs ==
    /\ Step("debugfsexit", "classexit")
    /\ debugfs' = IF debugfs = 0 THEN 0 ELSE debugfs - 1
    /\ UNCHANGED <<devm, table, numberVars, classVars, managed, devres, stage, binds>>

DestroyClass ==
    /\ Step("classexit", "regionexit")
    /\ created' = (created /\ (managed \/ class # "ours"))
    /\ UNCHANGED <<devm, table, numberVars, class, managed, devres, debugfs, stage, binds>>

\* unregister_chrdev_region, and the members of drv are cleared.
ReleaseRegion ==
    /\ Step("regionexit", Failed)
    /\ region' = IF ~managed /\ devt THEN NoRegion ELSE region
    /\ class' = "null" /\ devt' = FALSE /\ managed' = FALSE
    /\ UNCHANGED <<devm, table, created, devres, debugfs, stage, binds>>

\* devres_release_all, one action at a time, the last added first.
ReleaseOne ==
    /\ at = "detach" /\ devres # <<>>
    /\ LET r == devres[Len(devres)] IN
       /\ table' = IF r = "table" /\ table = "live" THEN "dangling" ELSE table
       /\ region' = IF r = "region" THEN NoRegion ELSE region
       /\ created' = (created /\ ~(r = "class" /\ class = "ours"))
       /\ class' = IF r = "class" /\ class = "ours" THEN "null" ELSE class
    /\ devres' = SubSeq(devres, 1, Len(devres) - 1)
    /\ UNCHANGED <<devm, at, devt, managed, debugfs, stage, binds>>

Detached ==
    /\ devres = <<>>
    /\ Step("detach", "idle")
    /\ UNCHANGED <<devm, table, numberVars, classVars, managed, devres, debugfs, stage, binds>>

-----------------------------------------------------------------------------
(* Another driver *)

OtherTakes ==
    /\ region = "free"
    /\ region' = "other"
    /\ UNCHANGED <<devm, at, table, devt, classVars, managed, devres, debugfs, stage, binds>>

OtherGives ==
    /\ region = "other"
    /\ region' = NoRegion
    /\ UNCHANGED <<devm, at, table, devt, classVars, managed, devres, debugfs, stage, binds>>

Init ==
    /\ devm \in BOOLEAN
    /\ at = "idle"
    /\ table = "null"
    /\ region = "free"
    /\ class = "null" /\ created = FALSE
    /\ devt = FALSE
    /\ managed = FALSE
    /\ devres = <<>>
    /\ debugfs = 0
    /\ stage = [i \in Slot |-> "none"]
    /\ binds = 0

Own ==
    \/ AllocTable \/ TakeRegion \/ TakeRegionFails \/ AddRegionAction
    \/ CreateClass \/ PlainClassFails \/ DevmClassFails \/ ReleaseRegionAgain
    \/ AddClassAction \/ InitDebugfs
    \/ \E i \in Slot : \/ RegisterDevice(i) \/ DeviceReady(i) \/ DeviceFails(i)
                        \/ HideDevice(i) \/ DelCdev(i)
    \/ BeginUnregister \/ FreeTable \/ ExitDebugfs \/ DestroyClass \/ ReleaseRegion
    \/ ReleaseOne \/ Detached

Next == Own \/ OtherTakes \/ OtherGives

Spec == Init /\ [][Next]_vars

-----------------------------------------------------------------------------
(* Properties *)

\* Types of the state of struct nv_char_driver.
TypeOK ==
    /\ at \in {"idle", "region", "regionaction", "class", "classaction", "debugfs",
               "again", "detach"} \cup UpPC
    /\ table \in {"null", "live", "dangling"}
    /\ region \in {"free", "nv", "other"}
    /\ class \in {"null", "err", "ours"}
    /\ devm \in BOOLEAN /\ created \in BOOLEAN /\ devt \in BOOLEAN /\ managed \in BOOLEAN
    /\ devres \in Seq({"table", "region", "class"})
    /\ debugfs \in {0, 1}
    /\ stage \in [Slot -> {"none", "cdev", "in", "hidden"}]
    /\ binds \in 0..MaxBinds

\* "chrdev 区与 class 在 device 解绑时由 devm 自动释放" (char/driver/README.md:57),
\* and the other variant does it by hand: no class outlives the driver.
IdleHasNoClass == at = "idle" => ~created

\* After a failed registration or an unregistration nothing is left of the
\* driver: every error path of both variants and the devres actions give the
\* table, the numbers and the debugfs reference back.  The class is another
\* matter (IdleHasNoClass): only without devres none is left.
IdleHoldsNothing ==
    /\ at = "idle" => /\ region # "nv"
                      /\ table # "live"
                      /\ devres = <<>>
                      /\ debugfs = 0
                      /\ \A i \in Slot : stage[i] = "none"
    /\ ~devm => IdleHasNoClass

\* The order of the unregistration: as long as a device is in drv->devices, or
\* about to be, the table is allocated and the class its node was created in
\* exists and is drv's; and until its cdev is deleted the numbers are drv's.
DevicesInLiveDriver ==
    \A i \in Slot :
        /\ stage[i] # "none" => region = "nv"
        /\ stage[i] \in {"cdev", "in"} => table = "live" /\ class = "ours" /\ created

\* Device numbers that another driver registered in the meantime are its own:
\* no error path, no unregister and no devres action releases a region that
\* this driver does not have, but one: the second nv_char_devm_chrdev_release
\* of the error paths behind class_create (nv_char.c:621, 632).
OthersKeepRegion ==
    [][region = "other" /\ region' # "other" =>
           OtherGives \/ (devm /\ ReleaseRegionAgain)]_vars
=============================================================================
