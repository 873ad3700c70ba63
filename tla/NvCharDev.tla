----------------------------- MODULE NvCharDev -----------------------------
(***************************************************************************)
(* The cdev path of nv_char: nv_char_device_register_parent and            *)
(* nv_char_device_unregister against the files of NvCharOpen.  Nothing     *)
(* serialises nv_char_open with the unregister: chrdev_open looks the cdev *)
(* up under cdev_lock but calls ->open after dropping it.                  *)
(***************************************************************************)
EXTENDS NvCharOpen

\* Who registers: the module init of a module whose exit unregisters
\* (nv_char_echo, nv_char_demo, nv_char_selftest), or the probe of a platform
\* driver, which may be unbound (nv_char_plat).
InitRegisters == ~CanUnbind

\* Module init registers once, a probe whenever the driver is bound.
DevBind == Bind /\ (InitRegisters => binds = 0)

\* cdev_add: from here on the device can be opened.
CdevAdd ==
    /\ DrvGoto("r_publish", "r_finish")
    /\ published' = TRUE
    /\ UNCHANGED <<pc, countVars, removing, registered, buf, timedout, binds, modVars>>

\* cdev_add fails, or device_create or device_create_file does and cdev_del
\* follows: the caller gives up and frees dev->priv.  dev->removing stays clear,
\* and a descriptor opened since cdev_add stays open.
RegisterFail ==
    /\ CanFail
    /\ drv \in {"r_publish", "r_finish"}
    /\ drv' = "free"
    /\ published' = FALSE
    /\ UNCHANGED <<pc, countVars, removing, registered, buf, timedout, binds, modVars>>

\* Module init returns after a registration that failed.  If it was its own,
\* it returns the error and the loader frees the module, whatever its reference
\* count; the failed probe of a platform driver leaves the module loaded.
InitReturns ==
    /\ modState = "coming"
    /\ drv = "unbound"
    /\ binds # 0
    /\ modState' = IF InitRegisters THEN "going" ELSE "live"
    /\ UNCHANGED <<pc, countVars, bindVars, refcnt>>

\* The slot in drv->devices, the debugfs and sysfs entries and the device node
\* go; the cdev stays in the map, so a path already looked up still opens it.
HideDevice ==
    /\ DrvGoto("u_hide", "u_enq")
    /\ UNCHANGED <<pc, countVars, removing, registered, published, buf, timedout, binds, modVars>>

\* cdev_del, after the wait.
CdevDel ==
    /\ DrvGoto("u_del", "free")
    /\ published' = FALSE
    /\ registered' = FALSE
    /\ UNCHANGED <<pc, countVars, removing, buf, timedout, binds, modVars>>

\* A thread that is inside the module when it is freed makes no step of the
\* module any more; what becomes of it is not modelled.
Loaded == modState # "gone"

FileStep(f) == Loaded /\ (OpenStep(f) \/ ReleaseStep(f) \/ Fput(f))
RegisterStep == RegisterCommon \/ CdevAdd \/ RegisterFail
UnregisterStep == UnregisterCommon \/ HideDevice \/ CdevDel

Next ==
    \/ \E f \in File : VfsOpen(f) \/ FileStep(f) \/ (Loaded /\ UserStep(f))
    \/ DevBind \/ RegisterStep \/ InitReturns
    \/ Unregister \/ UnregisterStep \/ WaitTimeout
    \/ ModuleStep

Spec == Init /\ [][Next]_vars

\* A thread inside the kernel keeps running and the timer of
\* wait_event_timeout fires.  Nothing is assumed of user space.
Fairness == /\ \A f \in File : WF_vars(FileStep(f))
            /\ WF_vars(RegisterStep)
            /\ WF_vars(UnregisterStep)
FairSpec == Spec /\ Fairness /\ WF_vars(WaitTimeout)

-----------------------------------------------------------------------------
(* The module *)

\* A module init that registers the device was given an error.
InitFailed == InitRegisters /\ FailedRegistration

\* The module exits, and is freed, with no file open and no thread inside its
\* file operations, unless its own init failed: then a file opened between
\* cdev_add and the failing device_create may be left behind (nv_char.c:701).
ExitAloneUnlessInitFailed == ExitAlone \/ InitFailed

\* From the removing flag to the end of the unregistration the flag is set; it
\* is clear from the next registration's first step on.
FlagFollowsDriver ==
    /\ drv \in UnregPC \ {"u_flag"} => removing
    /\ drv \in {"r_opens", "r_publish", "r_finish", "bound", "u_flag"} => ~removing

\* The inductive invariant behind ExitAlone and ExitAloneUnlessInitFailed: a
\* module whose init has not returned has unregistered nothing.
LoadInv ==
    /\ RefInv
    /\ ExitAloneUnlessInitFailed
    /\ FlagFollowsDriver
    /\ modState = "coming" => ~removing /\ drv \notin {"bound"} \cup UnregPC
    /\ ~CanFail => ~FailedRegistration

-----------------------------------------------------------------------------
(* The invariant of a device that module init registers and only module     *)
(* exit unregisters                                                         *)

\* The unregistration is module exit's.
UnregisterIsExit ==
    drv \in UnregPC \cup {"free", "gone"} \/ (drv = "unbound" /\ binds # 0) =>
        modState \in {"going", "gone"} \/ FailedRegistration

\* The device is in the cdev map from cdev_add to cdev_del.
LiveIsOpen == published <=> drv \in {"r_finish", "bound"} \cup UnregPC

\* The drain finds nobody and goes on at once.
NeverWaits == drv # "u_sleep" /\ ~timedout

\* The inductive invariant behind ExitPrivSafe, ExitNeverSleeps and
\* ImplementsLifeUnlessFailed.
ExitInv ==
    /\ LoadInv
    /\ OpensCountsFds
    /\ FreshIsUnused
    /\ PrivFreedLast
    /\ UnregisterIsExit
    /\ LiveIsOpen
    /\ NeverWaits

-----------------------------------------------------------------------------
(* The invariant of a device that is registered at most once, whoever       *)
(* unregisters it and whether or not the registration fails                 *)

\* Between wait_event's test and its end the thread is on the wait queue.
WaiterIsQueued == drv \in {"u_chk", "u_sleep"} => waiter \in {"queued", "woken"}

\* Once the drain has succeeded no operation runs, and none can start.
DrainedHasNoOp ==
    drv \in {"u_del", "free", "unbound"} /\ removing /\ ~timedout =>
        \A f \in File : pc[f] # "op"

\* The registering thread ends with the module.
GoneIsExited == drv = "gone" => modState \in {"going", "gone"}

\* The inductive invariant behind OpNeverUsesFreedPriv and NoLostWakeup.
OnceInv ==
    /\ LoadInv
    /\ GoneIsExited
    /\ PrivFreedLast
    /\ WaiterIsQueued
    /\ binds <= 1 => OpensCountsFds /\ FreshIsUnused /\ DrainedHasNoOp
    /\ NoLostWakeup

-----------------------------------------------------------------------------
(* The abstract lifetime this path is meant to implement *)

phase ==
    IF published /\ ~removing THEN "live"
    ELSE IF timedout THEN "abandoned"
    ELSE IF published THEN "closing" ELSE "dead"

Life == INSTANCE NvCharLife WITH users <- Counted

\* As long as its registration has not failed behind cdev_add (nv_char.c:701),
\* the cdev path of a module whose exit unregisters implements the lifetime
\* promise of NvCharLife: descriptors appear only while the device is live and a
\* device that closed without giving up has none.  (nv_char_acquire_open and
\* nv_char_device_unregister.)
ImplementsLifeUnlessFailed ==
    Life!Init /\ [][Life!Next \/ FailedRegistration']_<<phase, Counted>>
=============================================================================
