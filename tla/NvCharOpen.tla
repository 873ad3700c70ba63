---------------------------- MODULE NvCharOpen ----------------------------
(***************************************************************************)
(* What the cdev path and the miscdevice path of nv_char (core/nv_char.c)  *)
(* share: the open count, the removing flag, the module references and the *)
(* drain of nv_char_device_unregister / nv_char_misc_unregister.           *)
(*                                                                         *)
(* One step is one access to shared state.  A file is one struct file with *)
(* the thread that uses it; "drv" is the thread that registers and         *)
(* unregisters the device, which device_lock and the module loader keep    *)
(* unique.  The kernel's part (VFS, wait_event_timeout, module loader) is  *)
(* modelled from its use here and marked external in the map.              *)
(***************************************************************************)
EXTENDS Integers, FiniteSets

CONSTANTS
    File,       \* the struct files user space may have on the device
    MaxBinds,   \* bound: how many times the device is registered
    CanUnbind,  \* may it be unregistered while the module is live?
    CanFail     \* may the registration fail after the device is published?

ASSUME ConstAssumption ==
    /\ IsFiniteSet(File)
    /\ MaxBinds \in Nat \ {0}
    /\ CanUnbind \in BOOLEAN
    /\ CanFail \in BOOLEAN

VARIABLES
    pc,         \* where the thread of each file is
    opens,      \* dev->opens
    removing,   \* dev->removing
    registered, \* dev->registered, misc->registered
    published,  \* open(2) finds the device: in the cdev map, on misc_list
    buf,        \* is the memory behind dev->priv allocated?
    drv,        \* where the registering and unregistering thread is
    waiter,     \* that thread's entry on dev->release_wq
    timedout,   \* the last unregister gave up waiting (the pr_warn)
    modState,   \* state of the module dev->owner
    refcnt,     \* its reference count
    binds       \* registrations so far

countVars == <<opens, waiter>>
bindVars == <<removing, registered, published, buf, drv, timedout, binds>>
modVars == <<modState, refcnt>>
vars == <<pc, countVars, bindVars, modVars>>

-----------------------------------------------------------------------------
(* Program counters *)

\* In nv_char_acquire_open, holding the module reference it took.
AcquiringPC == {"chk2", "inc"}
\* In an open(2) that may still be granted.
EnteringPC == {"chk1", "get", "cbopen"} \cup AcquiringPC
\* Between atomic_inc(&dev->opens) and atomic_dec_and_test(&dev->opens).
CountedPC == {"cbopen", "open", "op", "cbrel", "dec"}
\* In the rest of nv_char_release_open, or after the failed second look.
ReleasingPC == {"wake", "put"}
OwnerPC == AcquiringPC \cup CountedPC \cup ReleasingPC
FilePC == {"closed", "chk1", "get", "fput"} \cup OwnerPC

RegPC == {"r_flag", "r_opens", "r_publish", "r_finish"}
UnregPC == {"u_flag", "u_hide", "u_enq", "u_chk", "u_sleep", "u_del"}
DrvPC == {"unbound", "bound", "free", "gone"} \cup RegPC \cup UnregPC

\* The files whose thread is at one of the program points of S, under p.
FilesAt(p, S) == {f \in File : p[f] \in S}

Counted == FilesAt(pc, CountedPC)
VfsHolders == FilesAt(pc, FilePC \ {"closed"})
OwnerHolders == FilesAt(pc, OwnerPC)

Goto(f, l) == pc' = [pc EXCEPT ![f] = l]

DrvGoto(from, to) == drv = from /\ drv' = to

-----------------------------------------------------------------------------
(* Faults a plausible edit of the code would introduce.  They are not part of *)
(* the specification; each shows that some property below can be broken.      *)

\* acquire_open forgets try_module_get, release_open still puts.
GetWithoutReference(f) ==
    /\ pc[f] = "get"
    /\ Goto(f, "chk2")
    /\ UNCHANGED <<countVars, bindVars, modVars>>

\* The failed second look returns without module_put.
RecheckLeaksReference(f) ==
    /\ pc[f] = "chk2"
    /\ Goto(f, IF removing THEN "fput" ELSE "inc")
    /\ UNCHANGED <<countVars, bindVars, modVars>>

\* The second look waits for the flag to clear instead of failing.
RecheckSpins(f) ==
    /\ pc[f] = "chk2"
    /\ ~removing
    /\ Goto(f, "inc")
    /\ UNCHANGED <<countVars, bindVars, modVars>>

\* A failed ->open puts the module but forgets dev->opens.
FailedOpenKeepsCount(f) ==
    /\ pc[f] = "cbopen"
    /\ \E l \in {"open", "put"} : Goto(f, l)
    /\ UNCHANGED <<countVars, bindVars, modVars>>

\* An operation does not test dev->removing.
StartOpUnchecked(f) ==
    /\ pc[f] = "open"
    /\ Goto(f, "op")
    /\ UNCHANGED <<countVars, bindVars, modVars>>

\* The wake-up tests the value before the decrement.
DecOpensWakesLate(f) ==
    /\ pc[f] = "dec"
    /\ opens' = opens - 1
    /\ Goto(f, IF opens = 0 THEN "wake" ELSE "put")
    /\ UNCHANGED <<waiter, bindVars, modVars>>

\* probe publishes the device before it has allocated dev->priv.
BindWithoutPriv ==
    /\ DrvGoto("unbound", "r_flag")
    /\ ~registered
    /\ modState \in {"coming", "live"}
    /\ binds < MaxBinds
    /\ binds' = binds + 1
    /\ UNCHANGED <<pc, countVars, removing, registered, published, buf, timedout, modVars>>

\* wait_event in the place of wait_event_timeout.
WaitForever ==
    /\ DrvGoto("u_sleep", "u_del")
    /\ opens = 0
    /\ waiter' = "none"
    /\ UNCHANGED <<pc, opens, removing, registered, published, buf, timedout, binds, modVars>>

-----------------------------------------------------------------------------
(* nv_char_open, nv_char_misc_open *)

\* chrdev_open or misc_open: the module of the file operations is pinned until
\* __fput, or until ->open fails.
VfsOpen(f) ==
    /\ pc[f] = "closed"
    /\ published
    /\ modState \in {"coming", "live"}
    /\ refcnt' = refcnt + 1
    /\ Goto(f, "chk1")
    /\ UNCHANGED <<countVars, bindVars, modState>>

\* nv_char_acquire_open: the first look at dev->removing.
CheckRemoving(f) ==
    /\ pc[f] = "chk1"
    /\ Goto(f, IF removing THEN "fput" ELSE "get")
    /\ UNCHANGED <<countVars, bindVars, modVars>>

\* nv_char_acquire_open: try_module_get(owner).
TryModuleGet(f) ==
    /\ pc[f] = "get"
    /\ IF modState \in {"coming", "live"}
       THEN refcnt' = refcnt + 1 /\ Goto(f, "chk2")
       ELSE refcnt' = refcnt /\ Goto(f, "fput")
    /\ UNCHANGED <<countVars, bindVars, modState>>

\* nv_char_acquire_open: the second look; on failure module_put and -ENODEV.
RecheckRemoving(f) ==
    /\ pc[f] = "chk2"
    /\ Goto(f, IF removing THEN "put" ELSE "inc")
    /\ UNCHANGED <<countVars, bindVars, modVars>>

\* nv_char_acquire_open: atomic_inc(&dev->opens), after the look above.
IncOpens(f) ==
    /\ pc[f] = "inc"
    /\ opens' = opens + 1
    /\ Goto(f, "cbopen")
    /\ UNCHANGED <<waiter, bindVars, modVars>>

\* dev->ops->open returns; on an error nv_char_release_open follows.
OpenCallback(f) ==
    /\ pc[f] = "cbopen"
    /\ \E l \in {"open", "dec"} : Goto(f, l)
    /\ UNCHANGED <<countVars, bindVars, modVars>>

-----------------------------------------------------------------------------
(* File operations, and nv_char_release *)

\* nv_char_read, _write, _ioctl, ...: dev->removing is clear when tested, then
\* the driver's callback works on dev->priv.  (When it is set the operation
\* returns -ENODEV and changes nothing.)
StartOp(f) ==
    /\ pc[f] = "open"
    /\ ~removing
    /\ Goto(f, "op")
    /\ UNCHANGED <<countVars, bindVars, modVars>>

EndOp(f) ==
    /\ pc[f] = "op"
    /\ Goto(f, "open")
    /\ UNCHANGED <<countVars, bindVars, modVars>>

Close(f) ==
    /\ pc[f] = "open"
    /\ Goto(f, "cbrel")
    /\ UNCHANGED <<countVars, bindVars, modVars>>

\* dev->ops->release has returned.
ReleaseCallback(f) ==
    /\ pc[f] = "cbrel"
    /\ Goto(f, "dec")
    /\ UNCHANGED <<countVars, bindVars, modVars>>

\* nv_char_release_open: atomic_dec_and_test(&dev->opens).
DecOpens(f) ==
    /\ pc[f] = "dec"
    /\ opens' = opens - 1
    /\ Goto(f, IF opens = 1 THEN "wake" ELSE "put")
    /\ UNCHANGED <<waiter, bindVars, modVars>>

\* nv_char_release_open: wake_up_all(&dev->release_wq).
WakeRelease(f) ==
    /\ pc[f] = "wake"
    /\ waiter' = IF waiter = "queued" THEN "woken" ELSE waiter
    /\ Goto(f, "put")
    /\ UNCHANGED <<opens, bindVars, modVars>>

\* nv_char_release_open, or the failed second look: module_put(owner).
ModulePut(f) ==
    /\ pc[f] = "put"
    /\ refcnt' = refcnt - 1
    /\ Goto(f, "fput")
    /\ UNCHANGED <<countVars, bindVars, modState>>

\* __fput after ->release, or the way out of a failed ->open.
Fput(f) ==
    /\ pc[f] = "fput"
    /\ refcnt' = refcnt - 1
    /\ Goto(f, "closed")
    /\ UNCHANGED <<countVars, bindVars, modState>>

-----------------------------------------------------------------------------
(* Registration: the part both paths have in common *)

\* Module init, or a bind through sysfs: dev->priv is allocated and the
\* device, which must not be registered, is registered.
Bind ==
    /\ DrvGoto("unbound", "r_flag")
    /\ ~registered
    /\ modState \in {"coming", "live"}
    /\ binds < MaxBinds
    /\ binds' = binds + 1
    /\ buf' = TRUE
    /\ UNCHANGED <<pc, countVars, removing, registered, published, timedout, modVars>>

RegisterClearRemoving ==
    /\ DrvGoto("r_flag", "r_opens")
    /\ removing' = FALSE
    /\ UNCHANGED <<pc, countVars, registered, published, buf, timedout, binds, modVars>>

\* atomic_set(&dev->opens, 0) and init_waitqueue_head(&dev->release_wq).
RegisterResetOpens ==
    /\ DrvGoto("r_opens", "r_publish")
    /\ opens' = 0
    /\ waiter' = "none"
    /\ UNCHANGED <<pc, removing, registered, published, buf, timedout, binds, modVars>>

\* The registration is complete.  The first one is module init's: the module
\* is live when it returns.
RegisterDone ==
    /\ DrvGoto("r_finish", "bound")
    /\ registered' = TRUE
    /\ modState' = IF modState = "coming" THEN "live" ELSE modState
    /\ UNCHANGED <<pc, countVars, removing, published, buf, timedout, binds, refcnt>>

-----------------------------------------------------------------------------
(* Unregistration: the part both paths have in common *)

\* Called by remove() on an unbind, or by module exit.
Unregister ==
    /\ DrvGoto("bound", "u_flag")
    /\ registered
    /\ CanUnbind \/ modState = "going"
    /\ UNCHANGED <<pc, countVars, removing, registered, published, buf, timedout, binds, modVars>>

\* WRITE_ONCE(dev->removing, true); smp_mb().
SetRemoving ==
    /\ DrvGoto("u_flag", "u_hide")
    /\ removing' = TRUE
    /\ timedout' = FALSE
    /\ UNCHANGED <<pc, countVars, registered, published, buf, binds, modVars>>

\* wait_event_timeout: queue on release_wq, then test opens == 0 ...
WaitEnqueue ==
    /\ DrvGoto("u_enq", "u_chk")
    /\ waiter' = "queued"
    /\ UNCHANGED <<pc, opens, removing, registered, published, buf, timedout, binds, modVars>>

WaitTest ==
    /\ drv = "u_chk"
    /\ IF opens = 0
       THEN drv' = "u_del" /\ waiter' = "none"
       ELSE drv' = "u_sleep" /\ waiter' = waiter
    /\ UNCHANGED <<pc, opens, removing, registered, published, buf, timedout, binds, modVars>>

\* ... sleep until woken ...
WaitWoken ==
    /\ DrvGoto("u_sleep", "u_enq")
    /\ waiter = "woken"
    /\ UNCHANGED <<pc, countVars, removing, registered, published, buf, timedout, binds, modVars>>

\* ... or until NV_CHAR_UNREG_TIMEOUT, with a last test of the condition.
WaitTimeout ==
    /\ DrvGoto("u_sleep", "u_del")
    /\ timedout' = (opens # 0)
    /\ waiter' = "none"
    /\ UNCHANGED <<pc, opens, removing, registered, published, buf, binds, modVars>>

\* The memory behind dev->priv is freed: by devres after remove() or a failed
\* probe(), in the other examples by module exit or the failing module init.
FreePriv ==
    /\ DrvGoto("free", "unbound")
    /\ buf' = FALSE
    /\ UNCHANGED <<pc, countVars, removing, registered, published, timedout, binds, modVars>>

-----------------------------------------------------------------------------
(* The module *)

\* delete_module stops only a live, unused module; try_module_get fails then.
Rmmod ==
    /\ modState = "live"
    /\ refcnt = 0
    /\ modState' = "going"
    /\ UNCHANGED <<pc, countVars, bindVars, refcnt>>

\* Module exit has run: the module's text and data are freed.
ModuleFree ==
    /\ modState = "going"
    /\ DrvGoto("unbound", "gone")
    /\ modState' = "gone"
    /\ UNCHANGED <<pc, countVars, removing, registered, published, buf, timedout, binds, refcnt>>

\* Nothing is left to happen once the module is gone (so that a state in which
\* the system is stuck before that is a deadlock).
Unloaded == modState = "gone" /\ UNCHANGED vars

-----------------------------------------------------------------------------

Init ==
    /\ pc = [f \in File |-> "closed"]
    /\ opens = 0
    /\ removing = FALSE
    /\ registered = FALSE
    /\ published = FALSE
    /\ buf = FALSE
    /\ drv = "unbound"
    /\ waiter = "none"
    /\ timedout = FALSE
    /\ modState = "coming"
    /\ refcnt = 0
    /\ binds = 0

\* The steps of an open(2) that entered the driver, up to its return; those of
\* nv_char_release_open belong to it too when the open callback fails.
OpenStep(f) ==
    CheckRemoving(f) \/ TryModuleGet(f) \/ RecheckRemoving(f) \/ IncOpens(f)
        \/ OpenCallback(f)

ReleaseStep(f) ==
    ReleaseCallback(f) \/ DecOpens(f) \/ WakeRelease(f) \/ ModulePut(f)

\* What user space, or a callback that may sleep, decides.
UserStep(f) == StartOp(f) \/ EndOp(f) \/ Close(f)

RegisterCommon == RegisterClearRemoving \/ RegisterResetOpens \/ RegisterDone
UnregisterCommon ==
    SetRemoving \/ WaitEnqueue \/ WaitTest \/ WaitWoken \/ FreePriv
ModuleStep == Rmmod \/ ModuleFree \/ Unloaded

-----------------------------------------------------------------------------
(* Properties *)

\* Types, and the range of the counters.
TypeOK ==
    /\ pc \in [File -> FilePC]
    /\ opens \in Int
    /\ removing \in BOOLEAN
    /\ registered \in BOOLEAN
    /\ published \in BOOLEAN
    /\ buf \in BOOLEAN
    /\ drv \in DrvPC
    /\ waiter \in {"none", "queued", "woken"}
    /\ timedout \in BOOLEAN
    /\ modState \in {"coming", "live", "going", "gone"}
    /\ refcnt \in Nat
    /\ binds \in 0..MaxBinds

\* The module's reference count is exactly one per struct file and one per
\* nv_char_acquire_open still owed its module_put: no path of open, of a
\* failed open or of release leaks a reference or drops one twice.
RefcntExact == refcnt = Cardinality(VfsHolders) + Cardinality(OwnerHolders)

\* What rmmod may rely on: when the exit code runs, and a fortiori once the
\* module is freed, no file is open and no thread is inside the module's file
\* operations (try_module_get in nv_char_acquire_open, fops.owner).
ExitAlone ==
    modState \in {"going", "gone"} => \A f \in File : pc[f] = "closed"

\* On the misc path, a module whose init has not returned has unregistered
\* nothing, and before its device is published it has no file: a module init
\* that fails there may let the loader free the module (misc_register failing).
ComingIsUnused ==
    modState = "coming" =>
        /\ drv \notin {"bound"} \cup UnregPC
        /\ drv # "r_finish" => ~published /\ \A f \in File : pc[f] = "closed"

\* What every step of either path keeps of the module references.
RefInv == TypeOK /\ RefcntExact

\* The inductive invariant behind ExitAlone on the misc path.
ModuleInv == RefInv /\ ExitAlone /\ ComingIsUnused

\* A device registered at most once is new until it is published.
FreshIsUnused ==
    /\ binds = 0 => drv \in {"unbound", "gone"}
    /\ binds = 0 \/ drv \in {"r_flag", "r_opens", "r_publish"} =>
           ~published /\ \A f \in File : pc[f] = "closed"

\* priv is freed after the drain only.
PrivFreedLast == buf \/ drv \in {"unbound", "gone"}

\* dev->opens is "number of active file descriptors" (nv_char.h:73): those
\* that were counted and not yet uncounted.
OpensCountsFds == opens = Cardinality(Counted)

\* "removing flag -> device_destroy -> wait opens -> cdev_del" (nv_char.h:6):
\* when the unregister goes on without having given up the wait, no descriptor
\* is open.
DrainedMeansClosed == drv = "u_del" /\ ~timedout => Counted = {}

\* The registration failed: its caller frees dev->priv without any drain, while
\* dev->removing is clear.
FailedRegistration ==
    drv \in {"free", "unbound", "gone"} /\ binds # 0 /\ ~removing

\* A callback of a file operation runs only while dev->priv is allocated,
\* unless the unregister gave up waiting: flag, drain, free is an order in
\* which an operation that passed its test of dev->removing is safe.  It is not
\* after a failed registration, nor once a second one has set dev->opens to 0.
OpNeverUsesFreedPriv ==
    binds <= 1 =>
        \A f \in File : pc[f] = "op" => buf \/ timedout \/ FailedRegistration

\* The same of every callback, ->open and ->release included.
CallbackHasPriv ==
    \A f \in File : pc[f] \in {"cbopen", "op", "cbrel"} => buf \/ timedout

\* A device that only module exit unregisters needs no excuse but a failed
\* registration: otherwise priv is there for every descriptor, and no wait is
\* ever given up (nv_char_echo, nv_char_demo, nv_char_selftest).
ExitPrivSafe ==
    \A f \in File : pc[f] \in CountedPC => buf \/ FailedRegistration

\* No lost wake-up in nv_char_release_open: an unregister that sleeps while no
\* descriptor is counted has been woken or is about to be.  (A second
\* registration sets dev->opens to 0 under descriptors that survived the first:
\* their close wakes nobody, and the time-out has to end the wait.)
NoLostWakeup ==
    binds <= 1 /\ drv = "u_sleep" /\ opens = 0 =>
        waiter = "woken" \/ \E f \in File : pc[f] = "wake"

\* Module exit never sleeps in the drain, let alone for 10 seconds: rmmod got
\* that far only because there was no descriptor.
ExitNeverSleeps == modState = "going" => drv # "u_sleep"

\* nv_char_device_unregister and nv_char_misc_unregister return, whatever user
\* space does with its descriptors.
UnregisterTerminates == drv \in UnregPC ~> drv \in {"unbound", "gone"}

\* An open(2) that entered the driver comes back, with a descriptor or not.
OpenReturns ==
    \A f \in File :
        pc[f] \in EnteringPC ~> pc[f] \in {"open", "closed"}
=============================================================================
