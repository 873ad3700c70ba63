--------------------------- MODULE NvCharDevProofs ---------------------------
(***************************************************************************)
(* The cdev path keeps its module references exactly, whatever the number  *)
(* of files and registrations, unbinds and failed registrations included,  *)
(* and its module exits without a file unless its own init failed.  A      *)
(* device that only module exit unregisters never sleeps in the drain and, *)
(* when no registration fails, implements NvCharLife; the first            *)
(* registration of any other loses no wake-up, and its operations keep     *)
(* dev->priv.                                                              *)
(***************************************************************************)
EXTENDS NvCharDev, NvCharOpenProofs

\* CdevAdd, RegisterFail and InitReturns move no file and no reference.
LEMMA RegisterStepKeeps ==
    ASSUME RefInv, DevBind \/ RegisterStep \/ InitReturns
    PROVE  RefInv'
<1> USE DEF RefInv, TypeOK, DrvGoto, countVars, bindVars, modVars, DrvPC, RegPC, UnregPC
<1>1. CASE Bind \/ RegisterCommon
    BY <1>1, RegisterKeeps
<1>2. CASE CdevAdd
    BY <1>2, DriverMoveKeeps DEF CdevAdd
<1>3. CASE RegisterFail
    BY <1>3, DriverMoveKeeps DEF RegisterFail
<1>4. CASE InitReturns
    BY <1>4, DriverMoveKeeps DEF InitReturns
<1> QED
    BY <1>1, <1>2, <1>3, <1>4 DEF RegisterStep, DevBind

\* HideDevice and CdevDel move no file.
LEMMA UnregisterStepKeeps ==
    ASSUME RefInv, Unregister \/ UnregisterStep \/ WaitTimeout
    PROVE  RefInv'
<1> USE DEF RefInv, TypeOK, DrvGoto, countVars, modVars, DrvPC, RegPC, UnregPC
<1>1. CASE Unregister \/ UnregisterCommon \/ WaitTimeout
    BY <1>1, UnregisterKeeps
<1>2. CASE HideDevice
    BY <1>2, DriverMoveKeeps DEF HideDevice
<1>3. CASE CdevDel
    BY <1>3, DriverMoveKeeps DEF CdevDel
<1> QED
    BY <1>1, <1>2, <1>3 DEF UnregisterStep

\* Every step of the cdev path keeps RefInv.
LEMMA NextRefInv ==
    ASSUME RefInv, [Next]_vars
    PROVE  RefInv'
<1>1. ASSUME NEW f \in File, VfsOpen(f) \/ FileStep(f) \/ UserStep(f)
      PROVE  RefInv'
    BY <1>1, VfsOpenKeeps, OpenStepKeeps, ReleaseStepKeeps, FputKeeps,
       UserStepKeeps DEF FileStep
<1>2. CASE DevBind \/ RegisterStep \/ InitReturns
    BY <1>2, RegisterStepKeeps
<1>3. CASE Unregister \/ UnregisterStep \/ WaitTimeout
    BY <1>3, UnregisterStepKeeps
<1>4. CASE ModuleStep
    BY <1>4, ModuleStepKeeps
<1>5. CASE UNCHANGED vars
    BY <1>5 DEF vars, countVars, bindVars, modVars, RefInv, TypeOK, RefcntExact,
                VfsHolders, OwnerHolders, FilesAt
<1> QED
    BY <1>1, <1>2, <1>3, <1>4, <1>5 DEF Next

-----------------------------------------------------------------------------
(* What the module loader may rely on *)

\* The parts of LoadInv that speak of the module and the flag.
FlagInv ==
    /\ FlagFollowsDriver
    /\ modState = "coming" => ~removing /\ drv \notin {"bound"} \cup UnregPC
    /\ ~CanFail => ~FailedRegistration

\* A step of a file: a new one needs a module that is not exiting.
LEMMA LoadFile ==
    ASSUME LoadInv, NEW f \in File, VfsOpen(f) \/ FileStep(f) \/ UserStep(f)
    PROVE  FlagInv' /\ ExitAloneUnlessInitFailed'
<1>1. PICK l \in FilePC : FileShape(f, l)
    BY FileStepShape DEF FileStep
<1>2. modState' = modState /\ UNCHANGED bindVars
    BY <1>1, FileWakes DEF LoadInv, RefInv, FileShape, FileStep
<1>3. pc[f] = "closed" => modState \in {"coming", "live"}
    BY DEF VfsOpen, FileStep, OpenStep, CheckRemoving, TryModuleGet,
       RecheckRemoving, IncOpens, OpenCallback, ReleaseStep, ReleaseCallback,
       DecOpens, WakeRelease, ModulePut, UserStep, StartOp, EndOp, Close, Fput
<1>4. FlagInv'
    BY <1>2 DEF LoadInv, FlagInv, FlagFollowsDriver, FailedRegistration, bindVars
<1>5. ExitAloneUnlessInitFailed'
    BY <1>2, <1>3 DEF LoadInv, ExitAloneUnlessInitFailed, ExitAlone, InitFailed,
       FailedRegistration, bindVars
<1> QED
    BY <1>4, <1>5

\* A registration: only one that failed leaves its device unregistered with the
\* flag clear, and only then may module init fail.
LEMMA LoadRegister ==
    ASSUME LoadInv, DevBind \/ RegisterStep \/ InitReturns
    PROVE  FlagInv' /\ ExitAloneUnlessInitFailed'
<1> USE DEF LoadInv, FlagInv, FlagFollowsDriver, ExitAloneUnlessInitFailed,
            ExitAlone, InitFailed, FailedRegistration, DrvGoto, bindVars,
            modVars, UnregPC
<1>1. CASE DevBind
    BY <1>1 DEF DevBind, Bind
<1>2. CASE RegisterClearRemoving
    BY <1>2 DEF RegisterClearRemoving
<1>3. CASE RegisterResetOpens
    BY <1>3 DEF RegisterResetOpens
<1>4. CASE CdevAdd
    BY <1>4 DEF CdevAdd
<1>5. CASE RegisterDone
    BY <1>5 DEF RegisterDone
<1>6. CASE RegisterFail
    BY <1>6 DEF RegisterFail
<1>7. CASE InitReturns
    BY <1>7 DEF InitReturns
<1> QED
    BY <1>1, <1>2, <1>3, <1>4, <1>5, <1>6, <1>7 DEF RegisterStep, RegisterCommon

\* An unregistration: the flag is set before the device is gone.
LEMMA LoadUnregister ==
    ASSUME LoadInv, Unregister \/ UnregisterStep \/ WaitTimeout
    PROVE  FlagInv' /\ ExitAloneUnlessInitFailed'
<1> USE DEF LoadInv, FlagInv, FlagFollowsDriver, ExitAloneUnlessInitFailed,
            ExitAlone, InitFailed, FailedRegistration, DrvGoto, modVars, UnregPC
<1>1. CASE Unregister \/ SetRemoving \/ HideDevice
    BY <1>1 DEF Unregister, SetRemoving, HideDevice
<1>2. CASE WaitEnqueue \/ WaitTest \/ WaitWoken \/ WaitTimeout
    BY <1>2 DEF WaitEnqueue, WaitTest, WaitWoken, WaitTimeout
<1>3. CASE CdevDel
    BY <1>3 DEF CdevDel
<1>4. CASE FreePriv
    BY <1>4 DEF FreePriv
<1> QED
    BY <1>1, <1>2, <1>3, <1>4 DEF UnregisterStep, UnregisterCommon

\* The module loader stops only a module without references.
LEMMA LoadModule ==
    ASSUME LoadInv, ModuleStep \/ UNCHANGED vars
    PROVE  FlagInv' /\ ExitAloneUnlessInitFailed'
<1> USE DEF LoadInv, FlagInv, FlagFollowsDriver, ExitAloneUnlessInitFailed,
            ExitAlone, InitFailed, FailedRegistration, DrvGoto, bindVars,
            modVars, vars, UnregPC
<1>1. CASE Rmmod
    BY <1>1, NoReferenceNoFile DEF Rmmod
<1>2. CASE ModuleFree
    BY <1>2 DEF ModuleFree
<1>3. CASE Unloaded \/ UNCHANGED vars
    BY <1>3 DEF Unloaded
<1> QED
    BY <1>1, <1>2, <1>3 DEF ModuleStep

\* Every step of the cdev path keeps LoadInv.
LEMMA NextLoadInv ==
    ASSUME LoadInv, [Next]_vars
    PROVE  LoadInv'
<1>1. RefInv'
    BY NextRefInv DEF LoadInv
<1>2. FlagInv' /\ ExitAloneUnlessInitFailed'
    <2>1. ASSUME NEW f \in File, VfsOpen(f) \/ FileStep(f) \/ UserStep(f)
          PROVE  FlagInv' /\ ExitAloneUnlessInitFailed'
        BY <2>1, LoadFile
    <2>2. CASE DevBind \/ RegisterStep \/ InitReturns
        BY <2>2, LoadRegister
    <2>3. CASE Unregister \/ UnregisterStep \/ WaitTimeout
        BY <2>3, LoadUnregister
    <2>4. CASE ModuleStep \/ UNCHANGED vars
        BY <2>4, LoadModule
    <2> QED
        BY <2>1, <2>2, <2>3, <2>4 DEF Next
<1> QED
    BY <1>1, <1>2 DEF LoadInv, FlagInv

\* Nobody has the device open when the module is loaded.
LEMMA InitLoadInv ==
    ASSUME Init
    PROVE  LoadInv
<1>1. ExitAlone /\ FlagInv
    BY DEF Init, ExitAlone, FlagInv, FlagFollowsDriver, FailedRegistration, UnregPC
<1> QED
    BY <1>1, InitRefInv DEF LoadInv, FlagInv, ExitAloneUnlessInitFailed

\* LoadInv holds of the cdev path whatever the files, the bound on
\* registrations and the unbinds and failures allowed.
THEOREM DevLoadInv == Spec => []LoadInv
<1>1. Init => LoadInv
    BY InitLoadInv
<1>2. LoadInv /\ [Next]_vars => LoadInv'
    BY NextLoadInv
<1> QED
    BY <1>1, <1>2, PTL DEF Spec

\* nv_char_acquire_open, nv_char_release_open and the kernel's own reference:
\* the types of the state, and no reference count below zero.
THEOREM DevTypeOK == Spec => []TypeOK
<1>1. LoadInv => TypeOK
    BY DEF LoadInv, RefInv
<1> QED
    BY <1>1, DevLoadInv, PTL

\* try_module_get and module_put pair up on every path of nv_char_open and
\* nv_char_release (the failed second look and the failed callback included).
THEOREM DevRefcntExact == Spec => []RefcntExact
<1>1. LoadInv => RefcntExact
    BY DEF LoadInv, RefInv
<1> QED
    BY <1>1, DevLoadInv, PTL

\* The module exits, and is freed, with no file of its device open, or after a
\* module init whose own registration failed (nv_char.c:701-716).
THEOREM DevExitAloneUnlessInitFailed == Spec => []ExitAloneUnlessInitFailed
<1>1. LoadInv => ExitAloneUnlessInitFailed
    BY DEF LoadInv
<1> QED
    BY <1>1, DevLoadInv, PTL

\* Without exception when a platform driver's probe registers the device, or
\* when no registration fails.
THEOREM DevExitAlone == ASSUME CanUnbind \/ ~CanFail PROVE Spec => []ExitAlone
<1>1. LoadInv => ExitAlone
    BY DEF LoadInv, ExitAloneUnlessInitFailed, InitFailed, InitRegisters
<1> QED
    BY <1>1, DevLoadInv, PTL

-----------------------------------------------------------------------------
(* What the flag and the count keep, however often the device is registered *)

\* A step of the driver's thread or of the module loader moves no file.
LEMMA OnlyFilesMove ==
    ASSUME [Next]_vars
    PROVE  \/ UNCHANGED pc
           \/ \E f \in File : \E l \in FilePC :
                  FileShape(f, l) /\ (VfsOpen(f) \/ FileStep(f) \/ UserStep(f))
<1>1. ASSUME NEW f \in File, VfsOpen(f) \/ FileStep(f) \/ UserStep(f)
      PROVE  \E l \in FilePC : FileShape(f, l)
    BY <1>1, FileStepShape DEF FileStep
<1> QED
    BY <1>1 DEF Next, DevBind, Bind, RegisterStep, RegisterCommon,
       RegisterClearRemoving, RegisterResetOpens, RegisterDone, CdevAdd,
       RegisterFail, InitReturns, bindVars, countVars, Unregister,
       UnregisterStep, UnregisterCommon, SetRemoving, WaitEnqueue, WaitTest,
       WaitWoken, FreePriv, HideDevice, CdevDel, WaitTimeout, ModuleStep, Rmmod,
       ModuleFree, Unloaded, vars

\* The files that are counted, or have passed the second look at dev->removing.
Granted == FilesAt(pc, {"inc"} \cup CountedPC)

\* While dev->removing is set no open(2) gets past nv_char_acquire_open but one
\* that had passed its second look before: whoever is counted later, as in the
\* window before nv_char.c:70, is one of those that were on the way.
THEOREM DevFlagStopsOpens == Spec => [][removing => Granted' \subseteq Granted]_vars
<1>1. ASSUME TypeOK, [Next]_vars
      PROVE  [removing => Granted' \subseteq Granted]_vars
    <2>1. SUFFICES ASSUME removing
                   PROVE  Granted' \subseteq Granted
        OBVIOUS
    <2>2. CASE UNCHANGED pc
        BY <2>2 DEF Granted, FilesAt
    <2>3. ASSUME NEW f \in File, NEW l \in FilePC, FileShape(f, l),
                 VfsOpen(f) \/ FileStep(f) \/ UserStep(f)
          PROVE  Granted' \subseteq Granted
        <3>1. pc' = [pc EXCEPT ![f] = l]
            BY <2>3 DEF FileShape, Goto
        <3>2. l \in CountedPC => pc[f] \in {"inc"} \cup CountedPC
            BY <2>3 DEF FileShape
        <3>3. l # "inc"
            <4>1. CASE OpenStep(f)
                BY <1>1, <2>1, <3>1, <4>1 DEF OpenStep, CheckRemoving, TryModuleGet,
                   RecheckRemoving, IncOpens, OpenCallback, Goto, TypeOK
            <4>2. CASE VfsOpen(f) \/ ReleaseStep(f) \/ UserStep(f) \/ Fput(f)
                BY <1>1, <3>1, <4>2 DEF VfsOpen, ReleaseStep, ReleaseCallback, DecOpens,
                   WakeRelease, ModulePut, UserStep, StartOp, EndOp, Close, Fput,
                   Goto, TypeOK
            <4> QED
                BY <2>3, <4>1, <4>2 DEF FileStep
        <3> QED
            BY <1>1, <3>1, <3>2, <3>3 DEF Granted, FilesAt, TypeOK
    <2> QED
        BY <1>1, <2>2, <2>3, OnlyFilesMove
<1> QED
    BY <1>1, DevTypeOK, PTL DEF Spec

\* dev->opens counts the open descriptors until a registration sets it to zero
\* under descriptors that survived the last unregister (nv_char.c:690): no other
\* step, and no other order of steps, makes it wrong.
THEOREM DevOnlyResetMiscounts ==
    Spec => [][OpensCountsFds =>
                  OpensCountsFds' \/ (RegisterResetOpens /\ Counted # {})]_vars
<1>1. ASSUME TypeOK, [Next]_vars, OpensCountsFds,
             ~(RegisterResetOpens /\ Counted # {})
      PROVE  OpensCountsFds'
    <2>1. ASSUME NEW f \in File, NEW l \in FilePC, FileShape(f, l)
          PROVE  OpensCountsFds'
        BY <1>1, <2>1, OpensShape
    <2>2. CASE RegisterResetOpens
        <3>1. Counted' = {} /\ opens' = 0
            BY <1>1, <2>2, CountedAside DEF RegisterResetOpens
        <3> QED
            BY <3>1, FS_EmptySet DEF OpensCountsFds
    <2>3. CASE UNCHANGED <<pc, opens>>
        BY <1>1, <2>3, CountedAside DEF OpensCountsFds
    <2>4. UNCHANGED pc => RegisterResetOpens \/ UNCHANGED <<pc, opens>>
            \/ \E f \in File : VfsOpen(f) \/ FileStep(f) \/ UserStep(f)
        BY <1>1 DEF Next, DevBind, Bind, RegisterStep, RegisterCommon,
           RegisterClearRemoving, RegisterDone, CdevAdd, RegisterFail,
           InitReturns, bindVars, Unregister, UnregisterStep,
           UnregisterCommon, SetRemoving, WaitEnqueue, WaitTest, WaitWoken, FreePriv,
           HideDevice, CdevDel, WaitTimeout, ModuleStep, Rmmod, ModuleFree, Unloaded,
           vars, countVars
    <2> QED
        BY <1>1, <2>1, <2>2, <2>3, <2>4, OnlyFilesMove, FileStepShape DEF FileStep
<1>2. TypeOK /\ [Next]_vars =>
          [OpensCountsFds => OpensCountsFds' \/ (RegisterResetOpens /\ Counted # {})]_vars
    BY <1>1
<1> QED
    BY <1>2, DevTypeOK, PTL DEF Spec

-----------------------------------------------------------------------------
(* A device that module init registers and only module exit unregisters *)

ExitOnly == ~CanUnbind

\* The parts of ExitInv that speak of the device.
DevInv ==
    OpensCountsFds /\ FreshIsUnused /\ PrivFreedLast /\ UnregisterIsExit
        /\ LiveIsOpen /\ NeverWaits

\* A step of a file keeps them: all but the count depend on the device alone.
LEMMA DevFile ==
    ASSUME TypeOK, DevInv, NEW f \in File,
           VfsOpen(f) \/ FileStep(f) \/ UserStep(f)
    PROVE  DevInv'
<1>1. PICK l \in FilePC : FileShape(f, l)
    BY FileStepShape DEF FileStep
<1>2. OpensCountsFds'
    BY <1>1, OpensShape DEF DevInv
<1>3. UNCHANGED bindVars /\ pc' = [pc EXCEPT ![f] = l]
    BY <1>1 DEF FileShape, Goto
<1>4. FreshIsUnused'
    BY <1>1, <1>3 DEF DevInv, FreshIsUnused, FileShape, bindVars
<1>5. modState' = modState
    BY DEF FileStep, VfsOpen, OpenStep, CheckRemoving, TryModuleGet,
        RecheckRemoving,
           IncOpens, OpenCallback, ReleaseStep, ReleaseCallback, DecOpens,
           WakeRelease,
           ModulePut, UserStep, StartOp, EndOp, Close, Fput, modVars
<1>6. (PrivFreedLast /\ UnregisterIsExit /\ LiveIsOpen /\ NeverWaits)'
    BY <1>3, <1>5 DEF DevInv, PrivFreedLast, UnregisterIsExit, FailedRegistration,
        LiveIsOpen, NeverWaits, bindVars
<1> QED
    BY <1>2, <1>4, <1>6 DEF DevInv

\* The one registration: the module is not live before it is over, and when it
\* fails module init does.
LEMMA DevRegister ==
    ASSUME ExitOnly, LoadInv, DevInv, DevBind \/ RegisterStep \/ InitReturns
    PROVE  DevInv'
<1> USE DEF ExitOnly, InitRegisters, DevInv, OpensCountsFds, FreshIsUnused,
            PrivFreedLast, UnregisterIsExit, FailedRegistration, LiveIsOpen,
            NeverWaits, DrvGoto, countVars, modVars, UnregPC
<1>0. FlagFollowsDriver /\ binds \in Nat
    BY ConstAssumption DEF LoadInv, RefInv, TypeOK
<1>1. CASE DevBind
    BY <1>0, <1>1, CountedAside DEF DevBind, Bind
<1>2. CASE RegisterClearRemoving
    BY <1>2, CountedAside DEF RegisterClearRemoving
<1>3. CASE RegisterResetOpens
    <2>1. Counted = {}
        BY <1>3 DEF RegisterResetOpens, Counted, FilesAt, CountedPC
    <2>2. Cardinality(Counted)' = 0
        BY <1>3, <2>1, CountedAside, FS_EmptySet DEF RegisterResetOpens
    <2> QED
        BY <1>3, <2>2 DEF RegisterResetOpens
<1>4. CASE CdevAdd
    BY <1>4, CountedAside DEF CdevAdd
<1>5. CASE RegisterDone
    BY <1>5, CountedAside DEF RegisterDone
<1>6. CASE RegisterFail
    BY <1>0, <1>6, CountedAside DEF RegisterFail, FlagFollowsDriver
<1>7. CASE InitReturns
    BY <1>7, CountedAside DEF InitReturns, bindVars
<1> QED
    BY <1>1, <1>2, <1>3, <1>4, <1>5, <1>6, <1>7 DEF RegisterStep, RegisterCommon

\* Module exit runs with no file open, so the wait ends at its first test.
LEMMA DevUnregister ==
    ASSUME ExitOnly, LoadInv, DevInv, Unregister \/ UnregisterStep \/ WaitTimeout
    PROVE  DevInv'
<1> USE DEF ExitOnly, DevInv, OpensCountsFds, FreshIsUnused, PrivFreedLast,
            UnregisterIsExit, FailedRegistration, LiveIsOpen, NeverWaits, DrvGoto,
            countVars, modVars, UnregPC
<1>1. CASE Unregister
    BY <1>1, CountedAside DEF Unregister
<1>2. CASE SetRemoving
    BY <1>2, CountedAside DEF SetRemoving
<1>3. CASE HideDevice
    BY <1>3, CountedAside DEF HideDevice
<1>4. CASE WaitEnqueue
    BY <1>4, CountedAside DEF WaitEnqueue
<1>5. CASE WaitTest
    <2>1. \A f \in File : pc[f] = "closed"
        BY <1>5 DEF WaitTest, LoadInv, ExitAloneUnlessInitFailed, ExitAlone, InitFailed
    <2>2. Counted = {}
        BY <2>1 DEF Counted, FilesAt, CountedPC
    <2>3. opens = 0
        BY <2>2, FS_EmptySet
    <2> QED
        BY <1>5, <2>3, CountedAside DEF WaitTest
<1>6. CASE CdevDel
    BY <1>6, CountedAside DEF CdevDel
<1>7. CASE FreePriv
    BY <1>7, CountedAside DEF FreePriv
<1> QED
    BY <1>1, <1>2, <1>3, <1>4, <1>5, <1>6, <1>7
       DEF UnregisterStep, UnregisterCommon, WaitWoken, WaitTimeout

\* The module loader does not touch the device.
LEMMA DevModule ==
    ASSUME DevInv, ModuleStep \/ UNCHANGED vars
    PROVE  DevInv'
<1> USE DEF DevInv, OpensCountsFds, FreshIsUnused, PrivFreedLast, UnregisterIsExit,
            FailedRegistration, LiveIsOpen, NeverWaits, DrvGoto, countVars,
            bindVars, modVars, vars, UnregPC
<1>1. CASE Rmmod
    BY <1>1, CountedAside DEF Rmmod
<1>2. CASE ModuleFree
    BY <1>2, CountedAside DEF ModuleFree
<1>3. CASE Unloaded \/ UNCHANGED vars
    BY <1>3, CountedAside DEF Unloaded
<1> QED
    BY <1>1, <1>2, <1>3 DEF ModuleStep

\* Every step of such a device keeps ExitInv.
LEMMA DevNextInv ==
    ASSUME ExitOnly, ExitInv, [Next]_vars
    PROVE  ExitInv'
<1>1. LoadInv /\ TypeOK /\ DevInv
    BY DEF ExitInv, LoadInv, RefInv, DevInv
<1>2. LoadInv'
    BY <1>1, NextLoadInv
<1>3. DevInv'
    <2>1. ASSUME NEW f \in File, VfsOpen(f) \/ FileStep(f) \/ UserStep(f)
          PROVE  DevInv'
        BY <1>1, <2>1, DevFile
    <2>2. CASE DevBind \/ RegisterStep \/ InitReturns
        BY <1>1, <2>2, DevRegister
    <2>3. CASE Unregister \/ UnregisterStep \/ WaitTimeout
        BY <1>1, <2>3, DevUnregister
    <2>4. CASE ModuleStep \/ UNCHANGED vars
        BY <1>1, <2>4, DevModule
    <2> QED
        BY <2>1, <2>2, <2>3, <2>4 DEF Next
<1> QED
    BY <1>2, <1>3 DEF ExitInv, DevInv

\* The device starts unregistered and unused.
LEMMA DevInitInv ==
    ASSUME Init
    PROVE  ExitInv
<1>1. Counted = {}
    BY DEF Init, Counted, FilesAt, CountedPC
<1>2. OpensCountsFds
    BY <1>1, FS_EmptySet DEF Init, OpensCountsFds
<1>3. FreshIsUnused /\ PrivFreedLast /\ UnregisterIsExit /\ LiveIsOpen /\ NeverWaits
    BY DEF Init, FreshIsUnused, PrivFreedLast, UnregisterIsExit, LiveIsOpen,
           NeverWaits, UnregPC
<1> QED
    BY <1>2, <1>3, InitLoadInv DEF ExitInv

\* ExitInv holds of a device that only module exit unregisters.
THEOREM DevExitInv == ASSUME ExitOnly PROVE Spec => []ExitInv
<1>1. Init => ExitInv
    BY DevInitInv
<1>2. ExitInv /\ [Next]_vars => ExitInv'
    BY DevNextInv
<1> QED
    BY <1>1, <1>2, PTL DEF Spec

\* An open file finds the device registered and open, unless its registration
\* failed.
LEMMA CountedIsLive ==
    ASSUME ExitOnly, ExitInv, NEW f \in File, pc[f] # "closed"
    PROVE  \/ drv \in {"r_finish", "bound"} /\ buf /\ phase = "live"
           \/ FailedRegistration
<1>1. SUFFICES ASSUME ~FailedRegistration
               PROVE  drv \in {"r_finish", "bound"} /\ buf /\ phase = "live"
    OBVIOUS
<1>2. drv \in DrvPC /\ modState \notin {"going", "gone"}
    BY <1>1 DEF ExitInv, LoadInv, RefInv, TypeOK, ExitAloneUnlessInitFailed,
       ExitAlone, InitFailed
<1>3. drv \notin {"r_flag", "r_opens", "r_publish"} /\ binds # 0
    BY DEF ExitInv, FreshIsUnused
<1>4. drv \in {"r_finish", "bound"}
    BY <1>1, <1>2, <1>3 DEF ExitInv, UnregisterIsExit, DrvPC, RegPC
<1> QED
    BY <1>4 DEF ExitInv, LoadInv, PrivFreedLast, LiveIsOpen, FlagFollowsDriver, phase

\* nv_char_read and the other operations of such a device, and its open and
\* release callbacks, always find dev->priv, unless the registration failed.
THEOREM DevExitPrivSafe == ASSUME ExitOnly PROVE Spec => []ExitPrivSafe
<1>1. ExitInv => ExitPrivSafe
    BY CountedIsLive DEF ExitPrivSafe, CountedPC
<1> QED
    BY <1>1, DevExitInv, PTL

\* nv_char_device_unregister never sleeps in module exit.
THEOREM DevExitNeverSleeps == ASSUME ExitOnly PROVE Spec => []ExitNeverSleeps
<1>1. ExitInv => ExitNeverSleeps
    BY DEF ExitInv, NeverWaits, ExitNeverSleeps
<1> QED
    BY <1>1, DevExitInv, PTL

\* dev->opens of such a device is the number of open descriptors.
THEOREM DevOpensCountsFds == ASSUME ExitOnly PROVE Spec => []OpensCountsFds
<1>1. ExitInv => OpensCountsFds
    BY DEF ExitInv
<1> QED
    BY <1>1, DevExitInv, PTL

-----------------------------------------------------------------------------
(* A device that may be unbound and whose registration may fail, and the    *)
(* part of the invariant that every number of registrations keeps           *)

\* The parts of OnceInv that hold however often the device is registered.
DriverInv == GoneIsExited /\ PrivFreedLast /\ FlagFollowsDriver /\ WaiterIsQueued

\* The parts that the first registration keeps.
CountInv == OpensCountsFds /\ FreshIsUnused /\ DrainedHasNoOp

\* A step of a file: an operation starts with the flag clear, and whoever takes
\* dev->opens to zero goes on to wake the drain.
LEMMA OnceFile ==
    ASSUME OnceInv, NEW f \in File, VfsOpen(f) \/ FileStep(f) \/ UserStep(f)
    PROVE  DriverInv' /\ (binds <= 1 => CountInv' /\ NoLostWakeup') /\ binds' = binds
<1>0. TypeOK /\ DriverInv
    BY DEF OnceInv, LoadInv, RefInv, DriverInv
<1>1. PICK l \in FilePC : FileShape(f, l)
    BY FileStepShape DEF FileStep
<1>2. UNCHANGED bindVars /\ pc' = [pc EXCEPT ![f] = l]
    BY <1>1 DEF FileShape, Goto
<1>3. DriverInv'
    BY <1>0, <1>2, FileWakes DEF FileStep, DriverInv, GoneIsExited, PrivFreedLast,
        FlagFollowsDriver,
                                 WaiterIsQueued, bindVars
<1>4. ASSUME binds <= 1
      PROVE  CountInv' /\ NoLostWakeup'
    <2>0. OpensCountsFds /\ FreshIsUnused /\ DrainedHasNoOp /\ NoLostWakeup
        BY <1>4 DEF OnceInv
    <2>1. OpensCountsFds'
        BY <1>0, <1>1, <2>0, OpensShape
    <2>2. FreshIsUnused'
        BY <1>1, <1>2, <2>0 DEF FreshIsUnused, FileShape, bindVars
    <2>3. DrainedHasNoOp'
        BY <1>0, <1>2, <2>0, FileWakes DEF FileStep, DrainedHasNoOp, bindVars
    <2>4. NoLostWakeup'
        <3> SUFFICES ASSUME drv = "u_sleep", opens' = 0,
                            waiter' # "woken", \A g \in File : pc'[g] # "wake"
                     PROVE  FALSE
            BY <1>2 DEF NoLostWakeup, bindVars
        <3>1. waiter = "queued" /\ waiter' = "queued"
            BY <1>0, FileWakes DEF FileStep, DriverInv, WaiterIsQueued
        <3>2. opens \in Nat
            BY <2>0, FilesAtFinite DEF OpensCountsFds, Counted
        <3>3. opens' = opens
            BY <1>0, <1>1, <3>2, FileWakes DEF FileStep, FileShape
        <3>4. PICK g \in File : pc[g] = "wake"
            BY <1>4, <2>0, <3>1, <3>3 DEF NoLostWakeup
        <3> QED
            BY <1>0, <3>1, <3>4, FileWakes DEF FileStep
    <2> QED
        BY <2>1, <2>2, <2>3, <2>4 DEF CountInv
<1> QED
    BY <1>2, <1>3, <1>4 DEF bindVars

\* Registration: the first one finds no descriptor and clears an unset flag;
\* a failing one leaves the flag clear.
LEMMA OnceRegister ==
    ASSUME OnceInv, DevBind \/ RegisterStep \/ InitReturns
    PROVE  DriverInv' /\ (binds' <= 1 => CountInv' /\ NoLostWakeup')
<1> USE DEF OnceInv, LoadInv, DriverInv, CountInv, GoneIsExited, PrivFreedLast,
    FlagFollowsDriver,
            WaiterIsQueued, OpensCountsFds, FreshIsUnused, DrainedHasNoOp,
            NoLostWakeup, DrvGoto, countVars, modVars, UnregPC
<1>0. binds \in Nat
    BY ConstAssumption DEF RefInv, TypeOK
<1>1. CASE DevBind
    BY <1>0, <1>1, CountedAside DEF DevBind, Bind
<1>2. CASE RegisterClearRemoving
    BY <1>2, CountedAside DEF RegisterClearRemoving
<1>3. CASE RegisterResetOpens
    <2>1. drv' = "r_publish" /\ drv = "r_opens" /\ UNCHANGED <<removing, buf, binds,
              published, pc>> /\ opens' = 0
        BY <1>3 DEF RegisterResetOpens
    <2>2. ASSUME binds <= 1
          PROVE  Cardinality(Counted') = 0
        <3>1. \A f \in File : pc[f] = "closed"
            BY <2>1, <2>2
        <3>2. Counted = {}
            BY <3>1 DEF Counted, FilesAt, CountedPC
        <3> QED
            BY <2>1, <3>2, CountedAside, FS_EmptySet
    <2> QED
        BY <2>1, <2>2
<1>4. CASE CdevAdd
    BY <1>4, CountedAside DEF CdevAdd
<1>5. CASE RegisterDone
    BY <1>5, CountedAside DEF RegisterDone
<1>6. CASE RegisterFail
    BY <1>6, CountedAside DEF RegisterFail
<1>7. CASE InitReturns
    BY <1>7, CountedAside DEF InitReturns, bindVars
<1> QED
    BY <1>1, <1>2, <1>3, <1>4, <1>5, <1>6, <1>7 DEF RegisterStep, RegisterCommon

\* Unregistration: the wait is left with dev->opens at zero or with the
\* warning.
LEMMA OnceUnregister ==
    ASSUME OnceInv, Unregister \/ UnregisterStep \/ WaitTimeout
    PROVE  DriverInv' /\ (binds' <= 1 => CountInv' /\ NoLostWakeup')
<1> USE DEF OnceInv, LoadInv, DriverInv, CountInv, GoneIsExited, PrivFreedLast,
    FlagFollowsDriver,
            WaiterIsQueued, OpensCountsFds, FreshIsUnused, DrainedHasNoOp,
            NoLostWakeup, DrvGoto, countVars, modVars, UnregPC
<1>1. CASE Unregister
    BY <1>1, CountedAside DEF Unregister
<1>2. CASE SetRemoving
    BY <1>2, CountedAside DEF SetRemoving
<1>3. CASE HideDevice
    BY <1>3, CountedAside DEF HideDevice
<1>4. CASE WaitEnqueue
    BY <1>4, CountedAside DEF WaitEnqueue
<1>5. ASSUME binds <= 1, opens = 0
      PROVE  \A f \in File : pc[f] # "op"
    <2>1. Counted = {}
        BY <1>5, NoneCounted
    <2> QED
        BY <2>1 DEF Counted, FilesAt, CountedPC
<1>6. CASE WaitTest
    BY <1>5, <1>6, CountedAside DEF WaitTest
<1>7. CASE WaitWoken
    BY <1>7, CountedAside DEF WaitWoken
<1>8. CASE WaitTimeout
    BY <1>5, <1>8, CountedAside DEF WaitTimeout
<1>9. CASE CdevDel
    BY <1>9, CountedAside DEF CdevDel
<1>10. CASE FreePriv
    BY <1>10, CountedAside DEF FreePriv
<1> QED
    BY <1>1, <1>2, <1>3, <1>4, <1>6, <1>7, <1>8, <1>9, <1>10
       DEF UnregisterStep, UnregisterCommon

\* The module loader does not touch the device.
LEMMA OnceModule ==
    ASSUME OnceInv, ModuleStep \/ UNCHANGED vars
    PROVE  DriverInv' /\ (binds' <= 1 => CountInv' /\ NoLostWakeup')
<1> USE DEF OnceInv, LoadInv, DriverInv, CountInv, GoneIsExited, PrivFreedLast,
    FlagFollowsDriver,
            WaiterIsQueued, OpensCountsFds, FreshIsUnused, DrainedHasNoOp,
            NoLostWakeup, DrvGoto, countVars, bindVars, modVars, vars, UnregPC
<1>1. CASE Rmmod
    BY <1>1, CountedAside DEF Rmmod
<1>2. CASE ModuleFree
    BY <1>2, CountedAside DEF ModuleFree
<1>3. CASE Unloaded \/ UNCHANGED vars
    BY <1>3, CountedAside DEF Unloaded
<1> QED
    BY <1>1, <1>2, <1>3 DEF ModuleStep

\* Every step of the cdev path keeps OnceInv.
LEMMA OnceNext ==
    ASSUME OnceInv, [Next]_vars
    PROVE  OnceInv'
<1>1. LoadInv'
    BY NextLoadInv DEF OnceInv
<1>2. DriverInv' /\ (binds' <= 1 => CountInv' /\ NoLostWakeup')
    <2>1. ASSUME NEW f \in File, VfsOpen(f) \/ FileStep(f) \/ UserStep(f)
          PROVE  DriverInv' /\ (binds' <= 1 => CountInv' /\ NoLostWakeup')
        BY <2>1, OnceFile
    <2>2. CASE DevBind \/ RegisterStep \/ InitReturns
        BY <2>2, OnceRegister
    <2>3. CASE Unregister \/ UnregisterStep \/ WaitTimeout
        BY <2>3, OnceUnregister
    <2>4. CASE ModuleStep \/ UNCHANGED vars
        BY <2>4, OnceModule
    <2> QED
        BY <2>1, <2>2, <2>3, <2>4 DEF Next
<1>3. ~(binds' <= 1) => NoLostWakeup'
    BY DEF NoLostWakeup
<1> QED
    BY <1>1, <1>2, <1>3 DEF OnceInv, DriverInv, CountInv

\* OnceInv holds whatever the files, the unbinds and the failures allowed.
THEOREM DevOnceInv == Spec => []OnceInv
<1>1. Init => OnceInv
    <2> SUFFICES ASSUME Init PROVE OnceInv
        OBVIOUS
    <2>1. Counted = {}
        BY DEF Init, Counted, FilesAt, CountedPC
    <2>2. OpensCountsFds
        BY <2>1, FS_EmptySet DEF Init, OpensCountsFds
    <2> QED
        BY <2>2, InitLoadInv DEF Init, OnceInv, GoneIsExited, PrivFreedLast,
            FlagFollowsDriver,
           WaiterIsQueued, FreshIsUnused, DrainedHasNoOp, NoLostWakeup, UnregPC
<1>2. OnceInv /\ [Next]_vars => OnceInv'
    BY OnceNext
<1> QED
    BY <1>1, <1>2, PTL DEF Spec

\* The wake-up of nv_char_release_open is never lost on the wait_event_timeout
\* of nv_char_device_unregister: the test after queueing sees the decrement, or
\* the decrement sees the queue.
THEOREM DevNoLostWakeup == Spec => []NoLostWakeup
<1>1. OnceInv => NoLostWakeup
    BY DEF OnceInv
<1> QED
    BY <1>1, DevOnceInv, PTL

\* An operation of nv_char_fops that passed its test of dev->removing keeps
\* dev->priv until it returns, unless the unregister gave up or the
\* registration had failed.
THEOREM DevOpNeverUsesFreedPriv == Spec => []OpNeverUsesFreedPriv
<1>1. OnceInv => OpNeverUsesFreedPriv
    <2> SUFFICES ASSUME OnceInv, binds <= 1, NEW f \in File, pc[f] = "op",
                        ~buf, ~timedout, ~FailedRegistration
                 PROVE  FALSE
        BY DEF OpNeverUsesFreedPriv
    <2>1. FreshIsUnused /\ DrainedHasNoOp
        BY DEF OnceInv
    <2>2. drv \in {"unbound", "gone"} /\ binds # 0
        BY <2>1 DEF OnceInv, PrivFreedLast, FreshIsUnused
    <2>3. drv # "unbound"
        BY <2>1, <2>2 DEF DrainedHasNoOp, FailedRegistration
    <2> QED
        BY <2>2, <2>3 DEF OnceInv, GoneIsExited, LoadInv, ExitAloneUnlessInitFailed,
           ExitAlone, InitFailed
<1> QED
    BY <1>1, DevOnceInv, PTL

-----------------------------------------------------------------------------
(* The lifetime promise *)

\* A step of a file: it is counted while the device is live.
LEMMA DevLifeFile ==
    ASSUME ExitOnly, ~FailedRegistration, ExitInv, NEW f \in File,
           VfsOpen(f) \/ FileStep(f) \/ UserStep(f)
    PROVE  Life!Next \/ UNCHANGED Life!lifeVars
<1>1. PICK l \in FilePC : FileShape(f, l)
    BY FileStepShape DEF FileStep
<1>2. phase' = phase
    BY <1>1 DEF FileShape, bindVars, phase
<1>3. CASE pc[f] = "inc" /\ Counted' = Counted \cup {f}
    <2>1. phase = "live" /\ f \notin Counted
        BY <1>3, CountedIsLive DEF ExitInv, LoadInv, Counted, FilesAt, CountedPC
    <2> QED
        BY <1>2, <1>3, <2>1 DEF Life!Next, Life!Acquire
<1>4. CASE pc[f] = "dec" /\ Counted' = Counted \ {f}
    <2>1. f \in Counted
        BY <1>4 DEF Counted, FilesAt, CountedPC
    <2> QED
        BY <1>2, <1>4, <2>1 DEF Life!Next, Life!Release
<1>5. CASE Counted' = Counted
    BY <1>2, <1>5 DEF Life!lifeVars
<1> QED
    BY <1>1, <1>3, <1>4, <1>5, CountedShape DEF ExitInv, LoadInv, RefInv

\* A step of the device: cdev_add makes it live, the removing flag closes it,
\* cdev_del finds it unused, unless the registration fails.
LEMMA DevLifeDriver ==
    ASSUME ExitOnly, ~FailedRegistration, ExitInv, [Next]_vars, UNCHANGED pc
    PROVE  Life!Next \/ FailedRegistration' \/ UNCHANGED Life!lifeVars
<1>1. Counted' = Counted
    BY CountedAside
<1>2. ~timedout /\ drv # "u_sleep"
    BY DEF ExitInv, NeverWaits
<1>3. LiveIsOpen /\ FlagFollowsDriver
    BY DEF ExitInv, LoadInv
<1>4. CASE CdevAdd
    BY <1>1, <1>2, <1>3, <1>4
       DEF CdevAdd, DrvGoto, LiveIsOpen, FlagFollowsDriver, phase, UnregPC,
       Life!Next, Life!GoLive
<1>5. CASE SetRemoving
    BY <1>1, <1>2, <1>3, <1>5
       DEF SetRemoving, DrvGoto, LiveIsOpen, FlagFollowsDriver, phase, UnregPC,
       Life!Next,
           Life!BeginClose
<1>6. CASE CdevDel
    <2>1. \A f \in File : pc[f] = "closed"
        BY <1>6, CountedIsLive DEF ExitInv, LoadInv, CdevDel, DrvGoto
    <2>2. Counted = {}
        BY <2>1 DEF Counted, FilesAt, CountedPC
    <2>3. phase = "closing"
        BY <1>2, <1>3, <1>6 DEF CdevDel, DrvGoto, LiveIsOpen, FlagFollowsDriver,
            phase, UnregPC
    <2>4. phase' = "dead"
        BY <1>2, <1>6 DEF CdevDel, phase
    <2> QED
        BY <1>1, <2>2, <2>3, <2>4 DEF Life!Next, Life!Finish
<1>7. CASE UNCHANGED <<published, removing, timedout>>
    BY <1>1, <1>7 DEF phase, Life!lifeVars
<1>8. CASE RegisterClearRemoving
    BY <1>1, <1>2, <1>3, <1>8
       DEF RegisterClearRemoving, DrvGoto, LiveIsOpen, FlagFollowsDriver, phase,
       UnregPC, Life!lifeVars
<1>9. ASSUME NEW f \in File, VfsOpen(f) \/ FileStep(f) \/ UserStep(f)
      PROVE  Life!Next \/ UNCHANGED Life!lifeVars
    BY <1>9, DevLifeFile
<1>10. CASE DevBind \/ InitReturns \/ Unregister \/ ModuleStep \/ UNCHANGED vars
    BY <1>7, <1>10 DEF DevBind, Bind, InitReturns, Unregister, ModuleStep, Rmmod, ModuleFree, Unloaded,
       vars, bindVars
<1>11. CASE RegisterStep
    <2>1. CASE RegisterFail
        BY <1>3, <2>1 DEF ExitInv, FreshIsUnused, FlagFollowsDriver, RegisterFail,
           FailedRegistration
    <2> QED
        BY <1>4, <1>7, <1>8, <1>11, <2>1 DEF RegisterStep, RegisterCommon,
           RegisterResetOpens, RegisterDone
<1>12. CASE UnregisterStep \/ WaitTimeout
    BY <1>2, <1>5, <1>6, <1>7, <1>12 DEF UnregisterStep, UnregisterCommon,
        HideDevice,
       WaitEnqueue, WaitTest, WaitWoken, WaitTimeout, FreePriv, DrvGoto
<1> QED
    BY <1>9, <1>10, <1>11, <1>12 DEF Next

\* There is no second registration to hide a failed one.
LEMMA FailedForGood ==
    ASSUME ExitOnly, FailedRegistration, [Next]_vars
    PROVE  FailedRegistration'
<1> USE DEF ExitOnly, FailedRegistration, RegPC, UnregPC
<1>1. ASSUME NEW f \in File, VfsOpen(f) \/ FileStep(f) \/ UserStep(f)
      PROVE  FailedRegistration'
    <2>1. UNCHANGED bindVars
        BY <1>1, FileStepShape DEF FileStep, FileShape
    <2> QED
        BY <2>1 DEF bindVars
<1>2. CASE DevBind \/ RegisterStep \/ InitReturns
    BY <1>2 DEF DevBind, InitRegisters, InitReturns, bindVars, RegisterStep,
       RegisterCommon, RegisterClearRemoving, RegisterResetOpens, RegisterDone,
       CdevAdd, RegisterFail, DrvGoto
<1>3. CASE Unregister \/ UnregisterStep \/ WaitTimeout
    BY <1>3 DEF Unregister, UnregisterStep, UnregisterCommon, SetRemoving, WaitEnqueue,
       WaitTest, WaitWoken, FreePriv, HideDevice, CdevDel, WaitTimeout, DrvGoto
<1>4. CASE ModuleStep \/ UNCHANGED vars
    BY <1>4 DEF ModuleStep, Rmmod, ModuleFree, Unloaded, DrvGoto, vars, bindVars
<1> QED
    BY <1>1, <1>2, <1>3, <1>4 DEF Next

\* A device that only module exit unregisters implements NvCharLife as long as its
\* registration has not failed: it gains users only while it is live and dies
\* unused, without giving up.
THEOREM DevImplementsLifeUnlessFailed ==
    ASSUME ExitOnly
    PROVE  Spec => ImplementsLifeUnlessFailed
<1> DEFINE LifeStep == [Life!Next \/ FailedRegistration']_(<<phase, Counted>>)
<1>1. Init => Life!Init
    BY DEF Init, Life!Init, phase, Counted, FilesAt, CountedPC
<1>2. ASSUME ExitInv, [Next]_vars PROVE LifeStep
    <2>1. ASSUME ~FailedRegistration, NEW f \in File,
                 VfsOpen(f) \/ FileStep(f) \/ UserStep(f)
          PROVE  LifeStep
        BY <1>2, <2>1, DevLifeFile DEF Life!lifeVars
    <2>2. CASE ~FailedRegistration /\ UNCHANGED pc
        BY <1>2, <2>2, DevLifeDriver DEF Life!lifeVars
    <2>3. CASE FailedRegistration
        BY <1>2, <2>3, FailedForGood
    <2>4. UNCHANGED pc \/ \E f \in File : VfsOpen(f) \/ FileStep(f) \/ UserStep(f)
        BY <1>2 DEF Next, DevBind, Bind, InitReturns, bindVars, countVars,
            RegisterStep, RegisterCommon,
            RegisterClearRemoving, RegisterResetOpens, RegisterDone, CdevAdd,
            RegisterFail, Unregister, UnregisterStep, UnregisterCommon, SetRemoving,
            WaitEnqueue, WaitTest, WaitWoken, FreePriv, HideDevice, CdevDel,
            WaitTimeout, ModuleStep, Rmmod, ModuleFree, Unloaded, vars
    <2> QED
        BY <2>1, <2>2, <2>3, <2>4
<1> QED
    BY <1>1, <1>2, DevExitInv, PTL DEF Spec, ImplementsLifeUnlessFailed
=============================================================================
