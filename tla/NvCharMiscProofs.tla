-------------------------- MODULE NvCharMiscProofs --------------------------
(***************************************************************************)
(* The misc path: its module references, the reach of misc_mtx and what a  *)
(* hidden device is safe from, for any constants; and for a device that is *)
(* registered any number of times, but not once more after a wait that was *)
(* given up, the drain of nv_char_misc_unregister and the lifetime promise *)
(* of NvCharLife.                                                          *)
(***************************************************************************)
EXTENDS NvCharMisc, NvCharOpenProofs

-----------------------------------------------------------------------------
(* Module references, as on the cdev path *)

\* Every step of the misc path keeps RefInv.
LEMMA MiscNextRefInv ==
    ASSUME RefInv, [MiscNext]_miscVars
    PROVE  RefInv'
<1>1. ASSUME NEW f \in File, MiscOpen(f) \/ MiscFileStep(f) \/ UserStep(f)
      PROVE  RefInv'
    BY <1>1, VfsOpenKeeps, OpenStepKeeps, ReleaseStepKeeps, FputKeeps,
       UserStepKeeps DEF MiscOpen, MiscFileStep, MiscOpenStep, MiscReleaseStep
<1>2. CASE MiscRegister \/ MiscRegisterFail \/ MiscDeregister \/ MiscUnregisterDone
    <2> USE DEF RefInv, TypeOK, DrvGoto, countVars, modVars, DrvPC, RegPC, UnregPC
    <2>1. CASE MiscRegister
        BY <2>1, DriverMoveKeeps DEF MiscRegister
    <2>2. CASE MiscRegisterFail
        BY <2>2, DriverMoveKeeps DEF MiscRegisterFail
    <2>3. CASE MiscDeregister
        BY <2>3, DriverMoveKeeps DEF MiscDeregister
    <2>4. CASE MiscUnregisterDone
        BY <2>4, DriverMoveKeeps DEF MiscUnregisterDone
    <2> QED
        BY <1>2, <2>1, <2>2, <2>3, <2>4
<1>3. CASE MiscBind \/ RegisterCommon
    BY <1>3, RegisterKeeps DEF MiscBind
<1>4. CASE Unregister \/ UnregisterCommon \/ WaitTimeout
    BY <1>4, UnregisterKeeps
<1>5. CASE ModuleStep
    BY <1>5, ModuleStepKeeps
<1>6. CASE UNCHANGED miscVars
    BY <1>6 DEF miscVars, vars, countVars, bindVars, modVars, RefInv, TypeOK,
                RefcntExact, VfsHolders, OwnerHolders, FilesAt
<1> QED
    BY <1>1, <1>2, <1>3, <1>4, <1>5, <1>6
       DEF MiscNext, MiscRegisterStep, MiscUnregisterStep

\* A step of a file: it needs a published device or an open file, and neither is
\* there in an exiting module or before misc_register.
LEMMA MiscFileExit ==
    ASSUME ModuleInv, NEW f \in File,
           VfsOpen(f) \/ OpenStep(f) \/ ReleaseStep(f) \/ UserStep(f) \/ Fput(f)
    PROVE  ExitAlone' /\ ComingIsUnused'
<1>1. PICK l \in FilePC : FileShape(f, l)
    BY FileStepShape
<1>2. modState' = modState /\ UNCHANGED bindVars
    BY <1>1, FileWakes DEF ModuleInv, RefInv, FileShape
<1>3. pc[f] = "closed" => modState \in {"coming", "live"} /\ published
    BY <1>1 DEF FileShape, VfsOpen, OpenStep, CheckRemoving, TryModuleGet,
       RecheckRemoving, IncOpens, OpenCallback, ReleaseStep, ReleaseCallback,
       DecOpens, WakeRelease, ModulePut, UserStep, StartOp, EndOp, Close, Fput
<1> QED
    BY <1>2, <1>3 DEF ModuleInv, ExitAlone, ComingIsUnused, bindVars

\* A step that moves no file: only an unused module exits, and only a module
\* that was live unregisters.
LEMMA MiscDriverExit ==
    ASSUME ModuleInv, UNCHANGED pc, [MiscNext]_miscVars
    PROVE  ExitAlone' /\ ComingIsUnused'
<1> USE DEF ModuleInv, ExitAlone, ComingIsUnused, DrvGoto, modVars, UnregPC
<1>1. CASE MiscBind \/ RegisterCommon
    BY <1>1 DEF MiscBind, Bind, RegisterCommon, RegisterClearRemoving,
       RegisterResetOpens, RegisterDone
<1>2. CASE MiscRegister \/ MiscRegisterFail
    BY <1>2 DEF MiscRegister, MiscRegisterFail
<1>3. CASE Unregister \/ MiscDeregister \/ MiscUnregisterDone
    BY <1>3 DEF Unregister, MiscDeregister, MiscUnregisterDone
<1>4. CASE UnregisterCommon \/ WaitTimeout
    BY <1>4 DEF UnregisterCommon, SetRemoving, WaitEnqueue, WaitTest, WaitWoken,
       FreePriv, WaitTimeout
<1>5. CASE Rmmod
    BY <1>5, NoReferenceNoFile DEF Rmmod
<1>6. CASE ModuleFree \/ Unloaded \/ UNCHANGED miscVars
    BY <1>6 DEF ModuleFree, Unloaded, miscVars, vars, bindVars
<1>7. ASSUME NEW f \in File, MiscOpen(f) \/ MiscFileStep(f) \/ UserStep(f)
      PROVE  ExitAlone' /\ ComingIsUnused'
    BY <1>7, MiscFileExit DEF MiscOpen, MiscFileStep, MiscOpenStep, MiscReleaseStep
<1> QED
    BY <1>1, <1>2, <1>3, <1>4, <1>5, <1>6, <1>7
       DEF MiscNext, MiscRegisterStep, MiscUnregisterStep, ModuleStep

\* Every step of the misc path keeps ModuleInv.
LEMMA MiscNextModuleInv ==
    ASSUME ModuleInv, [MiscNext]_miscVars
    PROVE  ModuleInv'
<1>1. RefInv'
    BY MiscNextRefInv DEF ModuleInv
<1>2. ASSUME NEW f \in File, MiscOpen(f) \/ MiscFileStep(f) \/ UserStep(f)
      PROVE  ExitAlone' /\ ComingIsUnused'
    BY <1>2, MiscFileExit DEF MiscOpen, MiscFileStep, MiscOpenStep, MiscReleaseStep
<1>3. ASSUME UNCHANGED pc
      PROVE  ExitAlone' /\ ComingIsUnused'
    BY <1>3, MiscDriverExit
<1> QED
    BY <1>1, <1>2, <1>3 DEF ModuleInv, MiscNext, MiscRegisterStep, RegisterCommon,
       RegisterClearRemoving, RegisterResetOpens, RegisterDone, MiscRegister,
       MiscRegisterFail, MiscUnregisterStep, UnregisterCommon, SetRemoving,
       WaitEnqueue, WaitTest, WaitWoken, FreePriv, MiscDeregister,
       MiscUnregisterDone, MiscBind, Bind, Unregister, WaitTimeout, ModuleStep,
       Rmmod, ModuleFree, Unloaded, miscVars, vars

\* Nobody has the device open when the module is loaded.
LEMMA MiscInitModuleInv ==
    ASSUME Init
    PROVE  ModuleInv
<1>1. ExitAlone /\ ComingIsUnused
    BY DEF Init, ExitAlone, ComingIsUnused, UnregPC
<1> QED
    BY <1>1, InitRefInv DEF ModuleInv

\* No step of the misc path leaves the module references unbalanced, whatever
\* the constants: MiscSpec keeps ModuleInv.
THEOREM MiscModuleInv == MiscSpec => []ModuleInv
<1>1. MiscInit => ModuleInv
    BY MiscInitModuleInv DEF MiscInit
<1>2. ModuleInv /\ [MiscNext]_miscVars => ModuleInv'
    BY MiscNextModuleInv
<1> QED
    BY <1>1, <1>2, PTL DEF MiscSpec

\* As DevRefcntExact, for nv_char_misc_open.
THEOREM MiscRefcntExact == MiscSpec => []RefcntExact
<1>1. ModuleInv => RefcntExact
    BY DEF ModuleInv, RefInv
<1> QED
    BY <1>1, MiscModuleInv, PTL

\* As DevExitAlone: a failed module init included, the module never exits
\* under an open file.
THEOREM MiscExitAlone == MiscSpec => []ExitAlone
<1>1. ModuleInv => ExitAlone
    BY DEF ModuleInv
<1> QED
    BY <1>1, MiscModuleInv, PTL

-----------------------------------------------------------------------------
(* What misc_mtx covers *)

MutexInv == mtx \in File \cup {NoFile} /\ MutexCoversOpen

\* A step that moves no file and leaves the mutex alone.
LEMMA MutexAside ==
    ASSUME MutexInv, UNCHANGED <<pc, mtx>>
    PROVE  MutexInv'
BY DEF MutexInv, MutexCoversOpen

\* Each open(2) takes the mutex before it enters the driver and gives it back
\* when it is out of it; close(2) never has it.
LEMMA MutexNext ==
    ASSUME TypeOK, MutexInv, [MiscNext]_miscVars
    PROVE  MutexInv'
<1> USE NoFileAssumption
<1> USE DEF TypeOK, MutexInv, MutexCoversOpen, EnteringPC, AcquiringPC, Goto
<1>1. ASSUME NEW f \in File, MiscOpen(f)
      PROVE  MutexInv'
    BY <1>1 DEF MiscOpen, VfsOpen
<1>2. ASSUME NEW f \in File, MiscOpenStep(f)
      PROVE  MutexInv'
    <2>1. CASE OpenStep(f)
        <3>1. mtx = f
            BY <2>1 DEF OpenStep, CheckRemoving, TryModuleGet, RecheckRemoving,
                        IncOpens, OpenCallback
        <3>2. PICK l \in EnteringPC \cup {"fput", "put", "open", "dec"} : Goto(f, l)
            BY <2>1 DEF OpenStep, CheckRemoving, TryModuleGet, RecheckRemoving,
                        IncOpens, OpenCallback
        <3> QED
            BY <1>2, <3>1, <3>2 DEF MiscOpenStep
    <2>2. CASE mtx = f /\ ReleaseStep(f)
        <3>1. PICK l \in {"wake", "put", "fput"} : Goto(f, l)
            BY <2>2 DEF ReleaseStep, ReleaseCallback, DecOpens, WakeRelease, ModulePut
        <3> QED
            BY <1>2, <2>2, <3>1 DEF MiscOpenStep
    <2> QED
        BY <1>2, <2>1, <2>2 DEF MiscOpenStep
<1>3. ASSUME NEW f \in File, MiscReleaseStep(f)
      PROVE  MutexInv'
    <2>1. PICK l \in {"dec", "wake", "put", "fput"} : Goto(f, l)
        BY <1>3 DEF MiscReleaseStep, ReleaseStep, ReleaseCallback, DecOpens,
                    WakeRelease, ModulePut
    <2> QED
        BY <1>3, <2>1 DEF MiscReleaseStep
<1>4. ASSUME NEW f \in File, (Fput(f) \/ UserStep(f)) /\ UNCHANGED mtx
      PROVE  MutexInv'
    <2>1. pc[f] \in {"fput", "open", "op"}
        BY <1>4 DEF Fput, UserStep, StartOp, EndOp, Close
    <2>2. PICK l \in {"closed", "op", "open", "cbrel"} : Goto(f, l)
        BY <1>4 DEF Fput, UserStep, StartOp, EndOp, Close
    <2> QED
        BY <1>4, <2>1, <2>2
<1>5. CASE MiscRegisterStep \/ MiscUnregisterStep
    <2>1. UNCHANGED <<pc, mtx>>
        BY <1>5 DEF MiscRegisterStep, RegisterCommon, RegisterClearRemoving,
                    RegisterResetOpens, RegisterDone, MiscRegister,
                    MiscRegisterFail, MiscUnregisterStep, UnregisterCommon,
                    SetRemoving, WaitEnqueue, WaitTest, WaitWoken, FreePriv,
                    MiscDeregister, MiscUnregisterDone
    <2> QED
        BY <2>1, MutexAside
<1>6. CASE (MiscBind \/ Unregister \/ WaitTimeout \/ ModuleStep) /\ UNCHANGED mtx
    <2>1. UNCHANGED <<pc, mtx>>
        BY <1>6 DEF MiscBind, Bind, Unregister, WaitTimeout, ModuleStep, Rmmod, ModuleFree,
                    Unloaded, vars
    <2> QED
        BY <2>1, MutexAside
<1>7. CASE UNCHANGED miscVars
    BY <1>7, MutexAside DEF miscVars, vars
<1> QED
    BY <1>1, <1>2, <1>3, <1>4, <1>5, <1>6, <1>7 DEF MiscNext, MiscFileStep

\* misc_mtx covers every open(2) from before the first look at dev->removing to
\* after the open callback, whatever the constants.
THEOREM MiscMutexCoversOpen == MiscSpec => []MutexCoversOpen
<1>1. MiscInit => MutexInv
    BY NoFileAssumption
       DEF MiscInit, Init, MutexInv, MutexCoversOpen, EnteringPC, AcquiringPC
<1>2. TypeOK /\ MutexInv /\ [MiscNext]_miscVars => MutexInv'
    BY MutexNext
<1>3. ModuleInv => TypeOK
    BY DEF ModuleInv, RefInv
<1>4. MutexInv => MutexCoversOpen
    BY DEF MutexInv
<1> QED
    BY <1>1, <1>2, <1>3, <1>4, MiscModuleInv, PTL DEF MiscSpec

-----------------------------------------------------------------------------
(* A device that is off misc_list *)

\* The steps of the misc path, grouped by what they may disturb.
MiscFile(f) ==
    VfsOpen(f) \/ OpenStep(f) \/ ReleaseStep(f) \/ UserStep(f) \/ Fput(f)

\* Every step of a file on the misc path is one of NvCharOpen's.
LEMMA MiscFileIs ==
    ASSUME NEW f \in File,
           MiscOpen(f) \/ MiscFileStep(f) \/ (UserStep(f) /\ UNCHANGED mtx)
    PROVE  MiscFile(f)
BY DEF MiscFile, MiscOpen, MiscFileStep, MiscOpenStep, MiscReleaseStep

\* misc_deregister waits until no open(2) is in progress, and until the next
\* misc_register none begins.
LEMMA ShutNext ==
    ASSUME TypeOK, MutexInv, ShutIsShut, [MiscNext]_miscVars
    PROVE  ShutIsShut'
<1>1. ASSUME NEW f \in File, MiscFile(f)
      PROVE  ShutIsShut'
    <2>1. PICK l \in FilePC : FileShape(f, l)
        BY <1>1, FileStepShape DEF MiscFile
    <2> QED
        BY <2>1 DEF TypeOK, ShutIsShut, FileShape, Goto, bindVars
<1> USE DEF ShutIsShut, ShutPC, DrainedPC, FreshPC, DrvGoto
<1>2. CASE MiscBind \/ MiscRegisterStep
    BY <1>2 DEF MiscBind, Bind, MiscRegisterStep, RegisterCommon,
                RegisterClearRemoving, RegisterResetOpens, RegisterDone,
                MiscRegister, MiscRegisterFail
<1>3. CASE MiscDeregister
    BY <1>3, NoFileAssumption DEF MiscDeregister, MutexInv, MutexCoversOpen
<1>4. CASE Unregister \/ UnregisterCommon \/ WaitTimeout \/ MiscUnregisterDone
    BY <1>4 DEF Unregister, UnregisterCommon, SetRemoving, WaitEnqueue, WaitTest,
                WaitWoken, FreePriv, WaitTimeout, MiscUnregisterDone
<1>5. CASE ModuleStep \/ UNCHANGED miscVars
    BY <1>5 DEF ModuleStep, Rmmod, ModuleFree, Unloaded, bindVars, miscVars, vars
<1> QED
    BY <1>1, <1>2, <1>3, <1>4, <1>5, MiscFileIs DEF MiscNext, MiscUnregisterStep

\* From misc_deregister to the next misc_register no open(2) is on its way into
\* the driver, whatever the constants.
THEOREM MiscShutIsShut == MiscSpec => []ShutIsShut
<1>1. MiscInit => ShutIsShut /\ MutexInv
    BY NoFileAssumption DEF MiscInit, Init, ShutIsShut, MutexInv, MutexCoversOpen,
                            EnteringPC, AcquiringPC
<1>2. TypeOK /\ MutexInv /\ ShutIsShut /\ [MiscNext]_miscVars => (MutexInv /\ ShutIsShut)'
    BY MutexNext, ShutNext
<1>3. ModuleInv => TypeOK
    BY DEF ModuleInv, RefInv
<1> QED
    BY <1>1, <1>2, <1>3, MiscModuleInv, PTL DEF MiscSpec

\* Once the device is off misc_list no descriptor is counted any more.
THEOREM MiscNoGhostOpen == MiscSpec => NoGhostOpen
<1> DEFINE Closing == drv \in {"u_enq", "u_chk", "u_sleep", "u_del", "free"}
<1>1. TypeOK /\ ShutIsShut /\ [MiscNext]_miscVars
          => [Closing => Counted' \subseteq Counted]_miscVars
    <2> SUFFICES ASSUME TypeOK, ShutIsShut, [MiscNext]_miscVars, Closing
                 PROVE  Counted' \subseteq Counted
        OBVIOUS
    <2>1. ASSUME NEW f \in File, MiscFile(f)
          PROVE  Counted' \subseteq Counted
        <3>1. PICK l \in FilePC : FileShape(f, l)
            BY <2>1, FileStepShape DEF MiscFile
        <3>2. pc[f] # "inc"
            BY DEF ShutIsShut, ShutPC, DrainedPC, EnteringPC, AcquiringPC
        <3> QED
            BY <3>1, <3>2, CountedShape
    <2>2. CASE UNCHANGED pc
        BY <2>2, CountedAside
    <2> QED
        BY <2>1, <2>2, MiscFileIs
           DEF MiscNext, MiscBind, Bind, MiscRegisterStep, RegisterCommon,
            RegisterClearRemoving, RegisterResetOpens, RegisterDone, MiscRegister,
            MiscRegisterFail, Unregister, MiscUnregisterStep, UnregisterCommon,
            SetRemoving, WaitEnqueue, WaitTest, WaitWoken, FreePriv, MiscDeregister,
            MiscUnregisterDone, WaitTimeout, ModuleStep, Rmmod, ModuleFree, Unloaded,
            miscVars, vars
<1>2. ModuleInv => TypeOK
    BY DEF ModuleInv, RefInv
<1> QED
    BY <1>1, <1>2, MiscModuleInv, MiscShutIsShut, PTL DEF MiscSpec, NoGhostOpen

-----------------------------------------------------------------------------
(* The drain, for a device that is not registered again after a warning: one *)
(* that is registered once (as nv_char_misc_echo registers its own), or      *)
(* again only when the last wait was not given up.                           *)

Orderly == MaxBinds = 1 \/ ~AfterWarning

\* The parts of MiscInv that the drain is about.
DrainInv == OpensCountsFds /\ DrainHolds /\ SleeperIsWoken /\ PrivFreedLast

\* Such a device is registered with no wait given up.
LEMMA NoBindAfterWarning ==
    ASSUME Orderly, TypeOK, DrainHolds, MiscBind
    PROVE  ~timedout
BY DEF Orderly, TypeOK, DrainHolds, MiscBind, Bind

\* A step of a file keeps them: off misc_list nobody enters, nobody who did not
\* enter is counted, and whoever takes dev->opens to zero goes on to wake the
\* drain.
LEMMA DrainFile ==
    ASSUME TypeOK, ShutIsShut, DrainInv, NEW f \in File, MiscFile(f)
    PROVE  DrainInv'
<1>1. PICK l \in FilePC : FileShape(f, l)
    BY FileStepShape DEF MiscFile
<1>2. OpensCountsFds'
    BY <1>1, OpensShape DEF DrainInv
<1>3. UNCHANGED bindVars /\ pc' = [pc EXCEPT ![f] = l]
    BY <1>1 DEF FileShape, Goto
<1>4. drv \in ShutPC => pc[f] # "inc"
    BY DEF ShutIsShut, EnteringPC, AcquiringPC
<1>5. DrainHolds'
    <2>1. CASE Counted' = Counted \cup {f} /\ pc[f] = "inc"
        BY <1>3, <1>4, <2>1 DEF DrainInv, DrainHolds, ShutPC, bindVars
    <2>2. CASE Counted' \subseteq Counted
        BY <1>3, <2>2 DEF DrainInv, DrainHolds, bindVars
    <2> QED
        BY <1>1, <2>1, <2>2, CountedShape
<1>6. drv' \in {"u_chk", "u_sleep"} => waiter' # "none"
    BY <1>3, FileWakes DEF MiscFile, DrainInv, SleeperIsWoken, bindVars
<1>7. ASSUME drv' = "u_sleep", opens' = 0, waiter' # "woken"
      PROVE  \E g \in File : pc'[g] = "wake"
    <2>1. drv = "u_sleep" /\ waiter = "queued" /\ waiter' = "queued"
        BY <1>3, <1>7, FileWakes DEF MiscFile, TypeOK, DrainInv, SleeperIsWoken, bindVars
    <2>2. opens \in Nat
        BY FilesAtFinite DEF DrainInv, OpensCountsFds, Counted
    <2>3. CASE pc[f] = "dec" /\ opens = 1
        BY <2>3, FileWakes DEF MiscFile
    <2>4. CASE opens = 0
        <3>1. PICK g \in File : pc[g] = "wake"
            BY <2>1, <2>4 DEF DrainInv, SleeperIsWoken
        <3>2. g # f
            BY <2>1, <3>1, FileWakes DEF MiscFile
        <3> QED
            BY <3>1, <3>2, FileWakes DEF MiscFile
    <2>5. opens' \in {opens, opens - 1, opens + 1} /\ (opens' = opens - 1 => pc[f] = "dec")
        BY <1>1, <2>2 DEF FileShape
    <2> QED
        BY <1>7, <2>2, <2>3, <2>4, <2>5
<1>8. PrivFreedLast'
    BY <1>3 DEF DrainInv, PrivFreedLast, bindVars
<1> QED
    BY <1>2, <1>5, <1>6, <1>7, <1>8 DEF DrainInv, SleeperIsWoken

\* A registration: the count is reset when the last descriptor is gone.
LEMMA DrainRegister ==
    ASSUME Orderly, TypeOK, DrainInv, MiscBind \/ MiscRegisterStep
    PROVE  DrainInv'
<1>0. MiscBind => ~timedout
    BY NoBindAfterWarning DEF DrainInv
<1> USE DEF DrainInv, OpensCountsFds, DrainHolds, SleeperIsWoken, PrivFreedLast,
            DrainedPC, FreshPC, DrvGoto, countVars
<1>1. CASE MiscBind
    <2>1. /\ drv = "unbound" /\ drv' = "r_flag" /\ binds' = binds + 1 /\ buf' = TRUE
          /\ binds \in Nat /\ UNCHANGED <<pc, opens, timedout>>
        BY <1>1 DEF MiscBind, Bind, TypeOK
    <2> QED
        BY <1>0, <1>1, <2>1, CountedAside
<1>2. CASE RegisterClearRemoving
    BY <1>2, CountedAside DEF RegisterClearRemoving
<1>3. CASE RegisterResetOpens
    <2>1. Counted = {} /\ ~timedout
        BY <1>3 DEF RegisterResetOpens
    <2>2. Counted' = {} /\ Cardinality(Counted)' = 0
        BY <1>3, <2>1, CountedAside, FS_EmptySet DEF RegisterResetOpens
    <2> QED
        BY <1>3, <2>1, <2>2 DEF RegisterResetOpens
<1>4. CASE RegisterDone
    BY <1>4, CountedAside DEF RegisterDone
<1>5. CASE MiscRegister
    BY <1>5, CountedAside DEF MiscRegister
<1>6. CASE MiscRegisterFail
    BY <1>6, CountedAside DEF MiscRegisterFail
<1> QED
    BY <1>1, <1>2, <1>3, <1>4, <1>5, <1>6 DEF MiscRegisterStep, RegisterCommon

\* An unregistration: the wait ends with nobody counted or with the warning.
LEMMA DrainUnregister ==
    ASSUME TypeOK, DrainInv, Unregister \/ MiscUnregisterStep \/ WaitTimeout
    PROVE  DrainInv'
<1>0. opens = 0 => Counted = {}
    BY NoneCounted DEF DrainInv
<1> USE DEF DrainInv, OpensCountsFds, DrainHolds, SleeperIsWoken, PrivFreedLast,
            DrainedPC, FreshPC, DrvGoto, countVars
<1>1. CASE Unregister
    BY <1>1, CountedAside DEF Unregister
<1>2. CASE SetRemoving
    BY <1>2, CountedAside DEF SetRemoving
<1>3. CASE MiscDeregister
    BY <1>3, CountedAside DEF MiscDeregister
<1>4. CASE WaitEnqueue
    BY <1>4, CountedAside DEF WaitEnqueue
<1>5. CASE WaitTest
    BY <1>0, <1>5, CountedAside DEF WaitTest
<1>6. CASE WaitWoken
    BY <1>6, CountedAside DEF WaitWoken
<1>7. CASE WaitTimeout
    BY <1>0, <1>7, CountedAside DEF WaitTimeout
<1>8. CASE MiscUnregisterDone
    BY <1>8, CountedAside DEF MiscUnregisterDone
<1>9. CASE FreePriv
    BY <1>9, CountedAside DEF FreePriv
<1> QED
    BY <1>1, <1>2, <1>3, <1>4, <1>5, <1>6, <1>7, <1>8, <1>9
       DEF MiscUnregisterStep, UnregisterCommon

\* The module loader does not touch the device.
LEMMA DrainModule ==
    ASSUME DrainInv, ModuleStep \/ UNCHANGED miscVars
    PROVE  DrainInv'
<1> USE DEF DrainInv, OpensCountsFds, DrainHolds, SleeperIsWoken, PrivFreedLast,
            DrainedPC, FreshPC, DrvGoto, countVars, bindVars, vars
<1>1. CASE Rmmod
    BY <1>1, CountedAside DEF Rmmod
<1>2. CASE ModuleFree
    BY <1>2, CountedAside DEF ModuleFree
<1>3. CASE Unloaded \/ UNCHANGED miscVars
    BY <1>3, CountedAside DEF Unloaded, miscVars
<1> QED
    BY <1>1, <1>2, <1>3 DEF ModuleStep

\* Every step of such a device keeps MiscInv.
LEMMA MiscNextInv ==
    ASSUME Orderly, MiscInv, [MiscNext]_miscVars
    PROVE  MiscInv'
<1>1. TypeOK /\ MutexInv /\ ShutIsShut /\ DrainInv
    BY DEF MiscInv, ModuleInv, RefInv, MutexInv, DrainInv
<1>2. ModuleInv' /\ MutexInv' /\ ShutIsShut'
    BY <1>1, MiscNextModuleInv, MutexNext, ShutNext DEF MiscInv
<1>3. DrainInv'
    <2>1. ASSUME NEW f \in File, MiscFile(f)
          PROVE  DrainInv'
        BY <1>1, <2>1, DrainFile
    <2>2. CASE MiscBind \/ MiscRegisterStep
        BY <1>1, <2>2, DrainRegister
    <2>3. CASE Unregister \/ MiscUnregisterStep \/ WaitTimeout
        BY <1>1, <2>3, DrainUnregister
    <2>4. CASE ModuleStep \/ UNCHANGED miscVars
        BY <1>1, <2>4, DrainModule
    <2> QED
        BY <2>1, <2>2, <2>3, <2>4, MiscFileIs DEF MiscNext
<1> QED
    BY <1>2, <1>3 DEF MiscInv, MutexInv, DrainInv

\* The device starts unregistered and unused.
LEMMA MiscInitInv ==
    ASSUME MiscInit
    PROVE  MiscInv
<1>1. Counted = {}
    BY DEF MiscInit, Init, Counted, FilesAt, CountedPC
<1>2. OpensCountsFds
    BY <1>1, FS_EmptySet DEF MiscInit, Init, OpensCountsFds
<1>3. MutexCoversOpen /\ mtx = NoFile
    BY NoFileAssumption
       DEF MiscInit, Init, MutexCoversOpen, EnteringPC, AcquiringPC
<1>4. ShutIsShut /\ DrainHolds /\ SleeperIsWoken /\ PrivFreedLast
    BY <1>1 DEF MiscInit, Init, ShutIsShut, DrainHolds, SleeperIsWoken,
                PrivFreedLast, EnteringPC, AcquiringPC
<1> QED
    BY <1>2, <1>3, <1>4, MiscInitModuleInv DEF MiscInit, MiscInv

\* MiscInv holds of a misc device that is not registered again after a warning:
\* from any number of files and registrations, with unbinds and failed
\* registrations or without.
THEOREM MiscInvHolds == ASSUME Orderly PROVE MiscSpec => []MiscInv
<1>1. MiscInit => MiscInv
    BY MiscInitInv
<1>2. MiscInv /\ [MiscNext]_miscVars => MiscInv'
    BY MiscNextInv
<1> QED
    BY <1>1, <1>2, PTL DEF MiscSpec

\* dev->opens is the number of descriptors that nv_char_acquire_open counted
\* and nv_char_release_open has not uncounted, the reset of a second
\* registration included.
THEOREM MiscOpensCountsFds ==
    ASSUME Orderly PROVE MiscSpec => []OpensCountsFds
<1>1. MiscInv => OpensCountsFds
    BY DEF MiscInv
<1> QED
    BY <1>1, MiscInvHolds, PTL

\* nv_char_misc_unregister goes on past its wait only when no descriptor is
\* open, or with the warning.
THEOREM MiscDrainedMeansClosed ==
    ASSUME Orderly PROVE MiscSpec => []DrainedMeansClosed
<1>1. MiscInv => DrainedMeansClosed
    BY DEF MiscInv, DrainHolds, DrainedPC, DrainedMeansClosed
<1> QED
    BY <1>1, MiscInvHolds, PTL

\* No callback of the driver meets a freed dev->priv, unless the wait was
\* given up.
THEOREM MiscCallbackHasPriv ==
    ASSUME Orderly PROVE MiscSpec => []CallbackHasPriv
<1>1. MiscInv => CallbackHasPriv
    BY DEF MiscInv, DrainHolds, DrainedPC, PrivFreedLast, CallbackHasPriv, Counted, FilesAt,
           CountedPC
<1> QED
    BY <1>1, MiscInvHolds, PTL

\* The drain of nv_char_misc_unregister misses no wake-up of
\* nv_char_release_open, in any of its registrations.
THEOREM MiscSleeperIsWoken ==
    ASSUME Orderly PROVE MiscSpec => []SleeperIsWoken
<1>1. MiscInv => SleeperIsWoken
    BY DEF MiscInv
<1> QED
    BY <1>1, MiscInvHolds, PTL

-----------------------------------------------------------------------------
(* The lifetime promise *)

\* The phase a step of a file leaves alone: it is a function of drv, timedout.
LEMMA PhaseAside ==
    ASSUME UNCHANGED <<drv, timedout>>
    PROVE  miscPhase' = miscPhase
BY DEF miscPhase

\* A file is counted while the device is live and uncounted at any time.
LEMMA LifeFile ==
    ASSUME MiscInv, NEW f \in File, MiscFile(f)
    PROVE  Life!Next \/ UNCHANGED Life!lifeVars
<1>1. PICK l \in FilePC : FileShape(f, l)
    BY FileStepShape DEF MiscFile
<1>2. miscPhase' = miscPhase
    BY <1>1, PhaseAside DEF FileShape, bindVars
<1>3. CASE pc[f] = "inc" /\ Counted' = Counted \cup {f}
    <2>1. drv \in {"r_finish", "bound", "u_flag", "u_hide"}
        <3>1. drv \in DrvPC
            BY DEF MiscInv, ModuleInv, RefInv, TypeOK
        <3>2. pc[f] \in EnteringPC
            BY <1>3 DEF EnteringPC, AcquiringPC
        <3>3. drv \notin ShutPC
            BY <3>2 DEF MiscInv, ShutIsShut
        <3> QED
            BY <3>1, <3>3 DEF ShutPC, DrainedPC, FreshPC, DrvPC, RegPC, UnregPC
    <2>2. miscPhase = "live"
        BY <2>1 DEF miscPhase
    <2>3. f \notin Counted
        BY <1>3 DEF Counted, FilesAt, CountedPC
    <2>4. Life!Acquire(f)
        BY <1>2, <1>3, <2>2, <2>3 DEF Life!Acquire
    <2> QED
        BY <2>4 DEF Life!Next
<1>4. CASE pc[f] = "dec" /\ Counted' = Counted \ {f}
    <2>1. f \in Counted
        BY <1>4 DEF Counted, FilesAt, CountedPC
    <2>2. Life!Release(f)
        BY <1>2, <1>4, <2>1 DEF Life!Release
    <2> QED
        BY <2>2 DEF Life!Next
<1>5. CASE Counted' = Counted
    BY <1>2, <1>5 DEF Life!lifeVars
<1> QED
    BY <1>1, <1>3, <1>4, <1>5, CountedShape DEF MiscInv, ModuleInv, RefInv

\* The device is live from misc_register to misc_deregister, closing while the
\* unregister waits, then dead, or abandoned after the warning.
LEMMA LifeDriver ==
    ASSUME Orderly, MiscInv, UNCHANGED pc, [MiscNext]_miscVars
    PROVE  Life!Next \/ UNCHANGED Life!lifeVars
<1>1. Counted' = Counted
    BY CountedAside
<1>2. opens = 0 <=> Counted = {}
    <2>1. Counted = {} => Cardinality(Counted) = 0
        BY FS_EmptySet
    <2> QED
        BY <2>1, NoneCounted DEF MiscInv, OpensCountsFds
<1>3. /\ drv \in DrainedPC => Counted = {} \/ timedout
      /\ timedout => drv \in DrainedPC
    BY DEF MiscInv, DrainHolds
<1> USE DEF miscPhase, DrvGoto, DrainedPC
<1>4. CASE MiscRegister
    BY <1>1, <1>3, <1>4 DEF MiscRegister, Life!Next, Life!GoLive
<1>5. CASE MiscDeregister
    BY <1>1, <1>3, <1>5 DEF MiscDeregister, Life!Next, Life!BeginClose
<1>6. CASE WaitTimeout
    BY <1>1, <1>2, <1>3, <1>6 DEF WaitTimeout, Life!Next, Life!GiveUp, Life!lifeVars
<1>7. CASE MiscUnregisterDone
    BY <1>1, <1>3, <1>7
       DEF MiscUnregisterDone, Life!Next, Life!Finish, Life!lifeVars
<1>8. CASE MiscBind
    <2>1. ~timedout
        BY <1>8, NoBindAfterWarning DEF MiscInv, ModuleInv, RefInv, TypeOK
    <2> QED
        BY <1>1, <1>8, <2>1 DEF MiscBind, Bind, Life!lifeVars
<1>9. CASE RegisterCommon \/ MiscRegisterFail
    BY <1>1, <1>3, <1>9 DEF RegisterCommon, RegisterClearRemoving,
       RegisterResetOpens, RegisterDone, MiscRegisterFail, Life!lifeVars
<1>10. CASE Unregister \/ UnregisterCommon
    BY <1>1, <1>3, <1>10 DEF Unregister, UnregisterCommon, SetRemoving,
       WaitEnqueue, WaitTest, WaitWoken, FreePriv, Life!lifeVars
<1>11. CASE ModuleStep \/ UNCHANGED miscVars
    BY <1>1, <1>3, <1>11 DEF ModuleStep, Rmmod, ModuleFree, Unloaded, miscVars, vars,
       bindVars, Life!lifeVars
<1>12. ASSUME NEW f \in File, MiscFile(f)
       PROVE  Life!Next \/ UNCHANGED Life!lifeVars
    BY <1>12, LifeFile
<1> QED
    BY <1>4, <1>5, <1>6, <1>7, <1>8, <1>9, <1>10, <1>11, <1>12, MiscFileIs
       DEF MiscNext, MiscRegisterStep, MiscUnregisterStep

\* A misc device implements NvCharLife, from one registration to the next: it
\* gains users only while it is live, and it is dead, without the warning of
\* nv_char_misc_unregister, only when unused.
THEOREM MiscImplementsLife ==
    ASSUME Orderly PROVE MiscSpec => ImplementsLife
<1>1. MiscInit => Life!Init
    BY DEF MiscInit, Init, Life!Init, miscPhase, Counted, FilesAt, CountedPC
<1>2. MiscInv /\ [MiscNext]_miscVars => [Life!Next]_(Life!lifeVars)
    <2> SUFFICES ASSUME MiscInv, [MiscNext]_miscVars
                 PROVE  Life!Next \/ UNCHANGED Life!lifeVars
        OBVIOUS
    <2>1. ASSUME NEW f \in File,
                 MiscOpen(f) \/ MiscFileStep(f) \/ (UserStep(f) /\ UNCHANGED mtx)
          PROVE  Life!Next \/ UNCHANGED Life!lifeVars
        BY <2>1, MiscFileIs, LifeFile
    <2>2. CASE UNCHANGED pc
        BY <2>2, LifeDriver
    <2> QED
        BY <2>1, <2>2 DEF MiscNext, MiscBind, Bind, MiscRegisterStep, RegisterCommon,
            RegisterClearRemoving, RegisterResetOpens, RegisterDone, MiscRegister,
            MiscRegisterFail, Unregister, MiscUnregisterStep, UnregisterCommon,
            SetRemoving, WaitEnqueue, WaitTest, WaitWoken, FreePriv, MiscDeregister,
            MiscUnregisterDone, WaitTimeout, ModuleStep, Rmmod, ModuleFree, Unloaded,
            miscVars, vars
<1> QED
    BY <1>1, <1>2, MiscInvHolds, PTL DEF MiscSpec, ImplementsLife, Life!Spec
=============================================================================
