---------------------------- MODULE NvCharMisc ----------------------------
(***************************************************************************)
(* The miscdevice path of nv_char: nv_char_misc_register and               *)
(* nv_char_misc_unregister against the files of NvCharOpen.  Here the      *)
(* kernel holds misc_mtx around the whole ->open, and misc_register and    *)
(* misc_deregister take it too.                                            *)
(***************************************************************************)
EXTENDS NvCharOpen

CONSTANTS
    NoFile,
    AfterWarning  \* may a device whose last wait was given up be registered again?

ASSUME NoFileAssumption == NoFile \notin File
ASSUME AfterWarningAssumption == AfterWarning \in BOOLEAN

VARIABLE mtx    \* the file whose open(2) holds misc_mtx, or NoFile

miscVars == <<vars, mtx>>

-----------------------------------------------------------------------------
(* Faults, as in NvCharOpen *)

\* The device leaves the list without misc_mtx.
DeregisterUnlocked ==
    /\ DrvGoto("u_hide", "u_enq")
    /\ published' = FALSE
    /\ UNCHANGED <<pc, countVars, removing, registered, buf, timedout, binds, modVars, mtx>>

-----------------------------------------------------------------------------

\* misc_open: misc_mtx, the look-up on misc_list, fops_get and ->open.
MiscOpen(f) ==
    /\ mtx = NoFile
    /\ mtx' = f
    /\ VfsOpen(f)

\* A step of nv_char_misc_open; the mutex is dropped when it returns, with a
\* descriptor or, after nv_char_release_open of a failed open, without.
MiscOpenStep(f) ==
    /\ OpenStep(f) \/ (mtx = f /\ ReleaseStep(f))
    /\ mtx' = IF pc'[f] \in {"open", "fput"} THEN NoFile ELSE mtx

\* nv_char_release runs without the mutex.
MiscReleaseStep(f) ==
    /\ mtx # f
    /\ ReleaseStep(f)
    /\ UNCHANGED mtx

\* The caller allocates dev->priv and registers; descriptors that survived a
\* wait that was given up may still be open.
MiscBind == Bind /\ (timedout => AfterWarning)

\* misc_register, under misc_mtx.
MiscRegister ==
    /\ mtx = NoFile
    /\ DrvGoto("r_publish", "r_finish")
    /\ published' = TRUE
    /\ UNCHANGED <<pc, countVars, removing, registered, buf, timedout, binds, modVars, mtx>>

\* misc_register fails: nothing was published, and a module init that was
\* waiting for it fails too.
MiscRegisterFail ==
    /\ CanFail
    /\ mtx = NoFile
    /\ DrvGoto("r_publish", "free")
    /\ modState' = IF modState = "coming" THEN "going" ELSE modState
    /\ UNCHANGED <<pc, countVars, removing, registered, published, buf, timedout, binds, refcnt, mtx>>

\* misc_deregister, under misc_mtx, before the wait for the descriptors.
MiscDeregister ==
    /\ mtx = NoFile
    /\ DrvGoto("u_hide", "u_enq")
    /\ published' = FALSE
    /\ UNCHANGED <<pc, countVars, removing, registered, buf, timedout, binds, modVars, mtx>>

MiscUnregisterDone ==
    /\ DrvGoto("u_del", "free")
    /\ registered' = FALSE
    /\ UNCHANGED <<pc, countVars, removing, published, buf, timedout, binds, modVars, mtx>>

MiscInit == Init /\ mtx = NoFile

MiscFileStep(f) ==
    \/ MiscOpenStep(f) \/ MiscReleaseStep(f)
    \/ (Fput(f) /\ UNCHANGED mtx)

MiscRegisterStep ==
    (RegisterCommon /\ UNCHANGED mtx) \/ MiscRegister \/ MiscRegisterFail
MiscUnregisterStep ==
    (UnregisterCommon /\ UNCHANGED mtx) \/ MiscDeregister \/ MiscUnregisterDone

MiscNext ==
    \/ \E f \in File : \/ MiscOpen(f) \/ MiscFileStep(f)
                       \/ (UserStep(f) /\ UNCHANGED mtx)
    \/ MiscRegisterStep \/ MiscUnregisterStep
    \/ (MiscBind \/ Unregister \/ WaitTimeout \/ ModuleStep) /\ UNCHANGED mtx

MiscSpec == MiscInit /\ [][MiscNext]_miscVars

\* As for the cdev path; a kernel mutex is handed over to whoever waits for
\* it, hence strong fairness of the steps that take misc_mtx.
MiscFairness ==
    /\ \A f \in File : WF_miscVars(MiscFileStep(f))
    /\ SF_miscVars(MiscRegisterStep)
    /\ SF_miscVars(MiscUnregisterStep)
MiscFairSpec == MiscSpec /\ MiscFairness /\ WF_miscVars(WaitTimeout /\ UNCHANGED mtx)

-----------------------------------------------------------------------------
(* Properties *)

\* misc_mtx is held exactly by the one open(2) in progress, so
\* nv_char_misc_unregister, which sets dev->removing before it takes the mutex,
\* finds no acquire between its second look and its atomic_inc once it waits.
MutexCoversOpen ==
    \A f \in File :
        /\ pc[f] \in EnteringPC => mtx = f
        /\ mtx = f => pc[f] \notin {"closed", "open", "op", "cbrel", "fput"}

\* On the way to misc_register nothing has been published.
FreshPC == {"r_flag", "r_opens", "r_publish"}
\* After the drain.
DrainedPC == {"u_del", "free", "unbound", "gone"}
\* Where the device is off misc_list and no open(2) is on its way in.
ShutPC == {"u_enq", "u_chk", "u_sleep"} \cup DrainedPC \cup FreshPC
ShutIsShut ==
    drv \in ShutPC => ~published /\ \A f \in File : pc[f] \notin EnteringPC

\* Nothing is counted from the drain to the next misc_register, or the wait was
\* given up, and then the device has not been registered again.
DrainHolds ==
    /\ drv \in DrainedPC \cup FreshPC => Counted = {} \/ timedout
    /\ timedout => drv \in DrainedPC /\ binds # 0
    /\ binds = 0 => drv \in {"unbound", "gone"}

\* An unregister that sleeps in its drain has an entry on release_wq, and once
\* nothing is counted that entry has been woken or is about to be.
SleeperIsWoken ==
    /\ drv \in {"u_chk", "u_sleep"} => waiter # "none"
    /\ drv = "u_sleep" /\ opens = 0 =>
           waiter = "woken" \/ \E f \in File : pc[f] = "wake"

\* The inductive invariant of a misc device, however often it is registered,
\* unless a registration follows a wait that was given up.
MiscInv ==
    /\ ModuleInv
    /\ mtx \in File \cup {NoFile}
    /\ MutexCoversOpen
    /\ OpensCountsFds
    /\ ShutIsShut
    /\ DrainHolds
    /\ SleeperIsWoken
    /\ PrivFreedLast

\* Once the misc device is off the list no new descriptor is ever counted.
NoGhostOpen ==
    [][(drv \in {"u_enq", "u_chk", "u_sleep", "u_del", "free"})
          => Counted' \subseteq Counted]_miscVars

miscPhase ==
    IF drv \in {"r_finish", "bound", "u_flag", "u_hide"} THEN "live"
    ELSE IF timedout THEN "abandoned"
    ELSE IF drv \in {"u_enq", "u_chk", "u_sleep", "u_del"} THEN "closing" ELSE "dead"

Life == INSTANCE NvCharLife WITH users <- Counted, phase <- miscPhase

\* The misc path implements the lifetime promise of NvCharLife even when the
\* device is unregistered and registered again while the module stays loaded.
ImplementsLife == Life!Spec
=============================================================================
