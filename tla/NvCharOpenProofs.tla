-------------------------- MODULE NvCharOpenProofs --------------------------
(***************************************************************************)
(* The steps of NvCharOpen keep RefInv, whichever path they belong to, and  *)
(* on the misc path ModuleInv.                                             *)
(* The actions move one file between program points, so RefcntExact needs  *)
(* to know how the cardinality of FilesAt changes: that is what the first  *)
(* lemmas say.                                                             *)
(***************************************************************************)
EXTENDS NvCharOpen, FiniteSetTheorems, TLAPS

-----------------------------------------------------------------------------
(* Counting the files at a set of program points *)

\* The files at some program points are finitely many.
LEMMA FilesAtFinite ==
    ASSUME NEW p, NEW S
    PROVE  IsFiniteSet(FilesAt(p, S)) /\ Cardinality(FilesAt(p, S)) \in Nat
<1>1. FilesAt(p, S) \subseteq File
    BY DEF FilesAt
<1>2. IsFiniteSet(FilesAt(p, S))
    BY <1>1, ConstAssumption, FS_Subset
<1> QED
    BY <1>2, FS_CardinalityType

\* q is p with the thread of f moved to l.
Moves(p, q, f, l) == p \in [File -> FilePC] /\ q = [p EXCEPT ![f] = l]

\* A file that moves into S adds one to the count.
LEMMA MoveIn ==
    ASSUME NEW p, NEW q, NEW f \in File, NEW l, NEW S, Moves(p, q, f, l),
           p[f] \notin S, l \in S
    PROVE  Cardinality(FilesAt(q, S)) = Cardinality(FilesAt(p, S)) + 1
<1>1. FilesAt(q, S) = FilesAt(p, S) \cup {f}
    BY DEF FilesAt, Moves
<1>2. f \notin FilesAt(p, S)
    BY DEF FilesAt
<1> QED
    BY <1>1, <1>2, FilesAtFinite, FS_AddElement

\* A file that moves out of S takes one from the count.
LEMMA MoveOut ==
    ASSUME NEW p, NEW q, NEW f \in File, NEW l, NEW S, Moves(p, q, f, l),
           p[f] \in S, l \notin S
    PROVE  Cardinality(FilesAt(q, S)) = Cardinality(FilesAt(p, S)) - 1
<1>1. FilesAt(q, S) = FilesAt(p, S) \ {f}
    BY DEF FilesAt, Moves
<1>2. f \in FilesAt(p, S)
    BY DEF FilesAt
<1> QED
    BY <1>1, <1>2, FilesAtFinite, FS_RemoveElement

\* Any other move leaves the set of files at S as it was.
LEMMA MoveAside ==
    ASSUME NEW p, NEW q, NEW f \in File, NEW l, NEW S, Moves(p, q, f, l),
           (p[f] \in S /\ l \in S) \/ (p[f] \notin S /\ l \notin S)
    PROVE  FilesAt(q, S) = FilesAt(p, S)
BY DEF FilesAt, Moves

\* Every counter of files is a natural number.
LEMMA HoldersNat ==
    Cardinality(VfsHolders) \in Nat /\ Cardinality(OwnerHolders) \in Nat
BY FilesAtFinite DEF VfsHolders, OwnerHolders

\* The holders after a step are those of the next pc.
LEMMA HoldersNext ==
    /\ VfsHolders' = FilesAt(pc', FilePC \ {"closed"})
    /\ OwnerHolders' = FilesAt(pc', OwnerPC)
BY DEF VfsHolders, OwnerHolders, FilesAt

-----------------------------------------------------------------------------
(* The steps of a file *)

\* A step between two program points of an open file keeps RefInv when it
\* takes a reference exactly on entering OwnerPC and drops it on leaving.
LEMMA FileMoveKeeps ==
    ASSUME RefInv, NEW f \in File, NEW l \in FilePC \ {"closed"},
           pc[f] # "closed", Goto(f, l),
           refcnt' = refcnt + (IF l \in OwnerPC THEN 1 ELSE 0)
                            - (IF pc[f] \in OwnerPC THEN 1 ELSE 0),
           opens' \in Int, waiter' \in {"none", "queued", "woken"},
           UNCHANGED <<bindVars, modState>>
    PROVE  RefInv'
<1>1. Moves(pc, pc', f, l)
    BY DEF Moves, RefInv, TypeOK, Goto
<1>3. Cardinality(VfsHolders)' = Cardinality(VfsHolders)
    <2>1. pc[f] \in FilePC \ {"closed"}
        BY DEF RefInv, TypeOK
    <2>2. FilesAt(pc', FilePC \ {"closed"}) = FilesAt(pc, FilePC \ {"closed"})
        BY <1>1, <2>1, MoveAside
    <2> QED
        BY <2>2, HoldersNext DEF VfsHolders
<1>4. Cardinality(OwnerHolders)' = Cardinality(OwnerHolders)
          + (IF l \in OwnerPC THEN 1 ELSE 0) - (IF pc[f] \in OwnerPC THEN 1 ELSE 0)
    <2>1. CASE \/ l \in OwnerPC /\ pc[f] \in OwnerPC
               \/ l \notin OwnerPC /\ pc[f] \notin OwnerPC
        <3>1. FilesAt(pc', OwnerPC) = FilesAt(pc, OwnerPC)
            BY <1>1, <2>1, MoveAside
        <3>2. OwnerHolders' = OwnerHolders
            BY <3>1, HoldersNext DEF OwnerHolders
        <3> QED
            BY <2>1, <3>2, HoldersNat
    <2>2. CASE l \in OwnerPC /\ pc[f] \notin OwnerPC
        BY <1>1, <2>2, MoveIn, HoldersNat, HoldersNext DEF OwnerHolders
    <2>3. CASE l \notin OwnerPC /\ pc[f] \in OwnerPC
        BY <1>1, <2>3, MoveOut, HoldersNat, HoldersNext DEF OwnerHolders
    <2> QED
        BY <2>1, <2>2, <2>3
<1>5. RefcntExact'
    BY <1>3, <1>4, HoldersNat DEF RefInv, TypeOK, RefcntExact
<1>6. TypeOK'
    <2>1. refcnt' \in Nat
        BY <1>5, FilesAtFinite DEF RefcntExact, VfsHolders, OwnerHolders
    <2> QED
        BY <1>1, <2>1 DEF Moves, RefInv, TypeOK, bindVars
<1> QED
    BY <1>5, <1>6 DEF RefInv

\* The module is pinned for a new struct file.
LEMMA VfsOpenKeeps ==
    ASSUME RefInv, NEW f \in File, VfsOpen(f)
    PROVE  RefInv'
<1>1. Moves(pc, pc', f, "chk1") /\ pc[f] = "closed"
    BY DEF Moves, RefInv, TypeOK, VfsOpen, Goto
<1>2. Cardinality(VfsHolders)' = Cardinality(VfsHolders) + 1
    <2>1. pc[f] \notin FilePC \ {"closed"} /\ "chk1" \in FilePC \ {"closed"}
        BY <1>1 DEF FilePC
    <2>2. Cardinality(FilesAt(pc', FilePC \ {"closed"})) = Cardinality(VfsHolders) + 1
        BY <1>1, <2>1, MoveIn DEF VfsHolders
    <2> QED
        BY <2>2, HoldersNext
<1>3. Cardinality(OwnerHolders)' = Cardinality(OwnerHolders)
    <2>1. pc[f] \notin OwnerPC /\ "chk1" \notin OwnerPC
        BY <1>1 DEF OwnerPC, AcquiringPC, CountedPC, ReleasingPC
    <2>2. FilesAt(pc', OwnerPC) = FilesAt(pc, OwnerPC)
        BY <1>1, <2>1, MoveAside
    <2> QED
        BY <2>2, HoldersNext DEF OwnerHolders
<1>4. RefcntExact'
    BY <1>2, <1>3, HoldersNat DEF RefInv, TypeOK, RefcntExact, VfsOpen
<1>5. TypeOK'
    BY <1>1 DEF Moves, RefInv, TypeOK, VfsOpen, FilePC, countVars, bindVars
<1> QED
    BY <1>4, <1>5 DEF RefInv

\* The last put of a struct file.
LEMMA FputKeeps ==
    ASSUME RefInv, NEW f \in File, Fput(f)
    PROVE  RefInv'
<1>1. Moves(pc, pc', f, "closed") /\ pc[f] = "fput"
    BY DEF Moves, RefInv, TypeOK, Fput, Goto
<1>2. Cardinality(VfsHolders)' = Cardinality(VfsHolders) - 1
    <2>1. pc[f] \in FilePC \ {"closed"} /\ "closed" \notin FilePC \ {"closed"}
        BY <1>1 DEF FilePC
    <2>2. Cardinality(FilesAt(pc', FilePC \ {"closed"})) = Cardinality(VfsHolders) - 1
        BY <1>1, <2>1, MoveOut DEF VfsHolders
    <2> QED
        BY <2>2, HoldersNext
<1>3. Cardinality(OwnerHolders)' = Cardinality(OwnerHolders)
    <2>1. pc[f] \notin OwnerPC /\ "closed" \notin OwnerPC
        BY <1>1 DEF OwnerPC, AcquiringPC, CountedPC, ReleasingPC
    <2>2. Moves(pc, pc', f, "closed")
        BY <1>1
    <2>3. FilesAt(pc', OwnerPC) = FilesAt(pc, OwnerPC)
        BY <2>1, <2>2, MoveAside
    <2> QED
        BY <2>3, HoldersNext DEF OwnerHolders
<1>4. RefcntExact'
    BY <1>2, <1>3, HoldersNat DEF RefInv, TypeOK, RefcntExact, Fput
<1>5. TypeOK'
    <2>1. refcnt' \in Nat
        BY <1>4, FilesAtFinite DEF RefcntExact, VfsHolders, OwnerHolders
    <2> QED
        BY <1>1, <2>1 DEF Moves, RefInv, TypeOK, Fput, FilePC, countVars, bindVars
<1> QED
    BY <1>4, <1>5 DEF RefInv

\* nv_char_acquire_open and the open callback take one reference at most, and
\* the failed second look leaves it to ModulePut.
LEMMA OpenStepKeeps ==
    ASSUME RefInv, NEW f \in File, OpenStep(f)
    PROVE  RefInv'
<1> USE DEF FilePC, OwnerPC, AcquiringPC, CountedPC, ReleasingPC
<1>0. opens \in Int /\ waiter \in {"none", "queued", "woken"} /\ refcnt \in Nat
    BY DEF RefInv, TypeOK
<1>1. CASE CheckRemoving(f)
    BY <1>0, <1>1, FileMoveKeeps DEF CheckRemoving, countVars, modVars
<1>2. CASE TryModuleGet(f)
    BY <1>0, <1>2, FileMoveKeeps DEF TryModuleGet, countVars
<1>3. CASE RecheckRemoving(f)
    BY <1>0, <1>3, FileMoveKeeps DEF RecheckRemoving, countVars, modVars
<1>4. CASE IncOpens(f)
    BY <1>0, <1>4, FileMoveKeeps DEF IncOpens, modVars
<1>5. CASE OpenCallback(f)
    BY <1>0, <1>5, FileMoveKeeps DEF OpenCallback, countVars, modVars
<1> QED
    BY <1>1, <1>2, <1>3, <1>4, <1>5 DEF OpenStep

\* nv_char_release drops the one reference, in ModulePut.
LEMMA ReleaseStepKeeps ==
    ASSUME RefInv, NEW f \in File, ReleaseStep(f)
    PROVE  RefInv'
<1> USE DEF FilePC, OwnerPC, AcquiringPC, CountedPC, ReleasingPC
<1>0. opens \in Int /\ waiter \in {"none", "queued", "woken"} /\ refcnt \in Nat
    BY DEF RefInv, TypeOK
<1>1. CASE ReleaseCallback(f)
    BY <1>0, <1>1, FileMoveKeeps DEF ReleaseCallback, countVars, modVars
<1>2. CASE DecOpens(f)
    BY <1>0, <1>2, FileMoveKeeps DEF DecOpens, modVars
<1>3. CASE WakeRelease(f)
    BY <1>0, <1>3, FileMoveKeeps DEF WakeRelease, modVars
<1>4. CASE ModulePut(f)
    BY <1>0, <1>4, FileMoveKeeps DEF ModulePut, countVars
<1> QED
    BY <1>1, <1>2, <1>3, <1>4 DEF ReleaseStep

\* File operations and close(2) move a counted file only.
LEMMA UserStepKeeps ==
    ASSUME RefInv, NEW f \in File, UserStep(f)
    PROVE  RefInv'
<1> USE DEF FilePC, OwnerPC, AcquiringPC, CountedPC, ReleasingPC
<1>0. opens \in Int /\ waiter \in {"none", "queued", "woken"} /\ refcnt \in Nat
    BY DEF RefInv, TypeOK
<1>1. CASE StartOp(f)
    BY <1>0, <1>1, FileMoveKeeps DEF StartOp, countVars, modVars
<1>2. CASE EndOp(f)
    BY <1>0, <1>2, FileMoveKeeps DEF EndOp, countVars, modVars
<1>3. CASE Close(f)
    BY <1>0, <1>3, FileMoveKeeps DEF Close, countVars, modVars
<1> QED
    BY <1>1, <1>2, <1>3 DEF UserStep

-----------------------------------------------------------------------------
(* The steps of the registering thread and of the module loader *)

\* rmmod goes ahead with no reference left, hence with no file.
LEMMA NoReferenceNoFile ==
    ASSUME RefInv, refcnt = 0
    PROVE  \A f \in File : pc[f] = "closed"
<1>1. Cardinality(VfsHolders) = 0
    BY HoldersNat DEF RefInv, RefcntExact
<1>2. VfsHolders = {}
    BY <1>1, FilesAtFinite, FS_EmptySet DEF VfsHolders
<1> QED
    BY <1>2 DEF RefInv, TypeOK, VfsHolders, FilesAt

\* A step that moves no file and no reference keeps RefInv when it keeps the
\* types.
LEMMA DriverMoveKeeps ==
    ASSUME RefInv, UNCHANGED <<pc, refcnt>>, TypeOK'
    PROVE  RefInv'
<1>1. VfsHolders' = VfsHolders /\ OwnerHolders' = OwnerHolders
    BY DEF VfsHolders, OwnerHolders, FilesAt
<1> QED
    BY <1>1 DEF RefInv, RefcntExact

\* The common part of a registration, and its begin.
LEMMA RegisterKeeps ==
    ASSUME RefInv, Bind \/ RegisterCommon
    PROVE  RefInv'
<1> USE DEF RefInv, TypeOK, DrvGoto, countVars,
            modVars, DrvPC, RegPC, UnregPC
<1>1. CASE Bind
    BY <1>1, ConstAssumption, DriverMoveKeeps DEF Bind
<1>2. CASE RegisterClearRemoving
    BY <1>2, DriverMoveKeeps DEF RegisterClearRemoving
<1>3. CASE RegisterResetOpens
    BY <1>3, DriverMoveKeeps DEF RegisterResetOpens
<1>4. CASE RegisterDone
    BY <1>4, DriverMoveKeeps DEF RegisterDone
<1> QED
    BY <1>1, <1>2, <1>3, <1>4 DEF RegisterCommon

\* The common part of an unregistration.
LEMMA UnregisterKeeps ==
    ASSUME RefInv, Unregister \/ UnregisterCommon \/ WaitTimeout
    PROVE  RefInv'
<1> USE DEF RefInv, TypeOK, DrvGoto, countVars,
            modVars, DrvPC, RegPC, UnregPC
<1>1. CASE Unregister
    BY <1>1, DriverMoveKeeps DEF Unregister
<1>2. CASE SetRemoving
    BY <1>2, DriverMoveKeeps DEF SetRemoving
<1>3. CASE WaitEnqueue
    BY <1>3, DriverMoveKeeps DEF WaitEnqueue
<1>4. CASE WaitTest
    BY <1>4, DriverMoveKeeps DEF WaitTest
<1>5. CASE WaitWoken
    BY <1>5, DriverMoveKeeps DEF WaitWoken
<1>6. CASE WaitTimeout
    BY <1>6, DriverMoveKeeps DEF WaitTimeout
<1>7. CASE FreePriv
    BY <1>7, DriverMoveKeeps DEF FreePriv
<1> QED
    BY <1>1, <1>2, <1>3, <1>4, <1>5, <1>6, <1>7 DEF UnregisterCommon

\* The module loader leaves the references alone.
LEMMA ModuleStepKeeps ==
    ASSUME RefInv, ModuleStep
    PROVE  RefInv'
<1> USE DEF RefInv, TypeOK, DrvGoto, countVars,
            bindVars, modVars, vars, DrvPC
<1>1. CASE Rmmod
    BY <1>1, DriverMoveKeeps DEF Rmmod
<1>2. CASE ModuleFree
    BY <1>2, DriverMoveKeeps DEF ModuleFree
<1>3. CASE Unloaded
    BY <1>3, DriverMoveKeeps DEF Unloaded
<1> QED
    BY <1>1, <1>2, <1>3 DEF ModuleStep

\* Nobody has the device open when the module is loaded.
LEMMA InitRefInv ==
    ASSUME Init
    PROVE  RefInv
<1>1. VfsHolders = {} /\ OwnerHolders = {}
    BY DEF Init, VfsHolders, OwnerHolders, FilesAt, OwnerPC, AcquiringPC,
           CountedPC, ReleasingPC
<1>2. RefcntExact
    BY <1>1, FS_EmptySet DEF Init, RefcntExact
<1>3. TypeOK
    <2>1. pc \in [File -> FilePC]
        BY DEF Init, FilePC
    <2>2. drv \in DrvPC
        BY DEF Init, DrvPC
    <2>3. 0 \in 0..MaxBinds
        BY ConstAssumption
    <2>4. opens \in Int /\ refcnt \in Nat /\ binds \in 0..MaxBinds
        BY <2>3 DEF Init
    <2> QED
        BY <2>1, <2>2, <2>4, Zenon DEF Init, TypeOK
<1> QED
    BY <1>2, <1>3 DEF RefInv

-----------------------------------------------------------------------------
(* The open count *)

\* What every step of a file f that goes to l has in common: dev->opens counts
\* the crossings of CountedPC and only chrdev_open or misc_open brings a file in.
FileShape(f, l) ==
    /\ Goto(f, l)
    /\ UNCHANGED bindVars
    /\ \/ pc[f] = "inc" /\ l = "cbopen" /\ opens' = opens + 1
       \/ pc[f] = "dec" /\ l \notin CountedPC /\ opens' = opens - 1
       \/ pc[f] \in CountedPC /\ l \in CountedPC /\ opens' = opens
       \/ pc[f] \notin CountedPC /\ l \notin CountedPC /\ opens' = opens
    /\ l \in EnteringPC => pc[f] \in EnteringPC \/ (pc[f] = "closed" /\ published)
    /\ pc[f] = "closed" => published

\* Every step of a file has that shape.
LEMMA FileStepShape ==
    ASSUME NEW f \in File,
           VfsOpen(f) \/ OpenStep(f) \/ ReleaseStep(f) \/ UserStep(f) \/ Fput(f)
    PROVE  \E l \in FilePC : FileShape(f, l)
<1> USE DEF FileShape, FilePC, OwnerPC, EnteringPC, AcquiringPC, CountedPC,
            ReleasingPC, countVars
<1>1. CASE VfsOpen(f)
    BY <1>1 DEF VfsOpen
<1>2. CASE OpenStep(f)
    BY <1>2 DEF OpenStep, CheckRemoving, TryModuleGet, RecheckRemoving, IncOpens,
                OpenCallback
<1>3. CASE ReleaseStep(f)
    BY <1>3 DEF ReleaseStep, ReleaseCallback, DecOpens, WakeRelease, ModulePut
<1>4. CASE UserStep(f)
    BY <1>4 DEF UserStep, StartOp, EndOp, Close
<1>5. CASE Fput(f)
    BY <1>5 DEF Fput
<1> QED
    BY <1>1, <1>2, <1>3, <1>4, <1>5

\* The counted files after a step.
LEMMA CountedNext == Counted' = FilesAt(pc', CountedPC)
BY DEF Counted, FilesAt

\* What a step of a file does to the set of counted files.
LEMMA CountedShape ==
    ASSUME TypeOK, NEW f \in File, NEW l \in FilePC, FileShape(f, l)
    PROVE  \/ pc[f] = "inc" /\ l = "cbopen" /\ Counted' = Counted \cup {f}
           \/ pc[f] = "dec" /\ Counted' = Counted \ {f}
           \/ Counted' = Counted
BY DEF TypeOK, FileShape, Goto, Counted, FilesAt, CountedPC

\* A step of a file keeps dev->opens exact.
LEMMA OpensShape ==
    ASSUME TypeOK, OpensCountsFds, NEW f \in File, NEW l \in FilePC, FileShape(f, l)
    PROVE  OpensCountsFds'
<1>1. Moves(pc, pc', f, l)
    BY DEF Moves, TypeOK, FileShape, Goto
<1>2. Cardinality(Counted) \in Nat
    BY FilesAtFinite DEF Counted
<1>3. CASE pc[f] = "inc" /\ l = "cbopen" /\ opens' = opens + 1
    <2>1. pc[f] \notin CountedPC /\ l \in CountedPC
        BY <1>3 DEF CountedPC
    <2>2. Cardinality(Counted)' = Cardinality(Counted) + 1
        <3>1. Cardinality(FilesAt(pc', CountedPC)) = Cardinality(FilesAt(pc, CountedPC)) + 1
            BY <1>1, <2>1, MoveIn
        <3> QED
            BY <3>1, CountedNext DEF Counted
    <2> QED
        BY <1>2, <1>3, <2>2 DEF OpensCountsFds
<1>4. CASE pc[f] = "dec" /\ l \notin CountedPC /\ opens' = opens - 1
    <2>1. pc[f] \in CountedPC
        BY <1>4 DEF CountedPC
    <2>2. Cardinality(Counted)' = Cardinality(Counted) - 1
        BY <1>1, <1>4, <2>1, MoveOut, CountedNext DEF Counted
    <2> QED
        BY <1>2, <1>4, <2>2 DEF OpensCountsFds
<1>5. CASE /\ \/ pc[f] \in CountedPC /\ l \in CountedPC
              \/ pc[f] \notin CountedPC /\ l \notin CountedPC
           /\ opens' = opens
    <2>1. FilesAt(pc', CountedPC) = FilesAt(pc, CountedPC)
        BY <1>1, <1>5, MoveAside
    <2>2. Counted' = Counted
        BY <2>1, CountedNext DEF Counted
    <2> QED
        BY <1>5, <2>2 DEF OpensCountsFds
<1> QED
    BY <1>3, <1>4, <1>5 DEF FileShape

\* No step of a file but the wake-up of nv_char_release_open touches the wait
\* queue, and none removes a wake-up that is due or moves the module's state.
LEMMA FileWakes ==
    ASSUME TypeOK, NEW f \in File,
           VfsOpen(f) \/ OpenStep(f) \/ ReleaseStep(f) \/ UserStep(f) \/ Fput(f)
    PROVE  /\ waiter' \in {waiter, "woken"}
           /\ pc[f] = "wake" /\ waiter = "queued" => waiter' = "woken"
           /\ pc[f] = "dec" /\ opens = 1 => pc'[f] = "wake"
           /\ pc[f] = "open" /\ removing => pc'[f] # "op"
           /\ pc'[f] = "op" => pc[f] = "open"
           /\ \A g \in File \ {f} : pc'[g] = pc[g]
           /\ modState' = modState
<1> USE DEF TypeOK, Goto, countVars, modVars
<1>1. CASE VfsOpen(f)
    BY <1>1 DEF VfsOpen
<1>2. CASE OpenStep(f)
    BY <1>2 DEF OpenStep, CheckRemoving, TryModuleGet, RecheckRemoving, IncOpens,
                OpenCallback
<1>3. CASE ReleaseCallback(f) \/ ModulePut(f) \/ Fput(f)
    BY <1>3 DEF ReleaseCallback, ModulePut, Fput
<1>4. CASE DecOpens(f)
    BY <1>4 DEF DecOpens
<1>5. CASE WakeRelease(f)
    BY <1>5 DEF WakeRelease
<1>6. CASE UserStep(f)
    BY <1>6 DEF UserStep, StartOp, EndOp, Close
<1> QED
    BY <1>1, <1>2, <1>3, <1>4, <1>5, <1>6 DEF ReleaseStep

\* With no file moved, the counted files stay.
LEMMA CountedAside ==
    ASSUME UNCHANGED pc
    PROVE  Counted' = Counted
BY DEF Counted, FilesAt

\* No file is counted when opens is zero.
LEMMA NoneCounted ==
    ASSUME OpensCountsFds, opens = 0
    PROVE  Counted = {}
<1>1. Cardinality(Counted) = 0
    BY DEF OpensCountsFds
<1> QED
    BY <1>1, FilesAtFinite, FS_EmptySet DEF Counted
=============================================================================
