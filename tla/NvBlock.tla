------------------------------ MODULE NvBlock ------------------------------
(***************************************************************************)
(* nv_block and the RAM disk nv_block_ram: a disk that is registered by    *)
(* module init and unregistered by module exit, and the bios that threads  *)
(* with an open block device submit to it.  A bio is a run of segments, a  *)
(* sector each, copied one at a time under priv->lock; the copy of a       *)
(* sector is two steps.  The block_device_operations name no owner, so     *)
(* rmmod asks nobody, and what keeps a bio out of freed memory is the wait *)
(* in del_gendisk.                                                         *)
(***************************************************************************)
EXTENDS Integers

CONSTANTS
    Bio,        \* the threads that do I/O, one bio each at a time
    Sectors,    \* priv->sectors, and the capacity of the disk
    Blank,      \* no bio: what a sector holds before the first write
    Nobody      \* no bio: the spinlock is free

ASSUME BlockAssumption ==
    /\ Sectors \in Nat \ {0}
    /\ Blank \notin Bio
    /\ Nobody \notin Bio

VARIABLES
    at,         \* where ram_init or ram_exit is
    data,       \* priv->data: is it allocated?
    table,      \* drv->devices: is it allocated?
    slot,       \* is the disk's entry in drv->devices set?
    disk,       \* dev->disk
    registered, \* dev->registered
    sect,       \* the two halves of each sector: who wrote them
    lock,       \* the holder of priv->lock
    pc,         \* where the thread of each bio is
    bio,        \* what is left of the bio
    buf         \* the sector a reading bio has copied

loadVars == <<at, data, table, slot, disk, registered>>
ioVars == <<sect, lock, bio, buf>>
vars == <<loadVars, ioVars, pc>>

Sector == 0..(Sectors - 1)
Whole(v) == [h \in 1..2 |-> v]

NoBio == [write |-> FALSE, from |-> 0, left |-> 0]
Requests == { r \in [write : BOOLEAN, from : Sector, left : 1..Sectors] :
                r.from + r.left <= Sectors }    \* bio_check_eod
Goto(b, l) == pc' = [pc EXCEPT ![b] = l]

\* Between bio_queue_enter and blk_queue_exit, and within the driver.
InQueuePC == {"seg", "half", "rest", "unlock", "end"}
InQueue == {b \in Bio : pc[b] \in InQueuePC}

Init ==
    /\ at = "out"
    /\ data = FALSE /\ table = FALSE
    /\ slot = FALSE /\ registered = FALSE
    /\ disk = "null"
    /\ sect = [s \in Sector |-> Whole(Blank)]
    /\ lock = Nobody
    /\ pc = [b \in Bio |-> "closed"]
    /\ bio = [b \in Bio |-> NoBio]
    /\ buf = [b \in Bio |-> Whole(Blank)]

-----------------------------------------------------------------------------
\* Loading.  Every step may fail, and the error path takes back what is there.

AllocData ==
    /\ at = "out"
    /\ at' = "drv"
    /\ data' = TRUE
    /\ sect' = [s \in Sector |-> Whole(Blank)]
    /\ UNCHANGED <<table, slot, disk, registered, lock, pc, bio, buf>>

\* The error return of nv_block_driver_register forgets err_data.
DriverRegisterLeaks ==
    /\ at = "drv"
    /\ \/ table' = TRUE /\ at' = "alloc"
       \/ at' = "out" /\ UNCHANGED table
    /\ UNCHANGED <<data, slot, disk, registered, ioVars, pc>>

DriverRegister ==
    /\ at = "drv"
    /\ \/ table' = TRUE /\ at' = "alloc"
       \/ at' = "x_data" /\ UNCHANGED table
    /\ UNCHANGED <<data, slot, disk, registered, ioVars, pc>>

\* dev->disk keeps the error pointer when there is no memory.
AllocDisk ==
    /\ at = "alloc"
    /\ \/ disk' = "allocated" /\ at' = "add"
       \/ disk' = "error" /\ at' = "x_drv"
    /\ UNCHANGED <<data, table, slot, registered, ioVars, pc>>

\* From here on the disk can be opened.
AddDisk ==
    /\ at = "add"
    /\ \/ disk' = "added" /\ at' = "slot"
       \/ disk' = "null" /\ at' = "x_drv"
    /\ UNCHANGED <<data, table, slot, registered, ioVars, pc>>

FillSlot ==
    /\ at = "slot"
    /\ at' = "live"
    /\ slot' = TRUE
    /\ registered' = TRUE
    /\ UNCHANGED <<data, table, disk, ioVars, pc>>

-----------------------------------------------------------------------------
\* Unloading.  ram_exit unregisters its disk itself; another module may leave
\* that to nv_block_driver_unregister.

Rmmod ==
    /\ at = "live"
    /\ at' \in {"x_slot", "x_drv"}
    /\ UNCHANGED <<data, table, slot, disk, registered, ioVars, pc>>

ClearSlot ==
    /\ at = "x_slot"
    /\ at' = "x_dead"
    /\ slot' = FALSE
    /\ UNCHANGED <<data, table, disk, registered, ioVars, pc>>

\* del_gendisk, first half: no bio enters any more.
MarkDead ==
    /\ at = "x_dead"
    /\ at' = "x_wait"
    /\ disk' = "dead"
    /\ pc' = [b \in Bio |-> IF pc[b] = "open" THEN "stale" ELSE pc[b]]
    /\ UNCHANGED <<data, table, slot, registered, ioVars>>

\* del_gendisk without the wait.
FrozenAtOnce ==
    /\ at = "x_wait"
    /\ at' = "x_put"
    /\ UNCHANGED <<data, table, slot, disk, registered, ioVars, pc>>

\* del_gendisk, second half: the queue is frozen when the last bio has left.
QueueFrozen ==
    /\ at = "x_wait"
    /\ InQueue = {}
    /\ at' = "x_put"
    /\ UNCHANGED <<data, table, slot, disk, registered, ioVars, pc>>

PutDisk ==
    /\ at = "x_put"
    /\ at' = "x_drv"
    /\ disk' = "null"
    /\ registered' = FALSE
    /\ UNCHANGED <<data, table, slot, ioVars, pc>>

\* The table is freed without a look at its entries.
DriverUnregisterForgets ==
    /\ at = "x_drv"
    /\ at' = "x_data"
    /\ table' = FALSE
    /\ UNCHANGED <<data, slot, disk, registered, ioVars, pc>>

\* A disk that is still in the table is unregistered before the table goes.
DriverUnregister ==
    /\ at = "x_drv"
    /\ IF slot THEN at' = "x_slot" /\ UNCHANGED table
               ELSE at' = "x_data" /\ table' = FALSE
    /\ UNCHANGED <<data, slot, disk, registered, ioVars, pc>>

FreeData ==
    /\ at = "x_data"
    /\ at' = "out"
    /\ data' = FALSE
    /\ disk' = "null"   \* dev went with the module
    /\ sect' = [s \in Sector |-> Whole(Blank)]
    /\ UNCHANGED <<table, slot, registered, lock, bio, buf, pc>>

-----------------------------------------------------------------------------
\* I/O.

Open(b) ==
    /\ pc[b] = "closed"
    /\ disk = "added"
    /\ Goto(b, "open")
    /\ UNCHANGED <<loadVars, ioVars>>

\* nv_block_release runs at any time, after the exit of the module too.
Close(b) ==
    /\ pc[b] \in {"open", "stale"}
    /\ Goto(b, "closed")
    /\ UNCHANGED <<loadVars, ioVars>>

\* bio_queue_enter lets the bio in; on a stale descriptor it fails there.
Submit(b) ==
    /\ pc[b] = "open"
    /\ bio' \in { [bio EXCEPT ![b] = r] : r \in Requests }
    /\ Goto(b, "seg")
    /\ UNCHANGED <<loadVars, sect, lock, buf>>

\* The next segment, without the spinlock.
NextSegmentUnlocked(b) ==
    /\ pc[b] = "seg"
    /\ data
    /\ bio[b].left > 0
    /\ bio[b].from + 1 <= Sectors
    /\ lock' = b
    /\ Goto(b, "half")
    /\ UNCHANGED <<loadVars, sect, bio, buf>>

\* The next segment, unless the bio is through or goes past the end.
NextSegment(b) ==
    /\ pc[b] = "seg"
    /\ data
    /\ bio[b].left > 0
    /\ bio[b].from + 1 <= Sectors
    /\ lock = Nobody
    /\ lock' = b
    /\ Goto(b, "half")
    /\ UNCHANGED <<loadVars, sect, bio, buf>>

\* memcpy between the sector and the segment's page, in two parts.
CopyPart(b, h) ==
    LET s == bio[b].from IN
    IF bio[b].write
    THEN sect' = [sect EXCEPT ![s][h] = b] /\ UNCHANGED buf
    ELSE buf' = [buf EXCEPT ![b][h] = sect[s][h]] /\ UNCHANGED sect

CopyHalf(b) ==
    /\ pc[b] = "half"
    /\ CopyPart(b, 1)
    /\ Goto(b, "rest")
    /\ UNCHANGED <<loadVars, lock, bio>>

CopyRest(b) ==
    /\ pc[b] = "rest"
    /\ CopyPart(b, 2)
    /\ Goto(b, "unlock")
    /\ UNCHANGED <<loadVars, lock, bio>>

\* The loop over the segments does not advance.
DropLockStays(b) ==
    /\ pc[b] = "unlock"
    /\ lock' = Nobody
    /\ buf' = [buf EXCEPT ![b] = Whole(Blank)]
    /\ Goto(b, "seg")
    /\ UNCHANGED <<loadVars, sect, bio>>

DropLock(b) ==
    /\ pc[b] = "unlock"
    /\ lock' = Nobody
    /\ bio' = [bio EXCEPT ![b] =
           [write |-> @.write, from |-> @.from + 1, left |-> @.left - 1]]
    /\ buf' = [buf EXCEPT ![b] = Whole(Blank)]
    /\ Goto(b, "seg")
    /\ UNCHANGED <<loadVars, sect>>

\* ram_submit_bio returns, with BLK_STS_IOERR if there is no buffer or the
\* segment is out of range.
SubmitReturns(b) ==
    /\ pc[b] = "seg"
    /\ ~data \/ bio[b].left = 0 \/ bio[b].from + 1 > Sectors
    /\ Goto(b, "end")
    /\ UNCHANGED <<loadVars, ioVars>>

\* bio_endio, and out of the queue.
EndBio(b) ==
    /\ pc[b] = "end"
    /\ bio' = [bio EXCEPT ![b] = NoBio]
    /\ Goto(b, IF disk = "added" THEN "open" ELSE "stale")
    /\ UNCHANGED <<loadVars, sect, lock, buf>>

-----------------------------------------------------------------------------
LoaderStep ==
    \/ DriverRegister \/ AllocDisk \/ AddDisk \/ FillSlot
    \/ ClearSlot \/ MarkDead \/ QueueFrozen \/ PutDisk
    \/ DriverUnregister \/ FreeData

BioStep(b) ==
    NextSegment(b) \/ CopyHalf(b) \/ CopyRest(b) \/ DropLock(b)
        \/ SubmitReturns(b) \/ EndBio(b)

Next ==
    \/ AllocData \/ Rmmod \/ LoaderStep
    \/ \E b \in Bio : Open(b) \/ Close(b) \/ Submit(b) \/ BioStep(b)

Spec == Init /\ [][Next]_vars

\* A kernel thread runs on, and the spinlock is a fair one.
Fairness ==
    /\ WF_vars(LoaderStep)
    /\ \A b \in Bio : WF_vars(BioStep(b)) /\ SF_vars(NextSegment(b))

FairSpec == Spec /\ Fairness

-----------------------------------------------------------------------------
AtPC == {"out", "drv", "alloc", "add", "slot", "live",
         "x_slot", "x_dead", "x_wait", "x_put", "x_drv", "x_data"}
Half == Bio \cup {Blank}

TypeOK ==
    /\ at \in AtPC
    /\ data \in BOOLEAN /\ table \in BOOLEAN
    /\ slot \in BOOLEAN /\ registered \in BOOLEAN
    /\ disk \in {"null", "error", "allocated", "added", "dead"}
    /\ sect \in [Sector -> [1..2 -> Half]]
    /\ lock \in Bio \cup {Nobody}
    /\ pc \in [Bio -> {"closed", "open", "stale"} \cup InQueuePC]
    /\ bio \in [Bio -> [write : BOOLEAN, from : 0..Sectors, left : 0..Sectors]]
    /\ buf \in [Bio -> [1..2 -> Half]]

\* A bio in ram_submit_bio finds the RAM buffer and the disk, whenever rmmod
\* comes: nv_block_device_unregister goes before kfree(ram_data.data), and
\* del_gendisk waits (nv_block_ram.c:118).
BioHasData == InQueue # {} => data /\ disk \in {"added", "dead"} /\ at # "out"

\* A load that failed at any step, and an unload, by either way through the
\* framework, leave nothing behind; a load that succeeded left nothing out.
NothingHalfDone ==
    /\ at = "out" => ~data /\ ~table /\ ~slot /\ ~registered /\ disk = "null"
    /\ at = "live" => data /\ table /\ slot /\ registered /\ disk = "added"

\* What priv->lock is for (nv_block_ram.c:58): bios over the same sectors go
\* between each other segment by segment, but no sector is left with parts of
\* two writes, and no read returns such a one.
SegmentsWhole ==
    /\ \A s \in Sector :
          \/ sect[s] = Whole(sect[s][1])
          \/ \E b \in Bio : lock = b /\ bio[b].write /\ bio[b].from = s
    /\ \A b \in Bio : pc[b] = "unlock" => buf[b] = Whole(buf[b][1])

\* Every bio that got into the driver is ended, rmmod or not.
BioEnds == \A b \in Bio : pc[b] \in InQueuePC ~> pc[b] \in {"open", "stale"}

\* insmod and rmmod return, however many descriptors stay open.
LoaderReturns == at \notin {"out", "live"} ~> at \in {"out", "live"}

diskPhase ==
    IF disk = "added" THEN "live" ELSE IF at = "x_wait" THEN "closing" ELSE "dead"

Life == INSTANCE NvCharLife WITH File <- Bio, users <- InQueue, phase <- diskPhase

\* A disk lives as a character device does, its users the bios in the queue;
\* the wait for the last of them is never given up.
ImplementsLife == Life!Spec /\ [][~Life!GiveUp]_<<diskPhase, InQueue>>
=============================================================================
