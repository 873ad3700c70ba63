--------------------------- MODULE NvBlockProofs ---------------------------
(***************************************************************************)
(* The safety properties of NvBlock for any number of threads and sectors. *)
(* The invariant says what each stage of loading and unloading has, that   *)
(* bios are in the driver only while the disk is added or del_gendisk      *)
(* waits, and what the holder of the spinlock has copied.                  *)
(***************************************************************************)
EXTENDS NvBlock, TLAPS

\* What there is at each stage of ram_init and ram_exit.
LoaderHas ==
    /\ data = (at # "out")
    /\ at \in {"out", "drv", "x_data"} => ~table
    /\ at \notin {"out", "drv", "x_data"} => table
    /\ at \in {"live", "x_slot"} => slot
    /\ slot => at \in {"live", "x_slot", "x_drv"}
    /\ at \in {"live", "x_slot", "x_dead", "x_wait", "x_put"} => registered
    /\ registered => at \in {"live", "x_slot", "x_dead", "x_wait", "x_put"} \/ slot
    /\ slot => registered

DiskIs ==
    /\ at \in {"out", "drv", "alloc"} => disk = "null"
    /\ at = "add" => disk = "allocated"
    /\ at \in {"slot", "live", "x_slot", "x_dead"} => disk = "added"
    /\ at \in {"x_wait", "x_put"} => disk = "dead"
    /\ at = "x_drv" =>
           IF slot THEN disk = "added" ELSE disk \in {"null", "error"}
    /\ at = "x_data" => disk \in {"null", "error"}

UsersHaveDisk ==
    \A b \in Bio :
        /\ pc[b] = "open" => disk = "added"
        /\ pc[b] \in InQueuePC => disk = "added" \/ at = "x_wait"

CopierHasLock ==
    \A b \in Bio : pc[b] \in {"half", "rest", "unlock"} =>
        lock = b /\ bio[b].left > 0

BioFits == \A b \in Bio : bio[b].from + bio[b].left <= Sectors

\* A sector with two halves is just being written.
TornIsWritten ==
    \A s \in Sector :
        \/ sect[s][1] = sect[s][2]
        \/ \E b \in Bio : pc[b] = "rest" /\ bio[b].write /\ bio[b].from = s

\* What a bio has copied of its segment.
CopiedHalf ==
    \A b \in Bio :
        /\ pc[b] = "rest" =>
               IF bio[b].write THEN sect[bio[b].from][1] = b
                               ELSE buf[b][1] = sect[bio[b].from][1]
        /\ (pc[b] = "rest" /\ ~bio[b].write) \/ buf[b][1] = buf[b][2]

BlockInv ==
    /\ TypeOK /\ LoaderHas /\ DiskIs /\ UsersHaveDisk
    /\ CopierHasLock /\ BioFits /\ TornIsWritten /\ CopiedHalf

\* Nothing is loaded, nobody has the disk open.
LEMMA BlockInit == Init => BlockInv
<1> SUFFICES ASSUME Init PROVE BlockInv
  OBVIOUS
<1> USE BlockAssumption DEF Init, NoBio
<1>1. TypeOK
  <2>1. sect \in [Sector -> [1..2 -> Half]] /\ buf \in [Bio -> [1..2 -> Half]]
    BY DEF Whole, Half
  <2>2. bio \in [Bio -> [write : BOOLEAN, from : 0..Sectors, left : 0..Sectors]]
    OBVIOUS
  <2> QED BY <2>1, <2>2 DEF TypeOK, AtPC, InQueuePC
<1>2. LoaderHas /\ DiskIs
  BY DEF LoaderHas, DiskIs
<1>3. UsersHaveDisk /\ CopierHasLock /\ BioFits
  BY DEF UsersHaveDisk, CopierHasLock, BioFits, InQueuePC
<1>4. TornIsWritten /\ CopiedHalf
  BY DEF TornIsWritten, CopiedHalf, Whole
<1> QED BY <1>1, <1>2, <1>3, <1>4 DEF BlockInv

\* Every step of insmod, rmmod and I/O keeps the invariant.
LEMMA BlockStep == BlockInv /\ [Next]_vars => BlockInv'
<1> SUFFICES ASSUME BlockInv, [Next]_vars PROVE BlockInv'
  OBVIOUS
<1> USE BlockAssumption DEF BlockInv, loadVars, ioVars
<1>1. CASE AllocData
  <2>1. TypeOK'
    BY <1>1 DEF AllocData, TypeOK, AtPC, Half, InQueuePC, Sector, Whole, NoBio
  <2>2. LoaderHas'
    BY <1>1 DEF AllocData, LoaderHas, TypeOK, AtPC, DiskIs
  <2>3. DiskIs'
    BY <1>1 DEF AllocData, DiskIs, TypeOK, AtPC, LoaderHas
  <2>4. UsersHaveDisk'
    BY <1>1 DEF AllocData, UsersHaveDisk, TypeOK, AtPC, InQueuePC, DiskIs,
           LoaderHas
  <2>5. CopierHasLock'
    BY <1>1 DEF AllocData, CopierHasLock, TypeOK, AtPC, InQueuePC
  <2>6. BioFits'
    BY <1>1 DEF AllocData, BioFits, TypeOK, NoBio, CopierHasLock, AtPC
  <2>7. TornIsWritten'
    BY <1>1 DEF AllocData, TornIsWritten, TypeOK, AtPC, CopierHasLock,
           CopiedHalf, Sector, Half, Whole, UsersHaveDisk, DiskIs, LoaderHas,
           InQueuePC
  <2>8. CopiedHalf'
    BY <1>1 DEF AllocData, CopiedHalf, TypeOK, AtPC, CopierHasLock,
           TornIsWritten, BioFits, Sector, Half, Whole, UsersHaveDisk, DiskIs,
           LoaderHas, InQueuePC
  <2> QED BY <2>1, <2>2, <2>3, <2>4, <2>5, <2>6, <2>7, <2>8
<1>2. CASE DriverRegister
  <2>1. TypeOK'
    BY <1>2 DEF DriverRegister, TypeOK, AtPC, Half, InQueuePC, Sector, Whole,
           NoBio
  <2>2. LoaderHas'
    BY <1>2 DEF DriverRegister, LoaderHas, TypeOK, AtPC, DiskIs
  <2>3. DiskIs'
    BY <1>2 DEF DriverRegister, DiskIs, TypeOK, AtPC, LoaderHas
  <2>4. UsersHaveDisk'
    BY <1>2 DEF DriverRegister, UsersHaveDisk, TypeOK, AtPC, InQueuePC,
           DiskIs, LoaderHas
  <2>5. CopierHasLock'
    BY <1>2 DEF DriverRegister, CopierHasLock, TypeOK, AtPC, InQueuePC
  <2>6. BioFits'
    BY <1>2 DEF DriverRegister, BioFits, TypeOK, NoBio, CopierHasLock, AtPC
  <2>7. TornIsWritten'
    BY <1>2 DEF DriverRegister, TornIsWritten, TypeOK, AtPC, CopierHasLock,
           CopiedHalf, Sector, Half
  <2>8. CopiedHalf'
    BY <1>2 DEF DriverRegister, CopiedHalf, TypeOK, AtPC, CopierHasLock,
           TornIsWritten, BioFits, Sector, Half
  <2> QED BY <2>1, <2>2, <2>3, <2>4, <2>5, <2>6, <2>7, <2>8
<1>3. CASE AllocDisk
  <2>1. TypeOK'
    BY <1>3 DEF AllocDisk, TypeOK, AtPC, Half, InQueuePC, Sector, Whole, NoBio
  <2>2. LoaderHas'
    BY <1>3 DEF AllocDisk, LoaderHas, TypeOK, AtPC, DiskIs
  <2>3. DiskIs'
    BY <1>3 DEF AllocDisk, DiskIs, TypeOK, AtPC, LoaderHas
  <2>4. UsersHaveDisk'
    BY <1>3 DEF AllocDisk, UsersHaveDisk, TypeOK, AtPC, InQueuePC, DiskIs,
           LoaderHas
  <2>5. CopierHasLock'
    BY <1>3 DEF AllocDisk, CopierHasLock, TypeOK, AtPC, InQueuePC
  <2>6. BioFits'
    BY <1>3 DEF AllocDisk, BioFits, TypeOK, NoBio, CopierHasLock, AtPC
  <2>7. TornIsWritten'
    BY <1>3 DEF AllocDisk, TornIsWritten, TypeOK, AtPC, CopierHasLock,
           CopiedHalf, Sector, Half
  <2>8. CopiedHalf'
    BY <1>3 DEF AllocDisk, CopiedHalf, TypeOK, AtPC, CopierHasLock,
           TornIsWritten, BioFits, Sector, Half
  <2> QED BY <2>1, <2>2, <2>3, <2>4, <2>5, <2>6, <2>7, <2>8
<1>4. CASE AddDisk
  <2>1. TypeOK'
    BY <1>4 DEF AddDisk, TypeOK, AtPC, Half, InQueuePC, Sector, Whole, NoBio
  <2>2. LoaderHas'
    BY <1>4 DEF AddDisk, LoaderHas, TypeOK, AtPC, DiskIs
  <2>3. DiskIs'
    BY <1>4 DEF AddDisk, DiskIs, TypeOK, AtPC, LoaderHas
  <2>4. UsersHaveDisk'
    BY <1>4 DEF AddDisk, UsersHaveDisk, TypeOK, AtPC, InQueuePC, DiskIs,
           LoaderHas
  <2>5. CopierHasLock'
    BY <1>4 DEF AddDisk, CopierHasLock, TypeOK, AtPC, InQueuePC
  <2>6. BioFits'
    BY <1>4 DEF AddDisk, BioFits, TypeOK, NoBio, CopierHasLock, AtPC
  <2>7. TornIsWritten'
    BY <1>4 DEF AddDisk, TornIsWritten, TypeOK, AtPC, CopierHasLock,
           CopiedHalf, Sector, Half
  <2>8. CopiedHalf'
    BY <1>4 DEF AddDisk, CopiedHalf, TypeOK, AtPC, CopierHasLock,
           TornIsWritten, BioFits, Sector, Half
  <2> QED BY <2>1, <2>2, <2>3, <2>4, <2>5, <2>6, <2>7, <2>8
<1>5. CASE FillSlot
  <2>1. TypeOK'
    BY <1>5 DEF FillSlot, TypeOK, AtPC, Half, InQueuePC, Sector, Whole, NoBio
  <2>2. LoaderHas'
    BY <1>5 DEF FillSlot, LoaderHas, TypeOK, AtPC, DiskIs
  <2>3. DiskIs'
    BY <1>5 DEF FillSlot, DiskIs, TypeOK, AtPC, LoaderHas
  <2>4. UsersHaveDisk'
    BY <1>5 DEF FillSlot, UsersHaveDisk, TypeOK, AtPC, InQueuePC, DiskIs,
           LoaderHas
  <2>5. CopierHasLock'
    BY <1>5 DEF FillSlot, CopierHasLock, TypeOK, AtPC, InQueuePC
  <2>6. BioFits'
    BY <1>5 DEF FillSlot, BioFits, TypeOK, NoBio, CopierHasLock, AtPC
  <2>7. TornIsWritten'
    BY <1>5 DEF FillSlot, TornIsWritten, TypeOK, AtPC, CopierHasLock,
           CopiedHalf, Sector, Half
  <2>8. CopiedHalf'
    BY <1>5 DEF FillSlot, CopiedHalf, TypeOK, AtPC, CopierHasLock,
           TornIsWritten, BioFits, Sector, Half
  <2> QED BY <2>1, <2>2, <2>3, <2>4, <2>5, <2>6, <2>7, <2>8
<1>6. CASE Rmmod
  <2>1. TypeOK'
    BY <1>6 DEF Rmmod, TypeOK, AtPC, Half, InQueuePC, Sector, Whole, NoBio
  <2>2. LoaderHas'
    BY <1>6 DEF Rmmod, LoaderHas, TypeOK, AtPC, DiskIs
  <2>3. DiskIs'
    BY <1>6 DEF Rmmod, DiskIs, TypeOK, AtPC, LoaderHas
  <2>4. UsersHaveDisk'
    BY <1>6 DEF Rmmod, UsersHaveDisk, TypeOK, AtPC, InQueuePC, DiskIs,
           LoaderHas
  <2>5. CopierHasLock'
    BY <1>6 DEF Rmmod, CopierHasLock, TypeOK, AtPC, InQueuePC
  <2>6. BioFits'
    BY <1>6 DEF Rmmod, BioFits, TypeOK, NoBio, CopierHasLock, AtPC
  <2>7. TornIsWritten'
    BY <1>6 DEF Rmmod, TornIsWritten, TypeOK, AtPC, CopierHasLock, CopiedHalf,
           Sector, Half
  <2>8. CopiedHalf'
    BY <1>6 DEF Rmmod, CopiedHalf, TypeOK, AtPC, CopierHasLock, TornIsWritten,
           BioFits, Sector, Half
  <2> QED BY <2>1, <2>2, <2>3, <2>4, <2>5, <2>6, <2>7, <2>8
<1>7. CASE ClearSlot
  <2>1. TypeOK'
    BY <1>7 DEF ClearSlot, TypeOK, AtPC, Half, InQueuePC, Sector, Whole, NoBio
  <2>2. LoaderHas'
    BY <1>7 DEF ClearSlot, LoaderHas, TypeOK, AtPC, DiskIs
  <2>3. DiskIs'
    BY <1>7 DEF ClearSlot, DiskIs, TypeOK, AtPC, LoaderHas
  <2>4. UsersHaveDisk'
    BY <1>7 DEF ClearSlot, UsersHaveDisk, TypeOK, AtPC, InQueuePC, DiskIs,
           LoaderHas
  <2>5. CopierHasLock'
    BY <1>7 DEF ClearSlot, CopierHasLock, TypeOK, AtPC, InQueuePC
  <2>6. BioFits'
    BY <1>7 DEF ClearSlot, BioFits, TypeOK, NoBio, CopierHasLock, AtPC
  <2>7. TornIsWritten'
    BY <1>7 DEF ClearSlot, TornIsWritten, TypeOK, AtPC, CopierHasLock,
           CopiedHalf, Sector, Half
  <2>8. CopiedHalf'
    BY <1>7 DEF ClearSlot, CopiedHalf, TypeOK, AtPC, CopierHasLock,
           TornIsWritten, BioFits, Sector, Half
  <2> QED BY <2>1, <2>2, <2>3, <2>4, <2>5, <2>6, <2>7, <2>8
<1>8. CASE MarkDead
  <2>1. TypeOK'
    BY <1>8 DEF MarkDead, TypeOK, AtPC, Half, InQueuePC, Sector, Whole, NoBio
  <2>2. LoaderHas'
    BY <1>8 DEF MarkDead, LoaderHas, TypeOK, AtPC, DiskIs
  <2>3. DiskIs'
    BY <1>8 DEF MarkDead, DiskIs, TypeOK, AtPC, LoaderHas
  <2>4. UsersHaveDisk'
    BY <1>8 DEF MarkDead, UsersHaveDisk, TypeOK, AtPC, InQueuePC, DiskIs,
           LoaderHas
  <2>5. CopierHasLock'
    BY <1>8 DEF MarkDead, CopierHasLock, TypeOK, AtPC, InQueuePC
  <2>6. BioFits'
    BY <1>8 DEF MarkDead, BioFits, TypeOK, NoBio, CopierHasLock, AtPC
  <2>7. TornIsWritten'
    BY <1>8 DEF MarkDead, TornIsWritten, TypeOK, AtPC, CopierHasLock,
           CopiedHalf, Sector, Half, InQueuePC
  <2>8. CopiedHalf'
    BY <1>8 DEF MarkDead, CopiedHalf, TypeOK, AtPC, CopierHasLock,
           TornIsWritten, BioFits, Sector, Half, InQueuePC
  <2> QED BY <2>1, <2>2, <2>3, <2>4, <2>5, <2>6, <2>7, <2>8
<1>9. CASE QueueFrozen
  <2>1. TypeOK'
    BY <1>9 DEF QueueFrozen, TypeOK, AtPC, Half, InQueuePC, Sector, Whole,
           NoBio
  <2>2. LoaderHas'
    BY <1>9 DEF QueueFrozen, LoaderHas, TypeOK, AtPC, DiskIs
  <2>3. DiskIs'
    BY <1>9 DEF QueueFrozen, DiskIs, TypeOK, AtPC, LoaderHas
  <2>4. UsersHaveDisk'
    BY <1>9 DEF QueueFrozen, UsersHaveDisk, TypeOK, AtPC, InQueuePC, DiskIs,
           LoaderHas, InQueue
  <2>5. CopierHasLock'
    BY <1>9 DEF QueueFrozen, CopierHasLock, TypeOK, AtPC, InQueuePC
  <2>6. BioFits'
    BY <1>9 DEF QueueFrozen, BioFits, TypeOK, NoBio, CopierHasLock, AtPC
  <2>7. TornIsWritten'
    BY <1>9 DEF QueueFrozen, TornIsWritten, TypeOK, AtPC, CopierHasLock,
           CopiedHalf, Sector, Half
  <2>8. CopiedHalf'
    BY <1>9 DEF QueueFrozen, CopiedHalf, TypeOK, AtPC, CopierHasLock,
           TornIsWritten, BioFits, Sector, Half
  <2> QED BY <2>1, <2>2, <2>3, <2>4, <2>5, <2>6, <2>7, <2>8
<1>10. CASE PutDisk
  <2>1. TypeOK'
    BY <1>10 DEF PutDisk, TypeOK, AtPC, Half, InQueuePC, Sector, Whole, NoBio
  <2>2. LoaderHas'
    BY <1>10 DEF PutDisk, LoaderHas, TypeOK, AtPC, DiskIs
  <2>3. DiskIs'
    BY <1>10 DEF PutDisk, DiskIs, TypeOK, AtPC, LoaderHas
  <2>4. UsersHaveDisk'
    BY <1>10 DEF PutDisk, UsersHaveDisk, TypeOK, AtPC, InQueuePC, DiskIs,
           LoaderHas
  <2>5. CopierHasLock'
    BY <1>10 DEF PutDisk, CopierHasLock, TypeOK, AtPC, InQueuePC
  <2>6. BioFits'
    BY <1>10 DEF PutDisk, BioFits, TypeOK, NoBio, CopierHasLock, AtPC
  <2>7. TornIsWritten'
    BY <1>10 DEF PutDisk, TornIsWritten, TypeOK, AtPC, CopierHasLock,
           CopiedHalf, Sector, Half
  <2>8. CopiedHalf'
    BY <1>10 DEF PutDisk, CopiedHalf, TypeOK, AtPC, CopierHasLock,
           TornIsWritten, BioFits, Sector, Half
  <2> QED BY <2>1, <2>2, <2>3, <2>4, <2>5, <2>6, <2>7, <2>8
<1>11. CASE DriverUnregister
  <2>1. TypeOK'
    BY <1>11 DEF DriverUnregister, TypeOK, AtPC, Half, InQueuePC, Sector,
           Whole, NoBio
  <2>2. LoaderHas'
    BY <1>11 DEF DriverUnregister, LoaderHas, TypeOK, AtPC, DiskIs
  <2>3. DiskIs'
    BY <1>11 DEF DriverUnregister, DiskIs, TypeOK, AtPC, LoaderHas
  <2>4. UsersHaveDisk'
    BY <1>11 DEF DriverUnregister, UsersHaveDisk, TypeOK, AtPC, InQueuePC,
           DiskIs, LoaderHas
  <2>5. CopierHasLock'
    BY <1>11 DEF DriverUnregister, CopierHasLock, TypeOK, AtPC, InQueuePC
  <2>6. BioFits'
    BY <1>11 DEF DriverUnregister, BioFits, TypeOK, NoBio, CopierHasLock, AtPC
  <2>7. TornIsWritten'
    BY <1>11 DEF DriverUnregister, TornIsWritten, TypeOK, AtPC, CopierHasLock,
           CopiedHalf, Sector, Half
  <2>8. CopiedHalf'
    BY <1>11 DEF DriverUnregister, CopiedHalf, TypeOK, AtPC, CopierHasLock,
           TornIsWritten, BioFits, Sector, Half
  <2> QED BY <2>1, <2>2, <2>3, <2>4, <2>5, <2>6, <2>7, <2>8
<1>12. CASE FreeData
  <2>1. TypeOK'
    BY <1>12 DEF FreeData, TypeOK, AtPC, Half, InQueuePC, Sector, Whole, NoBio
  <2>2. LoaderHas'
    BY <1>12 DEF FreeData, LoaderHas, TypeOK, AtPC, DiskIs
  <2>3. DiskIs'
    BY <1>12 DEF FreeData, DiskIs, TypeOK, AtPC, LoaderHas
  <2>4. UsersHaveDisk'
    BY <1>12 DEF FreeData, UsersHaveDisk, TypeOK, AtPC, InQueuePC, DiskIs,
           LoaderHas
  <2>5. CopierHasLock'
    BY <1>12 DEF FreeData, CopierHasLock, TypeOK, AtPC, InQueuePC
  <2>6. BioFits'
    BY <1>12 DEF FreeData, BioFits, TypeOK, NoBio, CopierHasLock, AtPC
  <2>7. TornIsWritten'
    BY <1>12 DEF FreeData, TornIsWritten, TypeOK, AtPC, CopierHasLock,
           CopiedHalf, Sector, Half, Whole, UsersHaveDisk, DiskIs, LoaderHas,
           InQueuePC
  <2>8. CopiedHalf'
    BY <1>12 DEF FreeData, CopiedHalf, TypeOK, AtPC, CopierHasLock,
           TornIsWritten, BioFits, Sector, Half, Whole, UsersHaveDisk, DiskIs,
           LoaderHas, InQueuePC
  <2> QED BY <2>1, <2>2, <2>3, <2>4, <2>5, <2>6, <2>7, <2>8
<1>13. ASSUME NEW b \in Bio, Open(b) PROVE BlockInv'
  <2>1. TypeOK'
    BY <1>13 DEF Open, TypeOK, AtPC, Half, InQueuePC, Sector, Whole, NoBio,
           Goto
  <2>2. LoaderHas'
    BY <1>13 DEF Open, LoaderHas, TypeOK, AtPC, DiskIs, Goto
  <2>3. DiskIs'
    BY <1>13 DEF Open, DiskIs, TypeOK, AtPC, LoaderHas, Goto
  <2>4. UsersHaveDisk'
    BY <1>13 DEF Open, UsersHaveDisk, TypeOK, AtPC, InQueuePC, DiskIs,
           LoaderHas, Goto
  <2>5. CopierHasLock'
    BY <1>13 DEF Open, CopierHasLock, TypeOK, AtPC, InQueuePC, Goto
  <2>6. BioFits'
    BY <1>13 DEF Open, BioFits, TypeOK, NoBio, CopierHasLock, AtPC, Goto
  <2>7. TornIsWritten'
    BY <1>13 DEF Open, TornIsWritten, TypeOK, AtPC, CopierHasLock, CopiedHalf,
           Sector, Half, Goto
  <2>8. CopiedHalf'
    BY <1>13 DEF Open, CopiedHalf, TypeOK, AtPC, CopierHasLock, TornIsWritten,
           BioFits, Sector, Half, Goto
  <2> QED BY <2>1, <2>2, <2>3, <2>4, <2>5, <2>6, <2>7, <2>8
<1>14. ASSUME NEW b \in Bio, Close(b) PROVE BlockInv'
  <2>1. TypeOK'
    BY <1>14 DEF Close, TypeOK, AtPC, Half, InQueuePC, Sector, Whole, NoBio,
           Goto
  <2>2. LoaderHas'
    BY <1>14 DEF Close, LoaderHas, TypeOK, AtPC, DiskIs, Goto
  <2>3. DiskIs'
    BY <1>14 DEF Close, DiskIs, TypeOK, AtPC, LoaderHas, Goto
  <2>4. UsersHaveDisk'
    BY <1>14 DEF Close, UsersHaveDisk, TypeOK, AtPC, InQueuePC, DiskIs,
           LoaderHas, Goto
  <2>5. CopierHasLock'
    BY <1>14 DEF Close, CopierHasLock, TypeOK, AtPC, InQueuePC, Goto
  <2>6. BioFits'
    BY <1>14 DEF Close, BioFits, TypeOK, NoBio, CopierHasLock, AtPC, Goto
  <2>7. TornIsWritten'
    BY <1>14 DEF Close, TornIsWritten, TypeOK, AtPC, CopierHasLock,
           CopiedHalf, Sector, Half, Goto
  <2>8. CopiedHalf'
    BY <1>14 DEF Close, CopiedHalf, TypeOK, AtPC, CopierHasLock,
           TornIsWritten, BioFits, Sector, Half, Goto
  <2> QED BY <2>1, <2>2, <2>3, <2>4, <2>5, <2>6, <2>7, <2>8
<1>15. ASSUME NEW b \in Bio, Submit(b) PROVE BlockInv'
  <2>1. TypeOK'
    <3>1. PICK r \in Requests : bio' = [bio EXCEPT ![b] = r]
      BY <1>15 DEF Submit
    <3>2. r \in [write : BOOLEAN, from : 0..Sectors, left : 0..Sectors]
      BY DEF Requests, Sector
    <3>3. bio' \in [Bio -> [write : BOOLEAN, from : 0..Sectors, left : 0..Sectors]]
      BY <3>1, <3>2 DEF TypeOK
    <3> QED BY <1>15, <3>3 DEF Submit, Goto, TypeOK, InQueuePC
  <2>2. LoaderHas'
    BY <1>15 DEF Submit, LoaderHas, TypeOK, AtPC, DiskIs, Goto, Requests,
           Sector
  <2>3. DiskIs'
    BY <1>15 DEF Submit, DiskIs, TypeOK, AtPC, LoaderHas, Goto, Requests,
           Sector
  <2>4. UsersHaveDisk'
    BY <1>15 DEF Submit, UsersHaveDisk, TypeOK, AtPC, InQueuePC, DiskIs,
           LoaderHas, Goto, Requests, Sector
  <2>5. CopierHasLock'
    BY <1>15 DEF Submit, CopierHasLock, TypeOK, AtPC, InQueuePC, Goto,
           Requests, Sector
  <2>6. BioFits'
    BY <1>15 DEF Submit, BioFits, TypeOK, NoBio, CopierHasLock, AtPC, Goto,
           Requests, Sector
  <2>7. TornIsWritten'
    <3>1. PICK r \in Requests : bio' = [bio EXCEPT ![b] = r]
      BY <1>15 DEF Submit
    <3>2. ASSUME NEW c \in Bio, pc[c] = "rest"
          PROVE  pc'[c] = "rest" /\ bio'[c] = bio[c]
      BY <1>15, <3>1, <3>2 DEF Submit, Goto, TypeOK
    <3> QED BY <1>15, <3>2 DEF Submit, TornIsWritten
  <2>8. CopiedHalf'
    BY <1>15 DEF Submit, CopiedHalf, TypeOK, AtPC, CopierHasLock,
           TornIsWritten, BioFits, Sector, Half, Goto, Requests
  <2> QED BY <2>1, <2>2, <2>3, <2>4, <2>5, <2>6, <2>7, <2>8
<1>16. ASSUME NEW b \in Bio, NextSegment(b) PROVE BlockInv'
  <2>1. TypeOK'
    BY <1>16 DEF NextSegment, TypeOK, AtPC, Half, InQueuePC, Sector, Whole,
           NoBio, Goto
  <2>2. LoaderHas'
    BY <1>16 DEF NextSegment, LoaderHas, TypeOK, AtPC, DiskIs, Goto
  <2>3. DiskIs'
    BY <1>16 DEF NextSegment, DiskIs, TypeOK, AtPC, LoaderHas, Goto
  <2>4. UsersHaveDisk'
    BY <1>16 DEF NextSegment, UsersHaveDisk, TypeOK, AtPC, InQueuePC, DiskIs,
           LoaderHas, Goto
  <2>5. CopierHasLock'
    BY <1>16 DEF NextSegment, CopierHasLock, TypeOK, AtPC, InQueuePC, Goto
  <2>6. BioFits'
    BY <1>16 DEF NextSegment, BioFits, TypeOK, NoBio, CopierHasLock, AtPC, Goto
  <2>7. TornIsWritten'
    BY <1>16 DEF NextSegment, TornIsWritten, TypeOK, AtPC, CopierHasLock,
           CopiedHalf, Sector, Half, Goto
  <2>8. CopiedHalf'
    BY <1>16 DEF NextSegment, CopiedHalf, TypeOK, AtPC, CopierHasLock,
           TornIsWritten, BioFits, Sector, Half, Goto
  <2> QED BY <2>1, <2>2, <2>3, <2>4, <2>5, <2>6, <2>7, <2>8
<1>17. ASSUME NEW b \in Bio, CopyHalf(b) PROVE BlockInv'
  <2>1. TypeOK'
    <3>1. sect' \in [Sector -> [1..2 -> Half]] /\ buf' \in [Bio -> [1..2 -> Half]]
      <4> DEFINE s == bio[b].from
      <4>1. s \in Sector
        BY <1>17 DEF CopyHalf, CopierHasLock, BioFits, TypeOK, Sector
      <4>2. sect[s] \in [1..2 -> Half] /\ buf[b] \in [1..2 -> Half] /\ b \in Half
        BY <4>1 DEF TypeOK, Half
      <4>3. CASE bio[b].write
        <5>1. sect' = [sect EXCEPT ![s] = [sect[s] EXCEPT ![1] = b]] /\ buf' = buf
          BY <1>17, <4>3 DEF CopyHalf, CopyPart
        <5> QED BY <4>2, <5>1 DEF TypeOK
      <4>4. CASE ~bio[b].write
        <5>1. buf' = [buf EXCEPT ![b] = [buf[b] EXCEPT ![1] = sect[s][1]]] /\ sect' = sect
          BY <1>17, <4>4 DEF CopyHalf, CopyPart
        <5> QED BY <4>2, <5>1 DEF TypeOK
      <4> QED BY <4>3, <4>4
    <3> QED BY <1>17, <3>1 DEF CopyHalf, Goto, TypeOK, InQueuePC
  <2>2. LoaderHas'
    BY <1>17 DEF CopyHalf, LoaderHas, TypeOK, AtPC, DiskIs, Goto, CopyPart
  <2>3. DiskIs'
    BY <1>17 DEF CopyHalf, DiskIs, TypeOK, AtPC, LoaderHas, Goto, CopyPart
  <2>4. UsersHaveDisk'
    BY <1>17 DEF CopyHalf, UsersHaveDisk, TypeOK, AtPC, InQueuePC, DiskIs,
           LoaderHas, Goto, CopyPart
  <2>5. CopierHasLock'
    BY <1>17 DEF CopyHalf, CopierHasLock, TypeOK, AtPC, InQueuePC, Goto,
           CopyPart
  <2>6. BioFits'
    BY <1>17 DEF CopyHalf, BioFits, TypeOK, NoBio, CopierHasLock, AtPC, Goto,
           CopyPart
  <2>7. TornIsWritten'
    <3>1. ASSUME NEW c \in Bio, pc[c] = "rest"
          PROVE  pc'[c] = "rest" /\ bio'[c] = bio[c]
      BY <1>17, <3>1 DEF CopyHalf, Goto, TypeOK
    <3>2. pc'[b] = "rest" /\ bio'[b] = bio[b]
      BY <1>17 DEF CopyHalf, Goto, TypeOK
    <3>3. ASSUME NEW s \in Sector, sect'[s] # sect[s]
          PROVE  bio[b].write /\ bio[b].from = s
      BY <1>17, <3>3 DEF CopyHalf, CopyPart, TypeOK
    <3> QED BY <3>1, <3>2, <3>3 DEF TornIsWritten
  <2>8. CopiedHalf'
    BY <1>17 DEF CopyHalf, CopiedHalf, TypeOK, AtPC, CopierHasLock,
           TornIsWritten, BioFits, Sector, Half, Goto, CopyPart
  <2> QED BY <2>1, <2>2, <2>3, <2>4, <2>5, <2>6, <2>7, <2>8
<1>18. ASSUME NEW b \in Bio, CopyRest(b) PROVE BlockInv'
  <2>1. TypeOK'
    <3>1. sect' \in [Sector -> [1..2 -> Half]] /\ buf' \in [Bio -> [1..2 -> Half]]
      <4> DEFINE s == bio[b].from
      <4>1. s \in Sector
        BY <1>18 DEF CopyRest, CopierHasLock, BioFits, TypeOK, Sector
      <4>2. sect[s] \in [1..2 -> Half] /\ buf[b] \in [1..2 -> Half] /\ b \in Half
        BY <4>1 DEF TypeOK, Half
      <4>3. CASE bio[b].write
        <5>1. sect' = [sect EXCEPT ![s] = [sect[s] EXCEPT ![2] = b]] /\ buf' = buf
          BY <1>18, <4>3 DEF CopyRest, CopyPart
        <5> QED BY <4>2, <5>1 DEF TypeOK
      <4>4. CASE ~bio[b].write
        <5>1. buf' = [buf EXCEPT ![b] = [buf[b] EXCEPT ![2] = sect[s][2]]] /\ sect' = sect
          BY <1>18, <4>4 DEF CopyRest, CopyPart
        <5> QED BY <4>2, <5>1 DEF TypeOK
      <4> QED BY <4>3, <4>4
    <3> QED BY <1>18, <3>1 DEF CopyRest, Goto, TypeOK, InQueuePC
  <2>2. LoaderHas'
    BY <1>18 DEF CopyRest, LoaderHas, TypeOK, AtPC, DiskIs, Goto, CopyPart
  <2>3. DiskIs'
    BY <1>18 DEF CopyRest, DiskIs, TypeOK, AtPC, LoaderHas, Goto, CopyPart
  <2>4. UsersHaveDisk'
    BY <1>18 DEF CopyRest, UsersHaveDisk, TypeOK, AtPC, InQueuePC, DiskIs,
           LoaderHas, Goto, CopyPart
  <2>5. CopierHasLock'
    BY <1>18 DEF CopyRest, CopierHasLock, TypeOK, AtPC, InQueuePC, Goto,
           CopyPart
  <2>6. BioFits'
    BY <1>18 DEF CopyRest, BioFits, TypeOK, NoBio, CopierHasLock, AtPC, Goto,
           CopyPart
  <2>7. TornIsWritten'
    <3>1. ASSUME NEW c \in Bio, pc[c] = "rest" PROVE c = b
      BY <1>18, <3>1 DEF CopyRest, CopierHasLock
    <3>2. ASSUME NEW s \in Sector, bio[b].write, bio[b].from = s
          PROVE  sect'[s][1] = sect'[s][2]
      BY <1>18, <3>2 DEF CopyRest, CopyPart, TypeOK, CopiedHalf
    <3>3. ASSUME NEW s \in Sector, ~(bio[b].write /\ bio[b].from = s)
          PROVE  sect'[s] = sect[s]
      BY <1>18, <3>3 DEF CopyRest, CopyPart, TypeOK
    <3> QED BY <3>1, <3>2, <3>3 DEF TornIsWritten
  <2>8. CopiedHalf'
    <3>1. ASSUME NEW c \in Bio, c # b
          PROVE  pc'[c] = pc[c] /\ pc[c] # "rest" /\ buf'[c] = buf[c]
      BY <1>18, <3>1 DEF CopyRest, CopyPart, Goto, CopierHasLock, TypeOK
    <3>2. pc'[b] = "unlock"
      BY <1>18 DEF CopyRest, Goto, TypeOK
    <3>3. buf'[b][1] = buf'[b][2]
      <4>1. CASE bio[b].write
        BY <1>18, <4>1 DEF CopyRest, CopyPart, CopiedHalf
      <4>2. CASE ~bio[b].write
        <5> DEFINE s == bio[b].from
        <5>1. s \in Sector
          BY <1>18 DEF CopyRest, CopierHasLock, BioFits, TypeOK, Sector
        <5>2. sect[s][1] = sect[s][2]
          BY <1>18, <4>2, <5>1 DEF CopyRest, TornIsWritten, CopierHasLock
        <5>3. buf[b][1] = sect[s][1]
          BY <1>18, <4>2 DEF CopyRest, CopiedHalf
        <5>4. buf'[b] = [buf[b] EXCEPT ![2] = sect[s][2]]
          BY <1>18, <4>2 DEF CopyRest, CopyPart, TypeOK
        <5>5. buf[b] \in [1..2 -> Half]
          BY DEF TypeOK
        <5> QED BY <5>2, <5>3, <5>4, <5>5
      <4> QED BY <4>1, <4>2
    <3> QED BY <3>1, <3>2, <3>3 DEF CopiedHalf
  <2> QED BY <2>1, <2>2, <2>3, <2>4, <2>5, <2>6, <2>7, <2>8
<1>19. ASSUME NEW b \in Bio, DropLock(b) PROVE BlockInv'
  <2>0. /\ bio[b] \in [write : BOOLEAN, from : 0..Sectors, left : 0..Sectors]
        /\ bio[b].from + bio[b].left <= Sectors /\ bio[b].left > 0
        /\ lock = b
    BY <1>19 DEF DropLock, TypeOK, CopierHasLock, BioFits
  <2>9. /\ bio'[b] = [write |-> bio[b].write, from |-> bio[b].from + 1,
                      left |-> bio[b].left - 1]
        /\ \A c \in Bio \ {b} : bio'[c] = bio[c]
    BY <1>19 DEF DropLock, TypeOK
  <2>10. bio'[b].from + bio'[b].left = bio[b].from + bio[b].left
    BY <2>0, <2>9
  <2>1. TypeOK'
    <3>1. bio'[b] \in [write : BOOLEAN, from : 0..Sectors, left : 0..Sectors]
      BY <2>0, <2>9
    <3>2. bio' \in [Bio -> [write : BOOLEAN, from : 0..Sectors, left : 0..Sectors]]
      BY <1>19, <2>9, <3>1 DEF DropLock, TypeOK
    <3>3. buf' \in [Bio -> [1..2 -> Half]]
      BY <1>19 DEF DropLock, TypeOK, Half, Whole
    <3>4. pc' \in [Bio -> {"closed", "open", "stale"} \cup InQueuePC]
      BY <1>19 DEF DropLock, TypeOK, Goto, InQueuePC
    <3> QED BY <1>19, <3>2, <3>3, <3>4 DEF DropLock, TypeOK
  <2>2. LoaderHas'
    BY <1>19 DEF DropLock, LoaderHas, TypeOK, AtPC, DiskIs, Goto, Whole, NoBio
  <2>3. DiskIs'
    BY <1>19 DEF DropLock, DiskIs, TypeOK, AtPC, LoaderHas, Goto, Whole, NoBio
  <2>4. UsersHaveDisk'
    BY <1>19 DEF DropLock, UsersHaveDisk, TypeOK, AtPC, InQueuePC, DiskIs,
           LoaderHas, Goto, Whole, NoBio
  <2>5. CopierHasLock'
    BY <1>19 DEF DropLock, CopierHasLock, TypeOK, AtPC, InQueuePC, Goto,
           Whole, NoBio
  <2>6. BioFits'
    BY <2>0, <2>9, <2>10 DEF BioFits
  <2>7. TornIsWritten'
    BY <1>19 DEF DropLock, TornIsWritten, TypeOK, AtPC, CopierHasLock,
           CopiedHalf, Sector, Half, Goto, Whole, NoBio
  <2>8. CopiedHalf'
    BY <1>19 DEF DropLock, CopiedHalf, TypeOK, AtPC, CopierHasLock,
           TornIsWritten, BioFits, Sector, Half, Goto, Whole, NoBio
  <2> QED BY <2>1, <2>2, <2>3, <2>4, <2>5, <2>6, <2>7, <2>8
<1>20. ASSUME NEW b \in Bio, SubmitReturns(b) PROVE BlockInv'
  <2>1. TypeOK'
    BY <1>20 DEF SubmitReturns, TypeOK, AtPC, Half, InQueuePC, Sector, Whole,
           NoBio, Goto
  <2>2. LoaderHas'
    BY <1>20 DEF SubmitReturns, LoaderHas, TypeOK, AtPC, DiskIs, Goto
  <2>3. DiskIs'
    BY <1>20 DEF SubmitReturns, DiskIs, TypeOK, AtPC, LoaderHas, Goto
  <2>4. UsersHaveDisk'
    BY <1>20 DEF SubmitReturns, UsersHaveDisk, TypeOK, AtPC, InQueuePC,
           DiskIs, LoaderHas, Goto
  <2>5. CopierHasLock'
    BY <1>20 DEF SubmitReturns, CopierHasLock, TypeOK, AtPC, InQueuePC, Goto
  <2>6. BioFits'
    BY <1>20 DEF SubmitReturns, BioFits, TypeOK, NoBio, CopierHasLock, AtPC,
           Goto
  <2>7. TornIsWritten'
    BY <1>20 DEF SubmitReturns, TornIsWritten, TypeOK, AtPC, CopierHasLock,
           CopiedHalf, Sector, Half, Goto
  <2>8. CopiedHalf'
    BY <1>20 DEF SubmitReturns, CopiedHalf, TypeOK, AtPC, CopierHasLock,
           TornIsWritten, BioFits, Sector, Half, Goto
  <2> QED BY <2>1, <2>2, <2>3, <2>4, <2>5, <2>6, <2>7, <2>8
<1>21. ASSUME NEW b \in Bio, EndBio(b) PROVE BlockInv'
  <2>1. TypeOK'
    BY <1>21 DEF EndBio, TypeOK, AtPC, Half, InQueuePC, Sector, Whole, NoBio,
           Goto
  <2>2. LoaderHas'
    BY <1>21 DEF EndBio, LoaderHas, TypeOK, AtPC, DiskIs, Goto, Whole, NoBio
  <2>3. DiskIs'
    BY <1>21 DEF EndBio, DiskIs, TypeOK, AtPC, LoaderHas, Goto, Whole, NoBio
  <2>4. UsersHaveDisk'
    BY <1>21 DEF EndBio, UsersHaveDisk, TypeOK, AtPC, InQueuePC, DiskIs,
           LoaderHas, Goto, Whole, NoBio
  <2>5. CopierHasLock'
    BY <1>21 DEF EndBio, CopierHasLock, TypeOK, AtPC, InQueuePC, Goto, Whole,
           NoBio
  <2>6. BioFits'
    BY <1>21 DEF EndBio, BioFits, TypeOK, NoBio, CopierHasLock, AtPC, Goto,
           Whole
  <2>7. TornIsWritten'
    BY <1>21 DEF EndBio, TornIsWritten, TypeOK, AtPC, CopierHasLock,
           CopiedHalf, Sector, Half, Goto, Whole, NoBio
  <2>8. CopiedHalf'
    BY <1>21 DEF EndBio, CopiedHalf, TypeOK, AtPC, CopierHasLock,
           TornIsWritten, BioFits, Sector, Half, Goto, Whole, NoBio
  <2> QED BY <2>1, <2>2, <2>3, <2>4, <2>5, <2>6, <2>7, <2>8
<1>22. CASE UNCHANGED vars
  BY <1>22 DEF vars, TypeOK, LoaderHas, DiskIs, UsersHaveDisk, CopierHasLock,
         BioFits, TornIsWritten, CopiedHalf
<1> QED
  BY <1>1, <1>2, <1>3, <1>4, <1>5, <1>6, <1>7, <1>8, <1>9, <1>10, <1>11,
     <1>12, <1>13, <1>14, <1>15, <1>16, <1>17, <1>18, <1>19, <1>20, <1>21, <1>22
     DEF Next, LoaderStep, BioStep

\* BlockInv, from which the rest follows, is an invariant.
THEOREM BlockInvariant == Spec => []BlockInv
BY BlockInit, BlockStep, PTL DEF Spec

\* A bio in ram_submit_bio finds the buffer and the disk, whenever rmmod comes
\* (nv_block_ram.c:118, del_gendisk waits).
THEOREM BlockBioHasData == Spec => []BioHasData
<1>1. BlockInv => BioHasData
  BY DEF BlockInv, TypeOK, AtPC, LoaderHas, DiskIs, UsersHaveDisk, InQueue,
         BioHasData
<1> QED BY <1>1, BlockInvariant, PTL

\* A load that failed and an unload leave nothing behind (nv_block_ram.c:109).
THEOREM BlockNothingHalfDone == Spec => []NothingHalfDone
<1>1. BlockInv => NothingHalfDone
  BY DEF BlockInv, TypeOK, AtPC, LoaderHas, DiskIs, NothingHalfDone
<1> QED BY <1>1, BlockInvariant, PTL

\* No sector and no finished read mixes two writes, for any number of threads
\* and any size of disk (nv_block_ram.c:58).
THEOREM BlockSegmentsWhole == Spec => []SegmentsWhole
<1>1. BlockInv => SegmentsWhole
  <2> SUFFICES ASSUME BlockInv PROVE SegmentsWhole
    OBVIOUS
  <2>1. ASSUME NEW s \in Sector
        PROVE  \/ sect[s] = Whole(sect[s][1])
               \/ \E b \in Bio : lock = b /\ bio[b].write /\ bio[b].from = s
    BY DEF BlockInv, TypeOK, TornIsWritten, CopierHasLock, Whole
  <2>2. ASSUME NEW b \in Bio, pc[b] = "unlock"
        PROVE  buf[b] = Whole(buf[b][1])
    BY <2>2 DEF BlockInv, TypeOK, CopiedHalf, Whole
  <2> QED BY <2>1, <2>2 DEF SegmentsWhole
<1> QED BY <1>1, BlockInvariant, PTL

\* The disk implements NvCharLife with the bios in the driver as its users, and
\* nobody gives up waiting for them (nv_block.c:169).
THEOREM BlockImplementsLife == Spec => ImplementsLife
<1>1. Init => Life!Init
  BY DEF Init, Life!Init, diskPhase, InQueue, InQueuePC
<1>2. ASSUME BlockInv, [Next]_vars PROVE [Life!Next]_(Life!lifeVars)
  <2> SUFFICES Life!Next \/ UNCHANGED <<diskPhase, InQueue>>
    BY DEF Life!lifeVars
  <2>0. TypeOK /\ DiskIs /\ UsersHaveDisk
    BY <1>2 DEF BlockInv
  <2>1. ASSUME UNCHANGED pc
        PROVE  UNCHANGED InQueue
    BY <2>1 DEF InQueue
  <2>2. CASE AddDisk
    <3>1. diskPhase = "dead" /\ diskPhase' \in {"live", "dead"}
      BY <2>0, <2>2 DEF AddDisk, diskPhase, DiskIs
    <3> QED BY <2>1, <2>2, <3>1 DEF AddDisk, Life!Next, Life!GoLive
  <2>3. CASE MarkDead
    <3>1. diskPhase = "live" /\ diskPhase' = "closing"
      BY <2>0, <2>3 DEF MarkDead, diskPhase, DiskIs
    <3>2. UNCHANGED InQueue
      BY <2>0, <2>3 DEF MarkDead, InQueue, InQueuePC, TypeOK
    <3> QED BY <3>1, <3>2 DEF Life!Next, Life!BeginClose
  <2>4. CASE QueueFrozen
    <3>1. diskPhase = "closing" /\ diskPhase' = "dead"
      BY <2>0, <2>4 DEF QueueFrozen, diskPhase, DiskIs
    <3> QED BY <2>1, <2>4, <3>1 DEF QueueFrozen, Life!Next, Life!Finish
  <2>5. CASE AllocData \/ DriverRegister \/ AllocDisk \/ FillSlot \/ Rmmod
               \/ ClearSlot \/ PutDisk \/ DriverUnregister \/ FreeData
    <3>1. UNCHANGED diskPhase
      BY <2>0, <2>5 DEF AllocData, DriverRegister, AllocDisk, FillSlot, Rmmod,
             ClearSlot, PutDisk, DriverUnregister, FreeData, ioVars, diskPhase,
             DiskIs
    <3>2. UNCHANGED pc
      BY <2>5 DEF AllocData, DriverRegister, AllocDisk, FillSlot, Rmmod,
             ClearSlot, PutDisk, DriverUnregister, FreeData
    <3> QED BY <2>1, <3>1, <3>2
  <2>6. ASSUME NEW b \in Bio, Submit(b)
        PROVE  Life!Next
    <3>1. diskPhase = "live" /\ UNCHANGED diskPhase
      BY <2>0, <2>6 DEF Submit, UsersHaveDisk, diskPhase, loadVars
    <3>2. b \notin InQueue /\ InQueue' = InQueue \cup {b}
      <4>1. pc[b] = "open" /\ pc' = [pc EXCEPT ![b] = "seg"]
        BY <2>6 DEF Submit, Goto
      <4>2. pc \in [Bio -> {"closed", "open", "stale"} \cup InQueuePC]
        BY <2>0 DEF TypeOK
      <4> QED BY <4>1, <4>2 DEF InQueue, InQueuePC
    <3> QED BY <3>1, <3>2 DEF Life!Next, Life!Acquire
  <2>7. ASSUME NEW b \in Bio, EndBio(b)
        PROVE  Life!Next
    <3>1. UNCHANGED diskPhase
      BY <2>7 DEF EndBio, diskPhase, loadVars
    <3>2. b \in InQueue /\ InQueue' = InQueue \ {b}
      <4>1. PICK l \in {"open", "stale"} : pc[b] = "end" /\ pc' = [pc EXCEPT ![b] = l]
        BY <2>7 DEF EndBio, Goto
      <4>2. pc \in [Bio -> {"closed", "open", "stale"} \cup InQueuePC]
        BY <2>0 DEF TypeOK
      <4> QED BY <4>1, <4>2 DEF InQueue, InQueuePC
    <3> QED BY <3>1, <3>2 DEF Life!Next, Life!Release
  <2>8. ASSUME NEW b \in Bio,
               Open(b) \/ Close(b) \/ NextSegment(b) \/ CopyHalf(b)
                 \/ CopyRest(b) \/ DropLock(b) \/ SubmitReturns(b)
        PROVE  UNCHANGED <<diskPhase, InQueue>>
    <3>1. UNCHANGED diskPhase
      BY <2>8 DEF Open, Close, NextSegment, CopyHalf, CopyRest, DropLock,
             SubmitReturns, diskPhase, loadVars
    <3>2. \E l : pc' = [pc EXCEPT ![b] = l] /\ (pc[b] \in InQueuePC <=> l \in InQueuePC)
      BY <2>8 DEF Open, Close, NextSegment, CopyHalf, CopyRest, DropLock,
             SubmitReturns, Goto, InQueuePC
    <3>3. UNCHANGED InQueue
      BY <2>0, <3>2 DEF InQueue, TypeOK
    <3> QED BY <3>1, <3>3
  <2>9. CASE UNCHANGED vars
    BY <2>1, <2>9 DEF vars, loadVars, diskPhase
  <2> QED
    BY <1>2, <2>2, <2>3, <2>4, <2>5, <2>6, <2>7, <2>8, <2>9
       DEF Next, LoaderStep, BioStep
<1>3. ASSUME BlockInv, [Next]_vars
      PROVE  [~Life!GiveUp]_<<diskPhase, InQueue>>
  BY DEF Life!GiveUp, diskPhase
<1> QED
  BY <1>1, <1>2, <1>3, BlockInvariant, PTL
     DEF Spec, ImplementsLife, Life!Spec
=============================================================================
