------------------------- MODULE NvCharDriverProofs -------------------------
(***************************************************************************)
(* The properties of NvCharDriver for any number of devices and of         *)
(* registrations: whichever step of a registration fails, and in whichever *)
(* order devres undoes it, the table, the device numbers and the debugfs   *)
(* reference come back, the numbers of another driver are left alone, and  *)
(* the unregistration takes nothing away from under a device.              *)
(***************************************************************************)
EXTENDS NvCharDriver, SequenceTheorems, TLAPS

\* The actions of devres, oldest first: a registration has added the first k.
Action(i) == IF i = 1 THEN "table" ELSE IF i = 2 THEN "region" ELSE "class"
Added(k) == [i \in 1..k |-> Action(i)]

\* How far a registration got with the devm variant, and what devres knows.
DevresDepth ==
    /\ at = "idle" => devres = Added(0)
    /\ at \in {"region", "regionaction", "again"} => devres = Added(1)
    /\ at \in {"class", "classaction"} => devres = Added(2)
    /\ at \in {"debugfs"} \cup UpPC => devres = Added(3)
    /\ at \notin {"idle", "detach"} => managed
    /\ at = "detach" => \E k \in 0..3 : /\ devres = Added(k)
                                        /\ region = "nv" <=> k >= 2
                                        /\ table = "live" => k >= 1

\* Without devres the driver core has nothing to undo, and a class that exists
\* is the one drv->class points to.
PlainHolds ==
    /\ at \in {"idle", "region", "class", "debugfs"} \cup UpPC
    /\ devres = Added(0) /\ ~managed
    /\ created <=> at \in {"debugfs"} \cup (UpPC \ {"regionexit"})
    /\ at \in {"class", "debugfs"} \cup UpPC => devt

\* What each stage of a registration has and has not.
StageHolds ==
    /\ at \in {"idle", "debugfsexit", "classexit", "regionexit"} => table # "live"
    /\ at \notin {"idle", "detach", "debugfsexit", "classexit", "regionexit"} => table = "live"
    /\ at \in {"idle", "region", "again"} => region # "nv"
    /\ at \in {"regionaction", "class", "classaction", "debugfs"} \cup UpPC => region = "nv"
    /\ at \in {"classaction", "debugfs"} \cup UpPC => class = "ours"
    /\ at \in {"classaction", "debugfs"} \cup (UpPC \ {"regionexit"}) => created
    /\ at \notin {"ready", "devices"} => \A i \in Slot : stage[i] = "none"
    /\ at \notin {"ready", "devices", "debugfsexit"} => debugfs = 0

DriverInv ==
    /\ TypeOK
    /\ StageHolds
    /\ devm => DevresDepth
    /\ ~devm => PlainHolds

-----------------------------------------------------------------------------
(* The list of devres actions *)

\* devm_add_action, devm_release_action and devres_release_all on the list.
LEMMA AddedList ==
    /\ Added(0) = <<>>
    /\ \A k \in 0..3 : /\ Added(k) \in Seq({"table", "region", "class"})
                       /\ Len(Added(k)) = k
                       /\ \A i \in 1..k : Added(k)[i] = Action(i)
<1>1. ASSUME NEW k \in 0..3
      PROVE  /\ Added(k) \in Seq({"table", "region", "class"})
             /\ Len(Added(k)) = k
             /\ \A i \in 1..k : Added(k)[i] = Action(i)
  <2>1. k \in Nat /\ Added(k) \in [1..k -> {"table", "region", "class"}]
    BY DEF Added, Action
  <2>2. Added(k) \in Seq({"table", "region", "class"})
    BY <2>1, SeqDef
  <2>3. DOMAIN Added(k) = 1..k
    BY DEF Added
  <2> QED BY <2>1, <2>2, <2>3, LenProperties DEF Added
<1>2. Added(0) = <<>>
  BY <1>1, EmptySeq, SeqEqual
<1> QED BY <1>1, <1>2

\* devm_add_action appends the action of the next stage.
LEMMA AddedOne ==
    ASSUME NEW k \in 0..2
    PROVE  Append(Added(k), Action(k + 1)) = Added(k + 1)
<1>1. /\ k + 1 \in 0..3 /\ k \in 0..3 /\ Action(k + 1) \in {"table", "region", "class"}
      /\ Len(Added(k)) = k /\ Len(Added(k + 1)) = k + 1
      /\ Added(k) \in Seq({"table", "region", "class"})
      /\ Added(k + 1) \in Seq({"table", "region", "class"})
  <2>1. k + 1 \in 0..3 /\ k \in 0..3
    OBVIOUS
  <2>2. Action(k + 1) \in {"table", "region", "class"}
    BY DEF Action
  <2> QED BY <2>1, <2>2, AddedList
<1> DEFINE s == Append(Added(k), Action(k + 1))
<1>2. /\ s \in Seq({"table", "region", "class"}) /\ Len(s) = k + 1
      /\ \A i \in 1..k : s[i] = Added(k)[i]
      /\ s[k + 1] = Action(k + 1)
  BY <1>1, AppendProperties
<1> HIDE DEF s
<1>3. ASSUME NEW i \in 1..(k + 1) PROVE s[i] = Added(k + 1)[i]
  <2>1. i \in 1..k \/ i = k + 1
    OBVIOUS
  <2>2. Added(k + 1)[i] = Action(i) /\ (i \in 1..k => Added(k)[i] = Action(i))
    BY <1>1, AddedList
  <2> QED BY <1>2, <2>1, <2>2
<1> QED BY <1>1, <1>2, <1>3, SeqEqual DEF s

\* devres_release_all takes the youngest action from the end.
LEMMA ReleasedLast ==
    ASSUME NEW k \in 1..3
    PROVE  SubSeq(Added(k), 1, k - 1) = Added(k - 1)
<1>1. /\ k - 1 \in 0..3 /\ k \in 0..3 /\ k - 1 \in Int
      /\ Len(Added(k)) = k /\ Len(Added(k - 1)) = k - 1
      /\ Added(k - 1) \in Seq({"table", "region", "class"})
      /\ \A i \in 1..(k - 1) : /\ i \in 1..k /\ Added(k)[i] = Action(i)
                               /\ Added(k - 1)[i] = Action(i)
                               /\ Action(i) \in {"table", "region", "class"}
  <2>1. k - 1 \in 0..3 /\ k \in 0..3 /\ k - 1 \in Int
        /\ \A i \in 1..(k - 1) : i \in 1..k
    OBVIOUS
  <2>2. \A i \in 1..(k - 1) : Action(i) \in {"table", "region", "class"}
    BY DEF Action
  <2> QED BY <2>1, <2>2, AddedList
<1> DEFINE s == SubSeq(Added(k), 1, k - 1)
<1>2. /\ s \in Seq({"table", "region", "class"}) /\ Len(s) = k - 1
      /\ \A i \in 1..(k - 1) : s[i] = Added(k)[i]
  <2>1. /\ s \in Seq({"table", "region", "class"})
        /\ Len(s) = IF 1 <= k - 1 THEN (k - 1) - 1 + 1 ELSE 0
        /\ \A i \in 1..((k - 1) - 1 + 1) : s[i] = Added(k)[1 + i - 1]
    BY <1>1, SubSeqProperties
  <2> HIDE DEF s
  <2>2. \A i \in 1..(k - 1) : i \in 1..((k - 1) - 1 + 1) /\ 1 + i - 1 = i
    OBVIOUS
  <2>3. ASSUME NEW i \in 1..(k - 1) PROVE s[i] = Added(k)[i]
    <3>1. s[i] = Added(k)[1 + i - 1]
      BY <2>1, <2>2
    <3>2. 1 + i - 1 = i
      BY <2>2
    <3> QED BY <3>1, <3>2
  <2> QED BY <2>1, <2>3
<1> HIDE DEF s
<1>3. \A i \in 1..Len(s) : s[i] = Added(k - 1)[i]
  BY <1>1, <1>2
<1>4. s = Added(k - 1)
  BY <1>1, <1>2, <1>3, SeqEqual
<1> QED BY <1>4 DEF s

\* devm_release_action of the device numbers, the youngest entry there is.
LEMMA UnlistedRegion ==
    ASSUME devres = Added(2), Unlist("region")
    PROVE  devres' = Added(1)
<1>1. /\ Len(Added(2)) = 2 /\ Added(2)[1] = Action(1)
      /\ Added(2) \in Seq({"table", "region", "class"})
  BY AddedList
<1>2. PICK i \in 1..2 : /\ Added(2)[i] = "region"
                        /\ devres' = SubSeq(Added(2), 1, i - 1) \o SubSeq(Added(2), i + 1, 2)
  BY <1>1 DEF Unlist
<1>3. i = 2
  BY <1>1, <1>2 DEF Action
<1>4. devres' = SubSeq(Added(2), 1, 2 - 1) \o SubSeq(Added(2), 3, 2)
  BY <1>2, <1>3
<1>5. SubSeq(Added(2), 1, 2 - 1) = Added(2 - 1) /\ SubSeq(Added(2), 3, 2) = <<>>
  BY ReleasedLast, SubSeqEmpty
<1>6. Added(1) \o <<>> = Added(1)
  BY AddedList, ConcatEmptySeq
<1> QED BY <1>4, <1>5, <1>6

-----------------------------------------------------------------------------
(* Every step keeps the invariant *)

USE DEF UpPC

\* What TypeOK says without the list.
ScalarsOK ==
    /\ at \in {"idle", "region", "regionaction", "class", "classaction", "debugfs",
               "again", "detach"} \cup UpPC
    /\ table \in {"null", "live", "dangling"}
    /\ region \in {"free", "nv", "other"}
    /\ class \in {"null", "err", "ours"}
    /\ devm \in BOOLEAN /\ created \in BOOLEAN /\ devt \in BOOLEAN /\ managed \in BOOLEAN
    /\ debugfs \in {0, 1}
    /\ stage \in [Slot -> {"none", "cdev", "in", "hidden"}]
    /\ binds \in 0..MaxBinds

Stages ==
    /\ ScalarsOK /\ StageHolds
    /\ devm => DevresDepth
    /\ ~devm => PlainHolds

\* The list of devres actions is of the type TypeOK gives it at every stage.
LEMMA StagesAreInv == Stages <=> DriverInv
<1>1. Stages => devres \in Seq({"table", "region", "class"})
  <2>1. \A k \in 0..3 : Added(k) \in Seq({"table", "region", "class"})
    BY AddedList
  <2>2. Stages => \E k \in 0..3 : devres = Added(k)
    BY DEF Stages, ScalarsOK, DevresDepth, PlainHolds
  <2> QED BY <2>1, <2>2
<1> QED BY <1>1 DEF Stages, ScalarsOK, DriverInv, TypeOK

\* What devm_add_action and devm_release_action do at each stage.
LEMMA ListSteps ==
    /\ Append(Added(0), "table") = Added(1)
    /\ Append(Added(1), "region") = Added(2)
    /\ Append(Added(2), "class") = Added(3)
<1>1. Action(1) = "table" /\ Action(2) = "region" /\ Action(3) = "class"
  BY DEF Action
<1> QED BY <1>1, AddedOne

\* Nothing is registered when the module is loaded.
LEMMA DriverInit == Init => Stages
<1>1. Init => ScalarsOK
  <2>1. 0 \in 0..MaxBinds
    BY DriverAssumption
  <2>2. Init => binds \in 0..MaxBinds
    BY <2>1 DEF Init
  <2>3. Init => \A b \in {devm, created, devt, managed} : b \in BOOLEAN
    BY Zenon DEF Init
  <2> QED BY <2>2, <2>3, Zenon DEF Init, ScalarsOK
<1>2. Init => StageHolds
  BY DEF Init, StageHolds
<1>3. Init => DevresDepth /\ PlainHolds
  BY AddedList DEF Init, DevresDepth, PlainHolds
<1> QED BY <1>1, <1>2, <1>3 DEF Stages

\* kcalloc, register_chrdev_region and their failures.
LEMMA TableAndRegion ==
    ASSUME Stages, AllocTable \/ TakeRegion \/ TakeRegionFails PROVE Stages'
<1>1. CASE AllocTable
  <2>1. binds' \in 0..MaxBinds
    BY <1>1, DriverAssumption DEF AllocTable, Stages, ScalarsOK
  <2>2. ScalarsOK'
    BY <1>1, <2>1 DEF AllocTable, Failed, Stages, ScalarsOK, numberVars, classVars
  <2>3. StageHolds'
    BY <1>1 DEF AllocTable, Failed, Stages, StageHolds, numberVars, classVars
  <2>4. devm' => DevresDepth'
    <3>1. SUFFICES ASSUME devm' PROVE DevresDepth'
      OBVIOUS
    <3>2. /\ devm /\ at = "idle" /\ devres = Added(0) /\ region # "nv"
          /\ region' = region /\ managed'
      BY <1>1, <3>1 DEF AllocTable, Stages, StageHolds, DevresDepth, numberVars
    <3>3. CASE at' = "region" /\ devres' = Append(devres, "table")
      BY <3>2, <3>3, ListSteps DEF DevresDepth
    <3>4. CASE at' = "detach" /\ devres' = devres /\ table' = "null"
      BY <3>2, <3>4 DEF DevresDepth
    <3> QED BY <1>1, <3>2, <3>3, <3>4 DEF AllocTable, Failed
  <2>5. ~devm' => PlainHolds'
    BY <1>1 DEF AllocTable, Failed, Stages, PlainHolds, numberVars, classVars
  <2> QED BY <2>2, <2>3, <2>4, <2>5 DEF Stages
<1>2. CASE TakeRegion
  <2>1. ScalarsOK' /\ StageHolds'
    BY <1>2 DEF TakeRegion, Step, Stages, ScalarsOK, StageHolds, classVars
  <2>2. devm' => DevresDepth'
    BY <1>2 DEF TakeRegion, Step, Stages, DevresDepth, classVars
  <2>3. ~devm' => PlainHolds'
    BY <1>2 DEF TakeRegion, Step, Stages, PlainHolds, classVars
  <2> QED BY <2>1, <2>2, <2>3 DEF Stages
<1>3. CASE TakeRegionFails
  <2>1. ScalarsOK' /\ StageHolds'
    BY <1>3 DEF TakeRegionFails, Failed, Step, Stages, ScalarsOK, StageHolds, numberVars,
       classVars
  <2>2. devm' => DevresDepth'
    BY <1>3 DEF TakeRegionFails, Failed, Step, Stages, StageHolds, DevresDepth, numberVars,
       classVars
  <2>3. ~devm' => PlainHolds'
    BY <1>3 DEF TakeRegionFails, Failed, Step, Stages, PlainHolds, numberVars, classVars
  <2> QED BY <2>1, <2>2, <2>3 DEF Stages
<1> QED BY <1>1, <1>2, <1>3

\* class_create and the error paths behind it: the numbers go back, at most the
\* table is left to devres.
LEMMA ClassAndRegion ==
    ASSUME Stages,
           \/ CreateClass \/ PlainClassFails \/ DevmClassFails \/ ReleaseRegionAgain
    PROVE  Stages'
<1>1. CASE CreateClass
  BY <1>1 DEF CreateClass, Step, Stages, ScalarsOK, StageHolds, DevresDepth, PlainHolds,
     numberVars
<1>2. CASE PlainClassFails
  BY <1>2 DEF PlainClassFails, NoRegion, Step, Stages, ScalarsOK, StageHolds, DevresDepth,
     PlainHolds
<1>3. CASE DevmClassFails
  <2>1. devres' = Added(1)
    BY <1>3, UnlistedRegion DEF DevmClassFails, Step, Stages, DevresDepth
  <2> QED
    BY <1>3, <2>1 DEF DevmClassFails, NoRegion, Step, Stages, ScalarsOK, StageHolds,
       DevresDepth, PlainHolds
<1>4. CASE ReleaseRegionAgain
  BY <1>4 DEF ReleaseRegionAgain, NoRegion, Step, Stages, ScalarsOK, StageHolds,
     DevresDepth, PlainHolds, classVars
<1> QED BY <1>1, <1>2, <1>3, <1>4

\* devm_add_action, or its failure, which runs the action at once.
LEMMA Actions == ASSUME Stages, AddRegionAction \/ AddClassAction PROVE Stages'
<1>1. CASE AddRegionAction
  <2>1. ScalarsOK' /\ StageHolds'
    BY <1>1 DEF AddRegionAction, NoRegion, Step, Stages, ScalarsOK, StageHolds, classVars
  <2>2. devm' => DevresDepth'
    <3> SUFFICES ASSUME devm PROVE DevresDepth'
      BY <1>1 DEF AddRegionAction
    <3>1. /\ at = "regionaction" /\ devres = Added(1) /\ table' = table
          /\ managed' /\ region = "nv"
      BY <1>1 DEF AddRegionAction, Step, Stages, StageHolds, DevresDepth
    <3>2. CASE at' = "class"
      <4>1. devres' = Added(2)
        BY <1>1, <3>1, <3>2, ListSteps DEF AddRegionAction, Step
      <4> QED BY <3>1, <3>2, <4>1 DEF DevresDepth
    <3>3. CASE at' = "detach"
      <4>1. devres' = Added(1) /\ region' # "nv"
        BY <1>1, <3>1, <3>3 DEF AddRegionAction, Step, NoRegion
      <4> QED BY <3>3, <4>1 DEF DevresDepth
    <3> QED BY <1>1, <3>2, <3>3 DEF AddRegionAction, Step
  <2> QED BY <1>1, <2>1, <2>2 DEF Stages, AddRegionAction
<1>2. CASE AddClassAction
  <2>1. ScalarsOK' /\ StageHolds'
    <3>1. ScalarsOK'
      BY <1>2 DEF AddClassAction, NoRegion, Step, Stages, ScalarsOK, classVars
    <3>2. /\ at = "classaction" /\ table = "live" /\ region = "nv" /\ class = "ours"
          /\ created /\ debugfs = 0 /\ \A i \in Slot : stage[i] = "none"
      BY <1>2 DEF AddClassAction, Step, Stages, StageHolds
    <3>3. UNCHANGED <<table, debugfs, stage>>
      BY <1>2 DEF AddClassAction
    <3>4. \/ at' = "debugfs" /\ UNCHANGED <<class, created, region>>
          \/ at' = "again" /\ region' = "free"
      BY <1>2 DEF AddClassAction, NoRegion, Step, classVars
    <3>5. CASE at' = "debugfs" /\ UNCHANGED <<class, created, region>>
      BY <3>1, <3>2, <3>3, <3>5 DEF StageHolds
    <3>6. CASE at' = "again" /\ region' = "free"
      BY <3>1, <3>2, <3>3, <3>6 DEF StageHolds
    <3> QED BY <3>4, <3>5, <3>6
  <2>2. devm' => DevresDepth'
    BY <1>2, ListSteps, UnlistedRegion
       DEF AddClassAction, NoRegion, Step, Stages, StageHolds, DevresDepth
  <2> QED BY <1>2, <2>1, <2>2 DEF Stages, AddClassAction
<1> QED BY <1>1, <1>2

\* nv_char_debugfs_init and the devices, one at a time.
LEMMA Devices ==
    ASSUME Stages,
           \/ InitDebugfs
           \/ \E i \in Slot : \/ RegisterDevice(i) \/ DeviceReady(i) \/ DeviceFails(i)
                              \/ HideDevice(i) \/ DelCdev(i)
    PROVE  Stages'
<1>1. CASE InitDebugfs
  <2>1. debugfs' \in {0, 1}
    BY <1>1 DEF InitDebugfs, Step, Stages, StageHolds
  <2> QED
    BY <1>1, <2>1 DEF InitDebugfs, Step, Stages, ScalarsOK, StageHolds, DevresDepth,
       PlainHolds, numberVars, classVars
<1>2. ASSUME NEW i \in Slot, \/ RegisterDevice(i) \/ DeviceReady(i) \/ DeviceFails(i)
                             \/ HideDevice(i) \/ DelCdev(i)
      PROVE  Stages'
  <2>1. PICK l \in {"none", "cdev", "in", "hidden"} :
            stage' = [stage EXCEPT ![i] = l]
    BY <1>2 DEF RegisterDevice, DeviceReady, DeviceFails, HideDevice, DelCdev, StageGoto
  <2>2. stage' \in [Slot -> {"none", "cdev", "in", "hidden"}]
    BY <2>1 DEF Stages, ScalarsOK
  <2>3. at \in {"ready", "devices"}
    BY <1>2 DEF RegisterDevice, DeviceReady, DeviceFails, HideDevice, DelCdev, StageGoto,
       Stages, StageHolds
  <2>4. UNCHANGED <<devm, at, table, region, devt, class, created, managed, devres,
                    debugfs, binds>>
    BY <1>2 DEF RegisterDevice, DeviceReady, DeviceFails, HideDevice, DelCdev,
       numberVars, classVars
  <2> QED
    BY <2>2, <2>3, <2>4 DEF Stages, ScalarsOK, StageHolds, DevresDepth, PlainHolds
<1> QED BY <1>1, <1>2

\* The steps of nv_char_driver_unregister and of its devm variant.
LEMMA Unregistration ==
    ASSUME Stages,
           BeginUnregister \/ FreeTable \/ ExitDebugfs \/ DestroyClass \/ ReleaseRegion
    PROVE  Stages'
<1>1. CASE BeginUnregister
  BY <1>1 DEF BeginUnregister, Step, Stages, ScalarsOK, StageHolds, DevresDepth,
     PlainHolds, numberVars, classVars
<1>2. CASE FreeTable
  BY <1>2 DEF FreeTable, Step, Stages, ScalarsOK, StageHolds, DevresDepth,
     PlainHolds, numberVars, classVars
<1>3. CASE ExitDebugfs
  <2>1. debugfs' = 0
    BY <1>3 DEF ExitDebugfs, Stages, ScalarsOK
  <2> QED
    BY <1>3, <2>1 DEF ExitDebugfs, Step, Stages, ScalarsOK, StageHolds, DevresDepth,
       PlainHolds, numberVars, classVars
<1>4. CASE DestroyClass
  BY <1>4 DEF DestroyClass, Step, Stages, ScalarsOK, StageHolds, DevresDepth,
     PlainHolds, numberVars
<1>5. CASE ReleaseRegion
  <2>1. ScalarsOK'
    BY <1>5 DEF ReleaseRegion, Failed, NoRegion, Step, Stages, ScalarsOK
  <2>2. ~devm => region' = NoRegion /\ ~created'
    BY <1>5 DEF ReleaseRegion, Step, Stages, PlainHolds
  <2>3. StageHolds'
    BY <1>5, <2>2 DEF ReleaseRegion, Failed, NoRegion, Step, Stages, StageHolds
  <2>4. devm' => DevresDepth'
    <3>1. SUFFICES ASSUME devm' PROVE DevresDepth'
      OBVIOUS
    <3>2. /\ devm /\ at = "regionexit" /\ at' = "detach" /\ table' = table
          /\ region' = IF ~managed /\ devt THEN NoRegion ELSE region
          /\ devres' = devres
      BY <1>5, <3>1 DEF ReleaseRegion, Failed, Step
    <3>3. devres = Added(3) /\ managed /\ region = "nv"
      BY <3>2 DEF Stages, StageHolds, DevresDepth
    <3>4. 3 \in 0..3 /\ devres' = Added(3) /\ (region' = "nv" <=> 3 >= 2)
      BY <3>2, <3>3
    <3> QED BY <3>2, <3>4 DEF DevresDepth
  <2>5. ~devm' => PlainHolds'
    BY <1>5, <2>2 DEF ReleaseRegion, Failed, Step, Stages, PlainHolds
  <2> QED BY <2>1, <2>3, <2>4, <2>5 DEF Stages
<1> QED BY <1>1, <1>2, <1>3, <1>4, <1>5

\* devres_release_all: the class, the numbers and the table, in this order.
LEMMA Detaching == ASSUME Stages, ReleaseOne \/ Detached PROVE Stages'
<1>1. CASE ReleaseOne
  <2>1. devm /\ at = "detach" /\ at' = "detach" /\ devm' = devm
    BY <1>1 DEF ReleaseOne, Stages, PlainHolds
  <2>2. PICK k \in 0..3 : devres = Added(k) /\ (region = "nv" <=> k >= 2)
                          /\ (table = "live" => k >= 1)
    BY <2>1 DEF Stages, DevresDepth
  <2>3. k \in 1..3 /\ Len(devres) = k /\ devres[Len(devres)] = Action(k)
    <3>1. k # 0
      BY <1>1, <2>2, AddedList DEF ReleaseOne
    <3>2. k \in 1..3 /\ k \in 1..k
      BY <3>1
    <3> QED BY <2>2, <3>2, AddedList
  <2>4. devres' = Added(k - 1) /\ k - 1 \in 0..3
    BY <1>1, <2>2, <2>3, ReleasedLast DEF ReleaseOne
  <2>5. /\ Action(k) = "region" => region' = NoRegion
        /\ Action(k) # "region" => region' = region
        /\ Action(k) = "table" => table' # "live"
        /\ table' = "live" => table = "live"
    BY <1>1, <2>3 DEF ReleaseOne
  <2>6. (region' = "nv" <=> k - 1 >= 2) /\ (table' = "live" => k - 1 >= 1)
    BY <2>2, <2>3, <2>5 DEF Action, NoRegion
  <2>7. ScalarsOK'
    BY <1>1 DEF ReleaseOne, NoRegion, Stages, ScalarsOK
  <2>8. StageHolds'
    BY <1>1, <2>1 DEF ReleaseOne, Stages, StageHolds
  <2>9. DevresDepth'
    BY <2>1, <2>4, <2>6 DEF DevresDepth
  <2> QED BY <2>1, <2>7, <2>8, <2>9 DEF Stages
<1>2. CASE Detached
  <2>1. devm /\ at = "detach" /\ at' = "idle"
    BY <1>2 DEF Detached, Step, Stages, PlainHolds
  <2>2. PICK k \in 0..3 : devres = Added(k) /\ (region = "nv" <=> k >= 2)
                          /\ (table = "live" => k >= 1)
    BY <2>1 DEF Stages, DevresDepth
  <2>3. k = 0
    BY <1>2, <2>2, AddedList, EmptySeq DEF Detached
  <2>4. region # "nv" /\ table # "live"
    BY <2>2, <2>3
  <2> QED
    BY <1>2, <2>1, <2>2, <2>3, <2>4 DEF Detached, Stages, ScalarsOK, StageHolds, DevresDepth,
       numberVars, classVars
<1> QED BY <1>1, <1>2

\* The other driver takes numbers that are free, and only those.
LEMMA OtherDriver == ASSUME Stages, OtherTakes \/ OtherGives PROVE Stages'
BY DEF OtherTakes, OtherGives, NoRegion, Stages, ScalarsOK, StageHolds, DevresDepth,
   PlainHolds, classVars

\* Each step of a registration, of its undoing and of the other driver.
LEMMA DriverNext == Stages /\ [Next]_vars => Stages'
<1>1. Stages /\ UNCHANGED vars => Stages'
  BY DEF vars, numberVars, classVars, Stages, ScalarsOK, StageHolds, DevresDepth, PlainHolds
<1> QED
  BY <1>1, TableAndRegion, ClassAndRegion, Actions, Devices, Unregistration, Detaching,
     OtherDriver
     DEF Next, Own

-----------------------------------------------------------------------------
(* The properties *)

\* Whatever fails, and whatever the other driver does.
THEOREM DriverInvariant == Spec => []DriverInv
<1> QED BY DriverInit, DriverNext, StagesAreInv, PTL DEF Spec

\* The states of drv->devices, drv->class and nv_char_debugfs_refcnt: the
\* reference count of the debugfs root is never more than the one driver's.
THEOREM DriverTypeOK == Spec => []TypeOK
<1>1. DriverInv => TypeOK
  BY DEF DriverInv
<1> QED BY <1>1, DriverInvariant, PTL

\* nv_char_driver_register, nv_char_driver_register_devm and the unregistration
\* give the table, the numbers and the debugfs reference back on every path.
THEOREM DriverIdleHoldsNothing == Spec => []IdleHoldsNothing
<1>1. DriverInv => IdleHoldsNothing
  BY AddedList DEF DriverInv, StageHolds, DevresDepth, PlainHolds, IdleHoldsNothing,
     IdleHasNoClass
<1> QED BY <1>1, DriverInvariant, PTL

\* nv_char_driver_unregister and its devm variant are done with every device
\* before they free the table, destroy the class and give the numbers back, and
\* devres runs later still.
THEOREM DriverDevicesInLiveDriver == Spec => []DevicesInLiveDriver
<1>1. DriverInv => DevicesInLiveDriver
  BY DEF DriverInv, StageHolds, DevicesInLiveDriver
<1> QED BY <1>1, DriverInvariant, PTL

\* unregister_chrdev_region goes by the numbers: it runs only while this driver
\* has them, but for the second call of nv_char_devm_chrdev_release.
THEOREM DriverOthersKeepRegion == Spec => OthersKeepRegion
<1>1. ASSUME Stages, [Next]_vars
      PROVE  [region = "other" /\ region' # "other" =>
                  OtherGives \/ (devm /\ ReleaseRegionAgain)]_vars
  <2>1. SUFFICES ASSUME Next, region = "other", region' # "other",
                        ~(devm /\ ReleaseRegionAgain)
                 PROVE  OtherGives
    BY <1>1
  <2>2. at \notin {"regionaction", "class", "classaction"} \cup UpPC
    BY <1>1, <2>1 DEF Stages, StageHolds
  <2>3. ~ReleaseRegionAgain
    BY <1>1, <2>1 DEF ReleaseRegionAgain, Step, Stages, PlainHolds
  <2>4. ReleaseOne => region' = region
    <3>1. SUFFICES ASSUME ReleaseOne PROVE devres[Len(devres)] # "region"
      BY DEF ReleaseOne
    <3>2. devm /\ at = "detach"
      BY <1>1, <3>1 DEF ReleaseOne, Stages, PlainHolds
    <3>3. PICK k \in 0..3 : devres = Added(k) /\ ~(k >= 2)
      BY <1>1, <2>1, <3>2 DEF Stages, DevresDepth
    <3>4. k = 1
      BY <3>1, <3>3, AddedList DEF ReleaseOne
    <3>5. 1 \in 0..3 /\ 1 \in 1..1
      OBVIOUS
    <3> QED BY <3>3, <3>4, <3>5, AddedList DEF Action
  <2>5. Own => region' = region
    BY <2>1, <2>2, <2>3, <2>4 DEF Own, AllocTable, TakeRegion, TakeRegionFails,
       AddRegionAction, CreateClass, PlainClassFails, DevmClassFails, AddClassAction,
       InitDebugfs, RegisterDevice, DeviceReady, DeviceFails, HideDevice, DelCdev,
       BeginUnregister, FreeTable, ExitDebugfs, DestroyClass, ReleaseRegion, Detached,
       Step, numberVars
  <2> QED BY <2>1, <2>5 DEF Next, OtherTakes
<1> QED BY <1>1, DriverInit, DriverNext, PTL DEF Spec, OthersKeepRegion
=============================================================================
