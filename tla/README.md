# A verification project for LinuxDriverFramework

LinuxDriverFramework is a set of small helper layers ("nv_X") over the Linux driver
subsystems, each with one or more example modules. This directory holds TLA+ models of
the layers' control, TLC configurations that check them on small instances, and proofs
that TLAPS checks for every value of the constants. `PROJECT.json` maps each definition
to the lines it models.

The framework runs inside the kernel. What the kernel does around it (the VFS, the
module loader, `wait_event_timeout`, devres, ...) is modelled only as far as the source
uses it and is marked *external* in the map.

## 1. Inventory

| Part | State | Operations | Hard because | What makes it correct |
|---|---|---|---|---|
| **char: cdev lifetime** `char/driver/core/nv_char.c` | `opens`, `removing`, `registered`, `release_wq`, the module's reference count | open, file operations, release, register, unregister (flag, wait up to 10 s, `cdev_del`) | open races unregister without a lock; the wait may time out; rmmod; failed registration | references pair up; the module exits under no file, unless its own registration failed; the drain misses nobody; no callback on a freed `priv`; no lost wake-up; open and unregister return |
| **char: miscdevice path** same file | the same and `misc_mtx` | misc_open, misc_register, misc_deregister | the mutex is held around `->open` while unregister wants it | as above, even when unregistered from a live module |
| **char: driver registration** same file | device numbers, class, device table, devres list, debugfs count | `nv_char_driver_register[_devm]`, `..._unregister[_devm]`, device slots | each step may fail; devres undoes in reverse order; two variants | every resource taken is given back exactly once |
| **char: example I/O** `nv_char_echo/demo/plat/misc_echo.c` and the read/write/poll/ioctl entries of the core | message buffer and length, file positions, poll queue | read, write, poll, ioctl, iter variants | several descriptors; poll against write; copies that fault half way | a reader sees a whole message; a sleeping poller is woken |
| **block** `block/driver/core/nv_block.c`, `nv_block_ram.c` | disk table, capacity, RAM buffer under a lock | register, unregister, submit_bio, open, release, ioctl | open disks at unregister and rmmod; a bio of several segments | no bio in freed memory; no sector mixes two writes; insmod and rmmod return |
| **net** `net/driver/core/nv_net.c`, `nv_net_dummy.c` | netdev table, mtu, statistics | register, unregister, open, stop, xmit, change_mtu | optional callbacks; recursion into the core; counters without a lock | callbacks find the device; no transmission goes uncounted; a change of the MTU ends |
| **pwm** `pwm/driver/core/nv_pwm.c`, demo | period, duty, enabled of a channel | config, enable, get_config, chip register/unregister | enable reads and writes back without a lock | the chip keeps a state that fits; a lone enable changes the flag only |
| **pci** `bus/pci/driver/core/nv_pci.c`, demo | enable state, BAR maps, irq | probe, remove, request/free irq, suspend, resume | undo of partial probes; handler against remove | no handler after its data is gone |
| **usb** `bus/usb/driver/core/nv_usb.c`, demo | interface, cached endpoints, pm count | probe, disconnect, transfers, select_altsetting, find_endpoints, autopm | two cached copies of what the device has, no lock; suspend count per device | a transfer uses an endpoint of the setting in force; the remembered setting is the device's |
| **i2c / spi / sdio** `bus/{i2c,spi,sdio}` | client data, cached register, host claim | probe, remove, register read/write, sysfs | sysfs against remove and against itself | readers find the private data; after a lone store the copy equals the register |
| **uart** `bus/uart` | port type, fifo and flip buffer, port lock | startup, shutdown, config_port, start_tx, push_rx | callbacks run under the port lock; stop and start between them | what is sent comes back once and in order; a sleeping writer is woken |
| **can** `bus/can` | netdev, bit rate, socket buffers | xmit, loopback, open, close | who frees which buffer on which way out | each buffer is consumed once, but for the copy netif_rx drops; the interface outlives its callbacks |
| **adc (IIO)** `iio/adc` | channel values | register, read_raw, write_raw | callbacks against module exit | callbacks find the device; a failed load leaves nothing |
| user-space test programs `*/app` | none | manual tests | | not modelled: they hold no state of the framework |
| tracepoints, build files | | | | not modelled |

How the parts interact: each example module links its own copy of the core object, hands
a table of callbacks to it and is called back by the kernel through the core's own tables
(`nv_char_fops`, `nv_block_bdops`, ...). The parts share no state with each other; within
a part the threads of user space, sysfs and the module loader meet.

## 2. Plan

Order: what every example module runs through first, then the layers by how much their
control can go wrong.

| Step | Modules | Composes | State |
|---|---|---|---|
| 1 | `NvCharLife` (abstract), `NvCharOpen`, `NvCharDev`, `NvCharMisc` and their proofs | both paths extend NvCharOpen and implement NvCharLife | done |
| 2 | `NvCharDriver` | the resources around one device of step 1 | done, with `NvCharDriverProofs` |
| 3 | `NvMailbox` (abstract), `NvCharIo` | NvCharIo implements NvMailbox | done, with `NvCharIoProofs` |
| 4 | `NvBlock`, `NvBlockProofs` | disk, loader and bios; implements NvCharLife | done |
| 5 | `NvBind` | probe, remove and module life of eleven layers, one table each; implements NvCharLife | done, with `NvBindProofs` |
| 6 | `NvAttr`, `NvPwm`, `NvSharedProofs` | what threads share without a lock | done |
| 7 | `NvNetif`, `NvUart`, `NvUsb`, and `MCNvShared` over these and step 6 | what the callbacks of NvBind do with data: transmission and ownership of buffers, MTU, bit rate, the echo under the port lock, alternate settings and endpoints | done, with `NvSharedProofs` |

Abstract specifications: the lifetime of a device (`NvCharLife`), which the two char
paths, the disk and the entries of NvBind implement, and the message buffer
(`NvMailbox`).

Runs: one for each question; a second one of a module only where liveness needs a
smaller instance, another way of use answers differently, or a text of the repository is
contradicted. Two or three actors each, because every property relates one actor to one
other (opener and unregistering thread, holder of a lock and intruder, poller and
writer); the third shows that a property does not depend on there being two. Buffers,
tables and disks have one or two entries, which is where "full", "empty" and "in between"
differ.

Every safety property of a run that passes is a theorem (section 9); what is left to TLC
is liveness. Theorems also go beyond the runs where the instance of a run is only one way
to use the code: what a hidden device is safe from, and which single step breaks the open
count or takes another driver's numbers, is proved for any constants.

A next step would be the pollers of a device that is being removed (nv_char.c:747), which
needs NvCharIo with more than one registration.

## 3. The character device

### NvCharOpen: what both paths share

One TLA+ step is one access to shared state. A member of `File` is a `struct file` with
the thread that uses it, `pc[f]` says where it is; `drv` is the one thread that registers
and unregisters. The thread of an open(2) goes

    closed -VfsOpen-> chk1 -CheckRemoving-> get -TryModuleGet-> chk2 -RecheckRemoving->
    inc -IncOpens-> cbopen -OpenCallback-> open

through `nv_char_open` and `nv_char_acquire_open`; close(2) goes
`open -> cbrel -> dec -> wake -> put -> fput -> closed` through `nv_char_release` and
`nv_char_release_open`, with `dec` and `wake` two steps as in the source. The
unregistering thread goes `u_flag -> u_hide -> u_enq -> u_chk (-> u_sleep) -> u_del ->
free`. `opens`, `removing`, `registered` are the fields of the same names; `refcnt` and
`modState` are the module's (`try_module_get`, `module_put`, `delete_module`); `waiter` is
the entry on `release_wq`; `buf` says whether the memory behind `dev->priv` is allocated;
`timedout` records that the last unregister printed its warning instead of finding
nobody.

The kernel's part: `chrdev_open` and `misc_open` pin the module of the file operations
until `__fput`; `wait_event_timeout` queues itself before it tests, and tests once more
when the timer fires; `delete_module` proceeds only with no reference left, and
`try_module_get` fails from then on.

### NvCharDev, NvCharMisc: the two paths

*NvCharDev* adds `cdev_add`, `cdev_del`, the failure of `device_create` after the device
was published, and no lock at all. It also tells the two callers apart (`InitRegisters`):
nv_char_echo, nv_char_demo and nv_char_selftest register in module init, and when that
fails so does module init, and the loader frees the module whatever its reference count
(`InitReturns` to `going`); nv_char_plat registers in probe, whose failure leaves the
module loaded. *NvCharMisc* adds `mtx`, the kernel's `misc_mtx`, held
from `misc_open` until the driver's open has returned and taken by `misc_register` and
`misc_deregister`.

### NvCharLife: the promise

The abstract specification: a set of users that grows only while the phase is `live`, a
device that closes to new users, then becomes `dead` with no user or `abandoned` with
some. `ImplementsLife` of NvCharMisc is that specification under a refinement mapping (`users`
are the counted descriptors); `ImplementsLifeUnlessFailed` of NvCharDev is the same up to
a registration that fails after `cdev_add`, which leaves users to a dead device.

### What the runs show

| Run | Instance | Result |
|---|---|---|
| `char_exit` | 3 files, registered by module init, which may fail, unregistered by module exit only | `opens` exact; no descriptor without priv, no module freed under a file and refinement of NvCharLife, except after a module init whose own registration failed |
| `char_live` | 3 files, 2 registrations in probe, unbind, failures | module references exact whatever happens to `opens`, the module exits alone, an operation finds priv, no wake-up is lost, every unregister returns |
| `misc_unreg` | 3 files, 2 registrations, unbind, failure | `DrainedMeansClosed`, `CallbackHasPriv`, the refinement and termination |
| `char_ghost` | 2 files | **violated**: an open counted after the drain (nv_char.c:70) |

The counts of the misc path (`RefcntExact`, `ExitAlone`, `OpensCountsFds`) need no run:
section 9 has them as theorems.

The misc path has not the window of the cdev path because `misc_deregister` waits for
the open(2) in progress: that is `MutexCoversOpen` and `NoGhostOpen`, which section 9
proves.

`AfterWarning` says whether a device whose last wait was given up may be registered again.
In `misc_unreg` it is FALSE, which leaves out what the next paragraph describes; both
registrations may end in a wait that is given up.

Two more behaviours of the cdev path are in the model and are no findings. A device that
is registered again after a wait that was given up resets `opens` under the descriptors
still open (nv_char.c:690), so `OpensCountsFds` is false with `MaxBinds = 2`; section 9
shows that nothing else makes it false. No module of the tree gets there (see below).
When `device_create` or `device_create_file` fails (nv_char.c:701-716), a descriptor that
was opened after `cdev_add` survives with `removing` clear. A probe that fails frees
`dev->priv` under it, but the module stays loaded and its reference count exact
(`char_live`). A module init that fails frees `dev->priv` and the module's memory under it
(nv_char_echo.c:110-124, nv_char_demo.c:197-209, nv_char_selftest.c:77-83): `ExitPrivSafe`
and `ExitAloneUnlessInitFailed` except exactly this, and `char_exit` reaches it (with
`ExitAlone` in the place of the latter TLC stops there). No text of the repository speaks
of it. A thread that is inside the module when it is freed takes no further step of it
(`Loaded`).

**Bounds.** Three files: two are the least that compete for the count, the third shows a
descriptor that is opened, one open and one being released at once. Two registrations are
enough for a count to survive into the next one. `MaxBinds` bounds only the number of
registrations, nothing else is bounded. Files are interchangeable, so `char_ghost`,
which has no temporal property, uses symmetry.

**In-tree use.** The echo, demo, selftest and misc_echo modules unregister only in module
exit (`CanUnbind = FALSE`); nv_char_plat is unbound through sysfs too. A second
registration does not happen in nv_char_plat as it stands, because its second probe fails
on the class the first one leaked; the API allows it.

**Fairness.** Weak fairness of each kernel thread that is inside the framework (it runs
or is woken, a kernel thread is not stopped for ever) and of the timer. Nothing is assumed
of user space: a file may stay open and an operation may sleep for ever. On the misc path
strong fairness of the steps that take `misc_mtx`, because a kernel mutex queues its
waiters and hands itself over.

## 4. The resources of a char driver: NvCharDriver

`nv_char_driver_register` (`devm` false) and `nv_char_driver_register_devm` (`devm` true;
which of the two a module calls is fixed at the start) take, in this order, the device table, the device numbers, the class and a
reference on the debugfs directory. `at` is the next step; every step may fail, and each
failure is an action that undoes what the source undoes there. With the devm variant the
undoing goes on in the driver core (`at = "detach"`): `ReleaseOne` takes the youngest
entry off `devres` and runs it, which is `nv_char_devm_class_release`,
`nv_char_devm_chrdev_release` or the freeing of the table. `OtherTakes` and `OtherGives`
are another driver that wants the same numbers: `unregister_chrdev_region` goes by the
numbers, so a release that comes twice may hit the other driver. `stage` says how far each
device is: `cdev_add` done (`cdev`), in `drv->devices` with its node (`in`), out of both
and waiting for its descriptors (`hidden`); what the files do meanwhile is NvCharDev. The
unregistration of the driver is one action per step of the source: `BeginUnregister`, the
loop over the devices (`HideDevice` and `DelCdev` of each), `FreeTable`, `ExitDebugfs`,
`DestroyClass`, `ReleaseRegion`. `RegisterDevice` has the guard `at = "ready"`, which
nv_char.c:672-676 does not test: it is what the callers do, each of which registers its
device only when its own call of `nv_char_driver_register` or its devm variant returned 0. nv_char_selftest's
sequence is a behaviour of this module.

| Run | Result |
|---|---|
| `char_driver` | `IdleHoldsNothing`: whenever the driver is idle, table, numbers, devices and debugfs reference are back, and without devres the class too; `DevicesInLiveDriver`: through each step of the unregistration a device has the table, the class and the numbers it still uses; another driver keeps its numbers but for the second release described below |
| `char_driver_leak` | **violated**: with devres the class survives the unbind (nv_char.c:657) |

`OthersKeepRegion` names the one step that may take the numbers from another driver: the
error path of `class_create` with devres releases them through `devm_release_action`,
which calls the action, and then once more directly (`ReleaseRegionAgain`, nv_char.c:620,
621 and 631, 632); between the two, another driver may have taken them. The repository
says nothing about it, so it is recorded here and not as a finding.

Bounds: `MaxBinds` registrations, one more than needed for what one leaves behind to meet
the next; three device indexes. The runs may stop (`CHECK_DEADLOCK FALSE`) when the bound
is reached and nothing is left to do. Registrations are serialised by the driver core and
the module loader; no fairness is used.

## 5. The message buffer: NvMailbox, NvCharIo

*NvMailbox* is the promise of the demo, echo, plat and misc_echo modules: one message,
replaced by a write in one moment; a read returns a piece of it, `GET_LEN` its length,
`poll` reports data only when it is not empty. With `Faults` a write that fails keeps the
length and may spoil the bytes.

*NvCharIo* is the code. A thread's call passes `nv_char_fops` (`ReadEnter`, `WriteEnter`,
`PollEnter`, `IoctlEnter`, or `Refused`: the device is being removed, the callback is
missing, the command is unknown), takes `priv->lock`, copies one cell per step, each of
which may fault, and unlocks. `ops` (the table the device was registered
with) says whether it is nv_char_demo, which resets the position after
a write, has `poll`, `GET_LEN` and `CLEAR`; otherwise it is nv_char_echo, whose write
leaves the position behind the message. nv_char_plat and nv_char_misc_echo have the echo
callbacks over again (nv_char_plat does not wake, which nobody can notice: it has no
poll). A cell is a pair of the write it belongs to and its index, so that cells of two
messages can be told apart. `stored` is a history variable, the message as the last
complete change left it; it is what the refinement mapping gives NvMailbox for `msg`, and
`BufferHoldsMessage` ties it to the buffer.

`poll(2)` is the kernel's loop: an entry on `dev->wq` first (`PollAdd`), then the test,
then sleep unless triggered in between, then the test again.

readv and writev reach the callbacks with a kernel buffer in the place of the `__user`
pointer (nv_char.c:180, 220), so the copy in the callback faults at its first byte: readv
returns no data ever, and writev clears the message and fails. They are the cases of
`ReadFault` and `WriteFault` with nothing copied.

| Run | Instance | Result |
|---|---|---|
| `char_io` | 2 threads, 2 cells, 2 writes, both tables, faults | `BufferHoldsMessage`, `NoLostPoll`; implements NvMailbox |
| `char_io_live` | 2 threads, 1 cell, 2 writes | `PollReturns`, `CallReturns` |

Two cells are the least with which a copy can be interrupted between bytes; counts go up to
one more than the buffer, where the callbacks truncate. `MaxWrites` bounds the writes, not
the other calls. Two threads are enough because every property relates the holder of the
lock, or a poller, to one other thread. Liveness does not depend on the cells, so its run
has one.

Fairness: weak for a thread inside a call; strong for the steps that take `priv->lock`,
which a kernel mutex hands to its waiters in turn. None for what user space calls, for the
time-out of `poll` and for the removal of the device. `PollReturns` is about data that
stays. It says nothing of removal, and could not: `nv_char_device_unregister` does not
wake `dev->wq`, so a sleeping poller is not told.

## 6. The disk: NvBlock

One disk, registered by `ram_init` and unregistered by `ram_exit`, and the bios that
threads with an open block device submit.

The loader is one thread; `at` is its next step. Loading goes
`out -AllocData-> drv -DriverRegister-> alloc -AllocDisk-> add -AddDisk-> slot -FillSlot->
live`, and each step that may fail goes on with the error path of the source. Unloading
goes `live -Rmmod-> x_slot -ClearSlot-> x_dead -MarkDead-> x_wait -QueueFrozen-> x_put
-PutDisk-> x_drv -DriverUnregister-> x_data -FreeData-> out`; from `live` the loader may
also go straight to `x_drv`, which is a module that leaves its disk to
`nv_block_driver_unregister` and so comes back to `x_slot`. `data`, `table`, `slot`,
`disk` and `registered` are `priv->data`, `drv->devices`, the entry in it, `dev->disk` and
`dev->registered`.

A bio is a range of sectors. `Submit` lets it in (external: `bio_queue_enter` and
`bio_check_eod`, so it fits the disk), `NextSegment` takes the spinlock for one segment,
`CopyHalf` and `CopyRest` are the memcpy in two parts, `DropLock` goes on to the next
segment, `SubmitReturns` is the end of the loop or `BLK_STS_IOERR`, `EndBio` is
`bio_endio`. Each sector is a pair of the bios that wrote its halves.

The block core asks no module reference of this driver, because its operations name no
owner: `Rmmod` has no guard about descriptors, and `Close` may come after `FreeData`. What
protects a bio is the wait in `del_gendisk` alone, and the run shows that it is enough:

| Property of `block_ram` | Says |
|---|---|
| `BioHasData` | a bio in the driver finds the RAM buffer and the disk |
| `NothingHalfDone` | a failed load and an unload leave nothing; a load leaves nothing out |
| `SegmentsWhole` | bios interleave, but no sector and no segment read mixes two writes |
| `ImplementsLife` | the abstract lifetime of section 3, with the bios as users and a wait that is never given up |
| `BioEnds`, `LoaderReturns` | every bio is ended; insmod and rmmod return, whatever stays open |

Bounds: two bios, because every property relates the copying one to one other actor; two
sectors, so that a bio has a second segment and two bios may overlap in part. Nothing else
is bounded. Fairness: weak for the loader and for a thread within a bio (kernel code runs
on); strong for taking the spinlock, which is a queued one. None for submitting, opening,
closing, loading and unloading.

## 7. Registrations and probes: NvBind

The layers net, can, pwm, adc and uart register a device with the kernel in module init;
the drivers of i2c, spi, sdio, pci and usb do it in probe. All of them have the same
control, so there is one module, and each layer is a set of tables read off its source:
`XTakes`, what probe or init takes in which order; `XUndo(x)`, what the error path gives
back by hand when taking `x` fails; `XGives`, what remove or exit gives back; `XWalk`,
what a callback looks at, in this order. `layer` picks the layer and never changes.

The actions carry the tables out. `Take`, `TakeFails` (not for what cannot fail, `Sure`),
`Bound`; `Remove`, and then `GiveBack` for each thing on the list. What comes from a devm_
or pcim_ function is `Managed`: after the driver's own part (`DriverDone`) devres gives it
back, the youngest first (external). Giving back the `entry` (`unregister_netdev`,
`pwmchip_remove`, `devm_free_irq`, the removal of the attribute group, ...) is two steps:
`CloseEntry` lets nobody in any more, and it returns when nobody is inside (external).
Callbacks enter as soon as the entry exists, which is before probe returns. A pointer that
is NULL ends a callback with -ENODEV; anything else it gets to has to be there.

| Property of `bind` | Says |
|---|---|
| `CallbackFindsMemory` | whatever the order of remove, devres and callbacks, a callback has all the memory it has got to |
| `GivesBackExactly` | a failed probe and a removed device leave nothing, and nothing is given back twice |
| `ImplementsLife` | each entry lives as NvCharLife says, its users the callbacks |
| `BindReturns` | probe and remove return |

The examples of pci and usb have no callbacks besides probe and remove; for pci a second
layer, `pciirq`, is a driver that requests an interrupt with the nv_pci device as the
handler's data, which is what nv_pci_free_irq expects.

Bounds: two threads in callbacks; the tables are of the source's length. Fairness: weak
for the driver core and for each callback that is inside.

## 8. Shared data: NvAttr, NvPwm, NvNetif, NvUart, NvUsb

What callbacks do with the data of a layer, once NvBind has let them in. The five modules
have no state in common.

*NvAttr* is the sysfs attribute `reg` of the i2c, spi and sdio examples: the register of
the device and the copy in `priv->reg`. i2c and spi set the copy and then the register
(`KeepThenSend`, `SendLast`), sdio the other way round and in a show too (`SendFirst` or
`Fetch`, then `KeepLast`); a transfer may fail, with or without effect. Races make copy
and register differ; what holds is `CopyTracksDevice`: a call that overlaps no other and
succeeds brings them together, and they stay so until the next store. `lone` and `agreed`
are history variables that say when that is the case.

*NvPwm* is one channel of nv_pwm_demo. `Config` and `Enable` begin the two calls, `Apply`
takes the lock of the chip (external: `pwm_apply_might_sleep`) and `CopyField` copies the
new state field by field in any order, as a structure assignment may. `nv_pwm_enable`
reads the state without the lock (`ReadField`), so it may read parts of two. What holds:
the chip never keeps a duty cycle above its period, and the PWM core knows what the chip
has (`KeepsFitState`); an enable between whose begin and end nothing else was applied
changes only the flag (`LoneEnableKeepsConfig`). Otherwise it may take back a
nv_pwm_config that came in between (nv_pwm.c:69 to 79). `alone` is the history variable.

*NvNetif* is transmission on `nv0` (nv_net_dummy) and `nvcan0` (nv_can_demo), with the
configuration that leads there. `cpu[c]` says where each CPU is in the driver's
`start_xmit`; `frame` and `loopback` say who has the socket buffer and the copy that
nv_can_demo loops back (`Refuse`, `CopyFrame`, `NetifRx`, `FreeCopy`, `FreeFrame` are the
ways out of `demo_start_xmit`); `LoadStat` and `StoreStat` are one `stats.tx_packets++`.
`NetOpen`, `NetStop`, `SetBitrate`, `SetMtu` and `ChangeMtu` run under the rtnl lock, which
serialises them. External, and assumed: the core transmits on one queue of an interface at
a time (`HARD_TX_LOCK`), and dev_close waits for the transmitters. `OnlyDroppedCopyFreedTwice`:
every way out consumes the frame once and keeps no copy, and a copy is freed twice exactly
when netif_rx dropped it.
`StatsExact`: without a lock of its own the driver misses no frame, because
the interfaces have one transmit queue.

A copy that netif_rx *drops* is freed by netif_rx and then again by the driver
(nv_can.c:66, nv_can_demo.c:83): a double free, which the model has (`rxDropped`, `Freed`
of a buffer that is freed already is `twice`). The property says which copies it happens
to. The repository says nothing of it, so it is recorded here and not as a finding.

*NvUart* is the port of nv_uart_demo. `Write`, `UartWrite`, `WaitWoken` and `Woken` are a
writing thread in `n_tty_write` and `uart_write`; `EchoByte` and `EndTx` are
`demo_start_tx`, which runs under the port lock on behalf of the writer or of the thread
that starts the output again (`StartTty`, `UartStart`, `StartWakes`); `PushRx` and
`PushRxDone` are `nv_uart_push_rx`; `Deliver` is the line discipline. `UartOpen`, `SetType`
and `ConfigPort` follow the type of the port, because `uart_open` starts up only a port
that has one. Bytes have the numbers in which they were accepted, so that `EchoInOrder`
can say: none twice, none out of order, none lost without being counted, and nothing left
unpushed when nobody is at it. `WriterWoken`: a writer sleeps only while the fifo is full
and the output is stopped or about to be started. Assumed: TIOCSERCONFIG is called while
nobody writes, closing waits for the threads. Every character is inserted with the
arguments `TTY_NORMAL` and `1` exchanged (nv_uart_demo.c:39), that is with the flag
TTY_BREAK; a raw tty takes the bytes whatever their flags, another one reads NULs instead
(`raw`, `Deliver`). The property counts; it does not promise the value to a tty that is not raw.

*NvUsb* is what nv_usb remembers of its interface: the alternate setting and a parsed
endpoint address, with several threads in `nv_usb_select_altsetting`,
`nv_usb_find_endpoints` and `nv_usb_bulk_in`, none of which takes a lock.
`RemembersDevice` says when the two are right in spite of that: the setting, when the last
select overlapped no other; the address, when a parse met no change of the setting and no
other parse, and nothing of the kind came between it and the transfer. `sole`, `tied`,
`parsed` and `calm` are the history variables of these two clauses. Outside them the code
relies on its callers.

`MCNvShared` puts the five together; a behaviour moves the parts in `moving`.

| Run | Instance | Result |
|---|---|---|
| `shared` | each part alone | the eight properties above |
| `uses` | nv_net, nv_can and nv_uart together | **violated**: three documented uses all fail as the modules come |

The run `uses` stands for three findings. An echo of bytes written to /dev/ttyNV0
(nv_uart_demo.c:5): the port is added with no type (nv_uart.c:206), so it is not started
up and every write fails until something sets a type. `ip link set nvcan0 up type can
bitrate 1000000` (nv_can_demo.c:8): nobody sets the clock from which the bit timing is
computed (nv_can.c:163), so no bit rate is accepted and the interface does not open.
`change_mtu` as an optional callback (net/driver/README.md:50): without it
`nv_net_change_mtu` and `dev_set_mtu` call each other until the stack is full
(nv_net.c:77; `StackDepth` calls in the model). `SomeDocumentedUseWorks` says that not all
three fail, so its violation shows each one.

Bounds. `attr` and `pwm`: two threads, which is what a race takes; three register values
(the initial one and two to store); periods and duty cycles to 2, so that there is a state
that fits, one that does not, and two that fit but do not fit each other. `netif`: three
CPUs (two interfaces, and one CPU to contend), four frames (a counter that was missed
stays wrong, so more frames add nothing), a stack of three calls. `uart`: a fifo and a
flip buffer of two, four bytes and one other character, so that both run full and over.
`usb`: three threads, because a select may overlap two others; settings 0 (no bulk-in
endpoint), 1 and 2. Safety only, no fairness. Deadlock is
checked: something can always be opened, closed or called again.

## 9. Proofs

*NvCharOpenProofs* shows that each action keeps `RefInv` = `TypeOK`, `RefcntExact`, and on
the misc path `ModuleInv`, which adds `ExitAlone` and `ComingIsUnused`. `RefcntExact` (the count equals the cardinality of two sets
of files) rests on `MoveIn`, `MoveOut` and `MoveAside`: what moving one file between
program points does to such a cardinality. `ExitAlone` follows from `RefcntExact` at
`Rmmod`, the one place where `refcnt = 0` is tested; `ComingIsUnused` is needed for the
module init that fails in `misc_register`.

*NvCharDevProofs* and *NvCharMiscProofs* put the actions together. For any number of
files, any bound on the registrations, with or without unbinds and failures:
`RefcntExact` of both paths, `ExitAlone` and `MutexCoversOpen` of the misc path, and
`ExitAloneUnlessInitFailed` of the cdev path. Its invariant `LoadInv` follows
`dev->removing` (`FlagFollowsDriver`), which tells a registration that failed from an
unregistration, and says that a module whose init has not returned has unregistered
nothing. `DevExitAlone` is `ExitAlone` itself, when a probe registers the device or no
registration fails; for a failing module init it is false.

`ShutIsShut` of the misc path also holds for any constants: from `misc_deregister` to the
next `misc_register` nobody is on the way in (`MutexCoversOpen` at `MiscDeregister`). From
it `NoGhostOpen`.

What the drain promises depends on how the device is used: `Orderly` is that it is
registered once (`MaxBinds = 1`, as nv_char_misc_echo does) or not again after a wait that
was given up (`AfterWarning` false). The inductive invariant is then `MiscInv`: it adds
that the count is exact, what the drain established and that it lasts until the next
`misc_register` (`DrainHolds`, which makes the reset of `opens` harmless), and that the
sleeping drain is woken (`SleeperIsWoken`; a closing thread of the previous registration
may still be on its way to the wake-up). From it `OpensCountsFds`, `DrainedMeansClosed`,
`CallbackHasPriv`, and that MiscSpec implements NvCharLife, through any number of
registrations.

The cdev path keeps less beyond its first registration, and two theorems say how much, for
any constants. `DevFlagStopsOpens`: while `removing` is set nobody is granted an open but
those who had passed the second look, so the descriptor that `char_ghost` counts too late
is one of these. `DevOnlyResetMiscounts`: the count stays exact until
`RegisterResetOpens` meets a descriptor that survived.

For a cdev that only module exit unregisters (`ExitOnly`) the invariant is `ExitInv`: the
unregistration belongs to a module that is going, hence (`ExitAlone`) there is no file, so
the drain ends at its first test. From it `OpensCountsFds`, `ExitPrivSafe`,
`ExitNeverSleeps` and the refinement of NvCharLife. Without `ExitOnly` these are false, or
need the excuse of the time-out: see `char_ghost`. Failing registrations are included,
with the descriptors they leave behind excepted in `ExitPrivSafe`; the refinement
(`DevImplementsLifeUnlessFailed`) ends with such a failure, after which nothing is
registered any more (`FailedForGood`): the abstract device has no users once it is dead.

*NvBlockProofs*: `BlockInv` says what each stage of the loader has (`LoaderHas`, `DiskIs`),
that a bio is in the driver only while the disk is added or `del_gendisk` waits
(`UsersHaveDisk`), that who copies has the lock, that a sector with two different halves
is one a bio is in the middle of writing (`TornIsWritten`), and what a bio has copied so
far (`CopiedHalf`). `UsersHaveDisk` is the heart: `QueueFrozen` is the only step that ends
the wait, and it needs an empty queue. From `BlockInv` follow `BioHasData`,
`NothingHalfDone`, `SegmentsWhole` and the refinement of NvCharLife, for any number of
threads and sectors.

*NvSharedProofs* has the invariants of the five modules about what callbacks share, one
after the other.

- NvAttr: the invariant ties the history to the state. At most one call is lone, no other
  runs while it does; once it has set one of copy and register, that one is its value.
  From it `CopyTracksDevice`, for any threads and values.
- NvPwm: `PwmInv` says that who copies holds the lock of the chip, that the PWM core's
  state fits and equals the chip's when nobody copies, that what has been copied is what
  was asked for, and that an `nv_pwm_enable` nobody came between has read the core's state
  field by field. From it `KeepsFitState` and `LoneEnableKeepsConfig`, for any threads and
  periods.
- NvNetif: `NetifInv` says which buffers the driver has at each of its lines
  (`HasItsBuffers`), that the lock of the only transmit queue lets one CPU in
  (`OneSender`), and where the counter lags behind by one (`CounterFollows`). From it
  `OnlyDroppedCopyFreedTwice` and `StatsExact`, for any CPUs and frames.
- NvUsb: `UsbInv` says what a select that no other overlapped has established
  (`SoleSelects`, `TiedIsEqual`) and that an undisturbed transfer has the address of the
  last parse (`CalmTransfers`). From it `RemembersDevice`, for any threads and settings.
- NvUart: `UartInv` follows the bytes from the fifo over the flip buffer to the reader:
  each part is in order and before the next, no number exceeds those accepted
  (`WayInOrder`), everything is counted (`AllCounted`) and pushed (`AllPushed`). A writer
  that is between its test and its sleep is covered like one asleep (`WaiterHasWaker`):
  `WriterWoken` alone is not inductive. The lemmas on sequences (`AppendInOrder`, `TailInOrder`,
  `ContinuesInOrder`, `ConcatInOrder`) say what moving a byte to the next buffer does to the
  order. For any sizes of the buffers and any number of bytes.

*NvCharDriverProofs*: `DriverInv` says what each step of a registration has (`StageHolds`)
and, with devres, that the list is exactly the first *k* of the three actions
(`DevresDepth`), so that the driver core, which runs it from the end, gives back what there
is. `Unlist` (devm_release_action) takes the youngest of two away, hence the prefix stays a
prefix. Without devres `PlainHolds` adds that a class that exists is the one of the
current registration. While devres runs, the action of the numbers is on the list exactly
as long as the driver has them; hence `OthersKeepRegion`, step by step, with
`ReleaseRegionAgain` as the one exception. `IdleHoldsNothing` and `DevicesInLiveDriver`
(the table goes only when no device is left in it, the class and the numbers only after
the table) follow too, for any devices and registrations.

*NvCharIoProofs*: `IoInv` adds to `MutexHeld` how far each copy got: what the writer in
the critical section has copied is in the buffer and the rest is still the message
(`WriterCells`), what a reader has copied is a piece of the message (`ReaderCells`), and
the lengths stay within what was asked for (`CallFits`). Steps outside the critical
section are treated at once (`Outside`): they touch neither buffer nor lock. `NoLostPoll`
needs `PollersQueued`: who tests or sleeps is on the wait queue already, so the write that
comes in between wakes it. That NvCharIo implements NvMailbox is shown step by step: the
unlocking steps and the last tests of poll map to the operations of the mailbox, all
others to stuttering. For any threads, any size of the buffer and any number of writes.

*NvBindProofs* separates the tables from what is done with them. `TablesFit` is a
condition on the tables alone: every error path gives back, each thing once, what was
taken before it and devres does not manage; the module exit or remove does so for all; the
memory callbacks use is taken before the entry they come through and given back after it.
It is shown for each of the eleven layers (`NetFits` to `UsbFits`), which is where a layer
with a wrong error path would fail. From it alone `BindInv` is shown inductive: what is
held is what the phase says (`PhaseHolds`), and callbacks are in an entry whose memory is
there (`EntryHolds`). From it `CallbackFindsMemory`, `GivesBackExactly` and the refinement
of NvCharLife, for any threads and any number of probes and removals.

*NvCharDevProofs* also has `OnceInv`, which allows unbinds and failing registrations. Its
conjuncts on `dev->opens` speak of the first registration only (`binds <= 1`), because the
second resets the counter under surviving descriptors; the properties `NoLostWakeup` and
`OpNeverUsesFreedPriv` have the same condition, and hold for any files and any bound.
`DrainedHasNoOp` is the heart: a drain that succeeded leaves no operation running, and
`dev->removing` lets none start.

The assumptions are those named in the modules: the files are finitely many, the bounds
on registrations, on the buffer of nv_demo, on the fifo and the flip buffer are positive,
those on writes, frames and bytes are natural numbers, the switches are Booleans, 0 is an
alternate setting, two calls fit the stack; a disk has a sector; `NoFile`, `Blank` and
`Nobody` are not files, bios or threads.

Two remarks on the provers. The leaves are small on purpose: each is proved in a fraction
of its time limit, so that a slower machine proves them too. And tlapm 1.4.5 does not
treat an `EXCEPT` correctly that changes two fields below one index and uses `@` in both
(`[f EXCEPT ![x].a = @ + 1, ![x].b = @ - 1]`): it proves FALSE from one. No module has the
construct; `DropLock` of NvBlock writes the record out.

Model-checked only: the properties under fairness, `UnregisterTerminates` of
both char paths, `OpenReturns` of the misc path, `PollReturns`, `CallReturns`, `BioEnds`,
`LoaderReturns` and `BindReturns`. Their proofs would have to reason about the ENABLED of
the fair actions, which the prover does not do. Contradictions of what the repository says
are counterexamples, and so are runs by nature.

## 10. Not modelled

Parts of modelled layers. Autosuspend of two interfaces of one USB device
(nv_usb.c:166): the last probe or disconnect decides, and no driver of the tree asks for
it. Interrupts with other data than the nv_pci device (nv_pci.c:171), suspend and resume of
PCI: the example has neither. `nv_spi_set_speed` and `nv_spi_set_mode` (nv_spi.c:51, 62),
which keep the new value when `spi_setup` refuses it, and claiming the SDIO host, which the
example never does: nothing in the tree calls them. The raw values of the adc example are
an array of integers that one callback reads or writes in one access; there is nothing to
interleave. Tables with several devices: no module of the tree has a second one outside
the char layer. Callbacks that only pass on to the kernel or to the driver and keep no
state (modem control, termios, MAC address, receive mode, statistics copies).

Memory layout: `nv_can_netdev_register` gives `alloc_candev` the size of its own
structure only, but lays `struct can_priv` and its own structure behind it into that area
(nv_can.c:16, 147), over what the CAN core keeps there. NvNetif and NvBind take them for
separate. Likewise module code that is entered after its module has gone
(nv_block.c:70), and the stack beyond its end.

Left out for good: the user-space
test programs and the build files (no state of the framework), tracepoints, debugfs file
contents and log text (no property is about them), device-tree matching, the value formats
of sysfs files. Memory ordering: `removing` is written with `smp_mb()` after it and
`opens` changed with fully ordered atomics, so the interleaving semantics of TLA+ is the
one the code gets; the weaker ordering of the plain `dev->registered` is only ever used by
one thread at a time.

What stays with TLC in any case: liveness and fairness.
