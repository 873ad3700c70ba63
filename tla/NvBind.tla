------------------------------- MODULE NvBind -------------------------------
(***************************************************************************)
(* The life of a device in the layers that are registrations with the      *)
(* kernel: net, can, pwm, adc, uart, and the drivers of the i2c, spi,      *)
(* sdio, pci and usb buses, each with its example module.  What a probe or *)
(* a module init takes, in which order, what the error path gives back     *)
(* when a step fails and what remove or module exit gives back are tables, *)
(* one set for each layer, read off the source; the actions carry them out *)
(* against callbacks that run at any time between registration and         *)
(* unregistration.                                                         *)
(*                                                                         *)
(* "entry" is the registration that lets callbacks in.  "drvdata" and      *)
(* "privptr" are the pointers callbacks test; the rest is memory, or a     *)
(* state of the device.  What comes from a devm_ or pcim_ function is      *)
(* managed: the driver core gives it back after remove or a failed probe,  *)
(* the youngest first.                                                     *)
(***************************************************************************)
EXTENDS Integers, Sequences, FiniteSets

CONSTANT Thread     \* threads that run callbacks

VARIABLES
    layer,      \* the layer whose example module is loaded
    at,         \* where the probing or removing thread is
    next,       \* while taking: the position in the layer's table
    todo,       \* while giving back: what is still to go
    held,       \* what is taken and not given back
    closing,    \* the entry is being removed: it lets nobody in
    pc          \* how far each thread has got in its callback; 0: outside

bindVars == <<layer, at, next, todo, held, closing>>

-----------------------------------------------------------------------------
(* net: nv_net_device_register, dummy_init, dummy_exit. *)
NetTakes == <<"table", "netdev", "name", "entry", "slot">>
NetUndo(x) ==
    CASE x = "table" -> <<>>
      [] x = "netdev" -> <<"table">>
      [] OTHER -> <<"netdev", "table">>
NetGives == <<"slot", "entry", "netdev", "table">>
NetWalk == <<"netdev">>

(* can: nv_can_netdev_register, nv_can_netdev_unregister. *)
CanTakes == <<"netdev", "entry">>
CanUndo(x) == IF x = "entry" THEN <<"netdev">> ELSE <<>>
CanGives == <<"entry", "netdev">>
CanWalk == <<"netdev">>

(* pwm: nv_pwm_chip_register, nv_pwm_chip_unregister. *)
PwmTakes == <<"chip", "entry">>
PwmUndo(x) == IF x = "entry" THEN <<"chip">> ELSE <<>>
PwmGives == <<"entry", "chip">>
PwmWalk == <<"chip">>

(* adc: nv_adc_register, demo_init, demo_exit. *)
AdcTakes == <<"pdev", "indio", "entry">>
AdcUndo(x) ==
    CASE x = "pdev" -> <<>>
      [] x = "indio" -> <<"pdev">>
      [] OTHER -> <<"indio", "pdev">>
AdcGives == <<"entry", "indio", "pdev">>
AdcWalk == <<"indio">>

(* uart: nv_uart_driver_register, nv_uart_port_add and their opposites. *)
UartTakes == <<"uartdrv", "entry">>
UartUndo(x) == IF x = "entry" THEN <<"uartdrv">> ELSE <<>>
UartGives == <<"entry", "uartdrv">>
UartWalk == <<"uartdrv">>

(* i2c: nv_i2c_probe, demo_probe, nv_i2c_remove, demo_remove. *)
\* The attribute before the private data it shows.
I2cTakesGroupFirst == <<"dev", "drvdata", "entry", "priv", "privptr">>
I2cTakes == <<"dev", "drvdata", "priv", "privptr", "entry">>
I2cUndo(x) == IF x = "dev" THEN <<>> ELSE <<"drvdata">>
I2cGives == <<"privptr", "drvdata">>
I2cWalk == <<"drvdata", "dev", "privptr", "priv">>

(* spi: the same with spi_setup, whose failure leaves the drvdata. *)
SpiTakes == <<"dev", "drvdata", "setup", "priv", "privptr", "entry">>
SpiUndo(x) == IF x \in {"dev", "setup"} THEN <<>> ELSE <<"drvdata">>
SpiGives == <<"privptr", "drvdata">>
SpiWalk == <<"drvdata", "dev", "privptr", "priv">>

(* sdio: the function is enabled before anything else of demo_probe. *)
SdioTakes ==
    <<"dev", "drvdata", "func", "blksz", "priv", "privptr", "entry">>
\* A failing demo_probe that leaves the function enabled.
SdioUndoLeavesFunc(x) == IF x = "dev" THEN <<>> ELSE <<"drvdata">>
SdioUndo(x) ==
    CASE x = "dev" -> <<>>
      [] x = "func" -> <<"drvdata">>
      [] OTHER -> <<"func", "drvdata">>
SdioGives == <<"func", "privptr", "drvdata">>
SdioWalk == <<"drvdata", "dev", "privptr", "priv">>

(* pci: nv_pci_probe with nv_pci_enable, demo_probe, nv_pci_remove.        *)
PciTakes == <<"dev", "drvdata", "pcim", "mwi", "master", "priv", "bar", "privptr">>
PciUndo(x) == IF x \in {"dev", "pcim", "mwi"} THEN <<>> ELSE <<"master">>
PciGives == <<"privptr", "master", "drvdata">>

(* pci with an interrupt: the example has none, so a probe is assumed that *)
(* ends with nv_pci_request_irq, the nv_pci_dev as the handler's data.     *)
PciIrqTakes == PciTakes \o <<"vectors", "entry">>
PciIrqUndo(x) == IF x = "entry" THEN <<"vectors", "master">> ELSE PciUndo(x)
PciIrqGives == <<"entry", "vectors">> \o PciGives
PciIrqWalk == <<"dev", "privptr", "priv", "bar">>

(* usb: nv_usb_probe with autosuspend, demo_probe, nv_usb_disconnect.      *)
UsbTakes == <<"dev", "drvdata", "alt", "pm", "priv", "privptr">>
UsbUndo(x) == IF x \in {"dev", "alt"} THEN <<>> ELSE <<"pm", "drvdata">>
UsbGives == <<"privptr", "pm", "drvdata">>
-----------------------------------------------------------------------------

Layers ==
    {"net", "can", "pwm", "adc", "uart", "i2c", "spi", "sdio", "pci", "pciirq", "usb"}

Takes ==
    [net |-> NetTakes, can |-> CanTakes, pwm |-> PwmTakes, adc |-> AdcTakes,
     uart |-> UartTakes, i2c |-> I2cTakes, spi |-> SpiTakes, sdio |-> SdioTakes,
     pci |-> PciTakes, pciirq |-> PciIrqTakes, usb |-> UsbTakes][layer]
Undo(x) ==
    [net |-> NetUndo(x), can |-> CanUndo(x), pwm |-> PwmUndo(x), adc |-> AdcUndo(x),
     uart |-> UartUndo(x), i2c |-> I2cUndo(x), spi |-> SpiUndo(x),
     sdio |-> SdioUndo(x), pci |-> PciUndo(x), pciirq |-> PciIrqUndo(x),
     usb |-> UsbUndo(x)][layer]
Gives ==
    [net |-> NetGives, can |-> CanGives, pwm |-> PwmGives, adc |-> AdcGives,
     uart |-> UartGives, i2c |-> I2cGives, spi |-> SpiGives, sdio |-> SdioGives,
     pci |-> PciGives, pciirq |-> PciIrqGives, usb |-> UsbGives][layer]

\* What a callback looks at, in this order; pci and usb alone have none.
Walk ==
    [net |-> NetWalk, can |-> CanWalk, pwm |-> PwmWalk, adc |-> AdcWalk,
     uart |-> UartWalk, i2c |-> I2cWalk, spi |-> SpiWalk, sdio |-> SdioWalk,
     pci |-> <<>>, pciirq |-> PciIrqWalk, usb |-> <<>>][layer]

\* Steps that take nothing, and steps that cannot fail.
Checks == {"name", "setup", "blksz", "alt"}
Sure == {"drvdata", "privptr", "slot", "master", "pm"}

Pointers == {"drvdata", "privptr"}
Things == {"table", "netdev", "entry", "slot", "chip", "pdev", "indio", "uartdrv",
           "dev", "drvdata", "priv", "privptr", "func", "pcim", "mwi", "master",
           "bar", "vectors", "pm"}

\* devres: the youngest managed thing goes first.
OnBus == layer \in {"i2c", "spi", "sdio", "pci", "pciirq", "usb"}
Managed == IF OnBus THEN {"dev", "priv", "entry", "pcim", "mwi", "bar"} ELSE {}
Place(x) == CHOOSE i \in DOMAIN Takes : Takes[i] = x
Youngest(x) ==
    /\ x \in held \cap Managed
    /\ \A y \in held \cap Managed : Place(y) <= Place(x)

\* dev->priv is a field of the dev.
Without(x) == held \ (IF x = "dev" THEN {"dev", "privptr"} ELSE {x})

Inside == {t \in Thread : pc[t] # 0}

Init ==
    /\ layer \in Layers
    /\ at = "unbound"
    /\ next = 0
    /\ todo = <<>>
    /\ held = {}
    /\ closing = FALSE
    /\ pc = [t \in Thread |-> 0]

-----------------------------------------------------------------------------
\* Binding.

Probe ==
    /\ at = "unbound"
    /\ at' = "taking"
    /\ next' = 1
    /\ UNCHANGED <<layer, todo, held, closing, pc>>

Take ==
    /\ at = "taking"
    /\ next <= Len(Takes)
    /\ held' = IF Takes[next] \in Checks THEN held ELSE held \cup {Takes[next]}
    /\ next' = next + 1
    /\ UNCHANGED <<layer, at, todo, closing, pc>>

TakeFails ==
    /\ at = "taking"
    /\ next <= Len(Takes)
    /\ Takes[next] \notin Sure
    /\ at' = "giving"
    /\ todo' = Undo(Takes[next])
    /\ next' = 0
    /\ UNCHANGED <<layer, held, closing, pc>>

Bound ==
    /\ at = "taking"
    /\ next > Len(Takes)
    /\ at' = "bound"
    /\ next' = 0
    /\ UNCHANGED <<layer, todo, held, closing, pc>>

-----------------------------------------------------------------------------
\* Unbinding, and the way back from a failed probe.

Remove ==
    /\ at = "bound"
    /\ at' = "giving"
    /\ todo' = Gives
    /\ UNCHANGED <<layer, next, held, closing, pc>>

\* What the driver or devres gives back next.
Going(x) ==
    \/ at = "giving" /\ todo # <<>> /\ x = Head(todo)
    \/ at = "devres" /\ Youngest(x)

\* Unregistering, or freeing the interrupt: no new callback gets in ...
CloseEntry ==
    /\ Going("entry")
    /\ ~closing
    /\ closing' = TRUE
    /\ UNCHANGED <<layer, at, next, todo, held, pc>>

\* ... without the wait for the callbacks that are still in it ...
GiveBackAtOnce(x) ==
    /\ Going(x)
    /\ x = "entry" => closing
    /\ held' = Without(x)
    /\ closing' = (closing /\ x # "entry")
    /\ todo' = IF at = "giving" THEN Tail(todo) ELSE todo
    /\ UNCHANGED <<layer, at, next, pc>>

\* ... and the call returns when the last one is out.
GiveBack(x) ==
    /\ Going(x)
    /\ x = "entry" => closing /\ Inside = {}
    /\ held' = Without(x)
    /\ closing' = (closing /\ x # "entry")
    /\ todo' = IF at = "giving" THEN Tail(todo) ELSE todo
    /\ UNCHANGED <<layer, at, next, pc>>

DriverDone ==
    /\ at = "giving"
    /\ todo = <<>>
    /\ at' = "devres"
    /\ UNCHANGED <<layer, next, todo, held, closing, pc>>

\* The driver core forgets the drvdata after devres.
Detach ==
    /\ at = "devres"
    /\ held \cap Managed = {}
    /\ at' = "unbound"
    /\ held' = IF OnBus THEN held \ {"drvdata"} ELSE held
    /\ UNCHANGED <<layer, next, todo, closing, pc>>

-----------------------------------------------------------------------------
\* Callbacks: sysfs attributes, network device operations, uart and iio
\* operations, the interrupt handler.

EnterCallback(t) ==
    /\ pc[t] = 0
    /\ "entry" \in held
    /\ ~closing
    /\ pc' = [pc EXCEPT ![t] = 1]
    /\ UNCHANGED bindVars

\* The next thing the callback looks at is there.
Look(t) ==
    /\ pc[t] \in DOMAIN Walk
    /\ Walk[pc[t]] \in Pointers => Walk[pc[t]] \in held
    /\ pc' = [pc EXCEPT ![t] = @ + 1]
    /\ UNCHANGED bindVars

\* A callback that looks again and again for a pointer that is NULL.
LeaveCallbackRetries(t) ==
    /\ pc[t] # 0
    /\ pc[t] \in DOMAIN Walk =>
           Walk[pc[t]] \in Pointers /\ Walk[pc[t]] \notin held
    /\ pc' = [pc EXCEPT ![t] = IF @ \in DOMAIN Walk THEN 1 ELSE 0]
    /\ UNCHANGED bindVars

\* A pointer is NULL, -ENODEV, or the callback is through.
LeaveCallback(t) ==
    /\ pc[t] # 0
    /\ pc[t] \in DOMAIN Walk =>
           Walk[pc[t]] \in Pointers /\ Walk[pc[t]] \notin held
    /\ pc' = [pc EXCEPT ![t] = 0]
    /\ UNCHANGED bindVars

-----------------------------------------------------------------------------
BindStep ==
    \/ Take \/ TakeFails \/ Bound
    \/ CloseEntry \/ (\E x \in Things : GiveBack(x)) \/ DriverDone \/ Detach
CallbackStep(t) == Look(t) \/ LeaveCallback(t)

Next ==
    \/ Probe \/ Remove \/ BindStep
    \/ \E t \in Thread : EnterCallback(t) \/ CallbackStep(t)

vars == <<bindVars, pc>>
Spec == Init /\ [][Next]_vars

\* The driver core and the callbacks run on.
Fairness == WF_vars(BindStep) /\ \A t \in Thread : WF_vars(CallbackStep(t))
FairSpec == Spec /\ Fairness

-----------------------------------------------------------------------------
TypeOK ==
    /\ layer \in Layers
    /\ at \in {"unbound", "taking", "bound", "giving", "devres"}
    /\ next \in Nat
    /\ todo \in Seq(Things)
    /\ held \subseteq Things
    /\ closing \in BOOLEAN
    /\ pc \in [Thread -> Nat]

\* A callback finds all the memory it has got to, in each layer, whenever the
\* device is removed or the module exits: what lets callbacks in goes first,
\* given back first (nv_pci.c:226) or as the youngest managed thing, after
\* remove has cleared the pointers readers test (nv_i2c_demo.c:93, :110).
CallbackFindsMemory ==
    \A t \in Inside : \A i \in DOMAIN Walk :
        i <= pc[t] /\ Walk[i] \notin Pointers => Walk[i] \in held

\* A probe that failed, at any step, and a removed device leave nothing behind,
\* and neither gives back what it does not have.
GivesBackExactly ==
    /\ at = "unbound" => held = {}
    /\ \A x \in Things : Going(x) => x \in held

\* Probe and remove return, whatever the callbacks do: no callback waits for
\* what the remove that waits for it has taken away.
BindReturns == at \notin {"unbound", "bound"} ~> at \in {"unbound", "bound"}

entryPhase ==
    IF "entry" \notin held THEN "dead" ELSE IF closing THEN "closing" ELSE "live"

Life == INSTANCE NvCharLife WITH File <- Thread, users <- Inside, phase <- entryPhase

\* An entry lives as a character device does, its users the callbacks in it.
ImplementsLife == Life!Spec
=============================================================================
