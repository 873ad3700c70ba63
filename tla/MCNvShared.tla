----------------------------- MODULE MCNvShared -----------------------------
(***************************************************************************)
(* What threads, CPUs and callbacks share in the layers around the char    *)
(* and block devices, checked in one run.  The parts have no state in      *)
(* common: "moving" says which of them move in a behaviour, the others     *)
(* stay in one initial state.                                              *)
(***************************************************************************)
EXTENDS NvAttr, NvPwm, NvNetif, NvUart, NvUsb

CONSTANT Moving     \* the sets of parts that move together, of "attr", "pwm",
                    \* "netif", "uart" and "usb"

VARIABLE moving

SharedInit ==
    /\ moving \in Moving
    /\ AttrInit /\ PwmInit /\ NetifInit /\ UartInit /\ UsbInit
    /\ "attr" \notin moving => bus = "i2c" /\ reg = 0
    /\ "netif" \notin moving => ~clocked /\ ~mtuOp
    /\ "uart" \notin moving => ~raw
    /\ "usb" \notin moving => cur = 0

SharedNext ==
    /\ moving' = moving
    /\ \/ /\ "attr" \in moving /\ AttrNext
          /\ UNCHANGED <<pwmVars, netifVars, uartVars, usbVars>>
       \/ /\ "pwm" \in moving /\ PwmNext
          /\ UNCHANGED <<attrVars, netifVars, uartVars, usbVars>>
       \/ /\ "netif" \in moving /\ NetifNext
          /\ UNCHANGED <<attrVars, pwmVars, uartVars, usbVars>>
       \/ /\ "uart" \in moving /\ UartNext
          /\ UNCHANGED <<attrVars, pwmVars, netifVars, usbVars>>
       \/ /\ "usb" \in moving /\ UsbNext
          /\ UNCHANGED <<attrVars, pwmVars, netifVars, uartVars>>

SharedSpec ==
    SharedInit /\ [][SharedNext]_<<moving, attrVars, pwmVars, netifVars, uartVars, usbVars>>

\* Three uses the repository documents: "bytes written are echoed back to the
\* reader" (nv_uart_demo.c:5), "ip link set nvcan0 up type can bitrate 1000000"
\* (nv_can_demo.c:8, bus/can/README.md:42), and the callback change_mtu, which
\* is "optional" (net/driver/README.md:50).  This is what each of the three
\* implies: they do not all fail, one after the other, as the modules come.
SomeDocumentedUseWorks ==
    ~(~known /\ wrote = "EIO" /\ rate = "refused" /\ depth = StackDepth)
=============================================================================
