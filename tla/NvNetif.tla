------------------------------ MODULE NvNetif ------------------------------
(***************************************************************************)
(* What the callbacks of the network layers do: nv_net_dummy on nv_net     *)
(* ("nv0") and nv_can_demo on nv_can ("nvcan0") under the transmitting     *)
(* CPUs, with the configuration that leads there: open and stop, the MTU   *)
(* of nv0, the bit rate of nvcan0.                                         *)
(*                                                                         *)
(* One step is one access to what CPUs share, or one change of hands of a  *)
(* buffer.  The networking core (transmit lock, dev_open, dev_close,       *)
(* dev_set_mtu, CAN bit timing) is external.  Registration is in NvBind.   *)
(***************************************************************************)
EXTENDS Integers, FiniteSets

CONSTANTS
    Cpu,        \* the CPUs that transmit
    MaxFrames,  \* bound: frames handed to the drivers
    StackDepth  \* bound: nested calls of ndo_change_mtu that fit the stack

ASSUME NetifAssumption == MaxFrames \in Nat /\ StackDepth \in Nat \ {0, 1}

VARIABLES
    up,         \* the interface is up (IFF_UP)
    queue,      \* its transmit queues are not stopped
    clocked,    \* the driver has set the clock of its CAN controller
    rate,       \* what became of the bit rate user space asked for
    mtuOp,      \* the driver of nv0 has a change_mtu callback
    mtu,        \* netdev->mtu of nv0
    askedMtu,   \* the MTU dev_set_mtu is called for
    depth,      \* calls of nv_net_change_mtu on the stack
    cpu,        \* where each CPU is
    on,         \* the transmit queue it has locked
    frame,      \* who has the frame it transmits
    loopback,   \* who has the copy that nv_can_demo loops back
    rxDropped,  \* netif_rx has dropped that copy
    seen,       \* the value of the counter it has loaded
    txPackets,  \* netdev->stats.tx_packets
    passed,     \* frames the driver has counted and consumed
    handed      \* frames handed to the drivers

ifVars == <<up, queue, clocked, rate>>
mtuVars == <<mtuOp, mtu, askedMtu, depth>>
txVars == <<cpu, on, frame, loopback, rxDropped, seen, txPackets, passed, handed>>
netifVars == <<ifVars, mtuVars, txVars>>

Iface == {"nv0", "nvcan0"}
Mtu == 1..2

\* kfree_skb of a buffer the driver has, or of one that is freed already.
Freed(b) == IF b = "driver" THEN "freed" ELSE "twice"

-----------------------------------------------------------------------------
(* Faults a plausible edit of the code would introduce. *)

\* alloc_etherdev_mqs with two transmit queues.
TwoTxQueues == 1..2

\* The drop label is left out.
RefuseLeaks(c) ==
    /\ cpu[c] = "check"
    /\ cpu' = [cpu EXCEPT ![c] = "idle"]
    /\ UNCHANGED <<on, frame, loopback, rxDropped, seen, txPackets, passed, handed, ifVars, mtuVars>>

-----------------------------------------------------------------------------
(* Configuration, under rtnl_lock *)

\* The transmit queues of an interface (alloc_etherdev_mqs, alloc_candev).
TxQueues == {1}

\* dummy_open starts the queue; open_candev needs a bit rate.
NetOpen(i) ==
    /\ ~up[i]
    /\ i = "nvcan0" => rate = "set"
    /\ up' = [up EXCEPT ![i] = TRUE]
    /\ queue' = IF i = "nv0" THEN [queue EXCEPT ![i] = TRUE] ELSE queue
    /\ UNCHANGED <<clocked, rate, mtuVars, txVars>>

\* dev_close waits for the transmitters, then dummy_stop stops the queue.
NetStop(i) ==
    /\ up[i]
    /\ \A c \in Cpu : cpu[c] # "idle" => on[c][1] # i
    /\ up' = [up EXCEPT ![i] = FALSE]
    /\ queue' = IF i = "nv0" THEN [queue EXCEPT ![i] = FALSE] ELSE queue
    /\ UNCHANGED <<clocked, rate, mtuVars, txVars>>

\* can_changelink: the kernel computes the bit timing from cpriv->clock.freq,
\* which nv_can leaves 0; no bit rate is near enough to the one of that clock.
SetBitrate ==
    /\ ~up["nvcan0"]
    /\ rate' = IF clocked THEN "set" ELSE "refused"
    /\ UNCHANGED <<up, queue, clocked, mtuVars, txVars>>

\* dev_set_mtu: nothing to do for the MTU in force, otherwise ndo_change_mtu.
SetMtu(m) ==
    /\ depth = 0
    /\ m # mtu
    /\ askedMtu' = m
    /\ depth' = 1
    /\ UNCHANGED <<mtuOp, mtu, ifVars, txVars>>

\* nv_net_change_mtu: the callback sets the MTU; without one dev_set_mtu,
\* which finds the MTU unchanged and comes back here.
ChangeMtu ==
    /\ depth \in 1..(StackDepth - 1)
    /\ IF mtuOp THEN mtu' = askedMtu /\ depth' = 0
                ELSE mtu' = mtu /\ depth' = depth + 1
    /\ UNCHANGED <<mtuOp, askedMtu, ifVars, txVars>>

-----------------------------------------------------------------------------
(* Transmission *)

CpuStep(c, from, to) == cpu[c] = from /\ cpu' = [cpu EXCEPT ![c] = to]

\* The core transmits on one queue at a time (HARD_TX_LOCK) while the
\* interface is up and the queue not stopped.
Xmit(c, i, q) ==
    /\ CpuStep(c, "idle", IF i = "nv0" THEN "load" ELSE "check")
    /\ up[i] /\ queue[i]
    /\ \A d \in Cpu : cpu[d] # "idle" => on[d] # <<i, q>>
    /\ handed < MaxFrames
    /\ handed' = handed + 1
    /\ on' = [on EXCEPT ![c] = <<i, q>>]
    /\ frame' = [frame EXCEPT ![c] = "driver"]
    /\ loopback' = [loopback EXCEPT ![c] = "none"]
    /\ rxDropped' = [rxDropped EXCEPT ![c] = FALSE]
    /\ UNCHANGED <<seen, txPackets, passed, ifVars, mtuVars>>

\* demo_start_xmit does not transmit: can_dev_dropped_skb has freed an invalid
\* frame; one that is too long, or has no memory for its copy, is dropped.
Refuse(c) ==
    /\ CpuStep(c, "check", "idle")
    /\ frame' = [frame EXCEPT ![c] = Freed(@)]
    /\ UNCHANGED <<on, loopback, rxDropped, seen, txPackets, passed, handed, ifVars, mtuVars>>

\* The copy is made ...
CopyFrame(c) ==
    /\ CpuStep(c, "check", "rx")
    /\ loopback' = [loopback EXCEPT ![c] = "driver"]
    /\ UNCHANGED <<on, frame, rxDropped, seen, txPackets, passed, handed, ifVars, mtuVars>>

\* ... and given to netif_rx, which keeps it or, when the backlog is full, frees
\* it and returns NET_RX_DROP.
NetifRx(c) ==
    /\ \/ /\ CpuStep(c, "rx", "load")
          /\ loopback' = [loopback EXCEPT ![c] = "stack"]
          /\ UNCHANGED rxDropped
       \/ /\ CpuStep(c, "rx", "rxfree")
          /\ loopback' = [loopback EXCEPT ![c] = Freed(@)]
          /\ rxDropped' = [rxDropped EXCEPT ![c] = TRUE]
    /\ UNCHANGED <<on, frame, seen, txPackets, passed, handed, ifVars, mtuVars>>

\* The result was not NET_RX_SUCCESS: the driver frees the copy as well.
FreeCopy(c) ==
    /\ CpuStep(c, "rxfree", "load")
    /\ loopback' = [loopback EXCEPT ![c] = Freed(@)]
    /\ UNCHANGED <<on, frame, rxDropped, seen, txPackets, passed, handed, ifVars, mtuVars>>

\* stats.tx_packets++ (and tx_bytes) is a load and a store.
LoadStat(c) ==
    /\ CpuStep(c, "load", "store")
    /\ seen' = [seen EXCEPT ![c] = txPackets[on[c][1]]]
    /\ UNCHANGED <<on, frame, loopback, rxDropped, txPackets, passed, handed, ifVars, mtuVars>>

StoreStat(c) ==
    /\ CpuStep(c, "store", "free")
    /\ txPackets' = [txPackets EXCEPT ![on[c][1]] = seen[c] + 1]
    /\ UNCHANGED <<on, frame, loopback, rxDropped, seen, passed, handed, ifVars, mtuVars>>

\* The frame is freed and the driver returns NETDEV_TX_OK.
FreeFrame(c) ==
    /\ CpuStep(c, "free", "idle")
    /\ frame' = [frame EXCEPT ![c] = Freed(@)]
    /\ passed' = [passed EXCEPT ![on[c][1]] = @ + 1]
    /\ UNCHANGED <<on, loopback, rxDropped, seen, txPackets, handed, ifVars, mtuVars>>

-----------------------------------------------------------------------------

\* The example of the tree has no clock for its controller, and no change_mtu
\* callback; another driver may.
NetifInit ==
    /\ up = [i \in Iface |-> FALSE]
    /\ queue = [i \in Iface |-> TRUE]
    /\ clocked \in BOOLEAN
    /\ rate = "none"
    /\ mtuOp \in BOOLEAN
    /\ mtu = 1 /\ askedMtu = 1 /\ depth = 0
    /\ cpu = [c \in Cpu |-> "idle"]
    /\ on = [c \in Cpu |-> <<"nv0", 1>>]
    /\ frame = [c \in Cpu |-> "none"]
    /\ loopback = [c \in Cpu |-> "none"]
    /\ rxDropped = [c \in Cpu |-> FALSE]
    /\ seen = [c \in Cpu |-> 0]
    /\ txPackets = [i \in Iface |-> 0]
    /\ passed = [i \in Iface |-> 0]
    /\ handed = 0

ConfigureNet ==
    \/ \E i \in Iface : NetOpen(i) \/ NetStop(i)
    \/ SetBitrate
    \/ \E m \in Mtu : SetMtu(m)
    \/ ChangeMtu

Transmit(c) ==
    \/ \E i \in Iface, q \in TxQueues : Xmit(c, i, q)
    \/ Refuse(c) \/ CopyFrame(c) \/ NetifRx(c) \/ FreeCopy(c)
    \/ LoadStat(c) \/ StoreStat(c) \/ FreeFrame(c)

NetifNext == ConfigureNet \/ \E c \in Cpu : Transmit(c)

NetifSpec == NetifInit /\ [][NetifNext]_netifVars

-----------------------------------------------------------------------------
(* Properties *)

\* Every way out of demo_start_xmit and dummy_xmit consumes the frame once and
\* keeps no copy; a copy is freed twice exactly when netif_rx has dropped it:
\* then nv_can_demo.c:83 frees what netif_rx has freed already.
OnlyDroppedCopyFreedTwice ==
    \A c \in Cpu :
        /\ frame[c] # "twice"
        /\ cpu[c] # "rxfree" => (loopback[c] = "twice" <=> rxDropped[c])
        /\ cpu[c] = "idle" => frame[c] # "driver" /\ loopback[c] # "driver"

\* stats.tx_packets, changed without a lock of the driver, misses no frame:
\* the core's lock of the only transmit queue is enough.
StatsExact ==
    \A i \in Iface :
        (\A c \in Cpu : cpu[c] # "idle" => on[c][1] # i) => txPackets[i] = passed[i]
=============================================================================
