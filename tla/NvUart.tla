------------------------------- MODULE NvUart -------------------------------
(***************************************************************************)
(* The port of nv_uart_demo on nv_uart: bytes that are written come back   *)
(* as received ones.  A thread writes, others stop and start the output   *)
(* and configure the port, and another source may receive characters       *)
(* through nv_uart_push_rx.                                                *)
(*                                                                         *)
(* The port lock, the transmit fifo, the flip buffer, the line discipline  *)
(* and the wait queue of the writer belong to the tty layer and the serial *)
(* core; they are external.  Registration is in NvBind.                    *)
(***************************************************************************)
EXTENDS Integers, Sequences

CONSTANTS
    MaxBytes,   \* bound: bytes written to an open port
    MaxRx,      \* bound: characters arrived otherwise
    FifoSize,   \* room of the transmit fifo
    FlipRoom    \* room of the flip buffer

ASSUME UartAssumption ==
    /\ {MaxBytes, MaxRx} \subseteq Nat
    /\ {FifoSize, FlipRoom} \subseteq Nat \ {0}

VARIABLES
    raw,        \* the tty is raw (the line discipline takes bytes as they are)
    known,      \* port->type is not PORT_UNKNOWN
    port,       \* the tty: "closed"; open but not started up, "dead"; "live"
    wrote,      \* the result of the last write to a dead port
    stopped,    \* the output is stopped (uart_tx_stopped)
    lock,       \* who is in demo_start_tx, under the port lock: "free" (nobody),
                \* "writer", "flow"
    fifo,       \* the transmit fifo
    flip,       \* characters in the flip buffer
    pushed,     \* how many of them have been pushed to the line discipline
    inbox,      \* characters the line discipline has received
    accepted,   \* bytes the port has accepted; byte number n is n
    arrived,    \* characters that came through nv_uart_push_rx
    dropped,    \* bytes of either kind that were dropped (icount.buf_overrun, shutdown)
    writer,     \* the writing thread: "idle", "put", "wait", "asleep"
    toPut,      \* bytes it has still to put
    woken,      \* its entry on tty->write_wait has been woken
    flow,       \* the thread that starts the output: "idle", "start", "wake"
    rx          \* the thread in nv_uart_push_rx: "idle", "push"

lineVars == <<raw, known, port, wrote>>
dataVars == <<fifo, flip, pushed, inbox, accepted, arrived, dropped>>
uartVars == <<lineVars, stopped, lock, dataVars, writer, toPut, woken, flow, rx>>

\* A character that nv_uart_push_rx brought, and the NUL byte a break turns
\* into; bytes that are written have the numbers from 1.
Other == 0
Nul == -1

\* uart_insert_char: a full flip buffer loses the character.
Insert(c) ==
    IF Len(flip) < FlipRoom
    THEN flip' = Append(flip, c) /\ dropped' = dropped
    ELSE flip' = flip /\ dropped' = dropped + 1

-----------------------------------------------------------------------------
(* Faults a plausible edit of the code would introduce. *)

\* demo_start_tx returns without nv_uart_write_wakeup.
EndTxSilent ==
    /\ lock \in {"writer", "flow"}
    /\ stopped \/ fifo = <<>>
    /\ pushed' = Len(flip)
    /\ lock' = "free"
    /\ UNCHANGED <<lineVars, stopped, fifo, flip, inbox, accepted, arrived, dropped,
                   writer, toPut, woken, flow, rx>>

\* demo_start_tx leaves the loop without pushing when the output is stopped.
EndTxUnpushed ==
    /\ lock \in {"writer", "flow"}
    /\ stopped \/ fifo = <<>>
    /\ pushed' = IF stopped THEN pushed ELSE Len(flip)
    /\ lock' = "free"
    /\ woken' = (writer # "idle")
    /\ UNCHANGED <<lineVars, stopped, fifo, flip, inbox, accepted, arrived, dropped,
                   writer, toPut, flow, rx>>

-----------------------------------------------------------------------------
(* The port *)

Quiet == writer = "idle" /\ flow = "idle" /\ rx = "idle" /\ lock = "free"

\* uart_open: a port of unknown type is not started up, but open(2) succeeds.
UartOpen ==
    /\ port = "closed"
    /\ port' = IF known THEN "live" ELSE "dead"
    /\ UNCHANGED <<raw, known, wrote, stopped, lock, dataVars, writer, toPut, woken, flow, rx>>

\* uart_close flushes both directions; the next open begins anew.
UartClose ==
    /\ port # "closed"
    /\ Quiet
    /\ port' = "closed"
    /\ stopped' = FALSE
    /\ fifo' = <<>> /\ flip' = <<>> /\ inbox' = <<>> /\ pushed' = 0
    /\ accepted' = 0 /\ arrived' = 0 /\ dropped' = 0
    /\ UNCHANGED <<raw, known, wrote, lock, writer, toPut, woken, flow, rx>>

\* TIOCSSERIAL with a type; the next open starts the port up.
SetType ==
    /\ ~known
    /\ port = "dead"
    /\ known' = TRUE
    /\ UNCHANGED <<raw, port, wrote, stopped, lock, dataVars, writer, toPut, woken, flow, rx>>

\* TIOCSERCONFIG, while nobody writes: the port is shut down, and
\* nv_uart_config_port gives it the type unknown.
ConfigPort ==
    /\ port # "closed"
    /\ Quiet
    /\ known' = FALSE
    /\ port' = "dead"
    /\ fifo' = <<>>
    /\ dropped' = dropped + Len(fifo)
    /\ UNCHANGED <<raw, wrote, stopped, lock, flip, pushed, inbox, accepted, arrived,
                   writer, toPut, woken, flow, rx>>

-----------------------------------------------------------------------------
(* Writing *)

\* A port that was not started up refuses (TTY_IO_ERROR).
WriteFails ==
    /\ port = "dead"
    /\ writer = "idle"
    /\ wrote' = "EIO"
    /\ UNCHANGED <<raw, known, port, stopped, lock, dataVars, writer, toPut, woken, flow, rx>>

\* n_tty_write enters its wait queue and begins.
Write(n) ==
    /\ port = "live"
    /\ writer = "idle"
    /\ lock # "writer"
    /\ accepted + n <= MaxBytes
    /\ writer' = "put"
    /\ toPut' = n
    /\ woken' = FALSE
    /\ UNCHANGED <<lineVars, stopped, lock, dataVars, flow, rx>>

\* uart_write: as many bytes as fit, then nv_uart_start_tx, under the port lock,
\* unless the output is stopped.  When none fits the writer will wait.
UartWrite ==
    /\ writer = "put"
    /\ lock = "free"
    /\ LET n == IF toPut <= FifoSize - Len(fifo) THEN toPut ELSE FifoSize - Len(fifo)
       IN  /\ fifo' = fifo \o [k \in 1..n |-> accepted + k]
           /\ accepted' = accepted + n
           /\ toPut' = toPut - n
           /\ writer' = IF toPut = n THEN "idle" ELSE IF n = 0 THEN "wait" ELSE "put"
    /\ lock' = IF stopped THEN "free" ELSE "writer"
    /\ UNCHANGED <<lineVars, stopped, flip, pushed, inbox, arrived, dropped, woken, flow, rx>>

\* wait_woken sleeps unless it has been woken already.
WaitWoken ==
    /\ writer = "wait"
    /\ lock # "writer"
    /\ writer' = IF woken THEN "put" ELSE "asleep"
    /\ woken' = FALSE
    /\ UNCHANGED <<lineVars, stopped, lock, dataVars, toPut, flow, rx>>

Woken ==
    /\ writer = "asleep"
    /\ woken
    /\ writer' = "put"
    /\ woken' = FALSE
    /\ UNCHANGED <<lineVars, stopped, lock, dataVars, toPut, flow, rx>>

-----------------------------------------------------------------------------
(* demo_start_tx, under the port lock *)

\* One byte of the loop.
EchoByte ==
    /\ lock \in {"writer", "flow"}
    /\ ~stopped
    /\ fifo # <<>>
    /\ fifo' = Tail(fifo)
    /\ Insert(Head(fifo))
    /\ UNCHANGED <<lineVars, stopped, lock, pushed, inbox, accepted, arrived,
                   writer, toPut, woken, flow, rx>>

\* Its end: tty_flip_buffer_push, nv_uart_write_wakeup; the lock is released.
EndTx ==
    /\ lock \in {"writer", "flow"}
    /\ stopped \/ fifo = <<>>
    /\ pushed' = Len(flip)
    /\ lock' = "free"
    /\ woken' = (writer # "idle")
    /\ UNCHANGED <<lineVars, stopped, fifo, flip, inbox, accepted, arrived, dropped,
                   writer, toPut, flow, rx>>

-----------------------------------------------------------------------------
(* Flow control *)

\* stop_tty sets the flag without the port lock; nv_uart_stop_tx does nothing.
StopTty ==
    /\ port = "live"
    /\ flow = "idle"
    /\ ~stopped
    /\ stopped' = TRUE
    /\ UNCHANGED <<lineVars, lock, dataVars, writer, toPut, woken, flow, rx>>

\* start_tty clears it, runs nv_uart_start_tx and wakes the writer once more.
StartTty ==
    /\ port = "live"
    /\ stopped
    /\ stopped' = FALSE
    /\ flow' = "start"
    /\ UNCHANGED <<lineVars, lock, dataVars, writer, toPut, woken, rx>>

UartStart ==
    /\ flow = "start"
    /\ lock = "free"
    /\ lock' = "flow"
    /\ flow' = "wake"
    /\ UNCHANGED <<lineVars, stopped, dataVars, writer, toPut, woken, rx>>

StartWakes ==
    /\ flow = "wake"
    /\ lock # "flow"
    /\ woken' = (writer # "idle")
    /\ flow' = "idle"
    /\ UNCHANGED <<lineVars, stopped, lock, dataVars, writer, toPut, rx>>

-----------------------------------------------------------------------------
(* Reception *)

\* nv_uart_push_rx inserts under the port lock and pushes after it.
PushRx ==
    /\ port = "live"
    /\ rx = "idle"
    /\ lock = "free"
    /\ arrived < MaxRx
    /\ arrived' = arrived + 1
    /\ Insert(Other)
    /\ rx' = "push"
    /\ UNCHANGED <<lineVars, stopped, lock, fifo, pushed, inbox, accepted, writer, toPut, woken, flow>>

PushRxDone ==
    /\ rx = "push"
    /\ pushed' = Len(flip)
    /\ rx' = "idle"
    /\ UNCHANGED <<lineVars, stopped, lock, fifo, flip, inbox, accepted, arrived, dropped,
                   writer, toPut, woken, flow>>

\* The line discipline receives.  Every character was inserted with the flag 1,
\* TTY_BREAK: a raw tty ignores it, another one takes the break for a NUL.
Deliver ==
    /\ pushed > 0
    /\ inbox' = Append(inbox, IF raw THEN Head(flip) ELSE Nul)
    /\ flip' = Tail(flip)
    /\ pushed' = pushed - 1
    /\ UNCHANGED <<lineVars, stopped, lock, fifo, accepted, arrived, dropped,
                   writer, toPut, woken, flow, rx>>

-----------------------------------------------------------------------------

\* nv_uart_port_add leaves the type unknown.
UartInit ==
    /\ raw \in BOOLEAN
    /\ known = FALSE
    /\ port = "closed"
    /\ wrote = "none"
    /\ stopped = FALSE
    /\ lock = "free"
    /\ fifo = <<>> /\ flip = <<>> /\ inbox = <<>> /\ pushed = 0
    /\ accepted = 0 /\ arrived = 0 /\ dropped = 0
    /\ writer = "idle" /\ toPut = 0 /\ woken = FALSE
    /\ flow = "idle"
    /\ rx = "idle"

ConfigureUart == UartOpen \/ UartClose \/ SetType \/ ConfigPort
Writing == WriteFails \/ (\E n \in 1..MaxBytes : Write(n)) \/ UartWrite \/ WaitWoken \/ Woken
StartTx == EchoByte \/ EndTx
FlowControl == StopTty \/ StartTty \/ UartStart \/ StartWakes
Receiving == PushRx \/ PushRxDone \/ Deliver

UartNext == ConfigureUart \/ Writing \/ StartTx \/ FlowControl \/ Receiving

UartSpec == UartInit /\ [][UartNext]_uartVars

-----------------------------------------------------------------------------
(* Properties *)

\* The written bytes of s, in the order of their numbers.
EchoSorted(s) ==
    \A j, k \in 1..Len(s) : j < k /\ s[j] > 0 /\ s[k] > 0 => s[j] < s[k]

\* "bytes written are echoed back to the reader" (nv_uart_demo.c:5), once the
\* port has a type and the tty is raw: in the order in which they were written,
\* whatever is stopped, started and arrived in between, none twice, none
\* without being counted when dropped, and none left behind unpushed.  (Of a tty
\* that is not raw the numbers are right; the reader gets NULs.)
EchoInOrder ==
    /\ EchoSorted(inbox \o flip \o fifo)
    /\ Len(inbox) + Len(flip) + Len(fifo) + dropped = accepted + arrived
    /\ lock = "free" /\ rx = "idle" => pushed = Len(flip)

\* A writer sleeps only for room in the fifo, and only while the output is
\* stopped or about to be started: after that demo_start_tx wakes it.
WriterWoken ==
    writer = "asleep" /\ ~woken =>
        \/ lock # "free"
        \/ Len(fifo) = FifoSize /\ (stopped \/ flow = "start")
=============================================================================
