----------------------------- MODULE NvCharIo ------------------------------
(***************************************************************************)
(* read, write, readv, writev, poll, ioctl and lseek on a device of the    *)
(* nv_char example modules: nv_char_demo, or nv_char_echo with its twins   *)
(* nv_char_plat and nv_char_misc_echo.  Each thread has a struct file of   *)
(* its own.                                                                *)
(*                                                                         *)
(* priv->lock is held over the copies, which go cell by cell and may fault *)
(* at each; a critical section without a copy is one step.                 *)
(***************************************************************************)
EXTENDS Integers, Sequences

CONSTANTS
    Thread,     \* the threads of user space
    Cap,        \* DEMO_BUF_SIZE, ECHO_BUF_SIZE
    MaxWrites,  \* bound: how many writes there are
    Faults,     \* may a copy between user and kernel memory fail?
    Nobody      \* no thread: the mutex is free

ASSUME IoAssumption ==
    /\ Cap \in Nat \ {0}
    /\ MaxWrites \in Nat
    /\ Faults \in BOOLEAN
    /\ Nobody \notin Thread

VARIABLES
    ops,        \* dev->ops: "demo_ops" or "echo_ops"
    buf,        \* priv->buf
    len,        \* priv->len
    dataReady,  \* priv->data_ready
    lock,       \* the holder of priv->lock
    removing,   \* dev->removing
    wq,         \* the threads with an entry on dev->wq
    triggered,  \* those that were woken since they last looked
    fpos,       \* the file position of each thread's file
    pc,         \* where each thread is
    call,       \* the call it is in: count, number of the write
    moved,      \* the cells the call has copied
    out,        \* the result, if the last step returned one
    writes,     \* writes so far
    stored      \* history: the message the last call that changed it left

dataVars == <<ops, buf, len, dataReady, stored>>
pollVars == <<wq, triggered>>
callVars == <<fpos, call, moved>>
vars == <<dataVars, lock, removing, pollVars, callVars, out, pc, writes>>

Mailbox == INSTANCE NvMailbox WITH msg <- stored

Demo == ops = "demo_ops"

Goto(t, l) == pc' = [pc EXCEPT ![t] = l]
Step(t, from, to) == pc[t] = from /\ Goto(t, to)

\* The call returns, and its local variables are gone.
NoCall == [n |-> 0, w |-> 0]
Finish(t, from) ==
    /\ Step(t, from, "idle")
    /\ call' = [call EXCEPT ![t] = NoCall]
    /\ moved' = [moved EXCEPT ![t] = <<>>]
Return(r) == out' = r
Silent == out' = Mailbox!NoResult

SmallerOf(a, b) == IF a < b THEN a ELSE b

\* What a reader that has the lock would find.
Stored == [i \in 1..len |-> buf[i]]

\* demo_read and demo_poll look at data_ready and len, echo_read at len.
HasData == len > 0 /\ (Demo => dataReady)

\* What copy_from_user leaves when it stops after m of n bytes: the rest is
\* cleared.
ZeroFilled(m, n) == [i \in 1..Cap |-> IF m < i /\ i <= n THEN Mailbox!Zero ELSE buf[i]]

-----------------------------------------------------------------------------
(* Faults a plausible edit of the code would introduce.  They are not part of *)
(* the specification; each shows that some property below can be broken.      *)

\* A clear does not take the lock.
ClearUnlocked(t) ==
    /\ Step(t, "clear", "cwake")
    /\ len' = 0
    /\ dataReady' = FALSE
    /\ stored' = <<>>
    /\ Silent
    /\ UNCHANGED <<ops, buf, lock, removing, pollVars, callVars, writes>>

\* The failed copy returns with the lock held.
WriteFaultKeepsLock(t) ==
    /\ Faults
    /\ Len(moved[t]) < call[t].n
    /\ Finish(t, "wcopy")
    /\ buf' = ZeroFilled(Len(moved[t]), call[t].n)
    /\ stored' = [i \in 1..len |-> ZeroFilled(Len(moved[t]), call[t].n)[i]]
    /\ Return(Mailbox!Failure)
    /\ UNCHANGED <<ops, len, dataReady, lock, removing, pollVars, fpos, writes>>

\* A failed write sets the length to what it meant to write.
WriteFaultSetsLen(t) ==
    /\ Faults
    /\ Len(moved[t]) < call[t].n
    /\ Finish(t, "wcopy")
    /\ lock' = Nobody
    /\ buf' = ZeroFilled(Len(moved[t]), call[t].n)
    /\ len' = call[t].n
    /\ stored' = [i \in 1..len' |-> ZeroFilled(Len(moved[t]), call[t].n)[i]]
    /\ Return(Mailbox!Failure)
    /\ UNCHANGED <<ops, dataReady, removing, pollVars, fpos, writes>>

\* The driver's poll does not call poll_wait.
PollDoesNotAdd(t) ==
    /\ Step(t, "padd", "ptest")
    /\ Silent
    /\ UNCHANGED <<dataVars, lock, removing, pollVars, callVars, writes>>

\* A write does not wake the pollers.
WriteWakesNobody(t) ==
    /\ Step(t, "wwake", "wunlock")
    /\ Silent
    /\ UNCHANGED <<dataVars, lock, removing, pollVars, callVars, writes>>

-----------------------------------------------------------------------------
(* The entries of nv_char_fops *)

\* The call is refused by dev->removing, or because the module has no
\* callback for it or does not know the command.
Refused(t) ==
    /\ pc[t] = "idle"
    /\ Return(Mailbox!Failure)
    /\ UNCHANGED <<dataVars, lock, removing, pollVars, fpos, call, moved, pc, writes>>

Enter(t, to, n, w) ==
    /\ ~removing
    /\ Step(t, "idle", to)
    /\ call' = [call EXCEPT ![t] = [n |-> n, w |-> w]]
    /\ Silent
    /\ UNCHANGED <<dataVars, lock, removing, pollVars, fpos, moved>>

\* nv_char_read, or nv_char_read_iter: the latter hands the callback a kernel
\* buffer for its __user pointer, which faults at the first byte (ReadFault).
ReadEnter(t, n) ==
    /\ Enter(t, "rlock", n, 0)
    /\ UNCHANGED writes

\* nv_char_write, or nv_char_write_iter (as for read, WriteFault follows with
\* nothing copied), and the truncation in the callback.
WriteEnter(t, n) ==
    /\ writes < MaxWrites
    /\ writes' = writes + 1
    /\ Enter(t, "wlock", SmallerOf(n, Cap), writes + 1)

PollEnter(t) ==
    /\ Enter(t, "padd", 0, 0)
    /\ UNCHANGED writes

\* nv_char_unlocked_ioctl, nv_char_ioctl_dispatch on demo_ioctls.
IoctlEnter(t, cmd) ==
    /\ Demo
    /\ Enter(t, cmd, 0, 0)
    /\ UNCHANGED writes

\* default_llseek; a position behind the end is as good as any other there.
Lseek(t, p) ==
    /\ pc[t] = "idle"
    /\ ~removing
    /\ fpos' = [fpos EXCEPT ![t] = p]
    /\ Silent
    /\ UNCHANGED <<dataVars, lock, removing, pollVars, call, moved, pc, writes>>

-----------------------------------------------------------------------------
(* demo_read, echo_read *)

ReadLock(t) ==
    /\ lock = Nobody
    /\ lock' = t
    /\ IF HasData /\ fpos[t] < len
       THEN /\ Step(t, "rlock", "rcopy")
            /\ call' = [call EXCEPT ![t].n = SmallerOf(call[t].n, len - fpos[t])]
       ELSE /\ Step(t, "rlock", "runlock")
            /\ UNCHANGED call
    /\ Silent
    /\ UNCHANGED <<dataVars, removing, pollVars, fpos, moved, writes>>

\* copy_to_user, one cell.
ReadCopy(t) ==
    /\ pc[t] = "rcopy"
    /\ Len(moved[t]) < call[t].n
    /\ moved' = [moved EXCEPT ![t] = Append(@, buf[fpos[t] + Len(@) + 1])]
    /\ Silent
    /\ UNCHANGED <<dataVars, lock, removing, pollVars, fpos, call, pc, writes>>

ReadCopied(t) ==
    /\ Len(moved[t]) = call[t].n
    /\ Step(t, "rcopy", "runlock")
    /\ Silent
    /\ UNCHANGED <<dataVars, lock, removing, pollVars, callVars, writes>>

\* copy_to_user fails: -EFAULT, the position stays.
ReadFault(t) ==
    /\ Faults
    /\ Len(moved[t]) < call[t].n
    /\ Finish(t, "rcopy")
    /\ lock' = Nobody
    /\ Return(Mailbox!Failure)
    /\ UNCHANGED <<dataVars, removing, pollVars, fpos, writes>>

ReadUnlock(t) ==
    /\ Finish(t, "runlock")
    /\ lock' = Nobody
    /\ fpos' = [fpos EXCEPT ![t] = @ + Len(moved[t])]
    /\ Return(Mailbox!ReadResult(moved[t]))
    /\ UNCHANGED <<dataVars, removing, pollVars, writes>>

-----------------------------------------------------------------------------
(* demo_write, echo_write *)

WriteLock(t) ==
    /\ lock = Nobody
    /\ lock' = t
    /\ Step(t, "wlock", "wcopy")
    /\ Silent
    /\ UNCHANGED <<dataVars, removing, pollVars, callVars, writes>>

\* copy_from_user, one cell.
WriteCopy(t) ==
    /\ pc[t] = "wcopy"
    /\ Len(moved[t]) < call[t].n
    /\ LET i == Len(moved[t]) + 1
           c == <<call[t].w, i>>
       IN  /\ buf' = [buf EXCEPT ![i] = c]
           /\ moved' = [moved EXCEPT ![t] = Append(@, c)]
    /\ Silent
    /\ UNCHANGED <<ops, len, dataReady, stored, lock, removing, pollVars, fpos, call, pc, writes>>

\* copy_from_user fails: -EFAULT, the old length stays.
WriteFault(t) ==
    /\ Faults
    /\ Len(moved[t]) < call[t].n
    /\ Finish(t, "wcopy")
    /\ lock' = Nobody
    /\ buf' = ZeroFilled(Len(moved[t]), call[t].n)
    /\ stored' = [i \in 1..len |-> ZeroFilled(Len(moved[t]), call[t].n)[i]]
    /\ Return(Mailbox!Failure)
    /\ UNCHANGED <<ops, len, dataReady, removing, pollVars, fpos, writes>>

\* The new length and position.
WriteDone(t) ==
    /\ Len(moved[t]) = call[t].n
    /\ Step(t, "wcopy", "wwake")
    /\ len' = call[t].n
    /\ dataReady' = TRUE
    /\ fpos' = [fpos EXCEPT ![t] = IF Demo THEN 0 ELSE call[t].n]
    /\ stored' = moved[t]
    /\ Silent
    /\ UNCHANGED <<ops, buf, lock, removing, pollVars, call, moved, writes>>

\* nv_char_wake.
Wake ==
    /\ triggered' = triggered \cup wq
    /\ UNCHANGED <<dataVars, lock, removing, wq, writes>>

WriteWake(t) ==
    /\ Step(t, "wwake", "wunlock")
    /\ Wake
    /\ Silent
    /\ UNCHANGED callVars

WriteUnlock(t) ==
    /\ Finish(t, "wunlock")
    /\ lock' = Nobody
    /\ Silent
    /\ UNCHANGED <<dataVars, removing, pollVars, fpos, writes>>

-----------------------------------------------------------------------------
(* demo_ioctl_get_len, demo_ioctl_clear *)

IoctlGetLen(t) ==
    /\ lock = Nobody
    /\ Finish(t, "getlen")
    /\ \/ Return(Mailbox!LenResult(len))
       \/ Faults /\ Return(Mailbox!Failure)
    /\ UNCHANGED <<dataVars, lock, removing, pollVars, fpos, writes>>

IoctlClear(t) ==
    /\ lock = Nobody
    /\ Step(t, "clear", "cwake")
    /\ len' = 0
    /\ dataReady' = FALSE
    /\ stored' = <<>>
    /\ Silent
    /\ UNCHANGED <<ops, buf, lock, removing, pollVars, callVars, writes>>

ClearWake(t) ==
    /\ Finish(t, "cwake")
    /\ Wake
    /\ Silent
    /\ UNCHANGED <<fpos>>

-----------------------------------------------------------------------------
(* poll(2) for POLLIN: nv_char_poll, demo_poll, nv_char_wake *)

\* poll_wait; a second entry for the same thread changes nothing.
PollAdd(t) ==
    /\ Step(t, "padd", "ptest")
    /\ wq' = wq \cup {t}
    /\ Silent
    /\ UNCHANGED <<dataVars, lock, removing, triggered, callVars, writes>>

PollReturn(t, r) ==
    /\ Return(r)
    /\ wq' = wq \ {t}
    /\ triggered' = triggered \ {t}
    /\ UNCHANGED <<dataVars, lock, removing, fpos, writes>>

\* Without ops->poll, nv_char_poll finds nothing ready.
PollFinds(t) ==
    /\ Demo /\ lock = Nobody
    /\ HasData
    /\ Finish(t, "ptest")
    /\ PollReturn(t, Mailbox!PollIn)

PollFindsNothing(t) ==
    /\ Demo => lock = Nobody /\ ~HasData
    /\ Step(t, "ptest", "psleep")
    /\ Silent
    /\ UNCHANGED <<dataVars, lock, removing, pollVars, callVars, writes>>

\* A triggered thread calls nv_char_poll again.
PollAgain(t) ==
    /\ t \in triggered
    /\ triggered' = triggered \ {t}
    /\ ~removing
    /\ Step(t, "psleep", "ptest")
    /\ Silent
    /\ UNCHANGED <<dataVars, lock, removing, wq, callVars, writes>>

PollHangup(t) ==
    /\ t \in triggered
    /\ removing
    /\ Finish(t, "psleep")
    /\ PollReturn(t, Mailbox!Failure)

\* The time-out of poll(2), or a signal.
PollTimeout(t) ==
    /\ Finish(t, "psleep")
    /\ PollReturn(t, Mailbox!NoResult)

\* nv_char_device_unregister begins; it wakes nobody on dev->wq.
SetRemoving ==
    /\ ~removing
    /\ removing' = TRUE
    /\ Silent
    /\ UNCHANGED <<dataVars, lock, pollVars, callVars, pc, writes>>

-----------------------------------------------------------------------------
Init ==
    /\ ops \in {"demo_ops", "echo_ops"}
    /\ buf = [i \in 1..Cap |-> Mailbox!Zero]
    /\ len = 0
    /\ dataReady = FALSE
    /\ stored = <<>>
    /\ lock = Nobody
    /\ removing = FALSE
    /\ wq = {} /\ triggered = {}
    /\ fpos = [t \in Thread |-> 0]
    /\ pc = [t \in Thread |-> "idle"]
    /\ call = [t \in Thread |-> NoCall]
    /\ moved = [t \in Thread |-> <<>>]
    /\ out = Mailbox!NoResult
    /\ writes = 0

\* What user space may do; to read more than the buffer holds is to read as much.
User(t) ==
    \/ Refused(t)
    \/ \E n \in 0..Cap : ReadEnter(t, n)
    \/ \E n \in 0..(Cap + 1) : WriteEnter(t, n)
    \/ PollEnter(t)
    \/ \E cmd \in {"getlen", "clear"} : IoctlEnter(t, cmd)
    \/ \E p \in 0..Cap : Lseek(t, p)

\* What a thread inside a call does.
Inside(t) ==
    \/ ReadLock(t) \/ ReadCopy(t) \/ ReadCopied(t) \/ ReadFault(t) \/ ReadUnlock(t)
    \/ WriteLock(t) \/ WriteCopy(t) \/ WriteFault(t) \/ WriteDone(t) \/ WriteWake(t)
    \/ WriteUnlock(t)
    \/ IoctlGetLen(t) \/ IoctlClear(t) \/ ClearWake(t)
    \/ PollAdd(t) \/ PollFinds(t) \/ PollFindsNothing(t) \/ PollAgain(t) \/ PollHangup(t)

Next == SetRemoving \/ \E t \in Thread : User(t) \/ Inside(t) \/ PollTimeout(t)

Spec == Init /\ [][Next]_vars

\* The steps that take priv->lock.
Locking(t) ==
    \/ ReadLock(t) \/ WriteLock(t) \/ IoctlGetLen(t) \/ IoctlClear(t)
    \/ PollFinds(t) \/ PollFindsNothing(t)

\* A thread inside a call runs on; priv->lock, a kernel mutex, is handed over.
Fairness == \A t \in Thread : WF_vars(Inside(t)) /\ SF_vars(Locking(t))

FairSpec == Spec /\ Fairness

-----------------------------------------------------------------------------
(* Properties *)

LockedPC == {"rcopy", "runlock", "wcopy", "wwake", "wunlock"}
PollPC == {"padd", "ptest", "psleep"}
IoPC == {"rlock", "wlock", "getlen", "clear", "cwake"} \cup LockedPC

TypeOK ==
    /\ ops \in {"demo_ops", "echo_ops"}
    /\ buf \in [1..Cap -> Mailbox!Cell]
    /\ len \in 0..Cap
    /\ dataReady \in BOOLEAN
    /\ stored \in Seq(Mailbox!Cell)
    /\ lock \in Thread \cup {Nobody}
    /\ removing \in BOOLEAN
    /\ wq \subseteq Thread /\ triggered \subseteq wq
    /\ fpos \in [Thread -> 0..Cap]
    /\ pc \in [Thread -> {"idle"} \cup PollPC \cup IoPC]
    /\ call \in [Thread -> [n : 0..Cap, w : 0..MaxWrites]]
    /\ moved \in [Thread -> Seq(Mailbox!Cell)]
    /\ out \in [op : {"none", "read", "len", "pollin", "error"},
                data : Seq(Mailbox!Cell), n : 0..Cap]
    /\ writes \in 0..MaxWrites

\* priv->lock is held by the thread that is between mutex_lock and
\* mutex_unlock, and given back on every path.
MutexHeld == \A t \in Thread : pc[t] \in LockedPC <=> lock = t

\* Unless a write is copying, the buffer holds the message the last write or
\* clear left; a read has so far copied a piece of that message alone.
BufferHoldsMessage ==
    /\ (\A t \in Thread : pc[t] # "wcopy") => stored = Stored
    /\ \A t \in Thread : pc[t] \in {"rcopy", "runlock"} =>
          \A i \in 1..Len(moved[t]) :
              fpos[t] + i <= Len(stored) /\ moved[t][i] = stored[fpos[t] + i]

\* A thread asleep in poll(2) while there is data has been woken, or the write
\* that brought the data is about to wake it: data that comes between the test
\* of demo_poll and the sleep is not missed.
NoLostPoll ==
    \A t \in Thread : Demo /\ pc[t] = "psleep" /\ HasData =>
        t \in triggered \/ \E w \in Thread : pc[w] = "wwake"

\* Reads, lengths and poll results are those of a message that writes replace
\* at one moment.
ImplementsMailbox == Mailbox!Spec

\* A poll(2) on nv_demo returns when data stays there, however long it asked to
\* wait.
PollReturns ==
    \A t \in Thread : (Demo /\ pc[t] \in PollPC /\ []HasData) ~> pc[t] = "idle"

\* Every read, write and ioctl comes back: no path keeps priv->lock.
CallReturns == \A t \in Thread : pc[t] \in IoPC ~> pc[t] = "idle"
=============================================================================
