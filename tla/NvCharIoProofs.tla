--------------------------- MODULE NvCharIoProofs ---------------------------
(***************************************************************************)
(* The properties of NvCharIo for any threads, any size of the buffer and  *)
(* any number of writes: priv->lock covers every copy, so that the buffer  *)
(* is a mailbox (NvMailbox) and no poller misses a message.                *)
(***************************************************************************)
EXTENDS NvCharIo, SequenceTheorems, TLAPS

\* What a call has copied fits what it was asked for; outside the critical
\* section it has copied nothing.
CallFits ==
    \A t \in Thread :
        /\ pc[t] \notin LockedPC => moved[t] = <<>>
        /\ Len(moved[t]) <= call[t].n
        /\ pc[t] \in {"wlock", "wcopy"} => call[t].w \in 1..MaxWrites
        /\ pc[t] = "rcopy" => fpos[t] + call[t].n <= len

\* The cells a write has copied are in the buffer; the others still hold the
\* message.
WriterCells ==
    /\ Len(stored) = len
    /\ (\A t \in Thread : pc[t] # "wcopy") => \A i \in 1..len : stored[i] = buf[i]
    /\ \A t \in Thread : pc[t] = "wcopy" =>
          /\ \A i \in 1..Len(moved[t]) :
                moved[t][i] = <<call[t].w, i>> /\ buf[i] = <<call[t].w, i>>
          /\ \A i \in 1..len : Len(moved[t]) < i => stored[i] = buf[i]

\* The cells a read has copied are a piece of the message.
ReaderCells ==
    \A t \in Thread : pc[t] \in {"rcopy", "runlock"} =>
        \A i \in 1..Len(moved[t]) :
            fpos[t] + i <= len /\ moved[t][i] = stored[fpos[t] + i]

\* Who tests or sleeps in poll is on the wait queue.
PollersQueued == \A t \in Thread : pc[t] \in {"ptest", "psleep"} => t \in wq

IoInv ==
    /\ TypeOK /\ MutexHeld /\ CallFits /\ WriterCells /\ ReaderCells
    /\ PollersQueued /\ NoLostPoll

-----------------------------------------------------------------------------
(* Steps outside the critical section, and those that need no copy in it *)

Result == [op : {"none", "read", "len", "pollin", "error"},
           data : Seq(Mailbox!Cell), n : 0..Cap]

\* What a call may return has the type of out.
LEMMA ResultsFit ==
    /\ {Mailbox!NoResult, Mailbox!PollIn, Mailbox!Failure} \subseteq Result
    /\ \A n \in 0..Cap : Mailbox!LenResult(n) \in Result
    /\ \A s \in Seq(Mailbox!Cell) : Len(s) <= Cap => Mailbox!ReadResult(s) \in Result
<1>1. <<>> \in Seq(Mailbox!Cell) /\ 0 \in 0..Cap
  BY EmptySeq, IoAssumption
<1>2. \A s \in Seq(Mailbox!Cell) : Len(s) \in Nat
  BY LenProperties
<1> QED
  BY <1>1, <1>2, IoAssumption DEF Result, Mailbox!NoResult, Mailbox!PollIn,
     Mailbox!Failure, Mailbox!LenResult, Mailbox!ReadResult

Entering(t) ==
    \/ Refused(t)
    \/ \E n \in 0..Cap : ReadEnter(t, n)
    \/ \E n \in 0..(Cap + 1) : WriteEnter(t, n)
    \/ PollEnter(t)
    \/ \E cmd \in {"getlen", "clear"} : IoctlEnter(t, cmd)
    \/ \E p \in 0..Cap : Lseek(t, p)

Polling(t) ==
    \/ PollAdd(t) \/ PollFinds(t) \/ PollFindsNothing(t) \/ PollAgain(t) \/ PollHangup(t)
    \/ PollTimeout(t)

\* A step outside the critical section: the buffer, the mutex and the calls of
\* those inside it stay.
Outside(t) ==
    /\ UNCHANGED <<buf, len, dataReady, ops, stored, lock, moved>>
    /\ pc[t] \notin LockedPC
    /\ \E l \in ({"idle"} \cup PollPC \cup IoPC) \ LockedPC : pc' = [pc EXCEPT ![t] = l]
    /\ \A u \in Thread \ {t} : call'[u] = call[u] /\ fpos'[u] = fpos[u]

\* Such a step keeps what the invariant says of the copies.
LEMMA OutsideKeeps ==
    ASSUME IoInv, NEW t \in Thread, Outside(t),
           call' \in [Thread -> [n : 0..Cap, w : 0..MaxWrites]],
           pc'[t] = "wlock" => call'[t].w \in 1..MaxWrites
    PROVE  MutexHeld' /\ CallFits' /\ WriterCells' /\ ReaderCells'
<1>0. /\ UNCHANGED <<buf, len, stored, lock, moved>>
      /\ MutexHeld /\ CallFits /\ WriterCells /\ ReaderCells
  BY DEF IoInv, Outside
<1>1. \A u \in Thread : /\ pc'[u] \in LockedPC <=> pc[u] \in LockedPC
                        /\ pc[u] \in LockedPC => u # t
                        /\ u # t => pc'[u] = pc[u]
  BY DEF IoInv, TypeOK, Outside
<1>2. \A u \in Thread : /\ pc'[u] \in {"wcopy", "rcopy", "runlock"} =>
                              /\ pc'[u] = pc[u] /\ call'[u] = call[u]
                              /\ fpos'[u] = fpos[u]
                        /\ pc[u] \in {"wcopy", "rcopy", "runlock"} => pc'[u] = pc[u]
  BY <1>1 DEF LockedPC, Outside
<1>3. MutexHeld'
  BY <1>0, <1>1 DEF MutexHeld
<1>4. CallFits'
  <2>1. moved[t] = <<>> /\ Len(moved[t]) = 0
    BY <1>0, EmptySeq DEF CallFits, Outside
  <2>2. call'[t].n \in 0..Cap
    OBVIOUS
  <2>3. Len(moved[t]) <= call'[t].n
    BY <2>1, <2>2, IoAssumption
  <2>4. pc'[t] \notin {"wcopy", "rcopy"}
    BY <1>1 DEF LockedPC, Outside
  <2>5. \A u \in Thread \ {t} : call'[u] = call[u] /\ fpos'[u] = fpos[u]
    BY DEF Outside
  <2>6. ASSUME NEW u \in Thread
        PROVE  /\ pc'[u] \notin LockedPC => moved'[u] = <<>>
               /\ Len(moved'[u]) <= call'[u].n
               /\ pc'[u] \in {"wlock", "wcopy"} => call'[u].w \in 1..MaxWrites
               /\ pc'[u] = "rcopy" => fpos'[u] + call'[u].n <= len'
    <3>1. CASE u = t
      BY <1>0, <2>1, <2>3, <2>4, <3>1
    <3>2. CASE u # t
      <4>1. call'[u] = call[u] /\ fpos'[u] = fpos[u] /\ pc'[u] = pc[u]
            /\ moved'[u] = moved[u] /\ len' = len
        BY <1>0, <1>1, <2>5, <3>2
      <4> QED BY <1>0, <4>1 DEF CallFits
    <3> QED BY <3>1, <3>2
  <2> QED BY <2>6 DEF CallFits
<1>5. WriterCells'
  BY <1>0, <1>2 DEF WriterCells
<1>6. ReaderCells'
  <2> SUFFICES ASSUME NEW u \in Thread, pc'[u] \in {"rcopy", "runlock"}
               PROVE  \A i \in 1..Len(moved'[u]) :
                          /\ fpos'[u] + i <= len'
                          /\ moved'[u][i] = stored'[fpos'[u] + i]
    BY DEF ReaderCells
  <2>1. pc[u] \in {"rcopy", "runlock"} /\ fpos'[u] = fpos[u] /\ moved'[u] = moved[u]
    BY <1>0, <1>2
  <2>2. \A i \in 1..Len(moved[u]) : fpos[u] + i <= len /\ moved[u][i] = stored[fpos[u] + i]
    BY <1>0, <2>1 DEF ReaderCells
  <2> QED BY <1>0, <2>1, <2>2
<1> QED BY <1>3, <1>4, <1>5, <1>6

\* nv_char_read, _write, _ioctl and _poll up to the driver's callback, lseek(2).
LEMMA EnteringKeeps ==
    ASSUME IoInv, NEW t \in Thread, Entering(t)
    PROVE  IoInv'
<1> USE IoAssumption, ResultsFit DEF IoInv
<1>1. CASE Refused(t) \/ \E p \in 0..Cap : Lseek(t, p)
  <2>1. TypeOK'
    <3>1. CASE Refused(t)
      BY <3>1 DEF Refused, TypeOK, Return, Result, dataVars, pollVars
    <3>2. ASSUME NEW p \in 0..Cap, Lseek(t, p) PROVE TypeOK'
      BY <3>2 DEF Lseek, TypeOK, Silent, Result, dataVars, pollVars
    <3> QED BY <1>1, <3>1, <3>2
  <2>2. UNCHANGED <<buf, len, dataReady, ops, stored, lock, moved, pc, call, wq, triggered>>
        /\ pc[t] = "idle" /\ \A u \in Thread \ {t} : fpos'[u] = fpos[u]
    BY <1>1 DEF Refused, Lseek, dataVars, pollVars, TypeOK
  <2>3. \A u \in Thread : pc[u] \in LockedPC => fpos'[u] = fpos[u]
    BY <2>2 DEF LockedPC
  <2>4. MutexHeld' /\ PollersQueued' /\ NoLostPoll'
    BY <2>2 DEF MutexHeld, PollersQueued, NoLostPoll, Demo, HasData
  <2>5. CallFits' /\ WriterCells' /\ ReaderCells'
    BY <2>2, <2>3 DEF CallFits, WriterCells, ReaderCells, LockedPC
  <2> QED BY <2>1, <2>4, <2>5
<1>2. ASSUME NEW l \in {"rlock", "wlock", "padd", "getlen", "clear"}, NEW n \in 0..Cap,
             NEW w \in 0..MaxWrites, Enter(t, l, n, w), l = "wlock" => w \in 1..MaxWrites,
             writes' \in 0..MaxWrites
      PROVE  IoInv'
  <2>1. TypeOK'
    BY <1>2 DEF Enter, Step, Goto, TypeOK, Silent, Result, dataVars, pollVars, PollPC,
                IoPC
  <2>2. Outside(t) /\ pc'[t] = l /\ call'[t].w = w
    BY <1>2 DEF Enter, Step, Goto, TypeOK, Outside, LockedPC, PollPC, IoPC, dataVars
  <2>3. MutexHeld' /\ CallFits' /\ WriterCells' /\ ReaderCells'
    BY <1>2, <2>1, <2>2, OutsideKeeps DEF TypeOK
  <2>4. /\ UNCHANGED <<ops, len, dataReady, wq, triggered>>
        /\ \A u \in Thread : pc'[u] = pc[u] \/ (u = t /\ pc[u] = "idle" /\ pc'[u] = l)
    BY <1>2 DEF Enter, Step, Goto, TypeOK, dataVars, pollVars
  <2>5. PollersQueued' /\ NoLostPoll'
    BY <2>4 DEF PollersQueued, NoLostPoll, Demo, HasData
  <2> QED BY <2>1, <2>3, <2>5
<1>7. 0 \in 0..MaxWrites /\ 0 \in 0..Cap /\ (UNCHANGED writes => writes' \in 0..MaxWrites)
  BY DEF TypeOK
<1>3. ASSUME NEW n \in 0..Cap, ReadEnter(t, n) PROVE IoInv'
  BY <1>2, <1>3, <1>7 DEF ReadEnter
<1>4. ASSUME NEW n \in 0..(Cap + 1), WriteEnter(t, n) PROVE IoInv'
  <2>1. SmallerOf(n, Cap) \in 0..Cap
    BY <1>4 DEF SmallerOf
  <2>2. writes + 1 \in 1..MaxWrites
    BY <1>4 DEF WriteEnter, TypeOK
  <2> QED BY <1>2, <1>4, <2>1, <2>2 DEF WriteEnter
<1>5. CASE PollEnter(t)
  BY <1>2, <1>5, <1>7 DEF PollEnter
<1>6. ASSUME NEW cmd \in {"getlen", "clear"}, IoctlEnter(t, cmd) PROVE IoInv'
  BY <1>2, <1>6, <1>7 DEF IoctlEnter
<1> QED BY <1>1, <1>3, <1>4, <1>5, <1>6 DEF Entering

\* nv_char_poll, demo_poll and the sleep of poll(2): a thread goes to sleep
\* only after it found nothing, with its entry on the queue.
LEMMA PollingKeeps ==
    ASSUME IoInv, NEW t \in Thread, Polling(t)
    PROVE  IoInv'
<1>1. moved \in [Thread -> Seq(Mailbox!Cell)] /\ (pc[t] \in PollPC => moved[t] = <<>>)
  BY DEF IoInv, TypeOK, CallFits, PollPC, LockedPC
<1>2. pc[t] \in PollPC
  BY DEF Polling, PollAdd, PollFinds, PollFindsNothing, PollAgain, PollHangup, PollTimeout,
         Step, Finish, PollPC
<1>3. [moved EXCEPT ![t] = <<>>] = moved
  BY <1>1, <1>2
<1>4. /\ UNCHANGED <<ops, buf, len, dataReady, stored, lock, removing, fpos, moved, writes>>
      /\ call' \in {call, [call EXCEPT ![t] = NoCall]}
  BY <1>3 DEF Polling, PollAdd, PollFinds, PollFindsNothing, PollAgain, PollHangup,
         PollTimeout, Step, Finish, PollReturn, dataVars, pollVars, callVars
<1>5. /\ \/ pc[t] = "padd" /\ pc' = [pc EXCEPT ![t] = "ptest"] /\ wq' = wq \cup {t}
            /\ triggered' = triggered
         \/ pc[t] = "ptest" /\ pc' = [pc EXCEPT ![t] = "psleep"] /\ wq' = wq
            /\ triggered' = triggered /\ ~(Demo /\ HasData)
         \/ pc[t] = "psleep" /\ pc' = [pc EXCEPT ![t] = "ptest"] /\ wq' = wq
            /\ triggered' = triggered \ {t}
         \/ pc[t] \in {"ptest", "psleep"} /\ pc' = [pc EXCEPT ![t] = "idle"]
            /\ wq' = wq \ {t} /\ triggered' = triggered \ {t}
      /\ out' \in {Mailbox!NoResult, Mailbox!PollIn, Mailbox!Failure}
  <2>1. CASE PollAdd(t)
    BY <2>1 DEF PollAdd, Step, Goto, Silent
  <2>2. CASE PollFinds(t)
    BY <2>2 DEF PollFinds, PollReturn, Finish, Step, Goto, Return
  <2>3. CASE PollFindsNothing(t)
    BY <2>3 DEF PollFindsNothing, Step, Goto, Silent, pollVars
  <2>4. CASE PollAgain(t)
    BY <2>4 DEF PollAgain, Step, Goto, Silent
  <2>5. CASE PollHangup(t)
    BY <2>5 DEF PollHangup, PollReturn, Finish, Step, Goto, Return
  <2>6. CASE PollTimeout(t)
    BY <2>6 DEF PollTimeout, PollReturn, Finish, Step, Goto, Return
  <2> QED BY <2>1, <2>2, <2>3, <2>4, <2>5, <2>6 DEF Polling
<1>6. TypeOK
  BY DEF IoInv
<1>7. call' \in [Thread -> [n : 0..Cap, w : 0..MaxWrites]]
      /\ \A u \in Thread \ {t} : call'[u] = call[u]
  <2>1. call \in [Thread -> [n : 0..Cap, w : 0..MaxWrites]]
    BY <1>6 DEF TypeOK
  <2>2. NoCall \in [n : 0..Cap, w : 0..MaxWrites]
    BY IoAssumption DEF NoCall
  <2> QED BY <1>4, <2>1, <2>2
<1>8. TypeOK'
  <2>1. pc' \in [Thread -> {"idle"} \cup PollPC \cup IoPC]
    BY <1>5, <1>6 DEF TypeOK, PollPC
  <2>2. wq' \subseteq Thread /\ triggered' \subseteq wq'
    BY <1>5, <1>6 DEF TypeOK
  <2>3. out' \in Result
    BY <1>5, ResultsFit
  <2> QED BY <1>4, <1>6, <1>7, <2>1, <2>2, <2>3 DEF TypeOK, Result
<1>9. Outside(t) /\ pc'[t] \in {"ptest", "psleep", "idle"}
  BY <1>2, <1>4, <1>5, <1>6, <1>7 DEF Outside, PollPC, LockedPC, TypeOK
<1>10. MutexHeld' /\ CallFits' /\ WriterCells' /\ ReaderCells'
  BY <1>7, <1>9, OutsideKeeps
<1>11. /\ \A u \in Thread \ {t} : pc'[u] = pc[u] /\ (u \in wq => u \in wq')
                                  /\ (u \in triggered => u \in triggered')
       /\ pc[t] # "wwake"
       /\ pc'[t] \in {"ptest", "psleep"} => t \in wq' \/ (t \in wq /\ wq' = wq)
       /\ pc'[t] = "psleep" => ~(Demo /\ HasData)
       /\ pc[t] \in {"ptest", "psleep"} => t \in wq
       /\ UNCHANGED <<ops, len, dataReady>>
  BY <1>4, <1>5, <1>6 DEF TypeOK, IoInv, PollersQueued
<1>12. PollersQueued'
  BY <1>5, <1>11, <1>6 DEF PollersQueued, TypeOK, IoInv
<1>13. NoLostPoll'
  BY <1>11 DEF NoLostPoll, IoInv, Demo, HasData
<1> QED BY <1>8, <1>10, <1>12, <1>13 DEF IoInv

\* nv_char_device_unregister sets dev->removing: no call is disturbed.
LEMMA RemovingKeeps == IoInv /\ SetRemoving => IoInv'
<1> SUFFICES ASSUME IoInv, SetRemoving PROVE IoInv'
  OBVIOUS
<1>1. UNCHANGED <<ops, buf, len, dataReady, stored, lock, wq, triggered, fpos, call, moved,
                  pc, writes>>
  BY DEF SetRemoving, dataVars, pollVars, callVars
<1>2. TypeOK'
  BY <1>1, ResultsFit DEF SetRemoving, Silent, Result, TypeOK, IoInv
<1> QED
  BY <1>1, <1>2 DEF IoInv, MutexHeld, CallFits, WriterCells, ReaderCells, PollersQueued,
     NoLostPoll, Demo, HasData

-----------------------------------------------------------------------------
(* Steps inside the critical section *)

\* A step of the thread that has priv->lock, takes it or gives it back.
Solo(t) ==
    /\ lock = Nobody \/ pc[t] \in LockedPC
    /\ \A u \in Thread \ {t} : pc'[u] = pc[u] /\ call'[u] = call[u] /\ moved'[u] = moved[u]
    /\ lock' \in {t, Nobody}
    /\ pc'[t] \in LockedPC <=> lock' = t
    /\ pc'[t] \notin PollPC
    /\ wq' = wq

\* What the invariant says of the mutex and the calls, when one such thread
\* moves: no other thread is in the critical section.
LEMMA SoloKeeps ==
    ASSUME IoInv, NEW t \in Thread, Solo(t),
           pc'[t] \notin LockedPC => moved'[t] = <<>>,
           Len(moved'[t]) <= call'[t].n,
           pc'[t] \in {"wlock", "wcopy"} => call'[t].w \in 1..MaxWrites,
           pc'[t] = "rcopy" => fpos'[t] + call'[t].n <= len'
    PROVE  /\ MutexHeld' /\ CallFits' /\ PollersQueued'
           /\ \A u \in Thread \ {t} : pc[u] \notin LockedPC /\ pc'[u] \notin LockedPC
<1>1. MutexHeld /\ CallFits /\ PollersQueued /\ Nobody \notin Thread
  BY IoAssumption DEF IoInv
<1>2. \A u \in Thread \ {t} : pc[u] \notin LockedPC /\ pc'[u] \notin LockedPC
  BY <1>1 DEF MutexHeld, Solo
<1>3. MutexHeld'
  BY <1>1, <1>2 DEF MutexHeld, Solo
<1>4. \A u \in Thread \ {t} :
        /\ pc'[u] = pc[u] /\ call'[u] = call[u] /\ moved'[u] = moved[u]
        /\ pc'[u] \notin {"rcopy", "wcopy"}
  BY <1>2 DEF Solo, LockedPC
<1>5. CallFits'
  BY <1>1, <1>4 DEF CallFits
<1>6. PollersQueued'
  BY <1>1, <1>4 DEF PollersQueued, Solo, PollPC
<1> QED BY <1>2, <1>3, <1>5, <1>6

\* What the copies have moved when only t is in the critical section.
LEMMA SoloCells ==
    ASSUME IoInv, NEW t \in Thread, UNCHANGED <<buf, len, stored>>,
           \A u \in Thread \ {t} : pc[u] \notin LockedPC /\ pc'[u] \notin LockedPC,
           pc[t] # "wcopy", pc'[t] = "wcopy" => moved'[t] = <<>>,
           pc'[t] \in {"rcopy", "runlock"} =>
               \A i \in 1..Len(moved'[t]) :
                   fpos'[t] + i <= len /\ moved'[t][i] = stored[fpos'[t] + i]
    PROVE  WriterCells' /\ ReaderCells'
<1>1. \A u \in Thread \ {t} : /\ pc[u] # "wcopy"
                              /\ pc'[u] \notin {"wcopy", "rcopy", "runlock"}
  BY DEF LockedPC
<1>2. Len(stored) = len /\ \A i \in 1..len : stored[i] = buf[i]
  BY <1>1 DEF IoInv, WriterCells
<1>3. Len(<<>>) = 0 /\ len \in Nat
  BY EmptySeq, IoAssumption DEF IoInv, TypeOK
<1>4. WriterCells'
  <2>1. SUFFICES ASSUME pc'[t] = "wcopy"
                 PROVE  /\ \A i \in 1..Len(moved'[t]) :
                             moved'[t][i] = <<call'[t].w, i>> /\ buf[i] = <<call'[t].w, i>>
                        /\ \A i \in 1..len : Len(moved'[t]) < i => stored[i] = buf[i]
    BY <1>1, <1>2 DEF WriterCells
  <2> QED BY <1>2, <1>3, <2>1
<1>5. ReaderCells'
  BY <1>1 DEF ReaderCells
<1> QED BY <1>4, <1>5

\* As long as no data comes and the wait queue stays, no poller loses anything.
LEMMA QuietKeeps ==
    ASSUME IoInv, NEW t \in Thread, UNCHANGED <<ops, triggered>>,
           HasData' => HasData, pc[t] # "wwake", pc'[t] \notin PollPC,
           \A u \in Thread \ {t} : pc'[u] = pc[u]
    PROVE  NoLostPoll'
BY DEF IoInv, NoLostPoll, Demo, PollPC

Reading(t) ==
    ReadLock(t) \/ ReadCopy(t) \/ ReadCopied(t) \/ ReadFault(t) \/ ReadUnlock(t)

\* demo_read and echo_read: each cell copied is one of the message that is in
\* the buffer, as nobody else has priv->lock.
LEMMA ReadingKeeps ==
    ASSUME IoInv, NEW t \in Thread, Reading(t)
    PROVE  IoInv'
<1>1. /\ UNCHANGED <<ops, buf, len, dataReady, stored, removing, wq, triggered, writes>>
      /\ pc[t] \in {"rlock", "rcopy", "runlock"}
      /\ pc'[t] \in {"rcopy", "runlock", "idle"}
      /\ \A u \in Thread \ {t} : pc'[u] = pc[u] /\ call'[u] = call[u] /\ moved'[u] = moved[u]
      /\ pc' \in [Thread -> {"idle"} \cup PollPC \cup IoPC]
  BY DEF Reading, ReadLock, ReadCopy, ReadCopied, ReadFault, ReadUnlock, Step, Goto, Finish,
         dataVars, pollVars, callVars, IoInv, TypeOK, IoPC, LockedPC
<1>2. /\ TypeOK /\ MutexHeld /\ len \in 0..Cap /\ len \in Nat /\ Cap \in Nat
      /\ call[t].n \in 0..Cap /\ fpos[t] \in 0..Cap /\ moved[t] \in Seq(Mailbox!Cell)
      /\ Len(moved[t]) \in Nat /\ Len(moved[t]) <= call[t].n
      /\ pc[t] = "rlock" => moved[t] = <<>>
      /\ pc[t] = "rcopy" => fpos[t] + call[t].n <= len
      /\ Len(stored) = len
  BY IoAssumption, LenProperties DEF IoInv, TypeOK, CallFits, WriterCells, LockedPC
<1>3. \A i \in 1..Len(moved[t]) : pc[t] \in {"rcopy", "runlock"} =>
         fpos[t] + i <= len /\ moved[t][i] = stored[fpos[t] + i]
  BY DEF IoInv, ReaderCells
<1>4. \A u \in Thread : pc[t] \in {"rcopy", "runlock"} /\ pc[u] = "wcopy" => FALSE
  <2>1. ASSUME NEW u \in Thread, pc[t] \in {"rcopy", "runlock"}, pc[u] = "wcopy" PROVE FALSE
    BY <1>2, <2>1 DEF MutexHeld, LockedPC
  <2> QED BY <2>1
<1>5. Solo(t) /\ Nobody \notin Thread
  <2>1. CASE ReadLock(t)
    BY <1>1, <1>2, <2>1, IoAssumption DEF Solo, ReadLock, Step, Goto, TypeOK, LockedPC, PollPC
  <2>2. CASE ReadCopy(t)
    BY <1>1, <1>2, <2>2, IoAssumption DEF Solo, ReadCopy, MutexHeld, LockedPC, PollPC
  <2>3. CASE ReadCopied(t)
    BY <1>1, <1>2, <2>3, IoAssumption DEF Solo, ReadCopied, Step, Goto, TypeOK, MutexHeld,
       LockedPC, PollPC
  <2>4. CASE ReadFault(t)
    BY <1>1, <1>2, <2>4, IoAssumption DEF Solo, ReadFault, Finish, Step, Goto, TypeOK, LockedPC,
       PollPC
  <2>5. CASE ReadUnlock(t)
    BY <1>1, <1>2, <2>5, IoAssumption DEF Solo, ReadUnlock, Finish, Step, Goto, TypeOK,
        LockedPC,
       PollPC
  <2> QED BY <2>1, <2>2, <2>3, <2>4, <2>5 DEF Reading
<1>6. /\ call' \in [Thread -> [n : 0..Cap, w : 0..MaxWrites]]
      /\ moved' \in [Thread -> Seq(Mailbox!Cell)]
      /\ fpos' \in [Thread -> 0..Cap] /\ out' \in Result
      /\ pc'[t] \notin LockedPC => moved'[t] = <<>>
      /\ Len(moved'[t]) <= call'[t].n
      /\ pc'[t] = "rcopy" => fpos'[t] + call'[t].n <= len
      /\ pc'[t] \in {"rcopy", "runlock"} =>
            \A i \in 1..Len(moved'[t]) :
                fpos'[t] + i <= len /\ moved'[t][i] = stored[fpos'[t] + i]
  <2>0. Len(<<>>) = 0 /\ <<>> \in Seq(Mailbox!Cell) /\ 0 \in 0..Cap /\ 0 \in 0..MaxWrites
    BY EmptySeq, IoAssumption
  <2>1. CASE ReadLock(t)
    <3>1. UNCHANGED <<moved, fpos>> /\ out' \in Result /\ pc[t] = "rlock"
          /\ pc'[t] \in LockedPC
      BY <1>2, <2>1, ResultsFit DEF ReadLock, Step, Goto, Silent, TypeOK, LockedPC
    <3>2. CASE HasData /\ fpos[t] < len
      <4>1. /\ call' = [call EXCEPT ![t].n = SmallerOf(call[t].n, len - fpos[t])]
            /\ SmallerOf(call[t].n, len - fpos[t]) \in 0..(len - fpos[t])
            /\ SmallerOf(call[t].n, len - fpos[t]) \in 0..Cap
        BY <1>2, <2>1, <3>2 DEF ReadLock, SmallerOf
      <4>2. /\ call' \in [Thread -> [n : 0..Cap, w : 0..MaxWrites]]
            /\ call'[t].n \in 0..(len - fpos[t])
        BY <1>2, <4>1 DEF TypeOK
      <4>3. /\ moved' \in [Thread -> Seq(Mailbox!Cell)] /\ fpos' \in [Thread -> 0..Cap]
            /\ moved'[t] = <<>> /\ fpos'[t] = fpos[t]
        BY <1>2, <3>1 DEF TypeOK
      <4>4. fpos'[t] + call'[t].n <= len /\ 0 <= call'[t].n
        <5> HIDE DEF TypeOK
        <5> QED BY <1>2, <3>2, <4>2, <4>3
      <4>5. Len(moved'[t]) = 0
        BY <2>0, <4>3
      <4>6. \A i \in 1..Len(moved'[t]) : FALSE
        BY <4>5
      <4> QED BY <3>1, <4>2, <4>3, <4>4, <4>5, <4>6
    <3>3. CASE ~(HasData /\ fpos[t] < len)
      <4>1. call' = call /\ pc'[t] = "runlock"
        BY <1>2, <2>1, <3>3 DEF ReadLock, Step, Goto, TypeOK
      <4> QED BY <1>2, <2>0, <3>1, <4>1 DEF TypeOK
    <3> QED BY <3>2, <3>3
  <2>2. CASE ReadCopy(t)
    <3> DEFINE i == fpos[t] + Len(moved[t]) + 1
    <3>1. /\ pc[t] = "rcopy" /\ pc'[t] = "rcopy" /\ UNCHANGED <<fpos, call>>
          /\ Len(moved[t]) < call[t].n /\ out' \in Result
          /\ moved' = [moved EXCEPT ![t] = Append(@, buf[i])]
      BY <2>2, ResultsFit DEF ReadCopy, Silent
    <3>2. i \in 1..len /\ i \in 1..Cap
      BY <1>2, <3>1
    <3>3. buf[i] = stored[i] /\ buf[i] \in Mailbox!Cell
      BY <1>2, <1>4, <3>1, <3>2 DEF IoInv, WriterCells, TypeOK
    <3> HIDE DEF i
    <3>4. moved'[t] = Append(moved[t], buf[i]) /\ moved' \in [Thread -> Seq(Mailbox!Cell)]
      BY <1>2, <3>1, <3>3, AppendProperties DEF TypeOK
    <3>5. /\ Len(moved'[t]) = Len(moved[t]) + 1
          /\ \A j \in 1..Len(moved[t]) : moved'[t][j] = moved[t][j]
          /\ moved'[t][Len(moved[t]) + 1] = buf[i]
      BY <1>2, <3>3, <3>4, AppendProperties
    <3>6. \A j \in 1..Len(moved'[t]) :
              fpos[t] + j <= len /\ moved'[t][j] = stored[fpos[t] + j]
      <4>1. SUFFICES ASSUME NEW j \in 1..Len(moved'[t])
                     PROVE  fpos[t] + j <= len /\ moved'[t][j] = stored[fpos[t] + j]
        OBVIOUS
      <4>2. CASE j \in 1..Len(moved[t])
        BY <1>3, <3>1, <3>5, <4>2
      <4>3. CASE j = Len(moved[t]) + 1
        <5>0. fpos[t] \in Int /\ Len(moved[t]) \in Int
          BY <1>2
        <5>1. fpos[t] + j = i
          BY <5>0, <4>3 DEF i
        <5> QED BY <3>2, <3>3, <3>5, <4>3, <5>1
      <4> QED BY <1>2, <3>5, <4>2, <4>3
    <3>7. pc'[t] \in LockedPC
      BY <3>1 DEF LockedPC
    <3>8. Len(moved'[t]) <= call'[t].n
      BY <1>2, <3>1, <3>5
    <3>9. fpos'[t] + call'[t].n <= len
      BY <1>2, <3>1
    <3>10. UNCHANGED <<fpos, call>> /\ call \in [Thread -> [n : 0..Cap, w : 0..MaxWrites]]
           /\ fpos \in [Thread -> 0..Cap]
      BY <1>2, <3>1 DEF TypeOK
    <3> QED BY <3>1, <3>4, <3>6, <3>7, <3>8, <3>9, <3>10
  <2>3. CASE ReadCopied(t)
    BY <1>2, <1>3, <2>3, ResultsFit DEF ReadCopied, Step, Goto, Silent, callVars, TypeOK,
       LockedPC
  <2>4. ASSUME Finish(t, "rcopy") \/ Finish(t, "runlock"), fpos' \in [Thread -> 0..Cap],
               out' \in Result
        PROVE  /\ call' \in [Thread -> [n : 0..Cap, w : 0..MaxWrites]]
               /\ moved' \in [Thread -> Seq(Mailbox!Cell)]
               /\ moved'[t] = <<>> /\ Len(moved'[t]) <= call'[t].n
               /\ pc'[t] = "idle"
    <3>1. /\ pc'[t] = "idle" /\ call' = [call EXCEPT ![t] = NoCall]
          /\ moved' = [moved EXCEPT ![t] = <<>>]
      BY <1>2, <2>4 DEF Finish, Step, Goto, TypeOK
    <3> QED BY <1>2, <2>0, <3>1 DEF TypeOK, NoCall
  <2>5. CASE ReadFault(t)
    BY <1>2, <2>4, <2>5, ResultsFit DEF ReadFault, Return, TypeOK
  <2>6. CASE ReadUnlock(t)
    <3>1. fpos[t] + Len(moved[t]) <= Cap
      BY <1>2, <1>3, <2>6 DEF ReadUnlock, Finish, Step
    <3>2. fpos' \in [Thread -> 0..Cap]
      BY <1>2, <2>6, <3>1 DEF ReadUnlock, TypeOK
    <3>3. out' \in Result
      BY <1>2, <2>6, ResultsFit DEF ReadUnlock, Return
    <3> QED BY <2>4, <2>6, <3>2, <3>3 DEF ReadUnlock
  <2> QED BY <2>1, <2>2, <2>3, <2>5, <2>6 DEF Reading
<1>7. TypeOK'
  BY <1>1, <1>2, <1>5, <1>6 DEF TypeOK, Solo, Result
<1>8. /\ MutexHeld' /\ CallFits' /\ PollersQueued'
      /\ \A u \in Thread \ {t} : pc[u] \notin LockedPC /\ pc'[u] \notin LockedPC
  BY <1>1, <1>5, <1>6, SoloKeeps
<1>9. WriterCells' /\ ReaderCells'
  BY <1>1, <1>6, <1>8, SoloCells
<1>10. NoLostPoll'
  BY <1>1, QuietKeeps DEF HasData, Demo, PollPC
<1> QED BY <1>7, <1>8, <1>9, <1>10 DEF IoInv

\* What a step of a write starts from.
LEMMA WriterStarts ==
    ASSUME IoInv, NEW t \in Thread, pc[t] \in {"wlock", "wcopy", "wwake", "wunlock"}
    PROVE  /\ len \in 0..Cap /\ len \in Nat /\ Cap \in Nat
           /\ call[t].n \in 0..Cap /\ call[t].w \in 0..MaxWrites
           /\ moved[t] \in Seq(Mailbox!Cell) /\ Len(moved[t]) \in Nat
           /\ Len(moved[t]) <= call[t].n
           /\ pc[t] \in {"wlock", "wcopy"} => call[t].w \in 1..MaxWrites
           /\ pc[t] = "wlock" => moved[t] = <<>>
           /\ pc[t] # "wlock" => lock = t
           /\ Len(stored) = len /\ stored \in Seq(Mailbox!Cell)
           /\ Nobody \notin Thread
BY IoAssumption, LenProperties
   DEF IoInv, TypeOK, CallFits, WriterCells, MutexHeld, LockedPC

\* mutex_lock before copy_from_user.
LEMMA WriteLockKeeps == ASSUME IoInv, NEW t \in Thread, WriteLock(t) PROVE IoInv'
<1>1. /\ UNCHANGED <<ops, buf, len, dataReady, stored, removing, wq, triggered, fpos, call,
                     moved, writes>>
      /\ pc[t] = "wlock" /\ lock = Nobody /\ lock' = t /\ pc'[t] = "wcopy"
      /\ \A u \in Thread \ {t} : pc'[u] = pc[u]
      /\ pc' \in [Thread -> {"idle"} \cup PollPC \cup IoPC] /\ out' \in Result /\ TypeOK
  BY ResultsFit DEF WriteLock, Step, Goto, Silent, dataVars, pollVars, callVars, IoInv, TypeOK,
     IoPC, LockedPC
<1>2. TypeOK'
  BY <1>1 DEF TypeOK, Result
<1>3. Solo(t)
  BY <1>1 DEF Solo, LockedPC, PollPC
<1>4. /\ MutexHeld' /\ CallFits' /\ PollersQueued'
      /\ \A u \in Thread \ {t} : pc[u] \notin LockedPC /\ pc'[u] \notin LockedPC
  BY <1>1, <1>3, WriterStarts, SoloKeeps DEF LockedPC
<1>5. WriterCells' /\ ReaderCells'
  BY <1>1, <1>4, WriterStarts, SoloCells
<1>6. NoLostPoll'
  BY <1>1, QuietKeeps DEF HasData, Demo, PollPC
<1> QED BY <1>2, <1>4, <1>5, <1>6 DEF IoInv

\* copy_from_user, one cell: the cells not yet copied still hold the message.
LEMMA WriteCopyKeeps == ASSUME IoInv, NEW t \in Thread, WriteCopy(t) PROVE IoInv'
<1> DEFINE k == Len(moved[t]) + 1
           c == <<call[t].w, k>>
<1>1. /\ UNCHANGED <<ops, len, dataReady, stored, lock, removing, wq, triggered, fpos, call,
                     pc, writes>>
      /\ pc[t] = "wcopy" /\ Len(moved[t]) < call[t].n
      /\ buf' = [buf EXCEPT ![k] = c] /\ moved' = [moved EXCEPT ![t] = Append(@, c)]
      /\ out' \in Result /\ TypeOK
  BY ResultsFit DEF WriteCopy, Silent, dataVars, pollVars, IoInv
<1>2. /\ k \in 1..Cap /\ k = Len(moved[t]) + 1 /\ k \in Nat /\ k <= call[t].n
      /\ call[t].w \in 1..MaxWrites
  BY <1>1, WriterStarts
<1>3. c \in Mailbox!Cell /\ c = <<call[t].w, k>>
  BY <1>2 DEF Mailbox!Cell
<1> HIDE DEF k, c
<1>4. moved'[t] = Append(moved[t], c) /\ moved' \in [Thread -> Seq(Mailbox!Cell)]
      /\ \A u \in Thread \ {t} : moved'[u] = moved[u]
  BY <1>1, <1>3, WriterStarts, AppendProperties DEF TypeOK
<1>5. /\ Len(moved'[t]) = k
      /\ \A j \in 1..Len(moved[t]) : moved'[t][j] = moved[t][j]
      /\ moved'[t][k] = c
  BY <1>1, <1>2, <1>3, <1>4, WriterStarts, AppendProperties
<1>6. /\ buf' \in [1..Cap -> Mailbox!Cell] /\ buf'[k] = c
      /\ \A i \in 1..Cap : i # k => buf'[i] = buf[i]
  BY <1>1, <1>2, <1>3 DEF TypeOK
<1>7. TypeOK'
  BY <1>1, <1>4, <1>6 DEF TypeOK, Result
<1>8. Solo(t)
  BY <1>1, <1>4, WriterStarts DEF Solo, LockedPC, PollPC
<1>9. /\ MutexHeld' /\ CallFits' /\ PollersQueued'
      /\ \A u \in Thread \ {t} : pc[u] \notin LockedPC /\ pc'[u] \notin LockedPC
  BY <1>1, <1>2, <1>5, <1>8, SoloKeeps DEF LockedPC
<1>10. \A u \in Thread : pc'[u] \in LockedPC => u = t
  BY <1>9
<1>11. WriterCells'
  <2>1. /\ Len(stored) = len
        /\ \A i \in 1..Len(moved[t]) : moved[t][i] = <<call[t].w, i>> /\ buf[i] = <<call[t].w, i>>
        /\ \A i \in 1..len : Len(moved[t]) < i => stored[i] = buf[i]
    BY <1>1 DEF IoInv, WriterCells
  <2>2. \A i \in 1..k :
           moved'[t][i] = <<call[t].w, i>> /\ buf'[i] = <<call[t].w, i>>
    <3>1. SUFFICES ASSUME NEW i \in 1..k
                   PROVE  moved'[t][i] = <<call[t].w, i>> /\ buf'[i] = <<call[t].w, i>>
      OBVIOUS
    <3>2. CASE i = k
      BY <1>3, <1>5, <1>6, <3>2
    <3>3. CASE i # k
      <4>1. i \in 1..Len(moved[t]) /\ i \in 1..Cap
        BY <1>1, <1>2, <3>3, WriterStarts
      <4> QED BY <1>5, <1>6, <2>1, <3>3, <4>1
    <3> QED BY <3>2, <3>3
  <2>3. \A i \in 1..len : k < i => stored[i] = buf'[i]
    <3>1. \A i \in 1..len : k < i => i # k /\ i \in 1..Cap /\ Len(moved[t]) < i
      BY <1>1, <1>2, WriterStarts
    <3> QED BY <1>6, <2>1, <3>1
  <2>4. \A u \in Thread : pc'[u] = "wcopy" => u = t
    BY <1>10 DEF LockedPC
  <2> QED BY <1>1, <1>5, <2>1, <2>2, <2>3, <2>4 DEF WriterCells
<1>12. ReaderCells'
  BY <1>1, <1>10 DEF ReaderCells, LockedPC
<1>13. NoLostPoll'
  BY <1>1, QuietKeeps DEF HasData, Demo, PollPC
<1> QED BY <1>7, <1>9, <1>11, <1>12, <1>13 DEF IoInv

\* copy_from_user stops: the message keeps its length and what is in the buffer.
LEMMA WriteFaultKeeps == ASSUME IoInv, NEW t \in Thread, WriteFault(t) PROVE IoInv'
<1> DEFINE z == ZeroFilled(Len(moved[t]), call[t].n)
<1>1. /\ UNCHANGED <<ops, len, dataReady, removing, wq, triggered, fpos, writes>>
      /\ pc[t] = "wcopy" /\ pc' = [pc EXCEPT ![t] = "idle"]
      /\ call' = [call EXCEPT ![t] = NoCall] /\ moved' = [moved EXCEPT ![t] = <<>>]
      /\ lock' = Nobody /\ out' \in Result /\ TypeOK
      /\ buf' = z /\ stored' = [i \in 1..len |-> z[i]]
  BY ResultsFit DEF WriteFault, Finish, Step, Goto, Return, pollVars, IoInv
<1>2. z \in [1..Cap -> Mailbox!Cell]
  BY <1>1 DEF ZeroFilled, Mailbox!Cell, TypeOK
<1> HIDE DEF z
<1>3. /\ stored' \in Seq(Mailbox!Cell) /\ Len(stored') = len
      /\ \A i \in 1..len : stored'[i] = buf'[i]
  <2>1. len \in Nat /\ stored' = [i \in 1..len |-> z[i]] /\ \A i \in 1..len : i \in 1..Cap
    BY <1>1, WriterStarts
  <2>2. stored' \in [1..len -> Mailbox!Cell] /\ \A i \in 1..len : stored'[i] = z[i]
    BY <1>2, <2>1
  <2>3. stored' \in Seq(Mailbox!Cell)
    BY <2>1, <2>2, SeqDef
  <2> QED BY <1>1, <2>1, <2>2, <2>3, LenProperties
<1>4. /\ pc'[t] = "idle" /\ moved'[t] = <<>> /\ Len(moved'[t]) = 0 /\ call'[t].n = 0
      /\ \A u \in Thread \ {t} : pc'[u] = pc[u] /\ call'[u] = call[u] /\ moved'[u] = moved[u]
      /\ call' \in [Thread -> [n : 0..Cap, w : 0..MaxWrites]]
      /\ moved' \in [Thread -> Seq(Mailbox!Cell)]
      /\ pc' \in [Thread -> {"idle"} \cup PollPC \cup IoPC]
  BY <1>1, EmptySeq, IoAssumption DEF TypeOK, NoCall
<1>5. TypeOK'
  BY <1>1, <1>2, <1>3, <1>4 DEF TypeOK, Result
<1>6. Solo(t)
  BY <1>1, <1>4, WriterStarts DEF Solo, LockedPC, PollPC
<1>7. /\ MutexHeld' /\ CallFits' /\ PollersQueued'
      /\ \A u \in Thread \ {t} : pc[u] \notin LockedPC /\ pc'[u] \notin LockedPC
  <2>1. Len(moved'[t]) <= call'[t].n /\ pc'[t] \notin {"wlock", "wcopy", "rcopy"}
    BY <1>4
  <2> QED BY <1>4, <1>6, <2>1, SoloKeeps
<1>8. \A u \in Thread : pc'[u] \notin LockedPC
  BY <1>4, <1>7 DEF LockedPC
<1>9. WriterCells' /\ ReaderCells'
  BY <1>1, <1>3, <1>8 DEF WriterCells, ReaderCells, LockedPC
<1>10. NoLostPoll'
  BY <1>1, <1>4, QuietKeeps DEF HasData, Demo, PollPC
<1> QED BY <1>5, <1>7, <1>9, <1>10 DEF IoInv

\* demo_write, echo_write take over the new length: what was copied is the
\* message, and pollers that sleep are woken next.
LEMMA WriteDoneKeeps == ASSUME IoInv, NEW t \in Thread, WriteDone(t) PROVE IoInv'
<1>1. /\ UNCHANGED <<ops, buf, lock, removing, wq, triggered, call, moved, writes>>
      /\ pc[t] = "wcopy" /\ pc' = [pc EXCEPT ![t] = "wwake"]
      /\ Len(moved[t]) = call[t].n /\ len' = call[t].n /\ dataReady' = TRUE
      /\ fpos' = [fpos EXCEPT ![t] = IF Demo THEN 0 ELSE call[t].n]
      /\ stored' = moved[t] /\ out' \in Result /\ TypeOK
  BY ResultsFit DEF WriteDone, Step, Goto, Silent, pollVars, IoInv
<1>2. /\ pc'[t] = "wwake" /\ \A u \in Thread \ {t} : pc'[u] = pc[u]
      /\ pc' \in [Thread -> {"idle"} \cup PollPC \cup IoPC]
      /\ fpos' \in [Thread -> 0..Cap]
  BY <1>1, WriterStarts DEF TypeOK, IoPC, LockedPC
<1>3. TypeOK'
  BY <1>1, <1>2, WriterStarts DEF TypeOK, Result
<1>4. Solo(t)
  BY <1>1, <1>2, WriterStarts DEF Solo, LockedPC, PollPC
<1>5. /\ MutexHeld' /\ CallFits' /\ PollersQueued'
      /\ \A u \in Thread \ {t} : pc[u] \notin LockedPC /\ pc'[u] \notin LockedPC
  <2>1. pc'[t] \in LockedPC /\ pc'[t] \notin {"wlock", "wcopy", "rcopy"}
    BY <1>2 DEF LockedPC
  <2>2. Len(moved'[t]) <= call'[t].n
    BY <1>1, WriterStarts
  <2> QED BY <1>4, <2>1, <2>2, SoloKeeps
<1>6. \A u \in Thread : pc'[u] \notin {"rcopy", "runlock", "wcopy"}
  BY <1>2, <1>5 DEF LockedPC
<1>7. Len(stored') = len' /\ \A i \in 1..len' : stored'[i] = buf'[i]
  BY <1>1 DEF IoInv, WriterCells
<1>8. WriterCells' /\ ReaderCells'
  BY <1>6, <1>7 DEF WriterCells, ReaderCells
<1>9. NoLostPoll'
  BY <1>2 DEF NoLostPoll
<1> QED BY <1>3, <1>5, <1>8, <1>9 DEF IoInv

\* nv_char_wake triggers every thread with an entry on the queue, the sleepers
\* in poll(2) among them.
LEMMA WokenAll ==
    ASSUME IoInv, NEW t \in Thread, triggered' = triggered \cup wq, wq' = wq,
           pc'[t] # "psleep", \A u \in Thread \ {t} : pc'[u] = pc[u]
    PROVE  NoLostPoll'
BY DEF IoInv, NoLostPoll, PollersQueued

\* demo_write calls nv_char_wake with the lock still held.
LEMMA WriteWakeKeeps == ASSUME IoInv, NEW t \in Thread, WriteWake(t) PROVE IoInv'
<1>1. /\ UNCHANGED <<ops, buf, len, dataReady, stored, lock, removing, wq, fpos, call,
                     moved, writes>>
      /\ pc[t] = "wwake" /\ pc' = [pc EXCEPT ![t] = "wunlock"]
      /\ triggered' = triggered \cup wq /\ out' \in Result /\ TypeOK
  BY ResultsFit DEF WriteWake, Wake, Step, Goto, Silent, dataVars, callVars, IoInv
<1>2. /\ pc'[t] = "wunlock" /\ \A u \in Thread \ {t} : pc'[u] = pc[u]
      /\ pc' \in [Thread -> {"idle"} \cup PollPC \cup IoPC]
  BY <1>1 DEF TypeOK, IoPC, LockedPC
<1>3. TypeOK'
  BY <1>1, <1>2 DEF TypeOK, Result
<1>4. Solo(t)
  BY <1>1, <1>2, WriterStarts DEF Solo, LockedPC, PollPC
<1>5. /\ MutexHeld' /\ CallFits' /\ PollersQueued'
      /\ \A u \in Thread \ {t} : pc[u] \notin LockedPC /\ pc'[u] \notin LockedPC
  BY <1>1, <1>2, <1>4, WriterStarts, SoloKeeps DEF LockedPC
<1>6. WriterCells' /\ ReaderCells'
  BY <1>1, <1>2, <1>5, SoloCells
<1>7. NoLostPoll'
  BY <1>1, <1>2, WokenAll
<1> QED BY <1>3, <1>5, <1>6, <1>7 DEF IoInv

\* mutex_unlock at the end of a write.
LEMMA WriteUnlockKeeps == ASSUME IoInv, NEW t \in Thread, WriteUnlock(t) PROVE IoInv'
<1>1. /\ UNCHANGED <<ops, buf, len, dataReady, stored, removing, wq, triggered, fpos, writes>>
      /\ pc[t] = "wunlock" /\ pc' = [pc EXCEPT ![t] = "idle"]
      /\ call' = [call EXCEPT ![t] = NoCall] /\ moved' = [moved EXCEPT ![t] = <<>>]
      /\ lock' = Nobody /\ out' \in Result /\ TypeOK
  BY ResultsFit DEF WriteUnlock, Finish, Step, Goto, Silent, dataVars, pollVars, IoInv
<1>2. /\ pc'[t] = "idle" /\ moved'[t] = <<>> /\ Len(moved'[t]) = 0 /\ call'[t].n = 0
      /\ \A u \in Thread \ {t} : pc'[u] = pc[u] /\ call'[u] = call[u] /\ moved'[u] = moved[u]
      /\ call' \in [Thread -> [n : 0..Cap, w : 0..MaxWrites]]
      /\ moved' \in [Thread -> Seq(Mailbox!Cell)]
      /\ pc' \in [Thread -> {"idle"} \cup PollPC \cup IoPC]
  BY <1>1, EmptySeq, IoAssumption DEF TypeOK, NoCall
<1>3. TypeOK'
  BY <1>1, <1>2 DEF TypeOK, Result
<1>4. Solo(t)
  BY <1>1, <1>2, WriterStarts DEF Solo, LockedPC, PollPC
<1>5. /\ MutexHeld' /\ CallFits' /\ PollersQueued'
      /\ \A u \in Thread \ {t} : pc[u] \notin LockedPC /\ pc'[u] \notin LockedPC
  <2>1. Len(moved'[t]) <= call'[t].n /\ pc'[t] \notin {"wlock", "wcopy", "rcopy"}
    BY <1>2
  <2> QED BY <1>2, <1>4, <2>1, SoloKeeps
<1>6. WriterCells' /\ ReaderCells'
  BY <1>1, <1>2, <1>5, SoloCells
<1>7. NoLostPoll'
  BY <1>1, <1>2, QuietKeeps DEF HasData, Demo, PollPC
<1> QED BY <1>3, <1>5, <1>6, <1>7 DEF IoInv

\* demo_ioctl_get_len, and nv_char_wake at the end of demo_ioctl_clear.
LEMMA IoctlKeeps ==
    ASSUME IoInv, NEW t \in Thread, IoctlGetLen(t) \/ ClearWake(t)
    PROVE  IoInv'
<1>1. /\ TypeOK /\ pc[t] \in {"getlen", "cwake"} /\ moved[t] = <<>> /\ len \in 0..Cap
      /\ moved \in [Thread -> Seq(Mailbox!Cell)]
  BY DEF IoctlGetLen, ClearWake, Finish, Step, IoInv, TypeOK, CallFits, LockedPC
<1>2. [moved EXCEPT ![t] = <<>>] = moved
  BY <1>1
<1>3. /\ UNCHANGED <<ops, buf, len, dataReady, stored, lock, removing, wq, fpos, moved,
                     writes>>
      /\ pc' = [pc EXCEPT ![t] = "idle"] /\ call' = [call EXCEPT ![t] = NoCall]
      /\ triggered' \in {triggered, triggered \cup wq}
  BY <1>2 DEF IoctlGetLen, ClearWake, Wake, Finish, Step, Goto, dataVars, pollVars
<1>4. out' \in Result
  BY <1>1, ResultsFit DEF IoctlGetLen, ClearWake, Return, Silent
<1>5. /\ pc'[t] = "idle" /\ \A u \in Thread \ {t} : pc'[u] = pc[u] /\ call'[u] = call[u]
      /\ call' \in [Thread -> [n : 0..Cap, w : 0..MaxWrites]]
      /\ pc' \in [Thread -> {"idle"} \cup PollPC \cup IoPC]
  BY <1>1, <1>3, IoAssumption DEF TypeOK, NoCall
<1>6. TypeOK'
  BY <1>1, <1>3, <1>4, <1>5 DEF TypeOK, Result
<1>7. Outside(t)
  BY <1>1, <1>3, <1>5 DEF Outside, LockedPC
<1>8. MutexHeld' /\ CallFits' /\ WriterCells' /\ ReaderCells'
  BY <1>5, <1>7, OutsideKeeps
<1>9. PollersQueued'
  BY <1>3, <1>5 DEF PollersQueued, IoInv
<1>10. NoLostPoll'
  BY <1>1, <1>3, <1>5, WokenAll, QuietKeeps DEF HasData, Demo, PollPC
<1> QED BY <1>6, <1>8, <1>9, <1>10 DEF IoInv

\* demo_ioctl_clear: it takes the lock, so no copy is under way.
LEMMA ClearKeeps == ASSUME IoInv, NEW t \in Thread, IoctlClear(t) PROVE IoInv'
<1>1. /\ UNCHANGED <<ops, buf, lock, removing, wq, triggered, fpos, call, moved, writes>>
      /\ pc[t] = "clear" /\ pc' = [pc EXCEPT ![t] = "cwake"] /\ lock = Nobody
      /\ len' = 0 /\ dataReady' = FALSE /\ stored' = <<>> /\ out' \in Result /\ TypeOK
  BY ResultsFit DEF IoctlClear, Step, Goto, Silent, pollVars, callVars, IoInv
<1>2. /\ pc'[t] = "cwake" /\ \A u \in Thread \ {t} : pc'[u] = pc[u]
      /\ pc' \in [Thread -> {"idle"} \cup PollPC \cup IoPC]
  BY <1>1 DEF TypeOK, IoPC
<1>3. Len(<<>>) = 0 /\ <<>> \in Seq(Mailbox!Cell) /\ 0 \in 0..Cap
  BY EmptySeq, IoAssumption
<1>4. TypeOK'
  BY <1>1, <1>2, <1>3 DEF TypeOK, Result
<1>5. Solo(t)
  BY <1>1, <1>2, IoAssumption DEF Solo, LockedPC, PollPC
<1>6. moved[t] = <<>> /\ Len(moved[t]) <= call[t].n
  BY <1>1 DEF IoInv, CallFits, LockedPC
<1>7. /\ MutexHeld' /\ CallFits' /\ PollersQueued'
      /\ \A u \in Thread \ {t} : pc[u] \notin LockedPC /\ pc'[u] \notin LockedPC
  BY <1>1, <1>2, <1>5, <1>6, SoloKeeps
<1>8. \A u \in Thread : pc'[u] \notin {"rcopy", "runlock", "wcopy"}
  BY <1>2, <1>7 DEF LockedPC
<1>9. WriterCells' /\ ReaderCells'
  BY <1>1, <1>3, <1>8 DEF WriterCells, ReaderCells
<1>10. NoLostPoll'
  BY <1>1 DEF NoLostPoll, HasData
<1> QED BY <1>4, <1>7, <1>9, <1>10 DEF IoInv

-----------------------------------------------------------------------------
(* The invariant and what follows from it *)

\* nv_char_device_register leaves an empty buffer and no caller.
LEMMA IoInit == Init => IoInv
<1> SUFFICES ASSUME Init PROVE IoInv
  OBVIOUS
<1>1. /\ 0 \in 0..Cap /\ 0 \in 0..MaxWrites /\ <<>> \in Seq(Mailbox!Cell) /\ Len(<<>>) = 0
      /\ Mailbox!Zero \in Mailbox!Cell /\ Nobody \notin Thread
  BY EmptySeq, IoAssumption DEF Mailbox!Cell
<1>2. TypeOK
  BY <1>1, ResultsFit DEF Init, TypeOK, Result, NoCall
<1>3. \A t \in Thread : pc[t] = "idle" /\ moved[t] = <<>> /\ call[t].n = 0
  BY DEF Init, NoCall
<1>4. MutexHeld /\ CallFits /\ ReaderCells /\ PollersQueued /\ NoLostPoll
  BY <1>1, <1>3 DEF Init, MutexHeld, CallFits, ReaderCells, PollersQueued, NoLostPoll,
     LockedPC
<1>5. WriterCells
  BY <1>1, <1>3 DEF Init, WriterCells
<1> QED BY <1>2, <1>4, <1>5 DEF IoInv

\* Each step of a call, and the removal.
LEMMA IoNext == IoInv /\ [Next]_vars => IoInv'
<1> SUFFICES ASSUME IoInv, [Next]_vars PROVE IoInv'
  OBVIOUS
<1>1. CASE SetRemoving
  BY <1>1, RemovingKeeps
<1>2. ASSUME NEW t \in Thread, User(t) PROVE IoInv'
  BY <1>2, EnteringKeeps DEF User, Entering
<1>3. ASSUME NEW t \in Thread, Inside(t) \/ PollTimeout(t) PROVE IoInv'
  <2>1. CASE Reading(t)
    BY <2>1, ReadingKeeps
  <2>2. CASE Polling(t)
    BY <2>2, PollingKeeps
  <2>3. CASE WriteLock(t) \/ WriteCopy(t) \/ WriteFault(t) \/ WriteDone(t)
    BY <2>3, WriteLockKeeps, WriteCopyKeeps, WriteFaultKeeps, WriteDoneKeeps
  <2>4. CASE WriteWake(t) \/ WriteUnlock(t) \/ IoctlGetLen(t) \/ IoctlClear(t) \/ ClearWake(t)
    BY <2>4, WriteWakeKeeps, WriteUnlockKeeps, IoctlKeeps, ClearKeeps
  <2> QED BY <1>3, <2>1, <2>2, <2>3, <2>4 DEF Inside, Reading, Polling
<1>4. CASE UNCHANGED vars
  <2>1. UNCHANGED vars /\ UNCHANGED <<dataVars, pollVars, callVars>>
    BY <1>4 DEF vars
  <2>2. TypeOK'
    BY <2>1 DEF vars, dataVars, pollVars, callVars, IoInv, TypeOK
  <2>3. MutexHeld' /\ CallFits' /\ PollersQueued'
    BY <2>1 DEF vars, dataVars, pollVars, callVars, IoInv, MutexHeld, CallFits, PollersQueued
  <2>4. WriterCells' /\ ReaderCells'
    BY <2>1 DEF vars, dataVars, callVars, IoInv, WriterCells, ReaderCells
  <2>5. NoLostPoll'
    BY <2>1 DEF vars, dataVars, pollVars, IoInv, NoLostPoll, Demo, HasData
  <2> QED BY <2>2, <2>3, <2>4, <2>5 DEF IoInv
<1> QED BY <1>1, <1>2, <1>3, <1>4 DEF Next

\* Whatever the interleaving of reads, writes, ioctls, polls and the removal.
THEOREM IoInvariant == Spec => []IoInv
<1> QED BY IoInit, IoNext, PTL DEF Spec

\* The copies stay inside priv->buf and the length inside its size: TypeOK
\* bounds every index and position by DEMO_BUF_SIZE.
THEOREM IoTypeOK == Spec => []TypeOK
<1>1. IoInv => TypeOK
  BY DEF IoInv
<1> QED BY <1>1, IoInvariant, PTL

\* priv->lock is held exactly between mutex_lock and mutex_unlock of
\* demo_read, demo_write and their echo twins, on the -EFAULT paths too.
THEOREM IoMutexHeld == Spec => []MutexHeld
<1>1. IoInv => MutexHeld
  BY DEF IoInv
<1> QED BY <1>1, IoInvariant, PTL

\* What the two clauses about cells say of the message as a whole.
LEMMA CellsMakeMessage == IoInv => BufferHoldsMessage
<1> SUFFICES ASSUME IoInv PROVE BufferHoldsMessage
  OBVIOUS
<1>1. TypeOK /\ WriterCells /\ ReaderCells
  BY DEF IoInv
<1>2. ASSUME \A t \in Thread : pc[t] # "wcopy" PROVE stored = Stored
  <2>1. /\ len \in Nat /\ stored \in Seq(Mailbox!Cell) /\ Len(stored) = len
        /\ \A i \in 1..len : stored[i] = buf[i] /\ buf[i] \in Mailbox!Cell
    BY <1>1, <1>2, IoAssumption DEF TypeOK, WriterCells
  <2>2. Stored \in [1..len -> Mailbox!Cell] /\ \A i \in 1..len : Stored[i] = buf[i]
    BY <2>1 DEF Stored
  <2>3. Stored \in Seq(Mailbox!Cell)
    BY <2>1, <2>2, SeqDef
  <2>4. Len(Stored) = len
    BY <2>1, <2>2, <2>3, LenProperties
  <2> QED BY <2>1, <2>2, <2>3, <2>4, SeqEqual
<1>3. ASSUME NEW t \in Thread, pc[t] \in {"rcopy", "runlock"}, NEW i \in 1..Len(moved[t])
      PROVE  fpos[t] + i <= Len(stored) /\ moved[t][i] = stored[fpos[t] + i]
  BY <1>1, <1>3 DEF ReaderCells, WriterCells
<1> QED BY <1>2, <1>3 DEF BufferHoldsMessage

\* No read of demo_read or echo_read mixes two messages, and unless a write is
\* copying, priv->buf holds the last one.
THEOREM IoBufferHoldsMessage == Spec => []BufferHoldsMessage
<1> QED BY IoInvariant, CellsMakeMessage, PTL

\* poll_wait before the test in demo_poll, and nv_char_wake after the data is
\* there: no sleeper in poll(2) misses a message.
THEOREM IoNoLostPoll == Spec => []NoLostPoll
<1>1. IoInv => NoLostPoll
  BY DEF IoInv
<1> QED BY <1>1, IoInvariant, PTL

-----------------------------------------------------------------------------
(* The buffer implements the mailbox *)

\* A call that gives user space no data and leaves the message alone.
LEMMA NothingHappens ==
    ASSUME UNCHANGED stored, out' \in {Mailbox!NoResult, Mailbox!Failure}
    PROVE  Mailbox!Next
BY DEF Mailbox!Next, Mailbox!Nothing, Mailbox!Silent, Mailbox!Return

\* demo_read and echo_read return a piece of the message: the one in the buffer
\* at the unlock.
LEMMA ReadIsGet == ASSUME IoInv, NEW t \in Thread, ReadUnlock(t) PROVE Mailbox!Next
<1> DEFINE p == fpos[t]
           s == SubSeq(stored, p + 1, p + Len(moved[t]))
<1>1. /\ UNCHANGED stored /\ out' = Mailbox!ReadResult(moved[t]) /\ pc[t] = "runlock"
      /\ p \in 0..Cap /\ moved[t] \in Seq(Mailbox!Cell) /\ Len(moved[t]) \in Nat
      /\ stored \in Seq(Mailbox!Cell) /\ Len(stored) = len /\ len \in 0..Cap
      /\ Cap \in Nat /\ p \in Nat
  BY IoAssumption, LenProperties
     DEF ReadUnlock, Finish, Step, Return, dataVars, IoInv, TypeOK, WriterCells
<1>2. \A i \in 1..Len(moved[t]) : p + i <= len /\ moved[t][i] = stored[p + i]
  BY <1>1 DEF IoInv, ReaderCells
<1> HIDE DEF p
<1>3. CASE Len(moved[t]) = 0
  <2>1. moved[t] = <<>>
    BY <1>1, <1>3, EmptySeq, SeqEqual
  <2>2. SubSeq(stored, 0 + 1, 0) = <<>> /\ 0 \in 0..Len(stored)
    BY <1>1, SubSeqEmpty
  <2> QED BY <1>1, <2>1, <2>2 DEF Mailbox!Next, Mailbox!Get, Mailbox!Return
<1>4. CASE Len(moved[t]) # 0
  <2>1. p + Len(moved[t]) <= len
    BY <1>1, <1>2, <1>4
  <2>2. /\ p + Len(moved[t]) \in 0..Len(stored) /\ p \in 0..Len(stored)
        /\ \A i \in (p + 1)..(p + Len(moved[t])) : i \in 1..Len(stored)
    BY <1>1, <2>1
  <2>3. /\ s \in Seq(Mailbox!Cell) /\ Len(s) = Len(moved[t])
        /\ \A i \in 1..Len(moved[t]) : s[i] = stored[(p + 1) + i - 1]
    <3>1. \A i \in (p + 1)..(p + Len(moved[t])) : stored[i] \in Mailbox!Cell
      BY <1>1, <2>2, ElementOfSeq
    <3>2. /\ p + 1 \in Int /\ p + Len(moved[t]) \in Int /\ p + 1 <= p + Len(moved[t])
          /\ (p + Len(moved[t])) - (p + 1) + 1 = Len(moved[t])
      BY <1>1, <1>4
    <3> QED BY <3>1, <3>2, SubSeqProperties
  <2>4. \A i \in 1..Len(moved[t]) : (p + 1) + i - 1 = p + i
    BY <1>1
  <2> HIDE DEF s
  <2>5. s = moved[t]
    <3>1. ASSUME NEW i \in 1..Len(moved[t]) PROVE s[i] = moved[t][i]
      <4>1. s[i] = stored[(p + 1) + i - 1] /\ moved[t][i] = stored[p + i]
        BY <1>2, <2>3
      <4>2. (p + 1) + i - 1 = p + i
        BY <2>4
      <4> QED BY <4>1, <4>2
    <3>2. s \in Seq(Mailbox!Cell) /\ Len(s) = Len(moved[t])
      BY <2>3
    <3>3. moved[t] \in Seq(Mailbox!Cell)
      BY <1>1
    <3>4. \A i \in 1..Len(s) : s[i] = moved[t][i]
      BY <3>1, <3>2
    <3> HIDE DEF s
    <3> QED BY <3>2, <3>3, <3>4, SeqEqual
  <2> USE DEF s
  <2> QED BY <1>1, <2>2, <2>5 DEF Mailbox!Next, Mailbox!Get, Mailbox!Return
<1> QED BY <1>3, <1>4

\* demo_write and echo_write replace the message when they set the length.
LEMMA WriteIsPut == ASSUME IoInv, NEW t \in Thread, WriteDone(t) PROVE Mailbox!Next
<1>1. /\ stored' = moved[t] /\ out' = Mailbox!NoResult /\ pc[t] = "wcopy"
      /\ Len(moved[t]) = call[t].n
  BY DEF WriteDone, Step, Silent
<1>2. /\ call[t].n \in 0..Cap /\ call[t].n \in Nat /\ call[t].w \in 1..MaxWrites
      /\ moved[t] \in Seq(Mailbox!Cell)
  BY <1>1, WriterStarts
<1>3. \A i \in 1..call[t].n : moved[t][i] = <<call[t].w, i>>
  BY <1>1 DEF IoInv, WriterCells
<1>4. moved[t] \in [1..call[t].n -> Mailbox!Cell]
  BY <1>1, <1>2, LenProperties
<1>5. moved[t] = [i \in 1..call[t].n |-> <<call[t].w, i>>]
  BY <1>3, <1>4
<1> QED
  BY <1>1, <1>2, <1>5 DEF Mailbox!Next, Mailbox!Put, Mailbox!Silent

\* A failed copy_from_user leaves each byte of the message as it was, as the
\* write meant it, or zero.
LEMMA FaultIsSpoil == ASSUME IoInv, NEW t \in Thread, WriteFault(t) PROVE Mailbox!Next
<1> DEFINE z == ZeroFilled(Len(moved[t]), call[t].n)
           w == call[t].w
<1>1. /\ Faults /\ pc[t] = "wcopy" /\ out' = Mailbox!Failure
      /\ buf' = z /\ stored' = [i \in 1..len |-> z[i]]
  BY DEF WriteFault, Finish, Step, Return
<1>2. /\ w \in 1..MaxWrites /\ Len(stored) = len /\ len \in 0..Cap
      /\ Len(moved[t]) \in Nat /\ call[t].n \in 0..Cap
      /\ Cap \in Nat
  BY <1>1, WriterStarts
<1>3. Len(stored') = len
  BY <1>1, WriteFaultKeeps DEF IoInv, WriterCells, WriteFault
<1>4. \A i \in 1..len : stored'[i] \in {stored[i], <<w, i>>, Mailbox!Zero}
  <2>1. SUFFICES ASSUME NEW i \in 1..len
                 PROVE  stored'[i] \in {stored[i], <<w, i>>, Mailbox!Zero}
    OBVIOUS
  <2>2. stored'[i] = z[i] /\ i \in 1..Cap
    BY <1>1, <1>2
  <2>3. /\ i <= Len(moved[t]) => buf[i] = <<w, i>>
        /\ Len(moved[t]) < i => stored[i] = buf[i]
    BY <1>1, <1>2 DEF IoInv, WriterCells
  <2>4. buf[i] \in {stored[i], <<w, i>>}
    <3>1. i <= Len(moved[t]) \/ Len(moved[t]) < i
      BY <1>2
    <3> QED BY <2>3, <3>1
  <2>5. z[i] \in {Mailbox!Zero, buf[i]}
    BY <2>2 DEF ZeroFilled
  <2> QED BY <2>2, <2>4, <2>5
<1> HIDE DEF w
<1>5. Mailbox!Spoil(w)
  BY <1>1, <1>2, <1>3, <1>4 DEF Mailbox!Spoil, Mailbox!Return
<1> QED BY <1>2, <1>5 DEF Mailbox!Next

\* Each step of the modules is a step of the mailbox or leaves it alone.
LEMMA StepIsMailbox ==
    IoInv /\ [Next]_vars => [Mailbox!Next]_<<stored, out>>
<1> SUFFICES ASSUME IoInv, Next PROVE Mailbox!Next
  BY DEF vars, dataVars
<1>1. CASE SetRemoving
  BY <1>1, NothingHappens DEF SetRemoving, dataVars, Silent
<1>2. ASSUME NEW t \in Thread, User(t) PROVE Mailbox!Next
  <2>1. UNCHANGED stored
    BY <1>2 DEF User, Refused, ReadEnter, WriteEnter, PollEnter, IoctlEnter, Enter, Lseek,
       dataVars
  <2>2. out' \in {Mailbox!NoResult, Mailbox!Failure}
    BY <1>2 DEF User, Refused, ReadEnter, WriteEnter, PollEnter, IoctlEnter, Enter, Lseek,
       Silent, Return
  <2> QED BY <2>1, <2>2, NothingHappens
<1>3. ASSUME NEW t \in Thread, Inside(t) \/ PollTimeout(t) PROVE Mailbox!Next
  <2>1. CASE ReadUnlock(t)
    BY <2>1, ReadIsGet
  <2>2. CASE WriteDone(t)
    BY <2>2, WriteIsPut
  <2>3. CASE WriteFault(t)
    BY <2>3, FaultIsSpoil
  <2>4. CASE IoctlClear(t)
    BY <2>4 DEF IoctlClear, Silent, Mailbox!Next, Mailbox!Clear, Mailbox!Silent
  <2>5. CASE IoctlGetLen(t)
    <3>1. UNCHANGED stored
          /\ (out' = Mailbox!LenResult(Len(stored)) \/ out' = Mailbox!Failure)
      BY <2>5 DEF IoctlGetLen, Return, dataVars, IoInv, WriterCells
    <3> QED BY <3>1, NothingHappens DEF Mailbox!Next, Mailbox!GetLen, Mailbox!Return
  <2>6. CASE PollFinds(t)
    <3>1. /\ UNCHANGED stored /\ out' = Mailbox!PollIn /\ len > 0 /\ Len(stored) = len
      BY <2>6 DEF PollFinds, PollReturn, Return, HasData, dataVars, IoInv, WriterCells
    <3>2. stored # <<>>
      BY <3>1, EmptySeq
    <3> QED BY <3>1, <3>2 DEF Mailbox!Next, Mailbox!Readable, Mailbox!Return
  <2>7. CASE ReadLock(t) \/ ReadCopy(t) \/ ReadCopied(t) \/ ReadFault(t)
    BY <2>7, NothingHappens DEF ReadLock, ReadCopy, ReadCopied, ReadFault, Silent, Return,
       dataVars
  <2>8. CASE WriteLock(t) \/ WriteCopy(t) \/ WriteWake(t) \/ WriteUnlock(t) \/ ClearWake(t)
    BY <2>8, NothingHappens DEF WriteLock, WriteCopy, WriteWake, WriteUnlock, ClearWake, Wake,
       Silent, dataVars
  <2>9. CASE PollAdd(t) \/ PollFindsNothing(t) \/ PollAgain(t) \/ PollHangup(t) \/ PollTimeout(t)
    BY <2>9, NothingHappens DEF PollAdd, PollFindsNothing, PollAgain, PollHangup, PollTimeout,
       PollReturn, Silent, Return, dataVars
  <2> QED BY <1>3, <2>1, <2>2, <2>3, <2>4, <2>5, <2>6, <2>7, <2>8, <2>9 DEF Inside
<1> QED BY <1>1, <1>2, <1>3 DEF Next

\* What user space sees of reads, writes, lengths and polls is a mailbox: a
\* write replaces the message at one moment, a read returns a piece of it.
THEOREM IoImplementsMailbox == Spec => ImplementsMailbox
<1>1. Init => Mailbox!Init
  BY DEF Init, Mailbox!Init
<1> QED
  BY <1>1, StepIsMailbox, IoInvariant, PTL DEF Spec, ImplementsMailbox, Mailbox!Spec

=============================================================================
