------------------------------- MODULE NvAttr -------------------------------
(***************************************************************************)
(* The sysfs attribute "reg" of nv_i2c_demo, nv_spi_demo and nv_sdio_demo: *)
(* a register of the device and the copy of it in priv->reg, which stores  *)
(* and shows of several threads bring together without a lock.  The i2c    *)
(* and spi examples set the copy first and show it; the sdio example asks  *)
(* the device first and copies what it answers.  Probe creates the         *)
(* attribute before it writes the register for the first time.             *)
(***************************************************************************)
CONSTANTS
    Thread,
    Byte        \* values of the register; 0 is one of them

VARIABLES
    bus,        \* which of the three examples this is
    reg,        \* the register of the device
    copy,       \* priv->reg
    fresh,      \* probe has yet to write the register
    call,       \* what a thread is in: "none", "store", "show"
    kept,       \* it has set the copy
    val,        \* the value it stores, or got from the device
    lone,       \* no other call has overlapped with it
    agreed      \* the last call to touch the register was lone and succeeded

attrVars == <<bus, reg, copy, fresh, call, kept, val, lone, agreed>>
threadVars == <<call, kept, val, lone>>

Busy == {t \in Thread : call[t] # "none"}

CopyFirst == bus \in {"i2c", "spi"}

AttrInit ==
    /\ bus \in {"i2c", "spi", "sdio"}
    /\ reg \in Byte
    /\ copy = 0
    /\ fresh = TRUE
    /\ call = [t \in Thread |-> "none"]
    /\ kept = [t \in Thread |-> FALSE]
    /\ val = [t \in Thread |-> 0]
    /\ lone = [t \in Thread |-> FALSE]
    /\ agreed = FALSE

-----------------------------------------------------------------------------
\* demo_probe writes 0; a bus error is only a warning.
FirstWrite ==
    /\ fresh
    /\ fresh' = FALSE
    /\ reg' \in {0, reg}
    /\ UNCHANGED <<bus, copy, agreed, threadVars>>

Begins(t, kind, v) ==
    /\ call[t] = "none"
    /\ call' = [call EXCEPT ![t] = kind]
    /\ val' = [val EXCEPT ![t] = v]
    /\ lone' = [u \in Thread |-> u = t /\ Busy = {} /\ ~fresh]
    /\ UNCHANGED <<bus, reg, copy, fresh, kept>>

Ends(t) ==
    /\ call' = [call EXCEPT ![t] = "none"]
    /\ kept' = [kept EXCEPT ![t] = FALSE]
    /\ val' = [val EXCEPT ![t] = 0]
    /\ UNCHANGED <<bus, fresh, lone>>

BeginStore(t, v) == Begins(t, "store", v) /\ agreed' = FALSE

\* A show of i2c or spi only reads the copy.
BeginShow(t) == bus = "sdio" /\ Begins(t, "show", 0) /\ UNCHANGED agreed

\* i2c, spi: priv->reg = val.
KeepThenSend(t) ==
    /\ CopyFirst /\ call[t] = "store" /\ ~kept[t]
    /\ copy' = val[t]
    /\ kept' = [kept EXCEPT ![t] = TRUE]
    /\ UNCHANGED <<bus, reg, fresh, call, val, lone, agreed>>

\* ... and the register, which ends the store.
SendLast(t) ==
    /\ CopyFirst /\ call[t] = "store" /\ kept[t]
    /\ reg' = val[t]
    /\ agreed' = lone[t]
    /\ UNCHANGED copy
    /\ Ends(t)

\* sdio: the register first ...
SendFirst(t) ==
    /\ ~CopyFirst /\ call[t] = "store" /\ ~kept[t]
    /\ reg' = val[t]
    /\ kept' = [kept EXCEPT ![t] = TRUE]
    /\ UNCHANGED <<bus, copy, fresh, call, val, lone, agreed>>

Fetch(t) ==
    /\ call[t] = "show" /\ ~kept[t]
    /\ val' = [val EXCEPT ![t] = reg]
    /\ kept' = [kept EXCEPT ![t] = TRUE]
    /\ UNCHANGED <<bus, reg, copy, fresh, call, lone, agreed>>

\* The copy is set although the device has not answered.
KeepLastEarly(t) ==
    /\ ~CopyFirst /\ call[t] # "none"
    /\ copy' = val[t]
    /\ agreed' = lone[t]
    /\ UNCHANGED reg
    /\ Ends(t)

\* ... and then the copy, which ends the store or the show.
KeepLast(t) ==
    /\ ~CopyFirst /\ call[t] # "none" /\ kept[t]
    /\ copy' = val[t]
    /\ agreed' = lone[t]
    /\ UNCHANGED reg
    /\ Ends(t)

\* The transfer fails; the device may have taken a value all the same.
TransferFails(t) ==
    /\ call[t] # "none"
    /\ kept[t] = CopyFirst
    /\ reg' \in IF call[t] = "store" THEN {reg, val[t]} ELSE {reg}
    /\ UNCHANGED <<copy, agreed>>
    /\ Ends(t)

AttrNext ==
    \/ FirstWrite
    \/ \E t \in Thread :
        \/ \E v \in Byte : BeginStore(t, v)
        \/ BeginShow(t)
        \/ KeepThenSend(t) \/ SendLast(t)
        \/ SendFirst(t) \/ Fetch(t) \/ KeepLast(t)
        \/ TransferFails(t)

AttrSpec == AttrInit /\ [][AttrNext]_attrVars

-----------------------------------------------------------------------------
\* Whatever races and bus errors came before, a store, and on sdio also a show,
\* that overlaps with no other and succeeds makes the copy and the device agree,
\* and they agree until the next store.
CopyTracksDevice == agreed => copy = reg
=============================================================================
