----------------------------- MODULE NvMailbox -----------------------------
(***************************************************************************)
(* What the message buffer of the nv_char example modules promises: one    *)
(* message, which a write replaces as a whole; a read returns a piece of   *)
(* the message that is there at one moment during the call.                *)
(*                                                                         *)
(* A write that fails half way keeps the length and may spoil the message  *)
(* (Faults).                                                               *)
(***************************************************************************)
EXTENDS Integers, Sequences

CONSTANTS
    Cap,        \* the size of the buffer
    MaxWrites,  \* bound: how many writes there are; a write is its number
    Faults      \* may a copy between user and kernel memory fail?

VARIABLES
    msg,        \* the message, a sequence of cells
    out         \* the result, if the last step returned one

\* A byte of the buffer: the i-th of write w, or zero.
Zero == <<0, 0>>
Cell == {Zero} \cup ((1..MaxWrites) \X (1..Cap))

NoResult == [op |-> "none", data |-> <<>>, n |-> 0]
ReadResult(s) == [op |-> "read", data |-> s, n |-> Len(s)]
LenResult(n) == [op |-> "len", data |-> <<>>, n |-> n]
PollIn == [op |-> "pollin", data |-> <<>>, n |-> 0]
Failure == [op |-> "error", data |-> <<>>, n |-> 0]

Return(r) == out' = r

Silent == out' = NoResult

\* A call fails or returns nothing of interest.
Nothing == (Return(Failure) \/ Silent) /\ UNCHANGED msg

Put(w, n) == msg' = [i \in 1..n |-> <<w, i>>] /\ Silent

Clear == msg' = <<>> /\ Silent

Get ==
    /\ \E p, q \in 0..Len(msg) : Return(ReadResult(SubSeq(msg, p + 1, q)))
    /\ UNCHANGED msg

GetLen == Return(LenResult(Len(msg))) /\ UNCHANGED msg

Readable == msg # <<>> /\ Return(PollIn) /\ UNCHANGED msg

\* The length stays; each byte is the old one, one of the write, or zero.
Spoil(w) ==
    /\ Faults
    /\ Len(msg') = Len(msg)
    /\ \A i \in 1..Len(msg) : msg'[i] \in {msg[i], <<w, i>>, Zero}
    /\ Return(Failure)

Init == msg = <<>> /\ out = NoResult

Next ==
    \/ Get \/ GetLen \/ Readable \/ Clear \/ Nothing
    \/ \E w \in 1..MaxWrites, n \in 0..Cap : Put(w, n)
    \/ \E w \in 1..MaxWrites : Spoil(w)

Spec == Init /\ [][Next]_<<msg, out>>
=============================================================================
