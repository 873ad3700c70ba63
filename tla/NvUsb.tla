------------------------------- MODULE NvUsb -------------------------------
(***************************************************************************)
(* What nv_usb remembers of its interface: the alternate setting           *)
(* (dev->altsetting, against the one in force) and the endpoint address    *)
(* nv_usb_find_endpoints parsed (dev->eps), with threads that select,      *)
(* parse and transfer at once.  None of the three takes a lock.            *)
(*                                                                         *)
(* The USB core (usb_set_interface, usb_bulk_msg) is external.  probe and  *)
(* disconnect are in NvBind; a behaviour here begins after probe.          *)
(***************************************************************************)
EXTENDS Integers

CONSTANTS
    UsbThread,  \* the driver's threads
    Alt         \* the alternate settings of the interface

ASSUME UsbAssumption == Alt \subseteq Nat /\ 0 \in Alt

VARIABLES
    cur,        \* intf->cur_altsetting, the setting in force
    mem,        \* dev->altsetting
    eps,        \* dev->eps.bulk_in_addr, 0 for none
    stage,      \* where each thread is
    arg,        \* the setting it selects, the one it parses, the address it uses
    sole,       \* threads in a select that no other select has overlapped
    tied,       \* the last select that was not a failure was a sole one
    parsed,     \* the last parse met no change of the setting and no other parse
    calm        \* threads in a transfer that met neither

selectVars == <<cur, mem, sole, tied>>
usbVars == <<selectVars, eps, stage, arg, parsed, calm>>

Selecting == {t \in UsbThread : stage[t] \in {"set", "keep"}}
Parsing == {t \in UsbThread : stage[t] \in {"parse", "fill"}}

\* The bulk-in endpoint of a setting: setting 0 has none.
EndpointOf(a) == a

-----------------------------------------------------------------------------
(* Faults a plausible edit of the code would introduce. *)

\* dev->altsetting is stored before the result of usb_set_interface is known.
SetInterfaceFailsKept(t) ==
    /\ stage[t] = "set"
    /\ stage' = [stage EXCEPT ![t] = "idle"]
    /\ mem' = arg[t]
    /\ sole' = sole \ {t}
    /\ UNCHANGED <<cur, tied, eps, arg, parsed, calm>>

-----------------------------------------------------------------------------

Goes(t, from, to) == stage[t] = from /\ stage' = [stage EXCEPT ![t] = to]

\* nv_usb_select_altsetting returns 0 at once for the setting it remembers;
\* otherwise it goes on.
Select(t, a) ==
    /\ Goes(t, "idle", "set")
    /\ mem # a
    /\ arg' = [arg EXCEPT ![t] = a]
    /\ sole' = IF Selecting = {} THEN {t} ELSE {}
    /\ tied' = (tied /\ Selecting = {})
    /\ UNCHANGED <<cur, mem, eps, parsed, calm>>

\* usb_set_interface changes the setting, and the endpoints with it ...
SetInterface(t) ==
    /\ Goes(t, "set", "keep")
    /\ cur' = arg[t]
    /\ parsed' = FALSE
    /\ calm' = {}
    /\ UNCHANGED <<mem, sole, tied, eps, arg>>

\* ... or fails, and everything stays.
SetInterfaceFails(t) ==
    /\ Goes(t, "set", "idle")
    /\ sole' = sole \ {t}
    /\ UNCHANGED <<cur, mem, tied, eps, arg, parsed, calm>>

\* dev->altsetting = alt, after success.
KeepAlt(t) ==
    /\ Goes(t, "keep", "idle")
    /\ mem' = arg[t]
    /\ tied' = (t \in sole)
    /\ sole' = sole \ {t}
    /\ UNCHANGED <<cur, eps, arg, parsed, calm>>

\* nv_usb_find_endpoints: clear, ...
ClearEndpoints(t) ==
    /\ Goes(t, "idle", "parse")
    /\ eps' = 0
    /\ parsed' = FALSE
    /\ calm' = {}
    /\ UNCHANGED <<selectVars, arg>>

\* ... load the setting in force, ...
LoadSetting(t) ==
    /\ Goes(t, "parse", "fill")
    /\ arg' = [arg EXCEPT ![t] = cur]
    /\ UNCHANGED <<selectVars, eps, parsed, calm>>

\* ... take the first endpoint of the kind from it, if none is there yet.
FillEndpoints(t) ==
    /\ Goes(t, "fill", "idle")
    /\ eps' = IF eps = 0 THEN EndpointOf(arg[t]) ELSE eps
    /\ parsed' = (arg[t] = cur /\ Parsing = {t} /\ eps = 0)
    /\ UNCHANGED <<selectVars, arg, calm>>

\* nv_usb_bulk_in: an address is there (otherwise -EINVAL) ...
CheckEndpoint(t) ==
    /\ Goes(t, "idle", "pipe")
    /\ eps # 0
    /\ calm' = IF parsed THEN calm \cup {t} ELSE calm \ {t}
    /\ UNCHANGED <<selectVars, eps, arg, parsed>>

\* ... and is loaded once more for the pipe ...
MakePipe(t) ==
    /\ Goes(t, "pipe", "send")
    /\ arg' = [arg EXCEPT ![t] = eps]
    /\ UNCHANGED <<selectVars, eps, parsed, calm>>

\* ... that usb_bulk_msg works on.
BulkReturns(t) ==
    /\ Goes(t, "send", "idle")
    /\ calm' = calm \ {t}
    /\ UNCHANGED <<selectVars, eps, arg, parsed>>

-----------------------------------------------------------------------------

\* probe has remembered the setting in force, and may have selected 0; the
\* endpoints are not parsed.
UsbInit ==
    /\ cur \in Alt
    /\ mem = cur
    /\ eps = 0
    /\ stage = [t \in UsbThread |-> "idle"]
    /\ arg = [t \in UsbThread |-> 0]
    /\ sole = {}
    /\ tied = TRUE
    /\ parsed = FALSE
    /\ calm = {}

SelectAltsetting(t) ==
    (\E a \in Alt : Select(t, a)) \/ SetInterface(t) \/ SetInterfaceFails(t) \/ KeepAlt(t)
FindEndpoints(t) == ClearEndpoints(t) \/ LoadSetting(t) \/ FillEndpoints(t)
BulkIn(t) == CheckEndpoint(t) \/ MakePipe(t) \/ BulkReturns(t)

UsbNext == \E t \in UsbThread : SelectAltsetting(t) \/ FindEndpoints(t) \/ BulkIn(t)

UsbSpec == UsbInit /\ [][UsbNext]_usbVars

-----------------------------------------------------------------------------
(* Properties *)

\* The remembered setting is the one in force, so that the early return of
\* nv_usb_select_altsetting is right: failures change nothing, and a select that goes
\* through alone repairs what overlapping ones left.
AltTracksDevice == tied /\ Selecting = {} => mem = cur

\* An address parsed from a setting is used only with it, unless the setting
\* changes or another parse runs meanwhile.
TransferUsesEndpoint ==
    /\ parsed => eps = EndpointOf(cur)
    /\ \A t \in calm : stage[t] = "send" => arg[t] = EndpointOf(cur) /\ arg[t] # 0

\* Neither copy of what the device has is stale when it is used, except after
\* what the code leaves to its callers: overlapping selects, and a parse after
\* each change of the setting (nv_usb.c:44 and 98).
RemembersDevice == AltTracksDevice /\ TransferUsesEndpoint
=============================================================================
