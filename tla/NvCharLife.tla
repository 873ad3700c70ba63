----------------------------- MODULE NvCharLife -----------------------------
(***************************************************************************)
(* What nv_char promises about the life of a device, whatever the path: it *)
(* gains users only while it is live; an unregister closes it to new users *)
(* and then either waits for the last one or gives up after a timeout; a   *)
(* dead device has no user.                                                *)
(***************************************************************************)
CONSTANT File

VARIABLES phase, users

lifeVars == <<phase, users>>

Init == phase = "dead" /\ users = {}

GoLive == phase = "dead" /\ phase' = "live" /\ UNCHANGED users

Acquire(f) ==
    /\ phase = "live"
    /\ f \notin users
    /\ users' = users \cup {f}
    /\ UNCHANGED phase

Release(f) ==
    /\ f \in users
    /\ users' = users \ {f}
    /\ UNCHANGED phase

BeginClose == phase = "live" /\ phase' = "closing" /\ UNCHANGED users

Finish ==
    /\ phase = "closing"
    /\ users = {}
    /\ phase' = "dead"
    /\ UNCHANGED users

\* The wait for the last user is abandoned after NV_CHAR_UNREG_TIMEOUT.
GiveUp ==
    /\ phase = "closing"
    /\ users # {}
    /\ phase' = "abandoned"
    /\ UNCHANGED users

Next ==
    \/ \E f \in File : Acquire(f) \/ Release(f)
    \/ GoLive \/ BeginClose \/ Finish \/ GiveUp

Spec == Init /\ [][Next]_lifeVars
=============================================================================
