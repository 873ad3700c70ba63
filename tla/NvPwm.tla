------------------------------- MODULE NvPwm -------------------------------
(***************************************************************************)
(* A channel of the PWM chip nv_pwm_demo under concurrent nv_pwm_config    *)
(* and nv_pwm_enable.  The state is applied under the lock of the chip;    *)
(* nv_pwm_enable reads it without, while another thread may be halfway     *)
(* through copying a new one, changes one field and applies the result.    *)
(* A structure is copied and read field by field, in any order.            *)
(***************************************************************************)
EXTENDS Naturals

CONSTANTS
    Caller,
    MaxPeriod

Field == {"period", "duty", "enabled"}
Off == [period |-> 0, duty |-> 0, enabled |-> FALSE]

VARIABLES
    chState,    \* priv->ch[idx].state
    pwmState,   \* pwm->state
    applying,   \* threads that hold the lock of the chip: one at most
    at,         \* "out", "reading", "asking" or "copying"
    enabling,   \* the call is nv_pwm_enable
    want,       \* the state the call has put together
    left,       \* fields it has still to read or copy
    alone       \* no state was applied since the call began

pwmVars == <<chState, pwmState, applying, at, enabling, want, left, alone>>

PwmInit ==
    /\ chState = Off
    /\ pwmState = Off
    /\ applying = {}
    /\ at = [t \in Caller |-> "out"]
    /\ enabling = [t \in Caller |-> FALSE]
    /\ want = [t \in Caller |-> Off]
    /\ left = [t \in Caller |-> {}]
    /\ alone = [t \in Caller |-> FALSE]

-----------------------------------------------------------------------------
Config(t, period, duty, enabled) ==
    /\ at[t] = "out"
    /\ period # 0 => duty <= period
    /\ at' = [at EXCEPT ![t] = "asking"]
    /\ want' = [want EXCEPT
           ![t] = [period |-> period, duty |-> duty, enabled |-> enabled]]
    /\ UNCHANGED <<chState, pwmState, applying, enabling, left, alone>>

\* want.enabled holds the argument until the fields are read.
Enable(t, enable) ==
    /\ at[t] = "out"
    /\ at' = [at EXCEPT ![t] = "reading"]
    /\ enabling' = [enabling EXCEPT ![t] = TRUE]
    /\ want' = [want EXCEPT ![t].enabled = enable]
    /\ left' = [left EXCEPT ![t] = {"period", "duty"}]
    /\ alone' = [alone EXCEPT ![t] = applying = {}]
    /\ UNCHANGED <<chState, pwmState, applying>>

\* Enabling drives the pin for the whole period.
ReadFieldFull(t, f) ==
    /\ at[t] = "reading"
    /\ f \in left[t]
    /\ want' = [want EXCEPT ![t][f] = chState["period"]]
    /\ left' = [left EXCEPT ![t] = @ \ {f}]
    /\ UNCHANGED <<chState, pwmState, applying, at, enabling, alone>>

ReadField(t, f) ==
    /\ at[t] = "reading"
    /\ f \in left[t]
    /\ want' = [want EXCEPT ![t][f] = chState[f]]
    /\ left' = [left EXCEPT ![t] = @ \ {f}]
    /\ UNCHANGED <<chState, pwmState, applying, at, enabling, alone>>

ReadDone(t) ==
    /\ at[t] = "reading"
    /\ left[t] = {}
    /\ at' = [at EXCEPT ![t] = "asking"]
    /\ UNCHANGED <<chState, pwmState, applying, enabling, want, left, alone>>

-----------------------------------------------------------------------------
Returns(t) ==
    /\ at' = [at EXCEPT ![t] = "out"]
    /\ enabling' = [enabling EXCEPT ![t] = FALSE]
    /\ want' = [want EXCEPT ![t] = Off]

\* pwm_apply_might_sleep: nothing to do, or -EINVAL.
ApplyNothing(t) ==
    /\ at[t] = "asking"
    /\ applying = {}
    /\ \/ want[t] = pwmState
       \/ want[t].period = 0
       \/ want[t].duty > want[t].period
    /\ Returns(t)
    /\ UNCHANGED <<chState, pwmState, applying, left, alone>>

\* demo_apply, which repeats the test of the duty cycle.
Apply(t) ==
    /\ at[t] = "asking"
    /\ applying = {}
    /\ want[t] # pwmState
    /\ want[t].period # 0
    /\ want[t].duty <= want[t].period
    /\ applying' = {t}
    /\ at' = [at EXCEPT ![t] = "copying"]
    /\ left' = [left EXCEPT ![t] = Field]
    /\ alone' = [u \in Caller |-> u = t /\ alone[t]]
    /\ UNCHANGED <<chState, pwmState, enabling, want>>

CopyField(t, f) ==
    /\ at[t] = "copying"
    /\ f \in left[t]
    /\ chState' = [chState EXCEPT ![f] = want[t][f]]
    /\ left' = [left EXCEPT ![t] = @ \ {f}]
    /\ UNCHANGED <<pwmState, applying, at, enabling, want, alone>>

\* A demo_apply that leaves the duty cycle of the last state.
ApplyDoneHalf(t) ==
    /\ at[t] = "copying"
    /\ left[t] = {"duty"}
    /\ pwmState' = want[t]
    /\ applying' = {}
    /\ Returns(t)
    /\ left' = [left EXCEPT ![t] = {}]
    /\ UNCHANGED <<chState, alone>>

ApplyDone(t) ==
    /\ at[t] = "copying"
    /\ left[t] = {}
    /\ pwmState' = want[t]
    /\ applying' = {}
    /\ Returns(t)
    /\ UNCHANGED <<chState, left, alone>>

PwmNext == \E t \in Caller :
    \/ \E period, duty \in 0..MaxPeriod : \E enabled \in BOOLEAN :
           Config(t, period, duty, enabled)
    \/ \E enable \in BOOLEAN : Enable(t, enable)
    \/ (\E f \in Field : ReadField(t, f)) \/ ReadDone(t)
    \/ ApplyNothing(t) \/ Apply(t)
    \/ (\E f \in Field : CopyField(t, f)) \/ ApplyDone(t)

PwmSpec == PwmInit /\ [][PwmNext]_pwmVars

-----------------------------------------------------------------------------
\* However the reads of nv_pwm_enable are torn, the chip never keeps a state
\* whose duty cycle exceeds its period, and the PWM core knows what it keeps.
KeepsFitState ==
    applying = {} => chState.duty <= chState.period /\ chState = pwmState

\* nv_pwm_enable changes nothing but the flag, unless another state was applied
\* after it began: then it may take that one back (nv_pwm.c:69 to 79).
LoneEnableKeepsConfig ==
    [][\A t \in Caller :
          at[t] = "copying" /\ at'[t] = "out" /\ enabling[t] /\ alone[t] =>
              [pwmState' EXCEPT !.enabled = FALSE]
                  = [pwmState EXCEPT !.enabled = FALSE]]_pwmVars
=============================================================================
