--------------------------- MODULE NvSharedProofs ---------------------------
(***************************************************************************)
(* The properties of NvAttr, NvPwm, NvNetif, NvUsb and NvUart for any      *)
(* number of threads and CPUs and any values, one component after the      *)
(* other: each has an inductive invariant of its own.                      *)
(***************************************************************************)
EXTENDS NvAttr, NvPwm, NvNetif, NvUart, NvUsb, SequenceTheorems, TLAPS

-----------------------------------------------------------------------------
(* NvAttr: an invariant that says what a lone call has established.        *)

AttrTypeOK ==
    /\ fresh \in BOOLEAN
    /\ agreed \in BOOLEAN
    /\ call \in [Thread -> {"none", "store", "show"}]
    /\ kept \in [Thread -> BOOLEAN]
    /\ reg \in Byte \cup {0}
    /\ val \in [Thread -> Byte \cup {0}]
    /\ lone \in [Thread -> BOOLEAN]

\* What is kept belongs to a call; only sdio asks the device in a show.
CallsFit ==
    \A t \in Thread :
        (call[t] = "none" => ~kept[t]) /\ (call[t] = "show" => ~CopyFirst)

\* Nothing is being stored while the two are known to agree.
AgreedIsQuiet ==
    agreed => copy = reg /\ ~fresh /\ \A t \in Thread : call[t] # "store"

LoneIsAlone ==
    \A t \in Thread : lone[t] /\ call[t] # "none" =>
        ~fresh /\ \A u \in Thread : u # t => call[u] = "none"

\* Halfway through, a lone call has set one of the two to its value.
LoneIsHalfDone ==
    \A t \in Thread : lone[t] /\ call[t] # "none" /\ kept[t] =>
        IF CopyFirst THEN copy = val[t] ELSE reg = val[t]

AttrInv == AttrTypeOK /\ CallsFit /\ AgreedIsQuiet /\ LoneIsAlone /\ LoneIsHalfDone

\* Before the first call nothing is known of the register, and nothing claimed.
LEMMA AttrInitInv == AttrInit => AttrInv
BY DEF AttrInit, AttrInv, AttrTypeOK, CallsFit, AgreedIsQuiet, LoneIsAlone, LoneIsHalfDone

\* Every step of probe, store and show keeps the invariant.
LEMMA AttrStep == AttrInv /\ [AttrNext]_attrVars => AttrInv'
<1> SUFFICES ASSUME AttrInv, [AttrNext]_attrVars PROVE AttrInv'
  OBVIOUS
<1> USE DEF AttrInv
<1>1. CASE FirstWrite
  <2>1. AttrTypeOK'
    BY <1>1 DEF FirstWrite, threadVars, AttrTypeOK
  <2>2. CallsFit'
    BY <1>1 DEF FirstWrite, threadVars, AttrTypeOK, CallsFit, CopyFirst
  <2>3. AgreedIsQuiet'
    BY <1>1 DEF FirstWrite, threadVars, AttrTypeOK, AgreedIsQuiet, LoneIsAlone,
        LoneIsHalfDone, CopyFirst
  <2>4. LoneIsAlone'
    BY <1>1 DEF FirstWrite, threadVars, AttrTypeOK, LoneIsAlone
  <2>5. LoneIsHalfDone'
    BY <1>1 DEF FirstWrite, threadVars, AttrTypeOK, LoneIsHalfDone, LoneIsAlone, CallsFit,
        CopyFirst
  <2> QED BY <2>1, <2>2, <2>3, <2>4, <2>5
<1>2. ASSUME NEW t \in Thread, NEW v \in Byte, BeginStore(t, v) PROVE AttrInv'
  <2>1. AttrTypeOK'
    BY <1>2 DEF BeginStore, Begins, AttrTypeOK
  <2>2. CallsFit'
    BY <1>2 DEF BeginStore, Begins, AttrTypeOK, CallsFit, CopyFirst
  <2>3. AgreedIsQuiet'
    BY <1>2 DEF BeginStore, Begins, AttrTypeOK, AgreedIsQuiet, LoneIsAlone, LoneIsHalfDone,
        CopyFirst
  <2>4. LoneIsAlone'
    BY <1>2 DEF BeginStore, Begins, AttrTypeOK, LoneIsAlone, Busy
  <2>5. LoneIsHalfDone'
    BY <1>2 DEF BeginStore, Begins, AttrTypeOK, LoneIsHalfDone, LoneIsAlone, CallsFit,
        CopyFirst, Busy
  <2> QED BY <2>1, <2>2, <2>3, <2>4, <2>5
<1>3. ASSUME NEW t \in Thread, BeginShow(t) PROVE AttrInv'
  <2>1. AttrTypeOK'
    BY <1>3 DEF BeginShow, Begins, AttrTypeOK
  <2>2. CallsFit'
    BY <1>3 DEF BeginShow, Begins, AttrTypeOK, CallsFit, CopyFirst
  <2>3. AgreedIsQuiet'
    BY <1>3 DEF BeginShow, Begins, AttrTypeOK, AgreedIsQuiet, LoneIsAlone, LoneIsHalfDone,
        CopyFirst
  <2>4. LoneIsAlone'
    BY <1>3 DEF BeginShow, Begins, AttrTypeOK, LoneIsAlone, Busy
  <2>5. LoneIsHalfDone'
    BY <1>3 DEF BeginShow, Begins, AttrTypeOK, LoneIsHalfDone, LoneIsAlone, CallsFit,
        CopyFirst, Busy
  <2> QED BY <2>1, <2>2, <2>3, <2>4, <2>5
<1>4. ASSUME NEW t \in Thread, KeepThenSend(t) PROVE AttrInv'
  <2>1. AttrTypeOK'
    BY <1>4 DEF KeepThenSend, AttrTypeOK
  <2>2. CallsFit'
    BY <1>4 DEF KeepThenSend, AttrTypeOK, CallsFit, CopyFirst
  <2>3. AgreedIsQuiet'
    BY <1>4 DEF KeepThenSend, AttrTypeOK, AgreedIsQuiet, LoneIsAlone, LoneIsHalfDone, CopyFirst
  <2>4. LoneIsAlone'
    BY <1>4 DEF KeepThenSend, AttrTypeOK, LoneIsAlone
  <2>5. LoneIsHalfDone'
    BY <1>4 DEF KeepThenSend, AttrTypeOK, LoneIsHalfDone, LoneIsAlone, CallsFit, CopyFirst
  <2> QED BY <2>1, <2>2, <2>3, <2>4, <2>5
<1>5. ASSUME NEW t \in Thread, SendLast(t) PROVE AttrInv'
  <2>1. AttrTypeOK'
    BY <1>5 DEF SendLast, Ends, AttrTypeOK
  <2>2. CallsFit'
    BY <1>5 DEF SendLast, Ends, AttrTypeOK, CallsFit, CopyFirst
  <2>3. AgreedIsQuiet'
    BY <1>5 DEF SendLast, Ends, AttrTypeOK, AgreedIsQuiet, LoneIsAlone, LoneIsHalfDone,
        CopyFirst
  <2>4. LoneIsAlone'
    BY <1>5 DEF SendLast, Ends, AttrTypeOK, LoneIsAlone
  <2>5. LoneIsHalfDone'
    BY <1>5 DEF SendLast, Ends, AttrTypeOK, LoneIsHalfDone, LoneIsAlone, CallsFit, CopyFirst
  <2> QED BY <2>1, <2>2, <2>3, <2>4, <2>5
<1>6. ASSUME NEW t \in Thread, SendFirst(t) PROVE AttrInv'
  <2>1. AttrTypeOK'
    BY <1>6 DEF SendFirst, AttrTypeOK
  <2>2. CallsFit'
    BY <1>6 DEF SendFirst, AttrTypeOK, CallsFit, CopyFirst
  <2>3. AgreedIsQuiet'
    BY <1>6 DEF SendFirst, AttrTypeOK, AgreedIsQuiet, LoneIsAlone, LoneIsHalfDone, CopyFirst
  <2>4. LoneIsAlone'
    BY <1>6 DEF SendFirst, AttrTypeOK, LoneIsAlone
  <2>5. LoneIsHalfDone'
    BY <1>6 DEF SendFirst, AttrTypeOK, LoneIsHalfDone, LoneIsAlone, CallsFit, CopyFirst
  <2> QED BY <2>1, <2>2, <2>3, <2>4, <2>5
<1>7. ASSUME NEW t \in Thread, Fetch(t) PROVE AttrInv'
  <2>1. AttrTypeOK'
    BY <1>7 DEF Fetch, AttrTypeOK
  <2>2. CallsFit'
    BY <1>7 DEF Fetch, AttrTypeOK, CallsFit, CopyFirst
  <2>3. AgreedIsQuiet'
    BY <1>7 DEF Fetch, AttrTypeOK, AgreedIsQuiet, LoneIsAlone, LoneIsHalfDone, CopyFirst
  <2>4. LoneIsAlone'
    BY <1>7 DEF Fetch, AttrTypeOK, LoneIsAlone
  <2>5. LoneIsHalfDone'
    BY <1>7 DEF Fetch, AttrTypeOK, LoneIsHalfDone, LoneIsAlone, CallsFit, CopyFirst
  <2> QED BY <2>1, <2>2, <2>3, <2>4, <2>5
<1>8. ASSUME NEW t \in Thread, KeepLast(t) PROVE AttrInv'
  <2>1. AttrTypeOK'
    BY <1>8 DEF KeepLast, Ends, AttrTypeOK
  <2>2. CallsFit'
    BY <1>8 DEF KeepLast, Ends, AttrTypeOK, CallsFit, CopyFirst
  <2>3. AgreedIsQuiet'
    BY <1>8 DEF KeepLast, Ends, AttrTypeOK, AgreedIsQuiet, LoneIsAlone, LoneIsHalfDone,
        CopyFirst
  <2>4. LoneIsAlone'
    BY <1>8 DEF KeepLast, Ends, AttrTypeOK, LoneIsAlone
  <2>5. LoneIsHalfDone'
    BY <1>8 DEF KeepLast, Ends, AttrTypeOK, LoneIsHalfDone, LoneIsAlone, CallsFit, CopyFirst
  <2> QED BY <2>1, <2>2, <2>3, <2>4, <2>5
<1>9. ASSUME NEW t \in Thread, TransferFails(t) PROVE AttrInv'
  <2>1. AttrTypeOK'
    BY <1>9 DEF TransferFails, Ends, AttrTypeOK
  <2>2. CallsFit'
    BY <1>9 DEF TransferFails, Ends, AttrTypeOK, CallsFit, CopyFirst
  <2>3. AgreedIsQuiet'
    BY <1>9 DEF TransferFails, Ends, AttrTypeOK, AgreedIsQuiet, LoneIsAlone, LoneIsHalfDone,
        CopyFirst
  <2>4. LoneIsAlone'
    BY <1>9 DEF TransferFails, Ends, AttrTypeOK, LoneIsAlone
  <2>5. LoneIsHalfDone'
    BY <1>9 DEF TransferFails, Ends, AttrTypeOK, LoneIsHalfDone, LoneIsAlone, CallsFit,
        CopyFirst
  <2> QED BY <2>1, <2>2, <2>3, <2>4, <2>5
<1>10. CASE UNCHANGED attrVars
  BY <1>10 DEF attrVars, AttrTypeOK, CallsFit, AgreedIsQuiet, LoneIsAlone, LoneIsHalfDone,
      CopyFirst
<1> QED BY <1>1, <1>2, <1>3, <1>4, <1>5, <1>6, <1>7, <1>8, <1>9, <1>10 DEF AttrNext

\* A store, and on sdio also a show, that overlaps with no other and succeeds
\* makes the copy and the device agree until the next store: for any number of
\* threads and any values (nv_i2c_demo.c:62, nv_sdio_demo.c:81).
THEOREM AttrCopyTracksDevice == AttrSpec => []CopyTracksDevice
<1>1. AttrInv => CopyTracksDevice
  BY DEF AttrInv, AgreedIsQuiet, CopyTracksDevice
<1> QED BY <1>1, AttrInitInv, AttrStep, PTL DEF AttrSpec

-----------------------------------------------------------------------------
(* NvPwm: the lock of the chip covers every copy, so that a state that was  *)
(* accepted is kept whole, and an nv_pwm_enable no other state came between *)
(* has read exactly the state it replaces.                                  *)

ChannelState == [period : Nat, duty : Nat, enabled : BOOLEAN]

PwmTypeOK ==
    /\ chState \in ChannelState
    /\ pwmState \in ChannelState
    /\ at \in [Caller -> {"out", "reading", "asking", "copying"}]
    /\ enabling \in [Caller -> BOOLEAN]
    /\ want \in [Caller -> ChannelState]
    /\ left \in [Caller -> SUBSET Field]
    /\ alone \in [Caller -> BOOLEAN]

\* Who copies holds the lock.
CopierHasLock == \A t \in Caller : at[t] = "copying" => applying = {t}

\* What the PWM core has, fits, and is in the chip unless one is copying.
CoreFits ==
    /\ pwmState.duty <= pwmState.period
    /\ applying = {} => chState = pwmState

\* The chip has every field of the new state that has been copied.
CopyFits ==
    \A t \in Caller : at[t] = "copying" =>
        /\ want[t].duty <= want[t].period
        /\ "period" \notin left[t] => chState.period = want[t].period
        /\ "duty" \notin left[t] => chState.duty = want[t].duty
        /\ "enabled" \notin left[t] => chState.enabled = want[t].enabled

\* An nv_pwm_enable nobody came between, with what it has read.
LoneReads ==
    \A t \in Caller :
        /\ at[t] = "out" => ~enabling[t]
        /\ enabling[t] /\ alone[t] =>
            /\ at[t] # "copying" => applying = {}
            /\ (at[t] = "reading" /\ "period" \in left[t])
                   \/ want[t].period = pwmState.period
            /\ (at[t] = "reading" /\ "duty" \in left[t])
                   \/ want[t].duty = pwmState.duty

PwmInv == PwmTypeOK /\ CopierHasLock /\ CoreFits /\ CopyFits /\ LoneReads

\* A chip that was just registered is off, and nobody calls.
LEMMA PwmInitInv == PwmInit => PwmInv
BY DEF PwmInit, Off, ChannelState, PwmInv, PwmTypeOK, CopierHasLock, CoreFits,
       CopyFits, LoneReads

\* Every step of nv_pwm_config and nv_pwm_enable keeps the invariant.
LEMMA PwmStep == PwmInv /\ [PwmNext]_pwmVars => PwmInv'
<1> SUFFICES ASSUME PwmInv, [PwmNext]_pwmVars PROVE PwmInv'
  OBVIOUS
<1> USE DEF PwmInv
<1>1. ASSUME NEW t \in Caller, NEW p \in Nat, NEW d \in Nat, NEW e \in BOOLEAN, Config(t, p, d, e) PROVE PwmInv'
  <2>1. PwmTypeOK'
    BY <1>1 DEF Config, PwmTypeOK, ChannelState, Field
  <2>2. CopierHasLock'
    BY <1>1 DEF Config, PwmTypeOK, ChannelState, Field, CopierHasLock
  <2>3. CoreFits'
    BY <1>1 DEF Config, PwmTypeOK, ChannelState, Field, CoreFits, CopierHasLock, CopyFits
  <2>4. CopyFits'
    BY <1>1 DEF Config, PwmTypeOK, ChannelState, Field, CopyFits, CopierHasLock
  <2>5. LoneReads'
    BY <1>1 DEF Config, PwmTypeOK, ChannelState, Field, LoneReads, CopierHasLock, CoreFits
  <2> QED BY <2>1, <2>2, <2>3, <2>4, <2>5
<1>2. ASSUME NEW t \in Caller, NEW e \in BOOLEAN, Enable(t, e) PROVE PwmInv'
  <2>1. PwmTypeOK'
    BY <1>2 DEF Enable, PwmTypeOK, ChannelState, Field
  <2>2. CopierHasLock'
    BY <1>2 DEF Enable, PwmTypeOK, ChannelState, Field, CopierHasLock
  <2>3. CoreFits'
    BY <1>2 DEF Enable, PwmTypeOK, ChannelState, Field, CoreFits, CopierHasLock, CopyFits
  <2>4. CopyFits'
    BY <1>2 DEF Enable, PwmTypeOK, ChannelState, Field, CopyFits, CopierHasLock
  <2>5. LoneReads'
    BY <1>2 DEF Enable, PwmTypeOK, ChannelState, Field, LoneReads, CopierHasLock, CoreFits
  <2> QED BY <2>1, <2>2, <2>3, <2>4, <2>5
<1>3. ASSUME NEW t \in Caller, NEW f \in Field, ReadField(t, f) PROVE PwmInv'
  <2>1. PwmTypeOK'
    BY <1>3 DEF ReadField, PwmTypeOK, ChannelState, Field
  <2>2. CopierHasLock'
    BY <1>3 DEF ReadField, PwmTypeOK, ChannelState, Field, CopierHasLock
  <2>3. CoreFits'
    BY <1>3 DEF ReadField, PwmTypeOK, ChannelState, Field, CoreFits, CopierHasLock, CopyFits
  <2>4. CopyFits'
    BY <1>3 DEF ReadField, PwmTypeOK, ChannelState, Field, CopyFits, CopierHasLock
  <2>5. LoneReads'
    BY <1>3 DEF ReadField, PwmTypeOK, ChannelState, Field, LoneReads, CopierHasLock, CoreFits
  <2> QED BY <2>1, <2>2, <2>3, <2>4, <2>5
<1>4. ASSUME NEW t \in Caller, ReadDone(t) PROVE PwmInv'
  <2>1. PwmTypeOK'
    BY <1>4 DEF ReadDone, PwmTypeOK, ChannelState, Field
  <2>2. CopierHasLock'
    BY <1>4 DEF ReadDone, PwmTypeOK, ChannelState, Field, CopierHasLock
  <2>3. CoreFits'
    BY <1>4 DEF ReadDone, PwmTypeOK, ChannelState, Field, CoreFits, CopierHasLock, CopyFits
  <2>4. CopyFits'
    BY <1>4 DEF ReadDone, PwmTypeOK, ChannelState, Field, CopyFits, CopierHasLock
  <2>5. LoneReads'
    BY <1>4 DEF ReadDone, PwmTypeOK, ChannelState, Field, LoneReads, CopierHasLock, CoreFits
  <2> QED BY <2>1, <2>2, <2>3, <2>4, <2>5
<1>5. ASSUME NEW t \in Caller, ApplyNothing(t) PROVE PwmInv'
  <2>1. PwmTypeOK'
    BY <1>5 DEF ApplyNothing, Returns, Off, PwmTypeOK, ChannelState, Field
  <2>2. CopierHasLock'
    BY <1>5 DEF ApplyNothing, Returns, Off, PwmTypeOK, ChannelState, Field, CopierHasLock
  <2>3. CoreFits'
    BY <1>5 DEF ApplyNothing, Returns, Off, PwmTypeOK, ChannelState, Field, CoreFits,
        CopierHasLock, CopyFits
  <2>4. CopyFits'
    BY <1>5 DEF ApplyNothing, Returns, Off, PwmTypeOK, ChannelState, Field, CopyFits,
        CopierHasLock
  <2>5. LoneReads'
    BY <1>5 DEF ApplyNothing, Returns, Off, PwmTypeOK, ChannelState, Field, LoneReads,
        CopierHasLock, CoreFits
  <2> QED BY <2>1, <2>2, <2>3, <2>4, <2>5
<1>6. ASSUME NEW t \in Caller, Apply(t) PROVE PwmInv'
  <2>1. PwmTypeOK'
    BY <1>6 DEF Apply, PwmTypeOK, ChannelState, Field
  <2>2. CopierHasLock'
    BY <1>6 DEF Apply, PwmTypeOK, ChannelState, Field, CopierHasLock
  <2>3. CoreFits'
    BY <1>6 DEF Apply, PwmTypeOK, ChannelState, Field, CoreFits, CopierHasLock, CopyFits
  <2>4. CopyFits'
    BY <1>6 DEF Apply, PwmTypeOK, ChannelState, Field, CopyFits, CopierHasLock
  <2>5. LoneReads'
    BY <1>6 DEF Apply, PwmTypeOK, ChannelState, Field, LoneReads, CopierHasLock, CoreFits
  <2> QED BY <2>1, <2>2, <2>3, <2>4, <2>5
<1>7. ASSUME NEW t \in Caller, NEW f \in Field, CopyField(t, f) PROVE PwmInv'
  <2>0. /\ at[t] = "copying" /\ applying = {t}
        /\ chState' = [chState EXCEPT ![f] = want[t][f]]
        /\ left' = [left EXCEPT ![t] = left[t] \ {f}]
        /\ UNCHANGED <<pwmState, applying, at, enabling, want, alone>>
    BY <1>7 DEF CopyField, CopierHasLock
  <2>1. PwmTypeOK'
    BY <1>7 DEF CopyField, PwmTypeOK, ChannelState, Field
  <2>2. CopierHasLock' /\ CoreFits'
    BY <2>0 DEF CopierHasLock, CoreFits
  <2>3. \A u \in Caller : at[u] = "copying" => u = t
    BY <2>0 DEF CopierHasLock
  <2>4. CopyFits'
    <3>1. chState \in ChannelState /\ left[t] \in SUBSET Field /\ want[t] \in ChannelState
      BY DEF PwmTypeOK
    <3>2. left'[t] = left[t] \ {f}
      BY <2>0 DEF PwmTypeOK
    <3>3. \A g \in Field : chState'[g] = IF g = f THEN want[t][g] ELSE chState[g]
      BY <2>0, <3>1 DEF ChannelState, Field
    <3>4. /\ "period" \notin left'[t] => chState'.period = want[t].period
          /\ "duty" \notin left'[t] => chState'.duty = want[t].duty
          /\ "enabled" \notin left'[t] => chState'.enabled = want[t].enabled
      BY <2>0, <3>2, <3>3 DEF CopyFits, Field
    <3> QED BY <2>0, <2>3, <3>4 DEF CopyFits
  <2>5. LoneReads'
    <3>1. \A u \in Caller : u = t \/ left'[u] = left[u]
      BY <2>0 DEF PwmTypeOK
    <3> QED BY <2>0, <3>1 DEF LoneReads
  <2> QED BY <2>1, <2>2, <2>4, <2>5
<1>8. ASSUME NEW t \in Caller, ApplyDone(t) PROVE PwmInv'
  <2>0. /\ at[t] = "copying" /\ applying = {t} /\ left[t] = {}
        /\ pwmState' = want[t] /\ applying' = {}
        /\ at' = [at EXCEPT ![t] = "out"] /\ enabling' = [enabling EXCEPT ![t] = FALSE]
        /\ UNCHANGED <<chState, left, alone>>
    BY <1>8 DEF ApplyDone, Returns, CopierHasLock
  <2>1. PwmTypeOK'
    BY <1>8 DEF ApplyDone, Returns, Off, PwmTypeOK, ChannelState, Field
  <2>2. \A u \in Caller \ {t} : at'[u] = at[u] /\ at[u] # "copying" /\ want'[u] = want[u]
    BY <1>8, <2>0 DEF ApplyDone, Returns, CopierHasLock, PwmTypeOK
  <2>3. at'[t] = "out" /\ ~enabling'[t] /\ \A u \in Caller \ {t} : enabling'[u] = enabling[u]
    BY <2>0 DEF PwmTypeOK
  <2>4. CopierHasLock' /\ CopyFits'
    BY <2>2, <2>3 DEF CopierHasLock, CopyFits
  <2>5. CoreFits'
    <3>1. chState \in ChannelState /\ want[t] \in ChannelState
      BY DEF PwmTypeOK
    <3>2. /\ want[t].duty <= want[t].period
          /\ chState.period = want[t].period /\ chState.duty = want[t].duty
          /\ chState.enabled = want[t].enabled
      BY <2>0 DEF CopyFits
    <3>3. chState = want[t]
      BY <3>1, <3>2 DEF ChannelState
    <3> QED BY <2>0, <3>2, <3>3 DEF CoreFits
  <2>6. LoneReads'
    <3>1. \A u \in Caller \ {t} : ~(enabling[u] /\ alone[u])
      BY <2>0, <2>2 DEF LoneReads
    <3> QED BY <2>0, <2>2, <2>3, <3>1 DEF LoneReads
  <2> QED BY <2>1, <2>4, <2>5, <2>6
<1>9. CASE UNCHANGED pwmVars
  BY <1>9 DEF pwmVars, PwmTypeOK, CopierHasLock, CoreFits, CopyFits, LoneReads
<1> QED BY <1>1, <1>2, <1>3, <1>4, <1>5, <1>6, <1>7, <1>8, <1>9 DEF PwmNext

\* The chip never keeps a state whose duty cycle exceeds its period, and the
\* PWM core knows what it keeps, however nv_pwm_enable's reads are torn
\* (nv_pwm.c:70, nv_pwm_demo.c:44).
THEOREM PwmKeepsFitState == PwmSpec => []KeepsFitState
<1>1. PwmInv => KeepsFitState
  BY DEF PwmInv, PwmTypeOK, ChannelState, CoreFits, KeepsFitState
<1> QED BY <1>1, PwmInitInv, PwmStep, PTL DEF PwmSpec

\* nv_pwm_enable changes nothing but the flag unless another state was applied
\* after it began (nv_pwm.c:78).
THEOREM PwmLoneEnableKeepsConfig == PwmSpec => LoneEnableKeepsConfig
<1> DEFINE Keeps == \A t \in Caller :
        at[t] = "copying" /\ at'[t] = "out" /\ enabling[t] /\ alone[t] =>
            [pwmState' EXCEPT !.enabled = FALSE]
                = [pwmState EXCEPT !.enabled = FALSE]
<1>1. PwmInv /\ [PwmNext]_pwmVars => [Keeps]_pwmVars
  <2> SUFFICES ASSUME PwmInv, PwmNext, NEW t \in Caller,
                      at[t] = "copying", at'[t] = "out", enabling[t], alone[t]
               PROVE  [pwmState' EXCEPT !.enabled = FALSE]
                          = [pwmState EXCEPT !.enabled = FALSE]
    OBVIOUS
  <2>1. pwmState' = want[t]
    BY DEF PwmNext, PwmInv, PwmTypeOK, Config, Enable, ReadField, ReadDone,
           ApplyNothing, Apply, CopyField, ApplyDone, Returns
  <2>2. want[t].period = pwmState.period /\ want[t].duty = pwmState.duty
    BY DEF PwmInv, LoneReads
  <2> QED BY <2>1, <2>2 DEF PwmInv, PwmTypeOK, ChannelState
<1> QED BY <1>1, PwmInitInv, PwmStep, PTL DEF PwmSpec, LoneEnableKeepsConfig

-----------------------------------------------------------------------------
(* NvNetif: any number of CPUs and frames.  The frame belongs to the driver *)
(* from dev_hard_start_xmit to the free at the end; the counter belongs to  *)
(* the CPU that has locked the only transmit queue.                         *)

NetifTypeOK ==
    /\ cpu \in [Cpu -> {"idle", "check", "rx", "rxfree", "load", "store", "free"}]
    /\ on \in [Cpu -> Iface \X TxQueues]
    /\ frame \in [Cpu -> {"none", "driver", "freed"}]
    /\ loopback \in [Cpu -> {"none", "driver", "stack", "freed", "twice"}]
    /\ rxDropped \in [Cpu -> BOOLEAN]
    /\ seen \in [Cpu -> Nat]
    /\ txPackets \in [Iface -> Nat]
    /\ passed \in [Iface -> Nat]
    /\ handed \in Nat

\* The CPU is in ndo_start_xmit of interface i.
Sends(c, i) == cpu[c] # "idle" /\ on[c][1] = i

\* The driver has the frame from its first line to its last, and the copy while
\* it hands it over; it frees a dropped copy that is freed already.
HasItsBuffers ==
    \A c \in Cpu :
        /\ frame[c] = "driver" <=> cpu[c] # "idle"
        /\ loopback[c] = "driver" <=> cpu[c] = "rx"
        /\ cpu[c] = "check" => loopback[c] = "none"
        /\ cpu[c] = "rxfree" => loopback[c] = "freed" /\ rxDropped[c]
        /\ cpu[c] # "rxfree" => (loopback[c] = "twice" <=> rxDropped[c])

\* HARD_TX_LOCK of the only queue: one CPU at a time in the driver.
OneSender == \A c, d \in Cpu, i \in Iface : Sends(c, i) /\ Sends(d, i) => c = d

\* The counter is behind by one between its store and the free of the frame.
CounterFollows ==
    \A i \in Iface :
        /\ (\A c \in Cpu : ~Sends(c, i)) => txPackets[i] = passed[i]
        /\ \A c \in Cpu : Sends(c, i) =>
              /\ cpu[c] # "free" => txPackets[i] = passed[i]
              /\ cpu[c] = "free" => txPackets[i] = passed[i] + 1
              /\ cpu[c] = "store" => seen[c] = txPackets[i]

NetifInv == NetifTypeOK /\ HasItsBuffers /\ OneSender /\ CounterFollows

\* Before the first frame nobody transmits and nothing is counted.
LEMMA NetifInitInv == NetifInit => NetifInv
BY DEF NetifInit, NetifInv, NetifTypeOK, HasItsBuffers, OneSender, CounterFollows,
       Sends, Iface, TxQueues

\* Opening, stopping and configuring an interface touches no frame.
LEMMA NetifAside == NetifInv /\ UNCHANGED txVars => NetifInv'
BY DEF txVars, NetifInv, NetifTypeOK, HasItsBuffers, OneSender, CounterFollows, Sends

\* The core hands a CPU a frame for a queue nobody else transmits on.
LEMMA NetifXmit ==
    ASSUME NetifInv, NEW c \in Cpu, NEW i \in Iface, NEW q \in TxQueues, Xmit(c, i, q)
    PROVE  NetifInv'
<1> USE DEF NetifInv, NetifTypeOK, Xmit, CpuStep, Iface, TxQueues
<1>1. NetifTypeOK' /\ HasItsBuffers'
  BY DEF HasItsBuffers
<1>2. \A d \in Cpu : ~Sends(d, i)
  BY DEF Sends
<1>3. \A d \in Cpu, j \in Iface :
         Sends(d, j)' <=> (d = c /\ j = i) \/ (d # c /\ Sends(d, j))
  BY DEF Sends
<1>4. ~Sends(c, "nv0") /\ ~Sends(c, "nvcan0")
  BY DEF Sends
<1>5. OneSender'
  BY <1>2, <1>3 DEF OneSender
<1>6. CounterFollows'
  BY <1>2, <1>3, <1>4 DEF CounterFollows
<1> QED BY <1>1, <1>5, <1>6

\* A CPU inside the driver stays on its queue until it returns.
LEMMA NetifSend ==
    ASSUME NetifInv, NEW c \in Cpu,
           \/ Refuse(c) \/ CopyFrame(c) \/ NetifRx(c) \/ FreeCopy(c)
           \/ LoadStat(c) \/ StoreStat(c) \/ FreeFrame(c)
    PROVE  NetifInv'
<1> USE DEF NetifInv, NetifTypeOK, Refuse, CopyFrame, NetifRx, FreeCopy, LoadStat,
            StoreStat, FreeFrame, CpuStep, Freed
<1>1. NetifTypeOK'
  <2>0. on[c][1] \in Iface /\ (cpu[c] # "idle" => frame[c] = "driver")
    BY DEF HasItsBuffers
  <2>1. CASE Refuse(c)
    BY <2>0, <2>1
  <2>4. CASE FreeFrame(c)
    <3>1. passed' \in [Iface -> Nat]
      BY <2>0, <2>4
    <3>2. frame' \in [Cpu -> {"none", "driver", "freed"}]
      BY <2>0, <2>4
    <3> QED BY <2>4, <3>1, <3>2
  <2>2. CASE CopyFrame(c)
    BY <2>2
  <2>5. CASE NetifRx(c)
    BY <2>5
  <2>6. CASE LoadStat(c)
    BY <2>0, <2>6
  <2>7. CASE StoreStat(c)
    BY <2>0, <2>7
  <2>3. CASE FreeCopy(c)
    BY <2>3 DEF HasItsBuffers
  <2> QED BY <2>1, <2>2, <2>3, <2>4, <2>5, <2>6, <2>7
<1>2. HasItsBuffers'
  BY DEF HasItsBuffers
<1>3. /\ on' = on /\ cpu[c] # "idle" /\ on[c][1] \in Iface
      /\ \A d \in Cpu \ {c} : cpu'[d] = cpu[d]
      /\ \A d \in Cpu, j \in Iface : Sends(d, j)' => Sends(d, j)
      /\ \A d \in Cpu \ {c}, j \in Iface : Sends(d, j) => Sends(d, j)'
  BY DEF Sends
<1>4. OneSender'
  BY <1>3 DEF OneSender
<1>5. CounterFollows'
  BY <1>3 DEF CounterFollows, OneSender, Sends
<1> QED BY <1>1, <1>2, <1>4, <1>5

\* Every step of the two interfaces keeps the invariant.
LEMMA NetifStep == NetifInv /\ [NetifNext]_netifVars => NetifInv'
<1> SUFFICES ASSUME NetifInv, [NetifNext]_netifVars PROVE NetifInv'
  OBVIOUS
<1>1. CASE ConfigureNet \/ UNCHANGED netifVars
  BY <1>1, NetifAside DEF ConfigureNet, NetOpen, NetStop, SetBitrate, SetMtu, ChangeMtu,
                          netifVars
<1>2. ASSUME NEW c \in Cpu, Transmit(c) PROVE NetifInv'
  BY <1>2, NetifXmit, NetifSend DEF Transmit
<1> QED BY <1>1, <1>2 DEF NetifNext

\* Every way out of demo_start_xmit and dummy_xmit consumes the frame once and
\* keeps no copy (nv_can_demo.c:57, nv_net_dummy.c:40), and the copies freed
\* twice are those that netif_rx dropped, on any number of CPUs.
THEOREM NetifOnlyDroppedCopyFreedTwice == NetifSpec => []OnlyDroppedCopyFreedTwice
<1>1. NetifInv => OnlyDroppedCopyFreedTwice
  BY DEF NetifInv, NetifTypeOK, HasItsBuffers, OnlyDroppedCopyFreedTwice
<1> QED BY <1>1, NetifInitInv, NetifStep, PTL DEF NetifSpec

\* The unlocked counters of nv_net_dummy and nv_can_demo miss no frame, because
\* each device has one transmit queue and the core locks it (nv_net.c:174).
THEOREM NetifStatsExact == NetifSpec => []StatsExact
<1>1. NetifInv => StatsExact
  BY DEF NetifInv, CounterFollows, Sends, StatsExact
<1> QED BY <1>1, NetifInitInv, NetifStep, PTL DEF NetifSpec

-----------------------------------------------------------------------------
(* NvUsb: any number of threads and any settings.                          *)

UsbTypeOK ==
    /\ cur \in Alt
    /\ mem \in Alt
    /\ eps \in Nat
    /\ stage \in [UsbThread -> {"idle", "set", "keep", "parse", "fill", "pipe", "send"}]
    /\ arg \in [UsbThread -> Nat]
    /\ sole \subseteq UsbThread
    /\ tied \in BOOLEAN
    /\ parsed \in BOOLEAN
    /\ calm \subseteq UsbThread
    /\ \A t \in UsbThread : stage[t] \in {"set", "keep"} => arg[t] \in Alt

\* A sole select is the only one, and the setting in force is the one it has
\* set; while every select was a sole one, so is the one that runs.
SoleSelects ==
    \A t \in UsbThread :
        /\ t \in sole => Selecting = {t}
        /\ t \in sole /\ stage[t] = "keep" => cur = arg[t]
        /\ tied /\ t \in Selecting => t \in sole

\* Between usb_set_interface and the assignment the two differ.
TiedIsEqual ==
    tied /\ (\A t \in UsbThread : stage[t] # "keep") => mem = cur

\* A parse that met nothing has taken the address of the setting in force, and
\* calm transfers use that address.
CalmTransfers ==
    /\ parsed => eps = cur
    /\ calm # {} => eps = cur /\ eps # 0
    /\ \A t \in calm : stage[t] \in {"pipe", "send"}
                       /\ (stage[t] = "send" => arg[t] = eps)

UsbInv == UsbTypeOK /\ SoleSelects /\ TiedIsEqual /\ CalmTransfers

\* After probe the setting in force is remembered and no endpoint is.
LEMMA UsbInitInv == UsbInit => UsbInv
BY UsbAssumption DEF UsbInit, UsbInv, UsbTypeOK, SoleSelects, TiedIsEqual, CalmTransfers,
       Selecting

\* nv_usb_select_altsetting keeps the invariant.
LEMMA UsbSelect ==
    ASSUME UsbInv, NEW t \in UsbThread, SelectAltsetting(t)
    PROVE  UsbInv'
<1> USE UsbAssumption DEF UsbInv, UsbTypeOK, Selecting
<1>1. ASSUME NEW a \in Alt, Select(t, a) PROVE UsbInv'
  <2>1. UsbTypeOK'
    BY <1>1 DEF Select, Goes
  <2>2. SoleSelects'
    BY <1>1 DEF Select, Goes, SoleSelects
  <2>3. TiedIsEqual' /\ CalmTransfers'
    BY <1>1 DEF Select, Goes, SoleSelects, TiedIsEqual, CalmTransfers
  <2> QED BY <2>1, <2>2, <2>3
<1>2. CASE SetInterface(t)
  <2>1. UsbTypeOK'
    BY <1>2 DEF SetInterface, Goes
  <2>2. SoleSelects'
    BY <1>2 DEF SetInterface, Goes, SoleSelects
  <2>3. TiedIsEqual' /\ CalmTransfers'
    BY <1>2 DEF SetInterface, Goes, TiedIsEqual, CalmTransfers
  <2> QED BY <2>1, <2>2, <2>3
<1>3. CASE SetInterfaceFails(t)
  <2>1. UsbTypeOK'
    BY <1>3 DEF SetInterfaceFails, Goes
  <2>2. SoleSelects'
    BY <1>3 DEF SetInterfaceFails, Goes, SoleSelects
  <2>3. TiedIsEqual' /\ CalmTransfers'
    BY <1>3 DEF SetInterfaceFails, Goes, SoleSelects, TiedIsEqual, CalmTransfers
  <2> QED BY <2>1, <2>2, <2>3
<1>4. CASE KeepAlt(t)
  <2>1. UsbTypeOK'
    BY <1>4 DEF KeepAlt, Goes
  <2>2. SoleSelects'
    BY <1>4 DEF KeepAlt, Goes, SoleSelects
  <2>3. TiedIsEqual' /\ CalmTransfers'
    BY <1>4 DEF KeepAlt, Goes, SoleSelects, TiedIsEqual, CalmTransfers
  <2> QED BY <2>1, <2>2, <2>3
<1> QED BY <1>1, <1>2, <1>3, <1>4 DEF SelectAltsetting

\* nv_usb_find_endpoints and nv_usb_bulk_in keep it: they select nothing.
LEMMA UsbEndpoints ==
    ASSUME UsbInv, NEW t \in UsbThread, FindEndpoints(t) \/ BulkIn(t)
    PROVE  UsbInv'
<1> USE UsbAssumption DEF UsbInv, UsbTypeOK, Selecting, selectVars
<1>1. UsbTypeOK'
  BY DEF FindEndpoints, ClearEndpoints, LoadSetting, FillEndpoints, BulkIn, CheckEndpoint,
         MakePipe, BulkReturns, Goes, EndpointOf
<1>2. /\ UNCHANGED selectVars
      /\ Selecting' = Selecting
      /\ \A u \in UsbThread : stage'[u] = "keep" <=> stage[u] = "keep"
      /\ \A u \in UsbThread : stage[u] = "keep" => arg'[u] = arg[u]
  BY DEF FindEndpoints, ClearEndpoints, LoadSetting, FillEndpoints, BulkIn, CheckEndpoint,
         MakePipe, BulkReturns, Goes
<1>3. SoleSelects' /\ TiedIsEqual'
  BY <1>2 DEF SoleSelects, TiedIsEqual
<1>4. CalmTransfers'
  <2>0. t \in calm => stage[t] \in {"pipe", "send"}
    BY DEF CalmTransfers
  <2>1. CASE ClearEndpoints(t) \/ LoadSetting(t)
    BY <2>0, <2>1 DEF ClearEndpoints, LoadSetting, Goes, CalmTransfers
  <2>4. CASE FillEndpoints(t)
    BY <2>0, <2>4 DEF FillEndpoints, Goes, EndpointOf, CalmTransfers
  <2>2. CASE CheckEndpoint(t)
    BY <2>2 DEF CheckEndpoint, Goes, CalmTransfers
  <2>3. CASE MakePipe(t) \/ BulkReturns(t)
    BY <2>3 DEF MakePipe, BulkReturns, Goes, CalmTransfers
  <2> QED BY <2>1, <2>2, <2>3, <2>4 DEF FindEndpoints, BulkIn
<1> QED BY <1>1, <1>3, <1>4

\* The copies nv_usb keeps of the setting and of the endpoint are the device's,
\* but after overlapping selects and unparsed changes (nv_usb.c:44 and 98).
THEOREM UsbRemembersDevice == UsbSpec => []RemembersDevice
<1>1. UsbInv /\ [UsbNext]_usbVars => UsbInv'
  <2>1. UsbInv /\ UNCHANGED usbVars => UsbInv'
    BY DEF usbVars, selectVars, UsbInv, UsbTypeOK, SoleSelects, TiedIsEqual, CalmTransfers,
           Selecting
  <2> QED BY <2>1, UsbSelect, UsbEndpoints DEF UsbNext
<1>2. UsbInv => RemembersDevice
  BY DEF UsbInv, SoleSelects, TiedIsEqual, CalmTransfers, Selecting, RemembersDevice,
         AltTracksDevice, TransferUsesEndpoint, EndpointOf
<1> QED BY <1>1, <1>2, UsbInitInv, PTL DEF UsbSpec

-----------------------------------------------------------------------------
(* NvUart: any number of bytes, any room in the fifo and the flip buffer.  *)

UartTypeOK ==
    /\ inbox \in Seq(Int) /\ flip \in Seq(Int) /\ fifo \in Seq(Int)
    /\ pushed \in Nat /\ accepted \in Nat /\ arrived \in Nat /\ dropped \in Nat
    /\ toPut \in Nat
    /\ lock \in {"free", "writer", "flow"}
    /\ writer \in {"idle", "put", "wait", "asleep"}
    /\ Len(fifo) <= FifoSize
    /\ pushed <= Len(flip)

\* The written bytes of s were written before those of t.
Before(s, t) ==
    \A j \in 1..Len(s), k \in 1..Len(t) : s[j] > 0 /\ t[k] > 0 => s[j] < t[k]

UpTo(s, n) == \A k \in 1..Len(s) : s[k] <= n

\* On their way from the fifo over the flip buffer to the reader the bytes stay
\* in order, and the number of the last one is the number of those accepted.
WayInOrder ==
    /\ EchoSorted(inbox) /\ EchoSorted(flip) /\ EchoSorted(fifo)
    /\ Before(inbox, flip) /\ Before(inbox, fifo) /\ Before(flip, fifo)
    /\ UpTo(inbox, accepted) /\ UpTo(flip, accepted) /\ UpTo(fifo, accepted)

\* Every byte is somewhere on its way or counted as dropped.
AllCounted == Len(inbox) + Len(flip) + Len(fifo) + dropped = accepted + arrived

AllPushed == lock = "free" /\ rx = "idle" => pushed = Len(flip)

\* A writer that found no room is woken by the output that is running, stopped
\* or about to start.
WaiterHasWaker ==
    writer \in {"wait", "asleep"} /\ ~woken =>
        \/ lock # "free"
        \/ Len(fifo) = FifoSize /\ (stopped \/ flow = "start")

UartInv == UartTypeOK /\ WayInOrder /\ AllCounted /\ AllPushed /\ WaiterHasWaker


\* An empty sequence is in order with everything.
LEMMA EmptyInOrder ==
    /\ <<>> \in Seq(Int) /\ Len(<<>>) = 0
    /\ EchoSorted(<<>>)
    /\ \A s, n : Before(<<>>, s) /\ Before(s, <<>>) /\ UpTo(<<>>, n)
BY EmptySeq DEF EchoSorted, Before, UpTo

\* uart_insert_char and the line discipline append a character: it stays in
\* order if it comes after all the others, or was not written.
LEMMA AppendInOrder ==
    ASSUME NEW s \in Seq(Int), NEW c \in Int, NEW n \in Nat
    PROVE  /\ Append(s, c) \in Seq(Int) /\ Len(Append(s, c)) = Len(s) + 1
           /\ EchoSorted(s) /\ (\A k \in 1..Len(s) : s[k] > 0 /\ c > 0 => s[k] < c)
                  => EchoSorted(Append(s, c))
           /\ UpTo(s, n) /\ c <= n => UpTo(Append(s, c), n)
           /\ \A t \in Seq(Int) :
                 /\ Before(s, t) /\ (\A k \in 1..Len(t) : t[k] > 0 /\ c > 0 => c < t[k])
                        => Before(Append(s, c), t)
                 /\ Before(t, s) /\ (\A k \in 1..Len(t) : t[k] > 0 /\ c > 0 => t[k] < c)
                        => Before(t, Append(s, c))
<1> DEFINE a == Append(s, c)
<1>1. /\ a \in Seq(Int) /\ Len(a) = Len(s) + 1
      /\ \A i \in 1..Len(s) : a[i] = s[i]
      /\ a[Len(s) + 1] = c
  BY AppendProperties
<1>2. Len(s) \in Nat /\ \A k \in 1..Len(s) : s[k] \in Int
  BY LenProperties, ElementOfSeq
<1> HIDE DEF a
<1>3. \A j \in 1..Len(a) : j \in 1..Len(s) \/ j = Len(s) + 1
  <2>1. Len(a) = Len(s) + 1 /\ Len(s) \in Nat
    BY <1>1, <1>2
  <2> QED BY <2>1
<1>4. EchoSorted(s) /\ (\A k \in 1..Len(s) : s[k] > 0 /\ c > 0 => s[k] < c)
          => EchoSorted(a)
  <2> SUFFICES ASSUME EchoSorted(s), \A k \in 1..Len(s) : s[k] > 0 /\ c > 0 => s[k] < c,
                      NEW j \in 1..Len(a), NEW k \in 1..Len(a), j < k, a[j] > 0, a[k] > 0
               PROVE  a[j] < a[k]
    BY DEF EchoSorted
  <2>1. j \in 1..Len(s) /\ a[j] = s[j]
    BY <1>1, <1>2
  <2>2. CASE k \in 1..Len(s)
    BY <1>1, <2>1, <2>2 DEF EchoSorted
  <2>3. CASE k = Len(s) + 1
    BY <1>1, <2>1, <2>3
  <2> QED BY <1>3, <2>2, <2>3
<1>5. UpTo(s, n) /\ c <= n => UpTo(a, n)
  BY <1>1, <1>2 DEF UpTo
<1>6. ASSUME NEW t \in Seq(Int)
      PROVE  /\ Before(s, t) /\ (\A k \in 1..Len(t) : t[k] > 0 /\ c > 0 => c < t[k])
                    => Before(a, t)
             /\ Before(t, s) /\ (\A k \in 1..Len(t) : t[k] > 0 /\ c > 0 => t[k] < c)
                    => Before(t, a)
  <2>1. ASSUME NEW j \in 1..Len(a)
        PROVE  (j \in 1..Len(s) /\ a[j] = s[j]) \/ a[j] = c
    <3>1. CASE j \in 1..Len(s)
      BY <1>1, <3>1
    <3>2. CASE j = Len(s) + 1
      BY <1>1, <3>2
    <3> QED BY <1>3, <3>1, <3>2
  <2>2. Before(s, t) /\ (\A k \in 1..Len(t) : t[k] > 0 /\ c > 0 => c < t[k])
            => Before(a, t)
    BY <2>1 DEF Before
  <2>3. Before(t, s) /\ (\A k \in 1..Len(t) : t[k] > 0 /\ c > 0 => t[k] < c)
            => Before(t, a)
    BY <2>1 DEF Before
  <2> QED BY <2>2, <2>3
<1> QED BY <1>1, <1>4, <1>5, <1>6 DEF a

\* Taking the first byte leaves the others in order behind it.
LEMMA TailInOrder ==
    ASSUME NEW s \in Seq(Int), s # <<>>, NEW n \in Nat
    PROVE  /\ Head(s) \in Int /\ Tail(s) \in Seq(Int)
           /\ Len(Tail(s)) = Len(s) - 1 /\ Len(s) \in Nat \ {0}
           /\ EchoSorted(s) => /\ EchoSorted(Tail(s))
                               /\ \A k \in 1..Len(Tail(s)) :
                                     Head(s) > 0 /\ Tail(s)[k] > 0 => Head(s) < Tail(s)[k]
           /\ UpTo(s, n) => UpTo(Tail(s), n) /\ Head(s) <= n
           /\ \A t \in Seq(Int) :
                 /\ Before(s, t) =>
                       /\ Before(Tail(s), t)
                       /\ \A k \in 1..Len(t) : t[k] > 0 /\ Head(s) > 0 => Head(s) < t[k]
                 /\ Before(t, s) =>
                       /\ Before(t, Tail(s))
                       /\ \A k \in 1..Len(t) : t[k] > 0 /\ Head(s) > 0 => t[k] < Head(s)
<1> DEFINE r == Tail(s)
           h == Head(s)
<1>1. /\ h \in Int /\ r \in Seq(Int) /\ Len(r) = Len(s) - 1
      /\ \A i \in 1..Len(r) : r[i] = s[i + 1]
  BY HeadTailProperties
<1>2. Len(s) \in Nat \ {0} /\ h = s[1] /\ \A k \in 1..Len(s) : s[k] \in Int
  BY EmptySeq, LenProperties, ElementOfSeq
<1> HIDE DEF r, h
<1>3. EchoSorted(s) => EchoSorted(r) /\ \A k \in 1..Len(r) : h > 0 /\ r[k] > 0 => h < r[k]
  <2> SUFFICES ASSUME EchoSorted(s)
               PROVE  EchoSorted(r) /\ \A k \in 1..Len(r) : h > 0 /\ r[k] > 0 => h < r[k]
    OBVIOUS
  <2>1. \A k \in 1..Len(r) : k + 1 \in 1..Len(s) /\ r[k] = s[k + 1] /\ 1 < k + 1
    BY <1>1, <1>2
  <2>2. \A k \in 1..Len(r) : h > 0 /\ r[k] > 0 => h < r[k]
    BY <1>2, <2>1 DEF EchoSorted
  <2>3. ASSUME NEW j \in 1..Len(r), NEW k \in 1..Len(r), j < k, r[j] > 0, r[k] > 0
        PROVE  r[j] < r[k]
    <3>1. j + 1 < k + 1
      BY <2>3
    <3> QED BY <2>1, <2>3, <3>1 DEF EchoSorted
  <2> QED BY <2>2, <2>3 DEF EchoSorted
<1>4. UpTo(s, n) => UpTo(r, n) /\ h <= n
  <2>1. 1 \in 1..Len(s) /\ \A k \in 1..Len(r) : k + 1 \in 1..Len(s) /\ r[k] = s[k + 1]
    BY <1>1, <1>2
  <2> QED BY <1>2, <2>1 DEF UpTo
<1>5. ASSUME NEW t \in Seq(Int)
      PROVE  /\ Before(s, t) => /\ Before(r, t)
                                /\ \A k \in 1..Len(t) : t[k] > 0 /\ h > 0 => h < t[k]
             /\ Before(t, s) => /\ Before(t, r)
                                /\ \A k \in 1..Len(t) : t[k] > 0 /\ h > 0 => t[k] < h
  <2>1. \A k \in 1..Len(r) : k + 1 \in 1..Len(s) /\ r[k] = s[k + 1]
    BY <1>1, <1>2
  <2>2. 1 \in 1..Len(s)
    BY <1>2
  <2> QED BY <1>2, <2>1, <2>2 DEF Before
<1> QED BY <1>1, <1>2, <1>3, <1>4, <1>5 DEF r, h

\* What uart_write puts into the fifo continues it.
LEMMA ContinuesInOrder ==
    ASSUME NEW s \in Seq(Int), NEW n \in Nat, NEW m \in Nat
    PROVE  LET new == s \o [k \in 1..n |-> m + k]
           IN  /\ new \in Seq(Int) /\ Len(new) = Len(s) + n
               /\ EchoSorted(s) /\ UpTo(s, m) => EchoSorted(new)
               /\ UpTo(s, m) => UpTo(new, m + n)
               /\ \A t \in Seq(Int) :
                     Before(t, s) /\ UpTo(t, m) => Before(t, new) /\ UpTo(t, m + n)
<1> DEFINE u == [k \in 1..n |-> m + k]
           new == s \o u
<1>1. u \in Seq(Int) /\ Len(u) = n /\ \A k \in 1..n : u[k] = m + k
  OBVIOUS
<1> HIDE DEF u
<1>2. /\ new \in Seq(Int) /\ Len(new) = Len(s) + n
      /\ \A i \in 1..(Len(s) + n) : new[i] = IF i <= Len(s) THEN s[i] ELSE u[i - Len(s)]
  BY <1>1, ConcatProperties
<1>3. Len(s) \in Nat /\ \A k \in 1..Len(s) : s[k] \in Int
  BY LenProperties, ElementOfSeq
<1>4. \A i \in 1..(Len(s) + n) : new[i] = IF i <= Len(s) THEN s[i] ELSE m + (i - Len(s))
  <2> SUFFICES ASSUME NEW i \in 1..(Len(s) + n), ~(i <= Len(s))
               PROVE  u[i - Len(s)] = m + (i - Len(s))
    BY <1>2
  <2>1. i - Len(s) \in 1..n
    BY <1>3
  <2> QED BY <1>1, <2>1
<1> HIDE DEF new
<1>6. ASSUME EchoSorted(s), UpTo(s, m) PROVE EchoSorted(new)
  <2> SUFFICES ASSUME NEW j \in 1..Len(new), NEW k \in 1..Len(new), j < k,
                      new[j] > 0, new[k] > 0
               PROVE  new[j] < new[k]
    BY DEF EchoSorted
  <2>1. CASE k \in 1..Len(s)
    <3>1. j \in 1..Len(s) /\ new[j] = s[j] /\ new[k] = s[k]
      BY <1>2, <1>3, <1>4, <2>1
    <3> QED BY <1>6, <2>1, <3>1 DEF EchoSorted
  <2>2. CASE k > Len(s) /\ j \in 1..Len(s)
    <3>1. new[j] = s[j] /\ new[k] > m /\ new[k] \in Int /\ s[j] <= m /\ s[j] \in Int
      BY <1>2, <1>3, <1>4, <1>6, <2>2 DEF UpTo
    <3> QED BY <3>1
  <2>3. CASE k > Len(s) /\ j > Len(s)
    <3>1. new[j] = m + (j - Len(s)) /\ new[k] = m + (k - Len(s))
      BY <1>2, <1>3, <1>4, <2>3
    <3> QED BY <1>2, <1>3, <3>1
  <2> QED BY <1>2, <1>3, <2>1, <2>2, <2>3
<1>7. UpTo(s, m) => UpTo(new, m + n)
  <2> SUFFICES ASSUME UpTo(s, m), NEW k \in 1..Len(new) PROVE new[k] <= m + n
    BY DEF UpTo
  <2>1. CASE k \in 1..Len(s)
    <3>1. new[k] = s[k] /\ s[k] <= m /\ s[k] \in Int
      BY <1>2, <1>3, <1>4, <2>1 DEF UpTo
    <3> QED BY <3>1
  <2>2. CASE k > Len(s)
    <3>1. new[k] = m + (k - Len(s)) /\ k - Len(s) <= n
      BY <1>2, <1>3, <1>4, <2>2
    <3> QED BY <1>2, <1>3, <3>1
  <2> QED BY <1>2, <1>3, <2>1, <2>2
<1>8. ASSUME NEW t \in Seq(Int), Before(t, s), UpTo(t, m)
      PROVE  Before(t, new) /\ UpTo(t, m + n)
  <2>1. \A k \in 1..Len(t) : t[k] \in Int /\ t[k] <= m
    BY <1>8, ElementOfSeq DEF UpTo
  <2>2. UpTo(t, m + n)
    BY <2>1 DEF UpTo
  <2> SUFFICES ASSUME NEW j \in 1..Len(t), NEW k \in 1..Len(new), t[j] > 0, new[k] > 0
               PROVE  t[j] < new[k]
    BY <2>2 DEF Before
  <2>3. CASE k \in 1..Len(s)
    <3>1. new[k] = s[k]
      BY <1>2, <1>3, <1>4, <2>3
    <3> QED BY <1>8, <2>3, <3>1 DEF Before
  <2>4. CASE k > Len(s)
    <3>1. new[k] > m /\ new[k] \in Int
      BY <1>2, <1>3, <1>4, <2>4
    <3> QED BY <2>1, <3>1
  <2> QED BY <1>3, <2>3, <2>4
<1> QED BY <1>2, <1>6, <1>7, <1>8 DEF new, u

\* There is room for a byte in the fifo.
LEMMA FifoHasRoom == FifoSize \in Nat \ {0} /\ MaxBytes \in Nat
BY UartAssumption

\* Before the port is opened for the first time there is no data.
LEMMA UartInitInv == UartInit => UartInv
<1> SUFFICES ASSUME UartInit PROVE UartInv
  OBVIOUS
<1>1. UartTypeOK /\ AllPushed /\ WaiterHasWaker
  BY EmptyInOrder, FifoHasRoom DEF UartInit, UartTypeOK, AllPushed, WaiterHasWaker
<1>2. WayInOrder
  BY EmptyInOrder DEF UartInit, WayInOrder
<1>3. AllCounted
  <2>1. Len(inbox) = 0 /\ Len(flip) = 0 /\ Len(fifo) = 0
    BY EmptyInOrder DEF UartInit
  <2> QED BY <2>1 DEF UartInit, AllCounted
<1> QED BY <1>1, <1>2, <1>3 DEF UartInv

\* Opening, closing and configuring happen while nobody writes.
LEMMA UartConfigure ==
    ASSUME UartInv, ConfigureUart \/ WriteFails
    PROVE  UartInv'
<1> USE FifoHasRoom DEF UartInv, UartTypeOK, AllPushed, WaiterHasWaker, dataVars, Quiet
<1>1. CASE UartOpen \/ SetType \/ WriteFails
  BY <1>1 DEF UartOpen, SetType, WriteFails, WayInOrder, AllCounted
<1>2. CASE UartClose
  <2>1. UartTypeOK'
    BY <1>2, EmptyInOrder DEF UartClose
  <2>2. WayInOrder'
    BY <1>2, EmptyInOrder DEF UartClose, WayInOrder
  <2>3. AllCounted'
    <3>1. Len(inbox') = 0 /\ Len(flip') = 0 /\ Len(fifo') = 0
      BY <1>2, EmptyInOrder DEF UartClose
    <3> QED BY <1>2, <3>1 DEF UartClose, AllCounted
  <2>4. AllPushed' /\ WaiterHasWaker'
    BY <1>2, EmptyInOrder DEF UartClose
  <2> QED BY <2>1, <2>2, <2>3, <2>4
<1>3. CASE ConfigPort
  <2>1. Len(fifo) \in Nat /\ Len(flip) \in Nat /\ Len(inbox) \in Nat
    BY LenProperties
  <2>2. fifo' = <<>> /\ dropped' = dropped + Len(fifo)
        /\ UNCHANGED <<inbox, flip, pushed, accepted, arrived>>
    BY <1>3 DEF ConfigPort
  <2>3. WayInOrder'
    BY <2>2, EmptyInOrder DEF WayInOrder
  <2>4. UartTypeOK' /\ AllCounted'
    BY <1>3, <2>1, <2>2, EmptyInOrder DEF ConfigPort, AllCounted
  <2> QED BY <1>3, <2>3, <2>4 DEF ConfigPort
<1> QED BY <1>1, <1>2, <1>3 DEF ConfigureUart

\* Where the data can go: what one side of the count loses the other loses, or
\* another place gains.
LEMMA Recount ==
    ASSUME AllCounted, Len(inbox) \in Nat, Len(flip) \in Nat, Len(fifo) \in Nat,
           dropped \in Nat, accepted \in Nat, arrived \in Nat
    PROVE  /\ \A n \in Nat :
                 Len(inbox) + Len(flip) + (Len(fifo) + n) + dropped = (accepted + n) + arrived
           /\ Len(inbox) + (Len(flip) + 1) + (Len(fifo) - 1) + dropped = accepted + arrived
           /\ Len(inbox) + Len(flip) + (Len(fifo) - 1) + (dropped + 1) = accepted + arrived
           /\ Len(inbox) + (Len(flip) + 1) + Len(fifo) + dropped = accepted + (arrived + 1)
           /\ Len(inbox) + Len(flip) + Len(fifo) + (dropped + 1) = accepted + (arrived + 1)
           /\ (Len(inbox) + 1) + (Len(flip) - 1) + Len(fifo) + dropped = accepted + arrived
<1>1. Len(inbox) + Len(flip) + Len(fifo) + dropped = accepted + arrived
  BY DEF AllCounted
<1> QED BY <1>1

\* uart_write continues the fifo; with no room it leaves it full, and starts
\* the output unless it is stopped.
LEMMA UartWrites ==
    ASSUME UartInv, UartWrite
    PROVE  UartInv'
<1> USE FifoHasRoom DEF UartInv, UartTypeOK
<1> DEFINE n == IF toPut <= FifoSize - Len(fifo) THEN toPut ELSE FifoSize - Len(fifo)
<1>1. Len(fifo) \in Nat /\ Len(flip) \in Nat /\ Len(inbox) \in Nat
  BY LenProperties
<1>2. n \in Nat /\ n <= toPut /\ Len(fifo) + n <= FifoSize
      /\ (n = 0 => toPut = 0 \/ Len(fifo) = FifoSize)
  BY <1>1
<1>3. /\ fifo' = fifo \o [k \in 1..n |-> accepted + k]
      /\ accepted' = accepted + n
      /\ toPut' = toPut - n
      /\ writer' = IF toPut = n THEN "idle" ELSE IF n = 0 THEN "wait" ELSE "put"
      /\ lock' = IF stopped THEN "free" ELSE "writer"
      /\ lock = "free"
      /\ UNCHANGED <<stopped, flip, pushed, inbox, arrived, dropped, woken, flow, rx>>
  BY DEF UartWrite
<1> HIDE DEF n
<1>4. fifo' \in Seq(Int) /\ Len(fifo') = Len(fifo) + n
  BY <1>2, <1>3, ContinuesInOrder
<1>5. UartTypeOK'
  BY <1>1, <1>2, <1>3, <1>4
<1>6. WayInOrder'
  <2>1. accepted \in Nat /\ EchoSorted(fifo) /\ UpTo(fifo, accepted)
        /\ Before(inbox, fifo) /\ UpTo(inbox, accepted)
        /\ Before(flip, fifo) /\ UpTo(flip, accepted)
    BY DEF WayInOrder
  <2>2. EchoSorted(fifo') /\ UpTo(fifo', accepted + n)
        /\ Before(inbox, fifo') /\ UpTo(inbox, accepted + n)
        /\ Before(flip, fifo') /\ UpTo(flip, accepted + n)
    <3>1. EchoSorted(fifo') /\ UpTo(fifo', accepted + n)
      BY <1>2, <1>3, <2>1, ContinuesInOrder
    <3>2. \A t \in Seq(Int) :
             Before(t, fifo) /\ UpTo(t, accepted) => Before(t, fifo') /\ UpTo(t, accepted + n)
      BY <1>2, <1>3, <2>1, ContinuesInOrder
    <3>3. inbox \in Seq(Int) /\ flip \in Seq(Int)
      OBVIOUS
    <3> HIDE DEF UartInv, UartTypeOK
    <3> QED BY <2>1, <3>1, <3>2, <3>3
  <2> QED BY <1>3, <2>2 DEF WayInOrder
<1>7. AllCounted'
  <2>1. n \in Nat
    BY <1>2
  <2>2. Len(inbox) + Len(flip) + (Len(fifo) + n) + dropped = (accepted + n) + arrived
    BY <1>1, <2>1, Recount
  <2> QED BY <1>3, <1>4, <2>2 DEF AllCounted
<1>8. AllPushed' /\ WaiterHasWaker'
  BY <1>1, <1>2, <1>3, <1>4 DEF AllPushed, WaiterHasWaker
<1> QED BY <1>5, <1>6, <1>7, <1>8

\* One byte of demo_start_tx goes from the fifo to the flip buffer, or is lost
\* there: the others keep their order.
LEMMA UartEchoes ==
    ASSUME UartInv, EchoByte
    PROVE  UartInv'
<1> USE FifoHasRoom DEF UartInv, UartTypeOK
<1> DEFINE h == Head(fifo)
           r == Tail(fifo)
<1>1. Len(fifo) \in Nat /\ Len(flip) \in Nat /\ Len(inbox) \in Nat
  BY LenProperties
<1>2. /\ fifo # <<>> /\ fifo' = r /\ lock # "free"
      /\ UNCHANGED <<stopped, lock, pushed, inbox, accepted, arrived, writer, toPut, woken,
                     flow, rx>>
      /\ \/ flip' = Append(flip, h) /\ dropped' = dropped
         \/ flip' = flip /\ dropped' = dropped + 1
  BY DEF EchoByte, Insert
<1>3. h \in Int /\ r \in Seq(Int) /\ Len(r) = Len(fifo) - 1 /\ Len(fifo) \in Nat \ {0}
  BY <1>2, TailInOrder
<1>4. /\ EchoSorted(r) /\ UpTo(r, accepted) /\ h <= accepted
      /\ \A k \in 1..Len(r) : h > 0 /\ r[k] > 0 => h < r[k]
      /\ Before(inbox, r) /\ \A k \in 1..Len(inbox) : inbox[k] > 0 /\ h > 0 => inbox[k] < h
      /\ Before(flip, r) /\ \A k \in 1..Len(flip) : flip[k] > 0 /\ h > 0 => flip[k] < h
  BY <1>2, TailInOrder DEF WayInOrder
<1> HIDE DEF h, r
<1>5. CASE flip' = Append(flip, h) /\ dropped' = dropped
  <2>1. flip' \in Seq(Int) /\ Len(flip') = Len(flip) + 1
    BY <1>3, <1>5, AppendInOrder
  <2>2. UartTypeOK' /\ AllCounted'
    <3>1. UartTypeOK'
      BY <1>1, <1>2, <1>3, <1>5, <2>1
    <3>2. Len(inbox) + (Len(flip) + 1) + (Len(fifo) - 1) + dropped = accepted + arrived
      BY <1>1, Recount
    <3>3. AllCounted'
      BY <1>2, <1>3, <1>5, <2>1, <3>2 DEF AllCounted
    <3> QED BY <3>1, <3>3
  <2>3. /\ EchoSorted(flip') /\ UpTo(flip', accepted)
        /\ Before(flip', r) /\ Before(inbox, flip')
    BY <1>3, <1>4, <1>5, AppendInOrder DEF WayInOrder
  <2>4. WayInOrder'
    BY <1>2, <1>4, <2>3 DEF WayInOrder
  <2> QED BY <1>2, <2>2, <2>4 DEF AllPushed, WaiterHasWaker
<1>6. CASE flip' = flip /\ dropped' = dropped + 1
  <2>1. UartTypeOK' /\ AllCounted'
    <3>1. UartTypeOK'
      BY <1>1, <1>2, <1>3, <1>6
    <3>2. Len(inbox) + Len(flip) + (Len(fifo) - 1) + (dropped + 1) = accepted + arrived
      BY <1>1, Recount
    <3>3. AllCounted'
      BY <1>2, <1>3, <1>6, <3>2 DEF AllCounted
    <3> QED BY <3>1, <3>3
  <2>2. WayInOrder'
    BY <1>2, <1>4, <1>6 DEF WayInOrder
  <2> QED BY <1>2, <2>1, <2>2 DEF AllPushed, WaiterHasWaker
<1> QED BY <1>2, <1>5, <1>6

\* A character that arrives otherwise is not a written byte.
LEMMA UartReceives ==
    ASSUME UartInv, PushRx
    PROVE  UartInv'
<1> USE FifoHasRoom DEF UartInv, UartTypeOK
<1>1. Len(fifo) \in Nat /\ Len(flip) \in Nat /\ Len(inbox) \in Nat
  BY LenProperties
<1>2. /\ arrived' = arrived + 1 /\ rx' = "push"
      /\ UNCHANGED <<stopped, lock, fifo, pushed, inbox, accepted, writer, toPut, woken, flow>>
      /\ \/ flip' = Append(flip, 0) /\ dropped' = dropped
         \/ flip' = flip /\ dropped' = dropped + 1
  BY DEF PushRx, Insert, Other
<1>3. CASE flip' = Append(flip, 0) /\ dropped' = dropped
  <2>1. flip' \in Seq(Int) /\ Len(flip') = Len(flip) + 1
    BY <1>3, AppendInOrder
  <2>2. UartTypeOK' /\ AllCounted'
    <3>1. UartTypeOK'
      BY <1>1, <1>2, <1>3, <2>1
    <3>2. Len(inbox) + (Len(flip) + 1) + Len(fifo) + dropped = accepted + (arrived + 1)
      BY <1>1, Recount
    <3>3. AllCounted'
      BY <1>2, <1>3, <2>1, <3>2 DEF AllCounted
    <3> QED BY <3>1, <3>3
  <2>3. /\ EchoSorted(flip') /\ UpTo(flip', accepted)
        /\ Before(flip', fifo) /\ Before(inbox, flip')
    BY <1>3, AppendInOrder DEF WayInOrder
  <2>4. WayInOrder'
    BY <1>2, <2>3 DEF WayInOrder
  <2> QED BY <1>2, <2>2, <2>4 DEF AllPushed, WaiterHasWaker
<1>4. CASE flip' = flip /\ dropped' = dropped + 1
  <2>1. UartTypeOK' /\ AllCounted'
    <3>1. UartTypeOK'
      BY <1>1, <1>2, <1>4
    <3>2. Len(inbox) + Len(flip) + Len(fifo) + (dropped + 1) = accepted + (arrived + 1)
      BY <1>1, Recount
    <3>3. AllCounted'
      BY <1>2, <1>4, <3>2 DEF AllCounted
    <3> QED BY <3>1, <3>3
  <2>2. WayInOrder'
    BY <1>2, <1>4 DEF WayInOrder
  <2> QED BY <1>2, <2>1, <2>2 DEF AllPushed, WaiterHasWaker
<1> QED BY <1>2, <1>3, <1>4

\* The line discipline takes the first pushed character, as itself or as NUL.
LEMMA UartDelivers ==
    ASSUME UartInv, Deliver
    PROVE  UartInv'
<1> USE FifoHasRoom DEF UartInv, UartTypeOK
<1> DEFINE h == Head(flip)
           r == Tail(flip)
           c == IF raw THEN h ELSE Nul
<1>1. Len(fifo) \in Nat /\ Len(flip) \in Nat /\ Len(inbox) \in Nat
  BY LenProperties
<1>2. flip # <<>>
  BY EmptySeq DEF Deliver
<1>3. /\ inbox' = Append(inbox, c) /\ flip' = r /\ pushed' = pushed - 1 /\ pushed > 0
      /\ UNCHANGED <<stopped, lock, fifo, accepted, arrived, dropped, writer, toPut, woken,
                     flow, rx>>
  BY DEF Deliver
<1>4. h \in Int /\ r \in Seq(Int) /\ Len(r) = Len(flip) - 1
  BY <1>2, TailInOrder
<1>5. /\ EchoSorted(r) /\ UpTo(r, accepted) /\ h <= accepted
      /\ \A k \in 1..Len(r) : h > 0 /\ r[k] > 0 => h < r[k]
      /\ Before(inbox, r) /\ \A k \in 1..Len(inbox) : inbox[k] > 0 /\ h > 0 => inbox[k] < h
      /\ Before(r, fifo) /\ \A k \in 1..Len(fifo) : fifo[k] > 0 /\ h > 0 => h < fifo[k]
  BY <1>2, TailInOrder DEF WayInOrder
<1> HIDE DEF h, r
<1>6. c \in Int /\ c <= accepted /\ (c = h \/ c = -1)
  BY <1>4, <1>5 DEF Nul
<1> HIDE DEF c
<1>7. inbox' \in Seq(Int) /\ Len(inbox') = Len(inbox) + 1
  BY <1>3, <1>6, AppendInOrder
<1>8. UartTypeOK' /\ AllCounted'
  <2>1. UartTypeOK'
    BY <1>1, <1>3, <1>4, <1>7
  <2>2. (Len(inbox) + 1) + (Len(flip) - 1) + Len(fifo) + dropped = accepted + arrived
    BY <1>1, Recount
  <2>3. AllCounted'
    BY <1>3, <1>4, <1>7, <2>2 DEF AllCounted
  <2> QED BY <2>1, <2>3
<1>9. /\ \A k \in 1..Len(r) : r[k] > 0 /\ c > 0 => c < r[k]
      /\ \A k \in 1..Len(inbox) : inbox[k] > 0 /\ c > 0 => inbox[k] < c
      /\ \A k \in 1..Len(fifo) : fifo[k] > 0 /\ c > 0 => c < fifo[k]
  BY <1>5, <1>6
<1>10. /\ EchoSorted(inbox') /\ UpTo(inbox', accepted)
       /\ Before(inbox', r) /\ Before(inbox', fifo)
  BY <1>3, <1>4, <1>5, <1>6, <1>9, AppendInOrder DEF WayInOrder
<1>11. WayInOrder'
  BY <1>3, <1>5, <1>10 DEF WayInOrder
<1>12. AllPushed'
  BY <1>1, <1>3, <1>4 DEF AllPushed
<1> QED BY <1>3, <1>8, <1>11, <1>12 DEF WaiterHasWaker

\* The other steps move no data: they push, wake, sleep, stop and start.
LEMMA UartAside ==
    ASSUME UartInv,
           \/ \E n \in 1..MaxBytes : Write(n)
           \/ WaitWoken \/ Woken \/ EndTx \/ FlowControl \/ PushRxDone \/ UNCHANGED uartVars
    PROVE  UartInv'
<1> USE DEF UartInv, UartTypeOK, dataVars
<1>1. UNCHANGED <<fifo, flip, inbox, accepted, arrived, dropped>>
  BY DEF Write, WaitWoken, Woken, EndTx, FlowControl, StopTty, StartTty, UartStart, StartWakes,
         PushRxDone, uartVars
<1>2. WayInOrder' /\ AllCounted'
  BY <1>1 DEF WayInOrder, AllCounted
<1>3. Len(flip) \in Nat
  BY LenProperties
<1>4. UartTypeOK' /\ AllPushed' /\ WaiterHasWaker'
  <2>1. CASE \E n \in 1..MaxBytes : Write(n)
    <3>1. UartTypeOK'
      BY <1>1, <2>1, FifoHasRoom DEF Write
    <3>2. AllPushed' /\ WaiterHasWaker'
      BY <1>1, <2>1 DEF Write, AllPushed, WaiterHasWaker
    <3> QED BY <3>1, <3>2
  <2>2. CASE WaitWoken \/ Woken
    BY <1>1, <2>2 DEF WaitWoken, Woken, AllPushed, WaiterHasWaker
  <2>3. CASE EndTx \/ PushRxDone
    <3>1. pushed' = Len(flip') /\ flip' = flip
      BY <1>1, <2>3 DEF EndTx, PushRxDone
    <3>2. UartTypeOK'
      BY <1>1, <1>3, <2>3, <3>1 DEF EndTx, PushRxDone
    <3>3. AllPushed' /\ WaiterHasWaker'
      BY <1>1, <2>3, <3>1 DEF EndTx, PushRxDone, AllPushed, WaiterHasWaker
    <3> QED BY <3>2, <3>3
  <2>4. CASE FlowControl
    BY <1>1, <2>4 DEF FlowControl, StopTty, StartTty, UartStart, StartWakes, AllPushed,
                      WaiterHasWaker
  <2>5. CASE UNCHANGED uartVars
    BY <1>1, <2>5 DEF uartVars, AllPushed, WaiterHasWaker
  <2> QED BY <2>1, <2>2, <2>3, <2>4, <2>5
<1> QED BY <1>2, <1>4

\* Every step of the port keeps the invariant.
LEMMA UartStep == UartInv /\ [UartNext]_uartVars => UartInv'
BY UartConfigure, UartWrites, UartEchoes, UartReceives, UartDelivers, UartAside
   DEF UartNext, Writing, StartTx, Receiving

\* Three sequences that are in order and follow each other are in order as one.
LEMMA ConcatInOrder ==
    ASSUME NEW s \in Seq(Int), NEW t \in Seq(Int), EchoSorted(s), EchoSorted(t), Before(s, t)
    PROVE  EchoSorted(s \o t)
<1> DEFINE new == s \o t
<1>1. /\ Len(new) = Len(s) + Len(t)
      /\ \A i \in 1..(Len(s) + Len(t)) : new[i] = IF i <= Len(s) THEN s[i] ELSE t[i - Len(s)]
      /\ Len(s) \in Nat /\ Len(t) \in Nat
  BY ConcatProperties, LenProperties
<1> HIDE DEF new
<1> SUFFICES ASSUME NEW j \in 1..Len(new), NEW k \in 1..Len(new), j < k, new[j] > 0, new[k] > 0
             PROVE  new[j] < new[k]
  BY DEF EchoSorted, new
<1>2. CASE k <= Len(s)
  <2>1. j \in 1..Len(s) /\ k \in 1..Len(s) /\ new[j] = s[j] /\ new[k] = s[k]
    BY <1>1, <1>2
  <2> QED BY <2>1 DEF EchoSorted
<1>3. CASE j <= Len(s) /\ ~(k <= Len(s))
  <2>1. j \in 1..Len(s) /\ k - Len(s) \in 1..Len(t) /\ new[j] = s[j] /\ new[k] = t[k - Len(s)]
    BY <1>1, <1>3
  <2> QED BY <2>1 DEF Before
<1>4. CASE ~(j <= Len(s)) /\ ~(k <= Len(s))
  <2>1. /\ j - Len(s) \in 1..Len(t) /\ k - Len(s) \in 1..Len(t) /\ j - Len(s) < k - Len(s)
        /\ new[j] = t[j - Len(s)] /\ new[k] = t[k - Len(s)]
    BY <1>1, <1>4
  <2> QED BY <2>1 DEF EchoSorted
<1> QED BY <1>1, <1>2, <1>3, <1>4

\* What follows both of two sequences follows them as one.
LEMMA ConcatBefore ==
    ASSUME NEW s \in Seq(Int), NEW t \in Seq(Int), NEW u \in Seq(Int), Before(s, u), Before(t, u)
    PROVE  Before(s \o t, u)
<1> DEFINE new == s \o t
<1>1. /\ Len(new) = Len(s) + Len(t)
      /\ \A i \in 1..(Len(s) + Len(t)) : new[i] = IF i <= Len(s) THEN s[i] ELSE t[i - Len(s)]
      /\ Len(s) \in Nat /\ Len(t) \in Nat
  BY ConcatProperties, LenProperties
<1> HIDE DEF new
<1> SUFFICES ASSUME NEW j \in 1..Len(new), NEW k \in 1..Len(u), new[j] > 0, u[k] > 0
             PROVE  new[j] < u[k]
  BY DEF Before, new
<1>2. CASE j <= Len(s)
  <2>1. j \in 1..Len(s) /\ new[j] = s[j]
    BY <1>1, <1>2
  <2> QED BY <2>1 DEF Before
<1>3. CASE ~(j <= Len(s))
  <2>1. j - Len(s) \in 1..Len(t) /\ new[j] = t[j - Len(s)]
    BY <1>1, <1>3
  <2> QED BY <2>1 DEF Before
<1> QED BY <1>2, <1>3

\* demo_start_tx (nv_uart_demo.c:27) echoes every byte once and in order, or
\* counts it as dropped, for any number of bytes and any room in the buffers.
THEOREM UartEchoInOrder == UartSpec => []EchoInOrder
<1>1. UartInv => EchoInOrder
  <2> SUFFICES ASSUME UartInv PROVE EchoInOrder
    OBVIOUS
  <2>1. inbox \in Seq(Int) /\ flip \in Seq(Int) /\ fifo \in Seq(Int) /\ inbox \o flip \in Seq(Int)
    BY ConcatProperties DEF UartInv, UartTypeOK
  <2>2. EchoSorted(inbox \o flip) /\ Before(inbox \o flip, fifo)
    BY <2>1, ConcatInOrder, ConcatBefore DEF UartInv, WayInOrder
  <2>3. EchoSorted((inbox \o flip) \o fifo)
    BY <2>1, <2>2, ConcatInOrder DEF UartInv, WayInOrder
  <2> QED BY <2>3 DEF EchoInOrder, UartInv, AllCounted, AllPushed
<1> QED BY <1>1, UartInitInv, UartStep, PTL DEF UartSpec

\* nv_uart_write_wakeup at the end of demo_start_tx reaches every writer that
\* found the fifo full: none sleeps while the output is neither stopped nor
\* about to run (nv_uart_demo.c:42).
THEOREM UartWriterWoken == UartSpec => []WriterWoken
<1>1. UartInv => WriterWoken
  BY DEF UartInv, WaiterHasWaker, WriterWoken
<1> QED BY <1>1, UartInitInv, UartStep, PTL DEF UartSpec
=============================================================================
