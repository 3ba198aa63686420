------------------------- MODULE ProbeMonitorProofs -------------------------
(***************************************************************************)
(* What holds of every number of probers, boxes and URLs once Deactivate    *)
(* runs under static.lock.                                                  *)
(***************************************************************************)
EXTENDS ProbeMonitor, TLAPS

LEMMA PInit == Init => PInv
  BY ProbeAssumption DEF Init, PInv, TypeOK, CountInv, WaitInv, CloseInv, Past, Places

LEMMA StepStartBox ==
  ASSUME Locked, PInv, NEW b \in Box, StartBox(b) PROVE PInv'
  <1>0. TypeOK /\ CountInv /\ WaitInv /\ CloseInv BY DEF PInv
  <1>1. TypeOK'
    BY <1>0, ProbeAssumption
      DEF StartBox, core, stops, probes, TypeOK, CountInv, Past, Places
  <1>2. CountInv'
    BY <1>0, ProbeAssumption
      DEF StartBox, core, stops, probes, TypeOK, CountInv, Past, Places
  <1>3. WaitInv'
    BY <1>0, ProbeAssumption
      DEF StartBox, core, stops, probes, TypeOK, CountInv, WaitInv, CloseInv, Past, Places
  <1>4. CloseInv'
    BY <1>0, ProbeAssumption
      DEF StartBox, core, stops, probes, TypeOK, CountInv, WaitInv, CloseInv
  <1> QED BY <1>1, <1>2, <1>3, <1>4 DEF PInv

LEMMA StepWaitReturns ==
  ASSUME Locked, PInv, NEW b \in Box, WaitReturns(b) PROVE PInv'
  <1>0. TypeOK /\ CountInv /\ WaitInv /\ CloseInv BY DEF PInv
  <1>1. TypeOK'
    BY <1>0, ProbeAssumption
      DEF WaitReturns, core, stops, probes, TypeOK, CountInv, Past, Places
  <1>2. CountInv'
    BY <1>0, ProbeAssumption
      DEF WaitReturns, core, stops, probes, TypeOK, CountInv, Past, Places
  <1>3. WaitInv'
    BY <1>0, ProbeAssumption
      DEF WaitReturns, core, stops, probes, TypeOK, CountInv, WaitInv, CloseInv, Past, Places
  <1>4. CloseInv'
    BY <1>0, ProbeAssumption
      DEF WaitReturns, core, stops, probes, TypeOK, CountInv, WaitInv, CloseInv
  <1> QED BY <1>1, <1>2, <1>3, <1>4 DEF PInv

LEMMA StepStrayReturns ==
  ASSUME Locked, PInv, NEW b \in Box, StrayReturns(b) PROVE PInv'
  <1>0. TypeOK /\ CountInv /\ WaitInv /\ CloseInv BY DEF PInv
  <1>1. TypeOK'
    BY <1>0, ProbeAssumption
      DEF StrayReturns, core, stops, probes, TypeOK, CountInv, Past, Places
  <1>2. CountInv'
    BY <1>0, ProbeAssumption
      DEF StrayReturns, core, stops, probes, TypeOK, CountInv, Past, Places
  <1>3. WaitInv'
    BY <1>0, ProbeAssumption
      DEF StrayReturns, core, stops, probes, TypeOK, CountInv, WaitInv, CloseInv, Past, Places
  <1>4. CloseInv'
    BY <1>0, ProbeAssumption
      DEF StrayReturns, core, stops, probes, TypeOK, CountInv, WaitInv, CloseInv
  <1> QED BY <1>1, <1>2, <1>3, <1>4 DEF PInv

LEMMA StepStop ==
  ASSUME Locked, PInv, NEW k \in Closer, Stop(k) PROVE PInv'
  <1>0. TypeOK /\ CountInv /\ WaitInv /\ CloseInv BY DEF PInv
  <1>1. TypeOK'
    BY <1>0, ProbeAssumption
      DEF Stop, core, stops, probes, TypeOK, CountInv, Past, Places
  <1>2. CountInv'
    BY <1>0, ProbeAssumption
      DEF Stop, core, stops, probes, TypeOK, CountInv, Past, Places
  <1>3. WaitInv'
    BY <1>0, ProbeAssumption
      DEF Stop, core, stops, probes, TypeOK, CountInv, WaitInv, CloseInv, Past, Places
  <1>4. CloseInv'
    BY <1>0, ProbeAssumption
      DEF Stop, core, stops, probes, TypeOK, CountInv, WaitInv, CloseInv
  <1> QED BY <1>1, <1>2, <1>3, <1>4 DEF PInv

LEMMA StepSwap ==
  ASSUME Locked, PInv, NEW k \in Closer, Swap(k) PROVE PInv'
  <1>0. TypeOK /\ CountInv /\ WaitInv /\ CloseInv BY DEF PInv
  <1>1. TypeOK'
    BY <1>0, ProbeAssumption
      DEF Swap, core, stops, probes, TypeOK, CountInv, Past, Places
  <1>2. CountInv'
    BY <1>0, ProbeAssumption
      DEF Swap, core, stops, probes, TypeOK, CountInv, Past, Places
  <1>3. WaitInv'
    BY <1>0, ProbeAssumption
      DEF Swap, core, stops, probes, TypeOK, CountInv, WaitInv, CloseInv, Past, Places
  <1>4. CloseInv'
    BY <1>0, ProbeAssumption
      DEF Swap, core, stops, probes, TypeOK, CountInv, WaitInv, CloseInv
  <1> QED BY <1>1, <1>2, <1>3, <1>4 DEF PInv

LEMMA StepCancel ==
  ASSUME Locked, PInv, NEW k \in Closer, Cancel(k) PROVE PInv'
  <1>0. TypeOK /\ CountInv /\ WaitInv /\ CloseInv BY DEF PInv
  <1>a. target[k] \in Box BY <1>0 DEF Cancel, TypeOK, CloseInv
  <1>1. TypeOK'
    BY <1>0, <1>a, ProbeAssumption
      DEF Cancel, core, stops, probes, TypeOK, CountInv, Past, Places
  <1>2. CountInv'
    BY <1>0, ProbeAssumption
      DEF Cancel, core, stops, probes, TypeOK, CountInv, Past, Places
  <1>3. WaitInv'
    BY <1>0, ProbeAssumption
      DEF Cancel, core, stops, probes, TypeOK, CountInv, WaitInv, CloseInv, Past, Places
  <1>4. CloseInv'
    BY <1>0, ProbeAssumption
      DEF Cancel, core, stops, probes, TypeOK, CountInv, WaitInv, CloseInv
  <1> QED BY <1>1, <1>2, <1>3, <1>4 DEF PInv

LEMMA StepSpawnWait ==
  ASSUME Locked, PInv, NEW k \in Closer, SpawnWait(k) PROVE PInv'
  <1>0. TypeOK /\ CountInv /\ WaitInv /\ CloseInv BY DEF PInv
  <1>1. TypeOK'
    BY <1>0, ProbeAssumption
      DEF SpawnWait, core, stops, probes, TypeOK, CountInv, Past, Places
  <1>2. CountInv'
    BY <1>0, ProbeAssumption
      DEF SpawnWait, core, stops, probes, TypeOK, CountInv, Past, Places
  <1>3. WaitInv'
    BY <1>0, ProbeAssumption
      DEF SpawnWait, core, stops, probes, TypeOK, CountInv, WaitInv, CloseInv, Past, Places
  <1>4. CloseInv'
    BY <1>0, ProbeAssumption
      DEF SpawnWait, core, stops, probes, TypeOK, CountInv, WaitInv, CloseInv
  <1> QED BY <1>1, <1>2, <1>3, <1>4 DEF PInv

LEMMA StepWaitDone ==
  ASSUME Locked, PInv, NEW k \in Closer, WaitDone(k) PROVE PInv'
  <1>0. TypeOK /\ CountInv /\ WaitInv /\ CloseInv BY DEF PInv
  <1>1. TypeOK'
    BY <1>0, ProbeAssumption
      DEF WaitDone, core, stops, probes, TypeOK, CountInv, Past, Places
  <1>2. CountInv'
    BY <1>0, ProbeAssumption
      DEF WaitDone, core, stops, probes, TypeOK, CountInv, Past, Places
  <1>3. WaitInv'
    BY <1>0, ProbeAssumption
      DEF WaitDone, core, stops, probes, TypeOK, CountInv, WaitInv, CloseInv, Past, Places
  <1>4. CloseInv'
    BY <1>0, ProbeAssumption
      DEF WaitDone, core, stops, probes, TypeOK, CountInv, WaitInv, CloseInv
  <1> QED BY <1>1, <1>2, <1>3, <1>4 DEF PInv

LEMMA StepBudgetExpires ==
  ASSUME Locked, PInv, NEW k \in Closer, BudgetExpires(k) PROVE PInv'
  <1>0. TypeOK /\ CountInv /\ WaitInv /\ CloseInv BY DEF PInv
  <1>a. target[k] \in Box BY <1>0 DEF BudgetExpires, TypeOK, CloseInv
  <1>1. TypeOK'
    BY <1>0, <1>a, ProbeAssumption
      DEF BudgetExpires, core, stops, probes, TypeOK, CountInv, Past, Places
  <1>2. CountInv'
    BY <1>0, ProbeAssumption
      DEF BudgetExpires, core, stops, probes, TypeOK, CountInv, Past, Places
  <1>3. WaitInv'
    BY <1>0, ProbeAssumption
      DEF BudgetExpires, core, stops, probes, TypeOK, CountInv, WaitInv, CloseInv, Past, Places
  <1>4. CloseInv'
    BY <1>0, ProbeAssumption
      DEF BudgetExpires, core, stops, probes, TypeOK, CountInv, WaitInv, CloseInv
  <1> QED BY <1>1, <1>2, <1>3, <1>4 DEF PInv

LEMMA StepCloseBox ==
  ASSUME Locked, PInv, NEW k \in Closer, CloseBox(k) PROVE PInv'
  <1>0. TypeOK /\ CountInv /\ WaitInv /\ CloseInv BY DEF PInv
  <1>1. TypeOK'
    BY <1>0, ProbeAssumption
      DEF CloseBox, core, stops, probes, TypeOK, CountInv, Past, Places
  <1>2. CountInv'
    BY <1>0, ProbeAssumption
      DEF CloseBox, core, stops, probes, TypeOK, CountInv, Past, Places
  <1>3. WaitInv'
    BY <1>0, ProbeAssumption
      DEF CloseBox, core, stops, probes, TypeOK, CountInv, WaitInv, CloseInv, Past, Places
  <1>4. CloseInv'
    BY <1>0, ProbeAssumption
      DEF CloseBox, core, stops, probes, TypeOK, CountInv, WaitInv, CloseInv
  <1> QED BY <1>1, <1>2, <1>3, <1>4 DEF PInv

LEMMA StepEnter ==
  ASSUME Locked, PInv, NEW q \in Prober, Enter(q) PROVE PInv'
  <1>0. TypeOK /\ CountInv /\ WaitInv /\ CloseInv BY DEF PInv
  <1>1. TypeOK'
    BY <1>0, ProbeAssumption
      DEF Enter, core, stops, probes, TypeOK, CountInv, Past, Places
  <1>2. CountInv'
    BY <1>0, ProbeAssumption
      DEF Enter, core, stops, probes, TypeOK, CountInv, Past, Places
  <1>3. WaitInv'
    BY <1>0, ProbeAssumption
      DEF Enter, core, stops, probes, TypeOK, CountInv, WaitInv, CloseInv, Past, Places
  <1>4. CloseInv'
    BY <1>0, ProbeAssumption
      DEF Enter, core, stops, probes, TypeOK, CountInv, WaitInv, CloseInv
  <1> QED BY <1>1, <1>2, <1>3, <1>4 DEF PInv

LEMMA StepCheck ==
  ASSUME Locked, PInv, NEW q \in Prober, Check(q) PROVE PInv'
  <1>0. TypeOK /\ CountInv /\ WaitInv /\ CloseInv BY DEF PInv
  <1>1. TypeOK'
    BY <1>0, ProbeAssumption
      DEF Check, core, stops, probes, ContextLive, TypeOK, CountInv, Past, Places
  <1>2. CountInv'
    BY <1>0, ProbeAssumption
      DEF Check, core, stops, probes, ContextLive, TypeOK, CountInv, Past, Places
  <1>3. WaitInv'
    BY <1>0, ProbeAssumption
      DEF Check, core, stops, probes, ContextLive, TypeOK, CountInv, WaitInv, CloseInv, Past, Places
  <1>4. CloseInv'
    BY <1>0, ProbeAssumption
      DEF Check, core, stops, probes, ContextLive, TypeOK, CountInv, WaitInv, CloseInv
  <1> QED BY <1>1, <1>2, <1>3, <1>4 DEF PInv

LEMMA StepSample ==
  ASSUME Locked, PInv, NEW q \in Prober, Sample(q) PROVE PInv'
  <1>0. TypeOK /\ CountInv /\ WaitInv /\ CloseInv BY DEF PInv
  <1>1. TypeOK'
    BY <1>0, ProbeAssumption
      DEF Sample, core, stops, probes, ContextLive, TypeOK, CountInv, Past, Places
  <1>2. CountInv'
    BY <1>0, ProbeAssumption
      DEF Sample, core, stops, probes, ContextLive, TypeOK, CountInv, Past, Places
  <1>3. WaitInv'
    BY <1>0, ProbeAssumption
      DEF Sample, core, stops, probes, ContextLive, TypeOK, CountInv, WaitInv, CloseInv, Past, Places
  <1>4. CloseInv'
    BY <1>0, ProbeAssumption
      DEF Sample, core, stops, probes, ContextLive, TypeOK, CountInv, WaitInv, CloseInv
  <1> QED BY <1>1, <1>2, <1>3, <1>4 DEF PInv

LEMMA StepDial ==
  ASSUME Locked, PInv, NEW q \in Prober, Dial(q) PROVE PInv'
  <1>0. TypeOK /\ CountInv /\ WaitInv /\ CloseInv BY DEF PInv
  <1>1. TypeOK'
    BY <1>0, ProbeAssumption
      DEF Dial, core, stops, probes, TypeOK, CountInv, Past, Places
  <1>2. CountInv'
    BY <1>0, ProbeAssumption
      DEF Dial, core, stops, probes, TypeOK, CountInv, Past, Places
  <1>3. WaitInv'
    BY <1>0, ProbeAssumption
      DEF Dial, core, stops, probes, TypeOK, CountInv, WaitInv, CloseInv, Past, Places
  <1>4. CloseInv'
    BY <1>0, ProbeAssumption
      DEF Dial, core, stops, probes, TypeOK, CountInv, WaitInv, CloseInv
  <1> QED BY <1>1, <1>2, <1>3, <1>4 DEF PInv

LEMMA StepStore ==
  ASSUME Locked, PInv, NEW q \in Prober, Store(q) PROVE PInv'
  <1>0. TypeOK /\ CountInv /\ WaitInv /\ CloseInv BY DEF PInv
  <1>1. TypeOK'
    BY <1>0, ProbeAssumption
      DEF Store, core, stops, probes, TypeOK, CountInv, Past, Places
  <1>2. CountInv'
    BY <1>0, ProbeAssumption
      DEF Store, core, stops, probes, TypeOK, CountInv, Past, Places
  <1>3. WaitInv'
    BY <1>0, ProbeAssumption
      DEF Store, core, stops, probes, TypeOK, CountInv, WaitInv, CloseInv, Past, Places
  <1>4. CloseInv'
    BY <1>0, ProbeAssumption
      DEF Store, core, stops, probes, TypeOK, CountInv, WaitInv, CloseInv
  <1> QED BY <1>1, <1>2, <1>3, <1>4 DEF PInv

LEMMA StepLeave ==
  ASSUME Locked, PInv, NEW q \in Prober, Leave(q) PROVE PInv'
  <1>0. TypeOK /\ CountInv /\ WaitInv /\ CloseInv BY DEF PInv
  <1>1. TypeOK'
    BY <1>0, ProbeAssumption
      DEF Leave, core, stops, probes, TypeOK, CountInv, Past, Places
  <1>2. CountInv'
    BY <1>0, ProbeAssumption
      DEF Leave, core, stops, probes, TypeOK, CountInv, Past, Places
  <1>3. WaitInv'
    BY <1>0, ProbeAssumption
      DEF Leave, core, stops, probes, TypeOK, CountInv, WaitInv, CloseInv, Past, Places
  <1>4. CloseInv'
    BY <1>0, ProbeAssumption
      DEF Leave, core, stops, probes, TypeOK, CountInv, WaitInv, CloseInv
  <1> QED BY <1>1, <1>2, <1>3, <1>4 DEF PInv

LEMMA StepLoad ==
  ASSUME Locked, PInv, NEW q \in Prober, Load(q) PROVE PInv'
  <1>0. TypeOK /\ CountInv /\ WaitInv /\ CloseInv BY DEF PInv
  <1>1. TypeOK'
    BY <1>0, ProbeAssumption
      DEF Load, core, stops, probes, TypeOK, CountInv, Past, Places
  <1>2. CountInv'
    BY <1>0, ProbeAssumption
      DEF Load, core, stops, probes, TypeOK, CountInv, Past, Places
  <1>3. WaitInv'
    BY <1>0, ProbeAssumption
      DEF Load, core, stops, probes, TypeOK, CountInv, WaitInv, CloseInv, Past, Places
  <1>4. CloseInv'
    BY <1>0, ProbeAssumption
      DEF Load, core, stops, probes, TypeOK, CountInv, WaitInv, CloseInv
  <1> QED BY <1>1, <1>2, <1>3, <1>4 DEF PInv

LEMMA StepDialFails ==
  ASSUME Locked, PInv, NEW q \in Prober, DialFails(q) PROVE PInv'
  <1>0. TypeOK /\ CountInv /\ WaitInv /\ CloseInv BY DEF PInv
  <1>1. TypeOK'
    BY <1>0, ProbeAssumption
      DEF DialFails, core, stops, probes, TypeOK, CountInv, Past, Places
  <1>2. CountInv'
    BY <1>0, ProbeAssumption
      DEF DialFails, core, stops, probes, TypeOK, CountInv, Past, Places
  <1>3. WaitInv'
    BY <1>0, ProbeAssumption
      DEF DialFails, core, stops, probes, TypeOK, CountInv, WaitInv, CloseInv, Past, Places
  <1>4. CloseInv'
    BY <1>0, ProbeAssumption
      DEF DialFails, core, stops, probes, TypeOK, CountInv, WaitInv, CloseInv
  <1> QED BY <1>1, <1>2, <1>3, <1>4 DEF PInv

LEMMA StepRaceEnds ==
  ASSUME Locked, PInv, NEW q \in Prober, RaceEnds(q) PROVE PInv'
  <1>0. TypeOK /\ CountInv /\ WaitInv /\ CloseInv BY DEF PInv
  <1>1. TypeOK'
    BY <1>0, ProbeAssumption
      DEF RaceEnds, core, stops, probes, TypeOK, CountInv, Past, Places
  <1>2. CountInv'
    BY <1>0, ProbeAssumption
      DEF RaceEnds, core, stops, probes, TypeOK, CountInv, Past, Places
  <1>3. WaitInv'
    BY <1>0, ProbeAssumption
      DEF RaceEnds, core, stops, probes, TypeOK, CountInv, WaitInv, CloseInv, Past, Places
  <1>4. CloseInv'
    BY <1>0, ProbeAssumption
      DEF RaceEnds, core, stops, probes, TypeOK, CountInv, WaitInv, CloseInv
  <1> QED BY <1>1, <1>2, <1>3, <1>4 DEF PInv

(* The strengthened invariant is inductive: every action keeps it.          *)
LEMMA PStep ==
  ASSUME Locked, PInv, [Next]_vars PROVE PInv'
  <1>1. CASE UNCHANGED vars
    BY <1>1 DEF PInv, TypeOK, CountInv, WaitInv, CloseInv, vars, core, stops, probes
  <1>2. CASE Next
    BY <1>2, StepStartBox, StepWaitReturns, StepStrayReturns, StepStop, StepSwap,
       StepCancel, StepSpawnWait, StepWaitDone, StepBudgetExpires, StepCloseBox,
       StepEnter, StepCheck, StepSample, StepDial, StepStore, StepLeave, StepLoad,
       StepDialFails, StepRaceEnds
      DEF Next, Close, Probe, Return
  <1> QED BY <1>1, <1>2

(* The probers counted in probesInFlight are those between Add and Done, a  *)
(* monitor is waited for after its cancel only, and the box that is closed  *)
(* is the one whose monitor was waited for.                                 *)
THEOREM ProbeInvariant ==
  ASSUME Locked PROVE SafetySpec => []PInv
  <1>1. Init => PInv BY PInit
  <1>2. PInv /\ [Next]_vars => PInv' BY PStep
  <1> QED BY <1>1, <1>2, PTL DEF SafetySpec

(* Deactivate under the lock keeps every prober, late ones included, from   *)
(* probing on a box closed after a wait within the budget.                  *)
THEOREM ProbersLeaveFirst ==
  ASSUME Locked PROVE SafetySpec => []NoProberOnClosedBox
  <1>1. PInv => NoProberOnClosedBox
    BY DEF PInv, WaitInv, CloseInv, NoProberOnClosedBox
  <1> QED BY <1>1, ProbeInvariant, PTL
=============================================================================
