-------------------------- MODULE TestEngineProofs --------------------------
(***************************************************************************)
(* The side box of the test engine, for any number of callers, pingers,     *)
(* boxes and profiles: one lemma per action of TestEngine, one step in it   *)
(* per part of the invariant.                                               *)
(***************************************************************************)
EXTENDS TestEngine, TLAPS

USE EngineAssumption DEF Places, slot, ends, idle, calls, pings

LEMMA EInit == Init => EInv
  <1> SUFFICES ASSUME Init PROVE EInv OBVIOUS
  <1>1. TypeOK
    <2>1. armed \in BOOLEAN /\ stale \in BOOLEAN BY Zenon DEF Init
    <2>2. 0 \in Version /\ 0 \in 0..MaxTries - 1 BY DEF Version
    <2>3. file \in [Profile -> Version] /\ got \in [Caller -> Version]
      BY <2>2 DEF Init
    <2>4. tries \in [Caller -> 0..MaxTries - 1] BY <2>2 DEF Init
    <2> QED BY <2>1, <2>3, <2>4 DEF Init, TypeOK
  <1>2. HolderInv BY DEF Init, HolderInv, SlotIsFree
  <1>3. BoxInv BY DEF Init, BoxInv
  <1>4. StampInv BY DEF Init, StampInv, AnswerIsFresh
  <1>5. PingInv BY DEF Init, PingInv, InFlight, FenceHolds
  <1> QED BY <1>1, <1>2, <1>3, <1>4, <1>5 DEF EInv

LEMMA StepConfigChanges ==
  ASSUME EInv, NEW p \in Profile, ConfigChanges(p)
  PROVE  EInv'
  <1>0. TypeOK /\ HolderInv /\ BoxInv /\ StampInv /\ PingInv BY DEF EInv
  <1>1. TypeOK'
    BY <1>0 DEF ConfigChanges, TypeOK, Request, Label, Version, HolderInv
  <1>2. HolderInv'
    BY <1>0 DEF ConfigChanges, TypeOK, HolderInv, SlotIsFree, BoxInv
  <1>3. BoxInv'
    BY <1>0 DEF ConfigChanges, TypeOK, HolderInv, SlotIsFree, BoxInv
  <1>4. StampInv'
    BY <1>0 DEF ConfigChanges, TypeOK, HolderInv, SlotIsFree, BoxInv,
        Request, Label, Version, StampInv, AnswerIsFresh
  <1>5. PingInv'
    BY <1>0 DEF ConfigChanges, TypeOK, HolderInv, SlotIsFree, BoxInv,
        PingInv, InFlight, FenceHolds
  <1> QED BY <1>1, <1>2, <1>3, <1>4, <1>5 DEF EInv

LEMMA StepEnsureCall ==
  ASSUME EInv, NEW c \in Caller, NEW p \in Profile, EnsureCall(c, p)
  PROVE  EInv'
  <1>0. TypeOK /\ HolderInv /\ BoxInv /\ StampInv /\ PingInv BY DEF EInv
  <1>1. TypeOK'
    BY <1>0 DEF EnsureCall, TypeOK, Request, Label, Version, HolderInv
  <1>2. HolderInv'
    BY <1>0 DEF EnsureCall, TypeOK, HolderInv, SlotIsFree, BoxInv
  <1>3. BoxInv'
    BY <1>0 DEF EnsureCall, TypeOK, HolderInv, SlotIsFree, BoxInv
  <1>4. StampInv'
    BY <1>0 DEF EnsureCall, TypeOK, HolderInv, SlotIsFree, BoxInv,
        Request, Label, Version, StampInv, AnswerIsFresh
  <1>5. PingInv'
    BY <1>0 DEF EnsureCall, TypeOK, HolderInv, SlotIsFree, BoxInv,
        PingInv, InFlight, FenceHolds
  <1> QED BY <1>1, <1>2, <1>3, <1>4, <1>5 DEF EInv

LEMMA StepStopCall ==
  ASSUME EInv, NEW c \in Caller, StopCall(c)
  PROVE  EInv'
  <1>0. TypeOK /\ HolderInv /\ BoxInv /\ StampInv /\ PingInv BY DEF EInv
  <1>1. TypeOK'
    BY <1>0 DEF StopCall, TypeOK, Request, Label, Version, HolderInv
  <1>2. HolderInv'
    BY <1>0 DEF StopCall, TypeOK, HolderInv, SlotIsFree, BoxInv
  <1>3. BoxInv'
    BY <1>0 DEF StopCall, TypeOK, HolderInv, SlotIsFree, BoxInv
  <1>4. StampInv'
    BY <1>0 DEF StopCall, TypeOK, HolderInv, SlotIsFree, BoxInv,
        Request, Label, Version, StampInv, AnswerIsFresh
  <1>5. PingInv'
    BY <1>0 DEF StopCall, TypeOK, HolderInv, SlotIsFree, BoxInv,
        PingInv, InFlight, FenceHolds
  <1> QED BY <1>1, <1>2, <1>3, <1>4, <1>5 DEF EInv

LEMMA StepLock ==
  ASSUME EInv, NEW c \in Caller, Lock(c)
  PROVE  EInv'
  <1>0. TypeOK /\ HolderInv /\ BoxInv /\ StampInv /\ PingInv BY DEF EInv
  <1>1. TypeOK'
    BY <1>0 DEF Lock, MayLock, TypeOK, Request, Label, Version, HolderInv
  <1>2. HolderInv'
    BY <1>0 DEF Lock, MayLock, TypeOK, HolderInv, SlotIsFree, BoxInv
  <1>3. BoxInv'
    BY <1>0 DEF Lock, MayLock, TypeOK, HolderInv, SlotIsFree, BoxInv
  <1>4. StampInv'
    BY <1>0 DEF Lock, MayLock, TypeOK, HolderInv, SlotIsFree, BoxInv,
        Request, Label, Version, StampInv, AnswerIsFresh
  <1>5. PingInv'
    BY <1>0 DEF Lock, MayLock, TypeOK, HolderInv, SlotIsFree, BoxInv,
        PingInv, InFlight, FenceHolds
  <1> QED BY <1>1, <1>2, <1>3, <1>4, <1>5 DEF EInv

LEMMA StepReuse ==
  ASSUME EInv, NEW c \in Caller, Reuse(c)
  PROVE  EInv'
  <1>0. TypeOK /\ HolderInv /\ BoxInv /\ StampInv /\ PingInv BY DEF EInv
  <1>1. TypeOK'
    BY <1>0 DEF Reuse, CanReuse, Touch, TypeOK, Request, Label, Version, HolderInv
  <1>2. HolderInv'
    BY <1>0 DEF Reuse, CanReuse, Touch, TypeOK, HolderInv, SlotIsFree, BoxInv
  <1>3. BoxInv'
    BY <1>0 DEF Reuse, CanReuse, Touch, TypeOK, HolderInv, SlotIsFree, BoxInv
  <1>4. StampInv'
    BY <1>0 DEF Reuse, CanReuse, Touch, TypeOK, HolderInv, SlotIsFree, BoxInv,
        Request, Label, Version, StampInv, AnswerIsFresh
  <1>5. PingInv'
    BY <1>0 DEF Reuse, CanReuse, Touch, TypeOK, HolderInv, SlotIsFree, BoxInv,
        PingInv, InFlight, FenceHolds
  <1> QED BY <1>1, <1>2, <1>3, <1>4, <1>5 DEF EInv

LEMMA StepTake ==
  ASSUME EInv, NEW c \in Caller, Take(c)
  PROVE  EInv'
  <1>0. TypeOK /\ HolderInv /\ BoxInv /\ StampInv /\ PingInv BY DEF EInv
  <1>1. TypeOK'
    BY <1>0 DEF Take, TakeService, TypeOK, Request, Label, Version, HolderInv
  <1>2. HolderInv'
    BY <1>0 DEF Take, TakeService, TypeOK, HolderInv, SlotIsFree, BoxInv
  <1>3. BoxInv'
    BY <1>0 DEF Take, TakeService, TypeOK, HolderInv, SlotIsFree, BoxInv
  <1>4. StampInv'
    BY <1>0 DEF Take, TakeService, TypeOK, HolderInv, SlotIsFree, BoxInv,
        Request, Label, Version, StampInv, AnswerIsFresh
  <1>5. PingInv'
    BY <1>0 DEF Take, TakeService, TypeOK, HolderInv, SlotIsFree, BoxInv,
        PingInv, InFlight, FenceHolds
  <1> QED BY <1>1, <1>2, <1>3, <1>4, <1>5 DEF EInv

LEMMA StepClosed ==
  ASSUME EInv, NEW c \in Caller, Closed(c)
  PROVE  EInv'
  <1>0. TypeOK /\ HolderInv /\ BoxInv /\ StampInv /\ PingInv BY DEF EInv
  <1>1. TypeOK'
    BY <1>0 DEF Closed, TypeOK, Request, Label, Version, HolderInv
  <1>2. HolderInv'
    BY <1>0 DEF Closed, TypeOK, HolderInv, SlotIsFree, BoxInv
  <1>3. BoxInv'
    BY <1>0 DEF Closed, TypeOK, HolderInv, SlotIsFree, BoxInv
  <1>4. StampInv'
    BY <1>0 DEF Closed, TypeOK, HolderInv, SlotIsFree, BoxInv,
        Request, Label, Version, StampInv, AnswerIsFresh
  <1>5. PingInv'
    BY <1>0 DEF Closed, TypeOK, HolderInv, SlotIsFree, BoxInv,
        PingInv, InFlight, FenceHolds
  <1> QED BY <1>1, <1>2, <1>3, <1>4, <1>5 DEF EInv

LEMMA StepBuildConfig ==
  ASSUME EInv, NEW c \in Caller, BuildConfig(c)
  PROVE  EInv'
  <1>0. TypeOK /\ HolderInv /\ BoxInv /\ StampInv /\ PingInv BY DEF EInv
  <1>1. TypeOK'
    BY <1>0 DEF BuildConfig, TypeOK, Request, Label, Version, HolderInv
  <1>2. HolderInv'
    BY <1>0 DEF BuildConfig, TypeOK, HolderInv, SlotIsFree, BoxInv
  <1>3. BoxInv'
    BY <1>0 DEF BuildConfig, TypeOK, HolderInv, SlotIsFree, BoxInv
  <1>4. StampInv'
    BY <1>0 DEF BuildConfig, TypeOK, HolderInv, SlotIsFree, BoxInv,
        Request, Label, Version, StampInv, AnswerIsFresh
  <1>5. PingInv'
    BY <1>0 DEF BuildConfig, TypeOK, HolderInv, SlotIsFree, BoxInv,
        PingInv, InFlight, FenceHolds
  <1> QED BY <1>1, <1>2, <1>3, <1>4, <1>5 DEF EInv

LEMMA StepBuildFails ==
  ASSUME EInv, NEW c \in Caller, BuildFails(c)
  PROVE  EInv'
  <1>0. TypeOK /\ HolderInv /\ BoxInv /\ StampInv /\ PingInv BY DEF EInv
  <1>1. TypeOK'
    BY <1>0 DEF BuildFails, TypeOK, Request, Label, Version, HolderInv
  <1>2. HolderInv'
    BY <1>0 DEF BuildFails, TypeOK, HolderInv, SlotIsFree, BoxInv
  <1>3. BoxInv'
    BY <1>0 DEF BuildFails, TypeOK, HolderInv, SlotIsFree, BoxInv
  <1>4. StampInv'
    BY <1>0 DEF BuildFails, TypeOK, HolderInv, SlotIsFree, BoxInv,
        Request, Label, Version, StampInv, AnswerIsFresh
  <1>5. PingInv'
    BY <1>0 DEF BuildFails, TypeOK, HolderInv, SlotIsFree, BoxInv,
        PingInv, InFlight, FenceHolds
  <1> QED BY <1>1, <1>2, <1>3, <1>4, <1>5 DEF EInv

LEMMA StepStartSide ==
  ASSUME EInv, NEW c \in Caller, NEW b \in Box, StartSide(c, b)
  PROVE  EInv'
  <1>0. TypeOK /\ HolderInv /\ BoxInv /\ StampInv /\ PingInv BY DEF EInv
  <1>1. TypeOK'
    BY <1>0 DEF StartSide, TypeOK, Request, Label, Version, HolderInv
  <1>2. HolderInv'
    BY <1>0 DEF StartSide, TypeOK, HolderInv, SlotIsFree, BoxInv
  <1>3. BoxInv'
    <2>1. req[c] \in Request /\ got[c] \in Version
      BY <1>0 DEF StartSide, TypeOK, HolderInv
    <2>2. label'[b] \in Label /\ label'[b] # None
      BY <1>0, <2>1 DEF StartSide, TypeOK, Request, Label
    <2> QED BY <1>0, <2>2 DEF StartSide, TypeOK, HolderInv, SlotIsFree, BoxInv
  <1>4. StampInv'
    BY <1>0 DEF StartSide, TypeOK, HolderInv, SlotIsFree, BoxInv,
        Request, Label, Version, StampInv, AnswerIsFresh
  <1>5. PingInv'
    BY <1>0 DEF StartSide, TypeOK, HolderInv, SlotIsFree, BoxInv,
        PingInv, InFlight, FenceHolds
  <1> QED BY <1>1, <1>2, <1>3, <1>4, <1>5 DEF EInv

LEMMA StepStartFails ==
  ASSUME EInv, NEW c \in Caller, StartFails(c)
  PROVE  EInv'
  <1>0. TypeOK /\ HolderInv /\ BoxInv /\ StampInv /\ PingInv BY DEF EInv
  <1>1. TypeOK'
    BY <1>0 DEF StartFails, TryAgain, Answer, TypeOK, Request, Label, Version, HolderInv
  <1>2. HolderInv'
    BY <1>0 DEF StartFails, TryAgain, Answer, TypeOK, HolderInv, SlotIsFree, BoxInv
  <1>3. BoxInv'
    BY <1>0 DEF StartFails, TryAgain, Answer, TypeOK, HolderInv, SlotIsFree, BoxInv
  <1>4. StampInv'
    BY <1>0 DEF StartFails, TryAgain, Answer, TypeOK, HolderInv, SlotIsFree, BoxInv,
        Request, Label, Version, StampInv, AnswerIsFresh
  <1>5. PingInv'
    BY <1>0 DEF StartFails, TryAgain, Answer, TypeOK, HolderInv, SlotIsFree, BoxInv,
        PingInv, InFlight, FenceHolds
  <1> QED BY <1>1, <1>2, <1>3, <1>4, <1>5 DEF EInv

LEMMA StepNoPort ==
  ASSUME EInv, NEW c \in Caller, NoPort(c)
  PROVE  EInv'
  <1>0. TypeOK /\ HolderInv /\ BoxInv /\ StampInv /\ PingInv BY DEF EInv
  <1>1. TypeOK'
    BY <1>0 DEF NoPort, Discard, TryAgain, Answer, TypeOK, Request, Label, Version, HolderInv
  <1>2. HolderInv'
    BY <1>0 DEF NoPort, Discard, TryAgain, Answer, TypeOK, HolderInv, SlotIsFree, BoxInv
  <1>3. BoxInv'
    BY <1>0 DEF NoPort, Discard, TryAgain, Answer, TypeOK, HolderInv, SlotIsFree, BoxInv
  <1>4. StampInv'
    BY <1>0 DEF NoPort, Discard, TryAgain, Answer, TypeOK, HolderInv, SlotIsFree, BoxInv,
        Request, Label, Version, StampInv, AnswerIsFresh
  <1>5. PingInv'
    BY <1>0 DEF NoPort, Discard, TryAgain, Answer, TypeOK, HolderInv, SlotIsFree, BoxInv,
        PingInv, InFlight, FenceHolds
  <1> QED BY <1>1, <1>2, <1>3, <1>4, <1>5 DEF EInv

LEMMA StepInstall ==
  ASSUME EInv, NEW c \in Caller, Install(c)
  PROVE  EInv'
  <1>0. TypeOK /\ HolderInv /\ BoxInv /\ StampInv /\ PingInv BY DEF EInv
  <1>1. TypeOK'
    <2>1. CASE service = None
      <3>1. held[c] \in Box BY <1>0 DEF Install, TypeOK, HolderInv
      <3>2. service' \in Box \cup {None} /\ phase' \in [Box -> {"unused", "starting", "up", "taken", "waiting", "closed"}]
        BY <1>0, <2>1, <3>1 DEF Install, TypeOK
      <3>3. armed' \in BOOLEAN /\ stale' \in BOOLEAN /\ fired' = fired
        BY <2>1, Zenon DEF Install, Touch
      <3>4. 0 \in Version /\ 0 \in 0..MaxTries - 1 BY DEF Version
      <3>5. got' \in [Caller -> Version] /\ tries' \in [Caller -> 0..MaxTries - 1] /\ pc' \in [Caller -> Places]
        BY <1>0, <3>4 DEF Install, Answer, TypeOK
      <3> QED BY <1>0, <2>1, <3>2, <3>3, <3>5 DEF Install, TypeOK
    <2>2. CASE service # None
      BY <1>0, <2>2 DEF Install, Answer, Touch, Discard, TypeOK, Request, Label, Version, HolderInv
    <2> QED BY <2>1, <2>2
  <1>2. HolderInv'
    BY <1>0 DEF Install, Discard, Answer, Touch, TypeOK, HolderInv, SlotIsFree, BoxInv
  <1>3. BoxInv'
    BY <1>0 DEF Install, Discard, Answer, Touch, TypeOK, HolderInv, SlotIsFree, BoxInv
  <1>4. StampInv'
    <2>1. CASE service = None
      BY <1>0, <2>1 DEF Install, Answer, Touch, Discard, TypeOK, HolderInv, SlotIsFree, BoxInv,
          Request, Label, Version, StampInv, AnswerIsFresh
    <2>2. CASE service # None
      BY <1>0, <2>2 DEF Install, Answer, Touch, Discard, TypeOK, HolderInv, SlotIsFree, BoxInv,
          Request, Label, Version, StampInv, AnswerIsFresh
    <2> QED BY <2>1, <2>2
  <1>5. PingInv'
    BY <1>0 DEF Install, Discard, Answer, Touch, TypeOK, HolderInv, SlotIsFree, BoxInv,
        PingInv, InFlight, FenceHolds
  <1> QED BY <1>1, <1>2, <1>3, <1>4, <1>5 DEF EInv

LEMMA StepReply ==
  ASSUME EInv, NEW c \in Caller, Reply(c)
  PROVE  EInv'
  <1>0. TypeOK /\ HolderInv /\ BoxInv /\ StampInv /\ PingInv BY DEF EInv
  <1>1. TypeOK'
    BY <1>0 DEF Reply, TypeOK, Request, Label, Version, HolderInv
  <1>2. HolderInv'
    BY <1>0 DEF Reply, TypeOK, HolderInv, SlotIsFree, BoxInv
  <1>3. BoxInv'
    BY <1>0 DEF Reply, TypeOK, HolderInv, SlotIsFree, BoxInv
  <1>4. StampInv'
    BY <1>0 DEF Reply, TypeOK, HolderInv, SlotIsFree, BoxInv,
        Request, Label, Version, StampInv, AnswerIsFresh
  <1>5. PingInv'
    BY <1>0 DEF Reply, TypeOK, HolderInv, SlotIsFree, BoxInv,
        PingInv, InFlight, FenceHolds
  <1> QED BY <1>1, <1>2, <1>3, <1>4, <1>5 DEF EInv

LEMMA StepSpawnWait ==
  ASSUME EInv, NEW b \in Box, SpawnWait(b)
  PROVE  EInv'
  <1>0. TypeOK /\ HolderInv /\ BoxInv /\ StampInv /\ PingInv BY DEF EInv
  <1>1. TypeOK'
    BY <1>0 DEF SpawnWait, TypeOK, Request, Label, Version, HolderInv
  <1>2. HolderInv'
    BY <1>0 DEF SpawnWait, TypeOK, HolderInv, SlotIsFree, BoxInv
  <1>3. BoxInv'
    BY <1>0 DEF SpawnWait, TypeOK, HolderInv, SlotIsFree, BoxInv
  <1>4. StampInv'
    BY <1>0 DEF SpawnWait, TypeOK, HolderInv, SlotIsFree, BoxInv,
        Request, Label, Version, StampInv, AnswerIsFresh
  <1>5. PingInv'
    BY <1>0 DEF SpawnWait, TypeOK, HolderInv, SlotIsFree, BoxInv,
        PingInv, InFlight, FenceHolds
  <1> QED BY <1>1, <1>2, <1>3, <1>4, <1>5 DEF EInv

LEMMA StepWaitReturns ==
  ASSUME EInv, NEW b \in Box, WaitReturns(b)
  PROVE  EInv'
  <1>0. TypeOK /\ HolderInv /\ BoxInv /\ StampInv /\ PingInv BY DEF EInv
  <1>1. TypeOK'
    BY <1>0 DEF WaitReturns, TypeOK, Request, Label, Version, HolderInv
  <1>2. HolderInv'
    BY <1>0 DEF WaitReturns, TypeOK, HolderInv, SlotIsFree, BoxInv
  <1>3. BoxInv'
    BY <1>0 DEF WaitReturns, TypeOK, HolderInv, SlotIsFree, BoxInv
  <1>4. StampInv'
    BY <1>0 DEF WaitReturns, TypeOK, HolderInv, SlotIsFree, BoxInv,
        Request, Label, Version, StampInv, AnswerIsFresh
  <1>5. PingInv'
    BY <1>0 DEF WaitReturns, TypeOK, HolderInv, SlotIsFree, BoxInv,
        PingInv, InFlight, FenceHolds
  <1> QED BY <1>1, <1>2, <1>3, <1>4, <1>5 DEF EInv

LEMMA StepBudgetExpires ==
  ASSUME EInv, NEW b \in Box, BudgetExpires(b)
  PROVE  EInv'
  <1>0. TypeOK /\ HolderInv /\ BoxInv /\ StampInv /\ PingInv BY DEF EInv
  <1>1. TypeOK'
    BY <1>0 DEF BudgetExpires, TypeOK, Request, Label, Version, HolderInv
  <1>2. HolderInv'
    BY <1>0 DEF BudgetExpires, TypeOK, HolderInv, SlotIsFree, BoxInv
  <1>3. BoxInv'
    BY <1>0 DEF BudgetExpires, TypeOK, HolderInv, SlotIsFree, BoxInv
  <1>4. StampInv'
    BY <1>0 DEF BudgetExpires, TypeOK, HolderInv, SlotIsFree, BoxInv,
        Request, Label, Version, StampInv, AnswerIsFresh
  <1>5. PingInv'
    BY <1>0 DEF BudgetExpires, TypeOK, HolderInv, SlotIsFree, BoxInv,
        PingInv, InFlight, FenceHolds
  <1> QED BY <1>1, <1>2, <1>3, <1>4, <1>5 DEF EInv

LEMMA StepCloseService ==
  ASSUME EInv, NEW b \in Box, CloseService(b)
  PROVE  EInv'
  <1>0. TypeOK /\ HolderInv /\ BoxInv /\ StampInv /\ PingInv BY DEF EInv
  <1>1. TypeOK'
    BY <1>0 DEF CloseService, WaitOver, TypeOK, Request, Label, Version, HolderInv
  <1>2. HolderInv'
    BY <1>0 DEF CloseService, WaitOver, TypeOK, HolderInv, SlotIsFree, BoxInv
  <1>3. BoxInv'
    BY <1>0 DEF CloseService, WaitOver, TypeOK, HolderInv, SlotIsFree, BoxInv
  <1>4. StampInv'
    BY <1>0 DEF CloseService, WaitOver, TypeOK, HolderInv, SlotIsFree, BoxInv,
        Request, Label, Version, StampInv, AnswerIsFresh
  <1>5. PingInv'
    BY <1>0 DEF CloseService, WaitOver, TypeOK, HolderInv, SlotIsFree, BoxInv,
        PingInv, InFlight, FenceHolds
  <1> QED BY <1>1, <1>2, <1>3, <1>4, <1>5 DEF EInv

LEMMA StepTimePasses ==
  ASSUME EInv, TimePasses
  PROVE  EInv'
  <1>0. TypeOK /\ HolderInv /\ BoxInv /\ StampInv /\ PingInv BY DEF EInv
  <1>1. TypeOK'
    BY <1>0 DEF TimePasses, TypeOK, Request, Label, Version, HolderInv
  <1>2. HolderInv'
    BY <1>0 DEF TimePasses, TypeOK, HolderInv, SlotIsFree, BoxInv
  <1>3. BoxInv'
    BY <1>0 DEF TimePasses, TypeOK, HolderInv, SlotIsFree, BoxInv
  <1>4. StampInv'
    BY <1>0 DEF TimePasses, TypeOK, HolderInv, SlotIsFree, BoxInv,
        Request, Label, Version, StampInv, AnswerIsFresh
  <1>5. PingInv'
    BY <1>0 DEF TimePasses, TypeOK, HolderInv, SlotIsFree, BoxInv,
        PingInv, InFlight, FenceHolds
  <1> QED BY <1>1, <1>2, <1>3, <1>4, <1>5 DEF EInv

LEMMA StepTimerFires ==
  ASSUME EInv, TimerFires
  PROVE  EInv'
  <1>0. TypeOK /\ HolderInv /\ BoxInv /\ StampInv /\ PingInv BY DEF EInv
  <1>1. TypeOK'
    <2>1. fired \in Nat BY <1>0 DEF TypeOK
    <2>2. fired' \in Nat BY <2>1 DEF TimerFires
    <2>3. armed' \in BOOLEAN /\ stale' \in BOOLEAN
      BY <1>0, Zenon DEF TimerFires, TypeOK
    <2>4. service' \in Box \cup {None} /\ idled' \in SUBSET Box /\ label' = label
      BY <1>0 DEF TimerFires, TypeOK
    <2>5. phase' \in [Box -> {"unused", "starting", "up", "taken", "waiting", "closed"}]
      BY <1>0 DEF TimerFires, TypeOK
    <2> QED BY <1>0, <2>2, <2>3, <2>4, <2>5 DEF TimerFires, TypeOK
  <1>2. HolderInv'
    BY <1>0 DEF TimerFires, TypeOK, HolderInv, SlotIsFree, BoxInv
  <1>3. BoxInv'
    BY <1>0 DEF TimerFires, TypeOK, HolderInv, SlotIsFree, BoxInv
  <1>4. StampInv'
    BY <1>0 DEF TimerFires, TypeOK, HolderInv, SlotIsFree, BoxInv,
        Request, Label, Version, StampInv, AnswerIsFresh
  <1>5. PingInv'
    BY <1>0 DEF TimerFires, TypeOK, HolderInv, SlotIsFree, BoxInv,
        PingInv, InFlight, FenceHolds
  <1> QED BY <1>1, <1>2, <1>3, <1>4, <1>5 DEF EInv

LEMMA StepWatch ==
  ASSUME EInv, Watch
  PROVE  EInv'
  <1>0. TypeOK /\ HolderInv /\ BoxInv /\ StampInv /\ PingInv BY DEF EInv
  <1>1. TypeOK'
    <2>1. fired \in Nat BY <1>0 DEF TypeOK
    <2>2. fired' \in Nat BY <2>1 DEF Watch
    <2>3. armed' \in BOOLEAN /\ stale' \in BOOLEAN
      BY <1>0, Zenon DEF Watch, TakeService, TypeOK
    <2>4. service' \in Box \cup {None} /\ idled' \in SUBSET Box /\ label' = label
      BY <1>0 DEF Watch, TakeService, TypeOK
    <2>5. phase' \in [Box -> {"unused", "starting", "up", "taken", "waiting", "closed"}]
      BY <1>0 DEF Watch, TakeService, TypeOK
    <2> QED BY <1>0, <2>2, <2>3, <2>4, <2>5 DEF Watch, TypeOK
  <1>2. HolderInv'
    BY <1>0 DEF Watch, TakeService, TypeOK, HolderInv, SlotIsFree, BoxInv
  <1>3. BoxInv'
    BY <1>0 DEF Watch, TakeService, TypeOK, HolderInv, SlotIsFree, BoxInv
  <1>4. StampInv'
    BY <1>0 DEF Watch, TakeService, TypeOK, HolderInv, SlotIsFree, BoxInv,
        Request, Label, Version, StampInv, AnswerIsFresh
  <1>5. PingInv'
    BY <1>0 DEF Watch, TakeService, TypeOK, HolderInv, SlotIsFree, BoxInv,
        PingInv, InFlight, FenceHolds
  <1> QED BY <1>1, <1>2, <1>3, <1>4, <1>5 DEF EInv

LEMMA StepPingCall ==
  ASSUME EInv, NEW q \in Pinger, PingCall(q)
  PROVE  EInv'
  <1>0. TypeOK /\ HolderInv /\ BoxInv /\ StampInv /\ PingInv BY DEF EInv
  <1>1. TypeOK'
    BY <1>0 DEF PingCall, Touch, TypeOK, Request, Label, Version, HolderInv
  <1>2. HolderInv'
    BY <1>0 DEF PingCall, Touch, TypeOK, HolderInv, SlotIsFree, BoxInv
  <1>3. BoxInv'
    BY <1>0 DEF PingCall, Touch, TypeOK, HolderInv, SlotIsFree, BoxInv
  <1>4. StampInv'
    BY <1>0 DEF PingCall, Touch, TypeOK, HolderInv, SlotIsFree, BoxInv,
        Request, Label, Version, StampInv, AnswerIsFresh
  <1>5. PingInv'
    BY <1>0 DEF PingCall, Touch, TypeOK, HolderInv, SlotIsFree, BoxInv,
        PingInv, InFlight, FenceHolds
  <1> QED BY <1>1, <1>2, <1>3, <1>4, <1>5 DEF EInv

LEMMA StepPingBegins ==
  ASSUME EInv, NEW q \in Pinger, PingBegins(q)
  PROVE  EInv'
  <1>0. TypeOK /\ HolderInv /\ BoxInv /\ StampInv /\ PingInv BY DEF EInv
  <1>1. TypeOK'
    BY <1>0 DEF PingBegins, TypeOK, Request, Label, Version, HolderInv
  <1>2. HolderInv'
    BY <1>0 DEF PingBegins, TypeOK, HolderInv, SlotIsFree, BoxInv
  <1>3. BoxInv'
    BY <1>0 DEF PingBegins, TypeOK, HolderInv, SlotIsFree, BoxInv
  <1>4. StampInv'
    BY <1>0 DEF PingBegins, TypeOK, HolderInv, SlotIsFree, BoxInv,
        Request, Label, Version, StampInv, AnswerIsFresh
  <1>5. PingInv'
    BY <1>0 DEF PingBegins, TypeOK, HolderInv, SlotIsFree, BoxInv,
        PingInv, InFlight, FenceHolds
  <1> QED BY <1>1, <1>2, <1>3, <1>4, <1>5 DEF EInv

LEMMA StepProbeEnds ==
  ASSUME EInv, NEW q \in Pinger, ProbeEnds(q)
  PROVE  EInv'
  <1>0. TypeOK /\ HolderInv /\ BoxInv /\ StampInv /\ PingInv BY DEF EInv
  <1>1. TypeOK'
    BY <1>0 DEF ProbeEnds, Touch, TypeOK, Request, Label, Version, HolderInv
  <1>2. HolderInv'
    BY <1>0 DEF ProbeEnds, Touch, TypeOK, HolderInv, SlotIsFree, BoxInv
  <1>3. BoxInv'
    BY <1>0 DEF ProbeEnds, Touch, TypeOK, HolderInv, SlotIsFree, BoxInv
  <1>4. StampInv'
    BY <1>0 DEF ProbeEnds, Touch, TypeOK, HolderInv, SlotIsFree, BoxInv,
        Request, Label, Version, StampInv, AnswerIsFresh
  <1>5. PingInv'
    BY <1>0 DEF ProbeEnds, Touch, TypeOK, HolderInv, SlotIsFree, BoxInv,
        PingInv, InFlight, FenceHolds
  <1> QED BY <1>1, <1>2, <1>3, <1>4, <1>5 DEF EInv

LEMMA StepPingDone ==
  ASSUME EInv, NEW q \in Pinger, PingDone(q)
  PROVE  EInv'
  <1>0. TypeOK /\ HolderInv /\ BoxInv /\ StampInv /\ PingInv BY DEF EInv
  <1>1. TypeOK'
    BY <1>0 DEF PingDone, TypeOK, Request, Label, Version, HolderInv
  <1>2. HolderInv'
    BY <1>0 DEF PingDone, TypeOK, HolderInv, SlotIsFree, BoxInv
  <1>3. BoxInv'
    BY <1>0 DEF PingDone, TypeOK, HolderInv, SlotIsFree, BoxInv
  <1>4. StampInv'
    BY <1>0 DEF PingDone, TypeOK, HolderInv, SlotIsFree, BoxInv,
        Request, Label, Version, StampInv, AnswerIsFresh
  <1>5. PingInv'
    BY <1>0 DEF PingDone, TypeOK, HolderInv, SlotIsFree, BoxInv,
        PingInv, InFlight, FenceHolds
  <1> QED BY <1>1, <1>2, <1>3, <1>4, <1>5 DEF EInv

LEMMA EStep == EInv /\ [Next]_vars => EInv'
  <1> SUFFICES ASSUME EInv, [Next]_vars PROVE EInv' OBVIOUS
  <1>1. ASSUME NEW p \in Profile, ConfigChanges(p) PROVE EInv'
    BY <1>1, StepConfigChanges
  <1>2. ASSUME NEW c \in Caller, NEW p \in Profile, EnsureCall(c, p) PROVE EInv'
    BY <1>2, StepEnsureCall
  <1>3. ASSUME NEW c \in Caller, StopCall(c) PROVE EInv'
    BY <1>3, StepStopCall
  <1>4. ASSUME NEW c \in Caller, Lock(c) PROVE EInv'
    BY <1>4, StepLock
  <1>5. ASSUME NEW c \in Caller, Reuse(c) PROVE EInv'
    BY <1>5, StepReuse
  <1>6. ASSUME NEW c \in Caller, Take(c) PROVE EInv'
    BY <1>6, StepTake
  <1>7. ASSUME NEW c \in Caller, Closed(c) PROVE EInv'
    BY <1>7, StepClosed
  <1>8. ASSUME NEW c \in Caller, BuildConfig(c) PROVE EInv'
    BY <1>8, StepBuildConfig
  <1>9. ASSUME NEW c \in Caller, BuildFails(c) PROVE EInv'
    BY <1>9, StepBuildFails
  <1>10. ASSUME NEW c \in Caller, NEW b \in Box, StartSide(c, b) PROVE EInv'
    BY <1>10, StepStartSide
  <1>11. ASSUME NEW c \in Caller, StartFails(c) PROVE EInv'
    BY <1>11, StepStartFails
  <1>12. ASSUME NEW c \in Caller, NoPort(c) PROVE EInv'
    BY <1>12, StepNoPort
  <1>13. ASSUME NEW c \in Caller, Install(c) PROVE EInv'
    BY <1>13, StepInstall
  <1>14. ASSUME NEW c \in Caller, Reply(c) PROVE EInv'
    BY <1>14, StepReply
  <1>15. ASSUME NEW b \in Box, SpawnWait(b) PROVE EInv'
    BY <1>15, StepSpawnWait
  <1>16. ASSUME NEW b \in Box, WaitReturns(b) PROVE EInv'
    BY <1>16, StepWaitReturns
  <1>17. ASSUME NEW b \in Box, BudgetExpires(b) PROVE EInv'
    BY <1>17, StepBudgetExpires
  <1>18. ASSUME NEW b \in Box, CloseService(b) PROVE EInv'
    BY <1>18, StepCloseService
  <1>19. ASSUME TimePasses PROVE EInv'
    BY <1>19, StepTimePasses
  <1>20. ASSUME TimerFires PROVE EInv'
    BY <1>20, StepTimerFires
  <1>21. ASSUME Watch PROVE EInv'
    BY <1>21, StepWatch
  <1>22. ASSUME NEW q \in Pinger, PingCall(q) PROVE EInv'
    BY <1>22, StepPingCall
  <1>23. ASSUME NEW q \in Pinger, PingBegins(q) PROVE EInv'
    BY <1>23, StepPingBegins
  <1>24. ASSUME NEW q \in Pinger, ProbeEnds(q) PROVE EInv'
    BY <1>24, StepProbeEnds
  <1>25. ASSUME NEW q \in Pinger, PingDone(q) PROVE EInv'
    BY <1>25, StepPingDone
  <1>26. ASSUME UNCHANGED vars PROVE EInv'
    BY <1>26, SMTT(60)
      DEF vars, EInv, TypeOK, HolderInv, SlotIsFree, BoxInv, StampInv, AnswerIsFresh,
          PingInv, InFlight, FenceHolds
  <1> QED BY <1>1, <1>2, <1>3, <1>4, <1>5, <1>6, <1>7, <1>8, <1>9, <1>10, <1>11, <1>12, <1>13, <1>14, <1>15, <1>16, <1>17, <1>18, <1>19, <1>20, <1>21, <1>22, <1>23, <1>24, <1>25, <1>26
    DEF Next, Serve, TearDown, Timer

(* The invariant of the side box: who holds opMu, where every live box is,  *)
(* how stamps and contents relate, and what a counted ping may meet.        *)
THEOREM EngineInvariant == SafetySpec => []EInv
  BY EInit, EStep, PTL DEF SafetySpec

(* Between takeServiceLocked and the install of engine.go:256 nobody else   *)
(* fills the slot: opMu serialises Ensure and Stop.                         *)
THEOREM EngineSlotIsFree == SafetySpec => []SlotIsFree
  <1>1. EInv => SlotIsFree BY DEF EInv, HolderInv
  <1> QED BY <1>1, EngineInvariant, PTL

(* A side box that lives is in the slot, in the hands of the holder of opMu *)
(* or with the watcher that closes it, on every error path of Ensure.       *)
THEOREM EngineNoBoxLost == SafetySpec => []NoBoxLost
  <1>1. EInv => NoBoxLost BY DEF EInv, TypeOK, BoxInv, NoBoxLost
  <1> QED BY <1>1, EngineInvariant, PTL

(* closeSideService closes a box under a running probe only after it spent  *)
(* closeWaitBudget.                                                         *)
THEOREM EngineNoProbeOnClosedBox == SafetySpec => []NoProbeOnClosedBox
  <1>1. EInv => NoProbeOnClosedBox BY DEF EInv, PingInv, NoProbeOnClosedBox
  <1> QED BY <1>1, EngineInvariant, PTL

(* The Wait of a box that Ensure or Stop took out, within its budget, never *)
(* returns to a counter that was raised again.                              *)
THEOREM EngineFenceHolds == SafetySpec => []FenceHolds
  <1>1. EInv => FenceHolds BY DEF EInv, PingInv
  <1> QED BY <1>1, EngineInvariant, PTL

(* Ensure answers with a box whose configuration is at least as new as the  *)
(* file was when it was called.                                             *)
THEOREM EngineAnswerIsFresh == SafetySpec => []AnswerIsFresh
  <1>1. EInv => AnswerIsFresh BY DEF EInv, StampInv
  <1> QED BY <1>1, EngineInvariant, PTL
=============================================================================
