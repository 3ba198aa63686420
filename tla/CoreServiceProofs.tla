-------------------------- MODULE CoreServiceProofs --------------------------
(***************************************************************************)
(* Proofs about CoreService, for any number of goroutines, boxes and modes  *)
(* and any set of faults.  The paths that write static past static.lock are *)
(* among the steps; what they end is excepted by name, in `overruled`.      *)
(***************************************************************************)
EXTENDS CoreServiceProps, TLAPS

(***************************************************************************)
(* What the shared helpers preserve                                         *)
(***************************************************************************)

LEMMA GoToType ==
  ASSUME NEW p \in Proc, NEW place \in Places, GoTo(p, place), TypeOK
  PROVE  pc' \in [Proc -> Places] /\ after' \in [Proc -> Continuations]
BY DEF GoTo, Continuations, TypeOK

LEMMA ReturnType ==
  ASSUME NEW p \in Proc, NEW place \in Places, Return(p, place), TypeOK
  PROVE  /\ pc' \in [Proc -> Places] /\ after' \in [Proc -> Continuations]
         /\ lock' \in Proc \cup {NoProc}
         /\ held' \in [Proc -> Box \cup {NoBox}]
BY GoToType DEF Return, TypeOK

LEMMA StatusType ==
  ASSUME NEW state \in CoreStates, SetCoreStatus(state), TypeOK
  PROVE  coreState' \in CoreStates /\ startedAt' \in BOOLEAN
BY DEF SetCoreStatus, Stamp, TypeOK

LEMMA DbType ==
  ASSUME CloseDbIfIdle
  PROVE  db' \in BOOLEAN
BY DEF CloseDbIfIdle, ClosedIfIdle

(***************************************************************************)
(* Type correctness of the whole model, the unlocked paths included         *)
(***************************************************************************)

LEMMA RequestType ==
  ASSUME NEW p \in Proc, Request(p), TypeOK
  PROVE  TypeOK'
<1> USE CoreAssumption DEF TypeOK, Places, StartPlaces, StopPlaces, AlertPlaces,
   OtherPlaces
<1>1. CASE Start(p)
  BY <1>1
     DEF Start, static, store, Begin, Continuations
<1>2. CASE Stop(p)
  BY <1>2
     DEF Stop, static, store, Begin, Continuations
<1>3. CASE Restart(p)
  BY <1>3
     DEF Restart, static, store, Begin, Continuations
<1>4. CASE Close(p)
  BY <1>4
     DEF Close, static, store, Begin, Continuations
<1>5. CASE SessionConnect(p)
  BY <1>5
     DEF SessionConnect, static, store, Begin, Continuations
<1>6. CASE SessionReconnect(p)
  BY <1>6
     DEF SessionReconnect, static, store, Begin, Continuations
<1>7. QED
  BY <1>1, <1>2, <1>3, <1>4, <1>5, <1>6 DEF Request

LEMMA AcquireType ==
  ASSUME NEW p \in Proc, Acquire(p), TypeOK
  PROVE  TypeOK'
<1> USE CoreAssumption DEF TypeOK, Places, StartPlaces, StopPlaces, AlertPlaces,
   OtherPlaces
<1>1. CASE StartRefused(p)
  BY <1>1, GoToType
     DEF StartRefused, static, store
<1>2. CASE StartAccepted(p)
  BY <1>2, GoToType, StatusType
     DEF StartAccepted, static, store, CoreStates
<1>3. CASE StopAccepted(p)
  BY <1>3, GoToType, StatusType
     DEF StopAccepted, static, store, CoreStates
<1>4. QED
  BY <1>1, <1>2, <1>3 DEF Acquire

LEMMA StartStepType ==
  ASSUME NEW p \in Proc, StartStep(p), TypeOK
  PROVE  TypeOK'
<1> USE CoreAssumption DEF TypeOK, Places, StartPlaces, StopPlaces, AlertPlaces,
   OtherPlaces
<1>1. CASE BuildConfig(p)
  BY <1>1, GoToType
     DEF BuildConfig, ConfigureMemoryLimit, static, store
<1>2. CASE BuildFails(p)
  BY <1>2, GoToType
     DEF BuildFails, static, store
<1>3. CASE NewService(p)
  BY <1>3, GoToType
     DEF NewService, static, store, FreshBox
<1>4. CASE NewServiceSticky(p)
  BY <1>4, GoToType
     DEF NewServiceSticky, static, store
<1>5. CASE NewServiceFails(p)
  BY <1>5, GoToType
     DEF NewServiceFails, static, store
<1>6. CASE StoreService(p)
  BY <1>6, GoToType
     DEF StoreService, static, store
<1>7. CASE Activate(p)
  BY <1>7, GoToType
     DEF Activate, static, store
<1>8. CASE Started(p)
  BY <1>8, ReturnType, StatusType
     DEF Started, static, store, CoreStates, Continuations, At
<1>9. QED
  BY <1>1, <1>2, <1>3, <1>4, <1>5, <1>6, <1>7, <1>8 DEF StartStep

LEMMA StopStepType ==
  ASSUME NEW p \in Proc, StopStep(p), TypeOK
  PROVE  TypeOK'
<1> USE CoreAssumption DEF TypeOK, Places, StartPlaces, StopPlaces, AlertPlaces,
   OtherPlaces
<1>1. CASE StopNoService(p)
  BY <1>1, ReturnType, StatusType, DbType
     DEF StopNoService, static, store, CoreStates, Continuations, At
<1>2. CASE Deactivate(p)
  BY <1>2, GoToType
     DEF Deactivate, static, store
<1>3. CASE CloseService(p)
  BY <1>3, GoToType
     DEF CloseService, static, store, TearDown, ConfigureMemoryLimit
<1>4. CASE CloseServiceFails(p)
  BY <1>4, GoToType, DbType
     DEF CloseServiceFails, static, store, TearDown, ConfigureMemoryLimit
<1>5. CASE StopIdleDb(p)
  BY <1>5, GoToType, DbType
     DEF StopIdleDb, static, store
<1>6. CASE Stopped(p)
  BY <1>6, ReturnType, StatusType
     DEF Stopped, static, store, CoreStates, Continuations, At
<1>7. QED
  BY <1>1, <1>2, <1>3, <1>4, <1>5, <1>6 DEF StopStep

LEMMA AlertStepType ==
  ASSUME NEW p \in Proc, AlertStep(p), TypeOK
  PROVE  TypeOK'
<1> USE CoreAssumption DEF TypeOK, Places, StartPlaces, StopPlaces, AlertPlaces,
   OtherPlaces
<1>1. CASE Alert(p)
  BY <1>1, GoToType, StatusType
     DEF Alert, static, store, CoreStates
<1>2. CASE AlertDeactivate(p)
  BY <1>2, GoToType
     DEF AlertDeactivate, static, store
<1>3. CASE AlertLoad(p)
  BY <1>3, GoToType
     DEF AlertLoad, static, store
<1>4. CASE AlertClose(p)
  BY <1>4, GoToType
     DEF AlertClose, static, store
<1>5. CASE AlertDb(p)
  BY <1>5, GoToType, DbType
     DEF AlertDb, static, store
<1>6. CASE ErrorReturned(p)
  BY <1>6, ReturnType, StatusType
     DEF ErrorReturned, static, store, CoreStates
<1>7. CASE GuardReturns(p)
  BY <1>7, ReturnType
     DEF GuardReturns, static, store
<1>8. QED
  BY <1>1, <1>2, <1>3, <1>4, <1>5, <1>6, <1>7 DEF AlertStep

LEMMA OtherStepType ==
  ASSUME NEW p \in Proc, OtherStep(p), TypeOK
  PROVE  TypeOK'
<1> USE CoreAssumption DEF TypeOK, Places, StartPlaces, StopPlaces, AlertPlaces,
   OtherPlaces
<1>1. CASE Resolve(p)
  BY <1>1, GoToType
     DEF Resolve, static, store
<1>2. CASE ResolveFails(p)
  BY <1>2, GoToType, StatusType
     DEF ResolveFails, static, store, CoreStates, Overrule
<1>3. CASE SaveSession(p)
  BY <1>3, GoToType
     DEF SaveSession, static, store
<1>4. CASE RestartContinues(p)
  BY <1>4
     DEF RestartContinues, static, store, Continuations
<1>5. CASE RestartCancelled(p)
  BY <1>5, GoToType, StatusType
     DEF RestartCancelled, static, store, CoreStates, Overrule
<1>6. CASE CloseServer(p)
  BY <1>6, GoToType
     DEF CloseServer, static, store
<1>7. CASE CloseServerDb(p)
  BY <1>7, GoToType, DbType
     DEF CloseServerDb, static, store
<1>8. QED
  BY <1>1, <1>2, <1>3, <1>4, <1>5, <1>6, <1>7 DEF OtherStep

LEMMA PanicType ==
  ASSUME NEW p \in Proc, Panic(p), TypeOK
  PROVE  TypeOK'
<1> USE CoreAssumption DEF TypeOK, Places, StartPlaces, StopPlaces, AlertPlaces,
   OtherPlaces, Panicked
<1>1. CASE ParsePanics(p)
  BY <1>1
     DEF ParsePanics, static, store, Continuations
<1>2. CASE StartPanics(p)
  <2>1. db' \in BOOLEAN
    BY <1>2 DEF StartPanics
  <2>2. running' \in SUBSET Box
    BY <1>2 DEF StartPanics, FreshBox
  <2>3. QED
    BY <1>2, <2>1, <2>2, ReturnType DEF StartPanics
<1>3. CASE StopPanics(p)
  BY <1>3, ReturnType
     DEF StopPanics, static, store
<1>4. CASE RestartPanics(p)
  BY <1>4, GoToType
     DEF RestartPanics, static, store
<1>5. CASE ClosePanics(p)
  BY <1>5
     DEF ClosePanics, static, store, Continuations
<1>6. QED
  BY <1>1, <1>2, <1>3, <1>4, <1>5 DEF Panic

LEMMA TypeStep ==
  ASSUME TypeOK, [Next]_vars
  PROVE  TypeOK'
<1>1. ASSUME NEW p \in Proc, Request(p) \/ Proceed(p) \/ Panic(p) PROVE TypeOK'
  BY <1>1, RequestType, AcquireType, StartStepType, StopStepType,
     AlertStepType, OtherStepType, PanicType DEF Proceed
<1>2. ASSUME NEW m \in Mode, Setup(m) PROVE TypeOK'
  BY <1>2 DEF Setup, TypeOK, static
<1>3. CASE UNCHANGED vars
  BY <1>3 DEF vars, TypeOK, static, store
<1>4. QED
  BY <1>1, <1>2, <1>3 DEF Next

(* Type correctness, for every configuration and every set of faults.       *)
THEOREM TypeCorrect == SafetySpec => []TypeOK
<1>1. Init => TypeOK
  BY CoreAssumption DEF Init, TypeOK, Places, OtherPlaces, Continuations, CoreStates
<1>2. QED
  BY <1>1, TypeStep, PTL DEF SafetySpec

(***************************************************************************)
(* The inductive invariant                                                  *)
(***************************************************************************)

Critical == StartPlaces \cup StopPlaces \cup AlertPlaces
PlaceInv(p) == StartInv(p) /\ StopInv(p) /\ AlertInv(p)

(* A step of p that has or finds the lock free leaves every other goroutine *)
(* outside the critical sections, where PlaceInv says nothing.              *)
LEMMA OthersOutside ==
  ASSUME IInv, ~overruled, NEW p \in Proc, lock \in {p, NoProc},
          NEW q \in Proc, q # p, pc'[q] = pc[q], after'[q] = after[q]
  PROVE  PlaceInv(q)' /\ pc'[q] \notin Critical
BY CoreAssumption DEF IInv, PlacesInv, LockInv, PlaceInv, StartInv, StopInv, AlertInv,
   Critical, StartPlaces, StopPlaces, AlertPlaces

LEMMA RequestInv ==
  ASSUME NEW p \in Proc, Request(p), IInv, ~overruled
  PROVE  IInv'
<1> USE CoreAssumption DEF IInv, PlacesInv, LockInv, RestInv, StartInv, StopInv, AlertInv, Up,
   Down, PlaceInv, Critical, StartPlaces, StopPlaces, AlertPlaces, TypeOK
<1>1. TypeOK'
  BY RequestType
<1>2. CASE Start(p)
  BY <1>1, <1>2, OthersOutside DEF Start, static, store, GoTo, At, Begin
<1>3. CASE Stop(p)
  BY <1>1, <1>3, OthersOutside DEF Stop, static, store, GoTo, At, Begin
<1>4. CASE Restart(p)
  BY <1>1, <1>4, OthersOutside DEF Restart, static, store, GoTo, At, Begin
<1>5. CASE Close(p)
  BY <1>1, <1>5, OthersOutside DEF Close, static, store, GoTo, At, Begin
<1>6. CASE SessionConnect(p)
  BY <1>1, <1>6, OthersOutside DEF SessionConnect, static, store, GoTo, At, Begin
<1>7. CASE SessionReconnect(p)
  BY <1>1, <1>7, OthersOutside DEF SessionReconnect, static, store, GoTo, At, Begin
<1>8. QED
  BY <1>1, <1>2, <1>3, <1>4, <1>5, <1>6, <1>7 DEF Request

LEMMA AcquireInv ==
  ASSUME NEW p \in Proc, Acquire(p), IInv, ~overruled
  PROVE  IInv'
<1> USE CoreAssumption DEF IInv, PlacesInv, LockInv, RestInv, StartInv, StopInv, AlertInv, Up,
   Down, PlaceInv, Critical, StartPlaces, StopPlaces, AlertPlaces, TypeOK
<1>1. TypeOK'
  BY AcquireType
<1>2. CASE StartRefused(p)
  BY <1>1, <1>2, OthersOutside DEF StartRefused, static, store, GoTo, At
<1>3. CASE StartAccepted(p)
  BY <1>1, <1>3, OthersOutside DEF StartAccepted, static, store, GoTo, At,
     SetCoreStatus, Stamp, MayStart
<1>4. CASE StopAccepted(p)
  BY <1>1, <1>4, OthersOutside DEF StopAccepted, static, store, GoTo, At,
     SetCoreStatus, Stamp
<1>5. QED
  BY <1>1, <1>2, <1>3, <1>4 DEF Acquire

LEMMA StartStepInv ==
  ASSUME NEW p \in Proc, StartStep(p), IInv, ~overruled
  PROVE  IInv'
<1> USE CoreAssumption DEF IInv, PlacesInv, LockInv, RestInv, StartInv, StopInv, AlertInv, Up,
   Down, PlaceInv, Critical, StartPlaces, StopPlaces, AlertPlaces, TypeOK
<1>1. TypeOK'
  BY StartStepType
<1>2. CASE BuildConfig(p)
  BY <1>1, <1>2, OthersOutside DEF BuildConfig, static, store, GoTo, At
<1>3. CASE BuildFails(p)
  BY <1>1, <1>3, OthersOutside DEF BuildFails, static, store, GoTo, At
<1>4. CASE NewService(p)
  BY <1>1, <1>4, OthersOutside DEF NewService, static, store, GoTo, At, FreshBox
<1>5. CASE NewServiceSticky(p)
  BY <1>1, <1>5, OthersOutside DEF NewServiceSticky, static, store, GoTo, At
<1>6. CASE NewServiceFails(p)
  BY <1>1, <1>6, OthersOutside DEF NewServiceFails, static, store, GoTo, At
<1>7. CASE StoreService(p)
  BY <1>1, <1>7, OthersOutside DEF StoreService, static, store, GoTo, At
<1>8. CASE Activate(p)
  BY <1>1, <1>8, OthersOutside DEF Activate, static, store, GoTo, At
<1>9. CASE Started(p)
  BY <1>1, <1>9, OthersOutside DEF Started, static, store, GoTo, At, Return,
     SetCoreStatus, Stamp, Continuations
<1>10. QED
  BY <1>1, <1>2, <1>3, <1>4, <1>5, <1>6, <1>7, <1>8, <1>9 DEF StartStep

LEMMA StopStepInv ==
  ASSUME NEW p \in Proc, StopStep(p), IInv, ~overruled
  PROVE  IInv'
<1> USE CoreAssumption DEF IInv, PlacesInv, LockInv, RestInv, StartInv, StopInv, AlertInv, Up,
   Down, PlaceInv, Critical, StartPlaces, StopPlaces, AlertPlaces, TypeOK
<1>1. TypeOK'
  BY StopStepType
<1>2. CASE StopNoService(p)
  BY <1>1, <1>2, OthersOutside DEF StopNoService, static, store, GoTo, At, Return,
     SetCoreStatus, Stamp, Continuations
<1>3. CASE Deactivate(p)
  BY <1>1, <1>3, OthersOutside DEF Deactivate, static, store, GoTo, At
<1>4. CASE CloseService(p)
  BY <1>1, <1>4, OthersOutside DEF CloseService, static, store, GoTo, At, TearDown
<1>5. CASE CloseServiceFails(p)
  BY <1>1, <1>5, OthersOutside DEF CloseServiceFails, static, store, GoTo, At, TearDown
<1>6. CASE StopIdleDb(p)
  BY <1>1, <1>6, OthersOutside DEF StopIdleDb, static, store, GoTo, At
<1>7. CASE Stopped(p)
  BY <1>1, <1>7, OthersOutside DEF Stopped, static, store, GoTo, At, Return,
     SetCoreStatus, Stamp, Continuations
<1>8. QED
  BY <1>1, <1>2, <1>3, <1>4, <1>5, <1>6, <1>7 DEF StopStep

LEMMA AlertStepInv ==
  ASSUME NEW p \in Proc, AlertStep(p), IInv, ~overruled
  PROVE  IInv'
<1> USE CoreAssumption DEF IInv, PlacesInv, LockInv, RestInv, StartInv, StopInv, AlertInv, Up,
   Down, PlaceInv, Critical, StartPlaces, StopPlaces, AlertPlaces, TypeOK
<1>1. TypeOK'
  BY AlertStepType
<1>2. CASE Alert(p)
  BY <1>1, <1>2, OthersOutside DEF Alert, static, store, GoTo, At, SetCoreStatus, Stamp
<1>3. CASE AlertDeactivate(p)
  BY <1>1, <1>3, OthersOutside DEF AlertDeactivate, static, store, GoTo, At
<1>4. CASE AlertLoad(p)
  BY <1>1, <1>4, OthersOutside DEF AlertLoad, static, store, GoTo, At
<1>5. CASE AlertClose(p)
  BY <1>1, <1>5, OthersOutside DEF AlertClose, static, store, GoTo, At
<1>6. CASE AlertDb(p)
  BY <1>1, <1>6, OthersOutside DEF AlertDb, static, store, GoTo, At
<1>7. CASE ErrorReturned(p)
  BY <1>1, <1>7, OthersOutside DEF ErrorReturned, static, store, GoTo, At, Return,
     SetCoreStatus, Stamp
<1>8. CASE GuardReturns(p)
  BY <1>1, <1>8, OthersOutside DEF GuardReturns, static, store, GoTo, At, Return
<1>9. QED
  BY <1>1, <1>2, <1>3, <1>4, <1>5, <1>6, <1>7, <1>8 DEF AlertStep

LEMMA OtherStepInv ==
  ASSUME NEW p \in Proc, OtherStep(p), IInv, ~overruled
  PROVE  IInv'
<1> USE CoreAssumption DEF IInv, PlacesInv, LockInv, RestInv, StartInv, StopInv, AlertInv, Up,
   Down, PlaceInv, Critical, StartPlaces, StopPlaces, AlertPlaces, TypeOK
<1>1. TypeOK'
  BY OtherStepType
<1>2. CASE Resolve(p)
  BY <1>1, <1>2, OthersOutside DEF Resolve, static, store, GoTo, At
<1>3. CASE ResolveFails(p)
  BY <1>1, <1>3, OthersOutside DEF ResolveFails, static, store, GoTo, At,
     SetCoreStatus, Stamp, Overrule
<1>4. CASE SaveSession(p)
  BY <1>1, <1>4, OthersOutside DEF SaveSession, static, store, GoTo, At
<1>5. CASE RestartContinues(p)
  BY <1>1, <1>5, OthersOutside DEF RestartContinues, static, store, GoTo, At
<1>6. CASE RestartCancelled(p)
  BY <1>1, <1>6, OthersOutside DEF RestartCancelled, static, store, GoTo, At,
     SetCoreStatus, Stamp, Overrule
<1>7. CASE CloseServer(p)
  BY <1>1, <1>7, OthersOutside DEF CloseServer, static, store, GoTo, At
<1>8. CASE CloseServerDb(p)
  BY <1>1, <1>8, OthersOutside DEF CloseServerDb, static, store, GoTo, At
<1>9. QED
  BY <1>1, <1>2, <1>3, <1>4, <1>5, <1>6, <1>7, <1>8 DEF OtherStep

(* A core that was overruled stays so.                                      *)
LEMMA OverruledForGood ==
  ASSUME overruled, [Next]_vars
  PROVE  overruled'
<1>1. ASSUME NEW p \in Proc, Request(p) PROVE overruled'
  BY <1>1 DEF Request, Start, Stop, Restart, Close, SessionConnect, SessionReconnect, Begin
<1>2. ASSUME NEW p \in Proc, Acquire(p) \/ StartStep(p) PROVE overruled'
  BY <1>2 DEF Acquire, StartRefused, StartAccepted, StopAccepted, StartStep, BuildConfig,
     BuildFails, NewService, NewServiceSticky, NewServiceFails, StoreService, Activate,
     Started
<1>3. ASSUME NEW p \in Proc, StopStep(p) PROVE overruled'
  BY <1>3 DEF StopStep, StopNoService, Deactivate, CloseService, CloseServiceFails,
     TearDown, StopIdleDb, Stopped
<1>4. ASSUME NEW p \in Proc, AlertStep(p) PROVE overruled'
  BY <1>4 DEF AlertStep, Alert, AlertDeactivate, AlertLoad, AlertClose, AlertDb,
     ErrorReturned, GuardReturns
<1>5. ASSUME NEW p \in Proc, OtherStep(p) PROVE overruled'
  BY <1>5 DEF OtherStep, Resolve, ResolveFails, SaveSession, RestartContinues,
     RestartCancelled, CloseServer, CloseServerDb, Overrule
<1>6. ASSUME NEW p \in Proc, Panic(p) PROVE overruled'
  BY <1>6 DEF Panic, ParsePanics, StartPanics, StopPanics, RestartPanics, ClosePanics,
     Panicked
<1>7. ASSUME NEW m \in Mode, Setup(m) PROVE overruled'
  BY <1>7 DEF Setup
<1>8. CASE UNCHANGED vars
  BY <1>8 DEF vars
<1>9. QED
  BY <1>1, <1>2, <1>3, <1>4, <1>5, <1>6, <1>7, <1>8 DEF Next, Proceed

(* The places of the lock's owner tell what static holds, at every point of *)
(* every behaviour, until a path past the lock overrules the core.          *)
THEOREM Inductive ==
  SafetySpec => []IInv
<1>1. Init => IInv
  <2>1. Init => TypeOK
    BY CoreAssumption DEF Init, TypeOK, Places, OtherPlaces, Continuations, CoreStates
  <2>2. QED
    BY <2>1, CoreAssumption DEF Init, IInv, PlacesInv, LockInv, RestInv, StartInv,
       StopInv, AlertInv, Down, StartPlaces, StopPlaces, AlertPlaces
<1>2. ASSUME IInv, [Next]_vars PROVE IInv'
  <2>1. CASE overruled
    BY TypeStep, <1>2, <2>1, OverruledForGood DEF IInv
  <2>2. ASSUME ~overruled, NEW p \in Proc, Request(p) \/ Proceed(p) PROVE IInv'
    BY <1>2, <2>2, RequestInv, AcquireInv, StartStepInv, StopStepInv,
       AlertStepInv, OtherStepInv DEF Proceed
  <2>3. ASSUME NEW p \in Proc, Panic(p) PROVE IInv'
    <3>1. overruled'
      BY <2>3 DEF Panic, ParsePanics, StartPanics, StopPanics, RestartPanics,
         ClosePanics, Panicked
    <3>2. QED
      BY TypeStep, <1>2, <3>1 DEF IInv
  <2>4. ASSUME ~overruled, NEW m \in Mode, Setup(m) PROVE IInv'
    BY <1>2, <2>4 DEF Setup, static, IInv, PlacesInv, TypeOK, LockInv, RestInv,
       StartInv, StopInv, AlertInv, Down, Up
  <2>5. CASE ~overruled /\ UNCHANGED vars
    BY <1>2, <2>5 DEF vars, static, store, IInv, PlacesInv, TypeOK, LockInv, RestInv,
       StartInv, StopInv, AlertInv, Down, Up
  <2>6. QED
    BY <1>2, <2>1, <2>2, <2>3, <2>4, <2>5 DEF Next
<1>3. QED
  BY <1>1, <1>2, PTL DEF SafetySpec

(* Until the core is overruled past the lock: never two boxes, and the one   *)
(* that is up is where the next Stop finds it.                              *)
THEOREM OneBoxAlways ==
  SafetySpec => []OneReachableBox
<1>1. IInv => OneReachableBox
  <2> SUFFICES ASSUME IInv, ~overruled PROVE OneReachableBox
    BY DEF OneReachableBox
  <2> USE DEF IInv, PlacesInv, OneReachableBox, Up, Down
  <2>1. CASE lock = NoProc
    BY <2>1 DEF RestInv
  <2>2. CASE lock \in Proc
    <3>1. pc[lock] \in StartPlaces \cup StopPlaces \cup AlertPlaces
      BY <2>2 DEF LockInv
    <3>2. QED
      BY <2>2, <3>1 DEF StartInv, StopInv, AlertInv, StartPlaces, StopPlaces,
         AlertPlaces
  <2>3. QED
    BY <2>1, <2>2 DEF TypeOK
<1>2. QED
  BY <1>1, Inductive, PTL

(* Until then STARTED is announced only for a live, stored, probed and       *)
(* clocked box.                                                             *)
THEOREM StartedIsUp ==
  SafetySpec => []StartedMeansUp
<1>1. IInv => StartedMeansUp
  <2> SUFFICES ASSUME IInv, ~overruled, coreState = "STARTED" PROVE StartedMeansUp
    BY DEF StartedMeansUp
  <2>1. CASE lock = NoProc
    BY <2>1 DEF IInv, PlacesInv, RestInv, StartedMeansUp, Up
  <2>2. CASE lock \in Proc
    BY <2>2 DEF IInv, PlacesInv, LockInv, StartInv, StopInv, AlertInv, StartPlaces, StopPlaces,
       AlertPlaces
  <2>3. QED
    BY <2>1, <2>2 DEF IInv, TypeOK
<1>2. QED
  BY <1>1, Inductive, PTL

(* Every path that ends in STOPPED has released what a start acquired,       *)
(* unless the core was overruled past the lock.                             *)
THEOREM StoppedIsDown ==
  SafetySpec => []StoppedMeansDown
<1>1. IInv => StoppedMeansDown
  BY DEF IInv, PlacesInv, RestInv, StoppedMeansDown, Down
<1>2. QED
  BY <1>1, Inductive, PTL

(* Probes are cancelled before the box they dial through is closed, unless   *)
(* a guard or a start after an overruling tore it down.                      *)
THEOREM ProbesStopFirst ==
  SafetySpec => []NoProbeOnClosedBox
<1>1. IInv => NoProbeOnClosedBox
  <2> SUFFICES ASSUME IInv, ~overruled, monitor # NoBox PROVE monitor \in running
    BY DEF NoProbeOnClosedBox
  <2>1. CASE lock = NoProc
    BY <2>1 DEF IInv, PlacesInv, RestInv, Up, Down
  <2>2. CASE lock \in Proc
    BY <2>2 DEF IInv, PlacesInv, LockInv, StartInv, StopInv, AlertInv, StartPlaces, StopPlaces,
       AlertPlaces, Up, Down
  <2>3. QED
    BY <2>1, <2>2 DEF IInv, TypeOK
<1>2. QED
  BY <1>1, Inductive, PTL

(* What static shows to clients and to probes is true of the box, until the  *)
(* core is overruled past the lock.                                         *)
THEOREM StaticIsTrue ==
  SafetySpec => []StaticTellsTruth
<1>1. StaticTellsTruth <=> StartedMeansUp /\ StoppedMeansDown /\ NoProbeOnClosedBox
  BY DEF StaticTellsTruth
<1>2. QED
  BY <1>1, StartedIsUp, StoppedIsDown, ProbesStopFirst, PTL

(***************************************************************************)
(* Refinement: each step is a step of CoreLifecycle or a stutter            *)
(***************************************************************************)

LifecycleStep == [Lifecycle!Next]_<<coreState, running # {}, overruled>>

LEMMA RequestRefines ==
  ASSUME NEW p \in Proc, Request(p), IInv, ~overruled
  PROVE  LifecycleStep
<1> USE CoreAssumption DEF IInv, PlacesInv, LockInv, RestInv, StartInv, StopInv, AlertInv, Up,
   Down, StartPlaces,
      StopPlaces, AlertPlaces, TypeOK, LifecycleStep, Lifecycle!Next,
         Lifecycle!Connect, Lifecycle!RaiseBox,
      Lifecycle!Ready, Lifecycle!GiveUp, Lifecycle!Disconnect, Lifecycle!DropBox,
      Lifecycle!Finish, Lifecycle!Kept, Lifecycle!Void
<1>1. CASE Start(p)
  BY <1>1 DEF Start, static, At, Begin
<1>2. CASE Stop(p)
  BY <1>2 DEF Stop, static, At, Begin
<1>3. CASE Restart(p)
  BY <1>3 DEF Restart, static, At, Begin
<1>4. CASE Close(p)
  BY <1>4 DEF Close, static, At, Begin
<1>5. CASE SessionConnect(p)
  BY <1>5 DEF SessionConnect, static, At, Begin
<1>6. CASE SessionReconnect(p)
  BY <1>6 DEF SessionReconnect, static, At, Begin
<1>7. QED
  BY <1>1, <1>2, <1>3, <1>4, <1>5, <1>6 DEF Request

LEMMA AcquireRefines ==
  ASSUME NEW p \in Proc, Acquire(p), IInv, ~overruled
  PROVE  LifecycleStep
<1> USE CoreAssumption DEF IInv, PlacesInv, LockInv, RestInv, StartInv, StopInv, AlertInv, Up,
   Down, StartPlaces,
      StopPlaces, AlertPlaces, TypeOK, LifecycleStep, Lifecycle!Next,
         Lifecycle!Connect, Lifecycle!RaiseBox,
      Lifecycle!Ready, Lifecycle!GiveUp, Lifecycle!Disconnect, Lifecycle!DropBox,
      Lifecycle!Finish, Lifecycle!Kept, Lifecycle!Void
<1>1. CASE StartRefused(p)
  BY <1>1 DEF StartRefused, static, At
<1>2. CASE StartAccepted(p)
  BY <1>2 DEF StartAccepted, static, At, SetCoreStatus, MayStart
<1>3. CASE StopAccepted(p)
  BY <1>3 DEF StopAccepted, static, At, SetCoreStatus
<1>4. QED
  BY <1>1, <1>2, <1>3 DEF Acquire

LEMMA StartStepRefines ==
  ASSUME NEW p \in Proc, StartStep(p), IInv, ~overruled
  PROVE  LifecycleStep
<1> USE CoreAssumption DEF IInv, PlacesInv, LockInv, RestInv, StartInv, StopInv, AlertInv, Up,
   Down, StartPlaces,
      StopPlaces, AlertPlaces, TypeOK, LifecycleStep, Lifecycle!Next,
         Lifecycle!Connect, Lifecycle!RaiseBox,
      Lifecycle!Ready, Lifecycle!GiveUp, Lifecycle!Disconnect, Lifecycle!DropBox,
      Lifecycle!Finish, Lifecycle!Kept, Lifecycle!Void
<1>1. CASE BuildConfig(p)
  BY <1>1 DEF BuildConfig, static, At
<1>2. CASE BuildFails(p)
  BY <1>2 DEF BuildFails, static, At
<1>3. CASE NewService(p)
  BY <1>3 DEF NewService, static, At, FreshBox
<1>4. CASE NewServiceSticky(p)
  BY <1>4 DEF NewServiceSticky, static, At
<1>5. CASE NewServiceFails(p)
  BY <1>5 DEF NewServiceFails, static, At
<1>6. CASE StoreService(p)
  BY <1>6 DEF StoreService, static, At
<1>7. CASE Activate(p)
  BY <1>7 DEF Activate, static, At
<1>8. CASE Started(p)
  BY <1>8 DEF Started, static, At, Return, SetCoreStatus
<1>9. QED
  BY <1>1, <1>2, <1>3, <1>4, <1>5, <1>6, <1>7, <1>8 DEF StartStep

LEMMA StopStepRefines ==
  ASSUME NEW p \in Proc, StopStep(p), IInv, ~overruled
  PROVE  LifecycleStep
<1> USE CoreAssumption DEF IInv, PlacesInv, LockInv, RestInv, StartInv, StopInv, AlertInv, Up,
   Down, StartPlaces,
      StopPlaces, AlertPlaces, TypeOK, LifecycleStep, Lifecycle!Next,
         Lifecycle!Connect, Lifecycle!RaiseBox,
      Lifecycle!Ready, Lifecycle!GiveUp, Lifecycle!Disconnect, Lifecycle!DropBox,
      Lifecycle!Finish, Lifecycle!Kept, Lifecycle!Void
<1>1. CASE StopNoService(p)
  BY <1>1 DEF StopNoService, static, At, Return, SetCoreStatus
<1>2. CASE Deactivate(p)
  BY <1>2 DEF Deactivate, static, At
<1>3. CASE CloseService(p)
  BY <1>3 DEF CloseService, static, At, TearDown
<1>4. CASE CloseServiceFails(p)
  BY <1>4 DEF CloseServiceFails, static, At, TearDown
<1>5. CASE StopIdleDb(p)
  BY <1>5 DEF StopIdleDb, static, At
<1>6. CASE Stopped(p)
  BY <1>6 DEF Stopped, static, At, Return, SetCoreStatus
<1>7. QED
  BY <1>1, <1>2, <1>3, <1>4, <1>5, <1>6 DEF StopStep

LEMMA AlertStepRefines ==
  ASSUME NEW p \in Proc, AlertStep(p), IInv, ~overruled
  PROVE  LifecycleStep
<1> USE CoreAssumption DEF IInv, PlacesInv, LockInv, RestInv, StartInv, StopInv, AlertInv, Up,
   Down, StartPlaces,
      StopPlaces, AlertPlaces, TypeOK, LifecycleStep, Lifecycle!Next,
         Lifecycle!Connect, Lifecycle!RaiseBox,
      Lifecycle!Ready, Lifecycle!GiveUp, Lifecycle!Disconnect, Lifecycle!DropBox,
      Lifecycle!Finish, Lifecycle!Kept, Lifecycle!Void
<1>1. CASE Alert(p)
  BY <1>1 DEF Alert, static, At, SetCoreStatus
<1>2. CASE AlertDeactivate(p)
  BY <1>2 DEF AlertDeactivate, static, At
<1>3. CASE AlertLoad(p)
  BY <1>3 DEF AlertLoad, static, At
<1>4. CASE AlertClose(p)
  BY <1>4 DEF AlertClose, static, At
<1>5. CASE AlertDb(p)
  BY <1>5 DEF AlertDb, static, At
<1>6. CASE ErrorReturned(p)
  BY <1>6 DEF ErrorReturned, static, At, Return, SetCoreStatus
<1>7. CASE GuardReturns(p)
  BY <1>7 DEF GuardReturns, static, At, Return
<1>8. QED
  BY <1>1, <1>2, <1>3, <1>4, <1>5, <1>6, <1>7 DEF AlertStep

LEMMA OtherStepRefines ==
  ASSUME NEW p \in Proc, OtherStep(p), IInv, ~overruled
  PROVE  LifecycleStep
<1> USE CoreAssumption DEF IInv, PlacesInv, LockInv, RestInv, StartInv, StopInv, AlertInv, Up,
   Down, StartPlaces,
      StopPlaces, AlertPlaces, TypeOK, LifecycleStep, Lifecycle!Next,
         Lifecycle!Connect, Lifecycle!RaiseBox,
      Lifecycle!Ready, Lifecycle!GiveUp, Lifecycle!Disconnect, Lifecycle!DropBox,
      Lifecycle!Finish, Lifecycle!Kept, Lifecycle!Void
<1>1. CASE Resolve(p)
  BY <1>1 DEF Resolve, static, At
<1>2. CASE ResolveFails(p)
  BY <1>2 DEF ResolveFails, static, At, SetCoreStatus, Overrule
<1>3. CASE SaveSession(p)
  BY <1>3 DEF SaveSession, static, At
<1>4. CASE RestartContinues(p)
  BY <1>4 DEF RestartContinues, static, At
<1>5. CASE RestartCancelled(p)
  BY <1>5 DEF RestartCancelled, static, At, SetCoreStatus, Overrule
<1>6. CASE CloseServer(p)
  BY <1>6 DEF CloseServer, static, At
<1>7. CASE CloseServerDb(p)
  BY <1>7 DEF CloseServerDb, static, At
<1>8. QED
  BY <1>1, <1>2, <1>3, <1>4, <1>5, <1>6, <1>7 DEF OtherStep

(* The status and the box behave as CoreLifecycle promises to the clients,   *)
(* whose promise is void once the core is overruled past the lock.          *)
THEOREM CoreRefinesLifecycle ==
  SafetySpec => Lifecycle!SafetySpec
<1>1. Init => Lifecycle!Init
  BY DEF Init, Lifecycle!Init
<1>2. ASSUME IInv, [Next]_vars PROVE LifecycleStep
  <2>1. CASE overruled
    BY <1>2, <2>1, OverruledForGood DEF LifecycleStep, Lifecycle!Next, Lifecycle!Void
  <2>2. ASSUME ~overruled, NEW p \in Proc, Request(p) \/ Proceed(p) PROVE LifecycleStep
    BY <1>2, <2>2, RequestRefines, AcquireRefines, StartStepRefines, StopStepRefines,
       AlertStepRefines, OtherStepRefines DEF Proceed
  <2>3. ASSUME NEW p \in Proc, Panic(p) PROVE LifecycleStep
    <3>1. overruled' = TRUE
      BY <2>3 DEF Panic, ParsePanics, StartPanics, StopPanics, RestartPanics,
         ClosePanics, Panicked
    <3>2. QED
      BY <3>1 DEF LifecycleStep, Lifecycle!Next, Lifecycle!Void
  <2>4. ASSUME NEW m \in Mode, Setup(m) PROVE LifecycleStep
    BY <2>4 DEF Setup, static, LifecycleStep
  <2>5. CASE UNCHANGED vars
    BY <2>5 DEF vars, static, LifecycleStep
  <2>6. QED
    BY <1>2, <2>1, <2>2, <2>3, <2>4, <2>5 DEF Next
<1>3. QED
  BY <1>1, <1>2, Inductive, PTL DEF SafetySpec, Lifecycle!SafetySpec, LifecycleStep,
     Lifecycle!vars
=============================================================================
