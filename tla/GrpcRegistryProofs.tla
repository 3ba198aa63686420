------------------------- MODULE GrpcRegistryProofs -------------------------
(***************************************************************************)
(* The registry of gRPC servers and of platforms, for every list of modes   *)
(* and any number of servers, callers, handlers and platforms.              *)
(***************************************************************************)
EXTENDS GrpcRegistry, WellFoundedInduction, TLAPS

(* The loop of resolvePlatformLocked returns the platform of the first      *)
(* registered mode, or its fallback.                                        *)
LEMMA ResolveFacts ==
  ASSUME NEW reg \in [Mode -> Platform \cup {None}], NEW fallback \in Platform \cup {None}
  PROVE  /\ Resolve(reg, fallback) \in Platform \cup {None}
         /\ Resolve(reg, Resolve(reg, fallback)) = Resolve(reg, fallback)
         /\ \A i \in DOMAIN Order :
              /\ reg[Order[i]] # None
              /\ \A j \in DOMAIN Order : j < i => reg[Order[j]] = None
              => Resolve(reg, fallback) = reg[Order[i]]
  <1> DEFINE Registered == {i \in DOMAIN Order : reg[Order[i]] # None}
             first == CHOOSE i \in Registered : \A j \in Registered : i <= j
  <1>1. DOMAIN Order \subseteq Nat /\ \A i \in DOMAIN Order : Order[i] \in Mode
    BY RegistryAssumption DEF Mode
  <1>2. CASE Registered = {}
    BY <1>1, <1>2 DEF Resolve
  <1>3. CASE Registered # {}
    <2>1. Registered \subseteq Nat BY <1>1
    <2>2. \E i \in Registered : \A j \in Registered : i <= j
      <3>1. \E i \in Registered : \A j \in Registered : ~ (<<j, i>> \in OpToRel(<, Nat))
        BY <1>3, <2>1, WFMin, NatLessThanWellFounded, Zenon
      <3>2. PICK i \in Registered : \A j \in Registered : ~ (<<j, i>> \in OpToRel(<, Nat))
        BY <3>1
      <3>3. \A j \in Registered : ~ (j < i)
        BY <2>1, <3>2 DEF OpToRel
      <3>4. \A j \in Registered : i <= j
        <4> HIDE DEF Registered
        <4> QED BY <2>1, <3>3
      <3> QED BY <3>4
    <2>3. first \in Registered /\ \A j \in Registered : first <= j
      BY <2>2
    <2>4. \A x : Resolve(reg, x) = reg[Order[first]]
      BY <1>3 DEF Resolve
    <2>5. reg[Order[first]] \in Platform \cup {None}
      BY <1>1, <2>3
    <2>6. ASSUME NEW i \in DOMAIN Order, reg[Order[i]] # None,
                 \A j \in DOMAIN Order : j < i => reg[Order[j]] = None
          PROVE  first = i
      <3>1. i \in Registered BY <2>6
      <3>2. first \in DOMAIN Order /\ reg[Order[first]] # None /\ first <= i
        BY <2>3, <3>1
      <3>3. i \in Nat /\ first \in Nat BY <1>1, <3>2
      <3> HIDE DEF first, Registered
      <3>4. ~ (first < i) BY <2>6, <3>2
      <3> QED BY <3>2, <3>3, <3>4
    <2> QED BY <2>4, <2>5, <2>6
  <1> QED BY <1>2, <1>3

LEMMA GInit == Init => GInv
  <1> SUFFICES ASSUME Init PROVE GInv OBVIOUS
  <1>1. TypeOK BY DEF Init, TypeOK
  <1>2. OwnerInv /\ EntryInv
    BY RegistryAssumption DEF Init, OwnerInv, EntryInv, ServingIsRegistered
  <1>3. PlatformInv
    <2>1. \A i \in DOMAIN Order : Order[i] \in Mode BY DEF Mode
    <2>2. {i \in DOMAIN Order : [m \in Mode |-> None][Order[i]] # None} = {} BY <2>1
    <2>3. Resolve([m \in Mode |-> None], None) = None BY <2>2 DEF Resolve
    <2> QED BY <2>3 DEF Init, PlatformInv
  <1> QED BY <1>1, <1>2, <1>3 DEF GInv

LEMMA StepSetupBegin ==
  ASSUME GInv, NEW t \in Caller, NEW m \in Mode, NEW p \in Platform \cup {None}, SetupBegin(t, m, p)
  PROVE  GInv'
  <1>0. TypeOK /\ OwnerInv /\ EntryInv /\ PlatformInv BY DEF GInv
  <1>a. platformByMode' \in [Mode -> Platform \cup {None}]
    BY <1>0 DEF SetupBegin, Lock, Step, TypeOK, OwnerInv
  <1>b. globalPlatform' = Resolve(platformByMode', globalPlatform)
    BY DEF SetupBegin
  <1>c. /\ globalPlatform' \in Platform \cup {None}
        /\ Resolve(platformByMode', globalPlatform') = globalPlatform'
    BY <1>0, <1>a, <1>b, ResolveFacts DEF TypeOK
  <1>1. TypeOK'
    BY <1>0, <1>a, <1>c, RegistryAssumption DEF SetupBegin, Lock, Step, registry, platforms, base, rpcs, TypeOK, OwnerInv
  <1>2. OwnerInv'
    BY <1>0, RegistryAssumption DEF SetupBegin, Lock, Step, registry, platforms, base, rpcs, TypeOK, OwnerInv, EntryInv
  <1>3. EntryInv'
    BY <1>0, RegistryAssumption
      DEF SetupBegin, Lock, Step, registry, platforms, base, rpcs, TypeOK, OwnerInv, EntryInv, ServingIsRegistered
  <1>4. PlatformInv'
    BY <1>0, <1>a, <1>c, RegistryAssumption
      DEF SetupBegin, Lock, Step, registry, platforms, base, rpcs, TypeOK, OwnerInv, PlatformInv
  <1> QED BY <1>1, <1>2, <1>3, <1>4 DEF GInv

LEMMA StepSetupRefresh ==
  ASSUME GInv, NEW t \in Caller, SetupRefresh(t)
  PROVE  GInv'
  <1>0. TypeOK /\ OwnerInv /\ EntryInv /\ PlatformInv BY DEF GInv
  <1>1. TypeOK'
    BY <1>0, RegistryAssumption DEF SetupRefresh, Unlock, RefreshContext, registry, platforms, base, rpcs, TypeOK, OwnerInv
  <1>2. OwnerInv'
    BY <1>0, RegistryAssumption DEF SetupRefresh, Unlock, RefreshContext, registry, platforms, base, rpcs, TypeOK, OwnerInv, EntryInv
  <1>3. EntryInv'
    BY <1>0, RegistryAssumption
      DEF SetupRefresh, Unlock, RefreshContext, registry, platforms, base, rpcs, TypeOK, OwnerInv, EntryInv, ServingIsRegistered
  <1>4. PlatformInv'
    BY <1>0, RegistryAssumption
      DEF SetupRefresh, Unlock, RefreshContext, registry, platforms, base, rpcs, TypeOK, OwnerInv, PlatformInv
  <1> QED BY <1>1, <1>2, <1>3, <1>4 DEF GInv

LEMMA StepSetupContext ==
  ASSUME GInv, NEW t \in Caller, SetupContext(t)
  PROVE  GInv'
  <1>0. TypeOK /\ OwnerInv /\ EntryInv /\ PlatformInv BY DEF GInv
  <1>1. TypeOK'
    BY <1>0, RegistryAssumption DEF SetupContext, Step, registry, platforms, base, rpcs, TypeOK, OwnerInv
  <1>2. OwnerInv'
    BY <1>0, RegistryAssumption DEF SetupContext, Step, registry, platforms, base, rpcs, TypeOK, OwnerInv, EntryInv
  <1>3. EntryInv'
    BY <1>0, RegistryAssumption
      DEF SetupContext, Step, registry, platforms, base, rpcs, TypeOK, OwnerInv, EntryInv, ServingIsRegistered
  <1>4. PlatformInv'
    BY <1>0, RegistryAssumption
      DEF SetupContext, Step, registry, platforms, base, rpcs, TypeOK, OwnerInv, PlatformInv
  <1> QED BY <1>1, <1>2, <1>3, <1>4 DEF GInv

LEMMA StepSetupFails ==
  ASSUME GInv, NEW t \in Caller, SetupFails(t)
  PROVE  GInv'
  <1>0. TypeOK /\ OwnerInv /\ EntryInv /\ PlatformInv BY DEF GInv
  <1>1. TypeOK'
    BY <1>0, RegistryAssumption DEF SetupFails, Unlock, registry, platforms, base, rpcs, TypeOK, OwnerInv
  <1>2. OwnerInv'
    BY <1>0, RegistryAssumption DEF SetupFails, Unlock, registry, platforms, base, rpcs, TypeOK, OwnerInv, EntryInv
  <1>3. EntryInv'
    BY <1>0, RegistryAssumption
      DEF SetupFails, Unlock, registry, platforms, base, rpcs, TypeOK, OwnerInv, EntryInv, ServingIsRegistered
  <1>4. PlatformInv'
    BY <1>0, RegistryAssumption
      DEF SetupFails, Unlock, registry, platforms, base, rpcs, TypeOK, OwnerInv, PlatformInv
  <1> QED BY <1>1, <1>2, <1>3, <1>4 DEF GInv

LEMMA StepNewServer ==
  ASSUME GInv, NEW t \in Caller, NEW s \in Server, NewServer(t, s)
  PROVE  GInv'
  <1>0. TypeOK /\ OwnerInv /\ EntryInv /\ PlatformInv BY DEF GInv
  <1>1. TypeOK'
    BY <1>0, RegistryAssumption DEF NewServer, Step, registry, platforms, base, rpcs, TypeOK, OwnerInv
  <1>2. OwnerInv'
    BY <1>0, RegistryAssumption DEF NewServer, Step, registry, platforms, base, rpcs, TypeOK, OwnerInv, EntryInv
  <1>3. EntryInv'
    BY <1>0, RegistryAssumption
      DEF NewServer, Step, registry, platforms, base, rpcs, TypeOK, OwnerInv, EntryInv, ServingIsRegistered
  <1>4. PlatformInv'
    BY <1>0, RegistryAssumption
      DEF NewServer, Step, registry, platforms, base, rpcs, TypeOK, OwnerInv, PlatformInv
  <1> QED BY <1>1, <1>2, <1>3, <1>4 DEF GInv

LEMMA StepListen ==
  ASSUME GInv, NEW t \in Caller, Listen(t)
  PROVE  GInv'
  <1>0. TypeOK /\ OwnerInv /\ EntryInv /\ PlatformInv BY DEF GInv
  <1>1. TypeOK'
    BY <1>0, RegistryAssumption DEF Listen, Step, registry, platforms, base, rpcs, TypeOK, OwnerInv
  <1>2. OwnerInv'
    BY <1>0, RegistryAssumption DEF Listen, Step, registry, platforms, base, rpcs, TypeOK, OwnerInv, EntryInv
  <1>3. EntryInv'
    BY <1>0, RegistryAssumption
      DEF Listen, Step, registry, platforms, base, rpcs, TypeOK, OwnerInv, EntryInv, ServingIsRegistered
  <1>4. PlatformInv'
    BY <1>0, RegistryAssumption
      DEF Listen, Step, registry, platforms, base, rpcs, TypeOK, OwnerInv, PlatformInv
  <1> QED BY <1>1, <1>2, <1>3, <1>4 DEF GInv

LEMMA StepListenFails ==
  ASSUME GInv, NEW t \in Caller, ListenFails(t)
  PROVE  GInv'
  <1>0. TypeOK /\ OwnerInv /\ EntryInv /\ PlatformInv BY DEF GInv
  <1>1. TypeOK'
    BY <1>0, RegistryAssumption DEF ListenFails, Unlock, registry, platforms, base, rpcs, TypeOK, OwnerInv
  <1>2. OwnerInv'
    BY <1>0, RegistryAssumption DEF ListenFails, Unlock, registry, platforms, base, rpcs, TypeOK, OwnerInv, EntryInv
  <1>3. EntryInv'
    BY <1>0, RegistryAssumption
      DEF ListenFails, Unlock, registry, platforms, base, rpcs, TypeOK, OwnerInv, EntryInv, ServingIsRegistered
  <1>4. PlatformInv'
    BY <1>0, RegistryAssumption
      DEF ListenFails, Unlock, registry, platforms, base, rpcs, TypeOK, OwnerInv, PlatformInv
  <1> QED BY <1>1, <1>2, <1>3, <1>4 DEF GInv

LEMMA StepSetupEnds ==
  ASSUME GInv, NEW t \in Caller, SetupEnds(t)
  PROVE  GInv'
  <1>0. TypeOK /\ OwnerInv /\ EntryInv /\ PlatformInv BY DEF GInv
  <1>1. TypeOK'
    BY <1>0, RegistryAssumption DEF SetupEnds, Unlock, registry, platforms, base, rpcs, TypeOK, OwnerInv
  <1>2. OwnerInv'
    BY <1>0, RegistryAssumption DEF SetupEnds, Unlock, registry, platforms, base, rpcs, TypeOK, OwnerInv, EntryInv
  <1>3. EntryInv'
    BY <1>0, RegistryAssumption
      DEF SetupEnds, Unlock, registry, platforms, base, rpcs, TypeOK, OwnerInv, EntryInv, ServingIsRegistered
  <1>4. PlatformInv'
    BY <1>0, RegistryAssumption
      DEF SetupEnds, Unlock, registry, platforms, base, rpcs, TypeOK, OwnerInv, PlatformInv
  <1> QED BY <1>1, <1>2, <1>3, <1>4 DEF GInv

LEMMA StepServeReturns ==
  ASSUME GInv, NEW s \in Server, ServeReturns(s)
  PROVE  GInv'
  <1>0. TypeOK /\ OwnerInv /\ EntryInv /\ PlatformInv BY DEF GInv
  <1>1. TypeOK'
    BY <1>0, RegistryAssumption DEF ServeReturns, registry, platforms, base, rpcs, TypeOK, OwnerInv
  <1>2. OwnerInv'
    BY <1>0, RegistryAssumption DEF ServeReturns, registry, platforms, base, rpcs, TypeOK, OwnerInv, EntryInv
  <1>3. EntryInv'
    BY <1>0, RegistryAssumption
      DEF ServeReturns, registry, platforms, base, rpcs, TypeOK, OwnerInv, EntryInv, ServingIsRegistered
  <1>4. PlatformInv'
    BY <1>0, RegistryAssumption
      DEF ServeReturns, registry, platforms, base, rpcs, TypeOK, OwnerInv, PlatformInv
  <1> QED BY <1>1, <1>2, <1>3, <1>4 DEF GInv

LEMMA StepServeCleans ==
  ASSUME GInv, NEW s \in Server, ServeCleans(s)
  PROVE  GInv'
  <1>0. TypeOK /\ OwnerInv /\ EntryInv /\ PlatformInv BY DEF GInv
  <1>1. TypeOK'
    BY <1>0, RegistryAssumption DEF ServeCleans, registry, platforms, base, rpcs, TypeOK, OwnerInv
  <1>2. OwnerInv'
    BY <1>0, RegistryAssumption DEF ServeCleans, registry, platforms, base, rpcs, TypeOK, OwnerInv, EntryInv
  <1>3. EntryInv'
    BY <1>0, RegistryAssumption
      DEF ServeCleans, registry, platforms, base, rpcs, TypeOK, OwnerInv, EntryInv, ServingIsRegistered
  <1>4. PlatformInv'
    BY <1>0, RegistryAssumption
      DEF ServeCleans, registry, platforms, base, rpcs, TypeOK, OwnerInv, PlatformInv
  <1> QED BY <1>1, <1>2, <1>3, <1>4 DEF GInv

LEMMA StepCloseServer ==
  ASSUME GInv, NEW t \in Caller, NEW m \in Mode, CloseServer(t, m)
  PROVE  GInv'
  <1>0. TypeOK /\ OwnerInv /\ EntryInv /\ PlatformInv BY DEF GInv
  <1>1. TypeOK'
    BY <1>0, RegistryAssumption DEF CloseServer, Lock, Step, registry, platforms, base, rpcs, TypeOK, OwnerInv
  <1>2. OwnerInv'
    BY <1>0, RegistryAssumption DEF CloseServer, Lock, Step, registry, platforms, base, rpcs, TypeOK, OwnerInv, EntryInv
  <1>3. EntryInv'
    BY <1>0, RegistryAssumption
      DEF CloseServer, Lock, Step, registry, platforms, base, rpcs, TypeOK, OwnerInv, EntryInv, ServingIsRegistered
  <1>4. PlatformInv'
    BY <1>0, RegistryAssumption
      DEF CloseServer, Lock, Step, registry, platforms, base, rpcs, TypeOK, OwnerInv, PlatformInv
  <1> QED BY <1>1, <1>2, <1>3, <1>4 DEF GInv

LEMMA StepDropPlatform ==
  ASSUME GInv, NEW t \in Caller, DropPlatform(t)
  PROVE  GInv'
  <1>0. TypeOK /\ OwnerInv /\ EntryInv /\ PlatformInv BY DEF GInv
  <1>a. platformByMode' \in [Mode -> Platform \cup {None}]
    BY <1>0 DEF DropPlatform, Step, TypeOK, OwnerInv
  <1>b. globalPlatform' = Resolve(platformByMode', globalPlatform)
    BY DEF DropPlatform
  <1>c. /\ globalPlatform' \in Platform \cup {None}
        /\ Resolve(platformByMode', globalPlatform') = globalPlatform'
    BY <1>0, <1>a, <1>b, ResolveFacts DEF TypeOK
  <1>1. TypeOK'
    BY <1>0, <1>a, <1>c, RegistryAssumption DEF DropPlatform, Step, registry, platforms, base, rpcs, TypeOK, OwnerInv
  <1>2. OwnerInv'
    BY <1>0, RegistryAssumption DEF DropPlatform, Step, registry, platforms, base, rpcs, TypeOK, OwnerInv, EntryInv
  <1>3. EntryInv'
    BY <1>0, RegistryAssumption
      DEF DropPlatform, Step, registry, platforms, base, rpcs, TypeOK, OwnerInv, EntryInv, ServingIsRegistered
  <1>4. PlatformInv'
    BY <1>0, <1>a, <1>c, RegistryAssumption
      DEF DropPlatform, Step, registry, platforms, base, rpcs, TypeOK, OwnerInv, PlatformInv
  <1> QED BY <1>1, <1>2, <1>3, <1>4 DEF GInv

LEMMA StepCheckIdle ==
  ASSUME GInv, NEW t \in Caller, CheckIdle(t)
  PROVE  GInv'
  <1>0. TypeOK /\ OwnerInv /\ EntryInv /\ PlatformInv BY DEF GInv
  <1>1. TypeOK'
    BY <1>0, RegistryAssumption DEF CheckIdle, Step, registry, platforms, base, rpcs, TypeOK, OwnerInv
  <1>2. OwnerInv'
    BY <1>0, RegistryAssumption DEF CheckIdle, Step, registry, platforms, base, rpcs, TypeOK, OwnerInv, EntryInv
  <1>3. EntryInv'
    BY <1>0, RegistryAssumption
      DEF CheckIdle, Step, registry, platforms, base, rpcs, TypeOK, OwnerInv, EntryInv, ServingIsRegistered
  <1>4. PlatformInv'
    BY <1>0, RegistryAssumption
      DEF CheckIdle, Step, registry, platforms, base, rpcs, TypeOK, OwnerInv, PlatformInv
  <1> QED BY <1>1, <1>2, <1>3, <1>4 DEF GInv

LEMMA StepCloseAll ==
  ASSUME GInv, NEW t \in Caller, CloseAll(t)
  PROVE  GInv'
  <1>0. TypeOK /\ OwnerInv /\ EntryInv /\ PlatformInv BY DEF GInv
  <1>1. TypeOK'
    BY <1>0, RegistryAssumption DEF CloseAll, Step, registry, platforms, base, rpcs, TypeOK, OwnerInv
  <1>2. OwnerInv'
    BY <1>0, RegistryAssumption DEF CloseAll, Step, registry, platforms, base, rpcs, TypeOK, OwnerInv, EntryInv
  <1>3. EntryInv'
    BY <1>0, RegistryAssumption
      DEF CloseAll, Step, registry, platforms, base, rpcs, TypeOK, OwnerInv, EntryInv, ServingIsRegistered
  <1>4. PlatformInv'
    BY <1>0, RegistryAssumption
      DEF CloseAll, Step, registry, platforms, base, rpcs, TypeOK, OwnerInv, PlatformInv
  <1> QED BY <1>1, <1>2, <1>3, <1>4 DEF GInv

LEMMA StepCall ==
  ASSUME GInv, NEW h \in Handler, NEW s \in Server, Call(h, s)
  PROVE  GInv'
  <1>0. TypeOK /\ OwnerInv /\ EntryInv /\ PlatformInv BY DEF GInv
  <1>1. TypeOK'
    BY <1>0, RegistryAssumption DEF Call, registry, platforms, base, rpcs, TypeOK, OwnerInv
  <1>2. OwnerInv'
    BY <1>0, RegistryAssumption DEF Call, registry, platforms, base, rpcs, TypeOK, OwnerInv, EntryInv
  <1>3. EntryInv'
    BY <1>0, RegistryAssumption
      DEF Call, registry, platforms, base, rpcs, TypeOK, OwnerInv, EntryInv, ServingIsRegistered
  <1>4. PlatformInv'
    BY <1>0, RegistryAssumption
      DEF Call, registry, platforms, base, rpcs, TypeOK, OwnerInv, PlatformInv
  <1> QED BY <1>1, <1>2, <1>3, <1>4 DEF GInv

LEMMA StepGetDB ==
  ASSUME GInv, NEW h \in Handler, NEW d \in Handle, GetDB(h, d)
  PROVE  GInv'
  <1>0. TypeOK /\ OwnerInv /\ EntryInv /\ PlatformInv BY DEF GInv
  <1>1. TypeOK'
    BY <1>0, RegistryAssumption DEF GetDB, registry, platforms, base, rpcs, TypeOK, OwnerInv
  <1>2. OwnerInv'
    BY <1>0, RegistryAssumption DEF GetDB, registry, platforms, base, rpcs, TypeOK, OwnerInv, EntryInv
  <1>3. EntryInv'
    BY <1>0, RegistryAssumption
      DEF GetDB, registry, platforms, base, rpcs, TypeOK, OwnerInv, EntryInv, ServingIsRegistered
  <1>4. PlatformInv'
    BY <1>0, RegistryAssumption
      DEF GetDB, registry, platforms, base, rpcs, TypeOK, OwnerInv, PlatformInv
  <1> QED BY <1>1, <1>2, <1>3, <1>4 DEF GInv

LEMMA StepReply ==
  ASSUME GInv, NEW h \in Handler, Reply(h)
  PROVE  GInv'
  <1>0. TypeOK /\ OwnerInv /\ EntryInv /\ PlatformInv BY DEF GInv
  <1>1. TypeOK'
    BY <1>0, RegistryAssumption DEF Reply, registry, platforms, base, rpcs, TypeOK, OwnerInv
  <1>2. OwnerInv'
    BY <1>0, RegistryAssumption DEF Reply, registry, platforms, base, rpcs, TypeOK, OwnerInv, EntryInv
  <1>3. EntryInv'
    BY <1>0, RegistryAssumption
      DEF Reply, registry, platforms, base, rpcs, TypeOK, OwnerInv, EntryInv, ServingIsRegistered
  <1>4. PlatformInv'
    BY <1>0, RegistryAssumption
      DEF Reply, registry, platforms, base, rpcs, TypeOK, OwnerInv, PlatformInv
  <1> QED BY <1>1, <1>2, <1>3, <1>4 DEF GInv

(* One case per action of Next.                                             *)
LEMMA GStep ==
  ASSUME GInv, [Next]_vars PROVE GInv'
  <1>1. CASE UNCHANGED vars
    BY <1>1 DEF GInv, TypeOK, OwnerInv, EntryInv, ServingIsRegistered, PlatformInv,
                vars, registry, platforms, base, rpcs
  <1>2. CASE Next
    BY <1>2, StepSetupBegin, StepSetupRefresh, StepSetupContext, StepSetupFails, StepNewServer,
       StepListen, StepListenFails, StepSetupEnds, StepServeReturns, StepServeCleans,
       StepCloseServer, StepDropPlatform, StepCheckIdle, StepCloseAll, StepCall, StepGetDB,
       StepReply
      DEF Next, Setup
  <1> QED BY <1>1, <1>2

(* mu makes the entry, the platform and the context of a mode change        *)
(* together, the cleanup of servers that stopped serving included.          *)
THEOREM RegistryInvariant == SafetySpec => []GInv
  <1>1. Init => GInv BY GInit
  <1>2. GInv /\ [Next]_vars => GInv' BY GStep
  <1> QED BY <1>1, <1>2, PTL DEF SafetySpec

(* A server that serves is in the map, so closeDbIfIdle never takes the     *)
(* process for idle while calls can still arrive.                           *)
THEOREM ServersAreRegistered == SafetySpec => []ServingIsRegistered
  <1>1. GInv => ServingIsRegistered BY DEF GInv, EntryInv
  <1> QED BY <1>1, RegistryInvariant, PTL

(* The background platform wins over every later foreground Setup.          *)
THEOREM BackgroundPlatformWins == SafetySpec => []BackgroundWins
  <1>1. GInv => BackgroundWins
    BY ResolveFacts DEF GInv, TypeOK, PlatformInv, BackgroundWins
  <1> QED BY <1>1, RegistryInvariant, PTL
=============================================================================
