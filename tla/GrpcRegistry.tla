---------------------------- MODULE GrpcRegistry ----------------------------
(***************************************************************************)
(* v2/hcore/grpc_server.go, with the platform registration of               *)
(* static_data.go and the shared database of v2/db: the gRPC servers of one *)
(* process, one per mode, set up and closed by any caller under the         *)
(* package's mu, and closeDbIfIdle beside the handlers of their calls.      *)
(***************************************************************************)
EXTENDS Naturals, Sequences

CONSTANTS
  Order,        \* the modes, background modes first (resolvePlatformLocked)
  Platform,     \* the platform interfaces of the wrappers
  Server,       \* grpc.Server instances: one for each successful NewServer
  Caller,       \* goroutines that call Setup, CloseGrpcServer and closeDbIfIdle
  Handler,      \* goroutines of RPC handlers
  Handle,       \* open LevelDB instances, one after the other
  ListenFaults, \* net.Listen may fail after the port looked free
  None, Unset   \* nil, and a BaseContext not built yet

Mode == {Order[i] : i \in DOMAIN Order}

ASSUME RegistryAssumption ==
  /\ Order \in Seq(Mode)
  /\ ListenFaults \in BOOLEAN
  /\ None \notin Server \cup Platform \cup Caller \cup Mode \cup Handle
  /\ Unset \notin Platform \cup {None}

VARIABLES
  mu,       \* the caller that holds mu, or None
  pc,       \* pc[t]: place of caller t
  arg,      \* arg[t]: the mode it sets up or closes
  entry,    \* grpcServer[mode]
  modeOf,   \* modeOf[s]: the mode server s was made for, None if not made yet
  phase,    \* phase[s]: "made", "serving", "exited" (Serve returned) or "gone" (cleaned)
  platformByMode, globalPlatform, baseContext,
  db,       \* dbMap: the open database, or None
  closed,   \* databases that CloseAll has closed
  hpc, call, handle  \* place, server and database of an RPC handler

registry  == <<entry, modeOf, phase>>
platforms == <<platformByMode, globalPlatform, baseContext>>
base      == <<db, closed>>
rpcs      == <<hpc, call, handle>>
vars      == <<mu, pc, arg, registry, platforms, base, rpcs>>

TypeOK ==
  /\ mu \in Caller \cup {None}
  /\ pc \in [Caller -> {"idle", "refresh", "context", "server", "listen", "settings", "drop", "closeAll"}]
  /\ arg \in [Caller -> Mode \cup {None}]
  /\ entry \in [Mode -> Server \cup {None}]
  /\ modeOf \in [Server -> Mode \cup {None}]
  /\ phase \in [Server -> {"unused", "made", "serving", "exited", "gone"}]
  /\ platformByMode \in [Mode -> Platform \cup {None}]
  /\ globalPlatform \in Platform \cup {None}
  /\ baseContext \in Platform \cup {None, Unset}
  /\ db \in Handle \cup {None} /\ closed \in SUBSET Handle
  /\ hpc \in [Handler -> {"idle", "called", "use"}]
  /\ call \in [Handler -> Server \cup {None}]
  /\ handle \in [Handler -> Handle \cup {None}]

Init ==
  /\ mu = None
  /\ pc = [t \in Caller |-> "idle"] /\ arg = [t \in Caller |-> None]
  /\ entry = [m \in Mode |-> None]
  /\ modeOf = [s \in Server |-> None] /\ phase = [s \in Server |-> "unused"]
  /\ platformByMode = [m \in Mode |-> None]
  /\ globalPlatform = None /\ baseContext = Unset
  /\ db = None /\ closed = {}
  /\ hpc = [h \in Handler |-> "idle"] /\ call = [h \in Handler |-> None]
  /\ handle = [h \in Handler |-> None]

(***************************************************************************)
(* The platform of the process                                              *)
(***************************************************************************)

(* The first registered platform in Order, or else the current one.         *)
BugResolve(reg, fallback) ==
  LET Registered == {i \in DOMAIN Order : reg[Order[i]] # None}
  IN IF Registered = {} THEN fallback
     ELSE reg[Order[CHOOSE i \in Registered : \A j \in Registered : i >= j]]
Resolve(reg, fallback) ==
  LET Registered == {i \in DOMAIN Order : reg[Order[i]] # None}
  IN IF Registered = {} THEN fallback
     ELSE reg[Order[CHOOSE i \in Registered : \A j \in Registered : i <= j]]

(* libbox.BaseContext(static.platform()), once there is a base context.     *)
RefreshContext ==
  baseContext' = IF baseContext = Unset THEN Unset ELSE globalPlatform

Lock(t)   == mu = None /\ mu' = t
Unlock(t) == mu' = None /\ pc' = [pc EXCEPT ![t] = "idle"] /\ arg' = [arg EXCEPT ![t] = None]
Step(t, from, to) == pc[t] = from /\ pc' = [pc EXCEPT ![t] = to]

(***************************************************************************)
(* Setup                                                                    *)
(***************************************************************************)

SetupBegin(t, m, p) ==
  /\ Lock(t)
  /\ Step(t, "idle", IF entry[m] # None THEN "refresh" ELSE "context")
  /\ arg' = [arg EXCEPT ![t] = m]
  /\ platformByMode' = IF p = None THEN platformByMode ELSE [platformByMode EXCEPT ![m] = p]
  /\ globalPlatform' = Resolve(platformByMode', globalPlatform)
  /\ UNCHANGED <<baseContext, registry, base, rpcs>>

(* The server is there already: refresh the shared context and return nil.  *)
SetupRefresh(t) ==
  /\ pc[t] = "refresh"
  /\ RefreshContext
  /\ Unlock(t)
  /\ UNCHANGED <<platformByMode, globalPlatform, registry, base, rpcs>>

SetupContext(t) ==
  /\ Step(t, "context", "server")
  /\ baseContext' = globalPlatform
  /\ UNCHANGED <<mu, arg, platformByMode, globalPlatform, registry, base, rpcs>>

(* The logger, the address, a port in use, the keys or the certificate.     *)
SetupFails(t) ==
  /\ pc[t] = "server"
  /\ Unlock(t)
  /\ UNCHANGED <<registry, platforms, base, rpcs>>

NewServer(t, s) ==
  /\ Step(t, "server", "listen")
  /\ phase[s] = "unused"
  /\ phase' = [phase EXCEPT ![s] = "made"]
  /\ modeOf' = [modeOf EXCEPT ![s] = arg[t]]
  /\ entry' = [entry EXCEPT ![arg[t]] = s]
  /\ UNCHANGED <<mu, arg, platforms, base, rpcs>>

(* Listen succeeds and the goroutine that serves is started.                *)
Listen(t) ==
  /\ Step(t, "listen", "settings")
  /\ phase' = [phase EXCEPT ![entry[arg[t]]] = "serving"]
  /\ UNCHANGED <<mu, arg, entry, modeOf, platforms, base, rpcs>>

ListenFails(t) ==
  /\ ListenFaults
  /\ pc[t] = "listen"
  /\ Unlock(t)
  /\ UNCHANGED <<registry, platforms, base, rpcs>>

(* The settings are read, the session and the services started, well or not.*)
SetupEnds(t) ==
  /\ pc[t] = "settings"
  /\ Unlock(t)
  /\ UNCHANGED <<registry, platforms, base, rpcs>>

(***************************************************************************)
(* The goroutine that serves                                                *)
(***************************************************************************)

ServeReturns(s) ==
  /\ phase[s] = "serving"
  /\ phase' = [phase EXCEPT ![s] = "exited"]
  /\ UNCHANGED <<mu, pc, arg, entry, modeOf, platforms, base, rpcs>>

(* Its deferred cleanup, under mu, spares a newer server of the mode.       *)
BugServeCleans(s) ==
  /\ phase[s] = "exited" /\ mu = None
  /\ phase' = [phase EXCEPT ![s] = "gone"]
  /\ entry' = [entry EXCEPT ![modeOf[s]] = None]
  /\ UNCHANGED <<mu, pc, arg, modeOf, platforms, base, rpcs>>
ServeCleans(s) ==
  /\ phase[s] = "exited" /\ mu = None
  /\ phase' = [phase EXCEPT ![s] = "gone"]
  /\ entry' = [m \in Mode |-> IF m = modeOf[s] /\ entry[m] = s THEN None ELSE entry[m]]
  /\ UNCHANGED <<mu, pc, arg, modeOf, platforms, base, rpcs>>

(***************************************************************************)
(* CloseGrpcServer                                                          *)
(***************************************************************************)

(* server.Stop makes Serve return.                                          *)
CloseServer(t, m) ==
  /\ Lock(t) /\ Step(t, "idle", "drop")
  /\ arg' = [arg EXCEPT ![t] = m]
  /\ phase' = [s \in Server |-> IF s = entry[m] /\ phase[s] = "serving" THEN "exited" ELSE phase[s]]
  /\ entry' = [entry EXCEPT ![m] = None]
  /\ UNCHANGED <<modeOf, platforms, base, rpcs>>

(* dropPlatformForMode                                                      *)
DropPlatform(t) ==
  /\ Step(t, "drop", "refresh")
  /\ platformByMode' = [platformByMode EXCEPT ![arg[t]] = None]
  /\ globalPlatform' = Resolve(platformByMode', globalPlatform)
  /\ UNCHANGED <<mu, arg, baseContext, registry, base, rpcs>>

(***************************************************************************)
(* closeDbIfIdle and the handlers                                           *)
(***************************************************************************)

(* anyGrpcServerAlive, under mu; CloseAll comes after mu is released.       *)
CheckIdle(t) ==
  /\ mu = None /\ Step(t, "idle", "closeAll")
  /\ \A m \in Mode : entry[m] = None
  /\ UNCHANGED <<mu, arg, registry, platforms, base, rpcs>>

CloseAll(t) ==
  /\ Step(t, "closeAll", "idle")
  /\ closed' = IF db = None THEN closed ELSE closed \cup {db}
  /\ db' = None
  /\ UNCHANGED <<mu, arg, registry, platforms, rpcs>>

Call(h, s) ==
  /\ hpc[h] = "idle" /\ phase[s] = "serving"
  /\ hpc' = [hpc EXCEPT ![h] = "called"]
  /\ call' = [call EXCEPT ![h] = s]
  /\ UNCHANGED <<mu, pc, arg, registry, platforms, base, handle>>

(* getDB: the open database, or a new one; the table operation follows      *)
(* without dbMu.                                                            *)
GetDB(h, d) ==
  /\ hpc[h] = "called"
  /\ IF db = None THEN d \notin closed ELSE d = db
  /\ db' = d
  /\ handle' = [handle EXCEPT ![h] = d]
  /\ hpc' = [hpc EXCEPT ![h] = "use"]
  /\ UNCHANGED <<mu, pc, arg, registry, platforms, closed, call>>

Reply(h) ==
  /\ hpc[h] = "use"
  /\ hpc' = [hpc EXCEPT ![h] = "idle"]
  /\ call' = [call EXCEPT ![h] = None]
  /\ handle' = [handle EXCEPT ![h] = None]
  /\ UNCHANGED <<mu, pc, arg, registry, platforms, base>>

(***************************************************************************)
(* Specification                                                            *)
(***************************************************************************)

Setup(t) == \/ SetupRefresh(t) \/ SetupContext(t) \/ SetupFails(t) \/ Listen(t)
            \/ ListenFails(t) \/ SetupEnds(t) \/ \E s \in Server : NewServer(t, s)

Next ==
  \/ \E t \in Caller :
       \/ \E m \in Mode : CloseServer(t, m) \/ \E p \in Platform \cup {None} : SetupBegin(t, m, p)
       \/ Setup(t) \/ DropPlatform(t) \/ CheckIdle(t) \/ CloseAll(t)
  \/ \E s \in Server : ServeReturns(s) \/ ServeCleans(s)
  \/ \E h \in Handler :
       \/ \E s \in Server : Call(h, s)
       \/ \E d \in Handle : GetDB(h, d)
       \/ Reply(h)

SafetySpec == Init /\ [][Next]_vars

(* A holder of mu gets on, and mu is not taken for ever from one who waits  *)
(* (the starvation mode of sync.Mutex).                                     *)
Fairness == /\ \A t \in Caller : WF_vars(Setup(t)) /\ WF_vars(DropPlatform(t))
            /\ \A s \in Server : SF_vars(ServeCleans(s))

Spec == SafetySpec /\ Fairness

(***************************************************************************)
(* Properties                                                               *)
(***************************************************************************)

(* anyGrpcServerAlive (grpc_server.go:398-411) keeps the database open for  *)
(* every server that can still receive calls: a server that serves is in    *)
(* the map, the cleanup of an older one of its mode notwithstanding.        *)
ServingIsRegistered ==
  \A s \in Server : phase[s] = "serving" => entry[modeOf[s]] = s

(* static_data.go:76-80: a registered background platform wins, whatever    *)
(* Setup and Close calls of other modes come after it, and it is what the   *)
(* next box start reads once mu is free.                                    *)
BackgroundWins ==
  \A i \in DOMAIN Order :
    /\ mu = None /\ baseContext # Unset
    /\ platformByMode[Order[i]] # None
    /\ \A j \in DOMAIN Order : j < i => platformByMode[Order[j]] = None
    => baseContext = platformByMode[Order[i]]

(* grpc_server.go:311-316: an entry whose server does not serve is cleared, *)
(* "so the next Setup rebinds", instead of answering "already started".     *)
ZombiesCleared ==
  \A m \in Mode :
    (entry[m] # None /\ phase[entry[m]] # "serving")
      ~> (entry[m] = None \/ phase[entry[m]] = "serving")

(* custom.go:16-19: the database is never closed under the call of a mode   *)
(* that is alive.                                                           *)
NoCallOnClosedDb ==
  \A h \in Handler : hpc[h] = "use" /\ phase[call[h]] = "serving" => handle[h] \notin closed

(* Who is past Lock holds mu, and its mode's entry is the one it made; the  *)
(* shared platform is always the resolved one, and the context lags behind  *)
(* it only while mu is held.                                                *)
OwnerInv ==
  /\ \A t \in Caller : pc[t] \notin {"idle", "closeAll"} <=> mu = t
  /\ \A t \in Caller : mu = t => arg[t] \in Mode
  /\ \A t \in Caller : pc[t] \in {"context", "server", "drop"} => entry[arg[t]] = None
  /\ \A t \in Caller : pc[t] = "listen" => entry[arg[t]] \in Server /\ phase[entry[arg[t]]] = "made"
EntryInv ==
  /\ \A m \in Mode : entry[m] # None => modeOf[entry[m]] = m
  /\ \A s \in Server : phase[s] # "unused" => modeOf[s] \in Mode
  /\ \A m \in Mode : entry[m] # None => phase[entry[m]] \in {"made", "serving", "exited"}
  /\ ServingIsRegistered
PlatformInv ==
  /\ globalPlatform = Resolve(platformByMode, globalPlatform)
  /\ \A t \in Caller : pc[t] \in {"server", "listen", "settings"} => baseContext = globalPlatform
  /\ mu = None => baseContext \in {Unset, globalPlatform}
GInv == TypeOK /\ OwnerInv /\ EntryInv /\ PlatformInv
=============================================================================
