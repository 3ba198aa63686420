----------------------------- MODULE CoreService -----------------------------
(***************************************************************************)
(* The core process's main service: v2/hcore/{start,stop,restart,custom,    *)
(* coreinfo,session_connect}.go acting on the package variable `static`.    *)
(*                                                                          *)
(* Every RPC handler, exported mobile/desktop function and tray command     *)
(* runs on a goroutine of its own; a Proc is such a goroutine and pc[p] the *)
(* place it has reached.  StartService and Stop hold static.lock; a session *)
(* call without a target, a cancelled Restart and the guard of a panic      *)
(* write the status, or close the service, without it.  Faults says which   *)
(* of these and of the ordinary failures a run includes.                    *)
(***************************************************************************)
EXTENDS FiniteSets

CONSTANTS
  Proc,      \* goroutines that run operations
  Box,       \* identities of sing-box instances (bounds the live ones)
  Mode,      \* gRPC SetupModes hosted by this process
  Faults,    \* the failures that may happen, see AllFaults
  IsAndroid, \* C.IsAndroid: Restart pauses between Stop and StartService
  Unlimited, \* what requests say of DisableMemoryLimit
  NoProc,    \* static.lock is free
  NoBox      \* a nil *daemon.StartedService

(* Ordinary failures under the lock, then the unlocked paths.               *)
LockedFaults   == {"build", "bind", "sticky", "close"}
UnlockedPaths  == {"resolve", "cancel", "panic"}
AllFaults      == LockedFaults \cup UnlockedPaths

ASSUME CoreAssumption ==
  /\ NoProc \notin Proc
  /\ NoBox \notin Box
  /\ Faults \subseteq AllFaults
  /\ IsAndroid \in BOOLEAN
  /\ Unlimited \subseteq BOOLEAN

VARIABLES
  pc,        \* pc[p]: where goroutine p is
  after,     \* after[p]: what p does when its current Start or Stop returns
  held,      \* held[p]: p's local `instance` or `ss`
  lock,      \* static.lock: the owner, or NoProc
  coreState, \* static.CoreState
  startedAt, \* static.startedAtMs # 0
  service,   \* static.StartedService
  running,   \* the main sing-box instances that are up
  monitor,   \* the box monitoring.active probes, NoBox when inactive
  memLimit,  \* the soft memory limit of configureMemoryLimit is set
  scavenger, \* the periodic FreeOSMemory goroutine of Windows runs
  servers,   \* the modes with an entry in grpcServer
  db,        \* the shared LevelDB is open
  overruled  \* history: STOPPED was announced, or a guard tears down, past static.lock

static == <<coreState, startedAt, service, running, monitor, memLimit, scavenger>>
store  == <<servers, db>>
vars   == <<pc, after, held, lock, static, store, overruled>>

CoreStates == {"STOPPED", "STARTING", "STARTED", "STOPPING"}

(* Places inside the critical sections of StartService and Stop.            *)
StartPlaces == {"config", "newService", "retry", "store", "activate", "started"}
StopPlaces  == {"noService", "deactivate", "closeService", "idleDb", "stopped"}
AlertPlaces == {"alert", "alertMonitor", "alertClose", "alertClosed", "alertDb", "wrapEnd"}
OtherPlaces == {"idle", "startLock", "stopLock", "resolve", "wait", "save",
                "closeServer", "closeServerDb", "parse"}
Places == StartPlaces \cup StopPlaces \cup AlertPlaces \cup OtherPlaces
Continuations == {"idle", "wait", "save", "closeServer", "parse"}

TypeOK ==
  /\ pc \in [Proc -> Places]
  /\ after \in [Proc -> Continuations]
  /\ held \in [Proc -> Box \cup {NoBox}]
  /\ lock \in Proc \cup {NoProc}
  /\ coreState \in CoreStates
  /\ startedAt \in BOOLEAN
  /\ service \in Box \cup {NoBox}
  /\ running \in SUBSET Box
  /\ monitor \in Box \cup {NoBox}
  /\ memLimit \in BOOLEAN
  /\ scavenger \in BOOLEAN
  /\ servers \in SUBSET Mode
  /\ db \in BOOLEAN
  /\ overruled \in BOOLEAN

Init ==
  /\ pc = [p \in Proc |-> "idle"]
  /\ after = [p \in Proc |-> "idle"]
  /\ held = [p \in Proc |-> NoBox]
  /\ lock = NoProc
  /\ coreState = "STOPPED"
  /\ startedAt = FALSE
  /\ service = NoBox
  /\ running = {}
  /\ monitor = NoBox
  /\ memLimit = FALSE
  /\ scavenger = FALSE
  /\ servers = {}
  /\ db = FALSE
  /\ overruled = FALSE

(***************************************************************************)
(* Helpers shared by the handlers                                           *)
(***************************************************************************)

At(p, place) == pc[p] = place

(* A goroutine that is done has nothing left to do after it.                *)
GoTo(p, place) ==
  /\ pc' = [pc EXCEPT ![p] = place]
  /\ after' = [after EXCEPT ![p] = IF place = "idle" THEN "idle" ELSE @]

BugReturnHolding(p, place) ==
  /\ lock' = lock
  /\ held' = [held EXCEPT ![p] = NoBox]
  /\ GoTo(p, place)

(* A handler returns: the deferred Unlock runs (a no-op for the paths that  *)
(* never took the lock) and its locals die.                                 *)
Return(p, place) ==
  /\ lock' = IF lock = p THEN NoProc ELSE lock
  /\ held' = [held EXCEPT ![p] = NoBox]
  /\ GoTo(p, place)

(* Faulty variants, named Bug..., stand before the definition they replace. *)

(* The clock is stamped on the transition into STARTED and cleared on       *)
(* STOPPED; the two transient states leave it alone.                        *)
BugStampAnyStart(state) ==
  IF state = "STARTED" THEN coreState = "STARTED"
  ELSE IF state = "STOPPED" THEN FALSE ELSE startedAt
Stamp(state) == IF state = "STARTED" THEN TRUE
                ELSE IF state = "STOPPED" THEN FALSE ELSE startedAt
SetCoreStatus(state) ==
  /\ coreState' = state
  /\ startedAt' = Stamp(state)

(* closeDbIfIdle: db.CloseAll unless some mode can still serve.             *)
ClosedIfIdle  == db /\ servers # {}
CloseDbIfIdle == db' = ClosedIfIdle

BugMayStartWhenUp == coreState # "STARTING"
MayStart == coreState = "STOPPED"
FreshBox == Box \ (running \cup {service, monitor} \cup {held[q] : q \in Proc})

Fault(f) == f \in Faults

(* STOPPED past static.lock overrules what the core is, unless it is        *)
(* STOPPED already.                                                         *)
Overrule == overruled' = (overruled \/ coreState # "STOPPED")

(***************************************************************************)
(* Clients begin an operation                                               *)
(***************************************************************************)

Begin(p, place, next) ==
  /\ At(p, "idle")
  /\ pc' = [pc EXCEPT ![p] = place]
  /\ after' = [after EXCEPT ![p] = next]
  /\ UNCHANGED <<held, lock, static, store, overruled>>

Start(p)            == Begin(p, "startLock", "idle")
Stop(p)             == Begin(p, "stopLock", "idle")
Restart(p)          == Begin(p, "stopLock", "wait")
Close(p)            == Begin(p, "stopLock", "closeServer")
SessionConnect(p)   == Begin(p, "resolve", "save")
SessionReconnect(p) == Begin(p, "resolve", "wait")

(* Another mode of the same process is set up (v2/hcore/grpc_server.go).    *)
Setup(m) ==
  /\ servers' = servers \cup {m}
  /\ db' = TRUE
  /\ UNCHANGED <<pc, after, held, lock, static, overruled>>

(***************************************************************************)
(* SessionConnect and SessionReconnect up to the start                      *)
(***************************************************************************)

(* LoadState and sessionApplyClientSettings open the database.  A target is *)
(* found, or the settings do not apply and the call returns.                *)
Resolve(p) ==
  /\ At(p, "resolve")
  /\ db' = TRUE
  /\ \E place \in {"idle", IF after[p] = "wait" THEN "stopLock" ELSE "startLock"} :
       GoTo(p, place)
  /\ UNCHANGED <<held, lock, static, servers, overruled>>

(* No target: the status is set to STOPPED without static.lock and without  *)
(* stopping anything.                                                       *)
ResolveFails(p) ==
  /\ At(p, "resolve")
  /\ Fault("resolve")
  /\ db' = TRUE
  /\ SetCoreStatus("STOPPED")
  /\ Overrule
  /\ GoTo(p, "idle")
  /\ UNCHANGED <<held, lock, service, running, monitor, memLimit, scavenger, servers>>

(* The session snapshot is written back after a successful start.           *)
SaveSession(p) ==
  /\ At(p, "save")
  /\ db' = TRUE
  /\ GoTo(p, "idle")
  /\ UNCHANGED <<held, lock, static, servers, overruled>>

(***************************************************************************)
(* StartService                                                             *)
(***************************************************************************)

(* Anything but STOPPED answers ALREADY_STARTED.                            *)
StartRefused(p) ==
  /\ At(p, "startLock") /\ lock = NoProc
  /\ ~MayStart
  /\ GoTo(p, "idle")
  /\ UNCHANGED <<held, lock, static, store, overruled>>

StartAccepted(p) ==
  /\ At(p, "startLock") /\ lock = NoProc
  /\ MayStart
  /\ lock' = p
  /\ SetCoreStatus("STARTING")
  /\ GoTo(p, "config")
  /\ UNCHANGED <<held, service, running, monitor, memLimit, scavenger, store, overruled>>

ConfigureMemoryLimit(disabled) == memLimit' = ~disabled

(* The last request is loaded or saved, the config built, the extensions    *)
(* asked, and the memory limit set as the request says.                     *)
BuildConfig(p) ==
  /\ At(p, "config")
  /\ db' = TRUE
  /\ \E disabled \in Unlimited : ConfigureMemoryLimit(disabled)
  /\ GoTo(p, "newService")
  /\ UNCHANGED <<held, lock, coreState, startedAt, service, running, monitor, scavenger, servers, overruled>>

BugBuildFailsSilently(p) ==
  /\ At(p, "config")
  /\ Fault("build")
  /\ db' = TRUE
  /\ Return(p, "idle")
  /\ UNCHANGED <<static, servers, overruled>>

(* No last request, no ClientOptions, a config error or a refusing hook.    *)
BuildFails(p) ==
  /\ At(p, "config")
  /\ Fault("build")
  /\ db' \in {db, TRUE}
  /\ GoTo(p, "alert")
  /\ UNCHANGED <<held, lock, static, servers, overruled>>

(* NewService: sing-box is up when it returns without an error.             *)
NewService(p) ==
  /\ At(p, "newService") \/ At(p, "retry")
  /\ \E b \in FreshBox :
       /\ running' = running \cup {b}
       /\ held' = [held EXCEPT ![p] = b]
  /\ GoTo(p, "store")
  /\ UNCHANGED <<lock, coreState, startedAt, service, monitor, memLimit, scavenger, store, overruled>>

(* A leftover TUN adapter is healed and NewService retried once.            *)
NewServiceSticky(p) ==
  /\ At(p, "newService")
  /\ Fault("sticky")
  /\ GoTo(p, "retry")
  /\ UNCHANGED <<held, lock, static, store, overruled>>

NewServiceFails(p) ==
  /\ \/ Fault("bind") /\ (At(p, "newService") \/ At(p, "retry"))
     \/ Fault("sticky") /\ At(p, "retry")
  /\ GoTo(p, "alert")
  /\ UNCHANGED <<held, lock, static, store, overruled>>

StoreService(p) ==
  /\ At(p, "store")
  /\ service' = held[p]
  /\ scavenger' = TRUE
  /\ GoTo(p, "activate")
  /\ UNCHANGED <<held, lock, coreState, startedAt, running, monitor, memLimit, store, overruled>>

(* Activate binds to static.Box() and gives up when that is nil.            *)
Activate(p) ==
  /\ At(p, "activate")
  /\ monitor' = IF service = NoBox THEN monitor ELSE service
  /\ GoTo(p, "started")
  /\ UNCHANGED <<held, lock, coreState, startedAt, service, running, memLimit, scavenger, store, overruled>>

Started(p) ==
  /\ At(p, "started")
  /\ SetCoreStatus("STARTED")
  /\ Return(p, after[p])
  /\ UNCHANGED <<service, running, monitor, memLimit, scavenger, store, overruled>>

(***************************************************************************)
(* Stop                                                                     *)
(***************************************************************************)

StopAccepted(p) ==
  /\ At(p, "stopLock") /\ lock = NoProc
  /\ lock' = p
  /\ SetCoreStatus("STOPPING")
  /\ scavenger' = FALSE
  /\ held' = [held EXCEPT ![p] = service]
  /\ GoTo(p, IF service = NoBox THEN "noService" ELSE "deactivate")
  /\ UNCHANGED <<service, running, monitor, memLimit, store, overruled>>

(* Nothing to stop: answers ALREADY_STOPPED.                                *)
StopNoService(p) ==
  /\ At(p, "noService")
  /\ monitor' = NoBox
  /\ CloseDbIfIdle
  /\ SetCoreStatus("STOPPED")
  /\ Return(p, after[p])
  /\ UNCHANGED <<service, running, memLimit, scavenger, servers, overruled>>

BugDeactivateSkipped(p) ==
  /\ At(p, "deactivate")
  /\ GoTo(p, "closeService")
  /\ UNCHANGED <<held, lock, static, store, overruled>>

Deactivate(p) ==
  /\ At(p, "deactivate")
  /\ monitor' = NoBox
  /\ GoTo(p, "closeService")
  /\ UNCHANGED <<held, lock, coreState, startedAt, service, running, memLimit, scavenger, store, overruled>>

(* CloseService tears the instance down whether or not it reports an error, *)
(* and both outcomes forget the service and drop the memory limit.          *)
TearDown(p) ==
  /\ At(p, "closeService")
  /\ running' = running \ {held[p]}
  /\ service' = NoBox
  /\ ConfigureMemoryLimit(TRUE)
  /\ UNCHANGED <<held, lock, coreState, startedAt, monitor, scavenger, servers, overruled>>

CloseService(p)      == TearDown(p) /\ GoTo(p, "idleDb") /\ UNCHANGED db
CloseServiceFails(p) == Fault("close") /\ TearDown(p) /\ CloseDbIfIdle /\ GoTo(p, "alert")

StopIdleDb(p) ==
  /\ At(p, "idleDb")
  /\ CloseDbIfIdle
  /\ GoTo(p, "stopped")
  /\ UNCHANGED <<held, lock, static, servers, overruled>>

Stopped(p) ==
  /\ At(p, "stopped")
  /\ SetCoreStatus("STOPPED")
  /\ Return(p, after[p])
  /\ UNCHANGED <<service, running, monitor, memLimit, scavenger, store, overruled>>

(***************************************************************************)
(* StopAndAlert, and errorWrapper around it                                 *)
(***************************************************************************)

Alert(p) ==
  /\ At(p, "alert")
  /\ SetCoreStatus("STOPPED")
  /\ GoTo(p, "alertMonitor")
  /\ UNCHANGED <<held, lock, service, running, monitor, memLimit, scavenger, store, overruled>>

AlertDeactivate(p) ==
  /\ At(p, "alertMonitor")
  /\ monitor' = NoBox
  /\ GoTo(p, "alertClose")
  /\ UNCHANGED <<held, lock, coreState, startedAt, service, running, memLimit, scavenger, store, overruled>>

(* `ss := static.StartedService`: the service found here is the one closed. *)
AlertLoad(p) ==
  /\ At(p, "alertClose")
  /\ held' = [held EXCEPT ![p] = service]
  /\ GoTo(p, IF service = NoBox THEN "alertDb" ELSE "alertClosed")
  /\ UNCHANGED <<lock, static, store, overruled>>

AlertClose(p) ==
  /\ At(p, "alertClosed")
  /\ running' = running \ {held[p]}
  /\ service' = NoBox
  /\ GoTo(p, "alertDb")
  /\ UNCHANGED <<held, lock, coreState, startedAt, monitor, memLimit, scavenger, store, overruled>>

(* Parse and GenerateConfig call StopAndAlert alone.                        *)
AlertDb(p) ==
  /\ At(p, "alertDb")
  /\ CloseDbIfIdle
  /\ GoTo(p, IF after[p] = "parse" THEN "parse" ELSE "wrapEnd")
  /\ UNCHANGED <<held, lock, static, servers, overruled>>

(* The guard of Parse and GenerateConfig pauses before the call returns.    *)
GuardReturns(p) ==
  /\ At(p, "parse")
  /\ Return(p, "idle")
  /\ UNCHANGED <<static, store, overruled>>

(* errorWrapper returns the error: Restart gives up, Close goes on.         *)
ErrorReturned(p) ==
  /\ At(p, "wrapEnd")
  /\ SetCoreStatus("STOPPED")
  /\ Return(p, IF after[p] = "closeServer" THEN "closeServer" ELSE "idle")
  /\ UNCHANGED <<service, running, monitor, memLimit, scavenger, store, overruled>>

(***************************************************************************)
(* Restart between Stop and StartService, Close after Stop                  *)
(***************************************************************************)

RestartContinues(p) ==
  /\ At(p, "wait")
  /\ pc' = [pc EXCEPT ![p] = "startLock"]
  /\ after' = [after EXCEPT ![p] = "idle"]
  /\ UNCHANGED <<held, lock, static, store, overruled>>

(* The client hangs up during Android's pause: STOPPED without the lock.    *)
RestartCancelled(p) ==
  /\ At(p, "wait")
  /\ IsAndroid /\ Fault("cancel")
  /\ SetCoreStatus("STOPPED")
  /\ Overrule
  /\ GoTo(p, "idle")
  /\ UNCHANGED <<held, lock, service, running, monitor, memLimit, scavenger, store>>

CloseServer(p) ==
  /\ At(p, "closeServer")
  /\ \E m \in Mode : servers' = servers \ {m}
  /\ GoTo(p, "closeServerDb")
  /\ UNCHANGED <<held, lock, static, db, overruled>>

CloseServerDb(p) ==
  /\ At(p, "closeServerDb")
  /\ CloseDbIfIdle
  /\ GoTo(p, "idle")
  /\ UNCHANGED <<held, lock, static, servers, overruled>>

(***************************************************************************)
(* Panics.  Unlock is deferred after the guard, so it runs first: the guard *)
(* then announces and tears down without static.lock.                       *)
(***************************************************************************)

Panicked == Fault("panic") /\ overruled' = TRUE

(* Parse and GenerateConfig, whose guard is StopAndAlert alone.             *)
ParsePanics(p) ==
  /\ At(p, "idle")
  /\ pc' = [pc EXCEPT ![p] = "alert"]
  /\ after' = [after EXCEPT ![p] = "parse"]
  /\ Panicked
  /\ UNCHANGED <<held, lock, static, store>>

(* Anywhere in StartService.  In NewService the box may be up by then, and  *)
(* nobody has it; before the config is built the database may be closed.    *)
StartPanics(p) ==
  /\ pc[p] \in StartPlaces
  /\ Return(p, "alert")
  /\ Panicked
  /\ db' \in {db, db \/ At(p, "config")}
  /\ \/ UNCHANGED running
     \/ /\ At(p, "newService") \/ At(p, "retry")
        /\ \E b \in FreshBox : running' = running \cup {b}
  /\ UNCHANGED <<coreState, startedAt, service, monitor, memLimit, scavenger, servers>>

(* Anywhere in Stop, whose guard returns the error: Restart gives up, Close  *)
(* goes on.                                                                 *)
StopPanics(p) ==
  /\ pc[p] \in StopPlaces
  /\ Return(p, "alert")
  /\ Panicked
  /\ UNCHANGED <<static, store>>

(* Restart reads ClientOptions between Stop and StartService, Close closes  *)
(* the server after Stop under a guard that is StopAndAlert alone.          *)
RestartPanics(p) ==
  /\ At(p, "wait") /\ IsAndroid
  /\ GoTo(p, "alert")
  /\ Panicked
  /\ UNCHANGED <<held, lock, static, store>>

ClosePanics(p) ==
  /\ pc[p] \in {"closeServer", "closeServerDb"}
  /\ pc' = [pc EXCEPT ![p] = "alert"]
  /\ after' = [after EXCEPT ![p] = "parse"]
  /\ Panicked
  /\ UNCHANGED <<held, lock, static, store>>

(***************************************************************************)
(* Specification                                                            *)
(***************************************************************************)

Request(p) == \/ Start(p) \/ Stop(p) \/ Restart(p) \/ Close(p)
              \/ SessionConnect(p) \/ SessionReconnect(p)

Acquire(p) == StartRefused(p) \/ StartAccepted(p) \/ StopAccepted(p)

StartStep(p) == \/ BuildConfig(p) \/ BuildFails(p)
                \/ NewService(p) \/ NewServiceSticky(p) \/ NewServiceFails(p)
                \/ StoreService(p) \/ Activate(p) \/ Started(p)

StopStep(p) == \/ StopNoService(p) \/ Deactivate(p) \/ CloseService(p)
               \/ CloseServiceFails(p) \/ StopIdleDb(p) \/ Stopped(p)

AlertStep(p) == \/ Alert(p) \/ AlertDeactivate(p) \/ AlertLoad(p)
                \/ AlertClose(p) \/ AlertDb(p) \/ ErrorReturned(p)
                \/ GuardReturns(p)

OtherStep(p) == \/ Resolve(p) \/ ResolveFails(p) \/ SaveSession(p)
                \/ RestartContinues(p) \/ RestartCancelled(p)
                \/ CloseServer(p) \/ CloseServerDb(p)

Panic(p) == \/ ParsePanics(p) \/ StartPanics(p) \/ StopPanics(p)
            \/ RestartPanics(p) \/ ClosePanics(p)

Proceed(p) == Acquire(p) \/ StartStep(p) \/ StopStep(p) \/ AlertStep(p) \/ OtherStep(p)

Next == \/ \E p \in Proc : Request(p) \/ Proceed(p) \/ Panic(p)
        \/ \E m \in Mode : Setup(m)

SafetySpec == Init /\ [][Next]_vars

(* The Go scheduler runs every runnable goroutine, and sync.Mutex hands the *)
(* lock to a waiter that has been passed over, so acquiring it is fair too. *)
Fairness == \A p \in Proc : WF_vars(Proceed(p)) /\ SF_vars(Acquire(p))

Spec == SafetySpec /\ Fairness
=============================================================================
