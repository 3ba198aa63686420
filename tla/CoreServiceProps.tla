-------------------------- MODULE CoreServiceProps ---------------------------
(***************************************************************************)
(* The properties of CoreService.                                           *)
(***************************************************************************)
EXTENDS CoreService

(* start.go/stop.go: at most one sing-box instance of the main service is   *)
(* up, so two never compete for the TUN adapter and the listen ports, and   *)
(* the one that is up is reachable by the next Stop, through static or      *)
(* through the Start in progress.  The exception is a core that was         *)
(* overruled: session_connect.go:27 and :64 announce STOPPED over a running *)
(* box without static.lock, start.go:88 asks for the status only, and the   *)
(* next start leaves the first box running where no Stop finds it.          *)
OneReachableBox ==
  ~overruled =>
  /\ \A b, c \in running : b = c
  /\ running \subseteq {service} \cup {held[p] : p \in {q \in Proc : q = lock}}

(* start.go: STARTED is announced only for a box that is up, stored, probed *)
(* and whose uptime clock runs, unless the core was overruled.              *)
StartedMeansUp ==
  (~overruled /\ coreState = "STARTED") =>
    service \in running /\ monitor = service /\ startedAt

(* stop.go/custom.go: with no operation in progress, STOPPED means that the *)
(* path that ended there, failed or not, released the box, the probe        *)
(* monitor, the scavenger and the uptime clock.  The exceptions are the     *)
(* paths without the lock: a session call that finds no target              *)
(* (session_connect.go:27, :64) or is cancelled in Restart's pause          *)
(* (restart.go:36) announces STOPPED and stops nothing, and the guard of a  *)
(* panic tears down beside whoever holds the lock.                          *)
StoppedMeansDown ==
  (~overruled /\ lock = NoProc /\ coreState = "STOPPED") =>
    /\ service = NoBox /\ running = {} /\ monitor = NoBox
    /\ ~startedAt /\ ~scavenger

(* stop.go:50, stub.go:105: probes are cancelled before the box is closed,  *)
(* so no monitor is ever active on a box that is down, unless the core was  *)
(* overruled: a panic guard closes the box of a Start in progress.          *)
NoProbeOnClosedBox == (~overruled /\ monitor # NoBox) => monitor \in running

(* What static shows to clients and probes is true of the box: the status   *)
(* that is announced and the monitor that is active.  A path that is not    *)
(* under static.lock and announces STOPPED over a core that is not ends     *)
(* this (overruled); every other failure and every interleaving keeps it.   *)
StaticTellsTruth == StartedMeansUp /\ StoppedMeansDown /\ NoProbeOnClosedBox

(* A goroutine that entered StartService, Stop or an error path leaves it:  *)
(* whatever fails on the way, every operation returns.                      *)
OperationsReturn == \A p \in Proc : ~At(p, "idle") ~> At(p, "idle")

(* The status a client shows as a spinner is transient: STARTING and        *)
(* STOPPING are always left, on every error path of start.go and stop.go.   *)
SpinnerStops ==
  coreState \in {"STARTING", "STOPPING"} ~> coreState \in {"STARTED", "STOPPED"}

(* The announced status and the existence of a box behave as CoreLifecycle  *)
(* promises, which is void once the core is overruled.                      *)
Lifecycle == INSTANCE CoreLifecycle
               WITH phase <- coreState, up <- (running # {}), void <- overruled
ImplementsLifecycle == Lifecycle!Spec

(***************************************************************************)
(* The inductive invariant behind the safety properties: until a path past  *)
(* the lock overrules the core, the lock's owner is the goroutine inside a   *)
(* critical section, and its place says what static holds.                  *)
(***************************************************************************)

LockInv ==
  \A p \in Proc : pc[p] \in StartPlaces \cup StopPlaces \cup AlertPlaces <=> lock = p

Down == service = NoBox /\ running = {} /\ monitor = NoBox /\ ~scavenger
Up   == service \in Box /\ running = {service}

RestInv ==
  lock = NoProc =>
    \/ coreState = "STOPPED" /\ Down /\ ~startedAt
    \/ coreState = "STARTED" /\ Up /\ monitor = service /\ startedAt

StartInv(p) ==
  /\ pc[p] \in {"config", "newService", "retry"} => coreState = "STARTING" /\ Down
  /\ pc[p] = "store" => /\ coreState = "STARTING"
                        /\ held[p] \in Box /\ running = {held[p]}
                        /\ service = NoBox /\ monitor = NoBox
  /\ pc[p] = "activate" => coreState = "STARTING" /\ Up /\ monitor = NoBox
  /\ pc[p] = "started" => coreState = "STARTING" /\ Up /\ monitor = service

StopInv(p) ==
  /\ pc[p] \in {"noService", "idleDb", "stopped"} => coreState = "STOPPING" /\ Down
  /\ pc[p] = "deactivate" => /\ coreState = "STOPPING" /\ Up /\ ~scavenger
                             /\ held[p] = service /\ monitor = service
  /\ pc[p] = "closeService" => /\ coreState = "STOPPING" /\ Up /\ ~scavenger
                               /\ held[p] = service /\ monitor = NoBox

AlertInv(p) ==
  /\ after[p] # "parse"
  /\ pc[p] = "alert" => coreState \in {"STARTING", "STOPPING"} /\ Down
  /\ pc[p] \in AlertPlaces \ {"alert"} => coreState = "STOPPED" /\ Down
  /\ pc[p] # "alertClosed"

PlacesInv ==
  /\ LockInv
  /\ RestInv
  /\ \A p \in Proc : StartInv(p) /\ StopInv(p) /\ AlertInv(p)

(* CoreService: the types, and the places until the core is overruled.      *)
IInv == TypeOK /\ (~overruled => PlacesInv)

(* hcore.proto:88-90 says of started_at_ms: "Unix millis of the moment the  *)
(* service entered STARTED ... 0 when not running".  While a tunnel runs    *)
(* and no start or stop is in progress the clock is set.  It is not: a      *)
(* session call that finds no target announces STOPPED over the tunnel.     *)
UptimeWhileTunnelRuns ==
  (lock = NoProc /\ service # NoBox) => startedAt

(***************************************************************************)
(* Small instances for TLC                                                  *)
(***************************************************************************)
EveryFault == AllFaults
NoTarget == {"resolve"}
=============================================================================
