---------------------------- MODULE ProbeMonitor ----------------------------
(***************************************************************************)
(* compat/monitoring/stub.go: URL tests on the box of the main service, and *)
(* their end when the service stops.  Probers are the goroutines of UrlTest *)
(* calls, closers those that run Deactivate and then CloseService.  A box   *)
(* has one monitor, known by the box.                                       *)
(***************************************************************************)
EXTENDS Naturals, FiniteSets

CONSTANTS
  Prober,  \* goroutines that call TestNowContext
  Closer,  \* goroutines that stop the service
  Box,     \* the boxes started one after the other
  Urls,    \* how many URLs a probe races
  Samples, \* how many rounds the strategy asks for
  MaxStray, \* bound on the URL tests left behind by races on a box
  Locked,  \* every closer holds static.lock (false for an unlocked StopAndAlert)
  None

ASSUME ProbeAssumption ==
  /\ Urls \in Nat \ {0} /\ Samples \in Nat \ {0} /\ MaxStray \in Nat
  /\ Locked \in BOOLEAN /\ None \notin Box

VARIABLES
  box,       \* static.StartedService's box, or None
  used,      \* boxes already started
  closed,    \* boxes that CloseService has closed
  active,    \* the active monitor, or None
  cancelled, \* monitors whose context is cancelled
  inFlight,  \* inFlight[b]: the probers counted in probesInFlight
  waiter,    \* waiter[b]: the goroutine of Deactivate that runs Wait
  overrun,   \* monitors whose wait outlived deactivateWaitBudget
  kpc,       \* kpc[k]: place of closer k
  target,    \* target[k]: the monitor that k swapped out, or None
  pc,        \* pc[q]: place of prober q
  mon,       \* mon[q]: the monitor q loaded
  round,     \* round[q]: samples still to take
  dialing,   \* dialing[q]: URL tests of the current race that run
  stray      \* stray[b]: URL tests that outlived their race

core   == <<box, used, closed>>
probes == <<pc, mon, round, dialing, stray>>
stops  == <<kpc, target>>
vars   == <<core, active, cancelled, inFlight, waiter, overrun, stops, probes>>

Past   == {"sample", "dial", "race", "store"}  \* after the check of the context
Places == Past \cup {"idle", "loaded", "check", "leave"}

TypeOK ==
  /\ box \in Box \cup {None}
  /\ used \in SUBSET Box
  /\ closed \in SUBSET Box
  /\ active \in Box \cup {None}
  /\ cancelled \in SUBSET Box
  /\ inFlight \in [Box -> SUBSET Prober]
  /\ waiter \in [Box -> {"none", "wait", "woken", "done", "panicked"}]
  /\ overrun \in SUBSET Box
  /\ kpc \in [Closer -> {"idle", "swap", "cancel", "spawn", "wait", "close"}]
  /\ target \in [Closer -> Box \cup {None}]
  /\ pc \in [Prober -> Places]
  /\ mon \in [Prober -> Box \cup {None}]
  /\ round \in [Prober -> 0..Samples]
  /\ dialing \in [Prober -> 0..Urls]
  /\ stray \in [Box -> Nat]

Init ==
  /\ box = None /\ used = {} /\ closed = {}
  /\ active = None
  /\ cancelled = {}
  /\ inFlight = [b \in Box |-> {}]
  /\ waiter = [b \in Box |-> "none"]
  /\ overrun = {}
  /\ kpc = [k \in Closer |-> "idle"]
  /\ target = [k \in Closer |-> None]
  /\ pc = [q \in Prober |-> "idle"]
  /\ mon = [q \in Prober |-> None]
  /\ round = [q \in Prober |-> 0]
  /\ dialing = [q \in Prober |-> 0]
  /\ stray = [b \in Box |-> 0]

(* The panic of a WaitGroup ends the process.                               *)
Alive == \A b \in Box : waiter[b] # "panicked"

(***************************************************************************)
(* The main service                                                         *)
(***************************************************************************)

(* StartService stores a new box and activates its monitor, under the lock; *)
(* Activate's own Deactivate finds no monitor to drop.                      *)
StartBox(b) ==
  /\ b \notin used /\ box = None
  /\ \A k \in Closer : kpc[k] = "idle"
  /\ box' = b /\ used' = used \cup {b} /\ active' = b
  /\ UNCHANGED <<closed, cancelled, inFlight, waiter, overrun, stops, probes>>

Stop(k) ==
  /\ kpc[k] = "idle" /\ box # None
  /\ Locked => \A j \in Closer : kpc[j] = "idle"
  /\ kpc' = [kpc EXCEPT ![k] = "swap"]
  /\ UNCHANGED <<core, active, cancelled, inFlight, waiter, overrun, target, probes>>

(* active.Swap(nil): who finds nil has nothing to wait for.                 *)
Swap(k) ==
  /\ kpc[k] = "swap"
  /\ active' = None
  /\ target' = [target EXCEPT ![k] = active]
  /\ kpc' = [kpc EXCEPT ![k] = IF active = None THEN "close" ELSE "cancel"]
  /\ UNCHANGED <<core, cancelled, inFlight, waiter, overrun, probes>>

BugCancel(k) ==
  /\ kpc[k] = "cancel"
  /\ kpc' = [kpc EXCEPT ![k] = "spawn"]
  /\ UNCHANGED <<core, active, cancelled, inFlight, waiter, overrun, target, probes>>
Cancel(k) ==
  /\ kpc[k] = "cancel"
  /\ cancelled' = cancelled \cup {target[k]}
  /\ kpc' = [kpc EXCEPT ![k] = "spawn"]
  /\ UNCHANGED <<core, active, inFlight, waiter, overrun, target, probes>>

(* The goroutine that calls Wait returns at once when nobody is counted.    *)
SpawnWait(k) ==
  /\ kpc[k] = "spawn"
  /\ waiter' = [waiter EXCEPT ![target[k]] = IF inFlight[target[k]] = {} THEN "done" ELSE "wait"]
  /\ kpc' = [kpc EXCEPT ![k] = "wait"]
  /\ UNCHANGED <<core, active, cancelled, inFlight, overrun, target, probes>>

(* Wait returns after the last Done; a counter that has been raised again   *)
(* in between is the misuse that sync.WaitGroup panics on.                  *)
WaitReturns(b) ==
  /\ waiter[b] = "woken"
  /\ waiter' = [waiter EXCEPT ![b] = IF inFlight[b] = {} THEN "done" ELSE "panicked"]
  /\ UNCHANGED <<core, active, cancelled, inFlight, overrun, stops, probes>>

WaitDone(k) ==
  /\ kpc[k] = "wait" /\ waiter[target[k]] = "done"
  /\ kpc' = [kpc EXCEPT ![k] = "close"]
  /\ UNCHANGED <<core, active, cancelled, inFlight, waiter, overrun, target, probes>>

(* time.After(deactivateWaitBudget)                                         *)
BugBudgetExpires(k) == FALSE /\ UNCHANGED vars
BudgetExpires(k) ==
  /\ kpc[k] = "wait"
  /\ overrun' = overrun \cup {target[k]}
  /\ kpc' = [kpc EXCEPT ![k] = "close"]
  /\ UNCHANGED <<core, active, cancelled, inFlight, waiter, target, probes>>

(* hook and events are closed, then the caller closes the service.          *)
CloseBox(k) ==
  /\ kpc[k] = "close"
  /\ closed' = IF box = None THEN closed ELSE closed \cup {box}
  /\ box' = None
  /\ kpc' = [kpc EXCEPT ![k] = "idle"]
  /\ target' = [target EXCEPT ![k] = None]
  /\ UNCHANGED <<used, active, cancelled, inFlight, waiter, overrun, probes>>

(***************************************************************************)
(* TestNowContext                                                           *)
(***************************************************************************)

(* monitoring.Get: without an active monitor the call does nothing.         *)
Load(q) ==
  /\ pc[q] = "idle" /\ active # None
  /\ mon' = [mon EXCEPT ![q] = active]
  /\ pc' = [pc EXCEPT ![q] = "loaded"]
  /\ UNCHANGED <<core, active, cancelled, inFlight, waiter, overrun, stops, round, dialing, stray>>

(* probesInFlight.Add(1)                                                    *)
Enter(q) ==
  /\ pc[q] = "loaded"
  /\ inFlight' = [inFlight EXCEPT ![mon[q]] = @ \cup {q}]
  /\ pc' = [pc EXCEPT ![q] = "check"]
  /\ UNCHANGED <<core, active, cancelled, waiter, overrun, stops, mon, round, dialing, stray>>

(* A live context starts the first round, a cancelled one or a caller that  *)
(* has gone ends the call.                                                  *)
BugContextLive(q) == TRUE
ContextLive(q) == mon[q] \notin cancelled
Check(q) ==
  /\ pc[q] = "check"
  /\ \/ /\ ContextLive(q)
        /\ pc' = [pc EXCEPT ![q] = "sample"]
        /\ round' = [round EXCEPT ![q] = Samples]
     \/ pc' = [pc EXCEPT ![q] = "leave"] /\ UNCHANGED round
  /\ UNCHANGED <<core, active, cancelled, inFlight, waiter, overrun, stops, mon, dialing, stray>>

(* The loop of testDialer: another round, or the result is stored.          *)
Sample(q) ==
  /\ pc[q] = "sample"
  /\ \/ /\ round[q] > 0 /\ ContextLive(q) /\ stray[mon[q]] <= MaxStray
        /\ round' = [round EXCEPT ![q] = @ - 1]
        /\ pc' = [pc EXCEPT ![q] = "dial"]
     \/ /\ pc' = [pc EXCEPT ![q] = "store"]
        /\ UNCHANGED round
  /\ UNCHANGED <<core, active, cancelled, inFlight, waiter, overrun, stops, mon, dialing, stray>>

Dial(q) ==
  /\ pc[q] = "dial"
  /\ dialing' = [dialing EXCEPT ![q] = Urls]
  /\ pc' = [pc EXCEPT ![q] = "race"]
  /\ UNCHANGED <<core, active, cancelled, inFlight, waiter, overrun, stops, mon, round, stray>>

(* One URL test fails; the last failure ends the race.                      *)
DialFails(q) ==
  /\ pc[q] = "race" /\ dialing[q] > 0
  /\ dialing' = [dialing EXCEPT ![q] = @ - 1]
  /\ pc' = [pc EXCEPT ![q] = IF dialing[q] = 1 THEN "sample" ELSE "race"]
  /\ UNCHANGED <<core, active, cancelled, inFlight, waiter, overrun, stops, mon, round, stray>>

(* A success, the timeout or a cancelled context end a race of several      *)
(* without waiting for the URL tests still running; a single URL test is    *)
(* waited for.                                                              *)
RaceEnds(q) ==
  /\ pc[q] = "race" /\ dialing[q] > 0
  /\ \E won \in {0, 1} :
       /\ Urls = 1 => won = 1
       /\ stray' = [stray EXCEPT ![mon[q]] = @ + dialing[q] - won]
  /\ dialing' = [dialing EXCEPT ![q] = 0]
  /\ pc' = [pc EXCEPT ![q] = "sample"]
  /\ UNCHANGED <<core, active, cancelled, inFlight, waiter, overrun, stops, mon, round>>

StrayReturns(b) ==
  /\ stray[b] > 0
  /\ stray' = [stray EXCEPT ![b] = @ - 1]
  /\ UNCHANGED <<core, active, cancelled, inFlight, waiter, overrun, stops, pc, mon, round, dialing>>

Store(q) ==
  /\ pc[q] = "store"
  /\ pc' = [pc EXCEPT ![q] = "leave"]
  /\ UNCHANGED <<core, active, cancelled, inFlight, waiter, overrun, stops, mon, round, dialing, stray>>

(* probesInFlight.Done: the last one wakes the waiter.                      *)
Leave(q) ==
  /\ pc[q] = "leave"
  /\ inFlight' = [inFlight EXCEPT ![mon[q]] = @ \ {q}]
  /\ waiter' = [waiter EXCEPT ![mon[q]] =
                  IF @ = "wait" /\ inFlight[mon[q]] = {q} THEN "woken" ELSE @]
  /\ pc' = [pc EXCEPT ![q] = "idle"]
  /\ mon' = [mon EXCEPT ![q] = None]
  /\ round' = [round EXCEPT ![q] = 0]
  /\ UNCHANGED <<core, active, cancelled, overrun, stops, dialing, stray>>

(***************************************************************************)
(* Specification                                                            *)
(***************************************************************************)

Close(k) == \/ Swap(k) \/ Cancel(k) \/ SpawnWait(k) \/ WaitDone(k)
            \/ BudgetExpires(k) \/ CloseBox(k)

Return(q) == Enter(q) \/ Check(q) \/ Sample(q) \/ Dial(q) \/ Store(q) \/ Leave(q)
Probe(q)  == Load(q) \/ Return(q) \/ DialFails(q) \/ RaceEnds(q)

Next ==
  /\ Alive
  /\ \/ \E b \in Box : StartBox(b) \/ WaitReturns(b) \/ StrayReturns(b)
     \/ \E k \in Closer : Stop(k) \/ Close(k)
     \/ \E q \in Prober : Probe(q)

SafetySpec == Init /\ [][Next]_vars

(* Goroutines run and timers fire; nothing says that a URL test returns, or *)
(* that a prober which has loaded a monitor comes back soon.                *)
Fairness == /\ \A k \in Closer : WF_vars(Alive /\ Close(k))
            /\ \A b \in Box : WF_vars(Alive /\ WaitReturns(b))

Spec == SafetySpec /\ Fairness

(***************************************************************************)
(* Properties                                                               *)
(***************************************************************************)

(* stub.go:105-107: "Cancels in-flight probes and waits briefly so          *)
(* Disconnect does not Close the box under live Reality/XHTTP dials": once  *)
(* a box is closed after a wait within the budget, no prober is past its    *)
(* context check on it, a prober that loaded the monitor before and comes   *)
(* late included.                                                           *)
NoProberOnClosedBox ==
  \A q \in Prober : pc[q] \in Past => mon[q] \notin closed \ overrun

(* stub.go:105-107, of the dials themselves.                                *)
NoDialOnClosedBox ==
  \A b \in closed \ overrun : stray[b] = 0

(* stub.go:34-35: a wait bounded by the budget is "better than hanging      *)
(* Disconnect": a stop always reaches CloseService, though URL tests hang.  *)
StopReachesClose ==
  \A k \in Closer : kpc[k] # "idle" ~> (kpc[k] = "idle" \/ ~Alive)

(* The counted probers of a monitor are those past Add and before Done; a   *)
(* monitor is waited for only after its context was cancelled; and a closer *)
(* closes the box of the monitor it waited for.                             *)
CountInv ==
  /\ \A q \in Prober : pc[q] # "idle" => mon[q] \in Box
  /\ \A q \in Prober, b \in Box :
       q \in inFlight[b] <=> pc[q] \in Past \cup {"check", "leave"} /\ mon[q] = b
WaitInv ==
  /\ \A b \in Box : waiter[b] # "none" => b \in cancelled
  /\ \A q \in Prober : pc[q] \in Past => waiter[mon[q]] \notin {"woken", "done", "panicked"}
  /\ active # None => active = box /\ waiter[active] = "none"
CloseInv ==
  /\ box \notin closed
  /\ closed \subseteq used /\ cancelled \subseteq used /\ (box # None => box \in used)
  /\ \A k \in Closer : kpc[k] # "idle" => box # None
  /\ \A k \in Closer : kpc[k] \in {"spawn", "wait", "close"} => target[k] \in cancelled
  /\ \A k \in Closer : kpc[k] \in {"idle", "swap"} => target[k] = None
  /\ \A k \in Closer : kpc[k] \in {"cancel", "spawn", "wait", "close"} => target[k] = box /\ active = None
  /\ \A j, k \in Closer : kpc[j] # "idle" /\ kpc[k] # "idle" => j = k
  /\ (\A k \in Closer : kpc[k] \in {"idle", "swap"}) => active = box
  /\ \A k \in Closer : kpc[k] = "close" => target[k] \in overrun \/ waiter[target[k]] = "done"
  /\ \A b \in closed \ overrun : waiter[b] = "done"
PInv == TypeOK /\ CountInv /\ WaitInv /\ CloseInv
=============================================================================
