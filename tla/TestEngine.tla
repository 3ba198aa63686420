----------------------------- MODULE TestEngine -----------------------------
(***************************************************************************)
(* v2/hcore/testengine/engine.go: the side box that measures the delays of  *)
(* a profile.  Callers run Ensure and Stop, pingers run Ping, and a watcher *)
(* closes the box that nobody uses.                                         *)
(***************************************************************************)
EXTENDS Naturals

CONSTANTS
  Caller,     \* goroutines that call Ensure or Stop
  Pinger,     \* goroutines that call Ping
  Box,        \* the side boxes started one after the other
  Profile,
  MaxTries,   \* maxStartTries
  MaxVersion, \* bound on the changes of a profile's configuration file
  MaxFired,   \* bound on the watchers that wait for mu at one time
  None

Version == 0..MaxVersion
Request == [profile : Profile, stamp : Version]
Label   == [profile : Profile, stamp : Version, content : Version]

ASSUME EngineAssumption ==
  /\ MaxTries \in Nat \ {0} /\ MaxVersion \in Nat /\ MaxFired \in Nat \ {0}
  /\ None \notin Box \cup Caller \cup Request \cup Label

VARIABLES
  file,    \* file[p]: version of the configuration file of p
  opMu,    \* the holder of opMu, or None
  service, \* the box of the slot, or None
  label,   \* label[b]: profile and stamp that b was installed under, content built
  phase,   \* phase[b]: how far b's life has come
  waiter,  \* waiter[b]: the goroutine of closeSideService that runs Wait
  idled,   \* boxes that a watcher is closing
  overrun, \* boxes whose wait has outlived closeWaitBudget
  armed,   \* the current watcher waits for its timer
  stale,   \* the box of the slot was last used IdleTimeout ago
  fired,   \* watchers whose timer has fired and that have yet to lock mu
  pc,      \* pc[c]: place of caller c
  req,     \* req[c]: profile and stamp of the Ensure of c, None in a Stop
  got,     \* got[c]: version that c's buildTestConfig read
  held,    \* held[c]: the box that c starts, closes or answers with
  tries,   \* tries[c]: failed starts of the Ensure of c
  qpc,     \* qpc[q]: place of pinger q
  on       \* on[q]: the box that q loaded

slot  == <<service, label, phase>>
ends  == <<waiter, idled, overrun>>
idle  == <<armed, stale, fired>>
calls == <<opMu, pc, req, got, held, tries>>
pings == <<qpc, on>>
vars  == <<file, slot, ends, idle, calls, pings>>

Places == {"idle", "lock", "slot", "close", "build", "start", "port", "reply"}

TypeOK ==
  /\ file \in [Profile -> Version]
  /\ opMu \in Caller \cup {None}
  /\ service \in Box \cup {None}
  /\ label \in [Box -> Label \cup {None}]
  /\ phase \in [Box -> {"unused", "starting", "up", "taken", "waiting", "closed"}]
  /\ waiter \in [Box -> {"none", "wait", "woken", "done", "panicked"}]
  /\ idled \in SUBSET Box
  /\ overrun \in SUBSET Box
  /\ armed \in BOOLEAN /\ stale \in BOOLEAN /\ fired \in Nat
  /\ pc \in [Caller -> Places]
  /\ req \in [Caller -> Request \cup {None}]
  /\ got \in [Caller -> Version]
  /\ held \in [Caller -> Box \cup {None}]
  /\ tries \in [Caller -> 0..MaxTries - 1]
  /\ qpc \in [Pinger -> {"idle", "begin", "probe", "done"}]
  /\ on \in [Pinger -> Box \cup {None}]

Init ==
  /\ file = [p \in Profile |-> 0]
  /\ opMu = None
  /\ service = None
  /\ label = [b \in Box |-> None]
  /\ phase = [b \in Box |-> "unused"]
  /\ waiter = [b \in Box |-> "none"]
  /\ idled = {} /\ overrun = {}
  /\ armed = FALSE /\ stale = FALSE /\ fired = 0
  /\ pc = [c \in Caller |-> "idle"]
  /\ req = [c \in Caller |-> None]
  /\ got = [c \in Caller |-> 0]
  /\ held = [c \in Caller |-> None]
  /\ tries = [c \in Caller |-> 0]
  /\ qpc = [q \in Pinger |-> "idle"]
  /\ on = [q \in Pinger |-> None]

(* The panic of a WaitGroup ends the process.                               *)
Alive == \A b \in Box : waiter[b] # "panicked"

(* The pings counted in pingsInFlight, one counter for every box.           *)
InFlight == {q \in Pinger : qpc[q] # "idle"}

(* touchLocked: a new watcher replaces the current one.                     *)
Touch == armed' = TRUE /\ stale' = FALSE /\ UNCHANGED fired

(* takeServiceLocked: the slot is emptied, the watcher and the pings of the *)
(* box that was there are cancelled.                                        *)
TakeService ==
  /\ service' = None
  /\ phase' = [b \in Box |-> IF b = service THEN "taken" ELSE phase[b]]
  /\ armed' = FALSE /\ stale' = FALSE
  /\ UNCHANGED label

ConfigChanges(p) ==
  /\ file[p] < MaxVersion
  /\ file' = [file EXCEPT ![p] = @ + 1]
  /\ UNCHANGED <<slot, ends, idle, calls, pings>>

(***************************************************************************)
(* Ensure and Stop                                                          *)
(***************************************************************************)

(* The stamp of the file is taken before opMu is.                           *)
EnsureCall(c, p) ==
  /\ pc[c] = "idle"
  /\ pc' = [pc EXCEPT ![c] = "lock"]
  /\ req' = [req EXCEPT ![c] = [profile |-> p, stamp |-> file[p]]]
  /\ UNCHANGED <<file, slot, ends, idle, opMu, got, held, tries, pings>>

StopCall(c) ==
  /\ pc[c] = "idle"
  /\ pc' = [pc EXCEPT ![c] = "lock"]
  /\ UNCHANGED <<file, slot, ends, idle, opMu, req, got, held, tries, pings>>

MayLock(c) == opMu = None

Lock(c) ==
  /\ pc[c] = "lock" /\ MayLock(c)
  /\ opMu' = c
  /\ pc' = [pc EXCEPT ![c] = "slot"]
  /\ UNCHANGED <<file, slot, ends, idle, req, got, held, tries, pings>>

BugCanReuse(r) == service # None /\ label[service].profile = r.profile
(* canReuseLocked; whether the running box has the leaves asked for is not  *)
(* modelled, a box that could be reused may be replaced.                    *)
CanReuse(r) ==
  service # None /\ label[service].profile = r.profile /\ label[service].stamp = r.stamp

Reuse(c) ==
  /\ pc[c] = "slot" /\ req[c] # None /\ CanReuse(req[c])
  /\ held' = [held EXCEPT ![c] = service]
  /\ Touch
  /\ pc' = [pc EXCEPT ![c] = "reply"]
  /\ UNCHANGED <<file, slot, ends, opMu, req, got, tries, pings>>

(* A Stop that finds no box is done, an Ensure goes on to build.            *)
Take(c) ==
  /\ pc[c] = "slot"
  /\ held' = [held EXCEPT ![c] = service]
  /\ TakeService
  /\ pc' = [pc EXCEPT ![c] = IF service # None THEN "close"
                             ELSE IF req[c] # None THEN "build" ELSE "reply"]
  /\ UNCHANGED <<file, ends, fired, opMu, req, got, tries, pings>>

(* closeSideService has returned; an error ends an Ensure too.              *)
Closed(c) ==
  /\ pc[c] = "close" /\ phase[held[c]] = "closed"
  /\ held' = [held EXCEPT ![c] = None]
  /\ \/ req[c] # None /\ pc' = [pc EXCEPT ![c] = "build"]
     \/ pc' = [pc EXCEPT ![c] = "reply"]
  /\ UNCHANGED <<file, slot, ends, idle, opMu, req, got, tries, pings>>

(* buildTestConfig reads the file as it is now.                             *)
BuildConfig(c) ==
  /\ pc[c] = "build"
  /\ got' = [got EXCEPT ![c] = file[req[c].profile]]
  /\ pc' = [pc EXCEPT ![c] = "start"]
  /\ UNCHANGED <<file, slot, ends, idle, opMu, req, held, tries, pings>>

(* No options, no leaves, a file that does not parse, a caller that left.   *)
BuildFails(c) ==
  /\ pc[c] = "build"
  /\ pc' = [pc EXCEPT ![c] = "reply"]
  /\ UNCHANGED <<file, slot, ends, idle, opMu, req, got, held, tries, pings>>

StartSide(c, b) ==
  /\ pc[c] = "start" /\ phase[b] = "unused"
  /\ phase' = [phase EXCEPT ![b] = "starting"]
  /\ label' = [label EXCEPT ![b] = [profile |-> req[c].profile, stamp |-> req[c].stamp, content |-> got[c]]]
  /\ held' = [held EXCEPT ![c] = b]
  /\ pc' = [pc EXCEPT ![c] = "port"]
  /\ UNCHANGED <<file, service, ends, idle, opMu, req, got, tries, pings>>

(* The loop of starts goes on or is left.                                   *)
BugTryAgain(c) ==
  /\ tries' = [tries EXCEPT ![c] = @ + 1]
  /\ pc' = [pc EXCEPT ![c] = "start"]
  /\ UNCHANGED got
TryAgain(c) ==
  /\ tries[c] + 1 < MaxTries
  /\ tries' = [tries EXCEPT ![c] = @ + 1]
  /\ pc' = [pc EXCEPT ![c] = "start"]
  /\ UNCHANGED got
Answer(c) ==
  /\ tries' = [tries EXCEPT ![c] = 0]
  /\ got' = [got EXCEPT ![c] = 0]
  /\ pc' = [pc EXCEPT ![c] = "reply"]

(* Another try after a bind error, none after another one.                  *)
StartFails(c) ==
  /\ pc[c] = "start"
  /\ TryAgain(c) \/ Answer(c)
  /\ UNCHANGED <<file, slot, ends, idle, opMu, req, held, pings>>

(* readMixedListenPort fails: the box is closed, which no ping has seen.    *)
Discard(c) ==
  /\ phase' = [phase EXCEPT ![held[c]] = "closed"]
  /\ label' = [label EXCEPT ![held[c]] = None]
NoPort(c) ==
  /\ pc[c] = "port"
  /\ Discard(c)
  /\ held' = [held EXCEPT ![c] = None]
  /\ TryAgain(c) \/ (tries[c] + 1 = MaxTries /\ Answer(c))
  /\ UNCHANGED <<file, service, ends, idle, opMu, req, pings>>

(* The box goes to the slot, or is closed when the slot is taken.           *)
Install(c) ==
  /\ pc[c] = "port"
  /\ Answer(c)
  /\ IF service = None
     THEN /\ service' = held[c]
          /\ phase' = [phase EXCEPT ![held[c]] = "up"]
          /\ Touch
          /\ UNCHANGED <<label, held>>
     ELSE /\ Discard(c)
          /\ held' = [held EXCEPT ![c] = None]
          /\ UNCHANGED <<service, idle>>
  /\ UNCHANGED <<file, ends, opMu, req, pings>>

Reply(c) ==
  /\ pc[c] = "reply"
  /\ opMu' = None
  /\ pc' = [pc EXCEPT ![c] = "idle"]
  /\ req' = [req EXCEPT ![c] = None]
  /\ held' = [held EXCEPT ![c] = None]
  /\ UNCHANGED <<file, slot, ends, idle, got, tries, pings>>

(***************************************************************************)
(* closeSideService                                                         *)
(***************************************************************************)

(* The goroutine that calls Wait returns at once when nobody is counted.    *)
SpawnWait(b) ==
  /\ phase[b] = "taken"
  /\ phase' = [phase EXCEPT ![b] = "waiting"]
  /\ waiter' = [waiter EXCEPT ![b] = IF InFlight = {} THEN "done" ELSE "wait"]
  /\ UNCHANGED <<file, service, label, idled, overrun, idle, calls, pings>>

(* Wait returns after the last Done; a counter that has been raised again   *)
(* in between is the misuse that sync.WaitGroup panics on.                  *)
WaitReturns(b) ==
  /\ waiter[b] = "woken"
  /\ waiter' = [waiter EXCEPT ![b] = IF InFlight = {} THEN "done" ELSE "panicked"]
  /\ UNCHANGED <<file, slot, idled, overrun, idle, calls, pings>>

(* time.After(closeWaitBudget)                                              *)
BugBudgetExpires(b) == FALSE /\ UNCHANGED vars
BudgetExpires(b) ==
  /\ phase[b] = "waiting" /\ waiter[b] # "done" /\ b \notin overrun
  /\ overrun' = overrun \cup {b}
  /\ UNCHANGED <<file, slot, waiter, idled, idle, calls, pings>>

BugWaitOver(b) == TRUE
WaitOver(b) == waiter[b] = "done" \/ b \in overrun
CloseService(b) ==
  /\ phase[b] = "waiting" /\ WaitOver(b)
  /\ phase' = [phase EXCEPT ![b] = "closed"]
  /\ label' = [label EXCEPT ![b] = None]
  /\ idled' = idled \ {b}
  /\ UNCHANGED <<file, service, waiter, overrun, idle, calls, pings>>

(***************************************************************************)
(* startIdleWatchLocked                                                     *)
(***************************************************************************)

TimePasses ==
  /\ service # None /\ ~stale
  /\ stale' = TRUE
  /\ UNCHANGED <<file, slot, ends, armed, fired, calls, pings>>

(* A watcher is past its select: to cancel it comes too late.               *)
TimerFires ==
  /\ armed /\ stale /\ fired < MaxFired
  /\ armed' = FALSE /\ fired' = fired + 1
  /\ UNCHANGED <<file, slot, ends, stale, calls, pings>>

(* It finds the slot empty, a box in use, or a box that nobody uses.  It    *)
(* takes that box out without opMu.                                         *)
Watch ==
  /\ fired > 0
  /\ fired' = fired - 1
  /\ \/ /\ service = None
        /\ UNCHANGED <<slot, idled, armed, stale>>
     \/ /\ service # None /\ ~stale
        /\ armed' = TRUE
        /\ UNCHANGED <<slot, idled, stale>>
     \/ /\ service # None /\ stale
        /\ TakeService
        /\ idled' = idled \cup {service}
  /\ UNCHANGED <<file, waiter, overrun, calls, pings>>

(***************************************************************************)
(* Ping                                                                     *)
(***************************************************************************)

(* The box is loaded and the ping counted under one hold of mu.             *)
PingCall(q) ==
  /\ qpc[q] = "idle" /\ service # None
  /\ on' = [on EXCEPT ![q] = service]
  /\ qpc' = [qpc EXCEPT ![q] = "begin"]
  /\ Touch
  /\ UNCHANGED <<file, slot, ends, calls>>

(* A tag that is no leaf, or a box that is closed by now, ends the call.    *)
PingBegins(q) ==
  /\ qpc[q] = "begin"
  /\ \/ phase[on[q]] # "closed" /\ qpc' = [qpc EXCEPT ![q] = "probe"]
     \/ qpc' = [qpc EXCEPT ![q] = "done"]
  /\ UNCHANGED <<file, slot, ends, idle, calls, on>>

(* A late answer does not keep the box of a later Ensure from going idle.   *)
ProbeEnds(q) ==
  /\ qpc[q] = "probe"
  /\ qpc' = [qpc EXCEPT ![q] = "done"]
  /\ IF service = on[q] THEN Touch ELSE UNCHANGED idle
  /\ UNCHANGED <<file, slot, ends, calls, on>>

(* pingsInFlight.Done: the last one wakes whoever waits.                    *)
PingDone(q) ==
  /\ qpc[q] = "done"
  /\ qpc' = [qpc EXCEPT ![q] = "idle"]
  /\ on' = [on EXCEPT ![q] = None]
  /\ waiter' = [b \in Box |-> IF waiter[b] = "wait" /\ InFlight = {q} THEN "woken" ELSE waiter[b]]
  /\ UNCHANGED <<file, slot, idled, overrun, idle, calls>>

(***************************************************************************)
(* Specification                                                            *)
(***************************************************************************)

Serve(c) == \/ Reuse(c) \/ Take(c) \/ Closed(c) \/ BuildConfig(c) \/ BuildFails(c)
            \/ (\E b \in Box : StartSide(c, b)) \/ StartFails(c) \/ NoPort(c)
            \/ Install(c) \/ Reply(c)
TearDown(b) == SpawnWait(b) \/ BudgetExpires(b) \/ CloseService(b)
Timer == TimePasses \/ TimerFires \/ Watch

Next ==
  /\ Alive
  /\ \/ \E p \in Profile : ConfigChanges(p)
     \/ \E c \in Caller : (\E p \in Profile : EnsureCall(c, p)) \/ StopCall(c) \/ Lock(c) \/ Serve(c)
     \/ \E b \in Box : TearDown(b) \/ WaitReturns(b)
     \/ Timer
     \/ \E q \in Pinger : PingCall(q) \/ PingBegins(q) \/ ProbeEnds(q) \/ PingDone(q)

SafetySpec == Init /\ [][Next]_vars

(* The holder of opMu and the teardowns run, opMu is given to someone who   *)
(* waits, timers fire; nothing says that a probe returns.                   *)
Fairness ==
  /\ WF_vars(Alive /\ \E c \in Caller : Lock(c))
  /\ WF_vars(Alive /\ \E c \in Caller : Serve(c))
  /\ \A b \in Box : WF_vars(Alive /\ TearDown(b))
  /\ WF_vars(Alive /\ Timer)

Spec == SafetySpec /\ Fairness

(***************************************************************************)
(* Properties                                                               *)
(***************************************************************************)

(* engine.go:53-55: without opMu "two concurrent Ensure calls could build   *)
(* two boxes and race for the slot": the slot is free for who installs.     *)
SlotIsFree ==
  \A c \in Caller : pc[c] \in {"close", "build", "start", "port"} => service = None

(* A side box that runs is in the slot, or in the hands of the holder of    *)
(* opMu, or a watcher closes it: no failure of Ensure leaves one behind.    *)
NoBoxLost ==
  \A b \in Box : phase[b] \notin {"unused", "closed"} =>
    \/ service = b /\ phase[b] = "up"
    \/ opMu # None /\ held[opMu] = b
    \/ b \in idled

(* engine.go:41-43: "cancel probes first, then wait for in-flight Ping to   *)
(* exit before CloseService": a probe runs on a closed box only after the   *)
(* budget of the wait was spent.                                            *)
NoProbeOnClosedBox ==
  \A q \in Pinger : qpc[q] = "probe" /\ phase[on[q]] = "closed" => on[q] \in overrun

(* engine.go:57: "probes are fenced by pingsInFlight": the shared counter   *)
(* is never raised under a Wait that still has to return, unless a watcher  *)
(* took that box without opMu or the budget was spent.                      *)
FenceHolds ==
  \A b \in Box : waiter[b] = "panicked" => b \in idled \cup overrun

(* engine.go:166-190 and 919: a box that Ensure answers with, reused or     *)
(* new, is built from the file as it was at the call or from a later one.   *)
AnswerIsFresh ==
  \A c \in Caller : pc[c] = "reply" /\ req[c] # None /\ service # None /\ held[c] = service =>
    label[held[c]].content >= req[c].stamp

(* engine.go:35, 747-793: when calls cease, every side box is closed in the *)
(* end, a probe that hangs notwithstanding.                                 *)
IdleBoxesClose ==
  \/ []<>(\E c \in Caller : pc[c] # "idle")
  \/ []<><<\E q \in Pinger : PingCall(q)>>_vars
  \/ <>[](~Alive \/ \A b \in Box : phase[b] \in {"unused", "closed"})

(* Who is past Lock holds opMu, and the box in its hands is the one it      *)
(* starts or closes; while it has one the slot is empty.                    *)
HolderInv ==
  /\ \A c \in Caller : pc[c] \notin {"idle", "lock"} <=> opMu = c
  /\ \A c \in Caller : pc[c] \in {"idle", "lock", "slot", "build", "start"} => held[c] = None
  /\ \A c \in Caller : pc[c] = "close" =>
       held[c] # None /\ phase[held[c]] \in {"taken", "waiting", "closed"}
  /\ \A c \in Caller : pc[c] = "port" => held[c] # None /\ phase[held[c]] = "starting"
  /\ \A c \in Caller : pc[c] \in {"build", "start", "port"} => req[c] # None
  /\ SlotIsFree
(* The place of every box that lives.                                       *)
BoxInv ==
  /\ \A b \in Box : phase[b] = "up" <=> service = b
  /\ \A b \in Box : phase[b] = "starting" => opMu # None /\ pc[opMu] = "port" /\ held[opMu] = b
  /\ \A b \in Box : phase[b] \in {"taken", "waiting"} /\ b \notin idled =>
       opMu # None /\ pc[opMu] = "close" /\ held[opMu] = b
  /\ \A b \in Box : phase[b] \in {"starting", "up"} => label[b] # None
  /\ \A b \in idled : phase[b] \in {"taken", "waiting"}
(* A version is read after the stamp that goes with it.                     *)
StampInv ==
  /\ \A b \in Box : label[b] # None => label[b].content >= label[b].stamp
  /\ \A c \in Caller : req[c] # None => req[c].stamp <= file[req[c].profile]
  /\ \A c \in Caller : pc[c] \in {"start", "port"} => got[c] >= req[c].stamp
  /\ \A c \in Caller : pc[c] = "port" => label[held[c]].content >= req[c].stamp
  /\ AnswerIsFresh
(* A counted ping is on a box that has been in the slot, and no Wait of     *)
(* that box has been woken yet; a woken Wait of an Ensure or a Stop within  *)
(* its budget finds the counter at zero.                                    *)
PingInv ==
  /\ \A q \in Pinger : qpc[q] # "idle" =>
       /\ on[q] # None
       /\ phase[on[q]] \notin {"unused", "starting"}
       /\ phase[on[q]] = "closed" => on[q] \in overrun
       /\ waiter[on[q]] \in {"none", "wait"}
  /\ \A b \in Box : waiter[b] # "none" => phase[b] \in {"waiting", "closed"}
  /\ \A b \in Box : waiter[b] \in {"wait", "woken"} /\ b \notin overrun => phase[b] = "waiting"
  /\ \A b \in Box : waiter[b] = "woken" /\ InFlight # {} => b \in idled \cup overrun
  /\ FenceHolds
EInv == TypeOK /\ HolderInv /\ BoxInv /\ StampInv /\ PingInv
=============================================================================
