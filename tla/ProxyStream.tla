---------------------------- MODULE ProxyStream ----------------------------
(***************************************************************************)
(* v2/hcore/proxy_info.go AllProxiesInfoStream over the monitor of          *)
(* compat/monitoring/stub.go: URL-test results reach the clients that watch *)
(* the proxies.  A result is a version of the history of a box; the hook,   *)
(* the relay and the broadcaster only say that there is a new one.          *)
(***************************************************************************)
EXTENDS Naturals

CONSTANTS
  Service,    \* the boxes started one after the other
  Stream,     \* the OutboundsInfo and MainOutboundsInfo calls
  HookCap,    \* observable.NewSubscriber(4)
  QueueCap,   \* events.Subscribe(4)
  MaxVersion, \* bound on the results stored for a box
  NoService

ASSUME ProxyStreamAssumption ==
  /\ HookCap \in Nat \ {0} /\ QueueCap \in Nat \ {0} /\ MaxVersion \in Nat
  /\ NoService \notin Service

VARIABLES
  current, \* static.StartedService's box, or NoService
  started, \* boxes already started
  done,    \* boxes whose service context is done
  watched, \* the active monitor, or NoService
  ended,   \* monitors that Deactivate has dropped
  version, \* version[b]: results stored for b
  emits,   \* emits[b]: stored results whose hook call is still to come
  hook,    \* hook[b]: events in the hook's buffer
  relay,   \* relay[b]: place of relayHistoryUpdates
  spc,     \* spc[s]: place of stream s
  ctx,     \* ctx[s]: the service context it loaded
  source,  \* source[s]: the monitor it loaded; NoService is the empty one of Get
  queue,   \* queue[s]: events in its channel
  timer,   \* timer[s]: the debounce timer runs
  sent,    \* sent[s]: the version in the last list it sent
  seen     \* seen[s]: the latest version stored before its subscription or sent (auxiliary)

boxes   == <<current, started, done, watched, ended>>
events  == <<version, emits, hook, relay>>
streams == <<spc, ctx, source, queue, timer, sent, seen>>
streamVars == <<boxes, events, streams>>

StreamTypeOK ==
  /\ current \in Service \cup {NoService} /\ started \in SUBSET Service /\ done \in SUBSET Service
  /\ watched \in Service \cup {NoService} /\ ended \in SUBSET Service
  /\ version \in [Service -> Nat] /\ emits \in [Service -> Nat]
  /\ hook \in [Service -> 0..HookCap]
  /\ relay \in [Service -> {"receive", "publish", "over"}]
  /\ spc \in [Stream -> {"idle", "fresh", "load", "send", "subscribe", "loop", "over"}]
  /\ ctx \in [Stream -> Service \cup {NoService}] /\ source \in [Stream -> Service \cup {NoService}]
  /\ queue \in [Stream -> 0..QueueCap]
  /\ timer \in [Stream -> BOOLEAN]
  /\ sent \in [Stream -> Nat] /\ seen \in [Stream -> Nat]

StreamInit ==
  /\ current = NoService /\ started = {} /\ done = {}
  /\ watched = NoService /\ ended = {}
  /\ version = [b \in Service |-> 0] /\ emits = [b \in Service |-> 0]
  /\ hook = [b \in Service |-> 0]
  /\ relay = [b \in Service |-> "receive"]
  /\ spc = [s \in Stream |-> "idle"]
  /\ ctx = [s \in Stream |-> NoService] /\ source = [s \in Stream |-> NoService]
  /\ queue = [s \in Stream |-> 0]
  /\ timer = [s \in Stream |-> FALSE]
  /\ sent = [s \in Stream |-> 0] /\ seen = [s \in Stream |-> 0]

(***************************************************************************)
(* The main service                                                         *)
(***************************************************************************)

(* static.StartedService is set before the monitor is.                      *)
StoreService(b) ==
  /\ current = NoService /\ b \notin started
  /\ current' = b /\ started' = started \cup {b}
  /\ UNCHANGED <<done, watched, ended, events, streams>>

Activate ==
  /\ current # NoService /\ current \notin ended /\ watched = NoService
  /\ watched' = current
  /\ UNCHANGED <<current, started, done, ended, events, streams>>

(* The end of the monitor closes the channel of every subscriber.           *)
Deactivate ==
  /\ watched # NoService
  /\ watched' = NoService /\ ended' = ended \cup {watched}
  /\ UNCHANGED <<current, started, done, events, streams>>

CloseService ==
  /\ current \in ended \ done
  /\ done' = done \cup {current}
  /\ UNCHANGED <<current, started, watched, ended, events, streams>>

ClearService ==
  /\ current \in done
  /\ current' = NoService
  /\ UNCHANGED <<started, done, watched, ended, events, streams>>

(***************************************************************************)
(* From a result to the channels                                            *)
(***************************************************************************)

(* StoreURLTestHistory, and then its update hooks, by a prober of the box.  *)
StoreResult(b) ==
  /\ b \in started \ done /\ b \in {watched} \cup ended
  /\ version[b] < MaxVersion
  /\ version' = [version EXCEPT ![b] = @ + 1]
  /\ emits' = [emits EXCEPT ![b] = @ + 1]
  /\ UNCHANGED <<boxes, hook, relay, streams>>

EmitHook(b) ==
  /\ emits[b] > 0
  /\ emits' = [emits EXCEPT ![b] = @ - 1]
  /\ hook' = [hook EXCEPT ![b] = IF @ < HookCap THEN @ + 1 ELSE @]
  /\ UNCHANGED <<boxes, version, relay, streams>>

RelayReceives(b) ==
  /\ relay[b] = "receive" /\ hook[b] > 0
  /\ hook' = [hook EXCEPT ![b] = @ - 1]
  /\ relay' = [relay EXCEPT ![b] = "publish"]
  /\ UNCHANGED <<boxes, version, emits, streams>>

Subscribed(s, b) == spc[s] = "loop" /\ source[s] = b

(* Publish: a subscriber whose buffer is full loses the event, and one of a *)
(* monitor that has ended may or may not get it.                            *)
BugRoom(s) == queue[s] + 1 < QueueCap
Room(s) == queue[s] < QueueCap
RelayPublishes(b) ==
  /\ relay[b] = "publish"
  /\ \/ queue' = [s \in Stream |-> IF Subscribed(s, b) /\ Room(s) THEN queue[s] + 1 ELSE queue[s]]
     \/ b \in ended /\ UNCHANGED queue
  /\ relay' = [relay EXCEPT ![b] = "receive"]
  /\ UNCHANGED <<boxes, version, emits, hook, spc, ctx, source, timer, sent, seen>>

RelayEnds(b) ==
  /\ b \in ended /\ relay[b] = "receive"
  /\ relay' = [relay EXCEPT ![b] = "over"]
  /\ UNCHANGED <<boxes, version, emits, hook, streams>>

(***************************************************************************)
(* AllProxiesInfoStream                                                     *)
(***************************************************************************)

Open(s) ==
  /\ spc[s] = "idle"
  /\ spc' = [spc EXCEPT ![s] = "fresh"]
  /\ UNCHANGED <<boxes, events, ctx, source, queue, timer, sent, seen>>

(* MakeSureContextIsNew: a live context, the end of the client or ten waits *)
(* in vain let the call go on.                                              *)
ContextAwaited(s) ==
  /\ spc[s] = "fresh"
  /\ spc' = [spc EXCEPT ![s] = "load"]
  /\ ctx' = [ctx EXCEPT ![s] = current]
  /\ UNCHANGED <<boxes, events, source, queue, timer, sent, seen>>

(* h.Context() is nil: an error; otherwise monitoring.Get.                  *)
LoadMonitor(s) ==
  /\ spc[s] = "load"
  /\ IF ctx[s] = NoService
       THEN spc' = [spc EXCEPT ![s] = "over"] /\ UNCHANGED source
       ELSE /\ spc' = [spc EXCEPT ![s] = "send"]
            /\ source' = [source EXCEPT ![s] = watched]
  /\ UNCHANGED <<boxes, events, ctx, queue, timer, sent, seen>>

Stored(s) == IF source[s] = NoService THEN 0 ELSE version[source[s]]

SendFirst(s) ==
  /\ spc[s] = "send"
  /\ sent' = [sent EXCEPT ![s] = Stored(s)]
  /\ spc' = [spc EXCEPT ![s] = "subscribe"]
  /\ UNCHANGED <<boxes, events, ctx, source, queue, timer, seen>>

SubscribeGroup(s) ==
  /\ spc[s] = "subscribe"
  /\ spc' = [spc EXCEPT ![s] = "loop"]
  /\ seen' = [seen EXCEPT ![s] = Stored(s)]
  /\ UNCHANGED <<boxes, events, ctx, source, queue, timer, sent>>

(* An event arms the timer, or finds it armed.                              *)
BugReceive(s) ==
  /\ spc[s] = "loop" /\ queue[s] > 0
  /\ queue' = [queue EXCEPT ![s] = @ - 1]
  /\ timer' = [timer EXCEPT ![s] = ~@]
  /\ UNCHANGED <<boxes, events, spc, ctx, source, sent, seen>>
Receive(s) ==
  /\ spc[s] = "loop" /\ queue[s] > 0
  /\ queue' = [queue EXCEPT ![s] = @ - 1]
  /\ timer' = [timer EXCEPT ![s] = TRUE]
  /\ UNCHANGED <<boxes, events, spc, ctx, source, sent, seen>>

(* The debounce window is over: the list is read now.                       *)
Flush(s) ==
  /\ spc[s] = "loop" /\ timer[s]
  /\ sent' = [sent EXCEPT ![s] = Stored(s)] /\ seen' = [seen EXCEPT ![s] = Stored(s)]
  /\ timer' = [timer EXCEPT ![s] = FALSE]
  /\ UNCHANGED <<boxes, events, spc, ctx, source, queue>>

(* The client goes, the service's context is done, or the channel is closed *)
(* and drained.                                                             *)
LeaveStream(s) ==
  /\ spc[s] = "loop"
  /\ spc' = [spc EXCEPT ![s] = "over"]
  /\ UNCHANGED <<boxes, events, ctx, source, queue, timer, sent, seen>>

(* The part of Leave that is sure to come: ctx.Done and the closed channel. *)
MustLeave(s) == ctx[s] \in done \/ (source[s] \in ended /\ queue[s] = 0)

(***************************************************************************)
(* Specification                                                            *)
(***************************************************************************)

Relay(b) == EmitHook(b) \/ RelayReceives(b) \/ RelayPublishes(b) \/ RelayEnds(b)
Work(s)  == ContextAwaited(s) \/ LoadMonitor(s) \/ SendFirst(s) \/ SubscribeGroup(s)

StreamNext ==
  \/ \E b \in Service : StoreService(b) \/ StoreResult(b) \/ Relay(b)
  \/ Activate \/ Deactivate \/ CloseService \/ ClearService
  \/ \E s \in Stream : Open(s) \/ Work(s) \/ Receive(s) \/ Flush(s) \/ LeaveStream(s)

StreamSafetySpec == StreamInit /\ [][StreamNext]_streamVars

(* The goroutines of the hook, the relay and the streams run, timers fire,  *)
(* and a select takes every branch that stays ready.                        *)
StreamFairness ==
  /\ \A b \in Service : /\ WF_streamVars(EmitHook(b)) /\ WF_streamVars(RelayReceives(b))
                         /\ WF_streamVars(RelayPublishes(b))
  /\ \A s \in Stream : /\ WF_streamVars(Work(s)) /\ WF_streamVars(Receive(s)) /\ SF_streamVars(Flush(s))
                       /\ WF_streamVars(LeaveStream(s) /\ MustLeave(s))

StreamSpec == StreamSafetySpec /\ StreamFairness

(***************************************************************************)
(* Properties                                                               *)
(***************************************************************************)

(* Something is on its way that makes the stream send its list again.       *)
OnItsWay(s) ==
  \/ timer[s] \/ queue[s] > 0
  \/ emits[source[s]] > 0 \/ hook[source[s]] > 0 \/ relay[source[s]] = "publish"

(* Behind(s): a result the stream has not shown is stored since it joined.  *)
Behind(s) == spc[s] = "loop" /\ source[s] # NoService /\ seen[s] # version[source[s]]

(* proxy_info.go:223-262 and the drops of the hook (buffer 4), of the       *)
(* broadcaster (buffer 4) and of the debounce window: an event may be lost  *)
(* only while another one that will make the stream read the history again  *)
(* is still under way.                                                      *)
NoLostWakeup == \A s \in Stream : Behind(s) /\ source[s] \notin ended => OnItsWay(s)

(* stub.go:1-2: results are mirrored "so proxy streams see delay updates":  *)
(* a subscribed stream that has not shown a stored result shows the latest  *)
(* one, unless it or its monitor ends first.                                *)
DelaysArrive ==
  \A s \in Stream : Behind(s) ~> (~Behind(s) \/ source[s] \in ended)

PSInv ==
  /\ StreamTypeOK
  /\ NoLostWakeup
  /\ \A b \in Service : relay[b] = "over" => b \in ended
  /\ \A s \in Stream : spc[s] \in {"idle", "fresh", "load"} => source[s] = NoService
  /\ \A s \in Stream : spc[s] \in {"idle", "fresh", "load", "send", "subscribe"} =>
       queue[s] = 0 /\ ~timer[s] /\ seen[s] = 0
  /\ \A s \in Stream : source[s] # NoService =>
       sent[s] <= version[source[s]] /\ seen[s] <= version[source[s]]
  /\ \A s \in Stream : source[s] = NoService =>
       queue[s] = 0 /\ ~timer[s] /\ sent[s] = 0 /\ seen[s] = 0
=============================================================================
