---------------------------- MODULE Broadcaster -----------------------------
(***************************************************************************)
(* compat/monitoring/broadcaster.go: fan-out of events to the channels of   *)
(* its subscribers.  Subscribe, Unsubscribe and closeAll hold mu.Lock from  *)
(* beginning to end and are one step each; Publish holds mu.RLock while it  *)
(* visits the channels one by one, so several publishers interleave.        *)
(***************************************************************************)
EXTENDS Naturals, Sequences, FiniteSets

CONSTANTS
  Publisher, \* goroutines that call Publish
  Chan,      \* the channels Subscribe makes, one subscription each
  Cap        \* Cap[c]: the buffer asked for (1 for status and log streams, 4 for group events)

ASSUME BroadcasterAssumption == Cap \in [Chan -> Nat]

VARIABLES
  ctxDone,  \* b.ctx is cancelled
  swept,    \* closeAll has set b.subs to nil
  subs,     \* the keys of b.subs
  chan,     \* chan[c]: "none", "open" or "closed"
  queue,    \* queue[c]: the buffer of c
  todo,     \* todo[p]: the channels p's range loop has yet to visit
  readers,  \* the publishers that hold mu.RLock
  sent,     \* sent[p]: number of p's latest event
  newest    \* newest[c][p]: number of the last event of p received from c

bvars == <<ctxDone, swept, subs, chan, queue, todo, readers, sent, newest>>

Event == [from : Publisher, n : Nat]

BTypeOK ==
  /\ ctxDone \in BOOLEAN
  /\ swept \in BOOLEAN
  /\ subs \in SUBSET Chan
  /\ chan \in [Chan -> {"none", "open", "closed"}]
  /\ queue \in [Chan -> Seq(Event)]
  /\ \A c \in Chan : Len(queue[c]) <= Cap[c]
  /\ todo \in [Publisher -> SUBSET Chan]
  /\ readers \in SUBSET Publisher
  /\ sent \in [Publisher -> Nat]
  /\ newest \in [Chan -> [Publisher -> Nat]]

BInit ==
  /\ ctxDone = FALSE
  /\ swept = FALSE
  /\ subs = {}
  /\ chan = [c \in Chan |-> "none"]
  /\ queue = [c \in Chan |-> <<>>]
  /\ todo = [p \in Publisher |-> {}]
  /\ readers = {}
  /\ sent = [p \in Publisher |-> 0]
  /\ newest = [c \in Chan |-> [p \in Publisher |-> 0]]

(* mu.Lock is free: no reader holds mu.RLock (its holders are one step).    *)
BugCanLock == TRUE
CanLock == readers = {}

BugSubscribe(c) ==
  /\ chan[c] = "none" /\ CanLock
  /\ chan' = [chan EXCEPT ![c] = "open"]
  /\ subs' = subs \cup {c}
  /\ UNCHANGED <<ctxDone, swept, queue, todo, readers, sent, newest>>

(* After the context has ended the new channel is closed at once.           *)
Subscribe(c) ==
  /\ chan[c] = "none" /\ CanLock
  /\ chan' = [chan EXCEPT ![c] = IF ctxDone THEN "closed" ELSE "open"]
  /\ subs' = IF ctxDone THEN subs ELSE subs \cup {c}
  /\ UNCHANGED <<ctxDone, swept, queue, todo, readers, sent, newest>>

(* Closes the channel only when it is still registered.                     *)
Unsubscribe(c) ==
  /\ chan[c] # "none" /\ CanLock
  /\ subs' = subs \ {c}
  /\ chan' = [chan EXCEPT ![c] = IF c \in subs THEN "closed" ELSE @]
  /\ UNCHANGED <<ctxDone, swept, queue, todo, readers, sent, newest>>

(* Close, or the end of the parent context.                                 *)
Cancel ==
  /\ ~ctxDone
  /\ ctxDone' = TRUE
  /\ UNCHANGED <<swept, subs, chan, queue, todo, readers, sent, newest>>

(* watchContext runs closeAll once.                                         *)
CloseAll ==
  /\ ctxDone /\ ~swept /\ CanLock
  /\ chan' = [c \in Chan |-> IF c \in subs THEN "closed" ELSE chan[c]]
  /\ subs' = {}
  /\ swept' = TRUE
  /\ UNCHANGED <<ctxDone, queue, todo, readers, sent, newest>>

(* Publish begins: RLock, and the range over the subscriptions.             *)
PublishBegin(p, n) ==
  /\ p \notin readers /\ n > sent[p]
  /\ readers' = readers \cup {p}
  /\ todo' = [todo EXCEPT ![p] = subs]
  /\ sent' = [sent EXCEPT ![p] = n]
  /\ UNCHANGED <<ctxDone, swept, subs, chan, queue, newest>>

Room(c) == Len(queue[c]) < Cap[c]

(* `case ch <- event`, or the default when the buffer is full.              *)
Offer(p, c) ==
  /\ p \in readers /\ c \in todo[p]
  /\ Room(c) \/ ~ctxDone
  /\ todo' = [todo EXCEPT ![p] = @ \ {c}]
  /\ queue' = IF Room(c)
              THEN [queue EXCEPT ![c] = Append(@, [from |-> p, n |-> sent[p]])]
              ELSE queue
  /\ UNCHANGED <<ctxDone, swept, subs, chan, readers, sent, newest>>

(* `case <-b.ctx.Done()`: the remaining subscribers are skipped.            *)
Abandon(p) ==
  /\ p \in readers /\ todo[p] # {} /\ ctxDone
  /\ todo' = [todo EXCEPT ![p] = {}]
  /\ UNCHANGED <<ctxDone, swept, subs, chan, queue, readers, sent, newest>>

PublishEnd(p) ==
  /\ p \in readers /\ todo[p] = {}
  /\ readers' = readers \ {p}
  /\ UNCHANGED <<ctxDone, swept, subs, chan, queue, todo, sent, newest>>

BugReceiveLast(c) ==
  /\ queue[c] # <<>>
  /\ LET e == queue[c][Len(queue[c])] IN
       newest' = [newest EXCEPT ![c][e.from] = e.n]
  /\ queue' = [queue EXCEPT ![c] = SubSeq(@, 1, Len(@) - 1)]
  /\ UNCHANGED <<ctxDone, swept, subs, chan, todo, readers, sent>>

(* A stream handler receives; buffered events survive the close.            *)
Receive(c) ==
  /\ queue[c] # <<>>
  /\ newest' = [newest EXCEPT ![c][Head(queue[c]).from] = Head(queue[c]).n]
  /\ queue' = [queue EXCEPT ![c] = Tail(@)]
  /\ UNCHANGED <<ctxDone, swept, subs, chan, todo, readers, sent>>

PublishStep(p) == (\E c \in Chan : Offer(p, c)) \/ Abandon(p) \/ PublishEnd(p)

BNext ==
  \/ \E c \in Chan : Subscribe(c) \/ Unsubscribe(c) \/ Receive(c)
  \/ Cancel
  \/ CloseAll
  \/ \E p \in Publisher : (\E n \in Nat : PublishBegin(p, n)) \/ PublishStep(p)

BSpec == BInit /\ [][BNext]_bvars

(* Goroutines run, and RWMutex lets a waiting writer in before new readers. *)
BFairness == /\ SF_bvars(CloseAll)
             /\ \A p \in Publisher : WF_bvars(PublishStep(p))

(***************************************************************************)
(* Properties                                                               *)
(***************************************************************************)

(* broadcaster.go:34-92: no interleaving of Publish, Subscribe, Unsubscribe *)
(* and closeAll sends on a closed channel, closes one twice or writes to    *)
(* the nil map that closeAll leaves: each would panic.                      *)
NeverPanics ==
  /\ \A c \in subs : chan[c] = "open"
  /\ \A p \in readers : todo[p] \subseteq subs
  /\ swept => ctxDone /\ subs = {}

(* broadcaster.go:29-32: when the context ends, every subscriber blocked on *)
(* its channel is released, one that subscribes during the shutdown too.    *)
EveryChannelCloses == ctxDone ~> \A c \in Chan : chan[c] # "open"

(* What makes a subscription FIFO per publisher: an event that is queued is *)
(* newer than what was received and older than what is still to be offered. *)
FifoInv ==
  /\ \A p \in Publisher \ readers : todo[p] = {}
  /\ \A c \in Chan, p \in Publisher :
       /\ newest[c][p] <= sent[p]
       /\ c \in todo[p] => newest[c][p] < sent[p]
  /\ \A c \in Chan : \A i \in 1..Len(queue[c]) :
       /\ newest[c][queue[c][i].from] < queue[c][i].n
       /\ queue[c][i].n <= sent[queue[c][i].from]
       /\ c \in todo[queue[c][i].from] => queue[c][i].n < sent[queue[c][i].from]
       /\ \A j \in 1..(i - 1) :
            queue[c][j].from = queue[c][i].from => queue[c][j].n < queue[c][i].n

BInv == BTypeOK /\ NeverPanics /\ FifoInv

(* Every subscription is a LossyChannel, with several publishers            *)
(* interleaving and the reader at any pace.                                 *)
Subscription(c) == INSTANCE LossyChannel WITH
  Cap <- Cap[c], state <- chan[c], queue <- queue[c], newest <- newest[c]
LossyInit == \A c \in Chan : Subscription(c)!Init
LossyNext == \A c \in Chan : \/ Subscription(c)!Next
                            \/ UNCHANGED <<chan[c], queue[c], newest[c]>>
EachIsLossyChannel == LossyInit /\ [][LossyNext]_bvars
=============================================================================
