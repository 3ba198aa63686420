---------------------------- MODULE StatusStream ----------------------------
(***************************************************************************)
(* v2/hcore/coreinfo.go: SetCoreStatus publishes on static.coreInfoObserver *)
(* and CoreInfoListener streams it, over Broadcaster.  A status is known by *)
(* the number of its assignment to static.CoreState.  Publishers are the    *)
(* goroutines that set the status, channels the open streams.               *)
(***************************************************************************)
EXTENDS Broadcaster

CONSTANTS
  Locked,    \* every SetCoreStatus is made under static.lock
  MaxVersion \* bound on the number of status changes

ASSUME StatusAssumption == Locked \in BOOLEAN /\ MaxVersion \in Nat

VARIABLES
  version, \* number of the last assignment to static.CoreState
  saved,   \* saved[p]: the status p assigned and has yet to publish, or 0
  pc,      \* pc[c]: "idle", "snapshot", "listen" or "ended"
  subAt,   \* subAt[c]: version when the stream subscribed
  seen,    \* seen[c]: the status last sent to the client of the stream
  missed   \* missed[c]: the latest event found the buffer full

svars == <<version, saved, pc, subAt, seen, missed>>
vars  == <<bvars, svars>>

TypeOK ==
  /\ BTypeOK
  /\ version \in Nat
  /\ saved \in [Publisher -> Nat]
  /\ pc \in [Chan -> {"idle", "snapshot", "listen", "ended"}]
  /\ subAt \in [Chan -> Nat]
  /\ seen \in [Chan -> Nat]
  /\ missed \in [Chan -> BOOLEAN]

Init ==
  /\ BInit
  /\ version = 0
  /\ saved = [p \in Publisher |-> 0]
  /\ pc = [c \in Chan |-> "idle"]
  /\ subAt = [c \in Chan |-> 0]
  /\ seen = [c \in Chan |-> 0]
  /\ missed = [c \in Chan |-> FALSE]

Busy(p) == saved[p] # 0 \/ p \in readers

BugMayWrite(p) == ~Busy(p)
MayWrite(p) == ~Busy(p) /\ (Locked => \A q \in Publisher : ~Busy(q))

(* SetCoreStatus assigns static.CoreState, then builds and publishes the    *)
(* event that carries it.                                                   *)
WriteStatus(p) ==
  /\ MayWrite(p) /\ version < MaxVersion
  /\ version' = version + 1
  /\ saved' = [saved EXCEPT ![p] = version + 1]
  /\ UNCHANGED <<bvars, pc, subAt, seen, missed>>

PublishStatus(p) ==
  /\ saved[p] # 0
  /\ PublishBegin(p, saved[p])
  /\ saved' = [saved EXCEPT ![p] = 0]
  /\ UNCHANGED <<version, pc, subAt, seen, missed>>

OfferStatus(p, c) ==
  /\ Offer(p, c)
  /\ missed' = [missed EXCEPT ![c] = ~Room(c)]
  /\ UNCHANGED <<version, saved, pc, subAt, seen>>

EndPublish(p) == PublishEnd(p) /\ UNCHANGED svars

(* The observer's context is Background: the channel is never closed by it. *)
OpenStream(c) ==
  /\ pc[c] = "idle"
  /\ Subscribe(c)
  /\ pc' = [pc EXCEPT ![c] = "snapshot"]
  /\ subAt' = [subAt EXCEPT ![c] = version]
  /\ UNCHANGED <<version, saved, seen, missed>>

(* The first message reads static.CoreState after subscribing.              *)
BugSendSnapshot(c) ==
  /\ pc[c] = "snapshot"
  /\ seen' = [seen EXCEPT ![c] = newest[c][CHOOSE p \in Publisher : TRUE]]
  /\ pc' = [pc EXCEPT ![c] = "listen"]
  /\ UNCHANGED <<bvars, version, saved, subAt, missed>>
SendSnapshot(c) ==
  /\ pc[c] = "snapshot"
  /\ seen' = [seen EXCEPT ![c] = version]
  /\ pc' = [pc EXCEPT ![c] = "listen"]
  /\ UNCHANGED <<bvars, version, saved, subAt, missed>>

SendEvent(c) ==
  /\ pc[c] = "listen"
  /\ Receive(c)
  /\ seen' = [seen EXCEPT ![c] = Head(queue[c]).n]
  /\ UNCHANGED <<version, saved, pc, subAt, missed>>

(* The client hangs up: the deferred Unsubscribe.                           *)
HangUp(c) ==
  /\ pc[c] = "listen"
  /\ Unsubscribe(c)
  /\ pc' = [pc EXCEPT ![c] = "ended"]
  /\ UNCHANGED <<version, saved, subAt, seen, missed>>

Writer(p) == PublishStatus(p) \/ EndPublish(p) \/ \E c \in Chan : OfferStatus(p, c)
Stream(c) == SendSnapshot(c) \/ SendEvent(c)

Next ==
  \/ \E p \in Publisher : WriteStatus(p) \/ Writer(p)
  \/ \E c \in Chan : OpenStream(c) \/ Stream(c) \/ HangUp(c)

SafetySpec == Init /\ [][Next]_vars

(* The goroutines of the writers and of the open streams run.               *)
Fairness == /\ \A p \in Publisher : WF_vars(Writer(p))
            /\ \A c \in Chan : WF_vars(Stream(c))

Spec == SafetySpec /\ Fairness

(***************************************************************************)
(* Properties                                                               *)
(***************************************************************************)

(* coreinfo.go:47-54: a client that opens a stream is never shown a status  *)
(* that was already replaced when it opened it.                             *)
NeverOlderThanStream ==
  \A c \in Chan : pc[c] \in {"listen", "ended"} => seen[c] >= subAt[c]

(* With the writers serialized by static.lock, the one between assignment   *)
(* and publication carries the current status, and everything queued in a   *)
(* stream was assigned after it subscribed.                                 *)
SerialInv ==
  /\ \A p, q \in Publisher : Busy(p) /\ Busy(q) => p = q
  /\ \A p \in Publisher :
       /\ saved[p] # 0 => p \notin readers /\ saved[p] = version
       /\ p \in readers => sent[p] = version
  /\ \A c \in Chan :
       /\ subAt[c] <= version
       /\ \A i \in 1..Len(queue[c]) : queue[c][i].n >= subAt[c]
       /\ pc[c] = "idle" => chan[c] = "none" /\ queue[c] = <<>> /\ c \notin subs

SInv == TypeOK /\ BInv /\ SerialInv /\ NeverOlderThanStream

(* coreinfo.go:50-60: the last status reaches every client, unless its      *)
(* event was dropped because the stream had not taken the one before, even  *)
(* though the first message is read after subscribing and may be newer than *)
(* an event that is still queued.                                           *)
LastStatusArrives ==
  version = MaxVersion ~>
    \A c \in Chan : pc[c] = "listen" => seen[c] = version \/ missed[c]
=============================================================================
