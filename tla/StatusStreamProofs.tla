------------------------ MODULE StatusStreamProofs --------------------------
(***************************************************************************)
(* Broadcaster never panics and gives every subscriber a LossyChannel, for  *)
(* any number of publishers and subscribers and any buffer size.  A status  *)
(* stream over it never shows its client a status that was replaced before  *)
(* the stream was opened, as long as every status is set under static.lock. *)
(***************************************************************************)
EXTENDS StatusStream, TLAPS

(***************************************************************************)
(* Broadcaster                                                              *)
(***************************************************************************)
LEMMA BInitInv == BInit => BInv
<1> SUFFICES ASSUME BInit PROVE BInv
  OBVIOUS
<1>1. \A c \in Chan : queue[c] = <<>> /\ Len(queue[c]) = 0 /\ queue[c] \in Seq(Event)
  <2>1. <<>> \in Seq(Event) /\ Len(<<>>) = 0
    OBVIOUS
  <2> QED BY <2>1 DEF BInit
<1>2. BTypeOK
  <2>1. queue \in [Chan -> Seq(Event)] /\ \A c \in Chan : Len(queue[c]) <= Cap[c]
    BY <1>1, BroadcasterAssumption DEF BInit
  <2>2. newest \in [Chan -> [Publisher -> Nat]] /\ sent \in [Publisher -> Nat]
    BY DEF BInit
  <2> QED BY <2>1, <2>2 DEF BInit, BTypeOK
<1>3. NeverPanics /\ FifoInv
  BY <1>1 DEF BInit, NeverPanics, FifoInv
<1> QED BY <1>2, <1>3 DEF BInv

(* What Append and Tail do to the elements of a buffer.                     *)
LEMMA AppendFacts ==
  ASSUME NEW S, NEW q \in Seq(S), NEW e \in S
  PROVE  /\ Append(q, e) \in Seq(S)
         /\ Len(Append(q, e)) = Len(q) + 1
         /\ \A i \in 1..Len(q) : Append(q, e)[i] = q[i]
         /\ Append(q, e)[Len(q) + 1] = e
OBVIOUS

LEMMA ElementFacts ==
  ASSUME NEW S, NEW q \in Seq(S)
  PROVE  Len(q) \in Nat /\ \A i \in 1..Len(q) : q[i] \in S
OBVIOUS

LEMMA TailFacts ==
  ASSUME NEW S, NEW q \in Seq(S), q # <<>>
  PROVE  /\ Head(q) \in S /\ Head(q) = q[1]
         /\ Tail(q) \in Seq(S)
         /\ Len(q) \in Nat \ {0} /\ Len(Tail(q)) = Len(q) - 1
         /\ \A i \in 1..(Len(q) - 1) : Tail(q)[i] = q[i + 1]
OBVIOUS

LEMMA BTypeStep == BTypeOK /\ [BNext]_bvars => BTypeOK'
<1> SUFFICES ASSUME BTypeOK, [BNext]_bvars PROVE BTypeOK'
  OBVIOUS
<1> USE BroadcasterAssumption DEF BTypeOK
<1>1. ASSUME NEW c \in Chan, Subscribe(c) PROVE BTypeOK'
  BY <1>1 DEF Subscribe
<1>2. ASSUME NEW c \in Chan, Unsubscribe(c) PROVE BTypeOK'
  BY <1>2 DEF Unsubscribe
<1>3. ASSUME NEW c \in Chan, Receive(c) PROVE BTypeOK'
  <2>1. /\ Head(queue[c]) \in Event /\ Tail(queue[c]) \in Seq(Event)
        /\ Len(Tail(queue[c])) = Len(queue[c]) - 1 /\ Len(queue[c]) \in Nat
    BY <1>3, TailFacts DEF Receive
  <2>2. queue' \in [Chan -> Seq(Event)] /\ \A d \in Chan : Len(queue'[d]) <= Cap[d]
    BY <1>3, <2>1 DEF Receive
  <2>3. newest' \in [Chan -> [Publisher -> Nat]]
    BY <1>3, <2>1 DEF Receive, Event
  <2> QED BY <1>3, <2>2, <2>3 DEF Receive
<1>4. CASE Cancel
  BY <1>4 DEF Cancel
<1>5. CASE CloseAll
  BY <1>5 DEF CloseAll
<1>6. ASSUME NEW p \in Publisher, NEW n \in Nat, PublishBegin(p, n) PROVE BTypeOK'
  BY <1>6 DEF PublishBegin
<1>7. ASSUME NEW p \in Publisher, NEW c \in Chan, Offer(p, c) PROVE BTypeOK'
  <2> DEFINE e == [from |-> p, n |-> sent[p]]
  <2>1. e \in Event
    BY DEF Event
  <2>2. /\ Append(queue[c], e) \in Seq(Event)
        /\ Len(Append(queue[c], e)) = Len(queue[c]) + 1 /\ Len(queue[c]) \in Nat
    BY <2>1, AppendFacts
  <2>3. queue' \in [Chan -> Seq(Event)] /\ \A d \in Chan : Len(queue'[d]) <= Cap[d]
    BY <1>7, <2>2 DEF Offer, Room
  <2> QED BY <1>7, <2>3 DEF Offer
<1>8. ASSUME NEW p \in Publisher, Abandon(p) \/ PublishEnd(p) PROVE BTypeOK'
  BY <1>8 DEF Abandon, PublishEnd
<1>9. CASE UNCHANGED bvars
  BY <1>9 DEF bvars
<1> QED
  BY <1>1, <1>2, <1>3, <1>4, <1>5, <1>6, <1>7, <1>8, <1>9 DEF BNext, PublishStep

LEMMA NeverPanicsStep == BTypeOK /\ NeverPanics /\ [BNext]_bvars => NeverPanics'
<1> SUFFICES ASSUME BTypeOK, NeverPanics, [BNext]_bvars PROVE NeverPanics'
  OBVIOUS
<1> USE DEF BTypeOK, NeverPanics
<1>1. ASSUME NEW c \in Chan, Subscribe(c) \/ Unsubscribe(c) \/ Receive(c)
      PROVE  NeverPanics'
  BY <1>1 DEF Subscribe, Unsubscribe, Receive, CanLock
<1>2. CASE Cancel \/ CloseAll
  BY <1>2 DEF Cancel, CloseAll, CanLock
<1>3. ASSUME NEW p \in Publisher, NEW n \in Nat, PublishBegin(p, n)
      PROVE  NeverPanics'
  BY <1>3 DEF PublishBegin
<1>4. ASSUME NEW p \in Publisher, PublishStep(p) PROVE NeverPanics'
  <2>1. /\ UNCHANGED <<ctxDone, swept, subs, chan>> /\ readers' \subseteq readers
        /\ \A q \in Publisher : todo'[q] \subseteq todo[q]
    BY <1>4 DEF PublishStep, Offer, Abandon, PublishEnd
  <2> QED BY <2>1
<1>5. CASE UNCHANGED bvars
  BY <1>5 DEF bvars
<1> QED BY <1>1, <1>2, <1>3, <1>4, <1>5 DEF BNext

LEMMA FifoStep == BInv /\ [BNext]_bvars => FifoInv'
<1> SUFFICES ASSUME BInv, [BNext]_bvars PROVE FifoInv'
  OBVIOUS
<1>0. /\ FifoInv
      /\ queue \in [Chan -> Seq(Event)] /\ newest \in [Chan -> [Publisher -> Nat]]
      /\ sent \in [Publisher -> Nat] /\ todo \in [Publisher -> SUBSET Chan]
      /\ readers \in SUBSET Publisher
      /\ \A c \in Chan : \A i \in 1..Len(queue[c]) : queue[c][i] \in Event
      /\ \A e \in Event : e.from \in Publisher /\ e.n \in Nat
  <2>1. \A e \in Event : e.from \in Publisher /\ e.n \in Nat
    BY DEF Event
  <2>2. \A c \in Chan : \A i \in 1..Len(queue[c]) : queue[c][i] \in Event
    BY ElementFacts DEF BInv, BTypeOK
  <2> QED BY <2>1, <2>2 DEF BInv, BTypeOK
<1>1. ASSUME NEW c \in Chan, Subscribe(c) \/ Unsubscribe(c) PROVE FifoInv'
  BY <1>0, <1>1 DEF Subscribe, Unsubscribe, FifoInv
<1>2. CASE Cancel \/ CloseAll
  BY <1>0, <1>2 DEF Cancel, CloseAll, FifoInv
<1>3. ASSUME NEW c \in Chan, Receive(c) PROVE FifoInv'
  <2> DEFINE q == queue[c]
             h == Head(queue[c])
  <2>1. /\ h = q[1] /\ h \in Event
        /\ Len(q) \in Nat \ {0} /\ Len(Tail(q)) = Len(q) - 1
        /\ \A i \in 1..(Len(q) - 1) : Tail(q)[i] = q[i + 1]
    BY <1>0, <1>3, TailFacts DEF Receive
  <2>2. queue'[c] = Tail(q) /\ \A d \in Chan \ {c} : queue'[d] = queue[d]
    BY <1>0, <1>3 DEF Receive
  <2>3. /\ newest'[c] = [newest[c] EXCEPT ![h.from] = h.n]
        /\ \A d \in Chan \ {c} : newest'[d] = newest[d]
    BY <1>0, <1>3 DEF Receive
  <2>4. UNCHANGED <<todo, readers, sent>>
    BY <1>0, <1>3 DEF Receive
  <2>5. /\ h.from \in Publisher /\ h.n \in Nat /\ h.n <= sent[h.from]
        /\ c \in todo[h.from] => h.n < sent[h.from]
    <3>1. 1 \in 1..Len(q) /\ q[1] \in Event
      BY <2>1
    <3>2. /\ q[1].n <= sent[q[1].from]
          /\ c \in todo[q[1].from] => q[1].n < sent[q[1].from]
      BY <3>1, <1>0 DEF FifoInv
    <3> QED BY <3>1, <3>2, <2>1, <1>0
  <2>6. \A p \in Publisher :
          /\ newest'[c][p] <= sent[p]
          /\ c \in todo[p] => newest'[c][p] < sent[p]
    BY <2>3, <2>5, <1>0 DEF FifoInv
  <2>7. ASSUME NEW i \in 1..Len(Tail(q))
        PROVE  /\ newest'[c][Tail(q)[i].from] < Tail(q)[i].n
               /\ Tail(q)[i].n <= sent[Tail(q)[i].from]
               /\ c \in todo[Tail(q)[i].from] => Tail(q)[i].n < sent[Tail(q)[i].from]
               /\ \A j \in 1..(i - 1) : Tail(q)[j].from = Tail(q)[i].from
                                          => Tail(q)[j].n < Tail(q)[i].n
    <3>1. /\ i + 1 \in 1..Len(q) /\ 1 \in 1..((i + 1) - 1) /\ Tail(q)[i] = q[i + 1]
          /\ \A j \in 1..(i - 1) : j + 1 \in 1..((i + 1) - 1) /\ Tail(q)[j] = q[j + 1]
      BY <2>1
    <3>2. q[1].from = q[i + 1].from => h.n < q[i + 1].n
      BY <3>1, <2>1, <1>0 DEF FifoInv
    <3>3. newest'[c][q[i + 1].from] < q[i + 1].n
      BY <3>1, <3>2, <2>1, <2>3, <2>5, <1>0 DEF FifoInv
    <3> QED BY <3>1, <3>3, <1>0 DEF FifoInv
  <2>8. \A d \in Chan \ {c} : /\ queue'[d] = queue[d] /\ newest'[d] = newest[d]
    BY <2>2, <2>3
  <2>9. \A p \in Publisher \ readers' : todo'[p] = {}
    BY <2>4, <1>0 DEF FifoInv
  <2>10. ASSUME NEW d \in Chan PROVE
           /\ \A p \in Publisher :
                /\ newest'[d][p] <= sent'[p]
                /\ d \in todo'[p] => newest'[d][p] < sent'[p]
           /\ \A i \in 1..Len(queue'[d]) :
                /\ newest'[d][queue'[d][i].from] < queue'[d][i].n
                /\ queue'[d][i].n <= sent'[queue'[d][i].from]
                /\ d \in todo'[queue'[d][i].from]
                     => queue'[d][i].n < sent'[queue'[d][i].from]
                /\ \A j \in 1..(i - 1) : queue'[d][j].from = queue'[d][i].from
                                           => queue'[d][j].n < queue'[d][i].n
    <3>1. CASE d = c
      BY <3>1, <2>2, <2>4, <2>6, <2>7
    <3>2. CASE d # c
      BY <3>2, <2>8, <2>4, <1>0 DEF FifoInv
    <3> QED BY <3>1, <3>2
  <2>11. \A d \in Chan, p \in Publisher :
           /\ newest'[d][p] <= sent'[p]
           /\ d \in todo'[p] => newest'[d][p] < sent'[p]
    BY <2>10
  <2>12. \A d \in Chan : \A i \in 1..Len(queue'[d]) :
           /\ newest'[d][queue'[d][i].from] < queue'[d][i].n
           /\ queue'[d][i].n <= sent'[queue'[d][i].from]
           /\ d \in todo'[queue'[d][i].from]
                => queue'[d][i].n < sent'[queue'[d][i].from]
           /\ \A j \in 1..(i - 1) : queue'[d][j].from = queue'[d][i].from
                                      => queue'[d][j].n < queue'[d][i].n
    BY <2>10
  <2> QED BY <2>9, <2>11, <2>12 DEF FifoInv
<1>4. ASSUME NEW p \in Publisher, NEW n \in Nat, PublishBegin(p, n) PROVE FifoInv'
  <2>1. /\ sent' = [sent EXCEPT ![p] = n] /\ n > sent[p]
        /\ todo' = [todo EXCEPT ![p] = subs]
        /\ UNCHANGED <<queue, newest>> /\ readers' = readers \cup {p}
    BY <1>0, <1>4 DEF PublishBegin
  <2>2. \A q \in Publisher \ readers' : todo'[q] = {}
    BY <2>1, <1>0 DEF FifoInv
  <2>3. \A c \in Chan, q \in Publisher :
          /\ newest'[c][q] <= sent'[q]
          /\ c \in todo'[q] => newest'[c][q] < sent'[q]
    BY <2>1, <1>0 DEF FifoInv
  <2>4. \A c \in Chan : \A i \in 1..Len(queue[c]) :
          /\ queue[c][i].n <= sent'[queue[c][i].from]
          /\ c \in todo'[queue[c][i].from] => queue[c][i].n < sent'[queue[c][i].from]
    BY <2>1, <1>0 DEF FifoInv
  <2> QED BY <2>1, <2>2, <2>3, <2>4, <1>0 DEF FifoInv
<1>5. ASSUME NEW p \in Publisher, NEW c \in Chan, Offer(p, c) PROVE FifoInv'
  <2> DEFINE e == [from |-> p, n |-> sent[p]]
             q == queue[c]
  <2>1. /\ c \in todo[p] /\ p \in readers
        /\ todo' = [todo EXCEPT ![p] = @ \ {c}]
        /\ UNCHANGED <<newest, readers, sent>>
    BY <1>0, <1>5 DEF Offer
  <2>2. \A d \in Chan, r \in Publisher : d \in todo'[r] => d \in todo[r]
    BY <2>1, <1>0
  <2>3. c \notin todo'[p]
    BY <2>1, <1>0
  <2>4. \A r \in Publisher \ readers' : todo'[r] = {}
    BY <2>1, <1>0 DEF FifoInv
  <2>5. \A d \in Chan, r \in Publisher :
          /\ newest'[d][r] <= sent'[r]
          /\ d \in todo'[r] => newest'[d][r] < sent'[r]
    BY <2>1, <2>2, <1>0 DEF FifoInv
  <2>6. CASE queue' = queue
    BY <2>1, <2>2, <2>4, <2>5, <2>6, <1>0 DEF FifoInv
  <2>7. CASE queue' = [queue EXCEPT ![c] = Append(q, e)]
    <3>1. /\ Len(Append(q, e)) = Len(q) + 1 /\ Len(q) \in Nat
          /\ \A i \in 1..Len(q) : Append(q, e)[i] = q[i]
          /\ Append(q, e)[Len(q) + 1] = e
      BY <1>0, AppendFacts, ElementFacts DEF Event
    <3>2. queue'[c] = Append(q, e) /\ \A d \in Chan \ {c} : queue'[d] = queue[d]
      BY <2>7, <1>0
    <3>3. ASSUME NEW i \in 1..Len(queue'[c])
          PROVE  /\ newest[c][queue'[c][i].from] < queue'[c][i].n
                 /\ queue'[c][i].n <= sent[queue'[c][i].from]
                 /\ c \in todo'[queue'[c][i].from]
                      => queue'[c][i].n < sent[queue'[c][i].from]
                 /\ \A j \in 1..(i - 1) : queue'[c][j].from = queue'[c][i].from
                                            => queue'[c][j].n < queue'[c][i].n
      <4>1. CASE i \in 1..Len(q)
        <5>1. /\ queue'[c][i] = q[i] /\ q[i] \in Event
              /\ \A j \in 1..(i - 1) : j \in 1..Len(q) /\ queue'[c][j] = q[j]
          BY <4>1, <3>1, <3>2, <1>0
        <5>2. /\ newest[c][q[i].from] < q[i].n
              /\ q[i].n <= sent[q[i].from]
              /\ c \in todo[q[i].from] => q[i].n < sent[q[i].from]
              /\ \A j \in 1..(i - 1) : q[j].from = q[i].from => q[j].n < q[i].n
          BY <4>1, <1>0 DEF FifoInv
        <5>3. c \in todo'[q[i].from] => c \in todo[q[i].from]
          BY <5>1, <2>2, <1>0
        <5> QED BY <5>1, <5>2, <5>3
      <4>2. CASE i = Len(q) + 1
        <5>1. queue'[c][i] = e /\ e.from = p /\ e.n = sent[p]
          BY <4>2, <3>1, <3>2
        <5>2. \A j \in 1..(i - 1) : /\ j \in 1..Len(q) /\ queue'[c][j] = q[j]
                                    /\ q[j].from = p => q[j].n < sent[p]
          BY <4>2, <3>1, <3>2, <2>1, <1>0 DEF FifoInv
        <5>3. newest[c][p] < sent[p]
          BY <2>1, <1>0 DEF FifoInv
        <5>4. newest[c][queue'[c][i].from] < queue'[c][i].n
          BY <5>1, <5>3
        <5>5. /\ queue'[c][i].n <= sent[queue'[c][i].from]
              /\ c \notin todo'[queue'[c][i].from]
          BY <5>1, <2>3, <1>0
        <5>6. ASSUME NEW j \in 1..(i - 1), queue'[c][j].from = queue'[c][i].from
              PROVE  queue'[c][j].n < queue'[c][i].n
          BY <5>1, <5>2, <5>6
        <5> QED BY <5>4, <5>5, <5>6
      <4>3. i \in 1..Len(q) \/ i = Len(q) + 1
        BY <3>1, <3>2
      <4> QED BY <4>1, <4>2, <4>3
    <3>4. \A d \in Chan \ {c} : \A i \in 1..Len(queue'[d]) :
            /\ newest[d][queue'[d][i].from] < queue'[d][i].n
            /\ queue'[d][i].n <= sent[queue'[d][i].from]
            /\ d \in todo'[queue'[d][i].from]
                 => queue'[d][i].n < sent[queue'[d][i].from]
            /\ \A j \in 1..(i - 1) : queue'[d][j].from = queue'[d][i].from
                                       => queue'[d][j].n < queue'[d][i].n
      BY <3>2, <2>2, <1>0 DEF FifoInv
    <3> QED BY <3>3, <3>4, <2>1, <2>4, <2>5 DEF FifoInv
  <2> QED BY <1>5, <2>6, <2>7 DEF Offer
<1>6. ASSUME NEW p \in Publisher, Abandon(p) \/ PublishEnd(p) PROVE FifoInv'
  <2>1. /\ UNCHANGED <<queue, newest, sent>>
        /\ \A r \in Publisher : todo'[r] \subseteq todo[r]
        /\ \A r \in Publisher \ readers' : todo'[r] = {}
    BY <1>0, <1>6 DEF Abandon, PublishEnd, FifoInv
  <2> QED BY <2>1, <1>0 DEF FifoInv
<1>7. CASE UNCHANGED bvars
  BY <1>0, <1>7 DEF bvars, FifoInv
<1> QED
  BY <1>1, <1>2, <1>3, <1>4, <1>5, <1>6, <1>7 DEF BNext, PublishStep

LEMMA BInvStep == BInv /\ [BNext]_bvars => BInv'
BY BTypeStep, NeverPanicsStep, FifoStep DEF BInv

(* The invariant holds for any number of publishers and subscribers.        *)
THEOREM BroadcasterInvariant == BSpec => []BInv
<1>1. BInit => BInv
  BY BInitInv
<1>2. BInv /\ [BNext]_bvars => BInv'
  BY BInvStep
<1> QED BY <1>1, <1>2, PTL DEF BSpec

(* broadcaster.go:34-92: no send on a closed channel, no double close, no   *)
(* write to the nil map, whatever the interleaving.                         *)
THEOREM NoPanic == BSpec => []NeverPanics
<1>1. BInv => NeverPanics
  BY DEF BInv
<1> QED BY <1>1, BroadcasterInvariant, PTL

(* Every subscription is a LossyChannel: FIFO per publisher, never closed   *)
(* twice, losing events only when its buffer is full.                       *)
LEMMA SubscriptionStep ==
  ASSUME BInv, BInv', [BNext]_bvars, NEW c \in Chan
  PROVE  Subscription(c)!Next \/ UNCHANGED <<chan[c], queue[c], newest[c]>>
<1>0. /\ chan \in [Chan -> {"none", "open", "closed"}]
      /\ queue \in [Chan -> Seq(Event)] /\ newest \in [Chan -> [Publisher -> Nat]]
      /\ sent \in [Publisher -> Nat] /\ todo \in [Publisher -> SUBSET Chan]
      /\ Len(queue[c]) \in Nat
      /\ NeverPanics /\ FifoInv
  BY ElementFacts DEF BInv, BTypeOK
<1>1. ASSUME NEW d \in Chan, Subscribe(d) \/ Unsubscribe(d)
      PROVE  \/ Subscription(c)!Open \/ Subscription(c)!Close
             \/ UNCHANGED <<chan[c], queue[c], newest[c]>>
  BY <1>0, <1>1 DEF Subscribe, Unsubscribe, NeverPanics,
     Subscription!Open, Subscription!Close
<1>2. CASE Cancel \/ CloseAll
  BY <1>0, <1>2 DEF Cancel, CloseAll, NeverPanics, Subscription!Next, Subscription!Close
<1>3. ASSUME NEW d \in Chan, Receive(d)
      PROVE  Subscription(c)!Receive \/ UNCHANGED <<chan[c], queue[c], newest[c]>>
  <2>1. CASE d # c
    BY <1>0, <1>3, <2>1 DEF Receive
  <2>2. CASE d = c
    <3>1. queue[c] # <<>> /\ Head(queue[c]) = queue[c][1] /\ 1 \in 1..Len(queue[c])
      BY <1>0, <1>3, <2>2, TailFacts DEF Receive
    <3>2. Head(queue[c]).n > newest[c][Head(queue[c]).from]
      <4>1. newest[c][queue[c][1].from] < queue[c][1].n /\ queue[c][1] \in Event
        BY <1>0, <3>1, ElementFacts DEF FifoInv
      <4> QED BY <4>1, <3>1, <1>0 DEF Event
    <3>3. /\ newest'[c] = [newest[c] EXCEPT ![Head(queue[c]).from] = Head(queue[c]).n]
          /\ queue'[c] = Tail(queue[c]) /\ chan' = chan
      BY <1>0, <1>3, <2>2 DEF Receive
    <3> QED BY <3>1, <3>2, <3>3 DEF Subscription!Receive
  <2> QED BY <2>1, <2>2
<1>4. ASSUME NEW p \in Publisher, NEW n \in Nat, PublishBegin(p, n)
      PROVE  UNCHANGED <<chan[c], queue[c], newest[c]>>
  BY <1>4 DEF PublishBegin
<1>5. ASSUME NEW p \in Publisher, NEW d \in Chan, Offer(p, d)
      PROVE  Subscription(c)!Deliver \/ UNCHANGED <<chan[c], queue[c], newest[c]>>
  <2>1. CASE d # c \/ ~Room(d)
    BY <1>0, <1>5, <2>1 DEF Offer
  <2>2. CASE d = c /\ Room(d)
    <3> DEFINE e == [from |-> p, n |-> sent[p]]
    <3>1. /\ queue'[c] = Append(queue[c], e) /\ UNCHANGED <<chan, newest>>
          /\ c \in todo[p] /\ p \in readers
      BY <1>0, <1>5, <2>2 DEF Offer
    <3>2. /\ Len(queue'[c]) = Len(queue[c]) + 1
          /\ queue'[c][Len(queue'[c])] = e
      BY <1>0, <3>1, AppendFacts DEF Event
    <3>3. chan[c] = "open"
      BY <1>0, <3>1 DEF NeverPanics
    <3>4. Subscription(c)!Fresh(p, sent[p])
      BY <1>0, <3>1 DEF FifoInv, Subscription!Fresh
    <3>5. Len(queue[c]) < Cap[c]
      BY <2>2 DEF Room
    <3> QED BY <3>1, <3>2, <3>3, <3>4, <3>5 DEF Subscription!Deliver
  <2> QED BY <2>1, <2>2
<1>6. ASSUME NEW p \in Publisher, Abandon(p) \/ PublishEnd(p)
      PROVE  UNCHANGED <<chan[c], queue[c], newest[c]>>
  BY <1>6 DEF Abandon, PublishEnd
<1>7. CASE UNCHANGED bvars
  BY <1>7 DEF bvars
<1> QED
  BY <1>1, <1>2, <1>3, <1>4, <1>5, <1>6, <1>7
  DEF BNext, PublishStep, Subscription!Next

THEOREM SubscriptionsAreLossyChannels == BSpec => EachIsLossyChannel
<1>1. BInit => LossyInit
  BY DEF BInit, LossyInit, Subscription!Init
<1>2. BInv /\ BInv' /\ [BNext]_bvars => [LossyNext]_bvars
  BY SubscriptionStep DEF LossyNext
<1> QED BY <1>1, <1>2, BroadcasterInvariant, PTL DEF BSpec, EachIsLossyChannel

(***************************************************************************)
(* StatusStream                                                             *)
(***************************************************************************)
LEMMA StepOfBroadcaster == TypeOK /\ [Next]_vars => [BNext]_bvars
<1> SUFFICES ASSUME TypeOK, [Next]_vars PROVE [BNext]_bvars
  OBVIOUS
<1>1. ASSUME NEW p \in Publisher, WriteStatus(p) PROVE UNCHANGED bvars
  BY <1>1 DEF WriteStatus
<1>2. ASSUME NEW p \in Publisher, PublishStatus(p) PROVE BNext
  BY <1>2 DEF PublishStatus, BNext, TypeOK
<1>3. ASSUME NEW p \in Publisher, EndPublish(p) PROVE BNext
  BY <1>3 DEF EndPublish, BNext, PublishStep
<1>4. ASSUME NEW p \in Publisher, NEW c \in Chan, OfferStatus(p, c) PROVE BNext
  BY <1>4 DEF OfferStatus, BNext, PublishStep
<1>5. ASSUME NEW c \in Chan, OpenStream(c) \/ SendEvent(c) \/ HangUp(c) PROVE BNext
  BY <1>5 DEF OpenStream, SendEvent, HangUp, BNext
<1>6. ASSUME NEW c \in Chan, SendSnapshot(c) PROVE UNCHANGED bvars
  BY <1>6 DEF SendSnapshot
<1>7. CASE UNCHANGED vars
  BY <1>7 DEF vars
<1> QED BY <1>1, <1>2, <1>3, <1>4, <1>5, <1>6, <1>7 DEF Next, Writer, Stream

LEMMA InitInv == Init => SInv
<1> SUFFICES ASSUME Init PROVE SInv
  OBVIOUS
<1>1. BInv
  BY BInitInv DEF Init
<1>2. TypeOK
  BY <1>1, StatusAssumption DEF Init, TypeOK, BInv
<1>3. NeverOlderThanStream
  BY DEF Init, NeverOlderThanStream
<1>4. SerialInv
  BY DEF Init, BInit, SerialInv, Busy
<1> QED BY <1>1, <1>2, <1>3, <1>4 DEF SInv

LEMMA TypeStep == TypeOK /\ [Next]_vars => TypeOK'
<1> SUFFICES ASSUME TypeOK, [Next]_vars PROVE TypeOK'
  OBVIOUS
<1>1. BTypeOK'
  BY StepOfBroadcaster, BTypeStep DEF TypeOK
<1> USE <1>1 DEF TypeOK
<1>2. ASSUME NEW p \in Publisher, WriteStatus(p) PROVE TypeOK'
  BY <1>2 DEF WriteStatus
<1>3. ASSUME NEW p \in Publisher, PublishStatus(p) \/ EndPublish(p) PROVE TypeOK'
  BY <1>3 DEF PublishStatus, EndPublish, svars
<1>4. ASSUME NEW p \in Publisher, NEW c \in Chan, OfferStatus(p, c) PROVE TypeOK'
  BY <1>4 DEF OfferStatus
<1>5. ASSUME NEW c \in Chan, OpenStream(c) \/ HangUp(c) \/ SendSnapshot(c) PROVE TypeOK'
  BY <1>5 DEF OpenStream, HangUp, SendSnapshot
<1>6. ASSUME NEW c \in Chan, SendEvent(c) PROVE TypeOK'
  <2>1. Head(queue[c]).n \in Nat
    BY <1>6, TailFacts DEF SendEvent, Receive, BTypeOK, Event
  <2> QED BY <1>6, <2>1 DEF SendEvent
<1>7. CASE UNCHANGED vars
  BY <1>7 DEF vars, svars
<1> QED BY <1>2, <1>3, <1>4, <1>5, <1>6, <1>7 DEF Next, Writer, Stream

(* Each kind of step preserves the two invariants about versions.           *)
LEMMA SerialStep ==
  ASSUME Locked, SInv, [Next]_vars
  PROVE  SerialInv' /\ NeverOlderThanStream'
<1>0. /\ version \in Nat /\ saved \in [Publisher -> Nat] /\ subAt \in [Chan -> Nat]
      /\ seen \in [Chan -> Nat] /\ sent \in [Publisher -> Nat]
      /\ pc \in [Chan -> {"idle", "snapshot", "listen", "ended"}]
      /\ chan \in [Chan -> {"none", "open", "closed"}]
      /\ queue \in [Chan -> Seq(Event)] /\ todo \in [Publisher -> SUBSET Chan]
      /\ \A c \in Chan : Len(queue[c]) \in Nat
      /\ \A c \in Chan : \A i \in 1..Len(queue[c]) : queue[c][i].n \in Nat
      /\ NeverPanics
  <2>1. \A c \in Chan : /\ Len(queue[c]) \in Nat
                       /\ \A i \in 1..Len(queue[c]) : queue[c][i] \in Event
    BY ElementFacts DEF SInv, BInv, BTypeOK
  <2> QED BY <2>1 DEF SInv, TypeOK, BInv, BTypeOK, Event
<1>1. ASSUME NEW p \in Publisher, WriteStatus(p)
      PROVE  SerialInv' /\ NeverOlderThanStream'
  BY <1>0, <1>1 DEF WriteStatus, MayWrite, Busy, bvars, SInv, SerialInv, NeverOlderThanStream
<1>2. ASSUME NEW p \in Publisher, PublishStatus(p)
      PROVE  SerialInv' /\ NeverOlderThanStream'
  BY <1>0, <1>2 DEF PublishStatus, PublishBegin, Busy, SInv, SerialInv, NeverOlderThanStream
<1>3. ASSUME NEW p \in Publisher, EndPublish(p)
      PROVE  SerialInv' /\ NeverOlderThanStream'
  BY <1>0, <1>3 DEF EndPublish, PublishEnd, svars, Busy, SInv, SerialInv, NeverOlderThanStream
<1>4. ASSUME NEW p \in Publisher, NEW c \in Chan, OfferStatus(p, c)
      PROVE  SerialInv' /\ NeverOlderThanStream'
  <2> DEFINE e == [from |-> p, n |-> sent[p]]
  <2>1. /\ p \in readers /\ c \in todo[p] /\ c \in subs /\ pc[c] # "idle"
        /\ UNCHANGED <<subs, chan, readers, sent, version, saved, pc, subAt, seen>>
    BY <1>0, <1>4 DEF OfferStatus, Offer, NeverPanics, SInv, SerialInv
  <2>2. \A d \in Chan \ {c} : queue'[d] = queue[d]
    BY <1>0, <1>4 DEF OfferStatus, Offer
  <2>3. \A i \in 1..Len(queue'[c]) : queue'[c][i].n >= subAt[c]
    <3>1. CASE queue' = queue
      BY <3>1 DEF SInv, SerialInv
    <3>2. CASE queue' = [queue EXCEPT ![c] = Append(@, e)]
      <4>1. queue'[c] = Append(queue[c], e)
        BY <1>0, <3>2
      <4>2. /\ Len(queue'[c]) = Len(queue[c]) + 1
            /\ \A i \in 1..Len(queue[c]) : queue'[c][i] = queue[c][i]
            /\ queue'[c][Len(queue[c]) + 1] = e
        BY <1>0, <4>1, AppendFacts DEF Event
      <4>3. sent[p] >= subAt[c]
        BY <1>0, <2>1 DEF SInv, SerialInv
      <4>4. \A i \in 1..Len(queue[c]) : queue[c][i].n >= subAt[c]
        BY DEF SInv, SerialInv
      <4>5. ASSUME NEW i \in 1..Len(queue'[c]) PROVE queue'[c][i].n >= subAt[c]
        <5>1. i \in 1..Len(queue[c]) \/ i = Len(queue[c]) + 1
          BY <1>0, <4>2
        <5> QED BY <5>1, <4>2, <4>3, <4>4
      <4> QED BY <4>5
    <3> QED BY <1>4, <3>1, <3>2 DEF OfferStatus, Offer
  <2> QED
    BY <1>0, <2>1, <2>2, <2>3 DEF Busy, SInv, SerialInv, NeverOlderThanStream
<1>5. ASSUME NEW c \in Chan, OpenStream(c)
      PROVE  SerialInv' /\ NeverOlderThanStream'
  <2>1. /\ pc[c] = "idle" /\ queue[c] = <<>> /\ Len(queue[c]) = 0
        /\ pc' = [pc EXCEPT ![c] = "snapshot"]
        /\ subAt' = [subAt EXCEPT ![c] = version]
        /\ subs' \subseteq subs \cup {c}
        /\ \A d \in Chan \ {c} : chan'[d] = chan[d]
        /\ UNCHANGED <<queue, readers, sent, version, saved, seen>>
    BY <1>0, <1>5 DEF OpenStream, Subscribe, SInv, SerialInv
  <2> QED BY <1>0, <2>1 DEF Busy, SInv, SerialInv, NeverOlderThanStream
<1>6. ASSUME NEW c \in Chan, SendSnapshot(c)
      PROVE  SerialInv' /\ NeverOlderThanStream'
  BY <1>0, <1>6 DEF SendSnapshot, bvars, Busy, SInv, SerialInv, NeverOlderThanStream
<1>7. ASSUME NEW c \in Chan, SendEvent(c)
      PROVE  SerialInv' /\ NeverOlderThanStream'
  <2>1. /\ queue[c] # <<>> /\ pc[c] = "listen"
        /\ queue' = [queue EXCEPT ![c] = Tail(@)]
        /\ seen' = [seen EXCEPT ![c] = Head(queue[c]).n]
        /\ UNCHANGED <<subs, chan, readers, sent, version, saved, pc, subAt>>
    BY <1>7 DEF SendEvent, Receive
  <2>2. /\ Head(queue[c]) = queue[c][1] /\ 1 \in 1..Len(queue[c])
        /\ Len(Tail(queue[c])) = Len(queue[c]) - 1
        /\ \A i \in 1..Len(Tail(queue[c])) :
             i + 1 \in 1..Len(queue[c]) /\ Tail(queue[c])[i] = queue[c][i + 1]
    BY <1>0, <2>1, TailFacts
  <2>3. seen'[c] >= subAt[c] /\ \A d \in Chan \ {c} : seen'[d] = seen[d]
    BY <1>0, <2>1, <2>2 DEF SInv, SerialInv
  <2>4. /\ \A i \in 1..Len(queue'[c]) : queue'[c][i].n >= subAt[c]
        /\ \A d \in Chan \ {c} : queue'[d] = queue[d]
    BY <1>0, <2>1, <2>2 DEF SInv, SerialInv
  <2> QED BY <1>0, <2>1, <2>3, <2>4 DEF Busy, SInv, SerialInv, NeverOlderThanStream
<1>8. ASSUME NEW c \in Chan, HangUp(c)
      PROVE  SerialInv' /\ NeverOlderThanStream'
  BY <1>0, <1>8 DEF HangUp, Unsubscribe, Busy, SInv, SerialInv, NeverOlderThanStream
<1>9. CASE UNCHANGED vars
  BY <1>9 DEF vars, bvars, svars, Busy, SInv, SerialInv, NeverOlderThanStream
<1> QED
  BY <1>1, <1>2, <1>3, <1>4, <1>5, <1>6, <1>7, <1>8, <1>9 DEF Next, Writer, Stream

(* The inductive invariant, with the status set under static.lock only: the  *)
(* announcement that is still to come is the newest one (SetCoreStatus).    *)
THEOREM StatusInvariant ==
  ASSUME Locked
  PROVE  SafetySpec => []SInv
<1>1. Init => SInv
  BY InitInv
<1>2. SInv /\ [Next]_vars => SInv'
  <2> SUFFICES ASSUME SInv, [Next]_vars PROVE SInv'
    OBVIOUS
  <2>1. TypeOK'
    BY TypeStep DEF SInv
  <2>2. BInv'
    BY StepOfBroadcaster, BInvStep DEF SInv
  <2> QED BY <2>1, <2>2, SerialStep DEF SInv
<1> QED BY <1>1, <1>2, PTL DEF SafetySpec

(* coreinfo.go:47-54, with the status set under static.lock only.           *)
THEOREM NeverOlder ==
  ASSUME Locked
  PROVE  SafetySpec => []NeverOlderThanStream
<1>1. SInv => NeverOlderThanStream
  BY DEF SInv
<1> QED BY <1>1, StatusInvariant, PTL
=============================================================================
