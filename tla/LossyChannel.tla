---------------------------- MODULE LossyChannel ----------------------------
(***************************************************************************)
(* What a subscription of compat/monitoring.Broadcaster promises its reader:*)
(* a FIFO buffer of Cap events that is opened and closed once, may lose     *)
(* events when it is full, and never shows two events of one publisher in   *)
(* the wrong order or twice.  Broadcaster implements one per channel.       *)
(***************************************************************************)
EXTENDS Naturals, Sequences

CONSTANTS Publisher, Cap

VARIABLES
  state,  \* "none" before Subscribe, then "open" until it is "closed"
  queue,  \* events [from, n] the reader has not received
  newest  \* newest[p]: the last event of p the reader received

vars == <<state, queue, newest>>

Fresh(p, n) == /\ n > newest[p]
               /\ \A i \in 1..Len(queue) : queue[i].from = p => n > queue[i].n

Init == state = "none" /\ queue = <<>> /\ newest = [p \in Publisher |-> 0]

Open    == state = "none" /\ state' \in {"open", "closed"} /\ UNCHANGED <<queue, newest>>
Close   == state = "open" /\ state' = "closed" /\ UNCHANGED <<queue, newest>>
Deliver == /\ state = "open" /\ Len(queue) < Cap
           /\ Len(queue') = Len(queue) + 1
           /\ LET e == queue'[Len(queue')] IN
                queue' = Append(queue, e) /\ Fresh(e.from, e.n)
           /\ UNCHANGED <<state, newest>>
Receive == /\ queue # <<>>
           /\ Head(queue).n > newest[Head(queue).from]
           /\ newest' = [newest EXCEPT ![Head(queue).from] = Head(queue).n]
           /\ queue' = Tail(queue)
           /\ UNCHANGED state

Next == Open \/ Close \/ Deliver \/ Receive

Spec == Init /\ [][Next]_vars
=============================================================================
