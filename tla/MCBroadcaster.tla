--------------------------- MODULE MCBroadcaster ----------------------------
(***************************************************************************)
(* Small instances of Broadcaster.  A behaviour is about one subject: any    *)
(* publishers and subscribers ("events"), or the observer of the status of  *)
(* the core with the streams of CoreInfoListener over it ("status").        *)
(***************************************************************************)
EXTENDS StatusStream, TLC

CONSTANTS
  MaxEvents, \* bound of the events of each publisher
  c1, c2

VARIABLE subject
mcvars == <<subject, vars>>

MCChan == {c1, c2}
MCCap  == c1 :> 1 @@ c2 :> 2

MCInit == subject \in {"events", "status"} /\ Init

EventsNext ==
  /\ subject = "events" /\ UNCHANGED <<subject, svars>>
  /\ \/ \E c \in Chan : Subscribe(c) \/ Unsubscribe(c) \/ Receive(c)
     \/ Cancel
     \/ CloseAll
     \/ \E p \in Publisher :
          (sent[p] < MaxEvents /\ PublishBegin(p, sent[p] + 1)) \/ PublishStep(p)
StatusNext == subject = "status" /\ Next /\ UNCHANGED subject
MCNext == EventsNext \/ StatusNext

(* Each subject has its own fairness; that of the other one then asks for   *)
(* nothing more: a step of a publisher that has begun, and no stream.       *)
MCSpec == MCInit /\ [][MCNext]_mcvars /\ BFairness /\ Fairness
=============================================================================
