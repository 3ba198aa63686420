---------------------------- MODULE CoreLifecycle ----------------------------
(***************************************************************************)
(* What the core promises its clients (UI, tray, notification) about the    *)
(* status it announces through CoreInfoListener: the four CoreStates are    *)
(* visited in order, a sing-box instance exists only between the Connect    *)
(* and the Disconnect it belongs to, STARTED is never announced without an  *)
(* instance nor STOPPED with one, and the two transient states end.         *)
(* The promise is made by whoever holds static.lock; it is void as soon as  *)
(* the status is overruled or the instance torn down past the lock.         *)
(* CoreService is shown to implement this module.                           *)
(***************************************************************************)

VARIABLES
  phase,  \* the announced CoreState
  up,     \* whether any sing-box instance of the main service is up
  void    \* the promise is void

vars == <<phase, up, void>>

CoreStates == {"STOPPED", "STARTING", "STARTED", "STOPPING"}

Init == phase = "STOPPED" /\ up = FALSE /\ void = FALSE

Connect    == /\ phase = "STOPPED" /\ ~up
              /\ phase' = "STARTING" /\ up' = FALSE
RaiseBox   == /\ phase = "STARTING" /\ ~up
              /\ up' = TRUE /\ phase' = phase
Ready      == /\ phase = "STARTING" /\ up
              /\ phase' = "STARTED" /\ up' = up
GiveUp     == /\ phase = "STARTING" /\ ~up
              /\ phase' = "STOPPED" /\ up' = up
Disconnect == /\ phase = "STARTED" \/ (phase = "STOPPED" /\ ~up)
              /\ phase' = "STOPPING" /\ up' = up
DropBox    == /\ phase = "STOPPING" /\ up
              /\ up' = FALSE /\ phase' = phase
Finish     == /\ phase = "STOPPING" /\ ~up
              /\ phase' = "STOPPED" /\ up' = up

Kept(step) == ~void /\ void' = FALSE /\ step
Void       == void' = TRUE

Next == \/ Kept(Connect \/ RaiseBox \/ Ready \/ GiveUp \/ Disconnect \/ DropBox \/ Finish)
        \/ Void

SafetySpec == Init /\ [][Next]_vars

(* A transient state is left: the bring-up either raises the box or gives   *)
(* up, and the teardown completes.                                          *)
Fairness == /\ WF_vars(Kept(RaiseBox \/ GiveUp))
            /\ WF_vars(Kept(Ready))
            /\ WF_vars(Kept(DropBox))
            /\ WF_vars(Kept(Finish))

Spec == SafetySpec /\ Fairness
=============================================================================
