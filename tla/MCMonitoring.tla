---------------------------- MODULE MCMonitoring ----------------------------
(***************************************************************************)
(* Small instances of the two halves of compat/monitoring: the end of the    *)
(* probers with their box (ProbeMonitor), and the way of a result to the    *)
(* streams (ProxyStream).  A behaviour is about one of them, its subject,   *)
(* and the other one rests in its initial state.                            *)
(***************************************************************************)
EXTENDS ProbeMonitor, ProxyStream

VARIABLE subject
monitoring == <<subject, vars, streamVars>>

MCInit == subject \in {"probes", "streams"} /\ Init /\ StreamInit
ProbesNext  == subject = "probes" /\ Next /\ UNCHANGED <<subject, streamVars>>
StreamsNext == subject = "streams" /\ StreamNext /\ UNCHANGED <<subject, vars>>

(* A step of the half that rests is none of MCNext, and the fairness below  *)
(* is that of the half that runs.                                           *)
MCNext == ProbesNext \/ StreamsNext
MCSpec ==
  /\ MCInit /\ [][MCNext]_monitoring
  /\ subject = "probes" => Fairness
  /\ subject = "streams" => StreamFairness
=============================================================================
