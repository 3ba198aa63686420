------------------------------ MODULE ProbeRace ------------------------------
(***************************************************************************)
(* One probe of one leaf: samples, each a race of the test URLs.  The test   *)
(* engine (probeTag, raceProbeURLs in testengine/engine.go) and the monitor  *)
(* (testDialer, raceURLs in compat/monitoring/stub.go) run the same race;    *)
(* the engine gives up a leaf that fails at once.  TestEngine and            *)
(* ProbeMonitor take such a probe as one step; here its dials outlive it.    *)
(***************************************************************************)
EXTENDS Integers, Sequences, FiniteSets

CONSTANTS
  Urls,       \* the test URLs
  SampleCounts, \* how many samples the strategies take
  Delays,     \* what a dial may measure
  MaxDelay    \* MaxSuccessDelay
Error == 0   \* the delay of a dial that failed

VARIABLES
  prober, urls, samples, \* who probes, the URLs, how many samples: fixed
  rpc,       \* where the probe is: "next", "race", "done"
  dial,      \* the dials of each sample: "off", "dialing", "ended"
  results,   \* the channel of the race
  over,      \* the samples whose context has ended
  cancelled, \* the context of the probe has ended
  tries, okCount, sum, \* what was measured
  verdict,   \* the answer, or what the monitor stores
  closer,    \* who closes the box: "idle", "waits", "closed"
  measured, good, cut \* ghosts: good delays; samples an URL of which answered; those cut short
raceVars == <<prober, urls, samples, rpc, dial, results, over, cancelled, tries, okCount, sum,
              verdict, closer, measured, good, cut>>
fixed == <<prober, urls, samples>>
tally == <<tries, okCount, sum, verdict, measured>>

Indices == UNION {1..n : n \in SampleCounts}
NoVerdict == [failed |-> TRUE, delay |-> 0, tries |-> 0, ok |-> 0]
RaceInit ==
  /\ prober \in {"engine", "monitor"} /\ samples \in SampleCounts /\ urls \in SUBSET Urls \ {{}}
  /\ rpc = "next" /\ dial = [i \in Indices |-> [u \in Urls |-> "off"]]
  /\ results = <<>> /\ over = {} /\ cancelled = FALSE
  /\ tries = 0 /\ okCount = 0 /\ sum = 0 /\ verdict = NoVerdict
  /\ closer = "idle" /\ measured = {} /\ good = {} /\ cut = {}

Ended(i) == cancelled \/ i \in over
IsGood(delay) == delay # Error /\ delay <= MaxDelay
Several == Cardinality(urls) > 1   \* one URL is dialed by the probe itself
Answers(i) == Cardinality({u \in urls : dial[i][u] = "ended"})

(***************************************************************************)
(* Samples                                                                  *)
(***************************************************************************)
BeginSample ==
  /\ rpc = "next" /\ tries < samples /\ ~cancelled
  /\ rpc' = "race" /\ tries' = tries + 1 /\ results' = <<>>
  /\ dial' = [dial EXCEPT ![tries + 1] = [u \in Urls |-> IF u \in urls THEN "dialing" ELSE "off"]]
  /\ UNCHANGED <<fixed, over, cancelled, okCount, sum, verdict, closer, measured, good, cut>>

(* The sample ends with a delay or without: the context of its race ends,   *)
(* and the engine leaves a leaf that fails before it has succeeded.         *)
GivesUp(delay) == prober = "engine" /\ ~IsGood(delay) /\ okCount = 0
EndSample(delay) ==
  /\ over' = over \cup {tries}
  /\ IF IsGood(delay)
     THEN /\ okCount' = okCount + 1 /\ sum' = sum + delay
          /\ measured' = measured \cup {delay}
     ELSE UNCHANGED <<okCount, sum, measured>>
  /\ rpc' = IF GivesUp(delay) THEN "sum" ELSE "next"

(* A dial ends, with a delay or an error, whatever became of its context;   *)
(* the channel has room for all of them.                                    *)
DialEnds(i, u) ==
  /\ dial[i][u] = "dialing" /\ dial' = [dial EXCEPT ![i][u] = "ended"]
  /\ \E delay \in Delays \cup {Error} :
       /\ good' = IF IsGood(delay) /\ ~Ended(i) THEN good \cup {i} ELSE good
       /\ IF rpc = "race" /\ i = tries /\ Several
          THEN results' = Append(results, delay) /\ UNCHANGED <<rpc, over, tally>>
          ELSE IF rpc = "race" /\ i = tries
               THEN EndSample(delay) /\ UNCHANGED <<tries, verdict, results>>
               ELSE UNCHANGED <<rpc, over, tally, results>>
  /\ UNCHANGED <<fixed, cancelled, closer, cut>>

(* The first good answer wins, and the last one decides.                    *)
Receive ==
  /\ rpc = "race" /\ results # <<>>
  /\ results' = Tail(results)
  /\ IF IsGood(Head(results)) \/ (Len(results) = 1 /\ Answers(tries) = Cardinality(urls))
     THEN EndSample(Head(results)) /\ UNCHANGED <<tries, verdict>>
     ELSE UNCHANGED <<rpc, over, tally>>
  /\ UNCHANGED <<fixed, dial, cancelled, closer, good, cut>>
(* ... unless the context ends first, by its time or by its parent.         *)
TimeOut ==
  /\ rpc = "race" /\ tries \notin over /\ over' = over \cup {tries}
  /\ cut' = cut \cup {tries}
  /\ UNCHANGED <<fixed, rpc, dial, results, cancelled, tally, closer, good>>
RaceEnds ==
  /\ rpc = "race" /\ Several /\ Ended(tries)
  /\ EndSample(Error) /\ UNCHANGED <<tries, verdict>>
  /\ UNCHANGED <<fixed, dial, results, cancelled, closer, good, cut>>

(* The verdict; the probe is counted out.                                   *)
Mean == IF sum \div okCount = 0 THEN 1 ELSE sum \div okCount
SumUp ==
  /\ rpc = "sum" \/ (rpc = "next" /\ (tries = samples \/ cancelled))
  /\ rpc' = "done"
  /\ verdict' = IF okCount = 0 THEN [NoVerdict EXCEPT !.tries = tries]
                ELSE [failed |-> FALSE, delay |-> Mean, tries |-> tries, ok |-> okCount]
  /\ UNCHANGED <<fixed, dial, results, over, cancelled, tries, okCount, sum, measured, closer, good, cut>>

(***************************************************************************)
(* The ends of the contexts, and of the box                                 *)
(***************************************************************************)
(* The caller goes away, or the wall clock of the probe runs out.           *)
Cut == cut' = IF rpc = "race" THEN cut \cup {tries} ELSE cut
Cancel ==
  /\ ~cancelled /\ rpc # "done" /\ cancelled' = TRUE /\ Cut
  /\ UNCHANGED <<fixed, rpc, dial, results, over, tally, closer, good>>
(* takeServiceLocked and Deactivate cancel the probes before they wait.     *)
BugTake ==
  /\ closer = "idle" /\ closer' = "waits"
  /\ UNCHANGED <<fixed, rpc, dial, results, over, tally, good, cancelled, cut>>
Take ==
  /\ closer = "idle" /\ closer' = "waits" /\ cancelled' = TRUE /\ Cut
  /\ UNCHANGED <<fixed, rpc, dial, results, over, tally, good>>
(* The probe is waited for, but not for ever, and its dials are not.        *)
CloseBox ==
  /\ closer = "waits" /\ closer' = "closed"
  /\ UNCHANGED <<fixed, rpc, dial, results, over, cancelled, tally, good, cut>>

RaceNext ==
  \/ BeginSample \/ Receive \/ TimeOut \/ RaceEnds \/ SumUp \/ Cancel \/ Take \/ CloseBox
  \/ \E i \in Indices, u \in Urls : DialEnds(i, u)
RaceSpec == RaceInit /\ [][RaceNext]_raceVars

(***************************************************************************)
(* Properties                                                               *)
(***************************************************************************)
(* A sample succeeds when one URL answers in time, whatever the others do:  *)
(* fail, hang, or answer too late -- unless the race is cut short.          *)
OneUrlIsEnough == (rpc \in {"next", "sum", "done"}) => Cardinality(good \ cut) <= okCount

(* The verdict tells what the samples measured: the leaf lives if one       *)
(* succeeded, its delay is between the delays of those, and all samples     *)
(* were taken; only a leaf that fails at once is left after one, by the     *)
(* engine, and one whose probe is cancelled.                                *)
VerdictIsMeasured ==
  rpc = "done" =>
    /\ verdict.failed <=> measured = {}
    /\ ~verdict.failed => \E a, b \in measured : a <= verdict.delay /\ verdict.delay <= b
    /\ verdict.ok <= verdict.tries /\ verdict.tries <= samples
    /\ verdict.tries = samples \/ cancelled \/ (prober = "engine" /\ verdict.failed /\ verdict.tries = 1)

(* The dials that a race leaves behind, and those that run on a closed box  *)
(* (engine.go:1086: nobody waits for them), have a context that has ended.  *)
StrayDialsAreCancelled ==
  \A i \in Indices, u \in Urls :
    (dial[i][u] = "dialing" /\ (i < tries \/ rpc # "race" \/ closer = "closed")) => Ended(i)

(* A verdict is measured, one good URL is enough for it, and no dial goes   *)
(* on behind it uncancelled.                                                *)
VerdictsAreSound == OneUrlIsEnough /\ VerdictIsMeasured /\ StrayDialsAreCancelled
=============================================================================
