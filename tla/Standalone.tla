------------------------------ MODULE Standalone ------------------------------
(***************************************************************************)
(* The commands that run the core without an application: "run" serves one  *)
(* file or subscription and reads it again every so many hours              *)
(* (v2/hcore/standalone.go), "instance" starts one more box on a free port  *)
(* and pings through it (independent_instance.go).                          *)
(***************************************************************************)
EXTENDS Integers

CONSTANTS
  Configs,      \* the contents that parse
  Intervals,    \* what a subscription may ask for as its update interval
  Pings,        \* delays of a ping, in milliseconds
  PingCount,    \* the pings of an average
  MaxPublished, \* bound of changes of the source
  MaxMeddles,   \* bound of calls by clients of the core that "run" serves
  MaxLapses     \* bound of reads, starts and listeners that fail by themselves

VARIABLES
  source,    \* what the file or the server holds
  served,    \* the gRPC server of the command listens
  main,      \* where RunStandalone is
  loop,      \* where updateConfigInterval is
  current,   \* its current: the configuration, and the hours until the next read
  new,       \* its new
  tunnel,    \* the configuration that runs, or None
  failed,    \* ghost: the configuration whose start failed last
  inst,      \* where "instance" is
  port, held, \* the port of its mixed inbound, and whether somebody else has it
  attempts, pinged, sum, real, mean,
  published, meddles, lapses
runnerVars == <<source, served, main, loop, current, new, tunnel, failed, published>>
instVars   == <<inst, port, held, attempts, pinged, sum, real, mean>>

None == 0
Bad  == -1       \* content that is not there or that does not parse
Junk == -2       \* an interval that is not a number
MaxAttempts == 32
Ports == {"free", "reserved"}

(* A file has no header, and its comments are not read.                     *)
Sources ==
  {s \in [url : BOOLEAN, config : Configs \cup {Bad}, header : Intervals \cup {None, Junk},
          body : Intervals \cup {None, Junk}] : s.url \/ (s.header = None /\ s.body = None)}
extractRefreshInterval(s) ==
  LET asked == IF s.header # None THEN s.header ELSE s.body IN IF asked = Junk THEN 0 ELSE asked
readConfigContent(s) ==
  [config |-> s.config, hours |-> IF s.url THEN extractRefreshInterval(s) ELSE 0]

StandaloneInit ==
  /\ \/ source \in Sources /\ served \in BOOLEAN /\ main = "read" /\ inst = "none"
     \/ source = (CHOOSE s \in Sources : TRUE) /\ served = FALSE /\ main = "none" /\ inst = "off"
  /\ loop = "off" /\ current = [config |-> None, hours |-> 0] /\ new = current
  /\ tunnel = None /\ failed = None
  /\ port = "free" /\ held = FALSE /\ attempts = 0
  /\ pinged = 0 /\ sum = 0 /\ real = 0 /\ mean = None
  /\ published = 0 /\ meddles = 0 /\ lapses = 0

Lapse == lapses < MaxLapses /\ lapses' = lapses + 1
Alive == main \in {"read", "start", "wait", "stop", "return"}

(* readAndBuildConfig: the content, the settings, the build, and a Setup,   *)
(* which is done already while the gRPC server listens.                     *)
ReadAndBuild ==
  /\ source.config # Bad /\ new' = readConfigContent(source)
  /\ served' = TRUE /\ UNCHANGED lapses
ReadFails ==
  /\ \/ source.config = Bad /\ UNCHANGED lapses
     \/ Lapse
  /\ UNCHANGED <<new, served>>

(* StartService of a core that runs is answered with OK, and does nothing.  *)
StartService(c) ==
  \/ tunnel # None /\ UNCHANGED <<tunnel, failed, lapses>>
  \/ tunnel = None /\ tunnel' = c /\ failed' = None /\ UNCHANGED lapses
StartFails(c) == tunnel = None /\ Lapse /\ failed' = c /\ UNCHANGED tunnel

(* RunStandalone                                                            *)
FirstRead ==
  /\ main = "read"
  /\ \/ ReadAndBuild /\ main' = "start" /\ current' = new'
     \/ ReadFails /\ main' = "error" /\ UNCHANGED current
  /\ UNCHANGED <<source, loop, tunnel, failed, published, meddles, instVars>>
FirstStart ==
  /\ main = "start"
  /\ \/ StartService(current.config) /\ main' = "wait" /\ loop' = (IF current.hours <= 0 THEN "off" ELSE "sleep")
     \/ StartFails(current.config) /\ main' = "error" /\ UNCHANGED loop
  /\ UNCHANGED <<source, served, current, new, published, meddles, instVars>>
Interrupt ==
  /\ main = "wait" /\ main' = "stop"
  /\ UNCHANGED <<source, served, loop, current, new, tunnel, failed, published, meddles, lapses, instVars>>
LastStop ==
  /\ main = "stop" /\ main' = "return" /\ tunnel' = None
  /\ UNCHANGED <<source, served, loop, current, new, failed, published, meddles, lapses, instVars>>
Return ==
  /\ main = "return" /\ main' = "exited"
  /\ UNCHANGED <<source, served, loop, current, new, tunnel, failed, published, meddles, lapses, instVars>>

(* updateConfigInterval: what was read becomes current whether it started   *)
(* or not.                                                                  *)
BugReread ==
  /\ Alive /\ loop = "sleep"
  /\ \/ ReadAndBuild /\ IF new'.config # current.config THEN loop' = "start" /\ UNCHANGED current
                        ELSE current' = new' /\ UNCHANGED loop
     \/ ReadFails /\ UNCHANGED <<loop, current>>
  /\ UNCHANGED <<source, main, tunnel, failed, published, meddles, instVars>>
Reread ==
  /\ Alive /\ loop = "sleep"
  /\ \/ ReadAndBuild /\ IF new'.config # current.config THEN loop' = "stop" /\ UNCHANGED current
                        ELSE current' = new' /\ UNCHANGED loop
     \/ ReadFails /\ UNCHANGED <<loop, current>>
  /\ UNCHANGED <<source, main, tunnel, failed, published, meddles, instVars>>
StopOld ==
  /\ Alive /\ loop = "stop" /\ loop' = "start" /\ tunnel' = None
  /\ UNCHANGED <<source, served, main, current, new, failed, published, meddles, lapses, instVars>>
StartNew ==
  /\ Alive /\ loop = "start" /\ loop' = "sleep" /\ current' = new
  /\ StartService(new.config) \/ StartFails(new.config)
  /\ UNCHANGED <<source, served, main, new, published, meddles, instVars>>

(* The source changes, and clients of the gRPC server act on the same core. *)
Publish ==
  /\ published < MaxPublished /\ published' = published + 1
  /\ source' \in Sources /\ source'.url = source.url
  /\ UNCHANGED <<served, main, loop, current, new, tunnel, failed, meddles, lapses, instVars>>
Meddle ==
  /\ Alive /\ served /\ meddles < MaxMeddles /\ meddles' = meddles + 1
  /\ \/ tunnel # None /\ tunnel' = None /\ UNCHANGED served
     \/ tunnel = None /\ tunnel' \in Configs /\ UNCHANGED served
     \/ served' = FALSE /\ UNCHANGED tunnel
  /\ UNCHANGED <<source, main, loop, current, new, failed, published, lapses, instVars>>

(***************************************************************************)
(* "instance"                                                               *)
(***************************************************************************)
(* getRandomAvailblePort gives the port back at once, and panics when       *)
(* nothing was found.                                                       *)
acquireEphemeralPort ==
  /\ inst = "off" /\ attempts < MaxAttempts /\ attempts' = attempts + 1 /\ port' \in Ports
  /\ inst' = IF port' = "free" THEN "build" ELSE IF attempts' = MaxAttempts THEN "panic" ELSE "off"
  /\ UNCHANGED <<held, pinged, sum, real, mean, meddles, lapses, runnerVars>>
TakePort ==
  /\ inst = "build" /\ ~held /\ Lapse /\ held' = TRUE
  /\ UNCHANGED <<inst, port, attempts, pinged, sum, real, mean, meddles, runnerVars>>
RunInstance ==
  /\ inst = "build" /\ inst' = (IF held THEN "error" ELSE "ping")
  /\ UNCHANGED <<port, held, attempts, pinged, sum, real, mean, meddles, lapses, runnerVars>>
PingAverage ==
  /\ inst = "ping" /\ pinged' = pinged + 1
  /\ \/ \E d \in Pings : real' = real + 1 /\ sum' = sum + d
     \/ UNCHANGED <<real, sum>>
  /\ IF real' = 0 /\ pinged > PingCount \div 2 THEN inst' = "serve" /\ mean' = Bad
     ELSE IF pinged' = PingCount THEN inst' = "serve" /\ mean' = sum' \div real'
     ELSE UNCHANGED <<inst, mean>>
  /\ UNCHANGED <<port, held, attempts, meddles, lapses, runnerVars>>
CloseInstance ==
  /\ inst = "serve" /\ inst' = "closed"
  /\ UNCHANGED <<port, held, attempts, pinged, sum, real, mean, meddles, lapses, runnerVars>>

StandaloneNext ==
  \/ FirstRead \/ FirstStart \/ Interrupt \/ LastStop \/ Return
  \/ Reread \/ StopOld \/ StartNew \/ Publish \/ Meddle
  \/ acquireEphemeralPort \/ TakePort \/ RunInstance \/ PingAverage \/ CloseInstance
standaloneVars == <<runnerVars, instVars, meddles, lapses>>
StandaloneSpec == StandaloneInit /\ [][StandaloneNext]_standaloneVars

(***************************************************************************)
(* Properties                                                               *)
(***************************************************************************)
(* While the loop sleeps the tunnel runs what it holds as current, or that  *)
(* very content could not be started: a source that cannot be read or built *)
(* takes nothing down.  (What could not be started is not tried again until *)
(* the source changes.)                                                     *)
RunsWhatItHolds ==
  (main = "wait" /\ meddles = 0) =>
    /\ current.config \in Configs
    /\ IF loop \in {"sleep", "off"}
       THEN tunnel = current.config \/ (tunnel = None /\ failed = current.config)
       ELSE new.config \in Configs \ {current.config}

(* After an interrupt no tunnel is left up, unless a loop put it there:     *)
(* nothing tells the loop that the command ends.                            *)
LeavesNothingUp ==
  (main = "exited" /\ meddles = 0 /\ tunnel # None) 
    => loop # "off" /\ tunnel \in {current.config, new.config}

(* The mean of the pings is one of those that were answered, and an error   *)
(* only when none was; no count of failures divides by zero.                *)
MeanIsMeasured ==
  /\ inst = "serve" => (mean = Bad) = (real = 0)
  /\ mean \notin {None, Bad} =>
       \A lo, hi \in Pings : (\A d \in Pings : lo <= d /\ d <= hi) => lo <= mean /\ mean <= hi

(* What the two commands promise.                                           *)
StandaloneServes == RunsWhatItHolds /\ LeavesNothingUp /\ MeanIsMeasured
=============================================================================
