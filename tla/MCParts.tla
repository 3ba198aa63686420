------------------------------- MODULE MCParts -------------------------------
(***************************************************************************)
(* The small parts, each on an instance of its own.  They share no state, so *)
(* to interleave them would show nothing: a behaviour is about one of them,  *)
(* its subject, and the others rest in one of their initial states.          *)
(***************************************************************************)
EXTENDS LevelStore, Sequences, TLC

CONSTANTS
  a1, a2, k1,
  Writers, MaxKills, Hosts, MaxStarts, MaxFailures,
  Clients, Chans, Pics, Requests, Posts, MaxAsks, MaxBreaks,
  FirstYear, LastYear,
  Commands, MaxTunnels, MaxCommands, MaxTroubles,
  Urls, SampleCounts, Delays, MaxDelay,
  Configs, Intervals, Pings, PingCount, MaxPublished, MaxMeddles, MaxLapses,
  Boxes, MaxLists, MaxTests, MaxChoices

VARIABLES
  subject,
  path, fbak, tmp, orphans, stored, wpc, had, werr, unrestored, wbefore, kills,
  owner, lock, hpc, exit, quiet, raced, starts, failures,
  site, image, snap, ask, job, crossed, marred, seen, asks, breaks,
  date,
  prober, urls, samples, rpc, dial, results, over, cancelled, tries, okCount, sum,
  verdict, closer, measured, good, cut,
  helper, launch, box, up, adapter, tstart, cmd, alone, overlap, commands, troubles,
  source, served, main, loop, current, new, running, failed, inst, port, held, attempts,
  pinged, total, real, mean, published, meddles, lapses,
  listed, now, history, list, test, lists, tests, choices

file   == <<path, fbak, tmp, orphans, stored, wpc, had, werr, unrestored, wbefore, kills>>
host   == <<owner, lock, hpc, exit, quiet, raced, starts, failures>>
ezytel == <<site, image, snap, ask, job, crossed, marred, seen, asks, breaks>>
race   == <<prober, urls, samples, rpc, dial, results, over, cancelled, tries, okCount, sum,
            verdict, closer, measured, good, cut>>
tunnel == <<helper, launch, box, up, adapter, tstart, cmd, alone, overlap, commands, troubles>>
command == <<source, served, main, loop, current, new, running, failed, inst, port, held, attempts,
             pinged, total, real, mean, published, meddles, lapses>>
proxies == <<listed, now, history, list, test, lists, tests, choices>>

F == INSTANCE AtomicFile WITH bak <- fbak
H == INSTANCE HostLock
Z == INSTANCE EzytelCache
J == INSTANCE Jalali
R == INSTANCE ProbeRace
T == INSTANCE TunnelService WITH start <- tstart, MaxStarts <- MaxTunnels
S == INSTANCE Standalone WITH tunnel <- running, sum <- total
P == INSTANCE ProxyList WITH box <- listed

(* One pair of actors plays the processes, the writers, the clients and the *)
(* commands: a behaviour is about one part.                                 *)
MCActors  == {a1, a2}
MCKeys    == {k1}
MCDirs    == 1..6
Page(op, read) == [op |-> op, chan |-> "c", inline |-> TRUE, read |-> read]
MCRequests == {Page("info", 1), [Page("messages", 0) EXCEPT !.inline = FALSE],
               [op |-> "image", pic |-> "p"]}
Node(tag, type, members) == [tag |-> tag, type |-> type, members |-> members]
MCBoxes == {[outs |-> <<Node("select", "selector", <<"outer", "a">>),
                        Node("outer", "selector", <<"auto">>),
                        Node("auto", "urltest", <<"a", "w">>), Node("a", "vless", <<>>)>>,
             ends |-> <<Node("w", "wireguard", <<>>)>>]}
Symmetry  == Permutations(MCActors)

ASSUME PartsAssumption ==
  /\ Writers \cap {F!None, F!First, F!Torn} = {} /\ 0 \notin Hosts
  /\ Z!None \notin Pics /\ Posts \subseteq Nat \ {0} /\ Posts # {} /\ Commands # {}
  /\ \A r \in Requests :
       \/ r.op = "image" /\ r.pic \in Pics
       \/ /\ r.op \in {"info", "messages"} /\ r.chan \in Chans
          /\ r.inline \in BOOLEAN /\ r.read \in Nat
  /\ FirstYear \in Nat /\ FirstYear > 1600 /\ IsFiniteSet(Urls) /\ (SampleCounts \cup Delays) \subseteq Nat \ {0}
  /\ {MaxKills, MaxStarts, MaxFailures, MaxAsks, MaxBreaks, LastYear, MaxDelay,
      MaxTunnels, MaxCommands, MaxTroubles, MaxPublished, MaxMeddles, MaxLapses,
      MaxLists, MaxTests, MaxChoices} \subseteq Nat
  /\ Configs \cup Intervals \cup Pings \subseteq Nat \ {0} /\ PingCount \in Nat \ {0, 1, 2}
  /\ \A b \in Boxes : P!Sound(b)

Rests(part, where) == subject = part \/ where
PartsInit ==
  /\ subject \in {"store", "file", "host", "ezytel", "date", "race", "tunnel", "command",
                 "proxies"}
  /\ Init          /\ Rests("store", live = NoDir)
  /\ F!AtomicInit  /\ Rests("file", path = F!None)
  /\ H!HostInit    /\ Rests("host", lock = 0)
  /\ Z!EzInit      /\ Rests("ezytel", \A c \in Chans : site[c].pic = Z!None)
  /\ J!JalaliInit  /\ Rests("date", date = <<FirstYear, 1, 1>>)
  /\ R!RaceInit    /\ Rests("race", prober = "engine" /\ urls = Urls /\ \A n \in SampleCounts : n <= samples)
  /\ T!TunnelInit  /\ Rests("tunnel", helper = "none" /\ adapter = 0)
  /\ S!StandaloneInit /\ Rests("command", main = "none")
  /\ P!ProxyInit  /\ Rests("proxies", TRUE)

StoreStep == subject = "store" /\ Next
             /\ UNCHANGED <<subject, file, host, ezytel, date, race, tunnel, command, proxies>>
FileStep  == subject = "file" /\ F!AtomicNext
             /\ UNCHANGED <<subject, vars, host, ezytel, date, race, tunnel, command, proxies>>
HostStep  == subject = "host" /\ H!HostNext
             /\ UNCHANGED <<subject, vars, file, ezytel, date, race, tunnel, command, proxies>>
EzytelStep == subject = "ezytel" /\ Z!EzNext
             /\ UNCHANGED <<subject, vars, file, host, date, race, tunnel, command, proxies>>
DateStep  == subject = "date" /\ J!Tomorrow
             /\ UNCHANGED <<subject, vars, file, host, ezytel, race, tunnel, command, proxies>>
RaceStep  == subject = "race" /\ R!RaceNext
             /\ UNCHANGED <<subject, vars, file, host, ezytel, date, tunnel, command, proxies>>
TunnelStep == subject = "tunnel" /\ T!TunnelNext
              /\ UNCHANGED <<subject, vars, file, host, ezytel, date, race, command, proxies>>
CommandStep == subject = "command" /\ S!StandaloneNext
               /\ UNCHANGED <<subject, vars, file, host, ezytel, date, race, tunnel, proxies>>
ProxyStep == subject = "proxies" /\ P!ProxyNext
             /\ UNCHANGED <<subject, vars, file, host, ezytel, date, race, tunnel, command>>
PartsNext == StoreStep \/ FileStep \/ HostStep \/ EzytelStep \/ DateStep \/ RaceStep
             \/ TunnelStep \/ CommandStep \/ ProxyStep
partsVars == <<subject, vars, file, host, ezytel, date, race, tunnel, command, proxies>>
PartsSpec == PartsInit /\ [][PartsNext]_partsVars

(* The promises of the parts, which their modules state.                    *)
(* AtomicFile: writes are whole and lose nothing (atomic_file.go:9,17).     *)
WritesAreAtomic == F!WritesAreAtomic
(* HostLock: the lock names the host that serves (cmd_host_serve.go:101).   *)
LockNamesTheHost == H!LockNamesTheHost
(* EzytelCache: pictures are what the front answered for them and a replay   *)
(* is the newest answer, but for the cases that PicturesAreWhole and        *)
(* ReplayIsNewest name (ezytel_service_imp.go:120-420,520-556).             *)
EzytelAnswersAreSound == Z!CacheIsSound
(* Jalali: the Persian date of the next day is the next Persian date, over   *)
(* the leap years of both calendars (ezytel_service_imp.go:779-830).        *)
DaysFollow == J!DaysFollow
(* ProbeRace: verdicts are measured (engine.go:985-1110).                   *)
VerdictsAreSound == R!VerdictsAreSound
(* TunnelService: a box that runs can be closed, and a command did what it   *)
(* answered (tunnel_service.go, admin_service_commander.go).                *)
TunnelObeys == T!TunnelObeys
(* Standalone: "run" serves what it read last, and takes it down at the end  *)
(* (standalone.go:20-57,186-209); the mean of "instance" is measured.        *)
StandaloneServes == S!StandaloneServes
(* ProxyList: the list shows, and a test probes, what the box runs           *)
(* (proxy_info.go:18-192, commands.go:269-339).                              *)
ProxiesAreShownTruly == P!ProxiesAreShownTruly
=============================================================================
