---------------------------- MODULE PartsProofs -----------------------------
(***************************************************************************)
(* What the small parts promise, for any number of writers, hosts, clients, *)
(* commands, dials and samples, of kills, calls and failures: hosts, files, *)
(* the tunnel helper, the commands that run the core, the race of a probe,  *)
(* channels with their pictures, dates, the tables of LevelDB, and the list *)
(* of proxies with its tests.                                               *)
(***************************************************************************)
EXTENDS MCParts, FiniteSetTheorems, SequenceTheorems, NaturalsInduction, WellFoundedInduction, TLAPS

(* A step of the parts is a step of each or leaves it alone.                *)
LEMMA EachPartSteps ==
  ASSUME [PartsNext]_partsVars
  PROVE  /\ [Next]_vars /\ [F!AtomicNext]_file /\ [H!HostNext]_host
         /\ [Z!EzNext]_ezytel /\ [J!Tomorrow]_date /\ [R!RaceNext]_race
         /\ [T!TunnelNext]_tunnel /\ [S!StandaloneNext]_command /\ [P!ProxyNext]_proxies
BY DEF PartsNext, partsVars, StoreStep, FileStep, HostStep, EzytelStep, DateStep, RaceStep,
       TunnelStep, CommandStep, ProxyStep

(***************************************************************************)
(* Hosts                                                                    *)
(***************************************************************************)
HostTypeOK ==
  /\ hpc \in [Hosts -> {"off", "setup", "lock", "serve", "remove", "panic"}]
  /\ exit \in [Hosts -> Int] /\ owner \in Hosts \cup {0} /\ lock \in Hosts \cup {0}

(* The one that listens is the one past Setup whose server is not closed; a  *)
(* host that is about to remove its lock races with the one that came after. *)
Listens(h) == hpc[h] \in {"lock", "serve", "panic"}
HostInv ==
  /\ HostTypeOK
  /\ \A h \in Hosts : Listens(h) <=> owner = h
  /\ \A g, h \in Hosts : (g # h /\ hpc[g] = "remove" /\ Listens(h)) => h \in raced
  /\ H!LockNamesTheHost

\* Before any host has started nobody listens; a killed one may have left its lock.
LEMMA HostInitInv == PartsInit => HostInv
BY PartsAssumption DEF PartsInit, H!HostInit, HostInv, HostTypeOK, Listens, H!LockNamesTheHost,
   H!ServingIsNamed, H!NoLockAfterExit, H!At

(* Every step of a host, its failures and its panic included, keeps HostInv.*)
LEMMA HostStepInv == HostInv /\ [H!HostNext]_host => HostInv'
<1> SUFFICES ASSUME HostInv, [H!HostNext]_host PROVE HostInv'
  OBVIOUS
<1> USE PartsAssumption DEF HostInv, HostTypeOK, Listens, H!LockNamesTheHost,
   H!ServingIsNamed, H!NoLockAfterExit, H!At, H!Go, H!Exit, H!Release, H!Trouble
<1>1. ASSUME NEW h \in Hosts, H!Serve(h) PROVE HostInv'
  BY <1>1 DEF H!Serve
<1>2. ASSUME NEW h \in Hosts, H!Setup(h) PROVE HostInv'
  BY <1>2 DEF H!Setup
<1>3. ASSUME NEW h \in Hosts, H!SetupFails(h) PROVE HostInv'
  BY <1>3 DEF H!SetupFails
<1>4. ASSUME NEW h \in Hosts, H!WriteCoreHostLock(h) PROVE HostInv'
  BY <1>4 DEF H!WriteCoreHostLock
<1>5. ASSUME NEW h \in Hosts, H!WriteFails(h) PROVE HostInv'
  BY <1>5 DEF H!WriteFails
<1>6. ASSUME NEW h \in Hosts, H!CloseGrpcServer(h) PROVE HostInv'
  BY <1>6 DEF H!CloseGrpcServer
<1>7. ASSUME NEW h \in Hosts, H!Panic(h) PROVE HostInv'
  BY <1>7 DEF H!Panic
<1>8. ASSUME NEW h \in Hosts, H!RemoveCoreHostLock(h) PROVE HostInv'
  BY <1>8 DEF H!RemoveCoreHostLock
<1>9. ASSUME NEW h \in Hosts, H!Kill(h) PROVE HostInv'
  BY <1>9 DEF H!Kill
<1>10. CASE UNCHANGED host
  BY <1>10 DEF host
<1> QED
  BY <1>1, <1>2, <1>3, <1>4, <1>5, <1>6, <1>7, <1>8, <1>9, <1>10 DEF H!HostNext, H!HostStep

(***************************************************************************)
(* Files                                                                    *)
(***************************************************************************)
FilePcs == {"idle", "write", "rename", "stat", "aside", "swap", "restore", "rmbak", "cleanup",
            "unlink", "done"}
FileTypeOK ==
  /\ {path, fbak} \subseteq F!Values \cup {F!None} /\ orphans \subseteq F!Values
  /\ tmp \in [Writers -> F!Values \cup {F!None, F!Torn}]
  /\ wpc \in [Writers -> FilePcs] /\ wbefore \in [Writers -> F!Values \cup {F!None, "shared"}]
  /\ had \in [Writers -> BOOLEAN] /\ werr \in [Writers -> BOOLEAN]
  /\ stored \in BOOLEAN /\ unrestored \in BOOLEAN

(* What the temporary file of a writer holds, and whether it has failed.     *)
TmpIsKnown ==
  \A w \in Writers :
    /\ wpc[w] \in {"rename", "stat", "aside", "swap", "restore"} => tmp[w] = w /\ ~werr[w]
    /\ wpc[w] = "write" => tmp[w] = F!Torn /\ ~werr[w]
    /\ wpc[w] \in {"cleanup", "unlink"} => tmp[w] \in {w, F!Torn} /\ werr[w]
    /\ wpc[w] = "rmbak" => tmp[w] = F!None /\ ~werr[w]
    /\ wpc[w] = "done" => tmp[w] \in {w, F!None, F!Torn}
    /\ wpc[w] = "idle" => tmp[w] = F!None

(* A whole copy is left that no pending removal takes away: path.bak, which  *)
(* any writer removes, is not counted, nor a file about to be unlinked.      *)
CopyIsLeft ==
  stored => \/ path # F!None \/ orphans # {}
            \/ \E w \in Writers : tmp[w] = w /\ wpc[w] # "unlink"

(* How far a writer is that nobody disturbed.                                *)
Undisturbed(w) == wpc[w] # "idle" /\ wbefore[w] # "shared"
LoneProgress(w) ==
  /\ wpc[w] \in {"write", "rename", "stat", "aside", "cleanup", "unlink"} => path = wbefore[w]
  /\ wpc[w] \in {"aside", "restore"} => had[w] /\ wbefore[w] # F!None
  /\ wpc[w] \in {"swap", "restore"} => path = F!None
  /\ wpc[w] \in {"swap", "restore"} => wbefore[w] = IF had[w] THEN fbak ELSE F!None
  /\ wpc[w] = "swap" /\ had[w] => fbak # F!None
  /\ wpc[w] = "rmbak" => path = w
  /\ wpc[w] = "done" => path = IF werr[w] THEN wbefore[w] ELSE w
Lone ==
  \A w \in Writers : Undisturbed(w) =>
    /\ \A x \in Writers \ {w} : wpc[x] = "idle"
    /\ ~unrestored => LoneProgress(w)

FileInv == FileTypeOK /\ TmpIsKnown /\ CopyIsLeft /\ Lone

\* What is known of each writer's place is enough for the promise of a write.
LEMMA FileInvImplies == FileInv => F!WritesAreAtomic
<1> SUFFICES ASSUME FileInv PROVE F!WritesAreAtomic
  OBVIOUS
<1>. Writers \cap {F!None, F!First, F!Torn} = {} BY PartsAssumption
<1> USE DEF FileInv, FileTypeOK, F!Values, F!None, F!First, F!Torn
<1>1. F!NeverTorn
  BY DEF F!NeverTorn
<1>2. F!NothingLost
  <2>1. CopyIsLeft /\ path # F!Torn /\ orphans \cap {F!None, F!Torn} = {}
    OBVIOUS
  <2>2. \A w \in Writers : w # F!None /\ w # F!Torn OBVIOUS
  <2> QED BY <2>1, <2>2 DEF F!NothingLost, F!Whole, CopyIsLeft
<1>3. F!AloneAllOrNothing
  BY DEF F!AloneAllOrNothing, Lone, Undisturbed, LoneProgress
<1> QED BY <1>1, <1>2, <1>3 DEF F!WritesAreAtomic

(* A file that is there or not, with no writer at work, is known.           *)
LEMMA FileInitInv == PartsInit => FileInv
<1> SUFFICES ASSUME F!AtomicInit PROVE FileInv
  BY DEF PartsInit
<1>1. stored \in BOOLEAN /\ (stored => path # F!None)
  BY Zenon DEF F!AtomicInit
<1>2. FileTypeOK
  <2>1. /\ path \in {F!None, F!First} /\ fbak = F!None /\ orphans = {}
        /\ tmp = [w \in Writers |-> F!None] /\ wpc = [w \in Writers |-> "idle"]
        /\ had = [w \in Writers |-> FALSE] /\ werr = [w \in Writers |-> FALSE]
        /\ unrestored = FALSE /\ wbefore = [w \in Writers |-> "shared"]
    BY Zenon DEF F!AtomicInit
  <2> QED BY <1>1, <2>1 DEF FileTypeOK, FilePcs, F!Values
<1>3. TmpIsKnown /\ Lone
  BY DEF F!AtomicInit, TmpIsKnown, Lone, Undisturbed
<1> QED BY <1>1, <1>2, <1>3 DEF FileInv, CopyIsLeft

(* The stat of the target records for its writer whether it is there.       *)
LEMMA StatIsKnown ==
  ASSUME had \in [Writers -> BOOLEAN], NEW w \in Writers, F!StatFinal(w)
  PROVE  (had'[w] <=> path # F!None) /\ \A x \in Writers \ {w} : had'[x] = had[x]
<1>1. had' = [had EXCEPT ![w] = path # F!None]
  BY DEF F!StatFinal
<1>2. had'[w] = (path # F!None)
  BY <1>1, Zenon
<1>3. \A x \in Writers \ {w} : had'[x] = had[x]
  BY <1>1, Zenon
<1> QED BY <1>2, <1>3, Zenon

(* A restore tells whether the old file came back.                          *)
LEMMA RestoreIsKnown ==
  ASSUME unrestored \in BOOLEAN, NEW w \in Writers, F!Restore(w)
  PROVE  unrestored' \in BOOLEAN
BY Zenon DEF F!Restore

\* A step of a writer, a kill included, leaves whole or torn files by their names.
LEMMA FileTypeStep == FileTypeOK /\ TmpIsKnown /\ [F!AtomicNext]_file => FileTypeOK'
<1> SUFFICES ASSUME FileTypeOK, TmpIsKnown, [F!AtomicNext]_file PROVE FileTypeOK'
  OBVIOUS
<1> USE PartsAssumption DEF FileTypeOK, FilePcs, F!Values, F!None, F!First, F!Torn, F!Step,
                            F!Fail
<1>1. ASSUME NEW w \in Writers, F!AtomicStep(w) PROVE FileTypeOK'
  <2>1. CASE F!CreateTemp(w)
    BY <2>1 DEF F!CreateTemp
  <2>2. CASE F!WriteSync(w)
    BY <2>2 DEF F!WriteSync
  <2>3. CASE F!WriteSyncFails(w)
    BY <2>3 DEF F!WriteSyncFails
  <2>4. CASE F!Rename(w)
    BY <2>4 DEF F!Rename, TmpIsKnown
  <2>5. CASE F!RenameFails(w)
    BY <2>5 DEF F!RenameFails
  <2>6. CASE F!StatFinal(w)
    BY <2>6 DEF F!StatFinal
  <2>7. CASE F!MoveAside(w)
    BY <2>7 DEF F!MoveAside
  <2>8. CASE F!MoveAsideFails(w)
    BY <2>8 DEF F!MoveAsideFails
  <2>9. CASE F!Swap(w)
    BY <2>9 DEF F!Swap, TmpIsKnown
  <2>10. CASE F!SwapFails(w)
    <3>1. CASE had[w]
      BY <2>10, <3>1 DEF F!SwapFails
    <3>2. CASE ~had[w]
      <4>1. /\ wpc' = [wpc EXCEPT ![w] = "cleanup"] /\ werr' = [werr EXCEPT ![w] = TRUE]
            /\ UNCHANGED <<path, fbak, tmp, orphans, stored, had, unrestored, wbefore>>
        BY <2>10, <3>2 DEF F!SwapFails
      <4> QED BY <4>1
    <3> QED BY <3>1, <3>2
  <2>11. CASE F!Restore(w)
    <3>1. /\ path' \in {path, fbak} /\ fbak' \in {fbak, F!None}
          /\ UNCHANGED <<tmp, orphans, stored, had, wbefore>>
          /\ F!Step(w, "restore", "cleanup") /\ werr' = [werr EXCEPT ![w] = TRUE]
      BY <2>11 DEF F!Restore
    <3>2. unrestored' \in BOOLEAN
      BY <2>11, RestoreIsKnown
    <3> QED BY <3>1, <3>2
  <2>12. CASE F!RemoveBak(w)
    BY <2>12 DEF F!RemoveBak
  <2>13. CASE F!Cleanup(w)
    BY <2>13 DEF F!Cleanup
  <2>14. CASE F!Unlink(w)
    BY <2>14 DEF F!Unlink
  <2>15. CASE F!Answer(w)
    BY <2>15 DEF F!Answer, F!Whole
  <2> QED BY <1>1, <2>1, <2>2, <2>3, <2>4, <2>5, <2>6, <2>7, <2>8, <2>9, <2>10, <2>11, <2>12,
             <2>13, <2>14, <2>15 DEF F!AtomicStep
<1>2. CASE F!Killed
  BY <1>2 DEF F!Killed, F!Whole
<1>3. CASE UNCHANGED file
  BY <1>3 DEF file
<1> QED BY <1>1, <1>2, <1>3 DEF F!AtomicNext

\* Every step of a writer, each failing one and a kill included, keeps FileInv.
LEMMA FileStepInv == FileInv /\ [F!AtomicNext]_file => FileInv'
<1> SUFFICES ASSUME FileInv, [F!AtomicNext]_file PROVE FileInv'
  OBVIOUS
<1>0. FileTypeOK'
  BY FileTypeStep DEF FileInv
<1> USE <1>0, PartsAssumption DEF FileInv, FileTypeOK, FilePcs, TmpIsKnown, CopyIsLeft, Lone,
        Undisturbed, LoneProgress, F!Values, F!None, F!First, F!Torn, F!Step, F!Fail
<1>1. ASSUME NEW w \in Writers, F!CreateTemp(w) PROVE FileInv'
  BY <1>1 DEF F!CreateTemp
<1>2. ASSUME NEW w \in Writers, F!WriteSync(w) PROVE FileInv'
  BY <1>2 DEF F!WriteSync
<1>3. ASSUME NEW w \in Writers, F!WriteSyncFails(w) PROVE FileInv'
  BY <1>3 DEF F!WriteSyncFails
<1>4. ASSUME NEW w \in Writers, F!Rename(w) PROVE FileInv'
  BY <1>4 DEF F!Rename
<1>5. ASSUME NEW w \in Writers, F!RenameFails(w) PROVE FileInv'
  BY <1>5 DEF F!RenameFails
<1>6. ASSUME NEW w \in Writers, F!StatFinal(w) PROVE FileInv'
  <2>1. /\ wpc[w] = "stat" /\ had' = [had EXCEPT ![w] = path # F!None]
        /\ wpc' = [wpc EXCEPT ![w] = IF path = F!None THEN "swap" ELSE "aside"]
        /\ UNCHANGED <<path, fbak, tmp, werr, unrestored, wbefore, kills, orphans, stored>>
    BY <1>6 DEF F!StatFinal
  <2>2. (had'[w] <=> path # F!None) /\ \A x \in Writers \ {w} : had'[x] = had[x]
    BY <1>6, StatIsKnown
  <2>3. TmpIsKnown' /\ CopyIsLeft'
    BY <2>1
  <2>4. Lone'
    BY <2>1, <2>2
  <2> QED BY <2>3, <2>4
<1>7. ASSUME NEW w \in Writers, F!MoveAside(w) PROVE FileInv'
  BY <1>7 DEF F!MoveAside
<1>8. ASSUME NEW w \in Writers, F!MoveAsideFails(w) PROVE FileInv'
  BY <1>8 DEF F!MoveAsideFails
<1>9. ASSUME NEW w \in Writers, F!Swap(w) PROVE FileInv'
  BY <1>9 DEF F!Swap
<1>10. ASSUME NEW w \in Writers, F!SwapFails(w) PROVE FileInv'
  BY <1>10 DEF F!SwapFails
<1>11. ASSUME NEW w \in Writers, F!Restore(w) PROVE FileInv'
  BY <1>11 DEF F!Restore
<1>12. ASSUME NEW w \in Writers, F!RemoveBak(w) PROVE FileInv'
  BY <1>12 DEF F!RemoveBak
<1>13. ASSUME NEW w \in Writers, F!Cleanup(w) PROVE FileInv'
  BY <1>13 DEF F!Cleanup
<1>14. ASSUME NEW w \in Writers, F!Unlink(w) PROVE FileInv'
  BY <1>14 DEF F!Unlink
<1>15. ASSUME NEW w \in Writers, F!Answer(w) PROVE FileInv'
  BY <1>15 DEF F!Answer, F!Whole
<1>16. CASE F!Killed
  BY <1>16 DEF F!Killed, F!Whole
<1>17. CASE UNCHANGED file
  BY <1>17 DEF file
<1>18. F!AtomicNext \/ UNCHANGED file
  OBVIOUS
<1> HIDE DEF FileInv, FileTypeOK, FilePcs, TmpIsKnown, CopyIsLeft, Lone, Undisturbed,
             LoneProgress, F!Values, F!None, F!First, F!Torn, F!Step, F!Fail
<1>19. ASSUME NEW w \in Writers, F!AtomicStep(w) PROVE FileInv'
  BY <1>19, <1>1, <1>2, <1>3, <1>4, <1>5, <1>6, <1>7, <1>8, <1>9, <1>10, <1>11, <1>12, <1>13,
     <1>14, <1>15 DEF F!AtomicStep
<1> QED BY <1>16, <1>17, <1>18, <1>19 DEF F!AtomicNext

(***************************************************************************)
(* The tunnel helper                                                        *)
(***************************************************************************)
CommandPcs == {"activate", "deactivate", "exit", "stopfirst", "start", "wait", "restart",
               "install", "settle", "again", "done"}
CmdRecord == [op : {"none", "activate", "deactivate", "exit"}, at : CommandPcs,
              install : BOOLEAN, sent : T!Starts \cup {0}, ok : BOOLEAN]
TunnelTypeOK ==
  /\ helper \in {"none", "up", "dying"} /\ box \in T!Starts \cup {0} /\ up \subseteq T!Starts
  /\ adapter \in T!Starts \cup {0, T!Ghost}
  /\ tstart \in [T!Starts -> {"free", "new", "made", "unmade", "ok", "error"}]
  /\ cmd \in [Commands -> CmdRecord]
  /\ alone \in [Commands -> BOOLEAN] /\ overlap \in BOOLEAN

Made == {s \in T!Starts : tstart[s] = "made"}
Down == {0, T!Ghost}   \* no box of this helper has the adapter

(* Without an overlap there is one Start at a time, on a helper whose box    *)
(* was closed for it, and nothing else runs or has the adapter.              *)
OneStart ==
  ~overlap =>
    /\ T!Starting = {} => up \subseteq {box} /\ adapter \in Down \cup {box}
    /\ T!Starting # {} => up \subseteq Made /\ adapter \in Down \cup Made
    /\ \A s, t \in T!Starting : s = t
    /\ (\E c \in Commands : T!At(c, "start")) => T!Starting = {} /\ up = {} /\ adapter \in Down
HelperIsKnown ==
  helper = "none" => box = 0 /\ up = {} /\ adapter \in Down /\ T!Starting = {}

(* A command beside which nothing happens finds the helper as it left it:    *)
(* its Start is the only one, and its Exit is over when it goes on.          *)
Activates(c) ==
  /\ T!At(c, "stopfirst") \/ T!At(c, "start") \/ T!At(c, "wait") => helper = "up"
  /\ T!At(c, "activate") \/ T!At(c, "restart") \/ T!At(c, "done") => helper # "dying"
  /\ T!At(c, "wait") => cmd[c].sent \in T!Starts
  /\ (T!At(c, "wait") /\ ~overlap) =>
       /\ T!Starting \subseteq {cmd[c].sent}
       /\ tstart[cmd[c].sent] = "made" => cmd[c].sent \in up /\ adapter = cmd[c].sent
       /\ tstart[cmd[c].sent] = "ok" => cmd[c].sent = box /\ box \in up /\ adapter = box
  /\ (T!At(c, "done") /\ cmd[c].ok /\ ~overlap) =>
       helper = "up" /\ box \in up /\ adapter = box /\ T!Starting = {}
Deactivates(c) ==
  /\ T!At(c, "deactivate") \/ T!At(c, "again") \/ T!At(c, "done")
  /\ T!Starting = {}
  /\ (T!At(c, "done") /\ cmd[c].ok /\ ~overlap) => up = {} /\ adapter \in Down
OpIsKnown ==
  \A c \in Commands :
    /\ cmd[c].op = "none" => T!At(c, "done")
    /\ cmd[c].op = "exit" => cmd[c].at \in {"exit", "done"}
    /\ cmd[c].op = "deactivate" => cmd[c].at \in {"deactivate", "again", "done"}
    /\ cmd[c].op = "activate" => cmd[c].at \notin {"exit", "deactivate", "again"}
AloneIsKnown ==
  \A c \in Commands : alone[c] =>
    /\ \A d \in Commands \ {c} : T!At(d, "done")
    /\ cmd[c].op = "activate" => Activates(c)
    /\ cmd[c].op = "deactivate" => Deactivates(c)

TunnelInv == TunnelTypeOK /\ OneStart /\ HelperIsKnown /\ OpIsKnown /\ AloneIsKnown

(* The number of starts is bounded.                                         *)
LEMMA TunnelsAreCounted == MaxTunnels \in Nat
BY PartsAssumption

(* What a command knows alone is what it says when it is done.              *)
LEMMA TunnelInvImplies == TunnelInv => T!TunnelObeys
BY DEF TunnelInv, OneStart, AloneIsKnown, Activates, Deactivates, Made, Down, T!TunnelObeys,
   T!BoxIsHeld, T!CommandsDoWhatTheySay, T!Starting, T!Starts, T!At, TunnelTypeOK, T!Ghost

(* Before the first command nothing has started, be the helper up or not.   *)
LEMMA TunnelInitInv == PartsInit => TunnelInv
<1> SUFFICES ASSUME T!TunnelInit PROVE TunnelInv
  BY DEF PartsInit
<1> USE TunnelsAreCounted DEF T!TunnelInit, T!NoCommand, T!Starts, T!Ghost, T!At, T!Starting
<1>1. TunnelTypeOK
  BY DEF TunnelTypeOK, CmdRecord, CommandPcs
<1>2. OneStart /\ HelperIsKnown
  BY DEF OneStart, HelperIsKnown, Down
<1>3. OpIsKnown /\ AloneIsKnown
  BY DEF OpIsKnown, AloneIsKnown
<1> QED BY <1>1, <1>2, <1>3 DEF TunnelInv

(* StopBox, said without an equality of truth values.                       *)
LEMMA StopBoxIsKnown ==
  ASSUME overlap \in BOOLEAN, T!StopBox
  PROVE  /\ overlap' \in BOOLEAN /\ (overlap' <=> (overlap \/ T!Starting # {}))
         /\ up' = up \ {box} /\ box' = box
         /\ adapter' = IF box # 0 /\ adapter = box THEN 0 ELSE adapter
<1>1. overlap' = (overlap \/ T!Starting # {})
  BY Zenon DEF T!StopBox
<1>2. overlap' \in BOOLEAN /\ (overlap' <=> (overlap \/ T!Starting # {}))
  BY <1>1, Zenon
<1> QED BY <1>2 DEF T!StopBox

(* Likewise SendStart: another Start of this helper, or another command at   *)
(* its Start, is an overlap.                                                *)
LEMMA SendStartIsKnown ==
  ASSUME overlap \in BOOLEAN, NEW c \in Commands, T!SendStart(c)
  PROVE  ~overlap' => /\ ~overlap /\ T!Starting = {}
                      /\ \A d \in Commands \ {c} : ~T!At(d, "start")
<1>1. overlap' = (overlap \/ T!Starting # {} \/ \E d \in Commands \ {c} : T!At(d, "start"))
  BY Zenon DEF T!SendStart
<1> QED BY <1>1, Zenon

(* What the updates of a command leave its record.                          *)
LEMMA CmdMoves ==
  ASSUME cmd \in [Commands -> CmdRecord], NEW c \in Commands
  PROVE  /\ \A a \in CommandPcs : T!Go(c, a) => cmd' \in [Commands -> CmdRecord]
         /\ \A k \in BOOLEAN : T!Done(c, k) => cmd' \in [Commands -> CmdRecord]
         /\ \A a \in CommandPcs, i \in BOOLEAN :
              cmd' = [cmd EXCEPT ![c].at = a, ![c].install = i] => cmd' \in [Commands -> CmdRecord]
         /\ \A a \in CommandPcs, s \in T!Starts :
              cmd' = [cmd EXCEPT ![c].at = a, ![c].sent = s] => cmd' \in [Commands -> CmdRecord]
<1>1. ASSUME NEW a \in CommandPcs, T!Go(c, a) PROVE cmd' \in [Commands -> CmdRecord]
  BY <1>1 DEF T!Go, CmdRecord
<1>2. ASSUME NEW k \in BOOLEAN, T!Done(c, k) PROVE cmd' \in [Commands -> CmdRecord]
  <2>1. cmd' = [cmd EXCEPT ![c] = [[@ EXCEPT !.at = "done"] EXCEPT !.ok = k]]
    BY <1>2 DEF T!Done
  <2>2. [[cmd[c] EXCEPT !.at = "done"] EXCEPT !.ok = k] \in CmdRecord
    BY DEF CmdRecord, CommandPcs
  <2> QED BY <2>1, <2>2
<1>3. ASSUME NEW a \in CommandPcs, NEW i \in BOOLEAN,
             cmd' = [cmd EXCEPT ![c].at = a, ![c].install = i]
      PROVE  cmd' \in [Commands -> CmdRecord]
  BY <1>3 DEF CmdRecord
<1>4. ASSUME NEW a \in CommandPcs, NEW s \in T!Starts,
             cmd' = [cmd EXCEPT ![c].at = a, ![c].sent = s]
      PROVE  cmd' \in [Commands -> CmdRecord]
  <2>1. [[cmd[c] EXCEPT !.at = a] EXCEPT !.sent = s] \in CmdRecord
    BY DEF CmdRecord
  <2> QED BY <1>4, <2>1
<1> QED BY <1>1, <1>2, <1>3, <1>4

\* Every step of the helper, of a command and of the OS service keeps TunnelInv.
LEMMA TunnelStepInv == TunnelInv /\ [T!TunnelNext]_tunnel => TunnelInv'
<1> SUFFICES ASSUME TunnelTypeOK, OneStart, HelperIsKnown, OpIsKnown,
                    AloneIsKnown, [T!TunnelNext]_tunnel
             PROVE  TunnelInv'
  BY DEF TunnelInv
<1> USE TunnelsAreCounted
<1>1. ASSUME NEW c \in Commands, NEW op \in {"activate", "deactivate", "exit"}, T!Begin(c, op)
      PROVE  TunnelInv'
  <2>1. TunnelTypeOK'
    BY <1>1 DEF T!Begin, T!At, TunnelTypeOK, CmdRecord, CommandPcs, T!Starts, T!Starting,
       T!Ghost
  <2>2. OneStart'
    BY <1>1, <2>1 DEF T!Begin, T!At, TunnelTypeOK, CmdRecord, OneStart, HelperIsKnown,
       T!Starting, Made, Down, T!Ghost, T!Starts
  <2>3. HelperIsKnown'
    BY <1>1, <2>1 DEF T!Begin, T!At, TunnelTypeOK, CmdRecord, HelperIsKnown, T!Starting,
       Down, T!Ghost, T!Starts
  <2>4. OpIsKnown'
    BY <1>1, <2>1 DEF T!Begin, T!At, TunnelTypeOK, CmdRecord, OpIsKnown
  <2>5. AloneIsKnown'
    <3> SUFFICES ASSUME NEW k \in Commands, alone'[k]
                 PROVE  /\ \A d \in Commands \ {k} : T!At(d, "done")'
                        /\ cmd'[k].op = "activate" => Activates(k)'
                        /\ cmd'[k].op = "deactivate" => Deactivates(k)'
      BY DEF AloneIsKnown
    <3>1. k = c /\ T!Starting = {} /\ helper # "dying" /\ \A d \in Commands \ {c} : T!At(d, "done")
      BY <1>1, Zenon DEF T!Begin
    <3>2. /\ cmd'[c].op = op /\ cmd'[c].at = op
          /\ \A d \in Commands \ {c} : cmd'[d] = cmd[d]
          /\ UNCHANGED <<helper, tstart>>
      BY <1>1 DEF T!Begin, TunnelTypeOK
    <3> QED BY <3>1, <3>2 DEF T!At, Activates, Deactivates, HelperIsKnown, T!Starting
  <2> QED BY <2>1, <2>2, <2>3, <2>4, <2>5 DEF TunnelInv
<1>2. ASSUME NEW c \in Commands, T!IsPortInUse(c) PROVE TunnelInv'
  <2>1. TunnelTypeOK'
    <3>1. cmd' \in [Commands -> CmdRecord]
      BY <1>2, CmdMoves DEF T!IsPortInUse, T!Failed, T!HealStickyTun, TunnelTypeOK,
         CommandPcs
    <3> QED BY <1>2, <3>1 DEF T!IsPortInUse, T!Failed, T!HealStickyTun, T!Starting,
          TunnelTypeOK
  <2>2. OneStart'
    <3>1. UNCHANGED <<box, up, tstart, overlap>> /\ adapter' \in {adapter, 0}
      BY <1>2 DEF T!IsPortInUse, T!Failed, T!HealStickyTun
    <3>2. \A d \in Commands : T!At(d, "start")' => T!At(d, "start")
      BY <1>2 DEF T!IsPortInUse, T!Failed, T!Go, T!Done, T!At, TunnelTypeOK, CmdRecord
    <3> QED BY <3>1, <3>2 DEF OneStart, T!Starting, Made, Down
  <2>3. HelperIsKnown'
    BY <1>2, <2>1 DEF T!IsPortInUse, T!Go, T!Failed, T!Done, T!HealStickyTun, T!At,
       TunnelTypeOK, CmdRecord, HelperIsKnown, T!Starting, Down, T!Ghost, T!Starts
  <2>4. OpIsKnown'
    BY <1>2, <2>1 DEF T!IsPortInUse, T!Go, T!Failed, T!Done, T!HealStickyTun, T!At,
       TunnelTypeOK, CmdRecord, OpIsKnown
  <2>5. AloneIsKnown'
    BY <1>2, <2>1 DEF T!IsPortInUse, T!Go, T!Failed, T!Done, T!HealStickyTun, T!At,
       TunnelTypeOK, CmdRecord, AloneIsKnown, Activates, Deactivates, OpIsKnown, OneStart,
       HelperIsKnown, T!Starting, Made, Down, T!Ghost, T!Starts
  <2> QED BY <2>1, <2>2, <2>3, <2>4, <2>5 DEF TunnelInv
<1>3. ASSUME NEW c \in Commands, T!StopFirst(c) PROVE TunnelInv'
  <2>1. TunnelTypeOK'
    <3>1. cmd' \in [Commands -> CmdRecord]
      BY <1>3, CmdMoves DEF T!StopFirst, TunnelTypeOK, CommandPcs
    <3> QED BY <1>3, StopBoxIsKnown, <3>1 DEF T!StopFirst, T!Starting, TunnelTypeOK
  <2>2. OneStart'
    BY <1>3, <2>1, StopBoxIsKnown DEF T!StopFirst, T!Go, T!At, TunnelTypeOK, CmdRecord,
       OneStart, HelperIsKnown, T!Starting, Made, Down, T!Ghost, T!Starts
  <2>3. HelperIsKnown'
    BY <1>3, <2>1, StopBoxIsKnown DEF T!StopFirst, T!Go, T!At, TunnelTypeOK, CmdRecord,
       HelperIsKnown, T!Starting, Down, T!Ghost, T!Starts
  <2>4. OpIsKnown'
    BY <1>3, <2>1 DEF T!StopFirst, T!Go, T!At, TunnelTypeOK, CmdRecord, OpIsKnown
  <2>5. AloneIsKnown'
    BY <1>3, <2>1, StopBoxIsKnown DEF T!StopFirst, T!Go, T!At, TunnelTypeOK, CmdRecord,
       AloneIsKnown, Activates, Deactivates, OpIsKnown, OneStart, HelperIsKnown, T!Starting,
       Made, Down, T!Ghost, T!Starts
  <2> QED BY <2>1, <2>2, <2>3, <2>4, <2>5 DEF TunnelInv
<1>4. ASSUME NEW c \in Commands, T!SendStart(c) PROVE TunnelInv'
  <2>1. TunnelTypeOK'
    <3>1. cmd' \in [Commands -> CmdRecord]
      BY <1>4, CmdMoves DEF T!SendStart, TunnelTypeOK, CommandPcs
    <3> QED BY <1>4, <3>1 DEF T!SendStart, T!Starting, TunnelTypeOK
  <2>2. OneStart'
    <3> SUFFICES ASSUME ~overlap' PROVE OneStart'
      BY DEF OneStart
    <3>1. ~overlap /\ T!Starting = {} /\ \A d \in Commands \ {c} : ~T!At(d, "start")
      BY <1>4, SendStartIsKnown DEF TunnelTypeOK
    <3>2. PICK s \in T!Starts : /\ tstart' = [tstart EXCEPT ![s] = "new"]
                                /\ cmd' = [cmd EXCEPT ![c].at = "wait", ![c].sent = s]
      BY <1>4 DEF T!SendStart
    <3>3. T!Starting' = {s}
      BY <3>1, <3>2 DEF T!Starting, TunnelTypeOK
    <3>4. up' = {} /\ adapter' \in Down /\ \A d \in Commands : ~T!At(d, "start")'
      BY <1>4, <3>1, <3>2 DEF T!SendStart, T!At, OneStart, TunnelTypeOK, CmdRecord
    <3> QED BY <3>3, <3>4 DEF OneStart
  <2>3. HelperIsKnown'
    BY <1>4, <2>1 DEF T!SendStart, T!Go, T!At, TunnelTypeOK, CmdRecord, HelperIsKnown,
       T!Starting, Down, T!Ghost, T!Starts
  <2>4. OpIsKnown'
    BY <1>4, <2>1 DEF T!SendStart, T!Go, T!At, TunnelTypeOK, CmdRecord, OpIsKnown
  <2>5. AloneIsKnown'
    BY <1>4, <2>1 DEF T!SendStart, T!Go, T!At, TunnelTypeOK, CmdRecord, AloneIsKnown,
       Activates, Deactivates, OpIsKnown, OneStart, HelperIsKnown, T!Starting, Made, Down,
       T!Ghost, T!Starts
  <2> QED BY <2>1, <2>2, <2>3, <2>4, <2>5 DEF TunnelInv
<1>5. ASSUME NEW c \in Commands, T!StartAnswered(c) PROVE TunnelInv'
  <2>1. TunnelTypeOK'
    <3>1. cmd' \in [Commands -> CmdRecord]
      BY <1>5, CmdMoves DEF T!StartAnswered, TunnelTypeOK, CommandPcs
    <3> QED BY <1>5, <3>1 DEF T!StartAnswered, T!Starting, TunnelTypeOK
  <2>2. OneStart'
    BY <1>5, <2>1 DEF T!StartAnswered, T!Done, T!At, TunnelTypeOK, CmdRecord, OneStart,
       HelperIsKnown, T!Starting, Made, Down, T!Ghost, T!Starts
  <2>3. HelperIsKnown'
    BY <1>5, <2>1 DEF T!StartAnswered, T!Done, T!At, TunnelTypeOK, CmdRecord, HelperIsKnown,
       T!Starting, Down, T!Ghost, T!Starts
  <2>4. OpIsKnown'
    BY <1>5, <2>1 DEF T!StartAnswered, T!Done, T!At, TunnelTypeOK, CmdRecord, OpIsKnown
  <2>5. AloneIsKnown'
    BY <1>5, <2>1 DEF T!StartAnswered, T!Done, T!At, TunnelTypeOK, CmdRecord, AloneIsKnown,
       Activates, Deactivates, OpIsKnown, OneStart, HelperIsKnown, T!Starting, Made, Down,
       T!Ghost, T!Starts
  <2> QED BY <2>1, <2>2, <2>3, <2>4, <2>5 DEF TunnelInv
<1>6. ASSUME NEW c \in Commands, T!StartFails(c) PROVE TunnelInv'
  <2>1. TunnelTypeOK'
    <3>1. cmd' \in [Commands -> CmdRecord]
      BY <1>6, CmdMoves DEF T!StartFails, T!Failed, T!HealStickyTun, T!Trouble,
         TunnelTypeOK, CommandPcs
    <3> QED BY <1>6, <3>1 DEF T!StartFails, T!Failed, T!HealStickyTun, T!Trouble,
          T!Starting, TunnelTypeOK
  <2>2. OneStart'
    <3> USE DEF T!StartFails, T!At
    <3>1. UNCHANGED <<box, up, tstart, overlap>> /\ adapter' \in {adapter, 0}
      BY <1>6 DEF T!Failed, T!HealStickyTun
    <3>2. \A d \in Commands : T!At(d, "start")' => T!At(d, "start")
      BY <1>6 DEF T!Failed, T!Go, T!Done, TunnelTypeOK, CmdRecord
    <3> QED BY <3>1, <3>2 DEF OneStart, T!Starting, Made, Down
  <2>3. HelperIsKnown'
    BY <1>6, <2>1 DEF T!StartFails, T!Failed, T!Go, T!Done, T!HealStickyTun, T!Trouble,
       T!At, TunnelTypeOK, CmdRecord, HelperIsKnown, T!Starting, Down, T!Ghost, T!Starts
  <2>4. OpIsKnown'
    BY <1>6, <2>1 DEF T!StartFails, T!Failed, T!Go, T!Done, T!HealStickyTun, T!Trouble,
       T!At, TunnelTypeOK, CmdRecord, OpIsKnown
  <2>5. AloneIsKnown'
    BY <1>6, <2>1 DEF T!StartFails, T!Failed, T!Go, T!Done, T!HealStickyTun, T!Trouble,
       T!At, TunnelTypeOK, CmdRecord, AloneIsKnown, Activates, Deactivates, OpIsKnown,
       OneStart, HelperIsKnown, T!Starting, Made, Down, T!Ghost, T!Starts
  <2> QED BY <2>1, <2>2, <2>3, <2>4, <2>5 DEF TunnelInv
<1>7. ASSUME NEW c \in Commands, T!Exit(c) PROVE TunnelInv'
  <2>1. TunnelTypeOK'
    <3>1. cmd' \in [Commands -> CmdRecord]
      BY <1>7, CmdMoves DEF T!Exit, T!AfterExit, TunnelTypeOK, CommandPcs
    <3> QED BY <1>7, StopBoxIsKnown, <3>1 DEF T!Exit, T!AfterExit, T!Starting, TunnelTypeOK
  <2>2. OneStart'
    BY <1>7, <2>1, StopBoxIsKnown DEF T!Exit, T!AfterExit, T!Go, T!Done, T!At, TunnelTypeOK,
       CmdRecord, OneStart, HelperIsKnown, T!Starting, Made, Down, T!Ghost, T!Starts
  <2>3. HelperIsKnown'
    BY <1>7, <2>1, StopBoxIsKnown DEF T!Exit, T!AfterExit, T!Go, T!Done, T!At, TunnelTypeOK,
       CmdRecord, HelperIsKnown, T!Starting, Down, T!Ghost, T!Starts
  <2>4. OpIsKnown'
    BY <1>7, <2>1 DEF T!Exit, T!AfterExit, T!Go, T!Done, T!At, TunnelTypeOK, CmdRecord,
       OpIsKnown
  <2>5. AloneIsKnown'
    BY <1>7, <2>1, StopBoxIsKnown DEF T!Exit, T!AfterExit, T!Go, T!Done, T!At, TunnelTypeOK,
       CmdRecord, AloneIsKnown, Activates, Deactivates, OpIsKnown, OneStart, HelperIsKnown,
       T!Starting, Made, Down, T!Ghost, T!Starts
  <2> QED BY <2>1, <2>2, <2>3, <2>4, <2>5 DEF TunnelInv
<1>8. ASSUME NEW c \in Commands, T!ExitLost(c) PROVE TunnelInv'
  <2>1. TunnelTypeOK'
    <3>1. cmd' \in [Commands -> CmdRecord]
      BY <1>8, CmdMoves DEF T!ExitLost, T!AfterExit, T!Trouble, TunnelTypeOK, CommandPcs
    <3> QED BY <1>8, <3>1 DEF T!ExitLost, T!AfterExit, T!Trouble, T!Starting, TunnelTypeOK
  <2>2. OneStart'
    <3>1. UNCHANGED <<box, up, adapter, tstart, overlap>>
      BY <1>8 DEF T!ExitLost
    <3>2. \A d \in Commands : T!At(d, "start")' => T!At(d, "start")
      BY <1>8 DEF T!ExitLost, T!AfterExit, T!Go, T!Done, T!At, TunnelTypeOK, CmdRecord
    <3> QED BY <3>1, <3>2 DEF OneStart, T!Starting, Made, Down
  <2>3. HelperIsKnown'
    BY <1>8, <2>1 DEF T!ExitLost, T!AfterExit, T!Go, T!Done, T!Trouble, T!At, TunnelTypeOK,
       CmdRecord, HelperIsKnown, T!Starting, Down, T!Ghost, T!Starts
  <2>4. OpIsKnown'
    BY <1>8, <2>1 DEF T!ExitLost, T!AfterExit, T!Go, T!Done, T!Trouble, T!At, TunnelTypeOK,
       CmdRecord, OpIsKnown
  <2>5. AloneIsKnown'
    BY <1>8, <2>1 DEF T!ExitLost, T!AfterExit, T!Go, T!Done, T!Trouble, T!At, TunnelTypeOK,
       CmdRecord, AloneIsKnown, Activates, Deactivates, OpIsKnown, OneStart, HelperIsKnown,
       T!Starting, Made, Down, T!Ghost, T!Starts
  <2> QED BY <2>1, <2>2, <2>3, <2>4, <2>5 DEF TunnelInv
<1>9. ASSUME NEW c \in Commands, T!Install(c) PROVE TunnelInv'
  <2>1. TunnelTypeOK'
    <3>1. cmd' \in [Commands -> CmdRecord]
      BY <1>9, CmdMoves DEF T!Install, TunnelTypeOK, CommandPcs
    <3> QED BY <1>9, <3>1 DEF T!Install, T!Starting, TunnelTypeOK
  <2>2. OneStart'
    BY <1>9, <2>1 DEF T!Install, T!Go, T!At, TunnelTypeOK, CmdRecord, OneStart,
       HelperIsKnown, T!Starting, Made, Down, T!Ghost, T!Starts
  <2>3. HelperIsKnown'
    BY <1>9, <2>1 DEF T!Install, T!Go, T!At, TunnelTypeOK, CmdRecord, HelperIsKnown,
       T!Starting, Down, T!Ghost, T!Starts
  <2>4. OpIsKnown'
    BY <1>9, <2>1 DEF T!Install, T!Go, T!At, TunnelTypeOK, CmdRecord, OpIsKnown
  <2>5. AloneIsKnown'
    BY <1>9, <2>1 DEF T!Install, T!Go, T!At, TunnelTypeOK, CmdRecord, AloneIsKnown,
       Activates, Deactivates, OpIsKnown, OneStart, HelperIsKnown, T!Starting, Made, Down,
       T!Ghost, T!Starts
  <2> QED BY <2>1, <2>2, <2>3, <2>4, <2>5 DEF TunnelInv
<1>10. ASSUME NEW c \in Commands, T!InstallFails(c) PROVE TunnelInv'
  <2>1. TunnelTypeOK'
    <3>1. cmd' \in [Commands -> CmdRecord]
      BY <1>10, CmdMoves DEF T!InstallFails, T!Trouble, TunnelTypeOK, CommandPcs
    <3> QED BY <1>10, <3>1 DEF T!InstallFails, T!Trouble, T!Starting, TunnelTypeOK
  <2>2. OneStart'
    <3>1. UNCHANGED <<box, up, adapter, tstart, overlap>>
      BY <1>10 DEF T!InstallFails
    <3>2. \A d \in Commands : T!At(d, "start")' => T!At(d, "start")
      BY <1>10 DEF T!InstallFails, T!Go, T!At, TunnelTypeOK, CmdRecord
    <3> QED BY <3>1, <3>2 DEF OneStart, T!Starting, Made, Down
  <2>3. HelperIsKnown'
    BY <1>10, <2>1 DEF T!InstallFails, T!Go, T!Trouble, T!At, TunnelTypeOK, CmdRecord,
       HelperIsKnown, T!Starting, Down, T!Ghost, T!Starts
  <2>4. OpIsKnown'
    BY <1>10, <2>1 DEF T!InstallFails, T!Go, T!Trouble, T!At, TunnelTypeOK, CmdRecord,
       OpIsKnown
  <2>5. AloneIsKnown'
    <3>1. UNCHANGED <<helper, box, up, adapter, tstart, overlap>>
      BY <1>10 DEF T!InstallFails
    <3>2. \A d \in Commands \ {c} : cmd'[d] = cmd[d] /\ alone'[d] = alone[d]
      BY <1>10 DEF T!InstallFails, T!Go, T!Trouble, TunnelTypeOK, CmdRecord
    <3>3. cmd[c].at = "install" /\ cmd'[c].op = cmd[c].op
      BY <1>10 DEF T!InstallFails, T!Go, T!At, T!Trouble, TunnelTypeOK, CmdRecord
    <3>4. \/ cmd'[c].at = "settle" /\ alone'[c] = alone[c]
          \/ cmd'[c].at = "activate" /\ (alone'[c] => alone[c] /\ helper # "dying")
      BY <1>10 DEF T!InstallFails, T!Go, T!Trouble, TunnelTypeOK, CmdRecord
    <3>5. cmd[c].op = "activate"
      BY <3>3 DEF OpIsKnown, TunnelTypeOK, CmdRecord, T!At
    <3>6. ASSUME NEW d \in Commands, alone'[d]
          PROVE  /\ \A e \in Commands \ {d} : T!At(e, "done")'
                 /\ cmd'[d].op = "activate" => Activates(d)'
                 /\ cmd'[d].op = "deactivate" => Deactivates(d)'
      <4>1. alone[d]
        BY <3>2, <3>4, <3>6
      <4>2. d = c
        BY <3>3, <4>1 DEF AloneIsKnown, T!At
      <4>3. \A e \in Commands \ {d} : T!At(e, "done")'
        BY <3>1, <3>2, <4>1, <4>2 DEF AloneIsKnown, T!At
      <4>4. Activates(d)'
        BY <3>1, <3>4, <3>6, <4>2 DEF Activates, T!At
      <4> QED BY <3>3, <3>5, <4>2, <4>3, <4>4
    <3> QED BY <3>6 DEF AloneIsKnown
  <2> QED BY <2>1, <2>2, <2>3, <2>4, <2>5 DEF TunnelInv
<1>11. ASSUME NEW c \in Commands, T!Settled(c) PROVE TunnelInv'
  <2>1. TunnelTypeOK'
    <3>1. cmd' \in [Commands -> CmdRecord]
      BY <1>11, CmdMoves DEF T!Settled, TunnelTypeOK, CommandPcs
    <3> QED BY <1>11, <3>1 DEF T!Settled, T!Starting, TunnelTypeOK
  <2>2. OneStart'
    BY <1>11, <2>1 DEF T!Settled, T!At, TunnelTypeOK, CmdRecord, OneStart, HelperIsKnown,
       T!Starting, Made, Down, T!Ghost, T!Starts
  <2>3. HelperIsKnown'
    BY <1>11, <2>1 DEF T!Settled, T!At, TunnelTypeOK, CmdRecord, HelperIsKnown, T!Starting,
       Down, T!Ghost, T!Starts
  <2>4. OpIsKnown'
    BY <1>11, <2>1 DEF T!Settled, T!At, TunnelTypeOK, CmdRecord, OpIsKnown
  <2>5. AloneIsKnown'
    <3>1. UNCHANGED <<helper, box, up, adapter, tstart, overlap>>
      BY <1>11 DEF T!Settled
    <3>2. \A d \in Commands \ {c} : cmd'[d] = cmd[d] /\ alone'[d] = alone[d]
      BY <1>11 DEF T!Settled, TunnelTypeOK, CmdRecord
    <3>3. /\ cmd[c].at = "settle" /\ cmd'[c].at = "activate" /\ cmd'[c].op = cmd[c].op
          /\ alone'[c] => alone[c] /\ helper # "dying"
      BY <1>11 DEF T!Settled, T!At, TunnelTypeOK, CmdRecord
    <3>4. cmd[c].op = "activate"
      BY <3>3 DEF OpIsKnown, TunnelTypeOK, CmdRecord, T!At
    <3>5. ASSUME NEW d \in Commands, alone'[d]
          PROVE  /\ \A e \in Commands \ {d} : T!At(e, "done")'
                 /\ cmd'[d].op = "activate" => Activates(d)'
                 /\ cmd'[d].op = "deactivate" => Deactivates(d)'
      <4>1. alone[d]
        BY <3>2, <3>3, <3>5
      <4>2. d = c
        BY <3>3, <4>1 DEF AloneIsKnown, T!At
      <4>3. \A e \in Commands \ {d} : T!At(e, "done")'
        BY <3>1, <3>2, <4>1, <4>2 DEF AloneIsKnown, T!At
      <4>4. Activates(d)'
        BY <3>1, <3>3, <3>5, <4>2 DEF Activates, T!At
      <4> QED BY <3>3, <3>4, <4>2, <4>3, <4>4
    <3> QED BY <3>5 DEF AloneIsKnown
  <2> QED BY <2>1, <2>2, <2>3, <2>4, <2>5 DEF TunnelInv
<1>12. ASSUME NEW c \in Commands, T!Stop(c) PROVE TunnelInv'
  <2>1. TunnelTypeOK'
    <3>1. cmd' \in [Commands -> CmdRecord]
      BY <1>12, CmdMoves DEF T!Stop, T!Trouble, TunnelTypeOK, CommandPcs
    <3> QED BY <1>12, StopBoxIsKnown, <3>1 DEF T!Stop, T!Trouble, T!Starting, TunnelTypeOK
  <2>2. OneStart'
    BY <1>12, <2>1, StopBoxIsKnown DEF T!Stop, T!Go, T!Done, T!Trouble, T!At, TunnelTypeOK,
       CmdRecord, OneStart, HelperIsKnown, T!Starting, Made, Down, T!Ghost, T!Starts
  <2>3. HelperIsKnown'
    BY <1>12, <2>1, StopBoxIsKnown DEF T!Stop, T!Go, T!Done, T!Trouble, T!At, TunnelTypeOK,
       CmdRecord, HelperIsKnown, T!Starting, Down, T!Ghost, T!Starts
  <2>4. OpIsKnown'
    BY <1>12, <2>1 DEF T!Stop, T!Go, T!Done, T!Trouble, T!At, TunnelTypeOK, CmdRecord,
       OpIsKnown
  <2>5. AloneIsKnown'
    BY <1>12, <2>1, StopBoxIsKnown DEF T!Stop, T!Go, T!Done, T!Trouble, T!At, TunnelTypeOK,
       CmdRecord, AloneIsKnown, Activates, Deactivates, OpIsKnown, OneStart, HelperIsKnown,
       T!Starting, Made, Down, T!Ghost, T!Starts
  <2> QED BY <2>1, <2>2, <2>3, <2>4, <2>5 DEF TunnelInv
<1>13. ASSUME NEW c \in Commands, T!StopAgain(c) PROVE TunnelInv'
  <2>1. TunnelTypeOK'
    <3>1. cmd' \in [Commands -> CmdRecord]
      BY <1>13, CmdMoves DEF T!StopAgain, TunnelTypeOK, CommandPcs
    <3> QED BY <1>13, StopBoxIsKnown, <3>1 DEF T!StopAgain, T!Starting, TunnelTypeOK
  <2>2. OneStart'
    BY <1>13, <2>1, StopBoxIsKnown DEF T!StopAgain, T!Done, T!At, TunnelTypeOK, CmdRecord,
       OneStart, HelperIsKnown, T!Starting, Made, Down, T!Ghost, T!Starts
  <2>3. HelperIsKnown'
    BY <1>13, <2>1, StopBoxIsKnown DEF T!StopAgain, T!Done, T!At, TunnelTypeOK, CmdRecord,
       HelperIsKnown, T!Starting, Down, T!Ghost, T!Starts
  <2>4. OpIsKnown'
    BY <1>13, <2>1 DEF T!StopAgain, T!Done, T!At, TunnelTypeOK, CmdRecord, OpIsKnown
  <2>5. AloneIsKnown'
    BY <1>13, <2>1, StopBoxIsKnown DEF T!StopAgain, T!Done, T!At, TunnelTypeOK, CmdRecord,
       AloneIsKnown, Activates, Deactivates, OpIsKnown, OneStart, HelperIsKnown, T!Starting,
       Made, Down, T!Ghost, T!Starts
  <2> QED BY <2>1, <2>2, <2>3, <2>4, <2>5 DEF TunnelInv
<1>14. ASSUME NEW c \in Commands, T!StopRefused(c) PROVE TunnelInv'
  <2>1. TunnelTypeOK'
    <3>1. cmd' \in [Commands -> CmdRecord]
      BY <1>14, CmdMoves DEF T!StopRefused, TunnelTypeOK, CommandPcs
    <3> QED BY <1>14, <3>1 DEF T!StopRefused, T!Starting, TunnelTypeOK
  <2>2. OneStart'
    BY <1>14, <2>1 DEF T!StopRefused, T!Done, T!At, TunnelTypeOK, CmdRecord, OneStart,
       HelperIsKnown, T!Starting, Made, Down, T!Ghost, T!Starts
  <2>3. HelperIsKnown'
    BY <1>14, <2>1 DEF T!StopRefused, T!Done, T!At, TunnelTypeOK, CmdRecord, HelperIsKnown,
       T!Starting, Down, T!Ghost, T!Starts
  <2>4. OpIsKnown'
    BY <1>14, <2>1 DEF T!StopRefused, T!Done, T!At, TunnelTypeOK, CmdRecord, OpIsKnown
  <2>5. AloneIsKnown'
    BY <1>14, <2>1 DEF T!StopRefused, T!Done, T!At, TunnelTypeOK, CmdRecord, AloneIsKnown,
       Activates, Deactivates, OpIsKnown, OneStart, HelperIsKnown, T!Starting, Made, Down,
       T!Ghost, T!Starts
  <2> QED BY <2>1, <2>2, <2>3, <2>4, <2>5 DEF TunnelInv
<1>15. ASSUME NEW s \in T!Starts, T!NewService(s) PROVE TunnelInv'
  <2>1. TunnelTypeOK'
    BY <1>15 DEF T!NewService, T!HealStickyTun, T!At, TunnelTypeOK, CommandPcs, T!Starts,
       T!Starting, T!Ghost
  <2>2. OneStart'
    <3> USE <1>15 DEF T!NewService, TunnelTypeOK, T!Starting
    <3>1. T!Starting' = T!Starting /\ s \in T!Starting /\ s \in Made' /\ Made \subseteq Made'
      BY DEF Made
    <3>2. up' = up \cup {s} /\ adapter' = s /\ UNCHANGED <<cmd, overlap>>
      OBVIOUS
    <3> QED BY <3>1, <3>2 DEF OneStart, T!At
  <2>3. HelperIsKnown'
    BY <1>15, <2>1 DEF T!NewService, T!HealStickyTun, T!At, TunnelTypeOK, CmdRecord,
       HelperIsKnown, T!Starting, Down, T!Ghost, T!Starts
  <2>4. OpIsKnown'
    BY <1>15, <2>1 DEF T!NewService, T!HealStickyTun, T!At, TunnelTypeOK, CmdRecord,
       OpIsKnown
  <2>5. AloneIsKnown'
    <3> SUFFICES ASSUME NEW k \in Commands, alone'[k]
                 PROVE  /\ \A d \in Commands \ {k} : T!At(d, "done")'
                        /\ cmd'[k].op = "activate" => Activates(k)'
                        /\ cmd'[k].op = "deactivate" => Deactivates(k)'
      BY DEF AloneIsKnown
    <3> USE <1>15, <2>1 DEF T!NewService, T!HealStickyTun, T!At, TunnelTypeOK, CmdRecord,
          AloneIsKnown
    <3>1. \A d \in Commands \ {k} : T!At(d, "done")'
      OBVIOUS
    <3>2. ASSUME cmd'[k].op = "activate" PROVE Activates(k)'
      <4>1. cmd[k].op = "activate" /\ Activates(k) /\ UNCHANGED <<helper, box, cmd, overlap>>
        BY <3>2
      <4>2. T!Starting' = T!Starting /\ s \in T!Starting
        BY DEF T!Starting
      <4>3. CASE T!At(k, "wait") /\ ~overlap
        <5>1. s = cmd[k].sent /\ up' = up \cup {s} /\ adapter' = s /\ tstart'[s] = "made"
          BY <4>1, <4>2, <4>3 DEF Activates
        <5> QED BY <4>1, <4>2, <4>3, <5>1 DEF Activates
      <4>4. CASE ~(T!At(k, "wait") /\ ~overlap)
        BY <4>1, <4>2, <4>4 DEF Activates
      <4> QED BY <4>3, <4>4
    <3>3. ASSUME cmd'[k].op = "deactivate" PROVE Deactivates(k)'
      BY <3>3 DEF Deactivates, OpIsKnown, OneStart, HelperIsKnown, T!Starting, Made, Down,
         T!Ghost, T!Starts
    <3> QED BY <3>1, <3>2, <3>3
  <2> QED BY <2>1, <2>2, <2>3, <2>4, <2>5 DEF TunnelInv
<1>16. ASSUME NEW s \in T!Starts, T!NewServiceFails(s) PROVE TunnelInv'
  <2>1. TunnelTypeOK'
    BY <1>16 DEF T!NewServiceFails, T!HealStickyTun, T!Trouble, T!At, TunnelTypeOK,
       CommandPcs, T!Starts, T!Starting, T!Ghost
  <2>2. OneStart'
    BY <1>16, <2>1 DEF T!NewServiceFails, T!HealStickyTun, T!Trouble, T!At, TunnelTypeOK,
       CmdRecord, OneStart, HelperIsKnown, T!Starting, Made, Down, T!Ghost, T!Starts
  <2>3. HelperIsKnown'
    BY <1>16, <2>1 DEF T!NewServiceFails, T!HealStickyTun, T!Trouble, T!At, TunnelTypeOK,
       CmdRecord, HelperIsKnown, T!Starting, Down, T!Ghost, T!Starts
  <2>4. OpIsKnown'
    BY <1>16, <2>1 DEF T!NewServiceFails, T!HealStickyTun, T!Trouble, T!At, TunnelTypeOK,
       CmdRecord, OpIsKnown
  <2>5. AloneIsKnown'
    <3> SUFFICES ASSUME NEW k \in Commands, alone'[k]
                 PROVE  /\ \A d \in Commands \ {k} : T!At(d, "done")'
                        /\ cmd'[k].op = "activate" => Activates(k)'
                        /\ cmd'[k].op = "deactivate" => Deactivates(k)'
      BY DEF AloneIsKnown
    <3> USE <1>16, <2>1 DEF T!NewServiceFails, T!HealStickyTun, T!Trouble, T!At,
          TunnelTypeOK, CmdRecord, AloneIsKnown
    <3>1. \A d \in Commands \ {k} : T!At(d, "done")'
      OBVIOUS
    <3>2. ASSUME cmd'[k].op = "activate" PROVE Activates(k)'
      <4>1. /\ cmd[k].op = "activate" /\ Activates(k)
            /\ UNCHANGED <<helper, box, up, cmd, overlap>>
        BY <3>2
      <4>2. /\ T!Starting' = T!Starting /\ s \in T!Starting /\ tstart'[s] = "unmade"
            /\ \A t \in T!Starts \ {s} : tstart'[t] = tstart[t]
        BY DEF T!Starting
      <4>3. CASE T!At(k, "wait") /\ ~overlap
        <5>1. s = cmd[k].sent
          BY <4>1, <4>2, <4>3 DEF Activates
        <5> QED BY <4>1, <4>2, <4>3, <5>1 DEF Activates
      <4>4. CASE ~(T!At(k, "wait") /\ ~overlap)
        BY <4>1, <4>2, <4>4 DEF Activates
      <4> QED BY <4>3, <4>4
    <3>3. ASSUME cmd'[k].op = "deactivate" PROVE Deactivates(k)'
      BY <3>3 DEF Deactivates, OpIsKnown, OneStart, HelperIsKnown, T!Starting, Made, Down,
         T!Ghost, T!Starts
    <3> QED BY <3>1, <3>2, <3>3
  <2> QED BY <2>1, <2>2, <2>3, <2>4, <2>5 DEF TunnelInv
<1>17. ASSUME NEW s \in T!Starts, T!StoreBox(s) PROVE TunnelInv'
  <2>1. TunnelTypeOK'
    BY <1>17 DEF T!StoreBox, T!At, TunnelTypeOK, CommandPcs, T!Starts, T!Starting, T!Ghost
  <2>2. OneStart'
    BY <1>17, <2>1 DEF T!StoreBox, T!At, TunnelTypeOK, CmdRecord, OneStart, HelperIsKnown,
       T!Starting, Made, Down, T!Ghost, T!Starts
  <2>3. HelperIsKnown'
    BY <1>17, <2>1 DEF T!StoreBox, T!At, TunnelTypeOK, CmdRecord, HelperIsKnown, T!Starting,
       Down, T!Ghost, T!Starts
  <2>4. OpIsKnown'
    BY <1>17, <2>1 DEF T!StoreBox, T!At, TunnelTypeOK, CmdRecord, OpIsKnown
  <2>5. AloneIsKnown'
    <3> SUFFICES ASSUME NEW k \in Commands, alone'[k]
                 PROVE  /\ \A d \in Commands \ {k} : T!At(d, "done")'
                        /\ cmd'[k].op = "activate" => Activates(k)'
                        /\ cmd'[k].op = "deactivate" => Deactivates(k)'
      BY DEF AloneIsKnown
    <3> USE <1>17, <2>1 DEF T!StoreBox, T!At, TunnelTypeOK, CmdRecord, AloneIsKnown
    <3>1. \A d \in Commands \ {k} : T!At(d, "done")'
      OBVIOUS
    <3>2. ASSUME cmd'[k].op = "activate" PROVE Activates(k)'
      <4>1. cmd[k].op = "activate" /\ Activates(k) /\ UNCHANGED <<helper, up, adapter, cmd, overlap>>
        BY <3>2
      <4>2. T!Starting' = T!Starting \ {s} /\ s \in T!Starting
        BY DEF T!Starting
      <4>3. CASE T!At(k, "wait") /\ ~overlap
        <5>1. s = cmd[k].sent /\ T!Starting' = {} /\ tstart'[s] \in {"ok", "error"}
          BY <4>1, <4>2, <4>3 DEF Activates
        <5>2. tstart'[s] = "ok" => tstart[s] = "made" /\ box' = s
          OBVIOUS
        <5> QED BY <4>1, <4>3, <5>1, <5>2 DEF Activates
      <4>4. CASE ~(T!At(k, "wait") /\ ~overlap)
        BY <4>1, <4>2, <4>4 DEF Activates
      <4> QED BY <4>3, <4>4
    <3>3. ASSUME cmd'[k].op = "deactivate" PROVE Deactivates(k)'
      BY <3>3 DEF Deactivates, OpIsKnown, OneStart, HelperIsKnown, T!Starting, Made, Down,
         T!Ghost, T!Starts
    <3> QED BY <3>1, <3>2, <3>3
  <2> QED BY <2>1, <2>2, <2>3, <2>4, <2>5 DEF TunnelInv
<1>18. ASSUME T!ExitTimer PROVE TunnelInv'
  <2>1. TunnelTypeOK'
    BY <1>18 DEF T!ExitTimer, T!Gone, T!At, TunnelTypeOK, CommandPcs, T!Starts, T!Starting,
       T!Ghost
  <2>2. OneStart'
    BY <1>18, <2>1 DEF T!ExitTimer, T!Gone, T!At, TunnelTypeOK, CmdRecord, OneStart,
       HelperIsKnown, T!Starting, Made, Down, T!Ghost, T!Starts
  <2>3. HelperIsKnown'
    BY <1>18, <2>1 DEF T!ExitTimer, T!Gone, T!At, TunnelTypeOK, CmdRecord, HelperIsKnown,
       T!Starting, Down, T!Ghost, T!Starts
  <2>4. OpIsKnown'
    BY <1>18, <2>1 DEF T!ExitTimer, T!Gone, T!At, TunnelTypeOK, CmdRecord, OpIsKnown
  <2>5. AloneIsKnown'
    <3> SUFFICES ASSUME NEW k \in Commands, alone'[k]
                 PROVE  /\ \A d \in Commands \ {k} : T!At(d, "done")'
                        /\ cmd'[k].op = "activate" => Activates(k)'
                        /\ cmd'[k].op = "deactivate" => Deactivates(k)'
      BY DEF AloneIsKnown
    <3> USE <1>18, <2>1 DEF T!ExitTimer, T!Gone, T!At, TunnelTypeOK, CmdRecord, AloneIsKnown
    <3>1. \A d \in Commands \ {k} : T!At(d, "done")'
      OBVIOUS
    <3>2. ASSUME cmd'[k].op = "activate" PROVE Activates(k)'
      BY <3>2 DEF Activates, OpIsKnown, OneStart, HelperIsKnown, T!Starting, Made, Down,
         T!Ghost, T!Starts
    <3>3. ASSUME cmd'[k].op = "deactivate" PROVE Deactivates(k)'
      BY <3>3 DEF Deactivates, OpIsKnown, OneStart, HelperIsKnown, T!Starting, Made, Down,
         T!Ghost, T!Starts
    <3> QED BY <3>1, <3>2, <3>3
  <2> QED BY <2>1, <2>2, <2>3, <2>4, <2>5 DEF TunnelInv
<1>19. ASSUME T!Kill PROVE TunnelInv'
  <2>1. TunnelTypeOK'
    BY <1>19 DEF T!Kill, T!Gone, T!Disturb, T!Trouble, T!At, TunnelTypeOK, CommandPcs,
       T!Starts, T!Starting, T!Ghost
  <2>2. OneStart'
    BY <1>19, <2>1 DEF T!Kill, T!Gone, T!Disturb, T!Trouble, T!At, TunnelTypeOK, CmdRecord,
       OneStart, HelperIsKnown, T!Starting, Made, Down, T!Ghost, T!Starts
  <2>3. HelperIsKnown'
    BY <1>19, <2>1 DEF T!Kill, T!Gone, T!Disturb, T!Trouble, T!At, TunnelTypeOK, CmdRecord,
       HelperIsKnown, T!Starting, Down, T!Ghost, T!Starts
  <2>4. OpIsKnown'
    BY <1>19, <2>1 DEF T!Kill, T!Gone, T!Disturb, T!Trouble, T!At, TunnelTypeOK, CmdRecord,
       OpIsKnown
  <2>5. AloneIsKnown'
    BY <1>19, <2>1 DEF T!Kill, T!Gone, T!Disturb, T!Trouble, T!At, TunnelTypeOK, CmdRecord,
       AloneIsKnown, Activates, Deactivates, OpIsKnown, OneStart, HelperIsKnown, T!Starting,
       Made, Down, T!Ghost, T!Starts
  <2> QED BY <2>1, <2>2, <2>3, <2>4, <2>5 DEF TunnelInv
<1>20. ASSUME T!StartTunnelGrpcServer PROVE TunnelInv'
  <2>1. TunnelTypeOK'
    BY <1>20 DEF T!StartTunnelGrpcServer, T!At, TunnelTypeOK, CommandPcs, T!Starts,
       T!Starting, T!Ghost
  <2>2. OneStart'
    BY <1>20, <2>1 DEF T!StartTunnelGrpcServer, T!At, TunnelTypeOK, CmdRecord, OneStart,
       HelperIsKnown, T!Starting, Made, Down, T!Ghost, T!Starts
  <2>3. HelperIsKnown'
    BY <1>20, <2>1 DEF T!StartTunnelGrpcServer, T!At, TunnelTypeOK, CmdRecord,
       HelperIsKnown, T!Starting, Down, T!Ghost, T!Starts
  <2>4. OpIsKnown'
    BY <1>20, <2>1 DEF T!StartTunnelGrpcServer, T!At, TunnelTypeOK, CmdRecord, OpIsKnown
  <2>5. AloneIsKnown'
    BY <1>20, <2>1 DEF T!StartTunnelGrpcServer, T!At, TunnelTypeOK, CmdRecord, AloneIsKnown,
       Activates, Deactivates, OpIsKnown, OneStart, HelperIsKnown, T!Starting, Made, Down,
       T!Ghost, T!Starts
  <2> QED BY <2>1, <2>2, <2>3, <2>4, <2>5 DEF TunnelInv
<1>21. CASE UNCHANGED tunnel
  BY <1>21 DEF tunnel, TunnelInv, TunnelTypeOK, OneStart, HelperIsKnown, OpIsKnown,
     AloneIsKnown, Activates,
     Deactivates, T!Starting, T!At, Made
<1> QED BY <1>1, <1>2, <1>3, <1>4, <1>5, <1>6, <1>7, <1>8, <1>9, <1>10, <1>11, <1>12, <1>13,
      <1>14, <1>15, <1>16, <1>17, <1>18, <1>19, <1>20, <1>21 DEF T!TunnelNext, T!Command

(***************************************************************************)
(* The commands that run the core                                           *)
(***************************************************************************)
Content == [config : Configs \cup {S!None}, hours : Intervals \cup {0}]
RunnerTypeOK ==
  /\ source \in S!Sources /\ current \in Content /\ new \in Content
  /\ main \in {"none", "read", "error", "start", "wait", "stop", "return", "exited"}
  /\ loop \in {"off", "sleep", "stop", "start"}
  /\ running \in Configs \cup {S!None} /\ meddles \in Nat
(* The loop begins when the first tunnel is up, and ends with the process; it *)
(* goes between a stop and a start only for a content that is a new one.     *)
LoopIsKnown ==
  /\ main \in {"none", "read", "start"} => loop = "off"
  /\ main \in {"start", "wait", "stop", "return", "exited"} =>
       current.config \in Configs /\ new.config \in Configs
  /\ loop \in {"stop", "start"} => new.config # current.config
(* Where no client meddles what runs is what the loop holds, and nothing     *)
(* runs before the first start and while a new one is awaited.               *)
TunnelIsKnown ==
  meddles = 0 =>
    /\ running # S!None => running = current.config
    /\ main \in {"none", "read", "start"} \/ loop = "start" => running = S!None
    /\ (main = "wait" /\ loop \in {"off", "sleep"} /\ running = S!None) => failed = current.config
    /\ (main \in {"return", "exited"} /\ loop = "off") => running = S!None
RunnerInv == RunnerTypeOK /\ LoopIsKnown /\ TunnelIsKnown

(* The sum of the pings is between as many of the shortest and as many of    *)
(* the longest, and the mean is taken once, of a ping at least.              *)
Between(lo, hi) == \A d \in Pings : lo <= d /\ d <= hi
PingInv ==
  /\ pinged \in Nat /\ total \in Nat /\ real \in Nat /\ mean \in Int
  /\ inst \in {"none", "off", "build", "panic", "error", "ping"} => mean = S!None
  /\ inst \in {"none", "off", "build", "ping"} => pinged < PingCount
  /\ \A lo, hi \in Pings : Between(lo, hi) => lo * real <= total /\ total <= hi * real
  /\ inst = "serve" => (mean = S!Bad <=> real = 0)
  /\ mean \notin {S!None, S!Bad} =>
       \A lo, hi \in Pings : Between(lo, hi) => lo <= mean /\ mean <= hi

\* Contents, intervals and delays are positive; the code asks for more than two pings.
LEMMA RunnerParts ==
  /\ Configs \subseteq Nat \ {0} /\ Intervals \subseteq Nat \ {0} /\ Pings \subseteq Nat \ {0}
  /\ PingCount \in Nat \ {0, 1, 2}
BY PartsAssumption

(* RunnerInv and PingInv are what the two commands promise.                 *)
LEMMA RunnerInvImplies == RunnerInv /\ PingInv => S!StandaloneServes
BY RunnerParts DEF RunnerInv, RunnerTypeOK, LoopIsKnown, TunnelIsKnown, PingInv, Content,
   Between,
   S!StandaloneServes, S!RunsWhatItHolds, S!LeavesNothingUp, S!MeanIsMeasured, S!None, S!Bad

(* Neither command has started anything.                                    *)
LEMMA RunnerInitInv == PartsInit => RunnerInv /\ PingInv
<1> SUFFICES ASSUME S!StandaloneInit PROVE RunnerInv /\ PingInv
  BY DEF PartsInit
<1> USE DEF S!StandaloneInit, S!None, S!Bad
<1>1. [url |-> FALSE, config |-> S!Bad, header |-> S!None, body |-> S!None] \in S!Sources
  BY DEF S!Sources
<1>2. RunnerTypeOK
  BY <1>1 DEF RunnerTypeOK, Content
<1>3. LoopIsKnown /\ TunnelIsKnown
  BY DEF LoopIsKnown, TunnelIsKnown
<1>4. PingInv
  BY RunnerParts DEF PingInv
<1> QED BY <1>2, <1>3, <1>4 DEF RunnerInv

(* What is read of a source that parses.                                    *)
LEMMA ReadIsContent ==
  ASSUME source \in S!Sources, S!ReadAndBuild
  PROVE  new' \in Content /\ new'.config \in Configs
<1>1. source.config \in Configs /\ source.header \in Intervals \cup {S!None, S!Junk}
      /\ source.body \in Intervals \cup {S!None, S!Junk}
  BY DEF S!Sources, S!ReadAndBuild
<1>2. S!extractRefreshInterval(source) \in Intervals \cup {0}
  BY <1>1 DEF S!extractRefreshInterval, S!None
<1> QED BY <1>1, <1>2 DEF S!ReadAndBuild, S!readConfigContent, Content

(* Every step of the loop and of the clients beside it keeps RunnerInv.     *)
LEMMA RunnerStepInv == RunnerInv /\ [S!StandaloneNext]_command => RunnerInv'
<1> SUFFICES ASSUME RunnerInv, [S!StandaloneNext]_command PROVE RunnerInv'
  OBVIOUS
<1> USE RunnerParts DEF RunnerInv, RunnerTypeOK, LoopIsKnown, TunnelIsKnown, S!None,
                        S!runnerVars, S!instVars
<1>1. CASE S!FirstRead
  BY <1>1, ReadIsContent DEF S!FirstRead, S!ReadFails, S!Lapse
<1>2. CASE S!FirstStart
  BY <1>2 DEF S!FirstStart, S!StartService, S!StartFails, Content
<1>3. CASE S!Interrupt \/ S!LastStop \/ S!Return
  BY <1>3 DEF S!Interrupt, S!LastStop, S!Return
<1>4. CASE S!Reread
  BY <1>4, ReadIsContent DEF S!Reread, S!ReadFails, S!Alive
<1>5. CASE S!StopOld
  BY <1>5 DEF S!StopOld, S!Alive
<1>6. CASE S!StartNew
  BY <1>6 DEF S!StartNew, S!StartService, S!StartFails, S!Alive, Content
<1>7. CASE S!Publish
  BY <1>7 DEF S!Publish
<1>8. CASE S!Meddle
  <2>1. /\ meddles' = meddles + 1 /\ running' \in Configs \cup {0}
        /\ UNCHANGED <<source, main, loop, current, new, failed>>
    BY <1>8 DEF S!Meddle
  <2> QED BY <2>1
<1>9. CASE \/ S!acquireEphemeralPort \/ S!TakePort \/ S!RunInstance \/ S!PingAverage
           \/ S!CloseInstance \/ UNCHANGED command
  BY <1>9 DEF S!acquireEphemeralPort, S!TakePort, S!RunInstance, S!PingAverage,
     S!CloseInstance,
     command
<1> QED BY <1>1, <1>2, <1>3, <1>4, <1>5, <1>6, <1>7, <1>8, <1>9 DEF S!StandaloneNext

(* A mean of delays is a number of milliseconds again.                      *)
LEMMA MeanIsNatural == \A s \in Nat, n \in Nat \ {0} : s \div n \in Nat
OBVIOUS
(* A mean is between the bounds of what was summed.                         *)
LEMMA MeanIsBetween ==
  ASSUME NEW lo \in Nat, NEW hi \in Nat, NEW n \in Nat \ {0}, NEW s \in Nat,
         lo * n <= s, s <= hi * n
  PROVE  s \div n \in Int /\ lo <= s \div n /\ s \div n <= hi
OBVIOUS

(* One more delay keeps the sum between the bounds of its terms.            *)
LEMMA SumIsBetween ==
  ASSUME NEW lo \in Nat, NEW hi \in Nat, NEW n \in Nat, NEW s \in Nat, NEW d \in Nat,
         lo * n <= s, s <= hi * n, lo <= d, d <= hi
  PROVE  lo * (n + 1) <= s + d /\ s + d <= hi * (n + 1)
OBVIOUS

(* Every ping of an instance keeps its sum between the bounds of the delays.*)
LEMMA PingStepInv == PingInv /\ [S!StandaloneNext]_command => PingInv'
<1> SUFFICES ASSUME PingInv, [S!StandaloneNext]_command PROVE PingInv'
  OBVIOUS
<1>1. CASE S!PingAverage
  <2> USE <1>1, RunnerParts DEF S!PingAverage
  <2>1. inst = "ping" /\ mean = S!None /\ pinged < PingCount /\ pinged' = pinged + 1 /\ pinged' \in Nat
    BY DEF PingInv
  <2>2. /\ total' \in Nat /\ real' \in Nat
        /\ \A lo, hi \in Pings : Between(lo, hi) => lo * real' <= total' /\ total' <= hi * real'
    <3>1. ASSUME NEW d \in Pings, real' = real + 1, total' = total + d,
                 NEW lo \in Pings, NEW hi \in Pings, Between(lo, hi)
          PROVE  lo * real' <= total' /\ total' <= hi * real'
      <4>1. lo * real <= total /\ total <= hi * real /\ lo <= d /\ d <= hi
        BY <3>1 DEF PingInv, Between
      <4> QED BY <3>1, <4>1, SumIsBetween DEF PingInv
    <3> QED BY <3>1 DEF PingInv
  <2>3. CASE real' = 0 /\ pinged > PingCount \div 2
    BY <2>1, <2>2, <2>3 DEF PingInv, S!None, S!Bad
  <2>4. CASE ~(real' = 0 /\ pinged > PingCount \div 2) /\ pinged' = PingCount
    <3>1. pinged > PingCount \div 2
      BY <2>1, <2>4 DEF PingInv
    <3>2. real' \in Nat \ {0} /\ inst' = "serve" /\ mean' = total' \div real'
      BY <2>2, <2>4, <3>1
    <3>3. mean' \in Nat
      BY <2>2, <3>2, MeanIsNatural
    <3>4. ASSUME NEW lo \in Pings, NEW hi \in Pings, Between(lo, hi)
          PROVE  lo <= mean' /\ mean' <= hi
      BY <2>2, <3>2, <3>4, MeanIsBetween
    <3>5. pinged' \in Nat /\ mean' \in Int /\ (mean' = S!Bad <=> real' = 0)
      BY <2>1, <3>2, <3>3 DEF S!Bad
    <3> QED BY <2>2, <3>2, <3>4, <3>5 DEF PingInv, Between
  <2>5. CASE ~(real' = 0 /\ pinged > PingCount \div 2) /\ pinged' # PingCount
    <3>1. inst' = inst /\ mean' = mean /\ pinged' < PingCount
      BY <2>1, <2>5 DEF PingInv
    <3> QED BY <2>1, <2>2, <3>1 DEF PingInv, S!None, S!Bad, Between
  <2> QED BY <2>3, <2>4, <2>5
<1>2. CASE S!acquireEphemeralPort \/ S!TakePort \/ S!RunInstance
  BY <1>2 DEF S!acquireEphemeralPort, S!TakePort, S!RunInstance, PingInv, Between
<1>3. CASE S!CloseInstance
  BY <1>3 DEF S!CloseInstance, PingInv, Between
<1>4. CASE \/ S!FirstRead \/ S!FirstStart \/ S!Interrupt \/ S!LastStop \/ S!Return
           \/ S!Reread \/ S!StopOld \/ S!StartNew \/ S!Publish \/ S!Meddle \/ UNCHANGED command
  BY <1>4 DEF S!FirstRead, S!FirstStart, S!Interrupt, S!LastStop, S!Return, S!Reread,
     S!StopOld,
     S!StartNew, S!Publish, S!Meddle, S!instVars, command, PingInv, Between
<1> QED BY <1>1, <1>2, <1>3, <1>4 DEF S!StandaloneNext

(***************************************************************************)
(* The race of a probe                                                      *)
(***************************************************************************)
RaceTypeOK ==
  /\ prober \in {"engine", "monitor"} /\ urls \in SUBSET Urls \ {{}} /\ samples \in SampleCounts
  /\ rpc \in {"next", "race", "sum", "done"} /\ cancelled \in BOOLEAN
  /\ dial \in [R!Indices -> [Urls -> {"off", "dialing", "ended"}]]
  /\ results \in Seq(Delays \cup {R!Error}) /\ closer \in {"idle", "waits", "closed"}
  /\ tries \in 0..samples /\ okCount \in Nat /\ sum \in Nat /\ measured \subseteq Delays
  /\ over \subseteq 1..tries /\ good \subseteq 1..tries /\ cut \subseteq 1..tries
(* The samples are taken one after the other, and a sample that is over has *)
(* ended its context; who closes the box has ended the probe's before.      *)
SamplesAreKnown ==
  /\ rpc = "race" => tries > 0
  /\ \A i \in 1..tries : i \in over \/ (i = tries /\ rpc = "race")
  /\ \A i \in R!Indices, u \in Urls : dial[i][u] = "dialing" => i <= tries
  /\ closer # "idle" => cancelled
  /\ okCount <= tries /\ (rpc = "race" => okCount < tries)
(* A leaf that has not succeeded is left by the engine at once.             *)
GivingUpIsKnown ==
  /\ rpc = "sum" => prober = "engine" /\ okCount = 0
  /\ (prober = "engine" /\ okCount = 0 /\ rpc # "done") => tries = IF rpc = "next" THEN 0 ELSE 1
(* The sum is between as many of one and of another delay that was measured. *)
TallyIsKnown ==
  /\ okCount = 0 => measured = {} /\ sum = 0
  /\ okCount > 0 => \E a, b \in measured : a * okCount <= sum /\ sum <= b * okCount
(* A good answer of the sample that runs is in the channel still, and who    *)
(* cuts that sample short is known; those of the others have been counted.  *)
HasGood == \E k \in 1..Len(results) : R!IsGood(results[k])
Won == good \ cut
AnswersAreKnown ==
  /\ ~R!Several => results = <<>>
  /\ (rpc = "race" /\ R!Ended(tries)) => tries \in cut
  /\ (rpc = "race" /\ tries \in Won) => HasGood
  /\ Cardinality(IF rpc = "race" THEN Won \ {tries} ELSE Won) <= okCount
RaceInv == /\ RaceTypeOK /\ SamplesAreKnown /\ GivingUpIsKnown /\ TallyIsKnown /\ AnswersAreKnown
           /\ R!VerdictIsMeasured

(* The counts of samples and the delays are positive.                       *)
LEMMA RaceParts ==
  /\ SampleCounts \subseteq Nat \ {0} /\ Delays \subseteq Nat \ {0} /\ MaxDelay \in Nat
  /\ R!Indices \subseteq Nat \ {0} /\ \A n \in SampleCounts : 1..n \subseteq R!Indices
BY PartsAssumption DEF R!Indices

(* What the samples have won is finite, and adding one adds one at most.    *)
LEMMA FewerAreFewer ==
  ASSUME NEW n \in Nat, NEW A \in SUBSET (1..n), NEW B \in SUBSET A
  PROVE  /\ IsFiniteSet(A) /\ Cardinality(A) \in Nat /\ Cardinality(B) \in Nat
         /\ Cardinality(B) <= Cardinality(A)
<1>1. IsFiniteSet(1..n)
  BY FS_Interval
<1>2. IsFiniteSet(A)
  BY <1>1, FS_Subset
<1>3. IsFiniteSet(B) /\ Cardinality(B) <= Cardinality(A)
  BY <1>2, FS_Subset
<1> QED BY <1>2, <1>3, FS_CardinalityType

(* A set of winners grows by at most one.                                   *)
LEMMA WonIsFinite ==
  ASSUME NEW n \in Nat, NEW A \in SUBSET (1..n), NEW x, NEW B \in SUBSET (A \cup {x})
  PROVE  /\ Cardinality(A) \in Nat /\ Cardinality(B) \in Nat
         /\ Cardinality(B) <= Cardinality(A) + 1
<1>1. IsFiniteSet(A) /\ Cardinality(A) \in Nat
  BY FewerAreFewer
<1>2. IsFiniteSet(A \cup {x}) /\ Cardinality(A \cup {x}) \in {Cardinality(A), Cardinality(A) + 1}
  BY <1>1, FS_AddElement
<1>3. IsFiniteSet(B) /\ Cardinality(B) <= Cardinality(A \cup {x})
  BY <1>2, FS_Subset
<1>4. Cardinality(B) \in Nat /\ Cardinality(A \cup {x}) \in Nat
  BY <1>2, <1>3, FS_CardinalityType
<1> QED BY <1>1, <1>2, <1>3, <1>4

(* A probe that has not begun has no verdict.                               *)
LEMMA RaceInitInv == PartsInit => RaceInv
<1> SUFFICES ASSUME R!RaceInit PROVE RaceInv
  BY DEF PartsInit
<1> USE RaceParts DEF R!RaceInit, R!Error
<1>1. RaceTypeOK
  <2>1. results \in Seq(Delays \cup {R!Error}) /\ over \subseteq 1..tries
    OBVIOUS
  <2>2. dial \in [R!Indices -> [Urls -> {"off", "dialing", "ended"}]] /\ tries \in 0..samples
    OBVIOUS
  <2> QED BY <2>1, <2>2 DEF RaceTypeOK
<1>2. SamplesAreKnown /\ GivingUpIsKnown /\ TallyIsKnown
  BY DEF SamplesAreKnown, GivingUpIsKnown, TallyIsKnown
<1>3. AnswersAreKnown /\ R!VerdictIsMeasured
  BY FS_EmptySet DEF AnswersAreKnown, Won, R!VerdictIsMeasured
<1> QED BY <1>1, <1>2, <1>3 DEF RaceInv

(* One good URL is enough, and no dial is left uncancelled.                 *)
LEMMA RaceInvImplies == RaceInv => R!VerdictsAreSound
<1> SUFFICES ASSUME RaceInv PROVE R!VerdictsAreSound
  OBVIOUS
<1>1. rpc \in {"next", "sum", "done"} => Cardinality(good \ cut) <= okCount
  BY DEF RaceInv, AnswersAreKnown, Won
<1>2. R!Cardinality(good \ cut) = Cardinality(good \ cut)
  BY DEF R!Cardinality, Cardinality
<1>3. R!OneUrlIsEnough
  BY <1>1, <1>2 DEF R!OneUrlIsEnough
<1>4. R!StrayDialsAreCancelled
  BY RaceParts DEF RaceInv, RaceTypeOK, SamplesAreKnown, R!StrayDialsAreCancelled, R!Ended,
     R!Indices
<1> QED BY <1>3, <1>4 DEF RaceInv, R!VerdictsAreSound

(* The bounds of a sum may be widened when a delay is added.                *)
LEMMA SumStaysBetween ==
  ASSUME NEW a \in Nat, NEW b \in Nat, NEW lo \in Nat, NEW hi \in Nat, NEW n \in Nat,
         NEW s \in Nat, NEW d \in Nat, a * n <= s, s <= b * n,
         lo <= a, lo <= d, b <= hi, d <= hi
  PROVE  lo * (n + 1) <= s + d /\ s + d <= hi * (n + 1)
<1>1. lo * n <= a * n /\ b * n <= hi * n
  OBVIOUS
<1> QED BY <1>1, SumIsBetween
(* The tally with one more delay.                                           *)
LEMMA TallyGrows ==
  ASSUME okCount \in Nat, sum \in Nat, measured \subseteq Delays, TallyIsKnown,
         NEW d \in Delays, okCount' = okCount + 1, sum' = sum + d,
         measured' = measured \cup {d}
  PROVE  TallyIsKnown'
<1>1. CASE okCount = 0
  BY <1>1, RaceParts DEF TallyIsKnown
<1>2. CASE okCount > 0
  <2>1. PICK a \in measured, b \in measured : a * okCount <= sum /\ sum <= b * okCount
    BY <1>2 DEF TallyIsKnown
  <2>2. a \in Nat /\ b \in Nat /\ d \in Nat
    BY RaceParts
  <2>3. PICK lo \in {a, d} : lo <= a /\ lo <= d
    BY <2>2
  <2>4. PICK hi \in {b, d} : b <= hi /\ d <= hi
    BY <2>2
  <2>5. lo * (okCount + 1) <= sum + d /\ sum + d <= hi * (okCount + 1)
    BY <2>1, <2>2, <2>3, <2>4, SumStaysBetween
  <2>6. lo \in measured' /\ hi \in measured'
    BY <2>3, <2>4
  <2>7. \E x, y \in measured' : x * okCount' <= sum' /\ sum' <= y * okCount'
    BY <2>5, <2>6
  <2> QED BY <2>7 DEF TallyIsKnown
<1> QED BY <1>1, <1>2

(* A sample may end with a good delay, or when none is left to receive.     *)
LEMMA EndSampleKeeps ==
  ASSUME RaceInv, rpc = "race", NEW d \in Delays \cup {R!Error}, R!EndSample(d),
         UNCHANGED <<prober, urls, samples, tries, verdict, cancelled, closer, cut>>,
         good' \in {good, good \cup {tries}}, R!IsGood(d) \/ tries \notin good' \ cut,
         dial' \in [R!Indices -> [Urls -> {"off", "dialing", "ended"}]],
         \A i \in R!Indices, u \in Urls : dial'[i][u] = "dialing" => dial[i][u] = "dialing",
         results' \in Seq(Delays \cup {R!Error}), ~R!Several => results' = <<>>
  PROVE  RaceInv'
<1> USE RaceParts DEF RaceInv, R!EndSample
<1>1. RaceTypeOK'
  <2>1. tries \in 1..tries /\ rpc' \in {"next", "sum"}
    BY DEF RaceTypeOK, SamplesAreKnown
  <2>2. okCount' \in Nat /\ sum' \in Nat /\ measured' \subseteq Delays
    <3>1. CASE R!IsGood(d)
      <4>1. d \in Delays /\ d \in Nat
        BY <3>1 DEF R!IsGood, R!Error
      <4>2. okCount' = okCount + 1 /\ sum' = sum + d /\ measured' = measured \cup {d}
        BY <3>1
      <4> QED BY <4>1, <4>2 DEF RaceTypeOK
    <3>2. CASE ~R!IsGood(d)
      BY <3>2 DEF RaceTypeOK
    <3> QED BY <3>1, <3>2
  <2> QED BY <2>1, <2>2 DEF RaceTypeOK
<1>2. SamplesAreKnown'
  BY DEF RaceTypeOK, SamplesAreKnown
<1>3. GivingUpIsKnown'
  BY DEF RaceTypeOK, GivingUpIsKnown, R!GivesUp
<1>4. TallyIsKnown'
  <2>1. CASE R!IsGood(d)
    <3>1. d \in Delays
      BY <2>1 DEF R!IsGood, R!Error
    <3>2. okCount \in Nat /\ sum \in Nat /\ measured \subseteq Delays
      BY DEF RaceTypeOK
    <3>3. okCount' = okCount + 1 /\ sum' = sum + d /\ measured' = measured \cup {d}
      BY <2>1
    <3> QED BY <3>1, <3>2, <3>3, TallyGrows
  <2>2. CASE ~R!IsGood(d)
    BY <2>2 DEF TallyIsKnown
  <2> QED BY <2>1, <2>2
<1>5. AnswersAreKnown'
  <2>1. rpc' # "race" /\ (~R!Several => results = <<>>)' 
    BY DEF R!Several
  <2>2. Won \subseteq 1..tries /\ tries \in Nat /\ okCount \in Nat /\ Cardinality(Won \ {tries}) <= okCount
    BY DEF RaceTypeOK, Won, AnswersAreKnown
  <2>3. CASE R!IsGood(d)
    <3>1. okCount' = okCount + 1 /\ Won' \in SUBSET ((Won \ {tries}) \cup {tries})
      BY <2>3 DEF Won
    <3>2. Won \ {tries} \in SUBSET (1..tries)
      BY <2>2
    <3>3. Cardinality(Won') \in Nat /\ Cardinality(Won \ {tries}) \in Nat /\ Cardinality(Won') <= Cardinality(Won \ {tries}) + 1
      BY <2>2, <3>1, <3>2, WonIsFinite
    <3>4. Cardinality(Won') <= okCount'
      BY <2>2, <3>1, <3>3
    <3> QED BY <2>1, <3>4 DEF AnswersAreKnown
  <2>4. CASE ~R!IsGood(d)
    <3>1. okCount' = okCount /\ Won' \in SUBSET (Won \ {tries})
      BY <2>4 DEF Won
    <3>2. Won \ {tries} \in SUBSET (1..tries)
      BY <2>2
    <3>3. Cardinality(Won') \in Nat /\ Cardinality(Won \ {tries}) \in Nat /\ Cardinality(Won') <= Cardinality(Won \ {tries})
      BY <2>2, <3>1, <3>2, FewerAreFewer
    <3>4. Cardinality(Won') <= okCount'
      BY <2>2, <3>1, <3>3
    <3> QED BY <2>1, <3>4 DEF AnswersAreKnown
  <2> QED BY <2>3, <2>4
<1>6. (R!VerdictIsMeasured)'
  BY DEF R!VerdictIsMeasured
<1> QED BY <1>1, <1>2, <1>3, <1>4, <1>5, <1>6

(* Where nothing is received and no dial ends, the tally and the answers     *)
(* stay; who ends a context in a race cuts it short.                        *)
LEMMA CutKeeps ==
  ASSUME RaceInv, UNCHANGED <<prober, urls, samples, rpc, dial, results, tries, okCount, sum, verdict,
                              measured, good>>,
         over \subseteq over', over' \subseteq 1..tries, cancelled' \in BOOLEAN, cancelled => cancelled',
         closer' \in {"idle", "waits", "closed"}, closer' # "idle" => cancelled',
         cut \subseteq cut', cut' \subseteq 1..tries,
         (rpc = "race" /\ R!Ended(tries)') => R!Ended(tries) \/ tries \in cut'
  PROVE  RaceInv'
<1> USE DEF RaceInv
<1>1. RaceTypeOK'
  BY DEF RaceTypeOK
<1>2. SamplesAreKnown' /\ GivingUpIsKnown' /\ TallyIsKnown'
  BY DEF RaceTypeOK, SamplesAreKnown, GivingUpIsKnown, TallyIsKnown
<1>3. AnswersAreKnown'
  <2> DEFINE Counted == IF rpc = "race" THEN Won \ {tries} ELSE Won
  <2>1. Counted \in SUBSET (1..tries) /\ Counted' \in SUBSET Counted /\ tries \in Nat /\ okCount \in Nat
    <3>1. Won \subseteq 1..tries /\ Won' \subseteq Won
      BY DEF RaceTypeOK, Won
    <3>2. tries' = tries /\ rpc' = rpc /\ tries \in Nat /\ okCount \in Nat
      BY RaceParts DEF RaceTypeOK
    <3> QED BY <3>1, <3>2
  <2>2. Cardinality(Counted') <= okCount'
    <3>1. Cardinality(Counted') <= Cardinality(Counted) /\ Cardinality(Counted') \in Nat /\ Cardinality(Counted) \in Nat
      BY <2>1, FewerAreFewer
    <3>2. Cardinality(Counted) <= okCount
      BY DEF AnswersAreKnown
    <3> QED BY <2>1, <3>1, <3>2
  <2>3. ~R!Several' => results' = <<>>
    BY DEF AnswersAreKnown, R!Several
  <2>4. (rpc' = "race" /\ R!Ended(tries)') => tries \in cut'
    BY DEF AnswersAreKnown
  <2>5. (rpc' = "race" /\ tries' \in Won') => HasGood'
    BY DEF AnswersAreKnown, HasGood, Won
  <2> QED BY <2>2, <2>3, <2>4, <2>5 DEF AnswersAreKnown
<1>4. (R!VerdictIsMeasured)'
  BY DEF R!VerdictIsMeasured
<1> QED BY <1>1, <1>2, <1>3, <1>4

(* A queue has a good sample when it had one or gets one.                   *)
LEMMA AppendKeepsGood ==
  ASSUME NEW D, NEW q \in Seq(D), NEW d \in D
  PROVE  /\ Append(q, d) \in Seq(D)
         /\ (\E k \in 1..Len(Append(q, d)) : R!IsGood(Append(q, d)[k]))
              <=> ((\E k \in 1..Len(q) : R!IsGood(q[k])) \/ R!IsGood(d))
<1>1. /\ Append(q, d) \in Seq(D) /\ Len(Append(q, d)) = Len(q) + 1 /\ Len(q) \in Nat
      /\ Append(q, d)[Len(q) + 1] = d /\ \A k \in 1..Len(q) : Append(q, d)[k] = q[k]
  OBVIOUS
<1>2. 1..(Len(q) + 1) = (1..Len(q)) \cup {Len(q) + 1}
  BY <1>1
<1> QED BY <1>1, <1>2

(* A good sample of a queue is its head or is in its tail.                  *)
LEMMA TailKeepsGood ==
  ASSUME NEW D, NEW q \in Seq(D), q # <<>>
  PROVE  /\ Head(q) \in D /\ Tail(q) \in Seq(D) /\ (Len(q) = 1 => Tail(q) = <<>>)
         /\ (\E k \in 1..Len(q) : R!IsGood(q[k]))
              => (R!IsGood(Head(q)) \/ \E k \in 1..Len(Tail(q)) : R!IsGood(Tail(q)[k]))
<1>1. Head(q) \in D /\ Tail(q) \in Seq(D)
  OBVIOUS
<1>2. /\ Len(q) \in Nat \ {0} /\ Len(Tail(q)) = Len(q) - 1 /\ Head(q) = q[1]
      /\ \A k \in 1..Len(Tail(q)) : Tail(q)[k] = q[k + 1]
  OBVIOUS
<1>3. ASSUME NEW k \in 1..Len(q), R!IsGood(q[k])
      PROVE  R!IsGood(Head(q)) \/ \E j \in 1..Len(Tail(q)) : R!IsGood(Tail(q)[j])
  <2>1. CASE k = 1
    BY <1>2, <1>3, <2>1
  <2>2. CASE k # 1
    <3>1. k - 1 \in 1..Len(Tail(q)) /\ Tail(q)[k - 1] = q[k]
      BY <1>2, <2>2
    <3> QED BY <1>3, <3>1
  <2> QED BY <2>1, <2>2
<1>4. ASSUME Len(q) = 1 PROVE Tail(q) = <<>>
  <2>1. Len(Tail(q)) = 0
    BY <1>2, <1>4
  <2> QED BY <1>1, <2>1, EmptySeq, Zenon
<1> QED BY <1>1, <1>3, <1>4

(* Every dial, late answer, timeout, sample and close keeps RaceInv.        *)
LEMMA RaceStepInv == RaceInv /\ [R!RaceNext]_race => RaceInv'
<1> SUFFICES ASSUME RaceInv, [R!RaceNext]_race PROVE RaceInv'
  OBVIOUS
<1> USE RaceParts DEF R!fixed, R!tally
<1>1. CASE R!BeginSample
  <2>1. RaceTypeOK'
    <3>1. tries + 1 \in 1..samples /\ samples \in SampleCounts /\ tries' = tries + 1
      BY <1>1 DEF R!BeginSample, RaceInv, RaceTypeOK
    <3>2. results' \in Seq(Delays \cup {R!Error})
      BY <1>1 DEF R!BeginSample
    <3>3. dial' \in [R!Indices -> [Urls -> {"off", "dialing", "ended"}]]
      BY <1>1, <3>1 DEF R!BeginSample, RaceInv, RaceTypeOK
    <3> QED BY <1>1, <3>1, <3>2, <3>3 DEF R!BeginSample, RaceInv, RaceTypeOK
  <2>2. SamplesAreKnown' /\ GivingUpIsKnown' /\ TallyIsKnown'
    <3>1. GivingUpIsKnown' /\ TallyIsKnown'
      BY <1>1 DEF R!BeginSample, RaceInv, GivingUpIsKnown, TallyIsKnown
    <3>2. \A j \in R!Indices, v \in Urls : dial'[j][v] = "dialing" => j <= tries'
      BY <1>1 DEF R!BeginSample, RaceInv, RaceTypeOK, SamplesAreKnown
    <3>3. \A j \in 1..tries' : j \in over' \/ j = tries'
      BY <1>1 DEF R!BeginSample, RaceInv, RaceTypeOK, SamplesAreKnown
    <3>4. tries' > 0 /\ okCount' < tries' /\ rpc' = "race" /\ (closer' # "idle" => cancelled')
      BY <1>1 DEF R!BeginSample, RaceInv, RaceTypeOK, SamplesAreKnown
    <3>5. SamplesAreKnown'
      BY <3>2, <3>3, <3>4, <2>1 DEF SamplesAreKnown, RaceTypeOK
    <3> QED BY <3>1, <3>5
  <2>3. AnswersAreKnown'
    <3>1. tries' \notin Won /\ Won' = Won /\ tries' \notin over /\ ~cancelled
      BY <1>1 DEF R!BeginSample, RaceInv, RaceTypeOK, Won
    <3>2. Won' \ {tries'} = Won
      BY <3>1
    <3> QED BY <1>1, <3>1, <3>2 DEF R!BeginSample, R!Ended, RaceInv, AnswersAreKnown
  <2>4. (R!VerdictIsMeasured)'
    BY <1>1 DEF R!BeginSample, R!VerdictIsMeasured
  <2> QED BY <2>1, <2>2, <2>3, <2>4 DEF RaceInv
<1>2. ASSUME NEW i \in R!Indices, NEW u \in Urls, R!DialEnds(i, u) PROVE RaceInv'
  <2> USE DEF R!Error
  <2>1. PICK delay \in Delays \cup {R!Error} :
          /\ good' = IF R!IsGood(delay) /\ ~R!Ended(i) THEN good \cup {i} ELSE good
          /\ IF rpc = "race" /\ i = tries /\ R!Several
             THEN results' = Append(results, delay) /\ UNCHANGED <<rpc, over, R!tally>>
             ELSE IF rpc = "race" /\ i = tries
                  THEN R!EndSample(delay) /\ UNCHANGED <<tries, verdict, results>>
                  ELSE UNCHANGED <<rpc, over, R!tally, results>>
    BY <1>2 DEF R!DialEnds
  <2>2. /\ dial[i][u] = "dialing" /\ dial' = [dial EXCEPT ![i][u] = "ended"]
        /\ UNCHANGED <<prober, urls, samples, cancelled, closer, cut>>
    BY <1>2 DEF R!DialEnds
  <2>3. /\ dial' \in [R!Indices -> [Urls -> {"off", "dialing", "ended"}]]
        /\ \A j \in R!Indices, v \in Urls : dial'[j][v] = "dialing" => dial[j][v] = "dialing"
    BY <2>2 DEF RaceInv, RaceTypeOK
  <2>4. i \in 1..tries
    BY <2>2 DEF RaceInv, SamplesAreKnown, RaceTypeOK
  <2>5. CASE rpc = "race" /\ i = tries /\ R!Several
    <3>1. results' = Append(results, delay) /\ UNCHANGED <<rpc, over, tries, okCount, sum, verdict, measured>>
      BY <2>1, <2>5
    <3>2. results \in Seq(Delays \cup {R!Error})
      BY DEF RaceInv, RaceTypeOK
    <3>3. results' \in Seq(Delays \cup {R!Error}) /\ (HasGood' <=> (HasGood \/ R!IsGood(delay)))
      BY <3>1, <3>2, AppendKeepsGood DEF HasGood
    <3>4. RaceTypeOK'
      BY <2>1, <2>2, <2>3, <2>4, <3>1, <3>3 DEF RaceInv, RaceTypeOK
    <3>5. SamplesAreKnown' /\ GivingUpIsKnown' /\ TallyIsKnown'
      BY <2>2, <2>3, <3>1 DEF RaceInv, SamplesAreKnown, GivingUpIsKnown, TallyIsKnown
    <3>6. Won' \ {tries'} = Won \ {tries} /\ (tries' \in Won' => tries \in Won \/ R!IsGood(delay))
      BY <2>1, <2>2, <2>5, <3>1 DEF Won
    <3>7. AnswersAreKnown'
      BY <2>2, <2>5, <3>1, <3>3, <3>6 DEF RaceInv, AnswersAreKnown, R!Several, R!Ended
    <3>8. (R!VerdictIsMeasured)'
      BY <2>5, <3>1 DEF R!VerdictIsMeasured
    <3> QED BY <3>4, <3>5, <3>7, <3>8 DEF RaceInv
  <2>6. CASE rpc = "race" /\ i = tries /\ ~R!Several
    <3>1. R!EndSample(delay) /\ UNCHANGED <<tries, verdict, results>>
      BY <2>1, <2>6
    <3>2. results = <<>> /\ ~HasGood
      BY <2>6 DEF RaceInv, AnswersAreKnown, HasGood
    <3>3. tries \notin Won /\ good' \in {good, good \cup {tries}} /\ (R!IsGood(delay) \/ good' = good)
      BY <2>1, <2>6, <3>2 DEF RaceInv, AnswersAreKnown
    <3> QED BY <2>2, <2>3, <2>6, <3>1, <3>2, <3>3, EndSampleKeeps DEF Won
  <2>7. CASE ~(rpc = "race" /\ i = tries)
    <3>1. UNCHANGED <<rpc, over, tries, okCount, sum, verdict, measured, results>>
      BY <2>1, <2>7
    <3>2. R!Ended(i) /\ good' = good
      BY <2>1, <2>4, <2>7 DEF RaceInv, SamplesAreKnown, R!Ended
    <3>3. RaceTypeOK'
      BY <2>2, <2>3, <3>1, <3>2 DEF RaceInv, RaceTypeOK
    <3>4. SamplesAreKnown' /\ GivingUpIsKnown' /\ TallyIsKnown'
      BY <2>2, <2>3, <3>1, <3>2 DEF RaceInv, SamplesAreKnown, GivingUpIsKnown, TallyIsKnown
    <3>5. AnswersAreKnown'
      BY <2>2, <3>1, <3>2 DEF RaceInv, AnswersAreKnown, R!Several, R!Ended, Won, HasGood
    <3>6. (R!VerdictIsMeasured)'
      BY <2>2, <3>1 DEF RaceInv, R!VerdictIsMeasured
    <3> QED BY <3>3, <3>4, <3>5, <3>6 DEF RaceInv
  <2> QED BY <2>5, <2>6, <2>7
<1>3. CASE R!Receive
  <2>1. results \in Seq(Delays \cup {R!Error}) /\ results # <<>> /\ rpc = "race" /\ R!Several
    BY <1>3 DEF R!Receive, RaceInv, RaceTypeOK, AnswersAreKnown
  <2>2. /\ Head(results) \in Delays \cup {R!Error} /\ results' \in Seq(Delays \cup {R!Error})
        /\ HasGood => R!IsGood(Head(results)) \/ HasGood'
        /\ Len(results) = 1 => results' = <<>>
    BY <1>3, <2>1, TailKeepsGood DEF R!Receive, HasGood
  <2>3. UNCHANGED <<prober, urls, samples, tries, verdict, dial, cancelled, closer, good, cut>>
    BY <1>3 DEF R!Receive
  <2>4. CASE R!IsGood(Head(results)) \/ (Len(results) = 1 /\ R!Answers(tries) = R!Cardinality(urls))
    <3>1. R!EndSample(Head(results))
      BY <1>3, <2>4 DEF R!Receive
    <3>2. R!IsGood(Head(results)) \/ tries \notin good' \ cut
      <4>1. results' = <<>> => ~HasGood'
        BY DEF HasGood
      <4> QED BY <2>1, <2>2, <2>3, <2>4, <4>1 DEF RaceInv, AnswersAreKnown, Won
    <3> QED BY <2>1, <2>2, <2>3, <3>1, <3>2, EndSampleKeeps DEF RaceInv, RaceTypeOK
  <2>5. CASE ~(R!IsGood(Head(results)) \/ (Len(results) = 1 /\ R!Answers(tries) = R!Cardinality(urls)))
    <3>1. UNCHANGED <<rpc, over, okCount, sum, measured>>
      BY <1>3, <2>5 DEF R!Receive
    <3>2. RaceTypeOK'
      BY <2>2, <2>3, <3>1 DEF RaceInv, RaceTypeOK
    <3>3. SamplesAreKnown' /\ GivingUpIsKnown' /\ TallyIsKnown'
      BY <2>3, <3>1 DEF RaceInv, SamplesAreKnown, GivingUpIsKnown, TallyIsKnown
    <3>4. AnswersAreKnown'
      BY <2>1, <2>2, <2>3, <2>5, <3>1 DEF RaceInv, AnswersAreKnown, R!Several, R!Ended, Won
    <3>5. (R!VerdictIsMeasured)'
      BY <2>3, <3>1 DEF RaceInv, R!VerdictIsMeasured
    <3> QED BY <3>2, <3>3, <3>4, <3>5 DEF RaceInv
  <2> QED BY <2>4, <2>5
<1>4. CASE R!RaceEnds
  <2>1. rpc = "race" /\ R!Several /\ R!EndSample(R!Error) /\ tries \in cut
        /\ UNCHANGED <<prober, urls, samples, tries, verdict, dial, results, cancelled, closer, good, cut>>
    BY <1>4 DEF R!RaceEnds, RaceInv, AnswersAreKnown
  <2> QED BY <2>1, EndSampleKeeps DEF RaceInv, RaceTypeOK, R!Several
<1>5. CASE R!SumUp
  <2>1. okCount > 0 => \E a, b \in measured : a <= R!Mean /\ R!Mean <= b
    <3> SUFFICES ASSUME okCount > 0 PROVE \E a, b \in measured : a <= R!Mean /\ R!Mean <= b
      OBVIOUS
    <3>1. PICK a \in measured, b \in measured : a * okCount <= sum /\ sum <= b * okCount
      BY DEF RaceInv, TallyIsKnown
    <3>2. a \in Nat \ {0} /\ b \in Nat /\ okCount \in Nat \ {0} /\ sum \in Nat
      BY DEF RaceInv, RaceTypeOK
    <3>3. sum \div okCount \in Int /\ a <= sum \div okCount /\ sum \div okCount <= b
      BY <3>1, <3>2, MeanIsBetween
    <3>4. R!Mean = sum \div okCount
      BY <3>2, <3>3 DEF R!Mean
    <3> QED BY <3>3, <3>4
  <2>2. okCount = 0 <=> measured = {}
    BY DEF RaceInv, TallyIsKnown, RaceTypeOK
  <2>3. /\ rpc = "sum" \/ (rpc = "next" /\ (tries = samples \/ cancelled))
        /\ rpc' = "done" /\ UNCHANGED <<prober, urls, samples, dial, results, over, cancelled, tries,
                                        okCount, sum, measured, closer, good, cut>>
    BY <1>5 DEF R!SumUp
  <2>4. ASSUME okCount = 0 PROVE (R!VerdictIsMeasured)'
    <3>1. verdict' = [failed |-> TRUE, delay |-> 0, tries |-> tries, ok |-> 0]
      BY <1>5, <2>4 DEF R!SumUp, R!NoVerdict
    <3>2. tries = samples \/ cancelled \/ (prober = "engine" /\ tries = 1)
      BY <2>3, <2>4 DEF RaceInv, GivingUpIsKnown
    <3>3. measured' = {} /\ verdict'.failed /\ verdict'.ok = 0 /\ verdict'.tries = tries
      BY <2>2, <2>3, <2>4, <3>1
    <3>4. tries \in Nat /\ tries <= samples
      BY DEF RaceInv, RaceTypeOK
    <3> QED BY <2>3, <3>2, <3>3, <3>4 DEF R!VerdictIsMeasured
  <2>5. ASSUME okCount # 0 PROVE (R!VerdictIsMeasured)'
    <3>1. verdict' = [failed |-> FALSE, delay |-> R!Mean, tries |-> tries, ok |-> okCount]
      BY <1>5, <2>5 DEF R!SumUp
    <3>2. /\ measured' # {} /\ ~verdict'.failed /\ verdict'.ok = okCount /\ verdict'.tries = tries
          /\ verdict'.delay = R!Mean
      BY <2>2, <2>3, <2>5, <3>1
    <3>3. okCount <= tries /\ tries <= samples /\ okCount > 0 /\ (tries = samples \/ cancelled)
      BY <2>3, <2>5 DEF RaceInv, RaceTypeOK, SamplesAreKnown, GivingUpIsKnown
    <3> QED BY <2>1, <2>3, <3>2, <3>3 DEF R!VerdictIsMeasured
  <2>6. (R!VerdictIsMeasured)'
    BY <2>4, <2>5
  <2>7. RaceTypeOK' /\ SamplesAreKnown' /\ GivingUpIsKnown' /\ TallyIsKnown'
    BY <2>3 DEF RaceInv, RaceTypeOK, SamplesAreKnown, GivingUpIsKnown, TallyIsKnown
  <2>8. AnswersAreKnown'
    BY <2>3 DEF RaceInv, AnswersAreKnown, Won, R!Several
  <2> QED BY <2>6, <2>7, <2>8 DEF RaceInv
<1>6. CASE R!TimeOut
  <2>1. tries \in 1..tries
    BY <1>6 DEF R!TimeOut, RaceInv, RaceTypeOK, SamplesAreKnown
  <2> QED BY <1>6, <2>1, CutKeeps DEF R!TimeOut, R!Ended, RaceInv, RaceTypeOK,
        SamplesAreKnown
<1>7. CASE R!Cancel \/ R!Take
  <2>1. rpc = "race" => tries \in 1..tries
    BY DEF RaceInv, RaceTypeOK, SamplesAreKnown
  <2>2. cancelled' = TRUE /\ over' = over /\ cut \subseteq cut' /\ cut' \subseteq 1..tries /\ (rpc = "race" => tries \in cut')
    BY <1>7, <2>1 DEF R!Cancel, R!Take, R!Cut, RaceInv, RaceTypeOK
  <2> QED BY <1>7, <2>2, CutKeeps DEF R!Cancel, R!Take, RaceInv, RaceTypeOK
<1>8. CASE R!CloseBox \/ UNCHANGED race
  <2>1. /\ UNCHANGED <<prober, urls, samples, rpc, dial, results, over, cancelled, tries, okCount, sum,
                       verdict, measured, good, cut>>
        /\ closer' = closer \/ (closer = "waits" /\ closer' = "closed")
    BY <1>8 DEF R!CloseBox, race
  <2>2. R!Ended(tries)' <=> R!Ended(tries)
    BY <2>1 DEF R!Ended
  <2> QED BY <2>1, <2>2, CutKeeps DEF RaceInv, RaceTypeOK, SamplesAreKnown
<1> QED BY <1>1, <1>2, <1>3, <1>4, <1>5, <1>6, <1>7, <1>8 DEF R!RaceNext

(* Channels and their pictures                                              *)
(***************************************************************************)
Pictures == Pics \cup {Z!None}
AnswerType ==
  [kind : {"none", "error", "live", "image", "messages", "replay"}, post : Nat, ok : BOOLEAN,
   newmsg : Nat \cup {"", "OFF"}, avatar : {Z!None, "path", "part", "whole", "other"}]
AskType ==
  [pc : {"idle", "page", "picture", "snapshot", "writing", "replay", "done"},
   op : {"none", "info", "messages", "image"}, chan : Chans \cup {Z!None}, inline : BOOLEAN,
   read : Nat, post : Nat, pic : Pictures, answer : AnswerType, floor : Nat]
JobStates == {"idle", "stat", "get", "fill", "read", "failed", "none", "part", "whole",
              "other"}
EzTypeOK ==
  /\ site \in [Chans -> [post : Nat, pic : Pictures]]
  /\ image \in [Pics -> {"none", "part", "whole", "other"}]
  /\ snap \in [Chans -> [kind : {"none", "torn", "ok"}, post : Nat, path : Pictures]]
  /\ ask \in [Clients -> AskType]
  /\ job \in [Clients -> [Pics -> JobStates]]
  /\ seen \in [Chans -> Nat] /\ breaks \in Nat

(* Only a call that waits for pictures fetches any, and what it reads is     *)
(* there.  The part of a picture is being filled, unless a write of it broke *)
(* off or two calls fetched it; and what is not the picture came from the    *)
(* front.                                                                   *)
FetchesArePlaced ==
  \A k \in Clients, p \in Pics :
    /\ Z!Active(k, p) => ask[k].pc = "picture"
    /\ job[k][p] \in {"fill", "read"} => image[p] # "none"
    /\ \A j \in Clients \ {k} : (Z!Active(j, p) /\ Z!Active(k, p)) => p \in crossed
ExcusedThen(x, what) == <<x, what>> \in marred' \/ (what = "part" /\ x \in crossed')
PicturesAreKnown ==
  /\ \A p \in Pics : image[p] \in {"part", "other"} =>
       Z!Excused(p, image[p]) \/ (image[p] = "part" /\ \E k \in Clients : job[k][p] = "fill")
  /\ \A k \in Clients, p \in Pics : job[k][p] \in {"part", "other"} => Z!Excused(p, job[k][p])
  /\ \A k \in Clients : ask[k].answer.avatar \in {"part", "other"} =>
       Z!Excused(ask[k].pic, ask[k].answer.avatar)

(* What a call holds is not older than what was answered for its channel,    *)
(* nor is the snapshot, if no two calls read the channel at once.            *)
Reads(k) == ask[k].op \in {"info", "messages"}
CallIsNew(k) ==
  /\ Reads(k) => ask[k].chan \in Chans /\ ask[k].floor <= seen[ask[k].chan]
  /\ ask[k].pc = "idle" => ask[k].op = "none"
  /\ ask[k].pc = "page" => ask[k].op \in {"info", "messages"} /\ ask[k].answer.avatar = Z!None
  /\ ask[k].pc \in {"snapshot", "writing", "replay"} => ask[k].op = "info"
  /\ ask[k].pc \in {"picture", "snapshot", "writing"} /\ ask[k].op = "info" =>
       /\ ask[k].post <= site[ask[k].chan].post
       /\ ask[k].chan \in crossed \/ ask[k].post >= seen[ask[k].chan]
  /\ ask[k].answer.kind = "replay" =>
       /\ ~ask[k].answer.ok /\ ask[k].answer.newmsg = "OFF"
       /\ ask[k].answer.post >= ask[k].floor \/ ask[k].chan \in crossed
  /\ ask[k].pc = "writing" => snap[ask[k].chan].kind = "torn"
CallsAreNew ==
  /\ \A k \in Clients : CallIsNew(k)
  /\ \A j, k \in Clients :
       j # k =>
         /\ (Reads(j) /\ Reads(k) /\ ask[j].chan = ask[k].chan) => ask[k].chan \in crossed
         /\ ~(ask[j].pc = "writing" /\ ask[k].pc = "writing")
SnapshotsAreNew ==
  \A c \in Chans :
    /\ seen[c] <= site[c].post
    /\ snap[c].kind = "ok" => snap[c].post >= seen[c] \/ c \in crossed

EzInv == EzTypeOK /\ FetchesArePlaced /\ PicturesAreKnown /\ CallsAreNew /\ SnapshotsAreNew

(* The parts of EzInv are enough for pictures and replays.                  *)
LEMMA EzInvImplies == EzInv => Z!CacheIsSound
<1> SUFFICES ASSUME EzInv PROVE Z!CacheIsSound
  OBVIOUS
<1>1. \A k \in Clients : ask[k].answer.avatar \in {Z!None, "path", "part", "whole", "other"}
  BY DEF EzInv, EzTypeOK, AskType, AnswerType
<1>2. Z!PicturesAreWhole
  BY <1>1 DEF EzInv, PicturesAreKnown, Z!PicturesAreWhole, Z!AskAt
<1>3. Z!ReplayIsNewest
  BY DEF EzInv, CallsAreNew, CallIsNew, Z!ReplayIsNewest
<1> QED BY <1>2, <1>3 DEF Z!CacheIsSound

(* A channel starts at its oldest post, which exists.                       *)
LEMMA FirstPost == (CHOOSE n \in Posts : \A m \in Posts : n <= m) \in Nat
<1>1. Posts \subseteq Nat /\ Posts # {}
  BY PartsAssumption
<1>2. PICK n \in Posts : \A m \in Posts : ~ (<<m, n>> \in OpToRel(<, Nat))
  BY <1>1, WFMin, NatLessThanWellFounded, Zenon
<1>3. \A m \in Posts : ~(m < n)
  BY <1>1, <1>2 DEF OpToRel
<1>4. \A m \in Posts : n <= m
  BY <1>1, <1>3
<1> QED BY <1>1, <1>4

(* An empty cache and idle clients are known.                               *)
LEMMA EzInitInv == PartsInit => EzInv
<1> DEFINE first == CHOOSE n \in Posts : \A m \in Posts : n <= m
<1> SUFFICES ASSUME Z!EzInit PROVE EzInv
  BY DEF PartsInit
<1>1. first \in Nat
  BY FirstPost
<1>2. site \in [Chans -> [post : {first}, pic : Pictures]]
  BY Zenon DEF Z!EzInit, Pictures
<1> HIDE DEF first
<1>3. /\ image = [p \in Pics |-> "none"] /\ snap = [c \in Chans |-> Z!NoSnap]
      /\ ask = [k \in Clients |-> Z!NoAsk] /\ job = [k \in Clients |-> Z!NoJobs]
      /\ seen = [c \in Chans |-> 0] /\ breaks = 0
      /\ crossed = {} /\ marred = {}
  BY Zenon DEF Z!EzInit
<1> USE DEF Z!NoSnap, Z!NoAsk, Z!NoAnswer, Z!NoJobs, Z!None, Pictures
<1>4. EzTypeOK
  BY <1>1, <1>2, <1>3 DEF EzTypeOK, JobStates, AskType, AnswerType
<1>5. FetchesArePlaced /\ PicturesAreKnown
  BY <1>3 DEF FetchesArePlaced, PicturesAreKnown, Z!Excused, ExcusedThen, Z!Active, Z!Contents
<1>6. CallsAreNew
  BY <1>3 DEF CallsAreNew, CallIsNew, Reads
<1>7. SnapshotsAreNew
  <2>1. \A c \in Chans : site[c].post \in Nat
    BY <1>4 DEF EzTypeOK
  <2>2. \A c \in Chans : seen[c] = 0 /\ snap[c].kind = "none"
    BY <1>3
  <2> QED BY <2>1, <2>2 DEF SnapshotsAreNew
<1> QED BY <1>4, <1>5, <1>6, <1>7 DEF EzInv

(* A download that writes, completes or breaks a picture keeps EzInv.       *)
LEMMA PictureStepInv ==
  ASSUME EzInv, NEW k \in Clients, NEW p \in Pics, Z!PictureStep(k, p)
  PROVE  EzInv'
<1> USE DEF EzInv, Z!OnlyJob, Z!Doing, Z!Next1, Z!Break
<1>1. /\ UNCHANGED <<site, snap, ask, crossed, seen>>
      /\ breaks' \in Nat /\ marred \subseteq marred'
  BY PartsAssumption DEF Z!PictureStep, Z!StatPicture, Z!GetPictureFails, Z!CreatePicture,
     Z!FillPicture, Z!FillFails, Z!ReadPicture, EzTypeOK
<1>2. CallsAreNew' /\ SnapshotsAreNew'
  BY <1>1 DEF CallsAreNew, CallIsNew, SnapshotsAreNew, Reads, EzTypeOK
<1>3. PICK s \in JobStates :
        /\ job' = [job EXCEPT ![k][p] = s]
        /\ job[k][p] \in {"stat", "get", "fill", "read"}
        /\ \/ s = "fill" /\ image' = [image EXCEPT ![p] = "part"]
           \/ s = "read" /\ image' = [image EXCEPT ![p] = "whole"]
           \/ s = "read" /\ image' = [image EXCEPT ![p] = "other"] /\ <<p, "other">> \in marred'
           \/ s # "fill" /\ (s = "read" => image[p] # "none") /\ image' = image
        /\ s \in {"part", "other"} => job[k][p] = "read" /\ image[p] = s
        /\ job[k][p] = "fill" => (s = "read" /\ image'[p] # "part") \/ <<p, "part">> \in marred'
  <2>1. CASE Z!StatPicture(k, p)
    BY <2>1 DEF Z!StatPicture, EzTypeOK, JobStates
  <2>2. CASE Z!GetPictureFails(k, p)
    BY <2>2 DEF Z!GetPictureFails, EzTypeOK, JobStates
  <2>3. CASE Z!CreatePicture(k, p)
    BY <2>3 DEF Z!CreatePicture, EzTypeOK, JobStates
  <2>4. CASE Z!FillPicture(k, p)
    BY <2>4 DEF Z!FillPicture, EzTypeOK, JobStates
  <2>5. CASE Z!FillFails(k, p)
    BY <2>5 DEF Z!FillFails, EzTypeOK, JobStates
  <2>6. CASE Z!ReadPicture(k, p)
    BY <2>6 DEF Z!ReadPicture, EzTypeOK, JobStates
  <2> QED BY <2>1, <2>2, <2>3, <2>4, <2>5, <2>6 DEF Z!PictureStep
<1>4. EzTypeOK'
  BY <1>1, <1>3 DEF EzTypeOK, JobStates
<1>5. FetchesArePlaced'
  BY <1>1, <1>3 DEF EzTypeOK, JobStates, FetchesArePlaced, Z!Active, Z!Contents
<1>6. \A x, what : Z!Excused(x, what) => ExcusedThen(x, what)
  BY <1>1 DEF Z!Excused, ExcusedThen
<1>7. PicturesAreKnown'
  <2>1. ASSUME NEW x \in Pics, image'[x] \in {"part", "other"}
        PROVE  ExcusedThen(x, image'[x])
                 \/ (image'[x] = "part" /\ \E j \in Clients : job'[j][x] = "fill")
    <3>1. CASE x = p /\ s = "fill"
      BY <1>3, <3>1 DEF EzTypeOK
    <3>2. CASE image'[x] = "other" /\ image[x] # "other"
      BY <1>3, <3>2 DEF EzTypeOK, Z!Excused, ExcusedThen
    <3>3. CASE ~(x = p /\ s = "fill") /\ image'[x] = image[x]
      <4>1. CASE Z!Excused(x, image[x])
        BY <1>6, <3>3, <4>1 DEF Z!Excused, ExcusedThen
      <4>2. CASE image[x] = "part" /\ \E j \in Clients : job[j][x] = "fill"
        <5>1. PICK j \in Clients : job[j][x] = "fill"
          BY <4>2
        <5>2. CASE j = k /\ x = p
          BY <1>3, <3>3, <4>2, <5>1, <5>2 DEF Z!Excused, ExcusedThen
        <5>3. CASE ~(j = k /\ x = p)
          BY <1>3, <3>3, <4>2, <5>1, <5>3 DEF EzTypeOK
        <5> QED BY <5>2, <5>3
      <4> QED BY <2>1, <3>3, <4>1, <4>2 DEF PicturesAreKnown
    <3>4. image'[x] = image[x] \/ x = p
      BY <1>3 DEF EzTypeOK
    <3>5. x = p => image'[x] = image[x] \/ s = "fill" \/ image'[x] = "other"
      BY <1>3, <2>1 DEF EzTypeOK
    <3> QED BY <3>1, <3>2, <3>3, <3>4, <3>5
  <2>2. s \in {"part", "other"} => Z!Excused(p, s)
    <3> SUFFICES ASSUME s \in {"part", "other"}, ~Z!Excused(p, s) PROVE FALSE
      OBVIOUS
    <3>1. s = "part" /\ \E j \in Clients : job[j][p] = "fill"
      BY <1>3 DEF PicturesAreKnown
    <3>2. PICK j \in Clients : job[j][p] = "fill"
      BY <3>1
    <3>3. p \in crossed
      BY <1>3, <3>1, <3>2 DEF FetchesArePlaced, Z!Active, Z!Contents
    <3> QED BY <3>1, <3>3 DEF Z!Excused, ExcusedThen
  <2>3. \A j \in Clients, x \in Pics :
          job'[j][x] = (IF j = k /\ x = p THEN s ELSE job[j][x])
    BY <1>3 DEF EzTypeOK
  <2>4. \A j \in Clients, x \in Pics :
          job'[j][x] \in {"part", "other"} => Z!Excused(x, job'[j][x])
    BY <2>2, <2>3 DEF PicturesAreKnown
  <2>5. \A j \in Clients, x \in Pics :
          job'[j][x] \in {"part", "other"} => ExcusedThen(x, job'[j][x])
    BY <1>1, <2>4 DEF Z!Excused, ExcusedThen
  <2>6. \A j \in Clients : ask'[j].answer.avatar \in {"part", "other"} =>
          ExcusedThen(ask'[j].pic, ask'[j].answer.avatar)
    BY <1>1 DEF PicturesAreKnown, Z!Excused, ExcusedThen
  <2> QED BY <2>1, <2>5, <2>6 DEF PicturesAreKnown, Z!Excused, ExcusedThen
<1> QED BY <1>2, <1>4, <1>5, <1>7

(* A call that changes its place or its page remains a call.                *)
LEMMA TypedMoves ==
  ASSUME EzTypeOK, NEW k \in Clients
  PROVE  /\ \A pc \in {"idle", "page", "picture", "snapshot", "writing", "replay", "done"} :
              /\ [ask[k] EXCEPT !.pc = pc] \in AskType
              /\ \A n \in Nat, p \in Pictures :
                   [ask[k] EXCEPT !.pc = pc, !.post = n, !.pic = p] \in AskType
              /\ \A answer \in AnswerType : [ask[k] EXCEPT !.pc = pc, !.answer = answer] \in AskType
         /\ Z!Err \in AnswerType
<1>1. ask[k] \in AskType
  BY DEF EzTypeOK
<1>2. Z!Err \in AnswerType
  BY DEF AnswerType, Z!Err, Z!NoAnswer, Z!None
<1>3. ASSUME NEW pc \in {"idle", "page", "picture", "snapshot", "writing", "replay", "done"}
      PROVE  /\ [ask[k] EXCEPT !.pc = pc] \in AskType
             /\ \A n \in Nat, p \in Pictures :
                  [ask[k] EXCEPT !.pc = pc, !.post = n, !.pic = p] \in AskType
             /\ \A answer \in AnswerType : [ask[k] EXCEPT !.pc = pc, !.answer = answer] \in AskType
  BY <1>1, <1>3 DEF AskType
<1> QED BY <1>2, <1>3

(* A call that changes its place alone keeps its request and its answer.    *)
LEMMA PlaceMoves ==
  ASSUME EzTypeOK, NEW k \in Clients, NEW a,
         NEW pc \in {"idle", "page", "picture", "snapshot", "writing", "replay", "done"},
         a = [ask[k] EXCEPT !.pc = pc]
  PROVE  /\ a \in AskType /\ a.pc = pc /\ a.op = ask[k].op /\ a.chan = ask[k].chan
         /\ a.floor = ask[k].floor /\ a.post = ask[k].post /\ a.answer = ask[k].answer
         /\ a.pic = ask[k].pic /\ a.post \in Nat /\ a.pic \in Pictures
<1>1. ask[k] \in AskType
  BY DEF EzTypeOK
<1> QED BY <1>1 DEF AskType

\* A step that changes one call, no picture and no download keeps what is placed.
LEMMA OnlyCallMoves ==
  ASSUME EzInv, NEW k \in Clients, NEW a \in AskType,
         ask' = [ask EXCEPT ![k] = a], UNCHANGED <<site, image, job, marred>>,
         \A p \in Pics : ~Z!Active(k, p), crossed \subseteq crossed',
         a.answer.avatar \in {"part", "other"} => ExcusedThen(a.pic, a.answer.avatar)
  PROVE  FetchesArePlaced' /\ PicturesAreKnown'
<1>1. \A j \in Clients \ {k} : ask'[j] = ask[j]
  BY DEF EzInv, EzTypeOK
<1>2. ask'[k] = a
  BY DEF EzInv, EzTypeOK
<1>3. FetchesArePlaced'
  BY <1>1 DEF EzInv, FetchesArePlaced, Z!Active
<1>4. PicturesAreKnown'
  <2>1. \A x, what : Z!Excused(x, what) => ExcusedThen(x, what)
    BY DEF Z!Excused, ExcusedThen
  <2>2. \A p \in Pics : image[p] \in {"part", "other"} =>
          ExcusedThen(p, image[p]) \/ (image[p] = "part" /\ \E j \in Clients : job[j][p] = "fill")
    BY DEF EzInv, PicturesAreKnown, Z!Excused, ExcusedThen
  <2>3. \A j \in Clients, p \in Pics :
          job[j][p] \in {"part", "other"} => ExcusedThen(p, job[j][p])
    BY DEF EzInv, PicturesAreKnown, Z!Excused, ExcusedThen
  <2>4. \A j \in Clients : ask'[j].answer.avatar \in {"part", "other"} =>
          ExcusedThen(ask'[j].pic, ask'[j].answer.avatar)
    <3>1. \A j \in Clients \ {k} : ask[j].answer.avatar \in {"part", "other"} =>
            ExcusedThen(ask[j].pic, ask[j].answer.avatar)
      BY DEF EzInv, PicturesAreKnown, Z!Excused, ExcusedThen
    <3> QED BY <1>1, <1>2, <3>1 DEF Z!Excused, ExcusedThen
  <2> QED BY <2>2, <2>3, <2>4 DEF PicturesAreKnown, Z!Excused, ExcusedThen
<1> QED BY <1>3, <1>4

(* A page that cannot be fetched keeps EzInv.                               *)
LEMMA GetPageFailsInv ==
  ASSUME EzInv, NEW k \in Clients, Z!GetPageFails(k)
  PROVE  EzInv'
<1> DEFINE a == Z!NoPage(k)
<1> USE DEF EzInv
<1>1. /\ ask[k].pc = "page" /\ ask' = [ask EXCEPT ![k] = a]
      /\ UNCHANGED <<site, image, snap, crossed, marred, asks, breaks, job, seen>>
  BY DEF Z!GetPageFails, Z!OnlyAsk, Z!AskAt
<1>2. a \in AskType
  BY TypedMoves DEF Z!NoPage, Z!Replay, Z!Answered
<1>3. /\ a.op = ask[k].op /\ a.chan = ask[k].chan /\ a.floor = ask[k].floor
      /\ a.pic = ask[k].pic
      /\ (a.pc = "replay" /\ a.op = "info" /\ a.answer = ask[k].answer)
           \/ (a.pc = "done" /\ a.answer = Z!Err)
  BY DEF Z!NoPage, Z!Replay, Z!Answered, EzTypeOK, AskType
<1>4. /\ EzTypeOK'
      /\ Z!Err.avatar = Z!None /\ Z!Err.kind = "error" /\ \A p \in Pics : ~Z!Active(k, p)
  BY <1>1, <1>2 DEF EzTypeOK, FetchesArePlaced, Z!Err, Z!NoAnswer
<1> HIDE DEF a
<1>5. FetchesArePlaced' /\ PicturesAreKnown'
  <2>1. a.answer.avatar \in {"part", "other"} => ExcusedThen(a.pic, a.answer.avatar)
    BY <1>1, <1>3, <1>4 DEF PicturesAreKnown, Z!Excused, ExcusedThen, Z!None
  <2> QED BY <1>1, <1>2, <1>4, <2>1, OnlyCallMoves
<1>6. SnapshotsAreNew'
  BY <1>1 DEF SnapshotsAreNew
<1>7. CallsAreNew'
  BY <1>1, <1>2, <1>3, <1>4 DEF CallsAreNew, CallIsNew, Reads, EzTypeOK
<1> QED BY <1>4, <1>5, <1>6, <1>7

(* The answer of a call whose downloads have ended keeps EzInv.             *)
LEMMA PicturesDoneInv ==
  ASSUME EzInv, NEW k \in Clients, Z!PicturesDone(k)
  PROVE  EzInv'
<1> USE DEF EzInv
<1>1. /\ ask[k].pc = "picture" /\ \A p \in Pics : ~Z!Active(k, p)
      /\ UNCHANGED <<site, image, snap, crossed, marred, asks, breaks, job, seen>>
  BY DEF Z!PicturesDone, Z!OnlyAsk, Z!AskAt
<1>2. /\ Z!Shown(k, ask[k].pic) \in {Z!None, "part", "whole", "other"}
      /\ Z!Avatar(k) \in {Z!None, "path", "part", "whole", "other"}
      /\ \A shown \in {Z!Shown(k, ask[k].pic), Z!Avatar(k)} :
           shown \in {"part", "other"} => Z!Excused(ask[k].pic, shown)
  <2>1. ask[k].pic \in Pictures
    BY DEF EzTypeOK, AskType
  <2>2. Z!Got(k, ask[k].pic) =>
          /\ job[k][ask[k].pic] \in {"part", "whole", "other"}
          /\ job[k][ask[k].pic] \in {"part", "other"} => Z!Excused(ask[k].pic, job[k][ask[k].pic])
    BY <2>1 DEF Z!Got, Pictures, Z!Contents, PicturesAreKnown
  <2> QED BY <2>2 DEF Z!Shown, Z!Avatar, Z!None
<1>3. \A n \in Nat, m \in Nat : Z!Newmsg(n, m) \in Nat
  BY DEF Z!Newmsg
<1>4. PICK a \in AskType :
        /\ ask' = [ask EXCEPT ![k] = a]
        /\ a.op = ask[k].op /\ a.chan = ask[k].chan /\ a.floor = ask[k].floor
        /\ a.post = ask[k].post /\ a.pic = ask[k].pic
        /\ a.pc = IF ask[k].op = "info" THEN "snapshot" ELSE "done"
        /\ a.answer.kind # "replay"
        /\ a.answer.avatar \in {"part", "other"} => Z!Excused(ask[k].pic, a.answer.avatar)
  <2> DEFINE fresh == [kind |-> "live", post |-> ask[k].post, ok |-> TRUE,
                      newmsg |-> Z!Newmsg(ask[k].read, ask[k].post), avatar |-> Z!Avatar(k)]
             shown == [Z!NoAnswer EXCEPT !.kind = ask[k].op, !.post = ask[k].post,
                                         !.avatar = Z!Shown(k, ask[k].pic)]
  <2>1. ask[k] \in AskType
    BY DEF EzTypeOK
  <2>2. fresh \in AnswerType
    BY <1>2, <1>3, <2>1 DEF AskType, AnswerType
  <2>3. CASE ask[k].op = "info"
    <3>1. ask' = [ask EXCEPT ![k] = [ask[k] EXCEPT !.pc = "snapshot", !.answer = fresh]]
      BY <2>3 DEF Z!PicturesDone, Z!OnlyAsk
    <3> HIDE DEF fresh
    <3>2. [ask[k] EXCEPT !.pc = "snapshot", !.answer = fresh] \in AskType
      BY <2>2, TypedMoves
    <3> QED BY <1>2, <2>1, <2>3, <3>1, <3>2 DEF AskType, fresh
  <2>4. CASE ask[k].op = "image" /\ ~Z!Got(k, ask[k].pic)
    <3>1. ask' = [ask EXCEPT ![k] = [ask[k] EXCEPT !.pc = "done", !.answer = Z!Err]]
      BY <2>4 DEF Z!PicturesDone, Z!OnlyAsk, Z!Answered
    <3>2. [ask[k] EXCEPT !.pc = "done", !.answer = Z!Err] \in AskType
      BY TypedMoves
    <3> QED BY <2>1, <2>4, <3>1, <3>2 DEF AskType, Z!Err, Z!NoAnswer, Z!None
  <2>5. CASE ask[k].op # "info" /\ ~(ask[k].op = "image" /\ ~Z!Got(k, ask[k].pic))
    <3>1. ask' = [ask EXCEPT ![k] = [ask[k] EXCEPT !.pc = "done", !.answer = shown]]
      BY <2>5 DEF Z!PicturesDone, Z!OnlyAsk, Z!Answered
    <3>2. /\ shown \in AnswerType /\ shown.kind # "replay"
          /\ shown.avatar \in {"part", "other"} => Z!Excused(ask[k].pic, shown.avatar)
      BY <1>2, <2>1, <2>5 DEF AskType, AnswerType, Z!NoAnswer
    <3> HIDE DEF shown
    <3>3. [ask[k] EXCEPT !.pc = "done", !.answer = shown] \in AskType
      BY <3>2, TypedMoves
    <3> QED BY <2>1, <2>5, <3>1, <3>2, <3>3 DEF AskType
  <2> QED BY <2>3, <2>4, <2>5
<1>5. EzTypeOK'
  BY <1>1, <1>4 DEF EzTypeOK
<1>6. FetchesArePlaced' /\ PicturesAreKnown'
  <2>1. a.answer.avatar \in {"part", "other"} => ExcusedThen(a.pic, a.answer.avatar)
    BY <1>1, <1>4 DEF Z!Excused, ExcusedThen
  <2> QED BY <1>1, <1>4, <2>1, OnlyCallMoves
<1>7. SnapshotsAreNew'
  BY <1>1 DEF SnapshotsAreNew
<1>8. CallsAreNew'
  BY <1>1, <1>4 DEF CallsAreNew, CallIsNew, Reads, EzTypeOK
<1> QED BY <1>5, <1>6, <1>7, <1>8

(* The truncation of a snapshot keeps EzInv.                                *)
LEMMA OpenSnapshotInv ==
  ASSUME EzInv, NEW k \in Clients, Z!OpenSnapshot(k)
  PROVE  EzInv'
<1> DEFINE a == [ask[k] EXCEPT !.pc = "writing"]
<1> USE DEF EzInv
<1>1. /\ ask[k].pc = "snapshot" /\ ask' = [ask EXCEPT ![k] = a]
      /\ snap' = [snap EXCEPT ![ask[k].chan] = Z!TornSnap]
      /\ \A j \in Clients : ask[j].pc # "writing"
      /\ UNCHANGED <<site, image, job, crossed, marred, seen, breaks>>
  BY DEF Z!OpenSnapshot, Z!AskAt, Z!Unlocked, EzTypeOK
<1>2. /\ a \in AskType /\ a.op = ask[k].op /\ a.chan = ask[k].chan /\ a.floor = ask[k].floor
      /\ a.post = ask[k].post /\ a.pc = "writing" /\ a.answer = ask[k].answer
      /\ a.pic = ask[k].pic
      /\ ask[k].op = "info" /\ ask[k].chan \in Chans
  <2>1. ask[k].op = "info" /\ ask[k].chan \in Chans
    BY <1>1 DEF CallsAreNew, CallIsNew, Reads
  <2> QED BY <2>1, PlaceMoves
<1> HIDE DEF a
<1>3. EzTypeOK' /\ \A p \in Pics : ~Z!Active(k, p)
  BY <1>1, <1>2 DEF EzTypeOK, FetchesArePlaced, Z!TornSnap, Z!None, Pictures
<1>4. FetchesArePlaced' /\ PicturesAreKnown'
  <2>1. a.answer.avatar \in {"part", "other"} => ExcusedThen(a.pic, a.answer.avatar)
    BY <1>1, <1>2 DEF PicturesAreKnown, Z!Excused, ExcusedThen
  <2> QED BY <1>1, <1>2, <1>3, <2>1, OnlyCallMoves
<1>5. SnapshotsAreNew'
  BY <1>1, <1>2 DEF SnapshotsAreNew, EzTypeOK, Z!TornSnap
<1>6. CallsAreNew'
  BY <1>1, <1>2 DEF CallsAreNew, CallIsNew, Reads, EzTypeOK, Z!TornSnap
<1> QED BY <1>3, <1>4, <1>5, <1>6

(* The write of a snapshot, whole or failed, keeps EzInv.                   *)
LEMMA FillSnapshotInv ==
  ASSUME EzInv, NEW k \in Clients, Z!FillSnapshot(k) \/ Z!SnapshotFails(k)
  PROVE  EzInv'
<1> DEFINE a == [ask[k] EXCEPT !.pc = "done"]
           c == ask[k].chan
<1> USE DEF EzInv
<1>1. /\ ask[k].pc = "writing" /\ ask' = [ask EXCEPT ![k] = a] /\ Z!Newest(k)
      /\ UNCHANGED <<site, image, job, crossed, marred>>
  BY DEF Z!FillSnapshot, Z!SnapshotFails, Z!AskAt, EzTypeOK
<1>2. /\ a \in AskType /\ a.op = ask[k].op /\ a.chan = ask[k].chan /\ a.floor = ask[k].floor
      /\ a.post = ask[k].post /\ a.pc = "done" /\ a.answer = ask[k].answer
      /\ a.pic = ask[k].pic /\ snap[c].kind = "torn"
      /\ ask[k].op = "info" /\ c \in Chans /\ ask[k].post \in Nat /\ ask[k].pic \in Pictures
  <2>1. ask[k].op = "info" /\ ask[k].chan \in Chans /\ snap[c].kind = "torn"
    BY <1>1 DEF CallsAreNew, CallIsNew, Reads
  <2> QED BY <2>1, PlaceMoves
<1>3. /\ ask[k].post <= site[c].post /\ (c \in crossed \/ ask[k].post >= seen[c])
      /\ seen[c] \in Nat /\ site[c].post \in Nat /\ seen[c] <= site[c].post
  BY <1>1, <1>2 DEF CallsAreNew, CallIsNew, EzTypeOK, SnapshotsAreNew
<1>4. /\ seen' \in [Chans -> Nat] /\ \A d \in Chans \ {c} : seen'[d] = seen[d]
      /\ seen'[c] >= seen[c] /\ seen'[c] <= site[c].post
      /\ c \in crossed \/ seen'[c] = ask[k].post
  <2> DEFINE n == IF ask[k].post > seen[c] THEN ask[k].post ELSE seen[c]
  <2>1. seen' = [seen EXCEPT ![c] = n]
    BY <1>1 DEF Z!Newest
  <2>2. n \in Nat /\ n >= seen[c] /\ n <= site[c].post /\ (c \in crossed \/ n = ask[k].post)
    <3>1. CASE ask[k].post > seen[c]
      BY <1>2, <1>3, <3>1
    <3>2. CASE ~(ask[k].post > seen[c])
      <4>1. n = seen[c] /\ (c \in crossed \/ seen[c] = ask[k].post)
        BY <1>2, <1>3, <3>2
      <4> HIDE DEF n
      <4> QED BY <1>3, <4>1
    <3> QED BY <3>1, <3>2
  <2> HIDE DEF n
  <2>3. seen' \in [Chans -> Nat] /\ seen'[c] = n /\ \A d \in Chans \ {c} : seen'[d] = seen[d]
    BY <1>2, <2>1, <2>2 DEF EzTypeOK
  <2> QED BY <2>2, <2>3
<1>5. /\ breaks' \in Nat
      /\ \/ snap' = [snap EXCEPT ![c] = [kind |-> "ok", post |-> ask[k].post, path |-> Z!SnapPath(k)]]
         \/ snap' = snap
  BY DEF Z!FillSnapshot, Z!SnapshotFails, Z!Break, EzTypeOK
<1> HIDE DEF a, c
<1>6. Z!SnapPath(k) \in Pictures
  BY <1>2 DEF Z!SnapPath, Pictures
<1>7. /\ EzTypeOK' /\ \A p \in Pics : ~Z!Active(k, p)
      /\ \A d \in Chans : seen'[d] >= seen[d]
  <2>1. snap' \in [Chans -> [kind : {"none", "torn", "ok"}, post : Nat, path : Pictures]]
    <3> DEFINE ok == [kind |-> "ok", post |-> ask[k].post, path |-> Z!SnapPath(k)]
    <3>1. ok \in [kind : {"none", "torn", "ok"}, post : Nat, path : Pictures]
      BY <1>2, <1>6
    <3> HIDE DEF ok
    <3>2. snap' = [snap EXCEPT ![c] = ok] \/ snap' = snap
      BY <1>5 DEF ok
    <3> QED BY <3>1, <3>2 DEF EzTypeOK
  <2>2. ask' \in [Clients -> AskType]
    BY <1>1, <1>2 DEF EzTypeOK
  <2>3. EzTypeOK'
    BY <1>1, <1>4, <1>5, <2>1, <2>2 DEF EzTypeOK
  <2>4. \A p \in Pics : ~Z!Active(k, p)
    BY <1>1 DEF FetchesArePlaced
  <2>5. ASSUME NEW d \in Chans PROVE seen'[d] >= seen[d]
    <3>1. seen[d] \in Nat
      BY DEF EzTypeOK
    <3> QED BY <1>4, <3>1
  <2> QED BY <2>3, <2>4, <2>5
<1>8. FetchesArePlaced' /\ PicturesAreKnown'
  <2>1. a.answer.avatar \in {"part", "other"} => ExcusedThen(a.pic, a.answer.avatar)
    BY <1>1, <1>2 DEF PicturesAreKnown, Z!Excused, ExcusedThen
  <2> QED BY <1>1, <1>2, <1>7, <2>1, OnlyCallMoves
<1>9. SnapshotsAreNew'
  <2>1. snap'[c].post = ask[k].post \/ snap'[c].kind = "torn"
    BY <1>2, <1>5 DEF EzTypeOK
  <2>2. \A d \in Chans \ {c} : snap'[d] = snap[d]
    BY <1>2, <1>5 DEF EzTypeOK
  <2>3. seen'[c] \in Nat /\ (snap'[c].kind = "torn" \/ snap'[c].post >= seen'[c] \/ c \in crossed)
    BY <1>2, <1>4, <2>1
  <2> QED BY <1>1, <1>2, <1>4, <1>5, <2>2, <2>3 DEF SnapshotsAreNew, EzTypeOK
<1>10. ASSUME NEW j \in Clients PROVE CallIsNew(j)'
  <2>1. CASE j = k
    <3>1. ask'[k] = a /\ CallIsNew(k) /\ ask[k].floor \in Nat /\ seen[c] \in Nat /\ seen'[c] \in Nat
      BY <1>1, <1>2, <1>4 DEF CallsAreNew, EzTypeOK, AskType
    <3> QED BY <1>1, <1>2, <1>4, <1>5, <2>1, <3>1 DEF CallIsNew, Reads, c
  <2>2. CASE j # k
    <3>1. ask'[j] = ask[j] /\ CallIsNew(j) /\ (Reads(j) => ask[j].floor \in Nat)
      BY <1>1, <2>2 DEF CallsAreNew, EzTypeOK, AskType
    <3>2. (Reads(j) /\ ask[j].chan = c) => c \in crossed
      BY <1>2, <2>2 DEF CallsAreNew, Reads, c
    <3>3. ask[j].pc # "writing"
      BY <1>1, <2>2 DEF CallsAreNew
    <3> QED BY <1>1, <1>2, <1>4, <1>7, <3>1, <3>2, <3>3 DEF CallIsNew, Reads, EzTypeOK
  <2> QED BY <2>1, <2>2
<1>11. CallsAreNew'
  BY <1>1, <1>2, <1>10 DEF CallsAreNew, Reads, EzTypeOK
<1> QED BY <1>7, <1>8, <1>9, <1>11

(* A replay of a snapshot, or the lack of one, keeps EzInv.                 *)
LEMMA ReadSnapshotInv ==
  ASSUME EzInv, NEW k \in Clients, Z!ReadSnapshot(k)
  PROVE  EzInv'
<1> DEFINE c == ask[k].chan
           s == snap[c]
           replayed == [kind |-> "replay", post |-> s.post, ok |-> FALSE, newmsg |-> "OFF",
                        avatar |-> Z!ReplayedAvatar(k, s.path)]
           answer == IF s.kind # "ok" THEN Z!Err ELSE replayed
           a == [[ask[k] EXCEPT !.pc = "done", !.answer = answer] EXCEPT !.pic = s.path]
<1> USE DEF EzInv
<1>1. /\ ask[k].pc = "replay" /\ ask' = [ask EXCEPT ![k] = a]
      /\ crossed' = crossed \cup {p \in {s.path} \ {Z!None} :
                                    \E j \in Clients : Z!Doing(j, p, "fill")}
      /\ UNCHANGED <<site, image, snap, job, marred, seen, breaks>>
  BY DEF Z!ReadSnapshot, Z!AskAt, Z!Answered
<1>2. /\ ask[k].op = "info" /\ c \in Chans /\ ask[k].floor <= seen[c]
      /\ ask[k] \in AskType /\ ask[k].floor \in Nat /\ seen[c] \in Nat
      /\ s \in [kind : {"none", "torn", "ok"}, post : Nat, path : Pictures]
      /\ s.kind = "ok" => s.post >= seen[c] \/ c \in crossed
  BY <1>1 DEF CallsAreNew, CallIsNew, Reads, EzTypeOK, AskType, SnapshotsAreNew
<1>3. LET shown == Z!ReplayedAvatar(k, s.path)
      IN  /\ shown \in {Z!None, "path", "part", "whole", "other"}
          /\ shown \in {"part", "other"} => ExcusedThen(s.path, shown)
  <2>1. CASE s.path = Z!None \/ ~ask[k].inline
    BY <2>1 DEF Z!ReplayedAvatar, Z!None
  <2>2. CASE s.path \in Pics /\ ask[k].inline
    <3>1. image[s.path] \in {"none", "part", "whole", "other"} /\ s.path # Z!None
      BY <2>2, PartsAssumption DEF EzTypeOK
    <3>2. ASSUME image[s.path] \in {"part", "other"} PROVE ExcusedThen(s.path, image[s.path])
      <4>1. CASE Z!Excused(s.path, image[s.path])
        BY <1>1, <4>1 DEF Z!Excused, ExcusedThen
      <4>2. CASE image[s.path] = "part" /\ \E j \in Clients : job[j][s.path] = "fill"
        <5>1. s.path \in crossed'
          BY <1>1, <2>2, <3>1, <4>2 DEF Z!Doing
        <5> QED BY <1>1, <4>2, <5>1 DEF Z!Excused, ExcusedThen
      <4> QED BY <2>2, <3>2, <4>1, <4>2 DEF PicturesAreKnown
    <3> QED BY <2>2, <3>1, <3>2 DEF Z!ReplayedAvatar, Z!None
  <2> QED BY <1>2, <2>1, <2>2 DEF Pictures
<1> HIDE DEF s, c
<1>4. /\ answer \in AnswerType
      /\ answer.avatar \in {"part", "other"} => ExcusedThen(s.path, answer.avatar)
      /\ answer.kind = "replay" =>
           /\ ~answer.ok /\ answer.newmsg = "OFF"
           /\ answer.post >= ask[k].floor \/ c \in crossed
  <2>1. Z!Err \in AnswerType /\ Z!Err.kind = "error" /\ Z!Err.avatar = Z!None
    BY DEF AnswerType, Z!Err, Z!NoAnswer, Z!None
  <2>2. replayed \in AnswerType
    BY <1>2, <1>3 DEF AnswerType
  <2>3. s.kind = "ok" => replayed.post >= ask[k].floor \/ c \in crossed
    BY <1>2
  <2> QED BY <1>3, <2>1, <2>2, <2>3 DEF Z!None
<1> HIDE DEF answer
<1>5. /\ a \in AskType /\ a.pc = "done" /\ a.op = ask[k].op /\ a.chan = c
      /\ a.floor = ask[k].floor /\ a.answer = answer /\ a.pic = s.path
  BY <1>2, <1>4 DEF AskType, c
<1> HIDE DEF a
<1>6. EzTypeOK' /\ crossed \subseteq crossed' /\ \A p \in Pics : ~Z!Active(k, p)
  BY <1>1, <1>5 DEF EzTypeOK, FetchesArePlaced
<1>7. FetchesArePlaced' /\ PicturesAreKnown'
  <2>1. a.answer.avatar \in {"part", "other"} => ExcusedThen(a.pic, a.answer.avatar)
    BY <1>4, <1>5
  <2> QED BY <1>1, <1>5, <1>6, <2>1, OnlyCallMoves
<1>8. SnapshotsAreNew'
  BY <1>1, <1>6 DEF SnapshotsAreNew
<1>9. CallsAreNew'
  BY <1>1, <1>2, <1>4, <1>5, <1>6 DEF CallsAreNew, CallIsNew, Reads, EzTypeOK, c
<1> QED BY <1>6, <1>7, <1>8, <1>9

(* A call that has been answered keeps EzInv.                               *)
LEMMA AnswerInv ==
  ASSUME EzInv, NEW k \in Clients, Z!Answer(k)
  PROVE  EzInv'
<1> USE DEF EzInv
<1>1. /\ ask[k].pc = "done" /\ ask' = [ask EXCEPT ![k] = Z!NoAsk]
      /\ job' = [job EXCEPT ![k] = Z!NoJobs]
      /\ UNCHANGED <<site, image, snap, crossed, marred, seen, breaks>>
  BY DEF Z!Answer, Z!AskAt, Z!OnlyAsk
<1>2. /\ Z!NoAsk \in AskType /\ Z!NoAsk.pc = "idle" /\ Z!NoAsk.op = "none"
      /\ Z!NoAsk.answer.kind = "none" /\ Z!NoAsk.answer.avatar = Z!None
  BY DEF Z!NoAsk, Z!NoAnswer, Z!None, AskType, AnswerType, Pictures
<1>3. \A p \in Pics : job'[k][p] = "idle" /\ ~Z!Active(k, p)
  BY <1>1 DEF Z!NoJobs, EzTypeOK, FetchesArePlaced
<1>4. EzTypeOK'
  BY <1>1, <1>2 DEF EzTypeOK, JobStates, Z!NoJobs
<1>5. \A j \in Clients \ {k} : ask'[j] = ask[j] /\ job'[j] = job[j]
  BY <1>1 DEF EzTypeOK
<1>6. ask'[k] = Z!NoAsk
  BY <1>1 DEF EzTypeOK
<1>7. FetchesArePlaced'
  BY <1>1, <1>3, <1>5 DEF FetchesArePlaced, Z!Active, Z!Contents
<1>8. PicturesAreKnown'
  <2>1. \A p \in Pics : job[k][p] # "fill"
    BY <1>3 DEF Z!Active, Z!Contents
  <2> QED BY <1>1, <1>2, <1>3, <1>5, <1>6, <2>1 DEF PicturesAreKnown, Z!Excused, ExcusedThen, Z!None
<1>9. SnapshotsAreNew'
  BY <1>1 DEF SnapshotsAreNew
<1>10. CallsAreNew'
  BY <1>1, <1>2, <1>5, <1>6 DEF CallsAreNew, CallIsNew, Reads
<1> QED BY <1>4, <1>7, <1>8, <1>9, <1>10

(* The downloads a call starts are placed, one owner to a picture.          *)
LEMMA FetchFacts ==
  ASSUME EzInv, NEW k \in Clients, NEW ps, ps \subseteq Pics, Z!Fetch(k, ps),
         \A p \in Pics : ~Z!Active(k, p),
         NEW a \in AskType, ask' = [ask EXCEPT ![k] = a], a.pc = "picture",
         a.answer.avatar \notin {"part", "other"},
         UNCHANGED <<site, image, snap, marred, seen, breaks>>
  PROVE  EzTypeOK' /\ FetchesArePlaced' /\ PicturesAreKnown' /\ crossed \subseteq crossed'
<1> USE DEF EzInv
<1>1. /\ job' = [job EXCEPT ![k] = [p \in Pics |-> IF p \in ps THEN "stat" ELSE "idle"]]
      /\ crossed' = crossed \cup {p \in ps : \E j \in Clients \ {k} : Z!Active(j, p)}
  BY DEF Z!Fetch
<1>2. EzTypeOK'
  BY <1>1 DEF EzTypeOK, JobStates
<1>3. /\ ask'[k] = a /\ \A j \in Clients \ {k} : ask'[j] = ask[j] /\ job'[j] = job[j]
      /\ \A p \in Pics : job'[k][p] = IF p \in ps THEN "stat" ELSE "idle"
  BY <1>1 DEF EzTypeOK
<1>4. \A p \in Pics : /\ Z!Active(k, p)' <=> p \in ps
                      /\ \A j \in Clients \ {k} : Z!Active(j, p)' <=> Z!Active(j, p)
  BY <1>3 DEF Z!Active, Z!Contents
<1>5. FetchesArePlaced'
  <2>1. \A j \in Clients, p \in Pics : job'[j][p] \in {"fill", "read"} => image'[p] # "none"
    BY <1>3 DEF FetchesArePlaced
  <2>2. \A j \in Clients, p \in Pics : Z!Active(j, p)' => ask'[j].pc = "picture"
    BY <1>3, <1>4 DEF FetchesArePlaced
  <2>3. \A j, i \in Clients, p \in Pics :
          (j # i /\ Z!Active(j, p)' /\ Z!Active(i, p)') => p \in crossed'
    BY <1>1, <1>4 DEF FetchesArePlaced
  <2> QED BY <2>1, <2>2, <2>3 DEF FetchesArePlaced
<1>6. PicturesAreKnown'
  <2>1. \A p \in Pics : job[k][p] # "fill"
    BY DEF Z!Active, Z!Contents
  <2>2. \A p \in Pics : image[p] \in {"part", "other"} =>
          ExcusedThen(p, image[p]) \/ (image[p] = "part" /\ \E j \in Clients : job'[j][p] = "fill")
    <3>1. \A p \in Pics : image[p] \in {"part", "other"} =>
            Z!Excused(p, image[p]) \/ (image[p] = "part" /\ \E j \in Clients : job[j][p] = "fill")
      BY DEF PicturesAreKnown
    <3> QED BY <1>1, <1>3, <2>1, <3>1 DEF Z!Excused, ExcusedThen
  <2>3. \A j \in Clients \ {k}, p \in Pics :
          job[j][p] \in {"part", "other"} => ExcusedThen(p, job[j][p])
    BY <1>1 DEF PicturesAreKnown, Z!Excused, ExcusedThen
  <2>4. \A j \in Clients \ {k} : ask[j].answer.avatar \in {"part", "other"} =>
          ExcusedThen(ask[j].pic, ask[j].answer.avatar)
    BY <1>1 DEF PicturesAreKnown, Z!Excused, ExcusedThen
  <2> QED BY <1>3, <2>2, <2>3, <2>4 DEF PicturesAreKnown, Z!Excused, ExcusedThen
<1> QED BY <1>1, <1>2, <1>5, <1>6

(* A page that was fetched, with the downloads it starts, keeps EzInv.      *)
LEMMA GetPageInv ==
  ASSUME EzInv, NEW k \in Clients, Z!GetPage(k)
  PROVE  EzInv'
<1> DEFINE s == site[ask[k].chan]
           wants == IF ask[k].op = "info" THEN {s.pic} \ {Z!None}
                    ELSE IF ask[k].inline THEN Pics ELSE {}
           a == [ask[k] EXCEPT !.pc = "picture", !.post = s.post, !.pic = s.pic]
<1> USE DEF EzInv
<1>1. /\ ask[k].pc = "page" /\ ask' = [ask EXCEPT ![k] = a] /\ Z!Fetch(k, wants)
      /\ UNCHANGED <<site, image, snap, marred, seen, breaks>>
  BY DEF Z!GetPage, Z!AskAt, EzTypeOK
<1>2. /\ Reads(k) /\ ask[k].chan \in Chans /\ s \in [post : Nat, pic : Pictures]
      /\ ask[k] \in AskType /\ \A p \in Pics : ~Z!Active(k, p)
      /\ seen[ask[k].chan] <= s.post /\ ask[k].answer.avatar \notin {"part", "other"}
  BY <1>1 DEF Z!None, CallsAreNew, CallIsNew, Reads, EzTypeOK, FetchesArePlaced, SnapshotsAreNew
<1>3. wants \subseteq Pics
  BY <1>2 DEF Pictures
<1>4. /\ a \in AskType /\ a.pc = "picture" /\ a.op = ask[k].op /\ a.chan = ask[k].chan
      /\ a.floor = ask[k].floor /\ a.post = s.post /\ a.answer = ask[k].answer
  BY <1>2 DEF AskType
<1> HIDE DEF a, wants
<1>5. EzTypeOK' /\ FetchesArePlaced' /\ PicturesAreKnown' /\ crossed \subseteq crossed'
  BY <1>1, <1>2, <1>3, <1>4, FetchFacts
<1>6. SnapshotsAreNew'
  BY <1>1, <1>5 DEF SnapshotsAreNew
<1>7. CallsAreNew'
  <2>1. ask'[k] = a /\ \A j \in Clients \ {k} : ask'[j] = ask[j]
    BY <1>1 DEF EzTypeOK
  <2>2. ASSUME NEW j \in Clients PROVE CallIsNew(j)'
    <3>1. CASE j = k
      <4>1. s.post \in Nat /\ seen[ask[k].chan] \in Nat
        BY <1>2 DEF EzTypeOK
      <4> QED BY <1>1, <1>2, <1>4, <1>5, <2>1, <3>1, <4>1 DEF CallsAreNew, CallIsNew, Reads
    <3>2. CASE j # k
      BY <1>1, <1>5, <2>1, <3>2 DEF CallsAreNew, CallIsNew, Reads
    <3> QED BY <3>1, <3>2
  <2> QED BY <1>4, <1>5, <2>1, <2>2 DEF CallsAreNew, Reads
<1> QED BY <1>5, <1>6, <1>7

(* A new call keeps EzInv: it knows what is cached when it begins.          *)
LEMMA AskInv ==
  ASSUME EzInv, NEW k \in Clients, Z!Ask(k)
  PROVE  EzInv'
<1> USE DEF EzInv
<1>1. /\ ask[k].pc = "idle" /\ UNCHANGED <<site, image, snap, marred, seen, breaks>>
      /\ \A p \in Pics : ~Z!Active(k, p)
  BY DEF Z!Ask, Z!AskAt, FetchesArePlaced
<1>2. /\ Z!NoAsk \in AskType /\ Z!NoAsk.answer.kind = "none" /\ Z!NoAsk.answer.avatar = Z!None
  BY DEF Z!NoAsk, Z!NoAnswer, Z!None, AskType, AnswerType, Pictures
<1>3. ASSUME NEW r \in Requests, r.op = "image",
             ask' = [ask EXCEPT ![k] = [Z!NoAsk EXCEPT !.pc = "picture", !.op = r.op, !.pic = r.pic]],
             Z!Fetch(k, {r.pic})
      PROVE  EzInv'
  <2> DEFINE a == [Z!NoAsk EXCEPT !.pc = "picture", !.op = r.op, !.pic = r.pic]
  <2>1. {r.pic} \subseteq Pics
    BY <1>3, PartsAssumption
  <2>2. /\ a \in AskType /\ a.pc = "picture" /\ a.op = "image" /\ a.answer = Z!NoAsk.answer
    BY <1>2, <1>3, <2>1 DEF AskType, Pictures
  <2> HIDE DEF a
  <2>3. EzTypeOK' /\ FetchesArePlaced' /\ PicturesAreKnown' /\ crossed \subseteq crossed'
    <3>1. ask' = [ask EXCEPT ![k] = a] /\ a.answer.avatar \notin {"part", "other"}
      BY <1>2, <1>3, <2>2 DEF a, Z!None
    <3> QED BY <1>1, <1>3, <2>1, <2>2, <3>1, FetchFacts
  <2>4. ask'[k] = a /\ \A j \in Clients \ {k} : ask'[j] = ask[j]
    BY <1>3 DEF EzTypeOK, a
  <2>5. SnapshotsAreNew'
    BY <1>1, <2>3 DEF SnapshotsAreNew
  <2>6. CallsAreNew'
    BY <1>1, <1>2, <2>2, <2>3, <2>4 DEF CallsAreNew, CallIsNew, Reads
  <2> QED BY <2>3, <2>5, <2>6
<1>4. ASSUME NEW r \in Requests, r.op # "image", UNCHANGED job,
             ask' = [ask EXCEPT ![k] = [Z!NoAsk EXCEPT !.pc = "page", !.op = r.op, !.chan = r.chan,
                       !.inline = r.inline, !.read = r.read, !.floor = seen[r.chan]]],
             crossed' = crossed \cup IF \E j \in Clients : ask[j].chan = r.chan THEN {r.chan} ELSE {}
      PROVE  EzInv'
  <2> DEFINE a == [Z!NoAsk EXCEPT !.pc = "page", !.op = r.op, !.chan = r.chan,
                     !.inline = r.inline, !.read = r.read, !.floor = seen[r.chan]]
  <2>1. /\ r.op \in {"info", "messages"} /\ r.chan \in Chans /\ r.inline \in BOOLEAN
        /\ r.read \in Nat /\ seen[r.chan] \in Nat
    BY <1>4, PartsAssumption DEF EzTypeOK
  <2>2. /\ a \in AskType /\ a.pc = "page" /\ a.op = r.op /\ a.chan = r.chan
        /\ a.floor = seen[r.chan] /\ a.answer = Z!NoAsk.answer
    BY <1>2, <2>1 DEF AskType
  <2> HIDE DEF a
  <2>3. EzTypeOK' /\ crossed \subseteq crossed'
    BY <1>1, <1>4, <2>2 DEF EzTypeOK, a
  <2>4. FetchesArePlaced' /\ PicturesAreKnown'
    <3>1. ask' = [ask EXCEPT ![k] = a] /\ a.answer.avatar \notin {"part", "other"}
      BY <1>2, <1>4, <2>2 DEF a, Z!None
    <3> QED BY <1>1, <1>4, <2>2, <2>3, <3>1, OnlyCallMoves
  <2>5. ask'[k] = a /\ \A j \in Clients \ {k} : ask'[j] = ask[j]
    BY <1>4 DEF EzTypeOK, a
  <2>6. SnapshotsAreNew'
    BY <1>1, <2>3 DEF SnapshotsAreNew
  <2>7. \A j \in Clients \ {k} : ask[j].chan = r.chan => r.chan \in crossed'
    BY <1>4
  <2>8. \A j \in Clients : CallIsNew(j)'
    BY <1>1, <1>2, <2>1, <2>2, <2>3, <2>5 DEF CallsAreNew, CallIsNew, Reads
  <2>9. CallsAreNew'
    BY <2>2, <2>3, <2>5, <2>7, <2>8 DEF CallsAreNew, Reads
  <2> QED BY <2>3, <2>4, <2>6, <2>9
<1> QED BY <1>3, <1>4 DEF Z!Ask

(* A newer post on the site keeps EzInv.                                    *)
LEMMA SiteInv ==
  ASSUME EzInv, NEW c \in Chans, Z!Posted(c)
  PROVE  EzInv'
<1> USE DEF EzInv
<1>1. PICK n \in Posts, p \in Pics \cup {Z!None} :
        n > site[c].post /\ site' = [site EXCEPT ![c] = [post |-> n, pic |-> p]]
  BY DEF Z!Posted
<1>2. UNCHANGED <<image, snap, ask, job, crossed, marred, seen, breaks>> /\ n \in Nat
  BY PartsAssumption DEF Z!Posted
<1>3. EzTypeOK' /\ \A d \in Chans : site'[d].post >= site[d].post
  BY <1>1, <1>2 DEF EzTypeOK, Pictures
<1>4. FetchesArePlaced' /\ PicturesAreKnown'
  BY <1>2 DEF FetchesArePlaced, PicturesAreKnown, Z!Excused, ExcusedThen, Z!Active
<1>5. \A d \in Chans : /\ site[d].post \in Nat /\ site'[d].post \in Nat /\ seen[d] \in Nat
                       /\ snap[d].post \in Nat
  BY <1>3 DEF EzTypeOK
<1>6. \A k \in Clients : ask[k].post \in Nat
  BY DEF EzTypeOK, AskType
<1>7. SnapshotsAreNew' /\ CallsAreNew'
  BY <1>2, <1>3, <1>5, <1>6 DEF SnapshotsAreNew, CallsAreNew, CallIsNew, Reads
<1> QED BY <1>3, <1>4, <1>7

(* A process that dies in the middle of its downloads keeps EzInv.          *)
LEMMA KillInv == EzInv /\ Z!Killed => EzInv'
<1> SUFFICES ASSUME EzInv, Z!Killed PROVE EzInv'
  OBVIOUS
<1> USE DEF EzInv
<1>1. /\ ask' = [k \in Clients |-> Z!NoAsk] /\ job' = [k \in Clients |-> Z!NoJobs]
      /\ UNCHANGED <<site, image, snap, crossed, seen>> /\ breaks' \in Nat
      /\ marred \subseteq marred'
      /\ \A p \in Pics, k \in Clients : job[k][p] = "fill" => <<p, "part">> \in marred'
  BY DEF Z!Killed, Z!Break, Z!Doing, EzTypeOK
<1>2. /\ Z!NoAsk \in AskType /\ Z!NoAsk.pc = "idle" /\ Z!NoAsk.op = "none"
      /\ Z!NoAsk.answer.kind = "none"
      /\ Z!NoAsk.answer.avatar = Z!None
  BY DEF Z!NoAsk, Z!NoAnswer, Z!None, AskType, AnswerType, Pictures
<1>3. EzTypeOK'
  BY <1>1, <1>2 DEF EzTypeOK, JobStates, Z!NoJobs
<1>4. FetchesArePlaced' /\ PicturesAreKnown'
  <2>1. \A p \in Pics : image[p] \in {"part", "other"} => ExcusedThen(p, image[p])
    BY <1>1 DEF PicturesAreKnown, Z!Excused, ExcusedThen
  <2>2. FetchesArePlaced'
    BY <1>1 DEF FetchesArePlaced, Z!NoJobs, Z!Active
  <2>3. PicturesAreKnown'
    BY <1>1, <1>2, <2>1 DEF PicturesAreKnown, Z!Excused, ExcusedThen, Z!NoJobs, Z!None
  <2> QED BY <2>2, <2>3
<1>5. SnapshotsAreNew' /\ CallsAreNew'
  BY <1>1, <1>2 DEF SnapshotsAreNew, CallsAreNew, CallIsNew, Reads
<1> QED BY <1>3, <1>4, <1>5

(* Every step of the calls, their downloads and the site keeps EzInv.       *)
LEMMA EzStepInv == EzInv /\ [Z!EzNext]_ezytel => EzInv'
<1> SUFFICES ASSUME EzInv, [Z!EzNext]_ezytel PROVE EzInv'
  OBVIOUS
<1>1. CASE UNCHANGED ezytel
  BY <1>1 DEF ezytel, EzInv, EzTypeOK, FetchesArePlaced, PicturesAreKnown, Z!Excused, ExcusedThen, CallsAreNew,
     CallIsNew, Reads, SnapshotsAreNew, Z!Active
<1>2. CASE Z!EzNext
  BY <1>2, PictureStepInv, AskInv, GetPageInv, GetPageFailsInv, PicturesDoneInv, OpenSnapshotInv,
     FillSnapshotInv, ReadSnapshotInv, AnswerInv, SiteInv, KillInv DEF Z!EzNext, Z!AskStep
<1> QED BY <1>1, <1>2

(***************************************************************************)
(* Dates                                                                    *)
(***************************************************************************)
(* A day n is day d of the k-th four years of the q-th cycle of 33 years.    *)
InCycle(n, q, k, d) ==
  /\ q \in Nat /\ k \in 0..8 /\ d \in 0..1460 /\ (k = 8 => d <= 364)
  /\ n = 12053 * q + 1461 * k + d
CycleOf(n) == n \div 12053
FourOf(n)  == (n % 12053) \div 1461
DayOf(n)   == (n % 12053) % 1461

(* Every count of days lies in one 33-year cycle, four-year group and day.  *)
LEMMA CycleIsMet == \A n \in Nat : InCycle(n, CycleOf(n), FourOf(n), DayOf(n))
<1> SUFFICES ASSUME NEW n \in Nat PROVE InCycle(n, CycleOf(n), FourOf(n), DayOf(n))
  OBVIOUS
<1> DEFINE e == n % 12053
<1>1. n \div 12053 \in Nat /\ e \in 0..12052 /\ n = 12053 * (n \div 12053) + e
  OBVIOUS
<1> HIDE DEF e
<1>2. /\ e \div 1461 \in 0..8 /\ e % 1461 \in 0..1460 /\ e = 1461 * (e \div 1461) + (e % 1461)
  BY <1>1
<1>3. (e \div 1461 = 8) => (e % 1461 <= 364)
  BY <1>1, <1>2
<1>4. InCycle(n, n \div 12053, e \div 1461, e % 1461)
  BY <1>1, <1>2, <1>3 DEF InCycle
<1> QED BY <1>4 DEF CycleOf, FourOf, DayOf, e

(* What the divisions by 12053 and 1461 read is that place.                 *)
LEMMA CycleIsRead ==
  ASSUME NEW n, NEW q, NEW k, NEW d, InCycle(n, q, k, d)
  PROVE  /\ n \div 12053 = q /\ (n % 12053) \div 1461 = k /\ (n % 12053) % 1461 = d
<1>1. /\ q \in Nat /\ k \in 0..8 /\ d \in 0..1460 /\ (k = 8 => d <= 364)
      /\ n = 12053 * q + 1461 * k + d
  BY DEF InCycle
<1>2. PICK e \in 0..12052 : e = 1461 * k + d
  <2>1. k \in 0..8 /\ d \in 0..1460 /\ (k = 8 => d <= 364)
    BY <1>1
  <2>2. 1461 * k <= 1461 * 7 \/ (1461 * k = 1461 * 8 /\ d <= 364)
    BY <2>1
  <2>3. 1461 * k + d <= 12052 /\ 1461 * k + d \in Nat
    BY <2>1, <2>2
  <2> QED BY <2>1, <2>3
<1>3. e \div 1461 = k /\ e % 1461 = d
  <2>1. (1461 * k + d) \div 1461 = k /\ (1461 * k + d) % 1461 = d
    BY <1>1
  <2> QED BY <1>2, <2>1
<1>4. n = 12053 * q + e /\ n \in Nat
  BY <1>1, <1>2
<1>5. n \div 12053 = q /\ n % 12053 = e
  BY <1>1, <1>2, <1>4
<1> QED BY <1>3, <1>5

(* A year of the group is leap when it is its first, but for the last group.*)
LEMMA LeapYears ==
  ASSUME NEW q \in Nat, NEW k \in 0..8, NEW r \in 0..3,
         NEW y, y = 979 + 33 * q + 4 * k + r, k = 8 => r = 0
  PROVE  J!PersianLeap(y) <=> (r = 0 /\ k # 8)
<1>1. \A a \in Int, c \in 0..32 : y = 33 * a + c => y % 33 = c
  OBVIOUS
<1>2. CASE 22 + 4 * k + r <= 32
  <2>1. y = 33 * (29 + q) + (22 + 4 * k + r)
    OBVIOUS
  <2>2. y % 33 = 22 + 4 * k + r
    BY <1>1, <1>2, <2>1
  <2> QED BY <2>2, <1>2 DEF J!PersianLeap
<1>3. CASE 22 + 4 * k + r > 32
  <2>1. PICK c \in 0..24 : c = 4 * k + r - 11
    BY <1>3
  <2>2. y = 33 * (30 + q) + c
    BY <2>1
  <2>3. y % 33 = c
    BY <1>1, <2>2
  <2>4. c \in {1, 5, 9, 13, 17, 22, 26, 30} <=> (r = 0 /\ k # 8)
    <3>1. CASE r = 0
      BY <1>3, <2>1, <3>1
    <3>2. CASE r = 1
      BY <1>3, <2>1, <3>2
    <3>3. CASE r = 2
      BY <1>3, <2>1, <3>3
    <3>4. CASE r = 3
      BY <1>3, <2>1, <3>4
    <3> QED BY <3>1, <3>2, <3>3, <3>4
  <2> QED BY <2>3, <2>4 DEF J!PersianLeap
<1> QED BY <1>2, <1>3

(* The year and its day that the code computes, by the place in the cycle.  *)
LEMMA YearAndDayIs ==
  ASSUME NEW n, NEW q, NEW k, NEW d, InCycle(n, q, k, d)
  PROVE  J!YearAndDay(n) =
           IF d > 365 THEN <<979 + 33 * q + 4 * k + (d - 1) \div 365, (d - 1) % 365>>
           ELSE <<979 + 33 * q + 4 * k, d>>
BY CycleIsRead DEF J!YearAndDay

YearLength(y) == IF J!PersianLeap(y) THEN 366 ELSE 365
(* The years of four: one of 366 days, then three of 365, but 365 in the     *)
(* last year of a cycle.                                                    *)
LEMMA YearIs ==
  ASSUME NEW n, NEW q, NEW k, NEW d, InCycle(n, q, k, d), NEW r, NEW y, NEW day,
         r = (IF d > 365 THEN (d - 1) \div 365 ELSE 0),
         y = 979 + 33 * q + 4 * k + r,
         day = (IF d > 365 THEN (d - 1) % 365 ELSE d)
  PROVE  /\ r \in 0..3 /\ day \in 0..365 /\ y \in Nat
         /\ d = (IF r = 0 THEN day ELSE 365 * r + 1 + day)
         /\ J!YearAndDay(n) = <<y, day>>
         /\ day < YearLength(y)
         /\ YearLength(y) = IF r = 0 /\ k # 8 THEN 366 ELSE 365
<1>1. /\ q \in Nat /\ k \in 0..8 /\ d \in 0..1460 /\ (k = 8 => d <= 364)
  BY DEF InCycle
<1>2. CASE d <= 365
  <2>1. r = 0 /\ day = d /\ y \in Nat
    BY <1>1, <1>2
  <2>2. J!YearAndDay(n) = <<y, d>>
    BY <1>1, <1>2, <2>1, YearAndDayIs
  <2>3. YearLength(y) = IF k # 8 THEN 366 ELSE 365
    BY <1>1, <2>1, LeapYears DEF YearLength
  <2> QED BY <1>1, <1>2, <2>1, <2>2, <2>3
<1>3. CASE d > 365
  <2>1. J!YearAndDay(n) = <<979 + 33 * q + 4 * k + (d - 1) \div 365, (d - 1) % 365>>
    BY <1>1, <1>3, YearAndDayIs
  <2>2. r \in 1..3 /\ day \in 0..364 /\ d - 1 = 365 * r + day /\ k # 8 /\ y \in Nat
    <3>1. PICK e \in 365..1459 : e = d - 1
      BY <1>1, <1>3
    <3>2. e \div 365 \in 1..3 /\ e % 365 \in 0..364 /\ e = 365 * (e \div 365) + (e % 365)
      <4>1. e \div 365 \in 1..3
        OBVIOUS
      <4>2. e % 365 \in 0..364 /\ e = 365 * (e \div 365) + (e % 365)
        OBVIOUS
      <4> QED BY <4>1, <4>2
    <3>3. r = e \div 365 /\ day = e % 365
      BY <1>3, <3>1
    <3> QED BY <1>1, <1>3, <3>1, <3>2, <3>3
  <2>3. YearLength(y) = 365
    BY <1>1, <2>2, LeapYears DEF YearLength
  <2> QED BY <1>1, <1>3, <2>1, <2>2, <2>3
<1>4. d <= 365 \/ d > 365
  BY <1>1
<1> QED BY <1>2, <1>3, <1>4

\* The next count of days is the next day of the year, or the first of the next.
LEMMA NextOfYear ==
  ASSUME NEW n \in Nat
  PROVE  LET y == J!YearAndDay(n)[1]
             day == J!YearAndDay(n)[2]
         IN  /\ y \in Nat /\ day \in Nat /\ day < YearLength(y)
             /\ J!YearAndDay(n + 1) = IF day + 1 < YearLength(y) THEN <<y, day + 1>> ELSE <<y + 1, 0>>
<1>1. PICK q, k, d : InCycle(n, q, k, d)
  BY CycleIsMet
<1>2. PICK r, y, day :
        /\ r = (IF d > 365 THEN (d - 1) \div 365 ELSE 0)
        /\ y = 979 + 33 * q + 4 * k + r
        /\ day = (IF d > 365 THEN (d - 1) % 365 ELSE d)
  OBVIOUS
<1>3. /\ r \in 0..3 /\ day \in 0..365 /\ y \in Nat
      /\ d = (IF r = 0 THEN day ELSE 365 * r + 1 + day)
      /\ J!YearAndDay(n) = <<y, day>>
      /\ day < YearLength(y)
      /\ YearLength(y) = IF r = 0 /\ k # 8 THEN 366 ELSE 365
  BY <1>1, <1>2, YearIs
<1>4. /\ q \in Nat /\ k \in 0..8 /\ d \in 0..1460 /\ (k = 8 => d <= 364)
      /\ n = 12053 * q + 1461 * k + d
  BY <1>1 DEF InCycle
<1>5. J!YearAndDay(n + 1) = IF day + 1 < YearLength(y) THEN <<y, day + 1>> ELSE <<y + 1, 0>>
  <2>1. CASE k = 8 /\ d = 364
    <3>1. InCycle(n + 1, q + 1, 0, 0)
      BY <1>4, <2>1 DEF InCycle
    <3>2. J!YearAndDay(n + 1) = <<979 + 33 * (q + 1) + 4 * 0, 0>>
      BY <3>1, YearAndDayIs
    <3>3. r = 0 /\ day = 364
      BY <1>2, <2>1
    <3>4. 979 + 33 * (q + 1) + 4 * 0 = y + 1
      BY <1>2, <1>4, <2>1, <3>3
    <3>5. ~(day + 1 < YearLength(y))
      BY <1>3, <2>1, <3>3
    <3> QED BY <3>2, <3>4, <3>5
  <2>2. CASE d = 1460
    <3>1. k # 8 /\ InCycle(n + 1, q, k + 1, 0)
      BY <1>4, <2>2 DEF InCycle
    <3>2. J!YearAndDay(n + 1) = <<979 + 33 * q + 4 * (k + 1), 0>>
      BY <3>1, YearAndDayIs
    <3>3. r = 3 /\ day = 364
      BY <1>3, <2>2
    <3>4. YearLength(y) = 365
      BY <1>3, <3>3
    <3>5. 979 + 33 * q + 4 * (k + 1) = y + 1
      BY <1>2, <1>4, <3>3
    <3>6. ~(day + 1 < YearLength(y))
      BY <3>3, <3>4
    <3> QED BY <3>2, <3>5, <3>6
  <2>3. CASE ~(k = 8 /\ d = 364) /\ d # 1460
    <3>1. InCycle(n + 1, q, k, d + 1) /\ d + 1 \in 0..1460
      BY <1>4, <2>3 DEF InCycle
    <3>2. J!YearAndDay(n + 1) =
            IF d + 1 > 365 THEN <<979 + 33 * q + 4 * k + d \div 365, d % 365>>
            ELSE <<979 + 33 * q + 4 * k, d + 1>>
      <4>1. (d + 1) - 1 = d
        BY <3>1, <1>4
      <4> QED BY <3>1, <4>1, YearAndDayIs
    <3>3. CASE d + 1 <= 365
      <4>1. r = 0 /\ day = d /\ y = 979 + 33 * q + 4 * k
        BY <1>2, <1>4, <3>3
      <4>2. day + 1 < YearLength(y)
        BY <1>3, <1>4, <2>3, <3>3, <4>1
      <4> QED BY <3>1, <3>2, <3>3, <4>1, <4>2
    <3>4. CASE d + 1 > 365
      <4>1. J!YearAndDay(n + 1) = <<979 + 33 * q + 4 * k + d \div 365, d % 365>>
        BY <3>1, <3>2, <3>4
      <4>2. CASE r = 0
        <5>1. d = 365 /\ d \div 365 = 1 /\ d % 365 = 0
          <6>1. d = day /\ d >= 365
            BY <1>3, <1>4, <3>4, <4>2
          <6> QED BY <1>3, <6>1
        <5>2. 979 + 33 * q + 4 * k + d \div 365 = y + 1
          BY <1>2, <1>4, <4>2, <5>1
        <5>3. k # 8 /\ day = 365
          BY <1>3, <1>4, <4>2, <5>1
        <5>4. ~(day + 1 < YearLength(y))
          BY <1>3, <4>2, <5>3
        <5> QED BY <4>1, <5>1, <5>2, <5>4
      <4>3. CASE r # 0 /\ day < 364
        <5>1. d = 365 * r + (day + 1) /\ d \div 365 = r /\ d % 365 = day + 1
          BY <1>3, <4>3
        <5>2. J!YearAndDay(n + 1) = <<y, day + 1>>
          BY <1>2, <4>1, <5>1
        <5> QED BY <1>3, <4>3, <5>2
      <4>4. CASE r # 0 /\ day >= 364
        <5>1. day = 364 /\ d = 365 * (r + 1) /\ d \div 365 = r + 1 /\ d % 365 = 0
          BY <1>3, <4>4
        <5>2. 979 + 33 * q + 4 * k + (r + 1) = y + 1
          <6>1. y = 979 + 33 * q + 4 * k + r
            BY <1>2
          <6>2. q \in Nat /\ k \in Nat /\ r \in Nat
            BY <1>3, <1>4
          <6> QED BY <6>1, <6>2
        <5>3. ~(day + 1 < YearLength(y))
          BY <1>3, <4>4, <5>1
        <5> QED BY <4>1, <5>1, <5>2, <5>3
      <4> QED BY <1>3, <4>2, <4>3, <4>4
    <3> QED BY <3>1, <3>3, <3>4
  <2> QED BY <2>1, <2>2, <2>3
<1> QED BY <1>3, <1>5

(* A year joined with a month and a day is a date.                          *)
LEMMA Joined == \A x, a, b : <<x>> \o <<a, b>> = <<x, a, b>>
<1> SUFFICES ASSUME NEW x, NEW a, NEW b PROVE <<x>> \o <<a, b>> = <<x, a, b>>
  OBVIOUS
<1> DEFINE D == {x, a, b}
<1>1. /\ <<x>> \in Seq(D) /\ <<a, b>> \in Seq(D) /\ <<x, a, b>> \in Seq(D)
      /\ Len(<<x>>) = 1 /\ Len(<<a, b>>) = 2 /\ Len(<<x, a, b>>) = 3
  OBVIOUS
<1> HIDE DEF D
<1>2. /\ <<x>> \o <<a, b>> \in Seq(D) /\ Len(<<x>> \o <<a, b>>) = 3
      /\ \A i \in 1..3 : (<<x>> \o <<a, b>>)[i] = IF i <= 1 THEN <<x>>[i] ELSE <<a, b>>[i - 1]
  BY <1>1, ConcatProperties
<1>3. \A i \in 1..3 : (<<x>> \o <<a, b>>)[i] = <<x, a, b>>[i]
  <2>1. 1..3 = {1, 2, 3}
    OBVIOUS
  <2> QED BY <1>2, <2>1
<1> QED BY <1>1, <1>2, <1>3, SeqEqual

(* Six months of 31 days, then months of 30, of which the last one has 29    *)
(* in a year of 365 days.                                                   *)
LEMMA MonthIs ==
  ASSUME NEW day \in 0..365
  PROVE  \E m \in 1..12, e \in 1..31 :
           /\ J!MonthAndDay(day) = <<m, e>>
           /\ (m <= 6 /\ day = 31 * (m - 1) + (e - 1)) \/ (m > 6 /\ e <= 30 /\ day = 186 + 30 * (m - 7) + (e - 1))
<1>1. CASE day < 186
  <2>1. /\ day \div 31 \in 0..5 /\ day % 31 \in 0..30 /\ day = 31 * (day \div 31) + (day % 31)
    BY <1>1
  <2>2. PICK m \in 1..6, e \in 1..31 : m = 1 + day \div 31 /\ e = 1 + (day % 31)
    BY <2>1
  <2>3. J!MonthAndDay(day) = <<m, e>> /\ day = 31 * (m - 1) + (e - 1)
    BY <1>1, <2>1, <2>2 DEF J!MonthAndDay
  <2> QED BY <2>3
<1>2. CASE day >= 186
  <2>1. PICK f \in 0..179 : f = day - 186
    BY <1>2
  <2>2. /\ f \div 30 \in 0..5 /\ f % 30 \in 0..29 /\ f = 30 * (f \div 30) + (f % 30)
    OBVIOUS
  <2>3. PICK m \in 7..12, e \in 1..30 : m = 7 + f \div 30 /\ e = 1 + (f % 30)
    BY <2>2
  <2>4. J!MonthAndDay(day) = <<m, e>>
    BY <1>2, <2>1, <2>3 DEF J!MonthAndDay
  <2>5. m > 6 /\ day = 186 + 30 * (m - 7) + (e - 1)
    BY <2>1, <2>2, <2>3
  <2> QED BY <2>4, <2>5
<1> QED BY <1>1, <1>2

(* The first day of a year is the first of its first month.                 *)
LEMMA NewYear == \A y \in Nat : <<y>> \o J!MonthAndDay(0) = <<y, 1, 1>>
<1>1. 0 \div 31 = 0 /\ 0 % 31 = 0
  OBVIOUS
<1>2. J!MonthAndDay(0) = <<1, 1>>
  BY <1>1 DEF J!MonthAndDay
<1> QED BY <1>2, Joined

(* The next day of a year is the next day of the Persian calendar.          *)
LEMMA NextOfMonth ==
  ASSUME NEW y \in Nat, NEW day \in Nat, day < YearLength(y)
  PROVE  J!PersianNext(<<y>> \o J!MonthAndDay(day)) =
           IF day + 1 < YearLength(y) THEN <<y>> \o J!MonthAndDay(day + 1)
           ELSE <<y + 1>> \o J!MonthAndDay(0)
<1>1. day \in 0..365 /\ YearLength(y) \in {365, 366}
  BY DEF YearLength
<1>2. PICK m \in 1..12, e \in 1..31 :
        /\ J!MonthAndDay(day) = <<m, e>>
        /\ (m <= 6 /\ day = 31 * (m - 1) + (e - 1)) \/ (m > 6 /\ e <= 30 /\ day = 186 + 30 * (m - 7) + (e - 1))
  BY <1>1, MonthIs
<1>3. CASE day + 1 < YearLength(y)
  <2>1. day + 1 \in 0..365
    BY <1>1, <1>3
  <2>2. PICK n \in 1..12, f \in 1..31 :
        /\ J!MonthAndDay(day + 1) = <<n, f>>
        /\ (n <= 6 /\ day + 1 = 31 * (n - 1) + (f - 1)) \/ (n > 6 /\ f <= 30 /\ day + 1 = 186 + 30 * (n - 7) + (f - 1))
    BY <2>1, MonthIs
  <2>3. J!PersianNext(<<y, m, e>>) = <<y, n, f>>
    <3>1. (n = m /\ f = e + 1 /\ e < J!PersianLength(y, m))
            \/ (n = m + 1 /\ f = 1 /\ e = J!PersianLength(y, m))
      BY <1>1, <1>2, <1>3, <2>2 DEF J!PersianLength, YearLength
    <3> QED BY <3>1 DEF J!PersianNext
  <2> QED BY <1>2, <1>3, <2>2, <2>3, Joined
<1>4. CASE day + 1 = YearLength(y)
  <2>1. m = 12 /\ e = J!PersianLength(y, m)
    BY <1>1, <1>2, <1>4 DEF J!PersianLength, YearLength
  <2>2. J!PersianNext(<<y, m, e>>) = <<y + 1, 1, 1>>
    BY <2>1 DEF J!PersianNext
  <2>3. <<y + 1>> \o J!MonthAndDay(0) = <<y + 1, 1, 1>>
    BY NewYear
  <2>4. <<y>> \o <<m, e>> = <<y, m, e>>
    BY Joined
  <2>5. ~(day + 1 < YearLength(y))
    BY <1>1, <1>4
  <2> QED BY <1>2, <2>2, <2>3, <2>4, <2>5
<1>5. day + 1 < YearLength(y) \/ day + 1 = YearLength(y)
  BY <1>1
<1> QED BY <1>3, <1>4, <1>5

(***************************************************************************)
(* The Gregorian calendar counts its days one by one.                       *)
LEMMA LeapDays ==
  ASSUME NEW x \in Nat
  PROVE  (x + 4) \div 4 - (x + 100) \div 100 + (x + 400) \div 400 =
           (x + 3) \div 4 - (x + 99) \div 100 + (x + 399) \div 400
             + IF J!IsLeap(x + 1600) THEN 1 ELSE 0
<1>1. (x + 4) \div 4 = (x + 3) \div 4 + IF x % 4 = 0 THEN 1 ELSE 0
  OBVIOUS
<1>2. (x + 100) \div 100 = (x + 99) \div 100 + IF x % 100 = 0 THEN 1 ELSE 0
  OBVIOUS
<1>3. (x + 400) \div 400 = (x + 399) \div 400 + IF x % 400 = 0 THEN 1 ELSE 0
  OBVIOUS
<1>4. (x + 1600) % 4 = x % 4 /\ (x + 1600) % 100 = x % 100 /\ (x + 1600) % 400 = x % 400
  OBVIOUS
<1>5. (x % 400 = 0 => x % 100 = 0) /\ (x % 100 = 0 => x % 4 = 0)
  OBVIOUS
<1>6. J!IsLeap(x + 1600) <=> (x % 4 = 0 /\ x % 100 # 0) \/ x % 400 = 0
  BY <1>4 DEF J!IsLeap
<1>7. /\ (x + 3) \div 4 \in Nat /\ (x + 99) \div 100 \in Nat /\ (x + 399) \div 400 \in Nat
  OBVIOUS
<1> QED BY <1>1, <1>2, <1>3, <1>5, <1>6, <1>7

(* The day after a Gregorian date is counted one more.                      *)
LEMMA NextOfDays ==
  ASSUME NEW y \in Nat, y > 1600, NEW m \in 1..12, NEW d \in 1..J!LengthOf(y, m)
  PROVE  LET g == J!NextDay(<<y, m, d>>)
         IN  /\ J!Days(y, m, d) \in Nat
             /\ J!Days(g[1], g[2], g[3]) = J!Days(y, m, d) + 1
<1>1. PICK x \in Nat \ {0} : x = y - 1600
  OBVIOUS
<1> DEFINE Leaps(z) == (z + 3) \div 4 - (z + 99) \div 100 + (z + 399) \div 400
           leap == IF J!IsLeap(y) THEN 1 ELSE 0
<1>2. /\ Leaps(x) \in Int /\ Leaps(x) > 0 /\ leap \in {0, 1}
      /\ Leaps(x + 1) = Leaps(x) + leap
  <2>1. (x + 1) + 3 = x + 4 /\ (x + 1) + 99 = x + 100 /\ (x + 1) + 399 = x + 400 /\ x + 1600 = y
    BY <1>1
  <2>2. /\ (x + 3) \div 4 \in Nat /\ (x + 99) \div 100 \in Nat /\ (x + 399) \div 400 \in Nat
        /\ (x + 399) \div 400 > 0 /\ (x + 3) \div 4 >= (x + 99) \div 100
    OBVIOUS
  <2> QED BY <2>1, <2>2, LeapDays
<1> HIDE DEF Leaps
<1>3. \A e \in Nat : J!Days(y, m, e) =
        365 * x + Leaps(IF m > 2 THEN x + 1 ELSE x) - 80 + e + J!BeforeMonth[m]
  BY <1>1 DEF J!Days, Leaps
<1>4. J!Days(y + 1, 1, 1) = 365 * (x + 1) + Leaps(x + 1) - 80 + 1
  <2>1. (y + 1) - 1600 = x + 1
    BY <1>1
  <2> QED BY <2>1 DEF J!Days, J!BeforeMonth, Leaps
<1>5. /\ m \in {1, 2, 3, 4, 5, 6, 7, 8, 9, 10, 11, 12}
      /\ J!LengthOf(y, m) = IF m = 2 THEN 28 + leap ELSE IF m \in {4, 6, 9, 11} THEN 30 ELSE 31
  BY DEF J!LengthOf
<1> HIDE DEF leap
<1>6. J!Days(y, m, d) \in Nat
  BY <1>2, <1>3, <1>5 DEF J!BeforeMonth
<1>7. CASE d < J!LengthOf(y, m)
  <2>1. J!NextDay(<<y, m, d>>) = <<y, m, d + 1>>
    BY <1>7 DEF J!NextDay
  <2>2. d \in Nat /\ J!BeforeMonth[m] \in Nat /\ Leaps(IF m > 2 THEN x + 1 ELSE x) \in Int
    BY <1>2, <1>5 DEF J!BeforeMonth
  <2>3. J!Days(y, m, d + 1) = J!Days(y, m, d) + 1
    BY <1>3, <2>2
  <2> QED BY <1>6, <2>1, <2>3
<1>8. CASE d = J!LengthOf(y, m) /\ m < 12
  <2>1. J!NextDay(<<y, m, d>>) = <<y, m + 1, 1>>
    BY <1>8 DEF J!NextDay
  <2>2. J!Days(y, m + 1, 1) = 365 * x + Leaps(IF m + 1 > 2 THEN x + 1 ELSE x) - 80 + 1 + J!BeforeMonth[m + 1]
    BY <1>1 DEF J!Days, Leaps
  <2>3. J!BeforeMonth[m + 1] = J!BeforeMonth[m] + IF m = 2 THEN 28 ELSE IF m \in {4, 6, 9, 11} THEN 30 ELSE 31
    BY <1>5, <1>8 DEF J!BeforeMonth
  <2>4. J!BeforeMonth[m] \in Nat /\ d \in Nat
    BY <1>2, <1>5 DEF J!BeforeMonth
  <2>5. J!Days(y, m, d) = 365 * x + Leaps(IF m > 2 THEN x + 1 ELSE x) - 80 + d + J!BeforeMonth[m]
    BY <1>3, <2>4
  <2>6. J!Days(y, m + 1, 1) = J!Days(y, m, d) + 1
    <3>1. CASE m = 2
      BY <1>2, <1>5, <1>8, <2>2, <2>3, <2>4, <2>5, <3>1
    <3>2. CASE m # 2
      BY <1>2, <1>5, <1>8, <2>2, <2>3, <2>4, <2>5, <3>2
    <3> QED BY <3>1, <3>2
  <2> QED BY <1>6, <2>1, <2>6
<1>9. CASE d = J!LengthOf(y, m) /\ m = 12
  <2>1. J!NextDay(<<y, m, d>>) = <<y + 1, 1, 1>>
    BY <1>5, <1>9 DEF J!NextDay
  <2> QED BY <1>2, <1>3, <1>4, <1>5, <1>6, <1>9, <2>1 DEF J!BeforeMonth
<1>10. \/ d < J!LengthOf(y, m)
       \/ d = J!LengthOf(y, m) /\ m < 12
       \/ d = J!LengthOf(y, m) /\ m = 12
  <2>1. J!LengthOf(y, m) \in Nat
    BY <1>2, <1>5
  <2> QED BY <2>1
<1> QED BY <1>7, <1>8, <1>9, <1>10

DateInv ==
  \E y \in FirstYear..LastYear, m \in 1..12 : \E d \in 1..J!LengthOf(y, m) : date = <<y, m, d>>

(* For every date after 1600 the conversion of the next day follows its own.*)
LEMMA DateInvImplies == DateInv => J!DaysFollow
<1> SUFFICES ASSUME DateInv PROVE J!DaysFollow
  OBVIOUS
<1>0. PICK y \in FirstYear..LastYear, m \in 1..12 :
        \E d \in 1..J!LengthOf(y, m) : date = <<y, m, d>>
  BY DEF DateInv
<1>1. PICK d \in 1..J!LengthOf(y, m) : date = <<y, m, d>>
  BY <1>0
<1>2. y \in Nat /\ y > 1600
  BY PartsAssumption
<1> DEFINE n == J!Days(y, m, d)
           yd == J!YearAndDay(n)
           g == J!NextDay(<<y, m, d>>)
           p == J!DateConvert(<<y, m, d>>)
<1>3. n \in Nat /\ J!Days(g[1], g[2], g[3]) = n + 1
  BY <1>2, NextOfDays
<1>4. /\ yd[1] \in Nat /\ yd[2] \in Nat /\ yd[2] < YearLength(yd[1])
      /\ J!YearAndDay(n + 1) = IF yd[2] + 1 < YearLength(yd[1]) THEN <<yd[1], yd[2] + 1>>
                               ELSE <<yd[1] + 1, 0>>
  BY <1>3, NextOfYear
<1>5. p = <<yd[1]>> \o J!MonthAndDay(yd[2])
  BY DEF J!DateConvert
<1>6. J!DateConvert(g) = IF yd[2] + 1 < YearLength(yd[1]) THEN <<yd[1]>> \o J!MonthAndDay(yd[2] + 1)
                         ELSE <<yd[1] + 1>> \o J!MonthAndDay(0)
  <2>1. J!DateConvert(g) = <<J!YearAndDay(n + 1)[1]>> \o J!MonthAndDay(J!YearAndDay(n + 1)[2])
    BY <1>3 DEF J!DateConvert
  <2> DEFINE z == J!YearAndDay(n + 1)
  <2> HIDE DEF z, yd, g
  <2>2. CASE yd[2] + 1 < YearLength(yd[1])
    <3>1. z = <<yd[1], yd[2] + 1>>
      BY <1>4, <2>2 DEF z
    <3> QED BY <2>1, <2>2, <3>1 DEF z
  <2>3. CASE ~(yd[2] + 1 < YearLength(yd[1]))
    <3>1. z = <<yd[1] + 1, 0>>
      BY <1>4, <2>3 DEF z
    <3> QED BY <2>1, <2>3, <3>1 DEF z
  <2> QED BY <2>2, <2>3
<1>7. J!PersianNext(p) = J!DateConvert(g)
  BY <1>4, <1>5, <1>6, NextOfMonth
<1>8. p # J!DateConvert(g)
  <2>1. PICK mo \in 1..12, e \in 1..31 : J!MonthAndDay(yd[2]) = <<mo, e>>
    <3>1. yd[2] \in 0..365
      BY <1>4 DEF YearLength
    <3> QED BY <3>1, MonthIs
  <2>2. p = <<yd[1], mo, e>>
    BY <1>5, <2>1, Joined
  <2>3. J!PersianNext(p) # p
    <3> DEFINE z == yd[1]
    <3>1. z \in Nat
      BY <1>4
    <3> HIDE DEF z
    <3>2. J!PersianNext(<<z, mo, e>>) # <<z, mo, e>>
      BY <3>1 DEF J!PersianNext
    <3> QED BY <2>2, <3>2 DEF z
  <2> QED BY <1>7, <2>3
<1>9. J!DateConvert(<<2024, 3, 20>>) = <<1403, 1, 1>>
  <2>1. J!Days(2024, 3, 20) = 154863
    BY DEF J!Days, J!BeforeMonth
  <2>2. J!YearAndDay(154863) = <<1403, 0>>
    BY DEF J!YearAndDay
  <2>3. PICK z \in Nat : z = 1403
    OBVIOUS
  <2>4. PICK t : t = J!DateConvert(<<2024, 3, 20>>)
    OBVIOUS
  <2>5. t = <<z>> \o J!MonthAndDay(0)
    BY <2>1, <2>2, <2>3, <2>4 DEF J!DateConvert
  <2>6. t = <<z, 1, 1>>
    BY <2>5, NewYear
  <2> QED BY <2>3, <2>4, <2>6
<1>10. J!DateEasyRead(p, J!DateConvert(g), p) = <<"Yesterday">>
  BY <1>8 DEF J!DateEasyRead
<1> QED BY <1>1, <1>7, <1>9, <1>10 DEF J!DaysFollow

(* The first day of the first year is a date.                               *)
LEMMA DateInitInv == PartsInit => DateInv
<1>1. \A y \in FirstYear..LastYear, m \in 1..12 : 1 \in 1..J!LengthOf(y, m)
  BY DEF J!LengthOf
<1> QED BY <1>1 DEF PartsInit, J!JalaliInit, DateInv

(* The day after a date is a date, until the last year ends.                *)
LEMMA DateStepInv == DateInv /\ [J!Tomorrow]_date => DateInv'
<1> SUFFICES ASSUME DateInv, J!Tomorrow PROVE DateInv'
  BY DEF DateInv
<1>0. PICK y \in FirstYear..LastYear, m \in 1..12 :
        \E d \in 1..J!LengthOf(y, m) : date = <<y, m, d>>
  BY DEF DateInv
<1>1. PICK d \in 1..J!LengthOf(y, m) : date = <<y, m, d>>
  BY <1>0
<1>2. d < J!LengthOf(y, m) /\ date' = <<y, m, d + 1>>
  BY <1>1 DEF J!Tomorrow, J!NextDay
<1>3. d + 1 \in 1..J!LengthOf(y, m)
  BY <1>2 DEF J!LengthOf
<1> QED BY <1>2, <1>3 DEF DateInv

(***************************************************************************)
(* The promises hold in every state                                         *)
(***************************************************************************)
(* Whatever hosts start, lose the address, fail, stop, panic or are killed,  *)
(* the lock names the one that serves, unless its write failed or an older  *)
(* host had yet to remove its lock; and none that ended in order is named   *)
(* (cmd_host_serve.go:89-209).                                              *)
THEOREM HostsAreNamed == PartsSpec => []LockNamesTheHost
<1>1. HostInv => LockNamesTheHost
  BY DEF HostInv, LockNamesTheHost
<1>2. HostInv /\ [PartsNext]_partsVars => HostInv'
  BY EachPartSteps, HostStepInv
<1> QED BY HostInitInv, <1>1, <1>2, PTL DEF PartsSpec

(* However the writers of a file interleave, fail or are killed, the path    *)
(* holds a whole file or none, a whole one is left once there was one, and  *)
(* a writer that ran alone and returns an error left what was there, unless *)
(* its rename back failed (atomic_file.go:9-75).                            *)
THEOREM WritesAreWhole == PartsSpec => []WritesAreAtomic
<1>1. FileInv => WritesAreAtomic
  BY FileInvImplies DEF WritesAreAtomic
<1>2. FileInv /\ [PartsNext]_partsVars => FileInv'
  BY EachPartSteps, FileStepInv
<1> QED BY FileInitInv, <1>1, <1>2, PTL DEF PartsSpec

(* Whatever commands activate, deactivate and end the tunnel helper, a box   *)
(* that runs in it can be closed, and a command that nothing disturbed did  *)
(* what it answered (tunnel_service.go, admin_service_commander.go).        *)
THEOREM TunnelIsObeyed == PartsSpec => []TunnelObeys
<1>1. TunnelInv => TunnelObeys
  BY TunnelInvImplies DEF TunnelObeys
<1>2. TunnelInv /\ [PartsNext]_partsVars => TunnelInv'
  BY EachPartSteps, TunnelStepInv
<1> QED BY TunnelInitInv, <1>1, <1>2, PTL DEF PartsSpec

(* Whatever the source becomes, and whenever a read, a start or a listener   *)
(* fails, "run" serves what its loop holds and leaves nothing up that the   *)
(* loop did not start, and the mean of "instance" is between its pings      *)
(* (standalone.go:20-209, independent_instance.go).                         *)
THEOREM StandaloneIsServed == PartsSpec => []StandaloneServes
<1>1. RunnerInv /\ PingInv => StandaloneServes
  BY RunnerInvImplies DEF StandaloneServes
<1>2. RunnerInv /\ [PartsNext]_partsVars => RunnerInv'
  BY EachPartSteps, RunnerStepInv
<1>3. PingInv /\ [PartsNext]_partsVars => PingInv'
  BY EachPartSteps, PingStepInv
<1> QED BY RunnerInitInv, <1>1, <1>2, <1>3, PTL DEF PartsSpec

(* Whatever URLs answer, fail, hang or come late, in however many samples,  *)
(* a verdict is measured, one good URL is enough for a sample, and no dial  *)
(* goes on uncancelled behind its race (engine.go:985-1110, stub.go).       *)
THEOREM VerdictsAreMeasured == PartsSpec => []VerdictsAreSound
<1>1. RaceInv => VerdictsAreSound
  BY RaceInvImplies DEF VerdictsAreSound
<1>2. RaceInv /\ [PartsNext]_partsVars => RaceInv'
  BY EachPartSteps, RaceStepInv
<1> QED BY RaceInitInv, <1>1, <1>2, PTL DEF PartsSpec

(* Whatever channels post, and whenever a fetch, a write or the process      *)
(* breaks off, a picture that is shown is whole and the picture, unless a    *)
(* write of it broke off, two calls fetched it at once or the front answered *)
(* something else for it; and a replay is the newest answer, unless two      *)
(* calls for its channel overlapped (ezytel_service_imp.go).                 *)
THEOREM EzytelIsSound == PartsSpec => []EzytelAnswersAreSound
<1>1. EzInv => EzytelAnswersAreSound
  BY EzInvImplies DEF EzytelAnswersAreSound
<1>2. EzInv /\ [PartsNext]_partsVars => EzInv'
  BY EachPartSteps, EzStepInv
<1> QED BY EzInitInv, <1>1, <1>2, PTL DEF PartsSpec

(* For every year after 1600, the Persian date of the next day is the next   *)
(* Persian date (ezytel_service_imp.go:779-830).                             *)
THEOREM DatesFollow == PartsSpec => []DaysFollow
<1>1. DateInv => DaysFollow
  BY DateInvImplies DEF DaysFollow
<1>2. DateInv /\ [PartsNext]_partsVars => DateInv'
  BY EachPartSteps, DateStepInv
<1> QED BY DateInitInv, <1>1, <1>2, PTL DEF PartsSpec

(***************************************************************************)
(* The tables of LevelDB, from one inductive invariant                      *)
(***************************************************************************)
CallPcs == {"idle", "open", "recover", "reopen", "quarantine", "after", "count", "rmbak", "move",
            "copy", "clear", "restore", "use"}
CallRecord ==
  [pc : CallPcs, op : {"none", "put", "delete"}, key : Keys \cup {Nobody}, tries : Nat,
   ret : {"none", "get", "fresh", "moved", "restored", "failed"}, dir : Dirs \cup {NoDir},
   aside : Dirs \cup {NoDir}, closed : BOOLEAN, pairs : SUBSET Keys]
StoreTypeOK ==
  /\ StTypeOK /\ call \in [Procs -> CallRecord] /\ intruded \in BOOLEAN
  /\ crashes \in Nat /\ faults \in Nat /\ rewrites \in Nat

Recovers(p) == call[p].pc \in {"recover", "reopen", "quarantine", "after"}
Rewrites(p) == call[p].pc \in {"rmbak", "move", "copy", "clear", "restore"}
               \/ call[p].ret \in {"fresh", "moved", "restored"}
(* p has the old directory put aside.                                       *)
HasBak(p) ==
  \/ /\ call[p].ret = "fresh"
     /\ call[p].pc \in {"open", "recover", "reopen", "quarantine", "copy"}
  \/ call[p].pc \in {"clear", "restore"}

(* Who holds what, and what a call that is under way implies, whoever else   *)
(* is there.                                                                *)
HandlesAreKnown ==
  /\ \A d \in Dirs : holder[d] # Nobody => damage[d] = "none"
  /\ \A p \in Procs :
       /\ (call[p].pc = "idle" <=> call[p].ret = "none")
       /\ call[p].pc # "idle" => call[p].key \in Keys
       /\ call[p].pc \in {"count", "copy"} => call[p].dir # NoDir /\ holder[call[p].dir] = p
       /\ call[p].pc \notin {"idle", "use"} => cached[p] = NoDir
       /\ cached[p] # NoDir /\ ~closed[p] => holder[cached[p]] = p
       /\ call[p].pc = "use" /\ ~call[p].closed =>
            cached[p] # NoDir /\ call[p].dir = cached[p] /\ ~closed[p]
       /\ Rewrites(p) \/ closed[p] \/ call[p].ret = "failed" => rewrites > 0
       /\ call[p].pc = "after" => call[p].aside \in corrupt
  /\ \A p, q \in Procs : p # q /\ call[p].pc = "after" /\ call[q].pc = "after" =>
       call[p].aside # call[q].aside
  /\ bak # NoDir => rewrites > 0

(* Without an intruder: only the live directory is held, by nobody while     *)
(* another one replaces it, and who rewrites it does so alone.              *)
ReplacingIsKnown ==
  /\ \A d \in Dirs : holder[d] # Nobody => d = live
  /\ \A p \in Procs :
       /\ Replacing(p) /\ live # NoDir => holder[live] \in {Nobody, p}
       /\ Recovers(p) \/ call[p].pc \in {"rmbak", "move", "clear"} =>
            live = NoDir \/ holder[live] = Nobody
       /\ Rewrites(p) => /\ \A q \in Procs \ {p} : ~Replacing(q)
                         /\ live # NoDir => damage[live] = "none"
RewriteIsKnown ==
  \A p \in Procs :
    /\ call[p].ret = "get" => call[p].pc \notin {"copy", "clear", "restore"}
    /\ call[p].ret = "fresh" => call[p].pc \in {"open", "recover", "reopen", "quarantine",
                                               "copy", "clear", "restore", "use"}
    /\ call[p].ret \in {"moved", "restored"} => call[p].pc \in {"open", "recover", "reopen",
                                                    "quarantine", "after", "use"}
    /\ call[p].ret = "failed" => call[p].pc \in {"clear", "restore", "use"}
    /\ call[p].pc \in {"rmbak", "move"} =>
         live # NoDir /\ live = call[p].dir /\ call[p].pairs = rows[live]
    /\ call[p].pc = "move" => bak = NoDir
    /\ call[p].pc \in {"open", "recover", "reopen", "quarantine"} /\ call[p].ret = "fresh" =>
         live = NoDir /\ call[p].pairs = rows[bak]
    /\ call[p].pc = "copy" => live = call[p].dir /\ rows[live] \cup call[p].pairs = rows[bak]
    /\ call[p].pc = "restore" => live = NoDir
    /\ HasBak(p) => bak # NoDir /\ damage[bak] = "none"
    /\ call[p].ret \in {"moved", "restored", "failed"} \/ closed[p] => faults > 0
    /\ call[p].pc \in {"clear", "restore"} => faults > 0
    /\ call[p].ret = "fresh" /\ call[p].pc \in {"recover", "reopen", "quarantine"} => faults > 0
(* One process at a time has put a directory out of the way, and nobody has *)
(* made another one.                                                        *)
RecoveryIsKnown ==
  \A p \in Procs : call[p].pc = "after" =>
    /\ live = NoDir
    /\ Rewrites(p) => damage[call[p].aside] = "none"
    /\ \A q \in Procs \ {p} : call[q].pc # "after"

(* The rows that are not destroyed are in a directory that has a name, in   *)
(* the one put aside while there is one; and no directory that is, or will  *)
(* be, the table holds a row that was deleted.                              *)
InCorrupt(k) == \E d \in corrupt : k \in rows[d]
RowsAreKnown ==
  /\ \A k \in acked \ destroyed :
       (live # NoDir /\ k \in rows[live]) \/ (bak # NoDir /\ k \in rows[bak]) \/ InCorrupt(k)
  /\ live # NoDir => rows[live] \ destroyed \subseteq acked
  /\ \A p \in Procs : HasBak(p) =>
       /\ \A k \in acked \ destroyed : k \in rows[bak] \/ InCorrupt(k)
       /\ rows[bak] \ destroyed \subseteq acked
  /\ \A p \in Procs : call[p].pc = "after" => rows[call[p].aside] \ destroyed \subseteq acked

Undisputed == ReplacingIsKnown /\ RewriteIsKnown /\ RecoveryIsKnown /\ RowsAreKnown
StoreInv == /\ StoreTypeOK /\ HandlesAreKnown /\ (stolen # {} => intruded)
            /\ ~intruded => Undisputed

(***************************************************************************)
(* What it says, that it holds at first, and facts about who is where       *)
(***************************************************************************)
(* The constants, as the provers want them.                                 *)
LEMMA StoreIsCounted ==
  /\ Dirs \subseteq Nat \ {0} /\ 1 \in Dirs
  /\ NoDir \notin Dirs /\ NoDir = 0 /\ Nobody \notin Procs
  /\ Attempts \in Nat \ {0} /\ {MaxCalls, MaxCrashes, MaxFaults, MaxBloats} \subseteq Nat
BY StoreAssumption DEF NoDir

(* The fields of a call by their types.                                     *)
LEMMA CallTypes ==
  \A c \in CallRecord : c.dir \in Dirs \cup {NoDir} /\ c.pairs \subseteq Keys
                      /\ c.ret \in {"none", "get", "fresh", "moved", "restored", "failed"}
BY DEF CallRecord

(* The types that the steps below need of StoreInv.                         *)
LEMMA StoreTyped ==
  StoreInv => /\ call \in [Procs -> CallRecord] /\ cached \in [Procs -> Dirs \cup {NoDir}]
              /\ closed \in [Procs -> BOOLEAN]
              /\ \A p \in Procs :
                   call[p].dir \in Dirs \cup {NoDir} /\ call[p].pairs \subseteq Keys
BY DEF StoreInv, StoreTypeOK, StTypeOK

(* The invariant is strong enough.                                          *)
LEMMA StoreInvImplies == StoreInv => TablesAreKept
<1> SUFFICES ASSUME StoreInv PROVE TablesAreKept
  OBVIOUS
<1>1. StTypeOK
  BY DEF StoreInv, StoreTypeOK
<1>2. StealNeedsARace
  BY DEF StoreInv, StealNeedsARace
<1>3. LiveMatches
  <2> SUFFICES ASSUME live # NoDir, ~intruded
               PROVE  /\ rows[live] \ destroyed \subseteq acked
                      /\ acked \ (destroyed \cup PutAside) \subseteq rows[live]
    BY DEF LiveMatches
  <2>1. ASSUME NEW k \in acked \ (destroyed \cup PutAside) PROVE k \in rows[live]
    <3>1. NoDir \notin corrupt
      BY StoreIsCounted DEF StoreInv, StoreTypeOK, StTypeOK
    <3>2. \A d \in corrupt \cup {bak} : d # NoDir => k \notin rows[d]
      BY <2>1 DEF PutAside, RowsOf
    <3> QED BY <2>1, <3>1, <3>2 DEF StoreInv, Undisputed, RowsAreKnown, InCorrupt
  <2> QED BY <2>1 DEF StoreInv, Undisputed, RowsAreKnown
<1>4. RowsSomewhere
  <2> SUFFICES ASSUME ~intruded, NEW k \in acked \ destroyed
               PROVE  k \in RowsOf({live, bak} \cup corrupt)
    BY DEF RowsSomewhere
  <2>1. NoDir \notin corrupt
    BY StoreIsCounted DEF StoreInv, StoreTypeOK, StTypeOK
  <2> QED BY <2>1 DEF StoreInv, Undisputed, RowsAreKnown, InCorrupt, RowsOf
<1>5. HandleIsOpen
  <2> SUFFICES ASSUME ~intruded, NEW p \in Procs, cached[p] # NoDir
               PROVE  IF closed[p] THEN faults > 0 /\ rewrites > 0 ELSE holder[cached[p]] = p
    BY DEF HandleIsOpen
  <2> QED BY DEF StoreInv, HandlesAreKnown, Undisputed, RewriteIsKnown
<1> QED BY <1>1, <1>2, <1>3, <1>4, <1>5 DEF TablesAreKept

(* The table is missing or whole, nobody has it open, and nothing happens.  *)
LEMMA StoreInitInv == PartsInit => StoreInv
<1> SUFFICES ASSUME Init PROVE StoreInv
  BY DEF PartsInit
<1> USE StoreIsCounted
<1>1. /\ live \in {NoDir, 1} /\ live \in Dirs \cup {NoDir} /\ bak = NoDir /\ corrupt = {}
      /\ rows = [d \in Dirs |-> IF d = live THEN Keys ELSE {}]
      /\ damage = [d \in Dirs |-> "none"] /\ bloated = {} /\ holder = [d \in Dirs |-> Nobody]
      /\ cached = [p \in Procs |-> NoDir] /\ closed = [p \in Procs |-> FALSE]
      /\ destroyed = {} /\ stolen = {} /\ intruded = FALSE
      /\ crashes = 0 /\ faults = 0 /\ rewrites = 0
  BY DEF Init
<1>2. /\ call = [p \in Procs |-> Idle] /\ Idle \in CallRecord
      /\ \A p \in Procs : call[p].pc = "idle" /\ call[p].ret = "none" /\ call[p].dir = NoDir
                          /\ call[p].pairs = {}
  BY DEF Init, Idle, CallRecord, CallPcs
<1>3. acked = (IF live = NoDir THEN {} ELSE Keys)
  BY DEF Init
<1>4. StoreTypeOK
  BY <1>1, <1>2, <1>3 DEF StoreTypeOK, StTypeOK
<1>5. HandlesAreKnown
  BY <1>1, <1>2 DEF HandlesAreKnown, Rewrites
<1>6. ReplacingIsKnown /\ RewriteIsKnown /\ RecoveryIsKnown
  BY <1>1, <1>2 DEF ReplacingIsKnown, RewriteIsKnown, RecoveryIsKnown, Replacing, Rewrites,
     Recovers, HasBak
<1>7. RowsAreKnown
  BY <1>1, <1>2, <1>3 DEF RowsAreKnown, InCorrupt, HasBak
<1> QED BY <1>1, <1>4, <1>5, <1>6, <1>7 DEF StoreInv, Undisputed

(* Only a directory can be taken away.                                      *)
LEMMA TakesADir ==
  ASSUME StoreInv, NEW p \in Procs
  PROVE  Takes(p, live) \cup Takes(p, bak) \subseteq Dirs
BY DEF StoreInv, StoreTypeOK, StTypeOK, Takes

(* Without an intruder, who holds a directory is alone with the live one.    *)
LEMMA HolderIsAlone ==
  ASSUME StoreInv, ~intruded, NEW p \in Procs, NEW d \in Dirs, holder[d] = p
  PROVE  /\ d = live /\ live # NoDir /\ damage[live] = "none"
         /\ \A q \in Procs \ {p} : ~Replacing(q) /\ ~HasBak(q) /\ ~Recovers(q) /\ ~Rewrites(q)
<1>1. p # Nobody /\ NoDir \notin Dirs
  BY StoreIsCounted
<1>2. d = live /\ live # NoDir /\ damage[live] = "none"
  BY <1>1 DEF StoreInv, HandlesAreKnown, Undisputed, ReplacingIsKnown
<1>3. \A q \in Procs \ {p} : ~Replacing(q)
  BY <1>1, <1>2 DEF StoreInv, Undisputed, ReplacingIsKnown
<1> QED BY <1>2, <1>3 DEF Replacing, HasBak, Recovers, Rewrites

(* Without an intruder, the place of a call tells what it opens for.        *)
LEMMA CopierIsKnown ==
  ASSUME StoreInv, ~intruded, NEW p \in Procs
  PROVE  /\ call[p].pc = "copy" => call[p].ret = "fresh" /\ HasBak(p)
         /\ call[p].pc = "count" => call[p].ret = "get"
         /\ call[p].pc = "after" => call[p].ret \in {"get", "moved", "restored"}
         /\ call[p].pc \in {"open", "recover", "reopen", "quarantine"} =>
              call[p].ret \in {"get", "fresh", "moved", "restored"}
         /\ call[p].pc \in {"clear", "restore"} => call[p].ret \in {"failed", "fresh"}
<1>1. call[p].ret \in {"none", "get", "fresh", "moved", "restored", "failed"}
  BY DEF StoreInv, StoreTypeOK, CallRecord
<1> QED BY <1>1 DEF StoreInv, HandlesAreKnown, Undisputed, RewriteIsKnown, HasBak

(* A process intrudes when another one replaces the directory.              *)
LEMMA IntrudesSays ==
  ASSUME NEW p \in Procs, Intrudes(p)
  PROVE  /\ intruded' \in BOOLEAN /\ (intruded => intruded')
         /\ ~intruded' => ~intruded /\ \A q \in Procs \ {p} : ~Replacing(q)
BY Zenon DEF Intrudes

(* A directory that is made is one that nobody knew.                        *)
LEMMA UnusedIsFree ==
  ASSUME StoreInv, Unused # {}, NEW d, d = CHOOSE e \in Unused : TRUE
  PROVE  /\ d \in Dirs /\ d # live /\ d # bak
         /\ d \notin corrupt /\ d # NoDir /\ holder[d] = Nobody
         /\ \A q \in Procs : d # cached[q] /\ d # call[q].dir
<1>1. d \in Unused
  OBVIOUS
<1> QED BY <1>1, StoreIsCounted DEF Unused, Named

(***************************************************************************)
(* What the steps do to the calls and to the handles                        *)
(***************************************************************************)
(* What an action of p leaves of the calls: those of others, and the         *)
(* fields of its own that it does not name.                                 *)
Others(p) == call' \in [Procs -> CallRecord] /\ \A q \in Procs \ {p} : call'[q] = call[q]
SameDetails(p) == /\ call'[p].aside = call[p].aside /\ call'[p].pairs = call[p].pairs
                  /\ call'[p].ret = call[p].ret /\ call'[p].key = call[p].key

(* What an action of p leaves of the handles: those of others; and, when it  *)
(* puts a handle to the old directory back, what p has then: a closed one.  *)
OtherHandles(p) ==
  /\ cached' \in [Procs -> Dirs \cup {NoDir}] /\ closed' \in [Procs -> BOOLEAN]
  /\ \A q \in Procs \ {p} : cached'[q] = cached[q] /\ closed'[q] = closed[q]
SameHandle(p) ==
  call'[p].closed = call[p].closed /\ cached'[p] = cached[p] /\ closed'[p] = closed[p]
ServesClosed(p) ==
  /\ call'[p].pc = "use" /\ call'[p].dir = call[p].dir /\ SameDetails(p)
  /\ call'[p].closed = TRUE /\ cached'[p] = call[p].dir /\ closed'[p] = TRUE

(* How an open goes on that returned no handle, and one that returned d.     *)
NotOpenedSays(p) ==
  /\ Others(p) /\ OtherHandles(p)
  /\ call[p].ret = "get" => /\ call'[p].pc = "idle" /\ call'[p].ret = "none"
                            /\ cached'[p] = cached[p] /\ closed'[p] = closed[p]
  /\ call[p].ret = "fresh" => /\ call'[p].pc = "clear" /\ call'[p].dir = call[p].dir
                              /\ SameDetails(p) /\ SameHandle(p)
  /\ call[p].ret \notin {"get", "fresh"} => ServesClosed(p)
OpenedSays(p, d) ==
  /\ Others(p) /\ OtherHandles(p) /\ SameDetails(p)
  /\ call[p].ret \in {"get", "fresh"} =>
       /\ call'[p].pc = IF call[p].ret = "get" THEN "count" ELSE "copy"
       /\ call'[p].dir = d /\ SameHandle(p)
  /\ call[p].ret \notin {"get", "fresh"} => ServesClosed(p)

(* To replace the call of p leaves the other calls.                         *)
LEMMA CallUpdates ==
  ASSUME call \in [Procs -> CallRecord], NEW p \in Procs, NEW r \in CallRecord,
         call' = [call EXCEPT ![p] = r]
  PROVE  Others(p) /\ call'[p] = r
BY DEF Others

(* A call that goes to another place changes nothing else.                  *)
LEMMA ToMoves ==
  ASSUME call \in [Procs -> CallRecord], NEW p \in Procs, NEW a \in CallPcs, To(p, a)
  PROVE  /\ Others(p) /\ SameDetails(p)
         /\ call'[p].pc = a /\ call'[p].dir = call[p].dir /\ call'[p].closed = call[p].closed
<1>1. [call[p] EXCEPT !.pc = a] \in CallRecord
  BY DEF CallRecord
<1>2. call' = [call EXCEPT ![p] = [call[p] EXCEPT !.pc = a]]
  BY DEF To
<1>3. Others(p) /\ call'[p] = [call[p] EXCEPT !.pc = a]
  BY <1>1, <1>2, CallUpdates
<1> QED BY <1>3 DEF SameDetails, CallRecord

(* A call that serves a handle caches it and goes to its use.               *)
LEMMA ServeMoves ==
  ASSUME call \in [Procs -> CallRecord], cached \in [Procs -> Dirs \cup {NoDir}],
         closed \in [Procs -> BOOLEAN],
         NEW p \in Procs, NEW d \in Dirs \cup {NoDir}, NEW shut \in BOOLEAN, Serve(p, d, shut)
  PROVE  /\ Others(p) /\ SameDetails(p)
         /\ call'[p].pc = "use" /\ call'[p].dir = d /\ call'[p].closed = shut
         /\ cached' \in [Procs -> Dirs \cup {NoDir}] /\ closed' \in [Procs -> BOOLEAN]
         /\ cached'[p] = d /\ closed'[p] = shut
         /\ \A q \in Procs \ {p} : cached'[q] = cached[q] /\ closed'[q] = closed[q]
<1> DEFINE r == [call[p] EXCEPT !.pc = "use", !.dir = d, !.closed = shut]
<1>1. call[p] \in CallRecord
  OBVIOUS
<1>2. r \in CallRecord
  BY <1>1 DEF CallRecord, CallPcs
<1>3. call' = [call EXCEPT ![p] = r]
  BY DEF Serve
<1>4. Others(p) /\ call'[p] = r
  BY <1>2, <1>3, CallUpdates
<1>5. SameDetails(p) /\ call'[p].pc = "use" /\ call'[p].dir = d /\ call'[p].closed = shut
  BY <1>4, <1>1 DEF SameDetails, CallRecord
<1> QED BY <1>4, <1>5 DEF Serve

(* A call that starts to open forgets the tries of the last time.           *)
LEMMA StartMoves ==
  ASSUME call \in [Procs -> CallRecord], NEW p \in Procs,
         NEW ret \in {"fresh", "moved", "restored"}, StartOpen(p, ret)
  PROVE  /\ Others(p) /\ call'[p].pc = "open" /\ call'[p].ret = ret
         /\ call'[p].dir = call[p].dir /\ call'[p].closed = call[p].closed
         /\ call'[p].aside = call[p].aside
         /\ call'[p].pairs = call[p].pairs /\ call'[p].key = call[p].key
<1> DEFINE r == [call[p] EXCEPT !.pc = "open", !.tries = 0, !.ret = ret]
<1>1. call[p] \in CallRecord
  OBVIOUS
<1>2. r \in CallRecord
  BY <1>1 DEF CallRecord, CallPcs
<1>3. call' = [call EXCEPT ![p] = r]
  BY DEF StartOpen
<1>4. Others(p) /\ call'[p] = r
  BY <1>2, <1>3, CallUpdates
<1> QED BY <1>1, <1>4 DEF CallRecord

(* A call that returns is idle.                                             *)
LEMMA ReturnMoves ==
  ASSUME call \in [Procs -> CallRecord], NEW p \in Procs, Return(p)
  PROVE  Others(p) /\ call'[p] = Idle /\ call'[p].pc = "idle" /\ call'[p].ret = "none"
<1>1. Idle \in CallRecord
  BY DEF Idle, CallRecord, CallPcs
<1> QED BY <1>1, CallUpdates DEF Return, Idle

(* A call that has read the rows of a directory remembers them, no more.    *)
LEMMA PairsMove ==
  ASSUME call \in [Procs -> CallRecord], NEW p \in Procs, NEW ks \in SUBSET Keys,
         call' = [call EXCEPT ![p].pairs = ks]
  PROVE  /\ Others(p) /\ call'[p].pc = call[p].pc /\ call'[p].pairs = ks
         /\ call'[p].ret = call[p].ret /\ call'[p].dir = call[p].dir
         /\ call'[p].closed = call[p].closed
         /\ call'[p].aside = call[p].aside /\ call'[p].key = call[p].key
<1>1. call[p] \in CallRecord /\ [call[p] EXCEPT !.pairs = ks] \in CallRecord
  BY DEF CallRecord
<1>2. Others(p) /\ call'[p] = [call[p] EXCEPT !.pairs = ks]
  BY <1>1, CallUpdates
<1> QED BY <1>1, <1>2 DEF CallRecord

(* A call that fails in the middle remembers that it did.                   *)
LEMMA FailMoves ==
  ASSUME call \in [Procs -> CallRecord], NEW p \in Procs, NEW a \in CallPcs,
         call' = [call EXCEPT ![p].pc = a, ![p].ret = "failed"]
  PROVE  /\ Others(p) /\ call'[p].pc = a /\ call'[p].ret = "failed"
         /\ call'[p].aside = call[p].aside /\ call'[p].pairs = call[p].pairs
         /\ call'[p].key = call[p].key /\ call'[p].dir = call[p].dir
         /\ call'[p].closed = call[p].closed
<1>1. call[p] \in CallRecord /\ [call[p] EXCEPT !.pc = a, !.ret = "failed"] \in CallRecord
  BY DEF CallRecord
<1>2. Others(p) /\ call'[p] = [call[p] EXCEPT !.pc = a, !.ret = "failed"]
  BY <1>1, CallUpdates
<1> QED BY <1>1, <1>2 DEF CallRecord

(* A try is counted.                                                        *)
LEMMA TryMoves ==
  ASSUME call \in [Procs -> CallRecord], NEW p \in Procs,
         call' = [call EXCEPT ![p].tries = @ + 1]
  PROVE  /\ Others(p) /\ call'[p].pc = call[p].pc /\ call'[p].ret = call[p].ret
         /\ call'[p].aside = call[p].aside /\ call'[p].pairs = call[p].pairs
         /\ call'[p].key = call[p].key /\ call'[p].dir = call[p].dir
         /\ call'[p].closed = call[p].closed
<1>1. call[p] \in CallRecord /\ [call[p] EXCEPT !.tries = @ + 1] \in CallRecord
  BY DEF CallRecord
<1>2. Others(p) /\ call'[p] = [call[p] EXCEPT !.tries = @ + 1]
  BY <1>1, CallUpdates
<1> QED BY <1>1, <1>2 DEF CallRecord

(* A call remembers that it has closed the handle.                          *)
LEMMA CloseMoves ==
  ASSUME call \in [Procs -> CallRecord], NEW p \in Procs,
         call' = [call EXCEPT ![p].closed = TRUE]
  PROVE  /\ Others(p) /\ call'[p].pc = call[p].pc /\ call'[p].ret = call[p].ret
         /\ call'[p].aside = call[p].aside /\ call'[p].pairs = call[p].pairs
         /\ call'[p].key = call[p].key /\ call'[p].dir = call[p].dir /\ call'[p].closed = TRUE
<1>1. call[p] \in CallRecord /\ [call[p] EXCEPT !.closed = TRUE] \in CallRecord
  BY DEF CallRecord
<1>2. Others(p) /\ call'[p] = [call[p] EXCEPT !.closed = TRUE]
  BY <1>1, CallUpdates
<1> QED BY <1>1, <1>2 DEF CallRecord

(* What a call that opens nothing becomes.                                  *)
LEMMA NotOpenedMoves ==
  ASSUME call \in [Procs -> CallRecord], cached \in [Procs -> Dirs \cup {NoDir}],
         closed \in [Procs -> BOOLEAN], NEW p \in Procs, NotOpened(p)
  PROVE  NotOpenedSays(p)
<1> USE DEF NotOpenedSays, OtherHandles, SameHandle, ServesClosed
<1>1. CASE call[p].ret = "get"
  BY <1>1, ReturnMoves DEF NotOpened
<1>2. CASE call[p].ret = "fresh"
  BY <1>2, ToMoves DEF NotOpened, CallPcs
<1>3. CASE call[p].ret \notin {"get", "fresh"}
  <2>1. call[p].dir \in Dirs \cup {NoDir} /\ Serve(p, call[p].dir, TRUE)
    BY <1>3 DEF NotOpened, CallRecord
  <2> QED BY <1>3, <2>1, ServeMoves
<1> QED BY <1>1, <1>2, <1>3

(* A handle that opens is served from the directory that it holds.          *)
LEMMA OpenedMoves ==
  ASSUME call \in [Procs -> CallRecord], cached \in [Procs -> Dirs \cup {NoDir}],
         closed \in [Procs -> BOOLEAN], NEW p \in Procs, NEW d \in Dirs, Opened(p, d)
  PROVE  OpenedSays(p, d)
<1> USE DEF OpenedSays, OtherHandles, SameHandle, ServesClosed
<1>1. ASSUME NEW a \in {"count", "copy"}, call' = [call EXCEPT ![p].pc = a, ![p].dir = d]
      PROVE  /\ Others(p) /\ SameDetails(p) /\ call'[p].pc = a /\ call'[p].dir = d
             /\ call'[p].closed = call[p].closed
  <2>1. call[p] \in CallRecord
    OBVIOUS
  <2>2. [call[p] EXCEPT !.pc = a, !.dir = d] \in CallRecord
    BY <2>1 DEF CallRecord, CallPcs
  <2>3. Others(p) /\ call'[p] = [call[p] EXCEPT !.pc = a, !.dir = d]
    BY <1>1, <2>2, CallUpdates
  <2> QED BY <2>3, <2>1 DEF CallRecord, SameDetails
<1>2. CASE call[p].ret = "get"
  BY <1>1, <1>2 DEF Opened
<1>3. CASE call[p].ret = "fresh"
  BY <1>1, <1>3 DEF Opened
<1>4. CASE call[p].ret \notin {"get", "fresh"}
  <2>1. call[p].dir \in Dirs \cup {NoDir} /\ Serve(p, call[p].dir, TRUE)
    BY <1>4 DEF Opened, CallRecord
  <2> QED BY <1>4, <2>1, ServeMoves
<1> QED BY <1>2, <1>3, <1>4

(***************************************************************************)
(* openGoLevelDB                                                            *)
(***************************************************************************)
(* The library makes the directory: the table is empty, and is one that was *)
(* missing, which an empty one matches, or one that is put aside.           *)
LEMMA CreatesKeeps ==
  ASSUME StoreInv, NEW p \in Procs, call[p].pc \in {"open", "reopen", "after"}, Creates(p),
         UNCHANGED <<acked, destroyed, stolen, bounds>>
  PROVE  StoreInv'
<1> USE StoreIsCounted
<1>1. PICK d \in Dirs :
        /\ d # live /\ d # bak /\ d \notin corrupt /\ d # NoDir /\ holder[d] = Nobody
        /\ \A q \in Procs : d # cached[q] /\ d # call[q].dir
        /\ live = NoDir /\ live' = d
        /\ rows' = [rows EXCEPT ![d] = {}] /\ damage' = [damage EXCEPT ![d] = "none"]
        /\ bloated' = bloated \ {d} /\ holder' = [holder EXCEPT ![d] = p] /\ Opened(p, d)
  <2> DEFINE d == CHOOSE e \in Unused : TRUE
  <2>1. /\ live = NoDir /\ live' = d /\ rows' = [rows EXCEPT ![d] = {}]
        /\ damage' = [damage EXCEPT ![d] = "none"] /\ bloated' = bloated \ {d}
        /\ holder' = [holder EXCEPT ![d] = p] /\ Opened(p, d) /\ Unused # {}
    BY DEF Creates
  <2> HIDE DEF d
  <2>2. d = CHOOSE e \in Unused : TRUE
    BY DEF d
  <2> QED BY <2>1, <2>2, UnusedIsFree
<1>2. /\ intruded' \in BOOLEAN /\ (intruded => intruded')
      /\ ~intruded' => ~intruded /\ \A q \in Procs \ {p} : ~Replacing(q)
      /\ UNCHANGED <<bak, corrupt, acked, destroyed, stolen, crashes, faults, rewrites>>
  BY IntrudesSays DEF Creates, bounds
<1>3. OpenedSays(p, live')
  <2>1. /\ call \in [Procs -> CallRecord] /\ cached \in [Procs -> Dirs \cup {NoDir}]
        /\ closed \in [Procs -> BOOLEAN] /\ Opened(p, live') /\ live' \in Dirs
    BY <1>1 DEF StoreInv, StoreTypeOK, StTypeOK
  <2> QED BY <2>1, OpenedMoves
<1>4. /\ rows' \in [Dirs -> SUBSET Keys] /\ damage' \in [Dirs -> {"none", "journal", "lost"}]
      /\ holder' \in [Dirs -> Procs \cup {Nobody}] /\ bloated' \subseteq Dirs
      /\ rows'[d] = {} /\ damage'[d] = "none" /\ holder'[d] = p
      /\ \A e \in Dirs \ {d} :
           rows'[e] = rows[e] /\ damage'[e] = damage[e] /\ holder'[e] = holder[e]
  BY <1>1 DEF StoreInv, StoreTypeOK, StTypeOK
<1>5. call[p].ret # "get" /\ call[p].ret # "fresh" => rewrites > 0
  BY CallTypes DEF StoreInv, StoreTypeOK, HandlesAreKnown, Rewrites
<1>6. ~intruded => /\ call[p].ret \in {"get", "fresh", "moved", "restored"}
                   /\ call[p].ret = "fresh" => HasBak(p)
  BY <1>1, CopierIsKnown DEF StoreInv, Undisputed, RewriteIsKnown, HasBak
<1> USE DEF StoreInv, StoreTypeOK, Undisputed, Others, SameDetails, OpenedSays,
   OtherHandles, SameHandle, ServesClosed
<1>7. StoreTypeOK'
  BY <1>1, <1>2, <1>3, <1>4, <1>5, <1>6, CallTypes DEF StTypeOK, Takes
<1>8. HandlesAreKnown'
  BY <1>1, <1>2, <1>3, <1>4, <1>5, <1>6 DEF HandlesAreKnown, Rewrites
<1>9. stolen' # {} => intruded'
  BY <1>1, <1>2, <1>3, <1>4, <1>5, <1>6
<1>10. ASSUME ~intruded' PROVE ReplacingIsKnown'
  BY <1>1, <1>2, <1>3, <1>4, <1>5, <1>6, <1>10 DEF ReplacingIsKnown, Replacing, Recovers,
     Rewrites
<1>11. ASSUME ~intruded' PROVE RewriteIsKnown'
  BY <1>1, <1>2, <1>3, <1>4, <1>5, <1>6, <1>11 DEF ReplacingIsKnown, RewriteIsKnown,
     Replacing, Rewrites, HasBak
<1>12. ASSUME ~intruded' PROVE RecoveryIsKnown'
  BY <1>1, <1>2, <1>3, <1>4, <1>5, <1>6, <1>12 DEF ReplacingIsKnown, RecoveryIsKnown,
     Replacing, Recovers, Rewrites
<1>13. ASSUME ~intruded' PROVE RowsAreKnown'
  BY <1>1, <1>2, <1>3, <1>4, <1>5, <1>6, <1>13 DEF RowsAreKnown, InCorrupt, HasBak
<1> QED BY <1>7, <1>8, <1>9, <1>10, <1>11, <1>12, <1>13

(* The library locks the directory that is there.                           *)
LEMMA LocksKeeps ==
  ASSUME StoreInv, NEW p \in Procs, call[p].pc \in {"open", "reopen", "after"}, Locks(p),
         UNCHANGED <<acked, destroyed, stolen, bounds>>
  PROVE  StoreInv'
<1> USE StoreIsCounted
<1>1. /\ live # NoDir /\ holder[live] = Nobody /\ damage[live] = "none"
      /\ holder' = [holder EXCEPT ![live] = p] /\ live \in Dirs
      /\ UNCHANGED <<live, bak, corrupt, rows, damage, bloated, acked, destroyed, stolen,
                     crashes, faults, rewrites>>
  BY DEF Locks, bounds, StoreInv, StoreTypeOK, StTypeOK
<1>2. /\ intruded' \in BOOLEAN /\ (intruded => intruded')
      /\ ~intruded' => ~intruded /\ \A q \in Procs \ {p} : ~Replacing(q)
  BY IntrudesSays DEF Locks
<1>3. OpenedSays(p, live')
  <2>1. /\ call \in [Procs -> CallRecord] /\ cached \in [Procs -> Dirs \cup {NoDir}]
        /\ closed \in [Procs -> BOOLEAN] /\ Opened(p, live') /\ live' \in Dirs
    BY <1>1 DEF StoreInv, StoreTypeOK, StTypeOK, Locks
  <2> QED BY <2>1, OpenedMoves
<1>4. /\ holder' \in [Dirs -> Procs \cup {Nobody}] /\ holder'[live] = p
      /\ \A e \in Dirs \ {live} : holder'[e] = holder[e]
  BY <1>1 DEF StoreInv, StoreTypeOK, StTypeOK
<1>5. call[p].ret # "get" => rewrites > 0
  BY CallTypes DEF StoreInv, StoreTypeOK, HandlesAreKnown, Rewrites
<1>6. ~intruded => call[p].ret \in {"get", "moved", "restored"} /\ call[p].pc # "after"
  BY <1>1, CopierIsKnown DEF StoreInv, Undisputed, RewriteIsKnown, RecoveryIsKnown
<1> USE DEF StoreInv, StoreTypeOK, Undisputed, Others, SameDetails, OpenedSays,
   OtherHandles, SameHandle, ServesClosed
<1>7. StoreTypeOK'
  BY <1>1, <1>2, <1>3, <1>4, <1>5, <1>6, CallTypes DEF StTypeOK, Takes
<1>8. HandlesAreKnown'
  BY <1>1, <1>2, <1>3, <1>4, <1>5, <1>6 DEF HandlesAreKnown, Rewrites
<1>9. stolen' # {} => intruded'
  BY <1>1, <1>2, <1>3, <1>4, <1>5, <1>6
<1>10. ASSUME ~intruded' PROVE ReplacingIsKnown'
  BY <1>1, <1>2, <1>3, <1>4, <1>5, <1>6, <1>10 DEF ReplacingIsKnown, Replacing, Recovers,
     Rewrites
<1>11. ASSUME ~intruded' PROVE RewriteIsKnown'
  BY <1>1, <1>2, <1>3, <1>4, <1>5, <1>6, <1>11 DEF RewriteIsKnown, HasBak
<1>12. ASSUME ~intruded' PROVE RecoveryIsKnown'
  BY <1>1, <1>2, <1>3, <1>4, <1>5, <1>6, <1>12 DEF RecoveryIsKnown, Rewrites
<1>13. ASSUME ~intruded' PROVE RowsAreKnown'
  BY <1>1, <1>2, <1>3, <1>4, <1>5, <1>6, <1>13 DEF RowsAreKnown, InCorrupt, HasBak
<1> QED BY <1>7, <1>8, <1>9, <1>10, <1>11, <1>12, <1>13

\* An open that succeeds, the one after a quarantine included, keeps StoreInv.
LEMMA OpenSucceedsKeeps ==
  ASSUME StoreInv, NEW p \in Procs, OpenSucceeds(p) \/ OpenAfterQuarantine(p)
  PROVE  StoreInv'
BY CreatesKeeps, LocksKeeps DEF OpenSucceeds, OpenAfterQuarantine, At

(* An open that finds the table locked keeps StoreInv.                      *)
LEMMA OpenConflictKeeps ==
  ASSUME StoreInv, NEW p \in Procs, OpenConflict(p)
  PROVE  StoreInv'
<1> USE StoreIsCounted
<1>1. /\ call[p].pc = "open" /\ live # NoDir /\ holder[live] # Nobody /\ NotOpened(p)
      /\ UNCHANGED <<live, bak, corrupt, rows, damage, bloated, holder, acked, destroyed,
                     stolen, intruded, crashes, faults, bloats, rewrites>>
  BY DEF OpenConflict, At, IsLockConflict, Busy, dirs, ghosts, bounds
<1>2. NotOpenedSays(p)
  <2>1. /\ call \in [Procs -> CallRecord] /\ cached \in [Procs -> Dirs \cup {NoDir}]
        /\ closed \in [Procs -> BOOLEAN]
    BY StoreTyped
  <2> QED BY <1>1, <2>1, NotOpenedMoves
<1>3. call[p].ret # "get" => rewrites > 0
  BY <1>1, CallTypes DEF StoreInv, StoreTypeOK, HandlesAreKnown, Rewrites
<1>4. ~intruded => call[p].ret \in {"get", "moved", "restored"}
  BY <1>1, CopierIsKnown DEF StoreInv, Undisputed, RewriteIsKnown
<1> USE DEF StoreInv, StoreTypeOK, Undisputed, Others, SameDetails, NotOpenedSays,
   OtherHandles, SameHandle, ServesClosed
<1>5. StoreTypeOK'
  BY <1>1, <1>2, <1>3, <1>4, CallTypes DEF StTypeOK, Takes
<1>6. HandlesAreKnown'
  BY <1>1, <1>2, <1>3, <1>4 DEF HandlesAreKnown, Rewrites
<1>7. stolen' # {} => intruded'
  BY <1>1, <1>2, <1>3, <1>4
<1>8. ASSUME ~intruded' PROVE ReplacingIsKnown'
  BY <1>1, <1>2, <1>3, <1>4, <1>8 DEF ReplacingIsKnown, Replacing, Recovers, Rewrites
<1>9. ASSUME ~intruded' PROVE RewriteIsKnown'
  BY <1>1, <1>2, <1>3, <1>4, <1>9 DEF RewriteIsKnown, HasBak
<1>10. ASSUME ~intruded' PROVE RecoveryIsKnown'
  BY <1>1, <1>2, <1>3, <1>4, <1>10 DEF RecoveryIsKnown, Rewrites
<1>11. ASSUME ~intruded' PROVE RowsAreKnown'
  BY <1>1, <1>2, <1>3, <1>4, <1>11 DEF RowsAreKnown, InCorrupt, HasBak
<1> QED BY <1>5, <1>6, <1>7, <1>8, <1>9, <1>10, <1>11

(* An open that finds the table damaged keeps StoreInv.                     *)
LEMMA OpenFailsKeeps ==
  ASSUME StoreInv, NEW p \in Procs, OpenFails(p)
  PROVE  StoreInv'
<1> USE StoreIsCounted
<1>1. /\ call[p].pc = "open" /\ live # NoDir /\ holder[live] = Nobody /\ damage[live] # "none"
      /\ UNCHANGED <<live, bak, corrupt, rows, damage, bloated, holder, cached, closed,
                     acked, destroyed, stolen, intruded, crashes, faults, bloats, rewrites>>
  BY DEF OpenFails, At, Broken, Busy, IsLockConflict, dirs, ghosts, bounds
<1>2. /\ Others(p) /\ SameDetails(p) /\ call'[p].pc \in {"open", "recover"}
      /\ call'[p].dir = call[p].dir /\ call'[p].closed = call[p].closed
  <2>1. CASE call' = [call EXCEPT ![p].tries = @ + 1]
    BY <1>1, <2>1, TryMoves, StoreTyped DEF SameDetails, CallPcs
  <2>2. CASE To(p, "recover")
    BY <2>2, ToMoves, StoreTyped DEF CallPcs
  <2> QED BY <2>1, <2>2 DEF OpenFails
<1> USE DEF StoreInv, StoreTypeOK, Undisputed, Others, SameDetails
<1>3. StoreTypeOK'
  BY <1>1, <1>2, CallTypes DEF StTypeOK, Takes
<1>4. HandlesAreKnown'
  BY <1>1, <1>2 DEF HandlesAreKnown, Rewrites
<1>5. stolen' # {} => intruded'
  BY <1>1, <1>2
<1>6. ASSUME ~intruded' PROVE ReplacingIsKnown'
  BY <1>1, <1>2, <1>6 DEF ReplacingIsKnown, Replacing, Recovers, Rewrites
<1>7. ASSUME ~intruded' PROVE RewriteIsKnown'
  BY <1>1, <1>2, <1>7 DEF ReplacingIsKnown, RewriteIsKnown, Replacing, Rewrites, HasBak
<1>8. ASSUME ~intruded' PROVE RecoveryIsKnown'
  BY <1>1, <1>2, <1>8 DEF RecoveryIsKnown, Rewrites
<1>9. ASSUME ~intruded' PROVE RowsAreKnown'
  BY <1>1, <1>2, <1>9 DEF RowsAreKnown, InCorrupt, HasBak
<1> QED BY <1>3, <1>4, <1>5, <1>6, <1>7, <1>8, <1>9

(* An open that fails for another reason goes on to recover the table: from *)
(* there on nobody holds it and nobody else replaces it, or p intrudes.     *)
LEMMA OpenKeepsFailingKeeps ==
  ASSUME StoreInv, NEW p \in Procs, OpenKeepsFailing(p)
  PROVE  StoreInv'
<1> USE StoreIsCounted
<1>1. /\ call[p].pc = "open" /\ faults' \in Nat /\ faults' > 0 /\ faults' >= faults
      /\ intruded' \in BOOLEAN /\ (intruded => intruded')
      /\ ~intruded' => /\ ~intruded /\ (live = NoDir \/ holder[live] = Nobody)
                       /\ \A q \in Procs \ {p} : ~Replacing(q)
      /\ UNCHANGED <<live, bak, corrupt, rows, damage, bloated, holder, cached, closed,
                     acked, destroyed, stolen, crashes, bloats, rewrites>>
  <2>1. faults' = faults + 1 /\ faults \in Nat /\ intruded \in BOOLEAN
    BY DEF OpenKeepsFailing, StoreInv, StoreTypeOK
  <2>2. /\ intruded' \in BOOLEAN /\ (intruded => intruded')
        /\ ~intruded' => ~intruded /\ ~Busy /\ \A q \in Procs \ {p} : ~Replacing(q)
    BY <2>1, Zenon DEF OpenKeepsFailing
  <2> QED BY <2>1, <2>2 DEF OpenKeepsFailing, At, Busy, dirs
<1>2. /\ Others(p) /\ SameDetails(p) /\ call'[p].pc = "recover"
      /\ call'[p].dir = call[p].dir /\ call'[p].closed = call[p].closed
  <2> DEFINE r == [call[p] EXCEPT !.pc = "recover", !.tries = Attempts]
  <2>1. call[p] \in CallRecord
    BY StoreTyped
  <2>2. r \in CallRecord /\ call' = [call EXCEPT ![p] = r]
    <3>1. "recover" \in CallPcs /\ Attempts \in Nat
      BY DEF CallPcs
    <3>2. r \in CallRecord
      BY <2>1, <3>1 DEF CallRecord
    <3> QED BY <3>2 DEF OpenKeepsFailing
  <2>3. Others(p) /\ call'[p] = r
    BY <2>1, <2>2, CallUpdates, StoreTyped
  <2> QED BY <2>1, <2>3 DEF CallRecord, SameDetails
<1> USE DEF StoreInv, StoreTypeOK, Undisputed, Others, SameDetails
<1>3. StoreTypeOK'
  BY <1>1, <1>2, CallTypes DEF StTypeOK, Takes
<1>4. HandlesAreKnown'
  BY <1>1, <1>2 DEF HandlesAreKnown, Rewrites
<1>5. stolen' # {} => intruded'
  BY <1>1, <1>2
<1>6. ASSUME ~intruded' PROVE ReplacingIsKnown'
  BY <1>1, <1>2, <1>6 DEF ReplacingIsKnown, Replacing, Recovers, Rewrites
<1>7. ASSUME ~intruded' PROVE RewriteIsKnown'
  BY <1>1, <1>2, <1>7 DEF RewriteIsKnown, HasBak
<1>8. ASSUME ~intruded' PROVE RecoveryIsKnown'
  BY <1>1, <1>2, <1>8 DEF RecoveryIsKnown, Rewrites
<1>9. ASSUME ~intruded' PROVE RowsAreKnown'
  BY <1>1, <1>2, <1>9 DEF RowsAreKnown, InCorrupt, HasBak
<1> QED BY <1>3, <1>4, <1>5, <1>6, <1>7, <1>8, <1>9

(* A directory that is repaired, or is not there, keeps its rows.           *)
LEMMA RecoverKeeps ==
  ASSUME StoreInv, NEW p \in Procs, Recover(p)
  PROVE  StoreInv'
<1> USE StoreIsCounted
<1>1. /\ Others(p) /\ SameDetails(p) /\ call[p].pc = "recover" /\ call'[p].pc = "reopen"
      /\ call'[p].dir = call[p].dir /\ call'[p].closed = call[p].closed
  BY ToMoves, StoreTyped DEF Recover, At, CallPcs
<1>2. /\ damage' = [d \in Dirs |-> IF d = live THEN "none" ELSE damage[d]]
      /\ UNCHANGED <<live, bak, corrupt, rows, bloated, holder, cached, closed, acked,
                     destroyed, stolen, intruded, crashes, faults, bloats, rewrites>>
  BY DEF Recover, ghosts, bounds
<1>3. /\ damage' \in [Dirs -> {"none", "journal", "lost"}]
      /\ \A d \in Dirs : damage[d] = "none" => damage'[d] = "none"
  BY <1>2 DEF StoreInv, StoreTypeOK, StTypeOK
<1> USE DEF StoreInv, StoreTypeOK, Undisputed, Others, SameDetails
<1>4. StoreTypeOK'
  BY <1>1, <1>2, <1>3, CallTypes DEF StTypeOK, Takes
<1>5. HandlesAreKnown'
  BY <1>1, <1>2, <1>3 DEF HandlesAreKnown, Rewrites
<1>6. stolen' # {} => intruded'
  BY <1>1, <1>2, <1>3
<1>7. ASSUME ~intruded' PROVE ReplacingIsKnown'
  BY <1>1, <1>2, <1>3, <1>7 DEF ReplacingIsKnown, Replacing, Recovers, Rewrites, StTypeOK
<1>8. ASSUME ~intruded' PROVE RewriteIsKnown'
  BY <1>1, <1>2, <1>3, <1>8 DEF RewriteIsKnown, HasBak, StTypeOK
<1>9. ASSUME ~intruded' PROVE RecoveryIsKnown'
  <2> SUFFICES ASSUME NEW q \in Procs, call'[q].pc = "after"
               PROVE  /\ live = NoDir
                      /\ Rewrites(q)' => damage'[call'[q].aside] = "none"
                      /\ \A o \in Procs \ {q} : call'[o].pc # "after"
    BY <1>2 DEF RecoveryIsKnown
  <2>1. q # p /\ call'[q] = call[q] /\ call[q].pc = "after"
    BY <1>1
  <2>2. call[q].aside \in Dirs
    BY <2>1 DEF HandlesAreKnown, StTypeOK
  <2>3. Rewrites(q)' => damage[call[q].aside] = "none"
    BY <1>2, <1>9, <2>1 DEF RecoveryIsKnown, Rewrites
  <2> QED BY <1>1, <1>2, <1>3, <1>9, <2>1, <2>2, <2>3 DEF RecoveryIsKnown
<1>10. ASSUME ~intruded' PROVE RowsAreKnown'
  BY <1>1, <1>2, <1>3, <1>10 DEF RowsAreKnown, InCorrupt, HasBak
<1> QED BY <1>4, <1>5, <1>6, <1>7, <1>8, <1>9, <1>10

\* A recovery or a reopen that fails goes to the quarantine and keeps StoreInv.
LEMMA GivesUpKeeps ==
  ASSUME StoreInv, NEW p \in Procs, call[p].pc \in {"recover", "reopen"},
         To(p, "quarantine"), UNCHANGED <<dirs, cached, closed, ghosts, bounds>>
  PROVE  StoreInv'
<1> USE StoreIsCounted
<1>1. /\ Others(p) /\ SameDetails(p) /\ call'[p].pc = "quarantine"
      /\ call'[p].dir = call[p].dir /\ call'[p].closed = call[p].closed
  BY ToMoves, StoreTyped DEF CallPcs
<1>2. UNCHANGED <<live, bak, corrupt, rows, damage, bloated, holder, cached, closed,
                  acked, destroyed, stolen, intruded, crashes, faults, bloats, rewrites>>
  BY DEF dirs, ghosts, bounds
<1> USE DEF StoreInv, StoreTypeOK, Undisputed, Others, SameDetails
<1>3. StoreTypeOK'
  BY <1>1, <1>2, CallTypes DEF StTypeOK, Takes
<1>4. HandlesAreKnown'
  BY <1>1, <1>2 DEF HandlesAreKnown, Rewrites
<1>5. stolen' # {} => intruded'
  BY <1>1, <1>2
<1>6. ASSUME ~intruded' PROVE ReplacingIsKnown'
  BY <1>1, <1>2, <1>6 DEF ReplacingIsKnown, Replacing, Recovers, Rewrites
<1>7. ASSUME ~intruded' PROVE RewriteIsKnown'
  BY <1>1, <1>2, <1>7 DEF RewriteIsKnown, HasBak
<1>8. ASSUME ~intruded' PROVE RecoveryIsKnown'
  BY <1>1, <1>2, <1>8 DEF RecoveryIsKnown, Rewrites
<1>9. ASSUME ~intruded' PROVE RowsAreKnown'
  BY <1>1, <1>2, <1>9 DEF RowsAreKnown, InCorrupt, HasBak
<1> QED BY <1>3, <1>4, <1>5, <1>6, <1>7, <1>8, <1>9

(* So does a recovery that fails.                                           *)
LEMMA RecoverFailsKeeps ==
  ASSUME StoreInv, NEW p \in Procs, RecoverFails(p)
  PROVE  StoreInv'
BY GivesUpKeeps DEF RecoverFails, At

(* The open after a recovery keeps StoreInv, whatever its outcome.          *)
LEMMA ReopenKeeps ==
  ASSUME StoreInv, NEW p \in Procs, Reopen(p)
  PROVE  StoreInv'
<1>1. call[p].pc = "reopen" /\ UNCHANGED <<acked, destroyed, stolen, bounds>>
  BY DEF Reopen, At
<1>2. CASE Creates(p)
  BY <1>1, <1>2, CreatesKeeps
<1>3. CASE Locks(p)
  BY <1>1, <1>3, LocksKeeps
<1>4. CASE /\ Busy \/ Broken
           /\ To(p, "quarantine") /\ UNCHANGED <<dirs, cached, closed, intruded>>
  BY <1>1, <1>4, GivesUpKeeps DEF ghosts
<1> QED BY <1>2, <1>3, <1>4 DEF Reopen

(* A directory that is put out of the way keeps its rows.                   *)
LEMMA QuarantineKeeps ==
  ASSUME StoreInv, NEW p \in Procs, Quarantine(p)
  PROVE  StoreInv'
<1> USE StoreIsCounted
<1>1. /\ call[p].pc = "quarantine" /\ live # NoDir
      /\ corrupt' = corrupt \cup {live} /\ live' = NoDir
      /\ stolen' = stolen \cup Takes(p, live)
      /\ call' = [call EXCEPT ![p].pc = "after", ![p].aside = live]
      /\ UNCHANGED <<bak, rows, damage, bloated, holder, cached, closed, acked, destroyed,
                     intruded, crashes, faults, bloats, rewrites>>
  BY DEF Quarantine, At, bounds
<1>2. /\ Others(p) /\ call'[p].pc = "after"
      /\ call'[p].aside = live /\ call'[p].pairs = call[p].pairs
      /\ call'[p].key = call[p].key
      /\ call'[p].ret = call[p].ret
      /\ call'[p].dir = call[p].dir /\ call'[p].closed = call[p].closed
  <2> DEFINE r == [call[p] EXCEPT !.pc = "after", !.aside = live]
  <2>1. call[p] \in CallRecord
    BY StoreTyped
  <2>2. live \in Dirs
    BY <1>1 DEF StoreInv, StoreTypeOK, StTypeOK
  <2>3. r \in CallRecord
    BY <2>1, <2>2 DEF CallRecord, CallPcs
  <2>4. call' = [call EXCEPT ![p] = r]
    BY <1>1
  <2>5. Others(p) /\ call'[p] = r
    BY <2>3, <2>4, CallUpdates, StoreTyped
  <2> QED BY <2>1, <2>5 DEF CallRecord
<1> USE DEF StoreInv, StoreTypeOK, Undisputed, Others, SameDetails
<1>3. StoreTypeOK'
  <2>1. /\ {live', bak'} \subseteq Dirs \cup {NoDir} /\ corrupt' \subseteq Dirs
        /\ (live' # NoDir => live' # bak' /\ live' \notin corrupt') /\ bak' \notin corrupt'
    BY <1>1, <1>2 DEF StTypeOK
  <2>2. stolen' \subseteq Dirs
    BY <1>1, <1>2, TakesADir DEF StTypeOK
  <2> QED BY <1>1, <1>2, <2>1, <2>2, CallTypes DEF StTypeOK
<1>4. HandlesAreKnown'
  BY <1>1, <1>2 DEF StTypeOK, HandlesAreKnown, Rewrites
<1>5. stolen' # {} => intruded'
  BY <1>1, <1>2 DEF StTypeOK, ReplacingIsKnown, Recovers, Takes
<1>6. ASSUME ~intruded' PROVE ReplacingIsKnown'
  BY <1>1, <1>2, <1>6 DEF ReplacingIsKnown, Replacing, Recovers, Rewrites
<1>7. ASSUME ~intruded' PROVE RewriteIsKnown'
  BY <1>1, <1>2, <1>7 DEF ReplacingIsKnown, RewriteIsKnown, Replacing, Rewrites, HasBak
<1>8. ASSUME ~intruded' PROVE RecoveryIsKnown'
  <2>1. \A q \in Procs \ {p} : call[q].pc # "after"
    BY <1>1, <1>8 DEF RecoveryIsKnown
  <2>2. Rewrites(p)' => Rewrites(p) /\ damage[live] = "none"
    BY <1>1, <1>2, <1>8 DEF ReplacingIsKnown, Rewrites
  <2> QED BY <1>1, <1>2, <2>1, <2>2 DEF RecoveryIsKnown
<1>9. ASSUME ~intruded' PROVE RowsAreKnown'
  BY <1>1, <1>2, <1>9 DEF StTypeOK, HandlesAreKnown, ReplacingIsKnown, RewriteIsKnown,
     RecoveryIsKnown, RowsAreKnown, InCorrupt, Replacing, Recovers, Rewrites, HasBak
<1> QED BY <1>3, <1>4, <1>5, <1>6, <1>7, <1>8, <1>9

(* A quarantine whose rename fails keeps StoreInv.                          *)
LEMMA QuarantineFailsKeeps ==
  ASSUME StoreInv, NEW p \in Procs, QuarantineFails(p)
  PROVE  StoreInv'
<1> USE StoreIsCounted
<1>1. /\ call[p].pc = "quarantine" /\ NotOpened(p) /\ faults' \in Nat /\ faults' >= faults
      /\ UNCHANGED <<live, bak, corrupt, rows, damage, bloated, holder, acked, destroyed,
                     stolen, intruded, crashes, bloats, rewrites>>
  BY DEF QuarantineFails, At, dirs, ghosts, StoreInv, StoreTypeOK
<1>2. NotOpenedSays(p)
  <2>1. /\ call \in [Procs -> CallRecord] /\ cached \in [Procs -> Dirs \cup {NoDir}]
        /\ closed \in [Procs -> BOOLEAN]
    BY StoreTyped
  <2> QED BY <1>1, <2>1, NotOpenedMoves
<1>3. call[p].ret # "get" => rewrites > 0
  BY <1>1, CallTypes DEF StoreInv, StoreTypeOK, HandlesAreKnown, Rewrites
<1>4. ~intruded => /\ call[p].ret \in {"get", "fresh", "moved", "restored"}
                   /\ call[p].ret = "fresh" => HasBak(p)
                   /\ call[p].ret # "get" => faults > 0
  BY <1>1, CopierIsKnown DEF HasBak, StoreInv, Undisputed, RewriteIsKnown
<1> USE DEF StoreInv, StoreTypeOK, Undisputed, Others, SameDetails, NotOpenedSays,
   OtherHandles, SameHandle, ServesClosed
<1>5. StoreTypeOK'
  BY <1>1, <1>2, <1>3, <1>4, CallTypes DEF StTypeOK, Takes
<1>6. HandlesAreKnown'
  BY <1>1, <1>2, <1>3, <1>4 DEF HandlesAreKnown, Rewrites
<1>7. stolen' # {} => intruded'
  BY <1>1, <1>2, <1>3, <1>4
<1>8. ASSUME ~intruded' PROVE ReplacingIsKnown'
  BY <1>1, <1>2, <1>3, <1>4, <1>8 DEF ReplacingIsKnown, Replacing, Recovers, Rewrites
<1>9. ASSUME ~intruded' PROVE RewriteIsKnown'
  BY <1>1, <1>2, <1>3, <1>4, <1>9 DEF RewriteIsKnown, HasBak
<1>10. ASSUME ~intruded' PROVE RecoveryIsKnown'
  BY <1>1, <1>2, <1>3, <1>4, <1>10 DEF RecoveryIsKnown, Rewrites
<1>11. ASSUME ~intruded' PROVE RowsAreKnown'
  BY <1>1, <1>2, <1>3, <1>4, <1>11 DEF RowsAreKnown, InCorrupt, HasBak
<1> QED BY <1>5, <1>6, <1>7, <1>8, <1>9, <1>10, <1>11

(* The rename back restores what the quarantine took.                       *)
LEMMA RenameBackKeeps ==
  ASSUME StoreInv, NEW p \in Procs, RenameBack(p)
  PROVE  StoreInv'
<1> USE StoreIsCounted
<1>1. /\ call[p].pc = "after" /\ NotOpened(p) /\ faults' \in Nat /\ faults' >= faults
      /\ \/ live = NoDir /\ live' = call[p].aside /\ corrupt' = corrupt \ {call[p].aside}
         \/ live # NoDir /\ live' = live /\ corrupt' = corrupt
      /\ UNCHANGED <<bak, rows, damage, bloated, holder, acked, destroyed, stolen, intruded,
                     crashes, bloats, rewrites>>
  BY DEF RenameBack, At, ghosts, StoreInv, StoreTypeOK
<1>2. call[p].aside \in corrupt
  BY <1>1 DEF StoreInv, HandlesAreKnown
<1>3. call[p].aside \in Dirs /\ call[p].aside # NoDir /\ NoDir \notin corrupt
  BY <1>2 DEF StoreInv, StoreTypeOK, StTypeOK
<1>4. ~intruded => \A d \in Dirs : holder[d] = Nobody
  BY <1>1 DEF StoreInv, Undisputed, ReplacingIsKnown, RecoveryIsKnown
<1>5. NotOpenedSays(p)
  <2>1. /\ call \in [Procs -> CallRecord] /\ cached \in [Procs -> Dirs \cup {NoDir}]
        /\ closed \in [Procs -> BOOLEAN]
    BY StoreTyped
  <2> QED BY <1>1, <2>1, NotOpenedMoves
<1>6. call[p].ret # "get" => rewrites > 0
  BY <1>1, CallTypes DEF StoreInv, StoreTypeOK, HandlesAreKnown, Rewrites
<1>7. ~intruded => /\ call[p].ret \in {"get", "moved", "restored"}
                   /\ call[p].ret # "get" => faults > 0
                   /\ Rewrites(p) => damage[call[p].aside] = "none"
  BY <1>1, CopierIsKnown DEF StoreInv, Undisputed, RewriteIsKnown, RecoveryIsKnown
<1> USE DEF StoreInv, StoreTypeOK, Undisputed, Others, SameDetails, NotOpenedSays,
   OtherHandles, SameHandle, ServesClosed
<1>8. StoreTypeOK'
  <2>1. /\ {live', bak'} \subseteq Dirs \cup {NoDir} /\ corrupt' \subseteq Dirs
        /\ (live' # NoDir => live' # bak' /\ live' \notin corrupt') /\ bak' \notin corrupt'
    <3>1. /\ {live, bak} \subseteq Dirs \cup {NoDir} /\ corrupt \subseteq Dirs
          /\ (live # NoDir => live # bak /\ live \notin corrupt) /\ bak \notin corrupt
      BY DEF StTypeOK
    <3>2. bak' = bak /\ ((live' = live /\ corrupt' = corrupt)
                         \/ (live' = call[p].aside /\ corrupt' = corrupt \ {call[p].aside}))
      BY <1>1
    <3> QED BY <1>2, <1>3, <3>1, <3>2
  <2> QED BY <1>1, <1>5, <2>1, CallTypes DEF StoreInv, StoreTypeOK, StTypeOK, Others
<1>9. HandlesAreKnown'
  BY <1>1, <1>2, <1>3, <1>4, <1>5, <1>6, <1>7 DEF HandlesAreKnown, Rewrites
<1>10. stolen' # {} => intruded'
  BY <1>1, <1>2, <1>3, <1>4, <1>5, <1>6, <1>7
<1>11. ASSUME ~intruded' PROVE ReplacingIsKnown'
  <2>1. /\ live = NoDir /\ live' # NoDir /\ holder'[live'] = Nobody
        /\ \A d \in Dirs : holder'[d] = Nobody
    BY <1>1, <1>3, <1>4, <1>11 DEF StoreInv, Undisputed, RecoveryIsKnown
  <2>2. \A q \in Procs \ {p} : ~Rewrites(q)
    BY <1>1, <1>11 DEF StoreInv, Undisputed, ReplacingIsKnown, Replacing, Rewrites
  <2>3. \A q \in Procs \ {p} : ~Rewrites(q)'
    BY <1>5, <2>2 DEF Rewrites, Others
  <2>4. Rewrites(p)' => /\ Rewrites(p) /\ damage'[live'] = "none"
                        /\ \A q \in Procs \ {p} : ~Replacing(q)'
    BY <1>1, <1>5, <1>7, <1>11, <2>1 DEF StoreInv, Undisputed, ReplacingIsKnown,
       RecoveryIsKnown, Rewrites, Replacing, Others
  <2> QED BY <2>1, <2>3, <2>4 DEF ReplacingIsKnown
<1>12. ASSUME ~intruded' PROVE RewriteIsKnown'
  BY <1>1, <1>2, <1>3, <1>4, <1>5, <1>6, <1>7, <1>12 DEF ReplacingIsKnown, RewriteIsKnown,
     Replacing, Rewrites, HasBak
<1>13. ASSUME ~intruded' PROVE RecoveryIsKnown'
  BY <1>1, <1>2, <1>3, <1>4, <1>5, <1>6, <1>7, <1>13 DEF RecoveryIsKnown, Rewrites
<1>14. ASSUME ~intruded' PROVE RowsAreKnown'
  BY <1>1, <1>2, <1>3, <1>4, <1>5, <1>6, <1>7, <1>14 DEF StTypeOK, HandlesAreKnown,
     ReplacingIsKnown, RewriteIsKnown, RecoveryIsKnown, RowsAreKnown, InCorrupt, Replacing,
     Recovers, Rewrites, HasBak
<1> QED BY <1>8, <1>9, <1>10, <1>11, <1>12, <1>13, <1>14

(***************************************************************************)
(* getDB after the open, and rewriteBloatedDB                               *)
(***************************************************************************)
LEMMA CountKeeps ==
  ASSUME StoreInv, NEW p \in Procs, Count(p)
  PROVE  StoreInv'
<1> USE StoreIsCounted
<1>1. call[p].pc = "count" /\ Serve(p, call[p].dir, FALSE)
      /\ UNCHANGED <<live, bak, corrupt, rows, damage, bloated, holder, acked, destroyed,
                     stolen, intruded, crashes, faults, bloats, rewrites>>
  BY DEF Count, At, dirs, ghosts, bounds
<1>2. /\ Others(p) /\ SameDetails(p)
      /\ call'[p].pc = "use" /\ call'[p].dir = call[p].dir /\ ~call'[p].closed
      /\ cached' \in [Procs -> Dirs \cup {NoDir}] /\ closed' \in [Procs -> BOOLEAN]
      /\ cached'[p] = call[p].dir /\ ~closed'[p]
      /\ \A q \in Procs \ {p} : cached'[q] = cached[q] /\ closed'[q] = closed[q]
  BY <1>1, ServeMoves, StoreTyped
<1> USE DEF StoreInv, StoreTypeOK, Undisputed, Others, SameDetails
<1>3. StoreTypeOK'
  BY <1>1, <1>2, CallTypes DEF StTypeOK, Takes
<1>4. HandlesAreKnown'
  BY <1>1, <1>2 DEF HandlesAreKnown, Rewrites
<1>5. stolen' # {} => intruded'
  BY <1>1, <1>2
<1>6. ASSUME ~intruded' PROVE ReplacingIsKnown'
  BY <1>1, <1>2, <1>6 DEF ReplacingIsKnown, Replacing, Recovers, Rewrites
<1>7. ASSUME ~intruded' PROVE RewriteIsKnown'
  BY <1>1, <1>2, <1>7 DEF RewriteIsKnown, HasBak
<1>8. ASSUME ~intruded' PROVE RecoveryIsKnown'
  BY <1>1, <1>2, <1>8 DEF RecoveryIsKnown, Rewrites
<1>9. ASSUME ~intruded' PROVE RowsAreKnown'
  BY <1>1, <1>2, <1>9 DEF RowsAreKnown, InCorrupt, HasBak
<1> QED BY <1>3, <1>4, <1>5, <1>6, <1>7, <1>8, <1>9

(* The pairs are those of the directory when its lock is given up: who      *)
(* replaces it from here on has it alone, or another process intrudes.      *)
LEMMA ReadPairsKeeps ==
  ASSUME StoreInv, NEW p \in Procs, ReadPairs(p)
  PROVE  StoreInv'
<1> USE StoreIsCounted
<1>1. /\ call[p].pc = "count"
      /\ call' = [call EXCEPT ![p].pc = "rmbak", ![p].pairs = rows[call[p].dir]]
      /\ holder' = Release(call[p].dir) /\ rewrites' = rewrites + 1
      /\ UNCHANGED <<live, bak, corrupt, rows, damage, bloated, cached, closed, acked,
                     destroyed, stolen, intruded, crashes, faults, bloats>>
  BY DEF ReadPairs, At, ghosts
<1>2. /\ call[p].dir \in Dirs /\ holder[call[p].dir] = p /\ rows[call[p].dir] \in SUBSET Keys
  BY <1>1 DEF StoreInv, StoreTypeOK, StTypeOK, HandlesAreKnown
<1>3. /\ Others(p) /\ call'[p].pc = "rmbak" /\ call'[p].pairs = rows[call[p].dir]
      /\ call'[p].ret = call[p].ret
      /\ call'[p].aside = call[p].aside /\ call'[p].key = call[p].key
      /\ call'[p].dir = call[p].dir /\ call'[p].closed = call[p].closed
  <2> DEFINE r == [call[p] EXCEPT !.pc = "rmbak", !.pairs = rows[call[p].dir]]
  <2>1. call[p] \in CallRecord
    BY StoreTyped
  <2>2. r \in CallRecord
    BY <1>2, <2>1 DEF CallRecord, CallPcs
  <2>3. call' = [call EXCEPT ![p] = r]
    BY <1>1
  <2>4. Others(p) /\ call'[p] = r
    BY <2>2, <2>3, CallUpdates, StoreTyped
  <2> QED BY <2>1, <2>4 DEF CallRecord
<1>4. /\ holder' \in [Dirs -> Procs \cup {Nobody}] /\ holder'[call[p].dir] = Nobody
      /\ \A d \in Dirs \ {call[p].dir} : holder'[d] = holder[d]
  BY <1>1, <1>2 DEF Release, StoreInv, StoreTypeOK, StTypeOK
<1>5. ~intruded => /\ call[p].dir = live /\ live # NoDir /\ damage[live] = "none"
                   /\ \A q \in Procs \ {p} :
                        ~Replacing(q) /\ ~HasBak(q) /\ ~Recovers(q) /\ ~Rewrites(q)
                   /\ call[p].ret = "get"
  BY <1>1, <1>2, HolderIsAlone, CopierIsKnown
<1> USE DEF StoreInv, StoreTypeOK, Undisputed, Others, SameDetails
<1>6. StoreTypeOK'
  BY <1>1, <1>2, <1>3, <1>4, <1>5, CallTypes DEF StTypeOK, Takes
<1>7. HandlesAreKnown'
  <2>1. rewrites' > 0 /\ cached[p] = NoDir
    BY <1>1 DEF HandlesAreKnown
  <2>2. /\ \A d \in Dirs : holder'[d] # Nobody => holder[d] # Nobody
        /\ \A d \in Dirs, q \in Procs \ {p} : holder[d] = q => holder'[d] = q
    BY <1>2, <1>4
  <2>3. \A q \in Procs :
          (call'[q].pc = "after" <=> call[q].pc = "after") /\ call'[q].aside = call[q].aside
    BY <1>1, <1>3
  <2> QED BY <1>1, <1>3, <2>1, <2>2, <2>3 DEF StTypeOK, HandlesAreKnown
<1>8. stolen' # {} => intruded'
  BY <1>1, <1>2, <1>3, <1>4, <1>5
<1>9. ASSUME ~intruded' PROVE ReplacingIsKnown'
  BY <1>1, <1>2, <1>3, <1>4, <1>5, <1>9 DEF ReplacingIsKnown, Replacing, Recovers, Rewrites
<1>10. ASSUME ~intruded' PROVE RewriteIsKnown'
  <2>1. /\ rewrites' > 0 /\ (rewrites' = 1 => rewrites = 0 /\ bak = NoDir)
        /\ \A q \in Procs : HasBak(q)' <=> HasBak(q)
    BY <1>1, <1>3 DEF HandlesAreKnown, HasBak
  <2>2. /\ \A q \in Procs \ {p} : call[q].pc \notin {"rmbak", "move", "copy", "restore", "clear"}
        /\ call[p].dir = live /\ live # NoDir /\ call[p].ret = "get"
    BY <1>1, <1>5, <1>10 DEF Rewrites
  <2>3. /\ \A q \in Procs : /\ call'[q].ret = call[q].ret
                             /\ q # p => call'[q] = call[q]
        /\ ~HasBak(p)
    BY <1>1, <1>3, <2>2 DEF HasBak
  <2> QED BY <1>1, <1>3, <1>10, <2>1, <2>2, <2>3 DEF RewriteIsKnown
<1>11. ASSUME ~intruded' PROVE RecoveryIsKnown'
  BY <1>1, <1>2, <1>3, <1>4, <1>5, <1>11 DEF RecoveryIsKnown, Rewrites
<1>12. ASSUME ~intruded' PROVE RowsAreKnown'
  BY <1>1, <1>2, <1>3, <1>4, <1>5, <1>12 DEF RowsAreKnown, InCorrupt, HasBak
<1> QED BY <1>6, <1>7, <1>8, <1>9, <1>10, <1>11, <1>12

(* The removal of an old backup keeps StoreInv.                             *)
LEMMA RemoveBakKeeps ==
  ASSUME StoreInv, NEW p \in Procs, RemoveBak(p)
  PROVE  StoreInv'
<1> USE StoreIsCounted
<1>1. /\ Others(p) /\ SameDetails(p) /\ call[p].pc = "rmbak" /\ call'[p].pc = "move"
      /\ call'[p].dir = call[p].dir /\ call'[p].closed = call[p].closed
  BY ToMoves, StoreTyped DEF RemoveBak, At, CallPcs
<1>2. /\ bak' = NoDir /\ stolen' = stolen \cup Takes(p, bak)
      /\ destroyed' = destroyed \cup (IF bak = NoDir THEN {} ELSE rows[bak] \ call[p].pairs)
      /\ UNCHANGED <<live, corrupt, rows, damage, bloated, holder, cached, closed, acked,
                     intruded, crashes, faults, bloats, rewrites>>
  BY DEF RemoveBak, bounds
<1> USE DEF StoreInv, StoreTypeOK, Undisputed, Others, SameDetails
<1>3. StoreTypeOK'
  <2>1. /\ {live', bak'} \subseteq Dirs \cup {NoDir} /\ corrupt' \subseteq Dirs
        /\ (live' # NoDir => live' # bak' /\ live' \notin corrupt') /\ bak' \notin corrupt'
    BY <1>1, <1>2 DEF StTypeOK
  <2>2. stolen' \subseteq Dirs
    BY <1>1, <1>2, TakesADir DEF StTypeOK
  <2>3. destroyed' \subseteq Keys
    BY <1>2 DEF StTypeOK
  <2> QED BY <1>1, <1>2, <2>1, <2>2, <2>3, CallTypes DEF StTypeOK
<1>4. HandlesAreKnown'
  BY <1>1, <1>2 DEF HandlesAreKnown, Rewrites
<1>5. stolen' # {} => intruded'
  BY <1>1, <1>2 DEF StTypeOK, ReplacingIsKnown, Recovers, Takes
<1>6. ASSUME ~intruded' PROVE ReplacingIsKnown'
  BY <1>1, <1>2, <1>6 DEF ReplacingIsKnown, Replacing, Recovers, Rewrites
<1>7. ASSUME ~intruded' PROVE RewriteIsKnown'
  BY <1>1, <1>2, <1>7 DEF ReplacingIsKnown, RewriteIsKnown, Replacing, Rewrites, HasBak
<1>8. ASSUME ~intruded' PROVE RecoveryIsKnown'
  BY <1>1, <1>2, <1>8 DEF RecoveryIsKnown, Rewrites
<1>9. ASSUME ~intruded' PROVE RowsAreKnown'
  <2>1. live # NoDir /\ call[p].pairs = rows[live]
    BY <1>1, <1>2, <1>9 DEF RewriteIsKnown
  <2>2. \A q \in Procs : ~HasBak(q)' /\ call'[q].pc # "after"
    BY <1>1, <1>2, <1>9 DEF ReplacingIsKnown, RewriteIsKnown, Rewrites, Replacing, HasBak
  <2>3. \A k : InCorrupt(k)' <=> InCorrupt(k)
    BY <1>2 DEF InCorrupt
  <2>4. ASSUME NEW k \in acked \ destroyed'
        PROVE  (live # NoDir /\ k \in rows[live]) \/ InCorrupt(k)
    BY <1>2, <1>9, <2>1, <2>4 DEF RowsAreKnown
  <2>5. rows[live] \ destroyed' \subseteq acked
    BY <1>2, <1>9, <2>1 DEF RowsAreKnown
  <2> QED BY <1>2, <2>2, <2>3, <2>4, <2>5 DEF RowsAreKnown
<1> QED BY <1>3, <1>4, <1>5, <1>6, <1>7, <1>8, <1>9

(* From here on the directory put aside is the one that counts.             *)
LEMMA MoveAsideKeeps ==
  ASSUME StoreInv, NEW p \in Procs, MoveAside(p)
  PROVE  StoreInv'
<1> USE StoreIsCounted
<1>1. /\ Others(p) /\ call[p].pc = "move" /\ call'[p].pc = "open" /\ call'[p].ret = "fresh"
      /\ call'[p].dir = call[p].dir /\ call'[p].closed = call[p].closed
      /\ call'[p].aside = call[p].aside
      /\ call'[p].key = call[p].key /\ call'[p].pairs = call[p].pairs
  BY StartMoves, StoreTyped DEF MoveAside, At
<1>2. /\ live # NoDir /\ bak = NoDir /\ bak' = live /\ live' = NoDir
      /\ stolen' = stolen \cup Takes(p, live)
      /\ UNCHANGED <<corrupt, rows, damage, bloated, holder, cached, closed, acked,
                     destroyed, intruded, crashes, faults, bloats, rewrites>>
  BY DEF MoveAside, bounds
<1> USE DEF StoreInv, StoreTypeOK, Undisputed, Others, SameDetails
<1>3. StoreTypeOK'
  <2>1. /\ {live', bak'} \subseteq Dirs \cup {NoDir} /\ corrupt' \subseteq Dirs
        /\ (live' # NoDir => live' # bak' /\ live' \notin corrupt') /\ bak' \notin corrupt'
    BY <1>1, <1>2 DEF StTypeOK
  <2>2. stolen' \subseteq Dirs
    BY <1>1, <1>2, TakesADir DEF StTypeOK
  <2> QED BY <1>1, <1>2, <2>1, <2>2, CallTypes DEF StTypeOK
<1>4. HandlesAreKnown'
  BY <1>1, <1>2 DEF HandlesAreKnown, Rewrites
<1>5. stolen' # {} => intruded'
  BY <1>1, <1>2 DEF ReplacingIsKnown, Takes
<1>6. ASSUME ~intruded' PROVE ReplacingIsKnown'
  BY <1>1, <1>2, <1>6 DEF ReplacingIsKnown, Replacing, Recovers, Rewrites
<1>7. ASSUME ~intruded' PROVE RewriteIsKnown'
  BY <1>1, <1>2, <1>7 DEF ReplacingIsKnown, RewriteIsKnown, Replacing, Rewrites, HasBak
<1>8. ASSUME ~intruded' PROVE RecoveryIsKnown'
  BY <1>1, <1>2, <1>8 DEF ReplacingIsKnown, RecoveryIsKnown, Replacing, Recovers, Rewrites
<1>9. ASSUME ~intruded' PROVE RowsAreKnown'
  BY <1>1, <1>2, <1>9 DEF ReplacingIsKnown, RewriteIsKnown, RowsAreKnown, InCorrupt, Replacing,
     Rewrites, HasBak
<1> QED BY <1>3, <1>4, <1>5, <1>6, <1>7, <1>8, <1>9

(* A rewrite whose first rename fails reopens the table and keeps StoreInv. *)
LEMMA MoveFailsKeeps ==
  ASSUME StoreInv, NEW p \in Procs, MoveFails(p)
  PROVE  StoreInv'
<1> USE StoreIsCounted
<1>1. /\ Others(p) /\ call[p].pc = "move" /\ call'[p].pc = "open" /\ call'[p].ret = "moved"
      /\ call'[p].dir = call[p].dir /\ call'[p].closed = call[p].closed
      /\ call'[p].aside = call[p].aside
      /\ call'[p].key = call[p].key /\ call'[p].pairs = call[p].pairs
  BY StartMoves, StoreTyped DEF MoveFails, At
<1>2. /\ live = NoDir \/ bak # NoDir \/ faults' = faults + 1
      /\ faults' \in Nat /\ faults' >= faults
      /\ UNCHANGED <<live, bak, corrupt, rows, damage, bloated, holder, cached, closed,
                     acked, destroyed, stolen, intruded, crashes, bloats, rewrites>>
  BY DEF MoveFails, dirs, ghosts, StoreInv, StoreTypeOK
<1> USE DEF StoreInv, StoreTypeOK, Undisputed, Others, SameDetails
<1>3. StoreTypeOK'
  BY <1>1, <1>2, CallTypes DEF StTypeOK, Takes
<1>4. HandlesAreKnown'
  BY <1>1, <1>2 DEF StTypeOK, HandlesAreKnown, Rewrites
<1>5. stolen' # {} => intruded'
  BY <1>1, <1>2
<1>6. ASSUME ~intruded' PROVE ReplacingIsKnown'
  BY <1>1, <1>2, <1>6 DEF ReplacingIsKnown, Replacing, Recovers, Rewrites
<1>7. ASSUME ~intruded' PROVE RewriteIsKnown'
  BY <1>1, <1>2, <1>7 DEF RewriteIsKnown, HasBak
<1>8. ASSUME ~intruded' PROVE RecoveryIsKnown'
  BY <1>1, <1>2, <1>8 DEF RecoveryIsKnown, Rewrites
<1>9. ASSUME ~intruded' PROVE RowsAreKnown'
  BY <1>1, <1>2, <1>9 DEF RowsAreKnown, InCorrupt, HasBak
<1> QED BY <1>3, <1>4, <1>5, <1>6, <1>7, <1>8, <1>9

(* The copies and what is left to copy are the old directory's rows.        *)
LEMMA CopyPairKeeps ==
  ASSUME StoreInv, NEW p \in Procs, CopyPair(p)
  PROVE  StoreInv'
<1> USE StoreIsCounted
<1>1. PICK k \in call[p].pairs :
        /\ rows' = [rows EXCEPT ![call[p].dir] = @ \cup {k}]
        /\ call' = [call EXCEPT ![p].pairs = @ \ {k}]
  BY DEF CopyPair
<1>2. /\ call[p].pc = "copy"
      /\ UNCHANGED <<live, bak, corrupt, damage, bloated, holder, cached, closed, acked,
                     destroyed, stolen, intruded, crashes, faults, bloats, rewrites>>
  BY DEF CopyPair, At, ghosts, bounds
<1>3. call[p].dir \in Dirs /\ call[p].pairs \in SUBSET Keys /\ k \in Keys
  BY <1>2 DEF StoreInv, StoreTypeOK, StTypeOK, HandlesAreKnown
<1>4. /\ Others(p) /\ call'[p].pc = call[p].pc /\ call'[p].pairs = call[p].pairs \ {k}
      /\ call'[p].ret = call[p].ret
      /\ call'[p].aside = call[p].aside /\ call'[p].key = call[p].key
      /\ call'[p].dir = call[p].dir /\ call'[p].closed = call[p].closed
  <2>1. /\ call' = [call EXCEPT ![p].pairs = call[p].pairs \ {k}]
        /\ call[p].pairs \ {k} \in SUBSET Keys
    BY <1>1, <1>3
  <2> QED BY <2>1, PairsMove DEF StoreInv, StoreTypeOK
<1>5. /\ rows' \in [Dirs -> SUBSET Keys] /\ rows'[call[p].dir] = rows[call[p].dir] \cup {k}
      /\ \A d \in Dirs \ {call[p].dir} : rows'[d] = rows[d]
  BY <1>1, <1>3 DEF StoreInv, StoreTypeOK, StTypeOK
<1> USE DEF StoreInv, StoreTypeOK, Undisputed, Others, SameDetails
<1>6. StoreTypeOK'
  BY <1>1, <1>2, <1>3, <1>4, <1>5, CallTypes DEF StTypeOK, Takes
<1>7. HandlesAreKnown'
  BY <1>1, <1>2, <1>3, <1>4, <1>5 DEF HandlesAreKnown, Rewrites
<1>8. stolen' # {} => intruded'
  BY <1>1, <1>2, <1>3, <1>4, <1>5
<1>9. ASSUME ~intruded' PROVE ReplacingIsKnown'
  BY <1>1, <1>2, <1>3, <1>4, <1>5, <1>9 DEF ReplacingIsKnown, Replacing, Recovers, Rewrites
<1>10. ASSUME ~intruded' PROVE RewriteIsKnown'
  BY <1>1, <1>2, <1>3, <1>4, <1>5, <1>10 DEF ReplacingIsKnown, RewriteIsKnown, Replacing,
     Rewrites, HasBak
<1>11. ASSUME ~intruded' PROVE RecoveryIsKnown'
  BY <1>1, <1>2, <1>3, <1>4, <1>5, <1>11 DEF RecoveryIsKnown, Rewrites
<1>12. ASSUME ~intruded' PROVE RowsAreKnown'
  <2>1. /\ live = call[p].dir /\ live # NoDir /\ bak # NoDir
        /\ bak # live /\ bak \in Dirs /\ HasBak(p)
        /\ \A q \in Procs \ {p} : ~HasBak(q)
    BY <1>2, <1>3, <1>12, CopierIsKnown DEF StoreInv, StoreTypeOK, StTypeOK, Undisputed,
       ReplacingIsKnown, RewriteIsKnown,
       HasBak, Rewrites, Replacing
  <2>2. rows'[bak] = rows[bak] /\ rows[live] \subseteq rows'[live]
    BY <1>3, <1>5, <2>1
  <2>3. /\ \A j \in acked \ destroyed : j \in rows[bak] \/ InCorrupt(j)
        /\ rows[bak] \ destroyed \subseteq acked
    BY <2>1, <1>2, <1>12 DEF RowsAreKnown
  <2>4. \A j : InCorrupt(j) => InCorrupt(j)'
    BY <1>2, <1>5, <2>1 DEF InCorrupt, StTypeOK
  <2>5. k \in rows[bak]
    BY <1>1, <1>2, <1>12, <2>1 DEF RewriteIsKnown
  <2>6. rows'[live] \ destroyed \subseteq acked
    BY <1>2, <1>3, <1>5, <1>12, <2>1, <2>3, <2>5 DEF RowsAreKnown
  <2>7. \A q \in Procs : call'[q].pc # "after"
    BY <1>2, <1>4, <2>1, <1>12 DEF RecoveryIsKnown, Rewrites
  <2>8. \A q \in Procs : HasBak(q)' => q = p
    BY <1>4, <2>1 DEF HasBak
  <2> QED BY <1>2, <2>1, <2>2, <2>3, <2>4, <2>6, <2>7, <2>8 DEF RowsAreKnown
<1> QED BY <1>6, <1>7, <1>8, <1>9, <1>10, <1>11, <1>12

(* A rewrite that cannot copy the rows keeps StoreInv.                      *)
LEMMA CopyFailsKeeps ==
  ASSUME StoreInv, NEW p \in Procs, CopyFails(p)
  PROVE  StoreInv'
<1> USE StoreIsCounted
<1>1. /\ call[p].pc = "copy" /\ call' = [call EXCEPT ![p].pc = "clear", ![p].ret = "failed"]
      /\ holder' = Release(call[p].dir) /\ faults' = faults + 1 /\ faults' > 0 /\ faults' \in Nat
      /\ UNCHANGED <<live, bak, corrupt, rows, damage, bloated, cached, closed, acked,
                     destroyed, stolen, intruded, crashes, bloats, rewrites>>
  BY DEF CopyFails, At, ghosts, StoreInv, StoreTypeOK
<1>2. /\ call[p].dir \in Dirs /\ holder[call[p].dir] = p
  BY <1>1 DEF StoreInv, StoreTypeOK, StTypeOK, HandlesAreKnown
<1>3. /\ Others(p) /\ call'[p].pc = "clear"
      /\ call'[p].ret = "failed" /\ call'[p].pairs = call[p].pairs
      /\ call'[p].aside = call[p].aside /\ call'[p].key = call[p].key
      /\ call'[p].dir = call[p].dir /\ call'[p].closed = call[p].closed
  BY <1>1, <1>2, FailMoves, StoreTyped DEF CallPcs
<1>4. /\ holder' \in [Dirs -> Procs \cup {Nobody}] /\ holder'[call[p].dir] = Nobody
      /\ \A d \in Dirs \ {call[p].dir} : holder'[d] = holder[d]
  BY <1>1, <1>2 DEF Release, StoreInv, StoreTypeOK, StTypeOK
<1>5. ~intruded => call[p].ret = "fresh"
  BY <1>1, CopierIsKnown
<1> USE DEF StoreInv, StoreTypeOK, Undisputed, Others, SameDetails
<1>6. StoreTypeOK'
  BY <1>1, <1>2, <1>3, <1>4, <1>5, CallTypes DEF StTypeOK, Takes
<1>7. HandlesAreKnown'
  BY <1>1, <1>2, <1>3, <1>4, <1>5 DEF StTypeOK, HandlesAreKnown, Rewrites
<1>8. stolen' # {} => intruded'
  BY <1>1, <1>2, <1>3, <1>4, <1>5
<1>9. ASSUME ~intruded' PROVE ReplacingIsKnown'
  BY <1>1, <1>2, <1>3, <1>4, <1>5, <1>9 DEF ReplacingIsKnown, Replacing, Recovers, Rewrites
<1>10. ASSUME ~intruded' PROVE RewriteIsKnown'
  BY <1>1, <1>2, <1>3, <1>4, <1>5, <1>10 DEF RewriteIsKnown, HasBak
<1>11. ASSUME ~intruded' PROVE RecoveryIsKnown'
  BY <1>1, <1>2, <1>3, <1>4, <1>5, <1>11 DEF RecoveryIsKnown, Rewrites
<1>12. ASSUME ~intruded' PROVE RowsAreKnown'
  BY <1>1, <1>2, <1>3, <1>4, <1>5, <1>12 DEF RowsAreKnown, InCorrupt, HasBak
<1> QED BY <1>6, <1>7, <1>8, <1>9, <1>10, <1>11, <1>12

(* The fresh directory has every row when the old one is removed.           *)
LEMMA CopyDoneKeeps ==
  ASSUME StoreInv, NEW p \in Procs, CopyDone(p)
  PROVE  StoreInv'
<1> USE StoreIsCounted
<1>1. /\ call[p].pc = "copy" /\ call[p].pairs = {} /\ Serve(p, call[p].dir, FALSE)
      /\ bak' = NoDir /\ stolen' = stolen \cup Takes(p, bak)
      /\ UNCHANGED <<live, corrupt, rows, damage, bloated, holder, acked, destroyed,
                     intruded, crashes, faults, bloats, rewrites>>
  BY DEF CopyDone, At, bounds
<1>2. /\ Others(p) /\ SameDetails(p)
      /\ call'[p].pc = "use" /\ call'[p].dir = call[p].dir /\ ~call'[p].closed
      /\ cached' \in [Procs -> Dirs \cup {NoDir}] /\ closed' \in [Procs -> BOOLEAN]
      /\ cached'[p] = call[p].dir /\ ~closed'[p]
      /\ \A q \in Procs \ {p} : cached'[q] = cached[q] /\ closed'[q] = closed[q]
  BY <1>1, ServeMoves, StoreTyped
<1> USE DEF StoreInv, StoreTypeOK, Undisputed, Others, SameDetails
<1>3. StoreTypeOK'
  <2>1. /\ {live', bak'} \subseteq Dirs \cup {NoDir} /\ corrupt' \subseteq Dirs
        /\ (live' # NoDir => live' # bak' /\ live' \notin corrupt') /\ bak' \notin corrupt'
    BY <1>1, <1>2 DEF StTypeOK
  <2>2. stolen' \subseteq Dirs
    BY <1>1, <1>2, TakesADir DEF StTypeOK
  <2> QED BY <1>1, <1>2, <2>1, <2>2, CallTypes DEF StTypeOK
<1>4. HandlesAreKnown'
  BY <1>1, <1>2 DEF HandlesAreKnown, Rewrites
<1>5. stolen' # {} => intruded'
  BY <1>1, <1>2 DEF StTypeOK, ReplacingIsKnown, Recovers, Takes
<1>6. ASSUME ~intruded' PROVE ReplacingIsKnown'
  BY <1>1, <1>2, <1>6 DEF ReplacingIsKnown, Replacing, Recovers, Rewrites
<1>7. ASSUME ~intruded' PROVE RewriteIsKnown'
  BY <1>1, <1>2, <1>7 DEF ReplacingIsKnown, RewriteIsKnown, Replacing, Rewrites, HasBak
<1>8. ASSUME ~intruded' PROVE RecoveryIsKnown'
  BY <1>1, <1>2, <1>8 DEF RecoveryIsKnown, Rewrites
<1>9. ASSUME ~intruded' PROVE RowsAreKnown'
  BY <1>1, <1>2, <1>9 DEF StTypeOK, HandlesAreKnown, ReplacingIsKnown, RewriteIsKnown,
     RecoveryIsKnown, RowsAreKnown, InCorrupt, Replacing, Recovers, Rewrites, HasBak
<1> QED BY <1>3, <1>4, <1>5, <1>6, <1>7, <1>8, <1>9

(* The directory removed is the half-filled one, or another process         *)
(* intruded.                                                                *)
LEMMA ClearKeeps ==
  ASSUME StoreInv, NEW p \in Procs, Clear(p)
  PROVE  StoreInv'
<1> USE StoreIsCounted
<1>1. /\ Others(p) /\ SameDetails(p) /\ call[p].pc = "clear" /\ call'[p].pc = "restore"
      /\ call'[p].dir = call[p].dir /\ call'[p].closed = call[p].closed
  BY ToMoves, StoreTyped DEF Clear, At, CallPcs
<1>2. /\ live' = NoDir /\ stolen' = stolen \cup Takes(p, live)
      /\ UNCHANGED <<bak, corrupt, rows, damage, bloated, holder, cached, closed, acked,
                     destroyed, intruded, crashes, faults, bloats, rewrites>>
  BY DEF Clear, bounds
<1> USE DEF StoreInv, StoreTypeOK, Undisputed, Others, SameDetails
<1>3. StoreTypeOK'
  <2>1. /\ {live', bak'} \subseteq Dirs \cup {NoDir} /\ corrupt' \subseteq Dirs
        /\ (live' # NoDir => live' # bak' /\ live' \notin corrupt') /\ bak' \notin corrupt'
    BY <1>1, <1>2 DEF StTypeOK
  <2>2. stolen' \subseteq Dirs
    BY <1>1, <1>2, TakesADir DEF StTypeOK
  <2> QED BY <1>1, <1>2, <2>1, <2>2, CallTypes DEF StTypeOK
<1>4. HandlesAreKnown'
  BY <1>1, <1>2 DEF HandlesAreKnown, Rewrites
<1>5. stolen' # {} => intruded'
  BY <1>1, <1>2 DEF ReplacingIsKnown, Takes
<1>6. ASSUME ~intruded' PROVE ReplacingIsKnown'
  BY <1>1, <1>2, <1>6 DEF ReplacingIsKnown, Replacing, Recovers, Rewrites
<1>7. ASSUME ~intruded' PROVE RewriteIsKnown'
  BY <1>1, <1>2, <1>7 DEF ReplacingIsKnown, RewriteIsKnown, Replacing, Rewrites, HasBak
<1>8. ASSUME ~intruded' PROVE RecoveryIsKnown'
  BY <1>1, <1>2, <1>8 DEF ReplacingIsKnown, RecoveryIsKnown, Replacing, Recovers, Rewrites
<1>9. ASSUME ~intruded' PROVE RowsAreKnown'
  BY <1>1, <1>2, <1>9 DEF ReplacingIsKnown, RewriteIsKnown, RowsAreKnown, InCorrupt, Replacing,
     Rewrites, HasBak
<1> QED BY <1>3, <1>4, <1>5, <1>6, <1>7, <1>8, <1>9

(* The old directory comes back with its rows, and with a closed handle.    *)
LEMMA RestoreKeeps ==
  ASSUME StoreInv, NEW p \in Procs, Restore(p)
  PROVE  StoreInv'
<1> USE StoreIsCounted
<1>1. /\ call[p].pc = "restore"
      /\ \/ live = NoDir /\ bak # NoDir /\ live' = bak /\ bak' = NoDir
         \/ live' = live /\ bak' = bak
      /\ faults' \in Nat /\ faults' >= faults
      /\ UNCHANGED <<corrupt, rows, damage, bloated, holder, acked, destroyed, stolen,
                     intruded, crashes, bloats, rewrites>>
  BY DEF Restore, At, ghosts, StoreInv, StoreTypeOK
<1>2. /\ Others(p) /\ OtherHandles(p)
      /\ call'[p].aside = call[p].aside /\ call'[p].key = call[p].key
      /\ call'[p].pairs = call[p].pairs /\ call'[p].dir = call[p].dir
      /\ call[p].ret = "fresh" =>
           call'[p].pc = "open" /\ call'[p].ret = "restored" /\ SameHandle(p)
      /\ call[p].ret # "fresh" => ServesClosed(p)
  <2> USE DEF OtherHandles, SameHandle, ServesClosed
  <2>1. call[p].dir \in Dirs \cup {NoDir}
    BY StoreTyped
  <2>2. CASE call[p].ret = "fresh"
    BY <2>2, StartMoves, StoreTyped DEF Restore
  <2>3. CASE call[p].ret # "fresh"
    <3>1. Serve(p, call[p].dir, TRUE)
      BY <2>3 DEF Restore
    <3>2. SameDetails(p) =>
            /\ call'[p].aside = call[p].aside /\ call'[p].key = call[p].key
            /\ call'[p].pairs = call[p].pairs
      BY DEF SameDetails
    <3> QED BY <2>1, <2>3, <3>1, <3>2, ServeMoves, StoreTyped
  <2> QED BY <2>2, <2>3
<1>3. ~intruded => call[p].ret \in {"failed", "fresh"} /\ HasBak(p) /\ faults > 0 /\ live = NoDir
  BY <1>1, CopierIsKnown DEF HasBak, StoreInv, Undisputed, RewriteIsKnown
<1> USE DEF StoreInv, StoreTypeOK, Undisputed, Others, SameDetails, OtherHandles,
   SameHandle, ServesClosed
<1>4. StoreTypeOK'
  <2>1. /\ {live', bak'} \subseteq Dirs \cup {NoDir} /\ corrupt' \subseteq Dirs
        /\ (live' # NoDir => live' # bak' /\ live' \notin corrupt') /\ bak' \notin corrupt'
    BY <1>1 DEF StoreInv, StoreTypeOK, StTypeOK
  <2> QED BY <1>1, <1>2, <2>1, CallTypes DEF StoreInv, StoreTypeOK, StTypeOK, Others
<1>5. HandlesAreKnown'
  BY <1>1, <1>2, <1>3 DEF HandlesAreKnown, Rewrites
<1>6. stolen' # {} => intruded'
  BY <1>1, <1>2, <1>3
<1>7. ASSUME ~intruded' PROVE ReplacingIsKnown'
  <2>1. /\ \A q \in Procs \ {p} : ~Replacing(q) /\ ~Recovers(q) /\ ~Rewrites(q)
        /\ \A q \in Procs : call[q].pc \notin {"rmbak", "move", "clear"}
    BY <1>1, <1>7 DEF ReplacingIsKnown, Rewrites, Replacing, Recovers
  <2>2. /\ \A q \in Procs \ {p} : ~Replacing(q)' /\ ~Recovers(q)' /\ ~Rewrites(q)'
        /\ \A q \in Procs : call'[q].pc \notin {"rmbak", "move", "clear"} /\ ~Recovers(q)'
    BY <1>2, <2>1 DEF Rewrites, Replacing, Recovers
  <2>3. \A d \in Dirs : holder'[d] = Nobody
    BY <1>1, <1>3, <1>7 DEF ReplacingIsKnown
  <2>4. live' # NoDir => live' \in Dirs /\ damage'[live'] = "none"
    BY <1>1, <1>3, <1>7 DEF RewriteIsKnown, StTypeOK
  <2> QED BY <1>1, <2>2, <2>3, <2>4 DEF ReplacingIsKnown, Recovers
<1>8. ASSUME ~intruded' PROVE RewriteIsKnown'
  BY <1>1, <1>2, <1>3, <1>8 DEF ReplacingIsKnown, RewriteIsKnown, Replacing, Rewrites, HasBak
<1>9. ASSUME ~intruded' PROVE RecoveryIsKnown'
  BY <1>1, <1>2, <1>3, <1>9 DEF StTypeOK, HandlesAreKnown, ReplacingIsKnown, RewriteIsKnown,
     RecoveryIsKnown, Replacing, Recovers, Rewrites, HasBak
<1>10. ASSUME ~intruded' PROVE RowsAreKnown'
  BY <1>1, <1>2, <1>3, <1>10 DEF ReplacingIsKnown, RewriteIsKnown, RowsAreKnown, InCorrupt,
     Replacing, Rewrites, HasBak
<1> QED BY <1>4, <1>5, <1>6, <1>7, <1>8, <1>9, <1>10

(***************************************************************************)
(* The operations of a table, and the environment                           *)
(***************************************************************************)
LEMMA BeginKeeps ==
  ASSUME StoreInv, NEW p \in Procs, NEW op \in {"put", "delete"}, NEW k \in Keys, Begin(p, op, k)
  PROVE  StoreInv'
<1> USE StoreIsCounted
<1>1. /\ call[p].pc = "idle"
      /\ UNCHANGED <<live, bak, corrupt, rows, damage, bloated, holder, cached, closed,
                     acked, destroyed, stolen, intruded, crashes, faults, bloats, rewrites>>
  BY DEF Begin, At, dirs, ghosts
<1>2. /\ Others(p) /\ call'[p].pc = (IF cached[p] = NoDir THEN "open" ELSE "use")
      /\ call'[p].ret = "get"
      /\ call'[p].dir = cached[p] /\ call'[p].closed = closed[p] /\ call'[p].key = k
  <2> DEFINE r == [Idle EXCEPT !.op = op, !.key = k,
                               !.pc = IF cached[p] = NoDir THEN "open" ELSE "use",
                     !.ret = "get", !.dir = cached[p], !.closed = closed[p]]
  <2>1. /\ cached[p] \in Dirs \cup {NoDir} /\ closed[p] \in BOOLEAN
        /\ call \in [Procs -> CallRecord]
    BY DEF StoreInv, StoreTypeOK, StTypeOK
  <2>2. r \in CallRecord
    BY <2>1 DEF Idle, CallRecord, CallPcs
  <2>3. call' = [call EXCEPT ![p] = r]
    BY DEF Begin
  <2>4. Others(p) /\ call'[p] = r
    BY <2>1, <2>2, <2>3, CallUpdates
  <2> QED BY <2>4 DEF Idle
<1> USE DEF StoreInv, StoreTypeOK, Undisputed, Others, SameDetails
<1>3. StoreTypeOK'
  BY <1>1, <1>2, CallTypes DEF StTypeOK, Takes
<1>4. HandlesAreKnown'
  BY <1>1, <1>2 DEF HandlesAreKnown, Rewrites
<1>5. stolen' # {} => intruded'
  BY <1>1, <1>2
<1>6. ASSUME ~intruded' PROVE ReplacingIsKnown'
  BY <1>1, <1>2, <1>6 DEF ReplacingIsKnown, Replacing, Recovers, Rewrites
<1>7. ASSUME ~intruded' PROVE RewriteIsKnown'
  BY <1>1, <1>2, <1>7 DEF RewriteIsKnown, HasBak
<1>8. ASSUME ~intruded' PROVE RecoveryIsKnown'
  BY <1>1, <1>2, <1>8 DEF RecoveryIsKnown, Rewrites
<1>9. ASSUME ~intruded' PROVE RowsAreKnown'
  BY <1>1, <1>2, <1>9 DEF RowsAreKnown, InCorrupt, HasBak
<1> QED BY <1>3, <1>4, <1>5, <1>6, <1>7, <1>8, <1>9

(* A handle that is open is one on the live directory, which nobody         *)
(* replaces: the row goes to the table.                                     *)
LEMMA UseKeeps ==
  ASSUME StoreInv, NEW p \in Procs, Use(p)
  PROVE  StoreInv'
<1> USE StoreIsCounted
<1>1. /\ call[p].pc = "use" /\ Return(p)
      /\ UNCHANGED <<live, bak, corrupt, damage, bloated, holder, cached, closed, stolen,
                     intruded, crashes, faults, bloats, rewrites>>
  BY DEF Use, bounds
<1>2. Others(p) /\ call'[p].pc = "idle" /\ call'[p].ret = "none"
  BY <1>1, ReturnMoves, StoreTyped
<1>3. call[p].dir \in Dirs \cup {NoDir} /\ call[p].key \in Keys
  BY <1>1 DEF StoreInv, StoreTypeOK, StTypeOK, HandlesAreKnown
<1>4. ~call[p].closed => /\ call[p].dir \in Dirs /\ holder[call[p].dir] = p
                         /\ damage[call[p].dir] = "none"
  <2> SUFFICES ASSUME ~call[p].closed
               PROVE  /\ call[p].dir \in Dirs /\ holder[call[p].dir] = p
                      /\ damage[call[p].dir] = "none"
    OBVIOUS
  <2>1. cached[p] # NoDir /\ call[p].dir = cached[p] /\ ~closed[p]
    BY <1>1 DEF StoreInv, HandlesAreKnown
  <2>2. call[p].dir \in Dirs /\ holder[call[p].dir] = p
    BY <1>3, <2>1 DEF StoreInv, HandlesAreKnown
  <2>3. p # Nobody
    OBVIOUS
  <2> QED BY <2>2, <2>3 DEF StoreInv, HandlesAreKnown
<1>5. \/ UNCHANGED <<rows, acked, destroyed>>
      \/ /\ ~call[p].closed /\ rows' \in [Dirs -> SUBSET Keys] /\ acked' \in SUBSET Keys
         /\ \A e \in Dirs \ {call[p].dir} : rows'[e] = rows[e]
         /\ \A k \in Keys \ {call[p].key} : k \in rows'[call[p].dir] <=> k \in rows[call[p].dir]
         /\ \A k \in Keys \ {call[p].key} : k \in acked' <=> k \in acked
         /\ call[p].key \in rows'[call[p].dir] <=> call[p].key \in acked'
         /\ destroyed' = destroyed \ {call[p].key}
  <2>1. CASE call[p].closed
    BY <2>1 DEF Use
  <2>2. CASE ~call[p].closed
    <3>1. /\ rows' = [rows EXCEPT ![call[p].dir] = Put(@, call[p].op, call[p].key)]
          /\ acked' = Put(acked, call[p].op, call[p].key) /\ destroyed' = destroyed \ {call[p].key}
      BY <2>2 DEF Use
    <3>2. rows \in [Dirs -> SUBSET Keys] /\ acked \in SUBSET Keys
      BY DEF StoreInv, StoreTypeOK, StTypeOK
    <3> QED BY <1>3, <1>4, <2>2, <3>1, <3>2 DEF Put
  <2> QED BY <2>1, <2>2
<1>6. ~intruded /\ ~call[p].closed =>
        /\ live = call[p].dir /\ live # NoDir
        /\ \A q \in Procs : ~HasBak(q) /\ ~Recovers(q) /\ (Rewrites(q) => q = p)
  <2> SUFFICES ASSUME ~intruded, ~call[p].closed
               PROVE  /\ live = call[p].dir /\ live # NoDir
                      /\ \A q \in Procs : ~HasBak(q) /\ ~Recovers(q) /\ (Rewrites(q) => q = p)
    OBVIOUS
  <2>1. live = call[p].dir /\ live # NoDir /\ holder[live] = p
    BY <1>1, <1>4 DEF StoreInv, Undisputed, ReplacingIsKnown
  <2>2. \A q \in Procs : Replacing(q) => q = p
    BY <2>1 DEF StoreInv, Undisputed, ReplacingIsKnown
  <2>3. \A q \in Procs : ~HasBak(q) /\ ~Recovers(q) /\ (Rewrites(q) => q = p)
    BY <1>1, <2>2 DEF Replacing, HasBak, Recovers, Rewrites
  <2> QED BY <2>1, <2>3 DEF StoreInv, HandlesAreKnown, Undisputed, RewriteIsKnown
<1> USE DEF StoreInv, StoreTypeOK, Undisputed, Others, SameDetails
<1>7. StoreTypeOK'
  BY <1>1, <1>2, <1>3, <1>4, <1>5, <1>6, CallTypes DEF StTypeOK, Takes
<1>8. HandlesAreKnown'
  BY <1>1, <1>2, <1>3, <1>4, <1>5, <1>6 DEF HandlesAreKnown, Rewrites
<1>9. stolen' # {} => intruded'
  BY <1>1, <1>2, <1>3, <1>4, <1>5, <1>6
<1>10. ASSUME ~intruded' PROVE ReplacingIsKnown'
  BY <1>1, <1>2, <1>3, <1>4, <1>5, <1>6, <1>10 DEF ReplacingIsKnown, Replacing, Recovers,
     Rewrites
<1>11. ASSUME ~intruded' PROVE RewriteIsKnown'
  BY <1>1, <1>2, <1>3, <1>4, <1>5, <1>6, <1>11 DEF ReplacingIsKnown, RewriteIsKnown,
     Replacing, Rewrites, HasBak
<1>12. ASSUME ~intruded' PROVE RecoveryIsKnown'
  BY <1>1, <1>2, <1>3, <1>4, <1>5, <1>6, <1>12 DEF RecoveryIsKnown, Rewrites
<1>13. ASSUME ~intruded' PROVE RowsAreKnown'
  <2>1. CASE UNCHANGED <<rows, acked, destroyed>>
    BY <1>1, <1>2, <2>1, <1>13 DEF StoreInv, Undisputed, RowsAreKnown, InCorrupt, HasBak, Others
  <2>2. CASE ~call[p].closed
    <3>1. /\ live = call[p].dir /\ live # NoDir /\ \A q \in Procs : ~HasBak(q) /\ ~Recovers(q)
      BY <1>1, <1>6, <2>2, <1>13
    <3>2. \A q \in Procs : ~HasBak(q)'
      BY <1>2, <3>1 DEF HasBak, Others
    <3>3. CASE UNCHANGED <<rows, acked, destroyed>>
      BY <2>1, <3>3
    <3>4. CASE ~UNCHANGED <<rows, acked, destroyed>>
      <4>1. /\ \A e \in Dirs \ {live} : rows'[e] = rows[e]
            /\ \A k \in Keys \ {call[p].key} : k \in rows'[live] <=> k \in rows[live]
            /\ \A k \in Keys \ {call[p].key} : k \in acked' <=> k \in acked
            /\ call[p].key \in rows'[live] <=> call[p].key \in acked'
            /\ destroyed' = destroyed \ {call[p].key} /\ acked' \in SUBSET Keys
        BY <1>5, <3>1, <3>4
      <4>2. live' = live /\ bak' = bak /\ corrupt' = corrupt
        BY <1>1
      <4>3. bak \notin {NoDir, live} => bak \in Dirs \ {live}
        BY DEF StoreInv, StoreTypeOK, StTypeOK
      <4>4. /\ bak # live /\ \A k : InCorrupt(k) <=> InCorrupt(k)'
        BY <3>1, <4>1, <4>2 DEF StoreInv, StoreTypeOK, StTypeOK, InCorrupt
      <4>5. /\ \A k \in acked \ destroyed : k \in rows[live]
                 \/ (bak # NoDir /\ k \in rows[bak]) \/ InCorrupt(k)
            /\ rows[live] \ destroyed \subseteq acked
        BY <1>1, <1>13, <3>1 DEF StoreInv, Undisputed, RowsAreKnown
      <4>6. ASSUME NEW k \in acked' \ destroyed'
            PROVE  k \in rows'[live] \/ (bak # NoDir /\ k \in rows'[bak]) \/ InCorrupt(k)'
        BY <4>1, <4>3, <4>4, <4>5, <4>6
      <4>7. rows'[live] \ destroyed' \subseteq acked'
        <5>1. rows'[live] \subseteq Keys
          BY <1>5, <3>1, <3>4 DEF StoreInv, StoreTypeOK, StTypeOK
        <5> QED BY <4>1, <4>5, <5>1
      <4>8. \A q \in Procs : call'[q].pc # "after"
        BY <1>2, <3>1 DEF Recovers, Others
      <4> QED BY <3>1, <3>2, <4>2, <4>6, <4>7, <4>8 DEF RowsAreKnown
    <3> QED BY <3>3, <3>4
  <2> QED BY <1>5, <2>1, <2>2
<1> QED BY <1>7, <1>8, <1>9, <1>10, <1>11, <1>12, <1>13

(* CloseAll gives up the lock of a handle once and keeps StoreInv.          *)
LEMMA CloseAllKeeps ==
  ASSUME StoreInv, NEW p \in Procs, CloseAll(p)
  PROVE  StoreInv'
<1> USE StoreIsCounted
<1>1. /\ call[p].pc \in {"idle", "use"} /\ cached[p] # NoDir
      /\ holder' = IF closed[p] THEN holder ELSE Release(cached[p])
      /\ cached' = [cached EXCEPT ![p] = NoDir] /\ closed' = [closed EXCEPT ![p] = FALSE]
      /\ call' = [call EXCEPT ![p].closed = TRUE]
      /\ UNCHANGED <<live, bak, corrupt, rows, damage, bloated, acked, destroyed, stolen,
                     intruded, crashes, faults, bloats, rewrites>>
  BY DEF CloseAll, ghosts, bounds
<1>2. /\ Others(p) /\ SameDetails(p) /\ call'[p].pc = call[p].pc /\ call'[p].dir = call[p].dir
      /\ call'[p].closed
  BY <1>1, CloseMoves, StoreTyped DEF SameDetails, CallPcs
<1>3. /\ holder' \in [Dirs -> Procs \cup {Nobody}]
      /\ \A d \in Dirs : holder'[d] = (IF d = cached[p] /\ ~closed[p] THEN Nobody ELSE holder[d])
  BY <1>1 DEF Release, StoreInv, StoreTypeOK, StTypeOK
<1>4. /\ cached' \in [Procs -> Dirs \cup {NoDir}] /\ closed' \in [Procs -> BOOLEAN]
      /\ cached'[p] = NoDir /\ ~closed'[p]
      /\ \A q \in Procs \ {p} : cached'[q] = cached[q] /\ closed'[q] = closed[q]
  BY <1>1 DEF StoreInv, StoreTypeOK, StTypeOK
<1>5. ~closed[p] => holder[cached[p]] = p
  BY <1>1 DEF StoreInv, HandlesAreKnown
<1> USE DEF StoreInv, StoreTypeOK, Undisputed, Others, SameDetails
<1>6. StoreTypeOK'
  BY <1>1, <1>2, <1>3, <1>4, <1>5, CallTypes DEF StTypeOK, Takes
<1>7. HandlesAreKnown'
  BY <1>1, <1>2, <1>3, <1>4, <1>5 DEF StTypeOK, HandlesAreKnown, Rewrites
<1>8. stolen' # {} => intruded'
  BY <1>1, <1>2, <1>3, <1>4, <1>5
<1>9. ASSUME ~intruded' PROVE ReplacingIsKnown'
  BY <1>1, <1>2, <1>3, <1>4, <1>5, <1>9 DEF StTypeOK, ReplacingIsKnown, Replacing, Recovers,
     Rewrites
<1>10. ASSUME ~intruded' PROVE RewriteIsKnown'
  BY <1>1, <1>2, <1>3, <1>4, <1>5, <1>10 DEF RewriteIsKnown, HasBak
<1>11. ASSUME ~intruded' PROVE RecoveryIsKnown'
  BY <1>1, <1>2, <1>3, <1>4, <1>5, <1>11 DEF RecoveryIsKnown, Rewrites
<1>12. ASSUME ~intruded' PROVE RowsAreKnown'
  BY <1>1, <1>2, <1>3, <1>4, <1>5, <1>12 DEF RowsAreKnown, InCorrupt, HasBak
<1> QED BY <1>6, <1>7, <1>8, <1>9, <1>10, <1>11, <1>12

(* A power loss destroys rows of the directory that the process held: they  *)
(* are destroyed.                                                             *)
LEMMA CrashKeeps ==
  ASSUME StoreInv, NEW p \in Procs, Crash(p)
  PROVE  StoreInv'
<1> USE StoreIsCounted
<1>1. /\ crashes' = crashes + 1 /\ crashes' \in Nat /\ crashes' > 0 /\ Return(p)
      /\ holder' = [d \in Dirs |-> IF holder[d] = p THEN Nobody ELSE holder[d]]
      /\ cached' = [cached EXCEPT ![p] = NoDir] /\ closed' = [closed EXCEPT ![p] = FALSE]
      /\ UNCHANGED <<live, bak, corrupt, bloated, stolen, intruded, faults, rewrites, acked>>
  BY DEF Crash, StoreInv, StoreTypeOK
<1>2. Others(p) /\ call'[p].pc = "idle" /\ call'[p].ret = "none"
  BY <1>1, ReturnMoves, StoreTyped
<1>3. /\ holder' \in [Dirs -> Procs \cup {Nobody}] /\ cached' \in [Procs -> Dirs \cup {NoDir}]
      /\ closed' \in [Procs -> BOOLEAN] /\ cached'[p] = NoDir /\ ~closed'[p]
      /\ \A q \in Procs \ {p} : cached'[q] = cached[q] /\ closed'[q] = closed[q]
      /\ \A d \in Dirs : holder'[d] = (IF holder[d] = p THEN Nobody ELSE holder[d])
  BY <1>1 DEF StoreInv, StoreTypeOK, StTypeOK
<1>4. \/ UNCHANGED <<rows, damage, destroyed>>
      \/ \E how \in {"journal", "lost"}, lost \in SUBSET Keys :
           /\ live # NoDir /\ holder[live] = p /\ (how = "lost" => lost = Keys)
           /\ damage' = [damage EXCEPT ![live] = how] /\ rows' = [rows EXCEPT ![live] = @ \ lost]
           /\ destroyed' = destroyed \cup lost
  BY DEF Crash
<1> USE DEF StoreInv, StoreTypeOK, Undisputed, Others, SameDetails
<1>5. StoreTypeOK'
  <2>1. /\ rows' \in [Dirs -> SUBSET Keys] /\ destroyed' \subseteq Keys
        /\ damage' \in [Dirs -> {"none", "journal", "lost"}]
    <3>1. /\ rows \in [Dirs -> SUBSET Keys]
          /\ destroyed \subseteq Keys /\ live \in Dirs \cup {NoDir}
          /\ damage \in [Dirs -> {"none", "journal", "lost"}]
      BY DEF StTypeOK
    <3> QED BY <1>4, <3>1
  <2>2. \A q \in Procs : call'[q].dir \in Dirs \cup {NoDir} /\ call'[q].pairs \subseteq Keys
    BY <1>2, CallTypes
  <2> QED BY <1>1, <1>2, <1>3, <2>1, <2>2 DEF StTypeOK
<1>6. HandlesAreKnown'
  BY <1>1, <1>2, <1>3, <1>4 DEF StTypeOK, HandlesAreKnown, Rewrites
<1>7. stolen' # {} => intruded'
  BY <1>1, <1>2, <1>3, <1>4
<1>8. ASSUME ~intruded' PROVE ReplacingIsKnown'
  BY <1>1, <1>2, <1>3, <1>4, <1>8 DEF StTypeOK, ReplacingIsKnown, Replacing, Recovers,
     Rewrites
<1>9. ASSUME ~intruded' PROVE RewriteIsKnown'
  BY <1>1, <1>2, <1>3, <1>4, <1>9 DEF ReplacingIsKnown, RewriteIsKnown, Replacing, Rewrites,
     HasBak
<1>10. ASSUME ~intruded' PROVE RecoveryIsKnown'
  BY <1>1, <1>2, <1>3, <1>4, <1>10 DEF StTypeOK, HandlesAreKnown, ReplacingIsKnown,
     RewriteIsKnown, RecoveryIsKnown, Replacing, Recovers, Rewrites, HasBak
<1>11. ASSUME ~intruded' PROVE RowsAreKnown'
  <2>1. \A q \in Procs : HasBak(q)' => HasBak(q)
    BY <1>2 DEF HasBak, Others
  <2>2. CASE UNCHANGED <<rows, damage, destroyed>>
    <3>1. \A q \in Procs : call'[q].pc = "after" => call[q].pc = "after" /\ call'[q] = call[q]
      BY <1>2 DEF Others
    <3>2. \A k : InCorrupt(k)' <=> InCorrupt(k)
      BY <1>1, <2>2 DEF InCorrupt
    <3> QED BY <1>1, <2>1, <2>2, <1>11, <3>1, <3>2 DEF StoreInv, Undisputed, RowsAreKnown
  <2>3. ASSUME NEW how \in {"journal", "lost"}, NEW lost \in SUBSET Keys,
               live # NoDir, holder[live] = p, how = "lost" => lost = Keys,
               damage' = [damage EXCEPT ![live] = how], rows' = [rows EXCEPT ![live] = @ \ lost],
               destroyed' = destroyed \cup lost
        PROVE  RowsAreKnown'
    <3>1. /\ live \in Dirs /\ (bak # NoDir => bak \in Dirs \ {live}) /\ acked \subseteq Keys
          /\ rows \in [Dirs -> SUBSET Keys]
      BY <2>3 DEF StoreInv, StoreTypeOK, StTypeOK
    <3>2. p # Nobody
      OBVIOUS
    <3>3. /\ live \in Dirs /\ (bak # NoDir => bak \in Dirs \ {live}) /\ acked \subseteq Keys
          /\ rows \in [Dirs -> SUBSET Keys] /\ damage[live] = "none"
      BY <2>3, <3>1, <3>2 DEF StoreInv, HandlesAreKnown
    <3>4. rows'[live] = rows[live] \ lost /\ \A e \in Dirs \ {live} : rows'[e] = rows[e]
      BY <2>3, <3>3
    <3>5. \A k : InCorrupt(k) /\ k \notin lost => InCorrupt(k)'
      BY <1>1, <3>3, <3>4 DEF InCorrupt, StoreInv, StoreTypeOK, StTypeOK
    <3>6. ASSUME NEW k \in acked' \ destroyed'
          PROVE  (live' # NoDir /\ k \in rows'[live']) \/ (bak' # NoDir /\ k \in rows'[bak'])
                 \/ InCorrupt(k)'
      BY <1>1, <1>11, <2>3, <3>3, <3>4, <3>5, <3>6 DEF StoreInv, Undisputed, RowsAreKnown
    <3>7. rows'[live] \ destroyed' \subseteq acked'
      BY <1>1, <1>11, <2>3, <3>4 DEF StoreInv, Undisputed, RowsAreKnown
    <3>8. \A q \in Procs : ~HasBak(q)' /\ call'[q].pc # "after"
      <4>1. \A q \in Procs \ {p} : ~HasBak(q) /\ ~Recovers(q)
        BY <1>1, <1>11, <2>3, <3>3, HolderIsAlone
      <4> QED BY <1>2, <4>1 DEF HasBak, Recovers, Others
    <3> QED BY <1>1, <3>6, <3>7, <3>8 DEF RowsAreKnown
  <2> QED BY <1>4, <2>2, <2>3
<1> QED BY <1>5, <1>6, <1>7, <1>8, <1>9, <1>10, <1>11

(* A table that has grown keeps StoreInv.                                   *)
LEMMA BloatKeeps ==
  ASSUME StoreInv, Bloat
  PROVE  StoreInv'
<1> USE StoreIsCounted
<1>1. bloated' \subseteq Dirs /\ call' = call
      /\ UNCHANGED <<live, bak, corrupt, rows, damage, holder, cached, closed, acked,
                     destroyed, stolen, intruded, crashes, faults, rewrites>>
  BY DEF Bloat, ghosts, StoreInv, StoreTypeOK, StTypeOK
<1> USE DEF StoreInv, StoreTypeOK, Undisputed, Others, SameDetails
<1>2. StoreTypeOK'
  BY <1>1, CallTypes DEF StTypeOK, Takes
<1>3. HandlesAreKnown'
  BY <1>1 DEF HandlesAreKnown, Rewrites
<1>4. stolen' # {} => intruded'
  BY <1>1
<1>5. ASSUME ~intruded' PROVE ReplacingIsKnown'
  BY <1>1, <1>5 DEF ReplacingIsKnown, Replacing, Recovers, Rewrites
<1>6. ASSUME ~intruded' PROVE RewriteIsKnown'
  BY <1>1, <1>6 DEF RewriteIsKnown, HasBak
<1>7. ASSUME ~intruded' PROVE RecoveryIsKnown'
  BY <1>1, <1>7 DEF RecoveryIsKnown, Rewrites
<1>8. ASSUME ~intruded' PROVE RowsAreKnown'
  BY <1>1, <1>8 DEF RowsAreKnown, InCorrupt, HasBak
<1> QED BY <1>2, <1>3, <1>4, <1>5, <1>6, <1>7, <1>8

(***************************************************************************)
(* Every step                                                               *)
(***************************************************************************)
(* No step breaks the invariant.                                            *)
LEMMA StoreStepInv == StoreInv /\ [Next]_vars => StoreInv'
<1> SUFFICES ASSUME StoreInv, [Next]_vars PROVE StoreInv'
  OBVIOUS
<1>1. ASSUME NEW p \in Procs, Opening(p) PROVE StoreInv'
  BY <1>1, OpenSucceedsKeeps, OpenConflictKeeps, OpenFailsKeeps, OpenKeepsFailingKeeps,
     RecoverKeeps, RecoverFailsKeeps, ReopenKeeps, QuarantineKeeps,
     QuarantineFailsKeeps, RenameBackKeeps DEF Opening
<1>2. ASSUME NEW p \in Procs, Rewriting(p) PROVE StoreInv'
  BY <1>2, CountKeeps, ReadPairsKeeps, RemoveBakKeeps, MoveAsideKeeps, MoveFailsKeeps,
     CopyPairKeeps, CopyFailsKeeps,
     CopyDoneKeeps, ClearKeeps, RestoreKeeps DEF Rewriting
<1>3. ASSUME NEW p \in Procs, Use(p) \/ CloseAll(p) \/ Crash(p) PROVE StoreInv'
  BY <1>3, UseKeeps, CloseAllKeeps, CrashKeeps
<1>4. ASSUME NEW p \in Procs, NEW op \in {"put", "delete"}, NEW k \in Keys, Begin(p, op, k)
      PROVE  StoreInv'
  BY <1>4, BeginKeeps
<1>5. CASE Bloat
  BY <1>5, BloatKeeps
<1>6. CASE UNCHANGED vars
  BY <1>6 DEF vars, dirs, ghosts, bounds, StoreInv, StoreTypeOK, StTypeOK, HandlesAreKnown,
     Undisputed, ReplacingIsKnown, RewriteIsKnown, RecoveryIsKnown, RowsAreKnown, InCorrupt,
     Replacing, Recovers, Rewrites, HasBak
<1> QED BY <1>1, <1>2, <1>3, <1>4, <1>5, <1>6 DEF Next, Step

(* hiddify_db.go:43-259: through any number of lock conflicts, failed opens, *)
(* recoveries, quarantines, power losses and rewrites, complete or failed or *)
(* died in, every row that was acknowledged is in a directory of the table,  *)
(* unless a power loss destroyed it or a rewrite removed it with the backup  *)
(* of an earlier one; the live directory has the rows that were not put      *)
(* aside and none that was deleted; and a cached handle is open unless a     *)
(* step of a rewrite failed: as long as no other process intrudes, and a     *)
(* directory that is held loses its name only if one did.                    *)
THEOREM TablesStayKept == PartsSpec => []TablesAreKept
<1>1. StoreInv /\ [PartsNext]_partsVars => StoreInv'
  BY StoreStepInv DEF PartsNext, partsVars, StoreStep, FileStep, HostStep, EzytelStep,
     DateStep, RaceStep, TunnelStep, CommandStep, ProxyStep
<1> QED BY StoreInitInv, StoreInvImplies, <1>1, PTL DEF PartsSpec

(***************************************************************************)
(* The list of proxies and the tests                                        *)
(***************************************************************************)
(* The groups, the leaves and the tags of a box, and what a configuration   *)
(* that sing-box accepts has.                                               *)
GroupsOf(b) == {n \in P!Of(b) : P!IsGroup(n)}
LeafTags(b) == P!Tags({n \in P!Of(b) : ~P!IsGroup(n)})
TagsOf(b)   == P!Tags(P!Of(b))
LEMMA BoxFacts ==
  ASSUME NEW b \in Boxes
  PROVE  /\ b # P!NoBox /\ TagsOf(b) \subseteq P!AllTags /\ b.outs \in Seq(P!Of(b))
         /\ P!ToSet(b.outs) \subseteq P!Of(b)
         /\ \A n \in P!Of(b) : n.tag \in TagsOf(b) /\ P!Members(n) \subseteq TagsOf(b)
         /\ \A m, n \in P!Of(b) : m.tag = n.tag => m = n
         /\ \A n \in GroupsOf(b) : Head(n.members) \in P!Members(n)
         /\ \E n \in GroupsOf(b) : n.tag = "select"
  <1>1. P!Sound(b) BY PartsAssumption
  <1>2. P!ToSet(b.outs) \subseteq P!Of(b) BY DEF P!Of
  <1>3. b # P!NoBox
    <2>1. \E n \in P!ToSet(b.outs) : n.tag = "select" BY <1>1 DEF P!Sound
    <2>2. P!NoBox.outs = <<>> BY DEF P!NoBox
    <2>3. P!ToSet(P!NoBox.outs) = {} BY <2>2 DEF P!ToSet
    <2> QED BY <2>1, <2>3
  <1>4. TagsOf(b) \subseteq P!AllTags BY DEF P!AllTags, TagsOf
  <1>5. ASSUME NEW n \in P!Of(b)
        PROVE  /\ n.tag \in TagsOf(b) /\ P!Members(n) \subseteq TagsOf(b)
               /\ n \in GroupsOf(b) => Head(n.members) \in P!Members(n)
    <2>1. n.members \in Seq(TagsOf(b)) /\ (P!IsGroup(n) => n.members # <<>>)
      BY <1>1 DEF P!Sound, TagsOf
    <2>2. \A i \in DOMAIN n.members : n.members[i] \in TagsOf(b) BY <2>1
    <2>3. P!Members(n) \subseteq TagsOf(b) BY <2>2 DEF P!Members, P!ToSet
    <2>4. n.members # <<>> => Head(n.members) = n.members[1] /\ 1 \in DOMAIN n.members BY <2>1
    <2>5. n \in GroupsOf(b) => Head(n.members) \in P!Members(n)
      BY <2>1, <2>4 DEF P!Members, P!ToSet, GroupsOf
    <2>6. n.tag \in TagsOf(b) BY DEF TagsOf, P!Tags
    <2> QED BY <2>3, <2>5, <2>6
  <1>6. PICK n \in P!ToSet(b.outs) : n.tag = "select" /\ n.type = "selector"
    BY <1>1 DEF P!Sound
  <1>7. n \in GroupsOf(b) BY <1>2, <1>6 DEF GroupsOf, P!IsGroup, P!GroupTypes
  <1>8. /\ b.outs \in Seq(P!Of(b))
        /\ \A m, k \in P!Of(b) : m.tag = k.tag => m = k
    BY <1>1 DEF P!Sound
  <1>9. \A k \in GroupsOf(b) : k \in P!Of(b) BY DEF GroupsOf
  <1>10. \A k \in P!Of(b) : k.tag \in TagsOf(b) /\ P!Members(k) \subseteq TagsOf(b) BY <1>5
  <1>11. \A k \in GroupsOf(b) : Head(k.members) \in P!Members(k) BY <1>5, <1>9
  <1>12. \E k \in GroupsOf(b) : k.tag = "select" BY <1>6, <1>7
  <1> QED BY <1>2, <1>3, <1>4, <1>8, <1>10, <1>11, <1>12

(* No tag is empty, and a box that is gone has no nodes.                    *)
LEMMA NoNode ==
  /\ "" \notin P!AllTags /\ P!Of(P!NoBox) = {}
  <1>1. ASSUME NEW b \in Boxes, NEW n \in P!Of(b) PROVE n.tag # ""
    <2>1. P!Sound(b) BY PartsAssumption
    <2> QED BY <2>1 DEF P!Sound
  <1>2. "" \notin P!AllTags BY <1>1 DEF P!AllTags, P!Tags
  <1>3. P!NoBox.outs = <<>> /\ P!NoBox.ends = <<>> BY DEF P!NoBox
  <1>4. P!Of(P!NoBox) = {} BY <1>3 DEF P!Of, P!ToSet
  <1> QED BY <1>2, <1>4

(* Of the naturals in a set one is least.                                   *)
LEMMA OneIsLeast ==
  ASSUME NEW found \in SUBSET Nat, found # {}
  PROVE  \E m \in found : \A k \in found : m <= k
  <1>1. PICK m \in found : \A k \in found : ~ (<<k, m>> \in OpToRel(<, Nat))
    BY WFMin, NatLessThanWellFounded, Zenon
  <1>2. \A k \in found : ~(k < m) BY <1>1 DEF OpToRel
  <1> QED BY <1>2

(* Among delays that were measured there is a least one.                    *)
LEMMA OneIsFastest ==
  ASSUME NEW his, NEW tags, tags # {}, \A t \in tags : his[t] \in Nat
  PROVE  P!Fastest(his, tags) \in tags /\ \A u \in tags : his[P!Fastest(his, tags)] <= his[u]
  <1>1. PICK found : found = {his[t] : t \in tags} OBVIOUS
  <1>2. found \in SUBSET Nat /\ found # {} BY <1>1
  <1>3. PICK m \in found : \A k \in found : m <= k
    BY <1>2, OneIsLeast
  <1>4. PICK t \in tags : m = his[t] BY <1>1
  <1>5. \A u \in tags : his[t] <= his[u] BY <1>1, <1>3, <1>4
  <1> QED BY <1>5 DEF P!Fastest

(* What is measured, what a group uses, and the invariant.                  *)
Measured == {P!None, P!FailDelay} \cup Delays
GroupTags(b) == P!Tags(GroupsOf(b))
Uses(b) == [GroupTags(b) -> P!AllTags \cup {""}]
Choices(b, uses) ==
  uses \in Uses(b) /\ \A n \in GroupsOf(b) : uses[n.tag] \in P!Members(n) \cup {""}
NowInv(b) == listed \in {b, P!NoBox} /\ Choices(b, now)
HistoryInv(b) ==
  history \in [P!AllTags -> Measured] /\ \A t \in GroupTags(b) : history[t] = P!None

Infos == [tag : P!AllTags, delay : Measured, isGroup : BOOLEAN, using : P!AllTags,
          selected : BOOLEAN]
ListShape ==
  \E pc, only, his, info, groups, of : list = [pc |-> pc, only |-> only, his |-> his,
                                               info |-> info, groups |-> groups, box |-> of]
ListInv(b) ==
  /\ ListShape
  /\ list.pc # "idle" => list.box = b /\ list.info \in [TagsOf(b) -> Infos]
  /\ P!DelaysAreOfMembers
  /\ P!ListNamesWhatItShows

(* A walk goes down in the order of the groups, on the way that traffic     *)
(* takes while nobody chooses; it ends where that way does.                 *)
Ranks(b, rank) == \A n \in P!Of(b) : \A t \in P!Members(n) : rank[t] < rank[n.tag]
RankOf(b) == CHOOSE rank \in [TagsOf(b) -> Nat] : Ranks(b, rank)
TestTypes(b) ==
  test \in [pc : {"idle", "walk", "found", "probing", "done"}, active : BOOLEAN,
            at : P!AllTags \cup {""}, seen : SUBSET P!AllTags, targets : SUBSET P!AllTags,
            todo : SUBSET LeafTags(b), now : {<<>>} \cup Uses(b), steady : BOOLEAN]
Downhill(b) ==
  /\ test.at \in test.seen /\ test.seen \subseteq TagsOf(b)
  /\ \A t \in test.seen : RankOf(b)[test.at] <= RankOf(b)[t]
Trail(b) ==
  /\ now = test.now /\ now["select"] \in test.seen
  /\ \A t \in test.seen \ {test.at} : t \in GroupTags(b) /\ now[t] \in test.seen
  /\ test.seen \subseteq P!Reached(now)
WalkInv(b) ==
  (listed # P!NoBox /\ test.active /\ test.pc \in {"walk", "found"}) =>
    /\ Downhill(b)
    /\ test.steady => Trail(b)
    /\ (test.steady /\ test.pc = "found") => (test.at \in GroupTags(b) => now[test.at] = "")
TestInv(b) == TestTypes(b) /\ WalkInv(b) /\ P!TestsReachTheLeaf
ProxyInvOf(b) == NowInv(b) /\ HistoryInv(b) /\ ListInv(b) /\ TestInv(b)
ProxyInv == \E b \in Boxes : ProxyInvOf(b)

LEMMA ProxyInvImplies == ProxyInv => P!ProxiesAreShownTruly
  BY DEF ProxyInv, ProxyInvOf, ListInv, TestInv, P!ProxiesAreShownTruly

(* What runs, while it does.                                                *)
LEMMA BoxRuns ==
  ASSUME NEW b \in Boxes, listed = b
  PROVE  /\ P!Outbounds = P!Of(b) /\ P!Groups = GroupsOf(b)
         /\ \A n \in P!Of(b) : P!Get(n.tag) = {n}
         /\ \A tags : P!Leaf(tags) = tags \cap LeafTags(b)
  <1>1. P!Outbounds = P!Of(b) BY DEF P!Outbounds
  <1>2. P!Groups = GroupsOf(b) BY <1>1 DEF P!Groups, GroupsOf
  <1>3. \A n \in P!Of(b) : P!Get(n.tag) = {n} BY <1>1, BoxFacts DEF P!Get
  <1>4. ASSUME NEW tags PROVE P!Leaf(tags) = tags \cap LeafTags(b)
    BY <1>1 DEF P!Leaf, P!Get, LeafTags, P!Tags
  <1> QED BY <1>1, <1>2, <1>3, <1>4
LEMMA BoxIsGone ==
  ASSUME listed = P!NoBox
  PROVE  P!Outbounds = {} /\ P!Groups = {} /\ \A t : P!Get(t) = {}
  BY NoNode DEF P!Outbounds, P!Groups, P!Get
LEMMA TagKinds ==
  ASSUME NEW b \in Boxes
  PROVE  /\ GroupTags(b) \subseteq TagsOf(b) /\ LeafTags(b) \subseteq TagsOf(b)
         /\ TagsOf(b) = GroupTags(b) \cup LeafTags(b)
         /\ GroupTags(b) \cap LeafTags(b) = {} /\ "select" \in GroupTags(b)
         /\ \A t \in GroupTags(b) : \E n \in GroupsOf(b) : n.tag = t
         /\ \A n \in GroupsOf(b) : n \in P!Of(b) /\ n.tag \in GroupTags(b)
  <1>1. /\ GroupTags(b) \subseteq TagsOf(b) /\ LeafTags(b) \subseteq TagsOf(b)
        /\ TagsOf(b) = GroupTags(b) \cup LeafTags(b)
    BY DEF GroupTags, LeafTags, TagsOf, P!Tags, GroupsOf
  <1>2. GroupTags(b) \cap LeafTags(b) = {}
    BY BoxFacts DEF GroupTags, LeafTags, P!Tags, GroupsOf
  <1>3. "select" \in GroupTags(b) BY BoxFacts DEF GroupTags, P!Tags
  <1>4. /\ \A t \in GroupTags(b) : \E n \in GroupsOf(b) : n.tag = t
        /\ \A n \in GroupsOf(b) : n \in P!Of(b) /\ n.tag \in GroupTags(b)
    BY DEF GroupTags, P!Tags, GroupsOf
  <1> QED BY <1>1, <1>2, <1>3, <1>4
LEMMA RankIsThere ==
  ASSUME NEW b \in Boxes
  PROVE  RankOf(b) \in [TagsOf(b) -> Nat] /\ Ranks(b, RankOf(b))
  <1>1. P!Sound(b) BY PartsAssumption
  <1>2. PICK rank \in [TagsOf(b) -> 0..P!Cardinality(P!Of(b))] :
          \A n \in P!Of(b) : \A t \in P!Members(n) : rank[t] < rank[n.tag]
    BY <1>1 DEF P!Sound, TagsOf
  <1>3. rank \in [TagsOf(b) -> Nat] BY <1>2
  <1>4. Ranks(b, rank) BY <1>2 DEF Ranks
  <1> QED BY <1>3, <1>4 DEF RankOf

(* What a node uses is itself or one of its members, and the delay that is  *)
(* shown of it was measured of one of them.                                 *)
LEMMA RealTagIs ==
  ASSUME NEW b \in Boxes, Choices(b, now), NEW n \in P!Of(b)
  PROVE  /\ P!RealTag(n) \in TagsOf(b)
         /\ P!RealTag(n) = n.tag \/ P!RealTag(n) \in P!Members(n)
  <1>1. n.tag \in TagsOf(b) /\ P!Members(n) \subseteq TagsOf(b) BY BoxFacts
  <1>2. CASE P!IsGroup(n) /\ now[n.tag] # ""
    <2>1. n \in GroupsOf(b) BY <1>2 DEF GroupsOf
    <2>2. now[n.tag] \in P!Members(n) BY <2>1, <1>2 DEF Choices
    <2> QED BY <1>1, <1>2, <2>2 DEF P!RealTag
  <1>3. CASE ~(P!IsGroup(n) /\ now[n.tag] # "") BY <1>1, <1>3 DEF P!RealTag
  <1> QED BY <1>2, <1>3
LEMMA AliveIs ==
  ASSUME NEW his \in [P!AllTags -> Measured], NEW t \in P!AllTags
  PROVE  /\ P!PickAlive(his, t) <=> his[t] > 0 /\ his[t] < P!FailDelay
         /\ P!PickAlive(his, t) => his[t] \in Nat
  <1>1. Delays \subseteq Nat \ {0} BY PartsAssumption
  <1>2. his[t] \in Measured OBVIOUS
  <1>3. P!None = -1 /\ P!FailDelay = 65535 BY DEF P!None, P!FailDelay
  <1>4. his[t] = P!None \/ his[t] = P!FailDelay \/ his[t] \in Nat \ {0}
    BY <1>1, <1>2 DEF Measured
  <1>5. P!PickAlive(his, t) <=> his[t] # P!None /\ his[t] # 0 /\ his[t] < P!FailDelay
    BY DEF P!PickAlive
  <1>6. P!PickAlive(his, t) => his[t] \in Nat BY <1>3, <1>4, <1>5
  <1>7. P!PickAlive(his, t) <=> his[t] > 0 /\ his[t] < P!FailDelay
    BY <1>3, <1>4, <1>5
  <1> QED BY <1>6, <1>7
LEMMA DelayIs ==
  ASSUME NEW b \in Boxes, Choices(b, now), NEW n \in P!Of(b), NEW his \in [P!AllTags -> Measured]
  PROVE  LET shown == P!HistoryForDetour(his, n)
             alive  == P!Alive(his, P!Members(n))
         IN  /\ shown \in Measured
             /\ (P!IsGroup(n) /\ his[n.tag] = P!None) =>
                  /\ alive # {} => \E t \in alive : shown = his[t]
                  /\ alive # {} => IF P!RealTag(n) \in alive THEN shown = his[P!RealTag(n)]
                                  ELSE \A t \in alive : shown <= his[t]
                  /\ shown = P!FailDelay => alive = {}
  <1> DEFINE shown == P!HistoryForDetour(his, n)
             alive  == P!Alive(his, P!Members(n))
             used  == P!RealTag(n)
  <1>1. /\ n.tag \in P!AllTags /\ P!Members(n) \subseteq P!AllTags
        /\ used \in P!AllTags /\ (used = n.tag \/ used \in P!Members(n))
    BY BoxFacts, RealTagIs
  <1>2. \A t \in alive : t \in P!Members(n) /\ t \in P!AllTags /\ P!PickAlive(his, t) /\ his[t] \in Nat
    BY <1>1, AliveIs DEF P!Alive
  <1>3. alive # {} => P!Fastest(his, alive) \in alive /\ \A u \in alive : his[P!Fastest(his, alive)] <= his[u]
    BY <1>2, OneIsFastest
  <1>4. \A t \in alive : his[t] # P!FailDelay BY <1>2 DEF P!PickAlive, P!FailDelay
  <1>5. ~P!PickAlive(his, n.tag) \/ his[n.tag] # P!None BY DEF P!PickAlive
  <1>6. CASE P!PickAlive(his, n.tag)
    <2>1. shown = his[n.tag] BY <1>6 DEF P!HistoryForDetour
    <2> QED BY <1>1, <1>5, <1>6, <2>1
  <1>7. CASE ~P!PickAlive(his, n.tag) /\ P!PickAlive(his, used)
    <2>1. shown = his[used] BY <1>7 DEF P!HistoryForDetour
    <2>2. used \in alive BY <1>1, <1>7 DEF P!Alive
    <2> QED BY <1>1, <1>4, <2>1, <2>2
  <1>8. CASE ~P!PickAlive(his, n.tag) /\ ~P!PickAlive(his, used)
    <2>1. shown = his[IF alive # {} THEN P!Fastest(his, alive) ELSE used]
      BY <1>8 DEF P!HistoryForDetour
    <2>2. used \notin alive BY <1>8, <1>2
    <2>3. CASE alive # {}
      <3>1. shown = his[P!Fastest(his, alive)] BY <2>1, <2>3
      <3> QED BY <1>2, <1>3, <1>4, <2>2, <2>3, <3>1
    <2>4. CASE alive = {} BY <2>1, <2>4, <1>1
    <2> QED BY <2>3, <2>4
  <1> QED BY <1>6, <1>7, <1>8

NodeOf(tag) == CHOOSE n \in P!Get(tag) : TRUE
LEMMA ProxyInitInv == PartsInit => ProxyInv
<1> SUFFICES ASSUME P!ProxyInit PROVE ProxyInv
  BY DEF PartsInit
<1>1. listed \in Boxes /\ history \in [P!AllTags -> {P!None}] /\ list = P!NoList /\ test = P!NoTest
  BY DEF P!ProxyInit
<1>2. PICK b \in Boxes : listed = b BY <1>1
<1>3. NowInv(b)
  <2>1. P!Tags(P!Groups) = GroupTags(b) BY <1>2, BoxRuns DEF GroupTags
  <2>2. now = [t \in GroupTags(b) |-> IF NodeOf(t).type = "selector" THEN Head(NodeOf(t).members)
                                      ELSE ""]
    BY <2>1 DEF P!ProxyInit, NodeOf
  <2>3. ASSUME NEW n \in GroupsOf(b) PROVE now[n.tag] \in P!Members(n) \cup {""}
    <3>1. n \in P!Of(b) /\ n.tag \in GroupTags(b) BY TagKinds
    <3>2. P!Get(n.tag) = {n} BY <1>2, <3>1, BoxRuns
    <3>3. NodeOf(n.tag) = n BY <3>2 DEF NodeOf
    <3>4. now[n.tag] = IF n.type = "selector" THEN Head(n.members) ELSE "" BY <2>2, <3>1, <3>3
    <3>5. Head(n.members) \in P!Members(n) BY BoxFacts
    <3> QED BY <3>4, <3>5
  <2>4. ASSUME NEW t \in GroupTags(b) PROVE now[t] \in P!AllTags \cup {""}
    <3>1. PICK n \in GroupsOf(b) : n.tag = t BY TagKinds
    <3>2. P!Members(n) \subseteq P!AllTags BY <3>1, TagKinds, BoxFacts
    <3> QED BY <2>3, <3>1, <3>2
  <2>5. now \in Uses(b) BY <2>2, <2>4 DEF Uses
  <2> QED BY <1>2, <2>3, <2>5 DEF NowInv, Choices
<1>4. HistoryInv(b)
  <2>1. \A t \in GroupTags(b) : t \in P!AllTags BY TagKinds, BoxFacts
  <2> QED BY <1>1, <2>1 DEF HistoryInv, Measured
<1>5. ListInv(b)
  <2>1. list.pc = "idle" BY <1>1 DEF P!NoList
  <2>2. ListShape BY <1>1 DEF ListShape, P!NoList
  <2> QED BY <2>1, <2>2 DEF ListInv, P!DelaysAreOfMembers, P!ListNamesWhatItShows
<1>6. TestInv(b)
  <2>1. test.pc = "idle" BY <1>1 DEF P!NoTest
  <2>2. TestTypes(b) BY <1>1 DEF TestTypes, P!NoTest
  <2> QED BY <2>1, <2>2 DEF TestInv, WalkInv, P!TestsReachTheLeaf
<1> QED BY <1>3, <1>4, <1>5, <1>6 DEF ProxyInv, ProxyInvOf

(* What a step that leaves alone the choices and the history, the list, or  *)
(* the test and the box keeps.                                              *)
LEMMA ChoicesStay ==
  ASSUME NEW b \in Boxes, NowInv(b), HistoryInv(b), UNCHANGED <<listed, now, history>>
  PROVE  NowInv(b)' /\ HistoryInv(b)'
  BY DEF NowInv, HistoryInv, Choices
LEMMA ListStays ==
  ASSUME NEW b \in Boxes, ListInv(b), UNCHANGED list
  PROVE  ListInv(b)'
  <1>1. P!DelaysAreOfMembers' = P!DelaysAreOfMembers BY DEF P!DelaysAreOfMembers
  <1>2. P!ListNamesWhatItShows' = P!ListNamesWhatItShows BY DEF P!ListNamesWhatItShows
  <1>3. ListShape' = ListShape BY DEF ListShape
  <1> QED BY <1>1, <1>2, <1>3 DEF ListInv
LEMMA TestStays ==
  ASSUME NEW b \in Boxes, TestInv(b), UNCHANGED <<listed, now, test>>
  PROVE  TestInv(b)'
  <1>1. P!TestsReachTheLeaf' = P!TestsReachTheLeaf
    BY DEF P!TestsReachTheLeaf, P!Leaf, P!Get, P!Outbounds, P!Groups
  <1> QED BY <1>1 DEF TestInv, TestTypes, WalkInv, Downhill, Trail

LEMMA ConvertKeeps ==
  ASSUME NEW b \in Boxes, ProxyInvOf(b), NEW only \in BOOLEAN, P!Convert(only)
  PROVE  ProxyInvOf(b)'
<1>1. UNCHANGED <<listed, now, history, test>> BY DEF P!Convert
<1>2. NowInv(b)' /\ HistoryInv(b)' /\ TestInv(b)'
  BY <1>1, ChoicesStay, TestStays DEF ProxyInvOf
<1>3. listed = b BY DEF P!Convert, ProxyInvOf, NowInv
<1>4. Choices(b, now) /\ history \in [P!AllTags -> Measured] /\ \A t \in GroupTags(b) : history[t] = P!None
  BY DEF ProxyInvOf, NowInv, HistoryInv
<1>5. PICK his : his = P!OutboundsHistory OBVIOUS
<1>6. his \in [P!AllTags -> Measured] /\ \A t \in GroupTags(b) : his[t] = P!None
  <2>1. P!None \in Measured BY DEF Measured
  <2>2. GroupTags(b) \subseteq P!AllTags BY TagKinds, BoxFacts
  <2> QED BY <1>4, <1>5, <2>1, <2>2 DEF P!OutboundsHistory
<1>7. PICK info : info = [t \in P!Tags(P!Outbounds) |-> P!GetProxyInfo(P!OutboundsHistory, NodeOf(t))]
  OBVIOUS
<1>8. list' = [P!NoList EXCEPT !.pc = "convert", !.only = only, !.his = his, !.info = info, !.box = b]
  BY <1>3, <1>5, <1>7 DEF P!Convert, NodeOf
<1>9. \A n \in P!Of(b) : n.tag \in TagsOf(b) /\ info[n.tag] = P!GetProxyInfo(his, n)
  <2> SUFFICES ASSUME NEW n \in P!Of(b)
               PROVE  n.tag \in TagsOf(b) /\ info[n.tag] = P!GetProxyInfo(his, n)
    OBVIOUS
  <2>1. P!Get(n.tag) = {n} BY <1>3, BoxRuns
  <2>2. NodeOf(n.tag) = n BY <2>1 DEF NodeOf
  <2>3. n.tag \in TagsOf(b) /\ P!Tags(P!Outbounds) = TagsOf(b) BY <1>3, BoxRuns, BoxFacts DEF TagsOf
  <2> QED BY <1>5, <1>7, <2>2, <2>3
<1>10. /\ list'.pc = "convert" /\ list'.his = his /\ list'.info = info /\ list'.box = b
       /\ ListShape'
  BY <1>8 DEF P!NoList, ListShape
<1>11. info \in [TagsOf(b) -> Infos]
  <2>1. ASSUME NEW t \in TagsOf(b) PROVE info[t] \in Infos
    <3>1. PICK n \in P!Of(b) : n.tag = t BY DEF TagsOf, P!Tags
    <3>2. P!RealTag(n) \in P!AllTags /\ t \in P!AllTags BY <1>4, RealTagIs, BoxFacts
    <3>3. P!HistoryForDetour(his, n) \in Measured BY <1>4, <1>6, DelayIs
    <3>4. P!IsGroup(n) \in BOOLEAN BY DEF P!IsGroup
    <3>5. P!GetProxyInfo(his, n) = [tag |-> n.tag, delay |-> P!HistoryForDetour(his, n),
            isGroup |-> P!IsGroup(n), using |-> P!RealTag(n), selected |-> FALSE]
      BY DEF P!GetProxyInfo
    <3>6. info[t] = P!GetProxyInfo(his, n) BY <1>9, <3>1
    <3> QED BY <3>1, <3>2, <3>3, <3>4, <3>5, <3>6 DEF Infos
  <2>2. P!Tags(P!Outbounds) = TagsOf(b) BY <1>3, BoxRuns DEF TagsOf
  <2> QED BY <1>7, <2>1, <2>2
<1>12. P!DelaysAreOfMembers'
  <2> SUFFICES ASSUME NEW n \in P!Of(b), P!IsGroup(n)
               PROVE  LET alive == {t \in P!Members(n) : his[t] > 0 /\ his[t] < P!FailDelay}
                          shown == info[n.tag]
                      IN  /\ alive # {} => \E t \in alive : shown.delay = his[t]
                          /\ alive # {} => IF shown.using \in alive
                                           THEN shown.delay = his[shown.using]
                                           ELSE \A t \in alive : shown.delay <= his[t]
                          /\ shown.delay = P!FailDelay => alive = {}
    BY <1>10 DEF P!DelaysAreOfMembers
  <2>1. P!Members(n) \subseteq P!AllTags BY BoxFacts
  <2>2. P!Alive(his, P!Members(n)) = {t \in P!Members(n) : his[t] > 0 /\ his[t] < P!FailDelay}
    BY <1>6, <2>1, AliveIs DEF P!Alive
  <2>3. n \in GroupsOf(b) /\ n.tag \in GroupTags(b) BY TagKinds DEF GroupsOf
  <2>4. info[n.tag].delay = P!HistoryForDetour(his, n) /\ info[n.tag].using = P!RealTag(n)
    <3>1. P!GetProxyInfo(his, n) = [tag |-> n.tag, delay |-> P!HistoryForDetour(his, n),
            isGroup |-> P!IsGroup(n), using |-> P!RealTag(n), selected |-> FALSE]
      BY DEF P!GetProxyInfo
    <3>2. info[n.tag] = P!GetProxyInfo(his, n) BY <1>9
    <3> QED BY <3>1, <3>2
  <2>5. his[n.tag] = P!None BY <1>6, <2>3
  <2>6. LET shown == P!HistoryForDetour(his, n)
            alive == P!Alive(his, P!Members(n))
        IN  /\ alive # {} => \E t \in alive : shown = his[t]
            /\ alive # {} => IF P!RealTag(n) \in alive THEN shown = his[P!RealTag(n)]
                             ELSE \A t \in alive : shown <= his[t]
            /\ shown = P!FailDelay => alive = {}
    BY <1>4, <1>6, <2>5, DelayIs
  <2> QED BY <2>2, <2>4, <2>6
<1>13. P!ListNamesWhatItShows' BY <1>10 DEF P!ListNamesWhatItShows
<1>14. ListInv(b)' BY <1>10, <1>11, <1>12, <1>13 DEF ListInv
<1> QED BY <1>2, <1>14 DEF ProxyInvOf

NamesWhatItShowsAt(groups, info, i) ==
  LET g == groups[i]
      later == UNION {groups[j].items : j \in {j \in DOMAIN groups : j > i}}
  IN  /\ g.items \subseteq DOMAIN info
      /\ g.selected # "" => g.selected \in g.items
      /\ \A t \in g.items \ later : info[t].selected <=> t = g.selected
NamesWhatItShows(groups, info) == \A i \in DOMAIN groups : NamesWhatItShowsAt(groups, info, i)
(* The mark of an item is what the last group that lists it says.           *)
LEMMA MarkIsOfLast ==
  ASSUME NEW groups, DOMAIN groups \subseteq Nat, NEW i \in DOMAIN groups, NEW t \in groups[i].items,
         \A j \in DOMAIN groups : j > i => t \notin groups[j].items
  PROVE  P!Mark(groups, t) <=> t = groups[i].selected
  <1> DEFINE said == {k \in DOMAIN groups : t \in groups[k].items}
             last == CHOOSE k \in said : \A j \in said : j <= k
  <1>1. i \in said /\ \A j \in said : j \in Nat /\ ~(j > i) OBVIOUS
  <1>2. \A j \in said : j <= i BY <1>1
  <1>3. last \in said /\ \A j \in said : j <= last BY <1>1, <1>2
  <1>4. last = i BY <1>1, <1>2, <1>3
  <1> QED BY <1>1, <1>4 DEF P!Mark

LEMMA GetAllProxiesInfoKeeps ==
  ASSUME NEW b \in Boxes, ProxyInvOf(b), P!GetAllProxiesInfo
  PROVE  ProxyInvOf(b)'
<1>1. UNCHANGED <<listed, now, history, test>> BY DEF P!GetAllProxiesInfo
<1>2. NowInv(b)' /\ HistoryInv(b)' /\ TestInv(b)'
  BY <1>1, ChoicesStay, TestStays DEF ProxyInvOf
<1>3. list.pc = "convert" /\ ListShape BY DEF P!GetAllProxiesInfo, ProxyInvOf, ListInv
<1>4. list.box = b /\ list.info \in [TagsOf(b) -> Infos] /\ P!DelaysAreOfMembers
  BY <1>3 DEF ProxyInvOf, ListInv
<1>5. Choices(b, now) BY DEF ProxyInvOf, NowInv
<1>6. PICK groups : groups =
        [i \in {i \in DOMAIN b.outs : P!IsGroup(b.outs[i]) /\ P!Items(b.outs[i]) # {}} |->
           P!Listed(b.outs[i])]
  OBVIOUS
<1>7. PICK info : info = [t \in DOMAIN list.info |-> [list.info[t] EXCEPT !.selected = P!Mark(groups, t)]]
  OBVIOUS
<1>8. list' = [list EXCEPT !.pc = "sent", !.groups = groups, !.info = info]
  BY <1>4, <1>6, <1>7 DEF P!GetAllProxiesInfo
<1>9. /\ list'.pc = "sent" /\ list'.groups = groups /\ list'.info = info
      /\ list'.box = list.box /\ list'.his = list.his /\ ListShape'
  <2>1. PICK pc, only, his, was, gs, of : list = [pc |-> pc, only |-> only, his |-> his,
                                                  info |-> was, groups |-> gs, box |-> of]
    BY <1>3 DEF ListShape
  <2>2. list' = [pc |-> "sent", only |-> only, his |-> his, info |-> info, groups |-> groups,
                 box |-> of]
    BY <1>8, <2>1
  <2>3. ListShape' BY <2>2 DEF ListShape
  <2> QED BY <2>1, <2>2, <2>3
<1>10. \A t \in TagsOf(b) : /\ info[t] \in Infos /\ info[t].delay = list.info[t].delay
                            /\ info[t].using = list.info[t].using
                            /\ info[t].selected = P!Mark(groups, t)
  <2> SUFFICES ASSUME NEW t \in TagsOf(b)
               PROVE  /\ info[t] \in Infos /\ info[t].delay = list.info[t].delay
                      /\ info[t].using = list.info[t].using
                      /\ info[t].selected = P!Mark(groups, t)
    OBVIOUS
  <2>1. list.info[t] \in Infos BY <1>4
  <2>2. P!Mark(groups, t) \in BOOLEAN BY DEF P!Mark
  <2>3. info[t] = [list.info[t] EXCEPT !.selected = P!Mark(groups, t)] BY <1>4, <1>7
  <2> QED BY <2>1, <2>2, <2>3 DEF Infos
<1>11. info \in [TagsOf(b) -> Infos] BY <1>4, <1>7, <1>10
<1>12. P!DelaysAreOfMembers'
  <2>1. \A n \in P!Of(b) : /\ list'.info[n.tag].delay = list.info[n.tag].delay
                           /\ list'.info[n.tag].using = list.info[n.tag].using
    BY <1>9, <1>10, BoxFacts
  <2>2. list.pc # "idle" /\ list'.box = b BY <1>3, <1>4, <1>9
  <2> QED BY <1>4, <1>9, <2>1, <2>2 DEF P!DelaysAreOfMembers
<1>13. P!ListNamesWhatItShows'
  <2>a. NamesWhatItShows(list'.groups, list'.info) => P!ListNamesWhatItShows'
    BY Zenon DEF NamesWhatItShows, NamesWhatItShowsAt, P!ListNamesWhatItShows
  <2> SUFFICES ASSUME NEW i \in DOMAIN groups PROVE NamesWhatItShowsAt(groups, info, i)
    BY <1>9, <2>a DEF NamesWhatItShows
  <2>1. i \in DOMAIN b.outs /\ P!IsGroup(b.outs[i]) /\ groups[i] = P!Listed(b.outs[i])
    BY <1>6
  <2>2. b.outs \in Seq(P!Of(b)) BY BoxFacts
  <2>3. PICK n \in P!Of(b) : n = b.outs[i] BY <2>1, <2>2
  <2>4. n \in GroupsOf(b) BY <2>1, <2>3 DEF GroupsOf
  <2>5. groups[i].items = P!Items(n) /\ groups[i].selected = now[n.tag]
    BY <2>1, <2>3 DEF P!Listed
  <2>6. DOMAIN info = TagsOf(b) /\ DOMAIN list.info = TagsOf(b) BY <1>4, <1>11
  <2>7. P!Items(n) \subseteq TagsOf(b) BY <2>6 DEF P!Items
  <2>8. now[n.tag] # "" => now[n.tag] \in P!Items(n)
    <3>1. now[n.tag] \in P!Members(n) \cup {""} BY <1>5, <2>4 DEF Choices
    <3>2. P!Members(n) \subseteq TagsOf(b) BY BoxFacts
    <3> QED BY <2>6, <3>1, <3>2 DEF P!Items
  <2>9. DOMAIN groups \subseteq Nat
    <3>1. DOMAIN b.outs \subseteq Nat BY <2>2
    <3> QED BY <1>6, <3>1
  <2>10. ASSUME NEW t \in groups[i].items, \A j \in DOMAIN groups : j > i => t \notin groups[j].items
         PROVE  info[t].selected <=> t = groups[i].selected
    <3>1. P!Mark(groups, t) <=> t = groups[i].selected BY <2>9, <2>10, MarkIsOfLast
    <3>2. info[t].selected = P!Mark(groups, t) BY <1>10, <2>5, <2>7
    <3> QED BY <3>1, <3>2
  <2>11. groups[i].items \subseteq DOMAIN info BY <2>5, <2>6, <2>7
  <2>12. groups[i].selected # "" => groups[i].selected \in groups[i].items BY <2>5, <2>8
  <2> QED BY <2>10, <2>11, <2>12 DEF NamesWhatItShowsAt
<1>14. ListInv(b)' BY <1>4, <1>9, <1>11, <1>12, <1>13 DEF ListInv
<1> QED BY <1>2, <1>14 DEF ProxyInvOf

(* Another choice, of a member: a walk under way is no longer steady.       *)
LEMMA PropertyStays ==
  ASSUME P!TestsReachTheLeaf, UNCHANGED listed,
         test'.pc = "probing" => /\ test.pc = "probing" /\ test'.targets = test.targets
                                 /\ test'.active = test.active /\ test'.steady = test.steady
                                 /\ test'.now = test.now
  PROVE  P!TestsReachTheLeaf'
  <1> DEFINE Reaches(targets, active, steady, uses) ==
        /\ targets \subseteq P!Leaf(P!AllTags)
        /\ (active /\ steady) =>
             IF P!Leaf(P!Reached(uses)) # {} THEN targets = P!Leaf(P!Reached(uses))
             ELSE \E n \in P!Groups : /\ n.tag \in P!Reached(uses) /\ uses[n.tag] = ""
                                      /\ targets = P!Leaf(P!Members(n))
  <1>1. CASE test'.pc # "probing" BY <1>1 DEF P!TestsReachTheLeaf
  <1>2. CASE test'.pc = "probing"
    <2>1. listed # P!NoBox => Reaches(test.targets, test.active, test.steady, test.now)
      BY <1>2 DEF P!TestsReachTheLeaf
    <2>2. listed # P!NoBox => Reaches(test'.targets, test'.active, test'.steady, test'.now)
      BY <1>2, <2>1
    <2>3. \A tags : P!Leaf(tags)' = P!Leaf(tags) BY DEF P!Leaf, P!Get, P!Outbounds
    <2>4. P!Groups' = P!Groups BY DEF P!Groups, P!Outbounds
    <2> QED BY <2>2, <2>3, <2>4 DEF P!TestsReachTheLeaf
  <1> QED BY <1>1, <1>2
LEMMA ChosenKeeps ==
  ASSUME NEW b \in Boxes, ProxyInvOf(b), UNCHANGED <<listed, history, list>>,
         Choices(b, now'), P!Chosen
  PROVE  ProxyInvOf(b)'
<1>1. TestTypes(b) /\ WalkInv(b) /\ P!TestsReachTheLeaf BY DEF ProxyInvOf, TestInv
<1>2. test' = [test EXCEPT !.steady = test.steady /\ test.pc \notin {"walk", "found"}]
  BY DEF P!Chosen
<1>3. /\ TestTypes(b)' /\ test'.pc = test.pc /\ test'.active = test.active /\ test'.at = test.at
      /\ test'.seen = test.seen /\ test'.targets = test.targets /\ test'.now = test.now
      /\ test'.steady = (test.steady /\ test.pc \notin {"walk", "found"})
  BY <1>1, <1>2 DEF TestTypes
<1>4. test.steady \in BOOLEAN BY <1>1 DEF TestTypes
<1>5. P!TestsReachTheLeaf'
  <2>1. test'.pc = "probing" => test'.steady = test.steady BY <1>3, <1>4
  <2> QED BY <1>1, <1>3, <2>1, PropertyStays
<1>6. WalkInv(b)' BY <1>1, <1>3 DEF WalkInv, Downhill
<1>7. NowInv(b)' /\ HistoryInv(b)' BY DEF ProxyInvOf, NowInv, HistoryInv, Choices
<1>8. ListInv(b)' BY ListStays DEF ProxyInvOf
<1> QED BY <1>3, <1>5, <1>6, <1>7, <1>8 DEF ProxyInvOf, TestInv
LEMMA OtherChoice ==
  ASSUME NEW b \in Boxes, Choices(b, now), NEW n \in GroupsOf(b), NEW t \in P!Members(n)
  PROVE  Choices(b, [now EXCEPT ![n.tag] = t])
  <1>1. P!Members(n) \subseteq P!AllTags /\ \A m \in GroupsOf(b) : m.tag = n.tag => m = n
    BY BoxFacts, TagKinds
  <1>2. now \in Uses(b) /\ \A m \in GroupsOf(b) : now[m.tag] \in P!Members(m) \cup {""}
    BY DEF Choices
  <1>3. [now EXCEPT ![n.tag] = t] \in Uses(b) BY <1>1, <1>2 DEF Uses
  <1>4. DOMAIN now = GroupTags(b) BY <1>2 DEF Uses
  <1>5. ASSUME NEW m \in GroupsOf(b)
        PROVE [now EXCEPT ![n.tag] = t][m.tag] \in P!Members(m) \cup {""}
    <2>1. m.tag \in DOMAIN now BY <1>4, TagKinds
    <2>2. CASE m.tag = n.tag BY <1>1, <2>1, <2>2
    <2>3. CASE m.tag # n.tag BY <1>2, <2>1, <2>3
    <2> QED BY <2>2, <2>3
  <1> QED BY <1>3, <1>5 DEF Choices
LEMMA Runs ==
  ASSUME NEW b \in Boxes, NowInv(b), P!Outbounds # {}
  PROVE  listed = b
  BY BoxIsGone DEF NowInv
LEMMA SelectOutboundKeeps ==
  ASSUME NEW b \in Boxes, ProxyInvOf(b), NEW group \in P!Tags(P!Outbounds),
         NEW tag \in P!Tags(P!Outbounds), P!SelectOutbound(group, tag)
  PROVE  ProxyInvOf(b)'
<1>1. UNCHANGED <<listed, history, list>> /\ P!Chosen BY DEF P!SelectOutbound
<1>2. P!Outbounds # {} BY DEF P!Tags
<1>3. listed = b BY <1>2, Runs DEF ProxyInvOf
<1>4. Choices(b, now) BY DEF ProxyInvOf, NowInv
<1>5. CASE \E n \in P!Get(group) : n.type = "selector" /\ tag \in P!Members(n)
  <2>1. PICK n \in P!Get(group) : n.type = "selector" /\ tag \in P!Members(n) BY <1>5
  <2>2. n.tag = group /\ n \in P!Of(b) BY <1>3, BoxRuns DEF P!Get
  <2>3. n \in GroupsOf(b) BY <2>1, <2>2 DEF GroupsOf, P!IsGroup, P!GroupTypes
  <2>4. now' = [now EXCEPT ![n.tag] = tag] BY <1>5, <2>2 DEF P!SelectOutbound
  <2>5. Choices(b, now') BY <1>4, <2>1, <2>3, <2>4, OtherChoice
  <2> QED BY <1>1, <2>5, ChosenKeeps
<1>6. CASE ~\E n \in P!Get(group) : n.type = "selector" /\ tag \in P!Members(n)
  <2>1. now' = now BY <1>6 DEF P!SelectOutbound
  <2> QED BY <1>1, <1>4, <2>1, ChosenKeeps
<1> QED BY <1>5, <1>6
LEMMA BalanceKeeps ==
  ASSUME NEW b \in Boxes, ProxyInvOf(b), NEW n \in P!Groups, P!Balance(n)
  PROVE  ProxyInvOf(b)'
<1>1. UNCHANGED <<listed, history, list>> /\ P!Chosen BY DEF P!Balance
<1>2. P!Outbounds # {} BY DEF P!Groups
<1>3. listed = b BY <1>2, Runs DEF ProxyInvOf
<1>4. Choices(b, now) /\ n \in GroupsOf(b) BY <1>3, BoxRuns DEF ProxyInvOf, NowInv
<1>5. PICK t \in P!Members(n) : now' = [now EXCEPT ![n.tag] = t] BY DEF P!Balance, P!Alive
<1>6. Choices(b, now') BY <1>4, <1>5, OtherChoice
<1> QED BY <1>1, <1>6, ChosenKeeps

(* A measurement, the end of a test, and that of the box.                   *)
LEMMA TestDialerKeeps ==
  ASSUME NEW b \in Boxes, ProxyInvOf(b), NEW tag \in P!AllTags, P!TestDialer(tag)
  PROVE  ProxyInvOf(b)'
<1>1. UNCHANGED <<listed, now, list>> BY DEF P!TestDialer
<1>2. TestTypes(b) /\ P!TestsReachTheLeaf BY DEF ProxyInvOf, TestInv
<1>3. test.pc = "probing" /\ tag \in test.todo /\ test' = [test EXCEPT !.todo = test.todo \ {tag}]
  BY DEF P!TestDialer
<1>4. TestTypes(b)' /\ test'.pc = "probing" BY <1>2, <1>3 DEF TestTypes
<1>5. P!TestsReachTheLeaf'
  <2>1. /\ test'.targets = test.targets /\ test'.active = test.active
        /\ test'.steady = test.steady /\ test'.now = test.now
    BY <1>2, <1>3 DEF TestTypes
  <2> QED BY <1>1, <1>2, <1>3, <2>1, PropertyStays
<1>6. WalkInv(b)' BY <1>4 DEF WalkInv
<1>7. PICK d \in Measured : history' = [history EXCEPT ![tag] = d]
  BY DEF P!TestDialer, Measured
<1>8. HistoryInv(b)'
  <2>1. tag \in LeafTags(b) BY <1>2, <1>3 DEF TestTypes
  <2>2. tag \notin GroupTags(b) BY <2>1, TagKinds
  <2>3. GroupTags(b) \subseteq P!AllTags BY TagKinds, BoxFacts
  <2> QED BY <1>7, <2>2, <2>3 DEF ProxyInvOf, HistoryInv
<1>9. NowInv(b)' BY <1>1 DEF ProxyInvOf, NowInv, Choices
<1>10. ListInv(b)' BY <1>1, ListStays DEF ProxyInvOf
<1> QED BY <1>4, <1>5, <1>6, <1>8, <1>9, <1>10 DEF ProxyInvOf, TestInv
LEMMA TestReturnsKeeps ==
  ASSUME NEW b \in Boxes, ProxyInvOf(b), P!TestReturns
  PROVE  ProxyInvOf(b)'
<1>1. UNCHANGED <<listed, now, history, list>> BY DEF P!TestReturns
<1>2. TestTypes(b) BY DEF ProxyInvOf, TestInv
<1>3. TestTypes(b)' /\ test'.pc = "done" BY <1>2 DEF TestTypes, P!TestReturns
<1>4. TestInv(b)' BY <1>3 DEF TestInv, WalkInv, P!TestsReachTheLeaf
<1> QED BY <1>1, <1>4, ChoicesStay, ListStays DEF ProxyInvOf
LEMMA BoxGoneKeeps ==
  ASSUME NEW b \in Boxes, ProxyInvOf(b), P!BoxGone
  PROVE  ProxyInvOf(b)'
<1>1. listed' = P!NoBox /\ UNCHANGED <<now, list>> BY DEF P!BoxGone
<1>2. TestTypes(b)'
  <2>1. TestTypes(b) BY DEF ProxyInvOf, TestInv
  <2> QED BY <2>1 DEF TestTypes, P!BoxGone
<1>3. TestInv(b)' BY <1>1, <1>2 DEF TestInv, WalkInv, P!TestsReachTheLeaf
<1>4. NowInv(b)' BY <1>1 DEF ProxyInvOf, NowInv, Choices
<1>5. HistoryInv(b)'
  <2>1. GroupTags(b) \subseteq P!AllTags BY TagKinds, BoxFacts
  <2>2. history' = [t \in P!AllTags |-> P!None] BY DEF P!BoxGone
  <2> QED BY <2>1, <2>2 DEF HistoryInv, Measured
<1>6. ListInv(b)' BY <1>1, ListStays DEF ProxyInvOf
<1> QED BY <1>3, <1>4, <1>5, <1>6 DEF ProxyInvOf

(* What a test of a tag probes: leaves.                                     *)
LEMMA TestNowIs ==
  ASSUME NEW b \in Boxes, listed = b, Choices(b, now)
  PROVE  /\ \A tag : P!TestNow(tag) \subseteq LeafTags(b)
         /\ \A t \in LeafTags(b) : P!TestNow(t) = {t}
         /\ \A n \in GroupsOf(b) : now[n.tag] = "" => P!TestNow(n.tag) = P!Leaf(P!Members(n))
<1>1. \A n \in GroupsOf(b) : P!TestGroupLeaves(n) \subseteq LeafTags(b)
  BY BoxRuns DEF P!TestGroupLeaves
<1>2. \A tag : \A n \in P!Get(tag) : n \in P!Of(b) /\ n.tag = tag BY BoxRuns DEF P!Get
<1>3. ASSUME NEW tag PROVE P!TestNow(tag) \subseteq LeafTags(b)
  <2>1. ASSUME NEW n \in P!Get(tag)
        PROVE  (IF P!IsGroup(n) THEN P!TestGroupLeaves(n) ELSE {n.tag}) \subseteq LeafTags(b)
    <3>1. n \in P!Of(b) BY <1>2
    <3>2. CASE P!IsGroup(n) BY <1>1, <3>1, <3>2 DEF GroupsOf
    <3>3. CASE ~P!IsGroup(n) BY <3>1, <3>3 DEF LeafTags, P!Tags
    <3> QED BY <3>2, <3>3
  <2> QED BY <2>1 DEF P!TestNow
<1>4. ASSUME NEW t \in LeafTags(b) PROVE P!TestNow(t) = {t}
  <2>1. PICK n \in P!Of(b) : n.tag = t /\ ~P!IsGroup(n) BY DEF LeafTags, P!Tags
  <2>2. P!Get(t) = {n} BY <2>1, BoxRuns
  <2> QED BY <2>1, <2>2 DEF P!TestNow
<1>5. ASSUME NEW n \in GroupsOf(b), now[n.tag] = "" PROVE P!TestNow(n.tag) = P!Leaf(P!Members(n))
  <2>1. n \in P!Of(b) /\ P!IsGroup(n) BY DEF GroupsOf
  <2>2. P!Get(n.tag) = {n} BY <2>1, BoxRuns
  <2>3. P!TestNow(n.tag) = P!TestGroupLeaves(n) BY <2>1, <2>2 DEF P!TestNow
  <2>4. "" \notin LeafTags(b) BY NoNode, TagKinds, BoxFacts
  <2>5. P!Leaf({now[n.tag]}) = {}
    <3>1. \A x : x \in {now[n.tag]} => x \notin LeafTags(b) BY <1>5, <2>4
    <3>2. P!Leaf({now[n.tag]}) = {now[n.tag]} \cap LeafTags(b) BY BoxRuns
    <3> QED BY <3>1, <3>2
  <2> QED BY <2>3, <2>5 DEF P!TestGroupLeaves
<1> QED BY <1>3, <1>4, <1>5

(* What is used by the selector, or by what was reached, is reached.        *)
LEMMA ReachedOn ==
  ASSUME NEW b \in Boxes, NEW uses, Choices(b, uses), NEW t \in GroupTags(b), uses[t] # "",
         t = "select" \/ t \in P!Reached(uses)
  PROVE  uses[t] \in P!Reached(uses) /\ uses[t] \in TagsOf(b)
  <1>1. PICK n \in GroupsOf(b) : n.tag = t BY TagKinds
  <1>2. uses[t] \in P!Members(n) BY <1>1 DEF Choices
  <1>3. uses[t] \in TagsOf(b) /\ uses[t] \in P!AllTags BY <1>1, <1>2, BoxFacts, TagKinds
  <1>4. ASSUME NEW tags \in SUBSET P!AllTags, "select" \in tags, P!Follows(tags, uses)
        PROVE  uses[t] \in tags
    <2>1. t \in tags BY <1>4 DEF P!Reached
    <2>2. t \in DOMAIN uses BY DEF Choices, Uses
    <2> QED BY <1>4, <2>1, <2>2 DEF P!Follows
  <1> QED BY <1>3, <1>4 DEF P!Reached

LEMMA UrlTestKeeps ==
  ASSUME NEW b \in Boxes, ProxyInvOf(b), NEW tag \in P!AllTags, P!UrlTest(tag)
  PROVE  ProxyInvOf(b)'
<1>1. UNCHANGED <<listed, now, history, list>> BY DEF P!UrlTest, P!Starts
<1>2. test' = [P!NoTest EXCEPT !.pc = "found", !.at = tag] BY DEF P!UrlTest, P!Starts
<1>3. TestTypes(b)' /\ test'.pc = "found" /\ test'.active = FALSE
  BY <1>2 DEF TestTypes, P!NoTest
<1>4. TestInv(b)' BY <1>3 DEF TestInv, WalkInv, P!TestsReachTheLeaf
<1> QED BY <1>1, <1>4, ChoicesStay, ListStays DEF ProxyInvOf
LEMMA UrlTestActiveKeeps ==
  ASSUME NEW b \in Boxes, ProxyInvOf(b), P!UrlTestActive
  PROVE  ProxyInvOf(b)'
<1>1. UNCHANGED <<listed, now, history, list>> /\ now["select"] # ""
  BY DEF P!UrlTestActive, P!Starts
<1>2. test' = [P!NoTest EXCEPT !.pc = "walk", !.active = TRUE, !.at = now["select"],
                 !.seen = {now["select"]}, !.now = now]
  BY DEF P!UrlTestActive, P!Starts
<1>3. Choices(b, now) BY DEF ProxyInvOf, NowInv
<1>4. now["select"] \in TagsOf(b) /\ now["select"] \in P!Reached(now) /\ now["select"] \in P!AllTags
  BY <1>1, <1>3, ReachedOn, TagKinds, BoxFacts
<1>5. /\ test'.pc = "walk" /\ test'.at = now["select"] /\ test'.seen = {now["select"]}
      /\ test'.now = now
  BY <1>2 DEF P!NoTest
<1>6. TestTypes(b)'
  <2>1. now \in Uses(b) BY <1>3 DEF Choices
  <2> QED BY <1>2, <1>4, <2>1 DEF TestTypes, P!NoTest
<1>7. Downhill(b)'
  <2>1. RankOf(b)[now["select"]] \in Nat BY <1>4, RankIsThere
  <2> QED BY <1>4, <1>5, <2>1 DEF Downhill
<1>8. Trail(b)'
  <2>1. now' = now BY <1>1
  <2>2. test'.seen \ {test'.at} = {} BY <1>5
  <2>3. test'.seen \subseteq P!Reached(now) BY <1>4, <1>5
  <2> QED BY <1>5, <2>1, <2>2, <2>3 DEF Trail, P!Reached, P!Follows
<1>9. TestInv(b)' BY <1>5, <1>6, <1>7, <1>8 DEF TestInv, WalkInv, P!TestsReachTheLeaf
<1> QED BY <1>1, <1>9, ChoicesStay, ListStays DEF ProxyInvOf
LEMMA WalkKeeps ==
  ASSUME NEW b \in Boxes, ProxyInvOf(b), P!Walk
  PROVE  ProxyInvOf(b)'
<1>1. UNCHANGED <<listed, now, history, list>> /\ test.pc = "walk" BY DEF P!Walk
<1>2. TestTypes(b) /\ WalkInv(b) /\ Choices(b, now) /\ (listed = b \/ listed = P!NoBox)
  BY DEF ProxyInvOf, TestInv, NowInv
<1>3. ASSUME listed = b, test.active
      PROVE  /\ Downhill(b) /\ (test.steady => Trail(b))
    BY <1>1, <1>2, <1>3, BoxFacts DEF WalkInv
<1>4. CASE \E n \in P!Get(test.at) : P!IsGroup(n) /\ now[n.tag] \notin test.seen \cup {""}
  <2>1. PICK n \in P!Get(test.at) : P!IsGroup(n) /\ now[n.tag] \notin test.seen \cup {""} BY <1>4
  <2>2. listed = b BY <2>1, <1>2, BoxIsGone
  <2>3. n \in P!Of(b) /\ n.tag = test.at BY <2>1, <2>2, BoxRuns DEF P!Get
  <2>4. n \in GroupsOf(b) BY <2>1, <2>3 DEF GroupsOf
  <2>5. PICK next : next = now[test.at] OBVIOUS
  <2>6. next \in P!Members(n) /\ next # "" /\ next \notin test.seen
    BY <1>2, <2>1, <2>3, <2>4, <2>5 DEF Choices
  <2>7. next \in TagsOf(b) /\ next \in P!AllTags /\ test.at \in TagsOf(b)
    BY <2>3, <2>6, BoxFacts
  <2>8. test' = [test EXCEPT !.at = next, !.seen = test.seen \cup {next}]
    BY <1>4, <2>5 DEF P!Walk
  <2>9. TestTypes(b)' BY <1>2, <2>7, <2>8 DEF TestTypes
  <2>10. /\ test'.pc = "walk" /\ test'.active = test.active /\ test'.at = next
         /\ test'.seen = test.seen \cup {next} /\ test'.now = test.now /\ test'.steady = test.steady
    BY <1>1, <1>2, <2>8 DEF TestTypes
  <2>11. ASSUME test.active PROVE Downhill(b)'
    <3>1. Downhill(b) BY <1>3, <2>2, <2>11
    <3>2. RankOf(b) \in [TagsOf(b) -> Nat] /\ RankOf(b)[next] < RankOf(b)[test.at]
      BY <2>3, <2>6, RankIsThere DEF Ranks
    <3>3. \A t \in test.seen : RankOf(b)[t] \in Nat /\ RankOf(b)[test.at] <= RankOf(b)[t]
      BY <3>1, <3>2 DEF Downhill
    <3>4. \A t \in test.seen \cup {next} : RankOf(b)[next] <= RankOf(b)[t]
      BY <2>7, <3>2, <3>3
    <3>5. test.seen \cup {next} \subseteq TagsOf(b) BY <2>7, <3>1 DEF Downhill
    <3> QED BY <2>10, <3>4, <3>5 DEF Downhill
  <2>12. ASSUME test.active, test.steady PROVE Trail(b)'
    <3>1. Downhill(b) /\ Trail(b) BY <1>3, <2>2, <2>12
    <3>2. test.at \in GroupTags(b) /\ test.at \in P!Reached(now) /\ now[test.at] # ""
      BY <2>3, <2>4, <2>5, <2>6, <3>1, TagKinds DEF Downhill, Trail
    <3>3. next \in P!Reached(now) BY <1>2, <2>5, <3>2, ReachedOn
    <3>4. \A t \in (test.seen \cup {next}) \ {next} : t \in GroupTags(b) /\ now[t] \in test.seen \cup {next}
      BY <2>5, <3>1, <3>2 DEF Trail
    <3>5. test.seen \cup {next} \subseteq P!Reached(now) BY <3>1, <3>3 DEF Trail
    <3>6. now' = now /\ now = test.now /\ now["select"] \in test.seen BY <1>1, <3>1 DEF Trail
    <3>7. P!Reached(now)' = P!Reached(now) BY <3>6 DEF P!Reached, P!Follows
    <3> QED BY <2>10, <3>4, <3>5, <3>6, <3>7 DEF Trail
  <2>13. WalkInv(b)' BY <2>10, <2>11, <2>12 DEF WalkInv
  <2>14. P!TestsReachTheLeaf' BY <2>10 DEF P!TestsReachTheLeaf
  <2> QED BY <1>1, <2>9, <2>13, <2>14, ChoicesStay, ListStays DEF ProxyInvOf, TestInv
<1>5. CASE ~\E n \in P!Get(test.at) : P!IsGroup(n) /\ now[n.tag] \notin test.seen \cup {""}
  <2>1. test' = [test EXCEPT !.pc = "found"] BY <1>5 DEF P!Walk
  <2>2. TestTypes(b)' /\ test'.pc = "found" BY <1>2, <2>1 DEF TestTypes
  <2>3. /\ test'.active = test.active /\ test'.at = test.at /\ test'.seen = test.seen
        /\ test'.now = test.now /\ test'.steady = test.steady
    BY <1>2, <2>1 DEF TestTypes
  <2>4. ASSUME listed = b, test.active, test.at \in GroupTags(b) PROVE now[test.at] = ""
    <3>1. Downhill(b) BY <1>3, <2>4
    <3>2. PICK n \in GroupsOf(b) : n.tag = test.at BY <2>4, TagKinds
    <3>3. n \in P!Of(b) /\ P!IsGroup(n) BY DEF GroupsOf
    <3>4. P!Get(test.at) = {n} BY <2>4, <3>2, <3>3, BoxRuns
    <3>5. now[test.at] \in test.seen \cup {""} BY <1>5, <3>2, <3>3, <3>4
    <3>6. now[test.at] \in P!Members(n) \cup {""} BY <1>2, <3>2 DEF Choices
    <3>7. ASSUME now[test.at] \in test.seen, now[test.at] \in P!Members(n) PROVE FALSE
      <4>1. RankOf(b)[now[test.at]] < RankOf(b)[test.at]
        BY <3>2, <3>3, <3>7, RankIsThere DEF Ranks
      <4>2. RankOf(b)[test.at] <= RankOf(b)[now[test.at]] BY <3>1, <3>7 DEF Downhill
      <4>3. RankOf(b)[test.at] \in Nat /\ RankOf(b)[now[test.at]] \in Nat
        BY <3>1, <3>7, RankIsThere DEF Downhill
      <4> QED BY <4>1, <4>2, <4>3
    <3> QED BY <3>5, <3>6, <3>7
  <2>5. ASSUME listed = b, test.active PROVE Downhill(b)'
    BY <1>3, <2>3, <2>5 DEF Downhill
  <2>6. ASSUME listed = b, test.active, test.steady PROVE Trail(b)'
    <3>1. Trail(b) BY <1>3, <2>6
    <3>2. P!Reached(now)' = P!Reached(now) BY <1>1 DEF P!Reached, P!Follows
    <3> QED BY <1>1, <2>3, <3>1, <3>2 DEF Trail
  <2>7. WalkInv(b)' BY <1>1, <1>2, <2>2, <2>3, <2>4, <2>5, <2>6 DEF WalkInv
  <2>8. P!TestsReachTheLeaf' BY <2>2 DEF P!TestsReachTheLeaf
  <2> QED BY <1>1, <2>2, <2>7, <2>8, ChoicesStay, ListStays DEF ProxyInvOf, TestInv
<1> QED BY <1>4, <1>5

(* At its end, a steady walk has seen all that is reached from the selector. *)
LEMMA WalkIsWhole ==
  ASSUME NEW b \in Boxes, Choices(b, now), Downhill(b), Trail(b),
         test.at \in GroupTags(b) => now[test.at] = ""
  PROVE  P!Reached(test.now) = {"select"} \cup test.seen
  <1> DEFINE all == {"select"} \cup test.seen
  <1>1. now = test.now /\ test.seen \subseteq P!Reached(now) BY DEF Trail
  <1>2. "select" \in P!AllTags /\ test.seen \subseteq P!AllTags
    BY TagKinds, BoxFacts DEF Downhill
  <1>3. "select" \in P!Reached(now) BY <1>2 DEF P!Reached
  <1>4. P!Follows(all, now)
    <2> SUFFICES ASSUME NEW t \in all, t \in DOMAIN now PROVE now[t] \in all \cup {""}
      BY DEF P!Follows
    <2>1. t \in GroupTags(b) BY DEF Choices, Uses
    <2>2. CASE t = test.at BY <2>1, <2>2
    <2>3. CASE t # test.at BY <2>3 DEF Trail
    <2> QED BY <2>2, <2>3
  <1>5. P!Reached(now) \subseteq all
    <2>1. all \in SUBSET P!AllTags /\ "select" \in all BY <1>2
    <2> QED BY <1>4, <2>1 DEF P!Reached
  <1> QED BY <1>1, <1>3, <1>5
LEMMA TestNowContextKeeps ==
  ASSUME NEW b \in Boxes, ProxyInvOf(b), P!TestNowContext
  PROVE  ProxyInvOf(b)'
<1>1. UNCHANGED <<listed, now, history, list>> /\ test.pc = "found" BY DEF P!TestNowContext
<1>2. TestTypes(b) /\ WalkInv(b) /\ Choices(b, now) /\ (listed = b \/ listed = P!NoBox)
  BY DEF ProxyInvOf, TestInv, NowInv
<1>3. PICK targets : targets = P!TestNow(test.at) OBVIOUS
<1>4. test' = [test EXCEPT !.pc = "probing", !.targets = targets, !.todo = targets]
  BY <1>3 DEF P!TestNowContext, P!Probing
<1>5. targets \subseteq LeafTags(b)
  <2>1. CASE listed = b BY <1>2, <1>3, <2>1, TestNowIs
  <2>2. CASE listed = P!NoBox
    <3>1. P!Get(test.at) = {} BY <2>2, BoxIsGone
    <3> QED BY <1>3, <3>1 DEF P!TestNow
  <2> QED BY <1>2, <2>1, <2>2
<1>6. LeafTags(b) \subseteq P!AllTags BY TagKinds, BoxFacts
<1>7. TestTypes(b)' BY <1>2, <1>4, <1>5, <1>6 DEF TestTypes
<1>8. /\ test'.pc = "probing" /\ test'.active = test.active /\ test'.targets = targets
      /\ test'.now = test.now /\ test'.steady = test.steady
  BY <1>2, <1>4 DEF TestTypes
<1>9. WalkInv(b)' BY <1>8 DEF WalkInv
<1>10. ASSUME listed = b PROVE targets \subseteq P!Leaf(P!AllTags)
  BY <1>5, <1>6, <1>10, BoxRuns
<1>11. ASSUME listed = b, test.active, test.steady
       PROVE  IF P!Leaf(P!Reached(test.now)) # {} THEN targets = P!Leaf(P!Reached(test.now))
              ELSE \E n \in P!Groups : /\ n.tag \in P!Reached(test.now) /\ test.now[n.tag] = ""
                                       /\ targets = P!Leaf(P!Members(n))
  <2>1. b # P!NoBox BY BoxFacts
  <2>2. Downhill(b) /\ Trail(b) /\ (test.at \in GroupTags(b) => now[test.at] = "")
    BY <1>1, <1>2, <1>11, <2>1 DEF WalkInv
  <2>3. P!Reached(test.now) = {"select"} \cup test.seen BY <1>2, <2>2, WalkIsWhole
  <2>4. \A t \in {"select"} \cup test.seen : t # test.at => t \notin LeafTags(b)
    BY <2>2, TagKinds DEF Trail
  <2>5. test.at \in test.seen /\ test.at \in TagsOf(b) BY <2>2 DEF Downhill
  <2>6. P!Leaf(P!Reached(test.now)) = ({"select"} \cup test.seen) \cap LeafTags(b)
    BY <1>11, <2>3, BoxRuns
  <2>7. CASE test.at \in LeafTags(b)
    <3>1. P!Leaf(P!Reached(test.now)) = {test.at} BY <2>4, <2>5, <2>6, <2>7
    <3>2. targets = {test.at} BY <1>2, <1>3, <1>11, <2>7, TestNowIs
    <3> QED BY <3>1, <3>2
  <2>8. CASE test.at \in GroupTags(b)
    <3>1. test.at \notin LeafTags(b) BY <2>8, TagKinds
    <3>2. P!Leaf(P!Reached(test.now)) = {} BY <2>4, <2>6, <3>1
    <3>3. PICK n \in GroupsOf(b) : n.tag = test.at BY <2>8, TagKinds
    <3>4. now[n.tag] = "" /\ test.now = now BY <2>2, <2>8, <3>3 DEF Trail
    <3>5. targets = P!Leaf(P!Members(n)) BY <1>2, <1>3, <1>11, <3>3, <3>4, TestNowIs
    <3>6. n \in P!Groups BY <1>11, BoxRuns
    <3>7. n.tag \in P!Reached(test.now) BY <2>3, <2>5, <3>3
    <3> QED BY <3>2, <3>4, <3>5, <3>6, <3>7
  <2> QED BY <2>5, <2>7, <2>8, TagKinds
<1>12. P!TestsReachTheLeaf'
  <2>1. listed # P!NoBox => listed = b BY <1>2
  <2>2. \A tags : P!Leaf(tags)' = P!Leaf(tags) BY <1>1 DEF P!Leaf, P!Get, P!Outbounds
  <2>3. P!Groups' = P!Groups BY <1>1 DEF P!Groups, P!Outbounds
  <2>4. listed' = listed BY <1>1
  <2> QED BY <1>8, <1>10, <1>11, <2>1, <2>2, <2>3, <2>4 DEF P!TestsReachTheLeaf
<1> QED BY <1>1, <1>7, <1>9, <1>12, ChoicesStay, ListStays DEF ProxyInvOf, TestInv

LEMMA ProxyStepInv == ProxyInv /\ [P!ProxyNext]_proxies => ProxyInv'
<1> SUFFICES ASSUME NEW b \in Boxes, ProxyInvOf(b), [P!ProxyNext]_proxies PROVE ProxyInvOf(b)'
  BY DEF ProxyInv
<1>1. CASE UNCHANGED proxies
  BY <1>1, ChoicesStay, ListStays, TestStays DEF ProxyInvOf, proxies
<1>2. ASSUME NEW only \in BOOLEAN, P!Convert(only) PROVE ProxyInvOf(b)' BY <1>2, ConvertKeeps
<1>3. CASE P!GetAllProxiesInfo BY <1>3, GetAllProxiesInfoKeeps
<1>4. CASE P!UrlTestActive BY <1>4, UrlTestActiveKeeps
<1>5. CASE P!Walk BY <1>5, WalkKeeps
<1>6. CASE P!TestNowContext BY <1>6, TestNowContextKeeps
<1>7. CASE P!TestReturns BY <1>7, TestReturnsKeeps
<1>8. CASE P!BoxGone BY <1>8, BoxGoneKeeps
<1>9. ASSUME NEW n \in P!Groups, P!Balance(n) PROVE ProxyInvOf(b)' BY <1>9, BalanceKeeps
<1>10. ASSUME NEW g \in P!Tags(P!Outbounds), NEW t \in P!Tags(P!Outbounds), P!SelectOutbound(g, t)
       PROVE  ProxyInvOf(b)'
  BY <1>10, SelectOutboundKeeps
<1>11. ASSUME NEW t \in P!AllTags, P!UrlTest(t) PROVE ProxyInvOf(b)' BY <1>11, UrlTestKeeps
<1>12. ASSUME NEW t \in P!AllTags, P!TestDialer(t) PROVE ProxyInvOf(b)' BY <1>12, TestDialerKeeps
<1> QED
  BY <1>1, <1>2, <1>3, <1>4, <1>5, <1>6, <1>7, <1>8, <1>9, <1>10, <1>11, <1>12 DEF P!ProxyNext

(* Whatever is measured, chosen and tested, of whichever box that sing-box   *)
(* accepts, the list shows delays that were measured of the node or of its  *)
(* members, names what it shows, and marks what is used; and a test of the  *)
(* active proxy goes down to the leaf that traffic takes                    *)
(* (proxy_info.go:18-192, commands.go:269-339).                             *)
THEOREM ProxiesStayShownTruly == PartsSpec => []ProxiesAreShownTruly
<1>1. ProxyInv => ProxiesAreShownTruly
  BY ProxyInvImplies DEF ProxiesAreShownTruly
<1>2. ProxyInv /\ [PartsNext]_partsVars => ProxyInv'
  BY ProxyStepInv DEF PartsNext, partsVars, StoreStep, FileStep, HostStep, EzytelStep, DateStep,
                      RaceStep, TunnelStep, CommandStep, ProxyStep
<1> QED BY ProxyInitInv, <1>1, <1>2, PTL DEF PartsSpec
=============================================================================
