---------------------------- MODULE SessionState ----------------------------
(***************************************************************************)
(* The session of v2/hcore: rows of the settings table (session/state.go),  *)
(* the calls that read, merge and save them (session_rpc.go,                *)
(* session_connect.go, session_settings.go), the client settings they       *)
(* apply (buildconfighelper.go) and the target they start (resolve.go).     *)
(*                                                                          *)
(* A call loads the session row by row and saves it row by row, here in     *)
(* groups of rows; nothing keeps two calls apart.  The core is what         *)
(* CoreService models in detail: here a start has two steps, under          *)
(* static.lock, and a stop has one.                                         *)
(***************************************************************************)
EXTENDS Integers, Sequences, FiniteSets

CONSTANTS
  Ids,        \* profiles
  Actors,     \* who makes calls: the UI over gRPC, goroutines of the tray
  Requests(_),\* what an actor may ask
  Stores,     \* what a process may find: rows, client settings, configurations
  MaxCalls, MaxMishaps \* bounds of calls, and of failures and crashes

Modes   == {"proxy", "system-proxy", "vpn"}
Direct  == "_direct"
Merged  == "_active_merge"
None    == ""
Targets == Ids \cup {Direct, Merged}
NoMeta  == {None}   \* the list of profiles is empty
NoActor == "nobody"

(* The document ClientSettingsJson: the two flags that a service mode sets, *)
(* and the rest; it may be absent, or not decode.                           *)
Doc(flags, rest) == [kind |-> "ok", flags |-> flags, rest |-> rest]
NoDoc  == [kind |-> "none", flags |-> "proxy", rest |-> 0]
BadDoc == [kind |-> "bad", flags |-> "proxy", rest |-> 0]
DefaultClientOptions == Doc("proxy", 0)

VARIABLES
  row,      \* the rows of the session
  settings, \* the row ClientSettingsJson
  files,    \* the configurations on disk
  options,  \* static.ClientOptions
  core,     \* static.CoreState
  run,      \* what the core was started with
  call,     \* the call of each actor
  calls, mishaps \* counters
session == <<row, settings, files>>
process == <<options, core, run>>
counters == <<calls, mishaps>>

NoRun == [target |-> None, options |-> NoDoc]
NoReq == [op |-> "none"]
Rows0 == [active |-> {}, direct |-> FALSE, mode |-> "vpn", meta |-> NoMeta, target |-> None,
          look |-> "", pid |-> 0]
Idle == [pc |-> "idle", req |-> NoReq, st |-> Rows0, i |-> 1, doc |-> NoDoc, target |-> None,
         err |-> "", alone |-> TRUE, before |-> <<>>]
SessionInit ==
  /\ \E s \in Stores : row = s.row /\ settings = s.settings /\ files = s.files
  /\ options = DefaultClientOptions /\ core = "STOPPED" /\ run = NoRun
  /\ call = [a \in Actors |-> Idle]
  /\ calls = 0 /\ mishaps = 0

(***************************************************************************)
(* The merges                                                               *)
(***************************************************************************)
Take(new, old, empty) == IF new = empty THEN old ELSE new
(* SyncState; the active ids are mirrored even when there are none.         *)
MergeSync(st, in) ==
  [active |-> in.active, direct |-> in.direct,
   mode |-> Take(in.mode, st.mode, ""), meta |-> Take(in.meta, st.meta, NoMeta),
   target |-> Take(in.target, st.target, None), look |-> Take(in.look, st.look, ""),
   pid |-> Take(in.pid, st.pid, 0)]
PatchActive(st, ids) == [st EXCEPT !.active = ids, !.meta = IF @ = NoMeta THEN NoMeta ELSE ids]
PatchMode(st, mode)  == [st EXCEPT !.mode = mode]
(* What SessionConnect saves names neither look nor pid.                    *)
Connected(st, target) == [st EXCEPT !.target = target, !.look = "", !.pid = 0]
(* SaveState leaves the rows of empty values alone.                         *)
BugSkips(f, st) == f = "target" /\ st.target = None
Skips(f, st) == \/ f = "target" /\ st.target = None
                \/ f = "look" /\ st.look = ""
                \/ f = "pid" /\ st.pid = 0

(* ResolveStartTarget; None when it fails.                                  *)
OnDisk(target) == IF target \in files THEN target ELSE None
Connectable(st) == st.direct \/ st.active # {}
BugResolveStartTarget(st) ==
  IF st.target # None /\ st.target \in files THEN st.target
  ELSE IF st.direct THEN OnDisk(Direct)
  ELSE IF Cardinality(st.active) = 1 THEN OnDisk(CHOOSE id \in st.active : TRUE)
  ELSE OnDisk(Merged)
ResolveStartTarget(st) ==
  IF ~Connectable(st) THEN None
  ELSE IF st.target # None /\ st.target \in files THEN st.target
  ELSE IF st.direct THEN OnDisk(Direct)
  ELSE IF Cardinality(st.active) = 1 THEN OnDisk(CHOOSE id \in st.active : TRUE)
  ELSE OnDisk(Merged)

(***************************************************************************)
(* Calls                                                                    *)
(***************************************************************************)
At(a, pc) == call[a].pc = pc
Goto(a, pc) == call' = [call EXCEPT ![a].pc = pc, ![a].i = 1]
Fail(a, why) == call' = [call EXCEPT ![a].pc = "done", ![a].err = why]
Quiet(except) == \A a \in Actors \ except : At(a, "idle")

FirstStep(req) ==
  CASE req.op = "sync" -> IF req.clear THEN "clear" ELSE "load"
    [] req.op = "settings" -> "defaults"
    [] req.op = "disconnect" -> "stop"
    [] req.op = "clearpid" -> "clear"
    [] OTHER -> "load"
Snapshot == [row |-> row, settings |-> settings, options |-> options, run |-> run]
Start(a, req) ==
  call' = [b \in Actors |->
    CASE b = a -> [Idle EXCEPT !.pc = FirstStep(req), !.req = req, !.alone = Quiet({a}),
                     !.before = IF Quiet({a}) THEN <<Snapshot>> ELSE <<>>]
      [] OTHER -> [call[b] EXCEPT !.alone = FALSE, !.before = <<>>]]

(* LoadState, and SaveState below: three groups of rows, one after the other. *)
Groups == 3
Read(st, i) ==
  CASE i = 1 -> [st EXCEPT !.active = row.active, !.direct = row.direct]
    [] i = 2 -> [st EXCEPT !.mode = row.mode, !.meta = row.meta]
    [] OTHER -> [st EXCEPT !.target = row.target, !.look = row.look, !.pid = row.pid]
AfterLoad(c) ==
  CASE c.req.op = "sync" -> [c EXCEPT !.pc = "save", !.st = MergeSync(c.st, c.req.in)]
    [] c.req.op = "active" -> [c EXCEPT !.pc = "save", !.st = PatchActive(c.st, c.req.ids)]
    [] c.req.op = "mode" -> [c EXCEPT !.pc = "save", !.st = PatchMode(c.st, c.req.mode)]
    [] OTHER -> [c EXCEPT !.pc = "apply"]
Load(a) ==
  /\ At(a, "load")
  /\ LET c == [call[a] EXCEPT !.st = Read(@, call[a].i)]
     IN  call' = [call EXCEPT ![a] =
           IF c.i < Groups THEN [c EXCEPT !.i = @ + 1] ELSE AfterLoad([c EXCEPT !.i = 1])]
  /\ UNCHANGED <<session, process, counters>>

(* SaveState, which ends at the first row that is not written.              *)
Write(st, i) ==
  CASE i = 1 -> [row EXCEPT !.active = st.active, !.direct = st.direct]
    [] i = 2 -> [row EXCEPT !.mode = st.mode, !.meta = st.meta]
    [] OTHER -> [row EXCEPT !.target = IF Skips("target", st) THEN @ ELSE st.target,
                            !.look = IF Skips("look", st) THEN @ ELSE st.look,
                            !.pid = IF Skips("pid", st) THEN @ ELSE st.pid]
Save(a) ==
  /\ At(a, "save")
  /\ LET c == call[a]
     IN  /\ row' = Write(c.st, c.i)
         /\ call' = [call EXCEPT ![a] =
              IF c.i < Groups THEN [c EXCEPT !.i = @ + 1]
              ELSE [c EXCEPT !.pc = IF c.req.op = "mode" THEN "getjson" ELSE "done", !.i = 1]]
  /\ UNCHANGED <<settings, files, process, counters>>
SaveFails(a) ==
  /\ At(a, "save") /\ mishaps < MaxMishaps /\ mishaps' = mishaps + 1
  /\ call' = [call EXCEPT ![a].pc = "done", ![a].alone = FALSE, ![a].before = <<>>,
                ![a].err = IF call[a].req.op = "connect" THEN "" ELSE "save"]
  /\ UNCHANGED <<session, process, calls>>

(* ClearUiPid, and ClearUiPidIf, which compares the pid first: the pid that *)
(* a sync brings, and that its merge stores again.                          *)
Expected(req) == IF req.op = "sync" THEN req.in.pid ELSE req.pid
AfterClear(a) == IF call[a].req.op = "sync" THEN "load" ELSE "done"
ClearPid(a) ==
  /\ At(a, "clear")
  /\ LET expected == Expected(call[a].req)
     IN  IF expected > 0
         THEN Goto(a, IF row.pid = expected THEN "delete" ELSE AfterClear(a)) /\ UNCHANGED row
         ELSE Goto(a, AfterClear(a)) /\ row' = [row EXCEPT !.pid = 0]
  /\ UNCHANGED <<settings, files, process, counters>>
DeletePid(a) ==
  /\ At(a, "delete")
  /\ row' = [row EXCEPT !.pid = 0]
  /\ Goto(a, AfterClear(a))
  /\ UNCHANGED <<settings, files, process, counters>>

(* sessionApplyServiceMode: the flags of the mode are put in the document.  *)
GetJson(a) ==
  /\ At(a, "getjson")
  /\ CASE settings.kind = "none" -> Goto(a, "done")
       [] settings.kind = "bad"  -> Fail(a, "settings")
       [] OTHER -> call' = [call EXCEPT ![a].pc = "store", ![a].i = 1,
                              ![a].doc = Doc(call[a].req.mode, settings.rest)]
  /\ UNCHANGED <<session, process, counters>>

(* ChangeClientSettings: the defaults take the place of the options, the    *)
(* document is stored when it comes from a client, and read over them.      *)
NewDoc(a) == IF call[a].req.op = "settings" THEN call[a].req.doc ELSE call[a].doc
Defaults(a) ==
  /\ At(a, "defaults")
  /\ options' = DefaultClientOptions
  /\ Goto(a, IF NewDoc(a).kind = "none" THEN "done"
             ELSE IF call[a].req.op = "settings" THEN "store" ELSE "unmarshal")
  /\ UNCHANGED <<session, core, run, counters>>
StoreJson(a) ==
  /\ At(a, "store")
  /\ settings' = NewDoc(a)
  /\ Goto(a, IF call[a].req.op = "mode" THEN "defaults" ELSE "unmarshal")
  /\ UNCHANGED <<row, files, process, counters>>
Unmarshal(a) ==
  /\ At(a, "unmarshal")
  /\ IF NewDoc(a).kind = "bad" THEN Fail(a, "settings") /\ UNCHANGED options
     ELSE options' = NewDoc(a)
          /\ Goto(a, IF call[a].req.op \in {"connect", "reconnect"} THEN "resolve" ELSE "done")
  /\ UNCHANGED <<session, core, run, counters>>

(* sessionApplyClientSettings                                               *)
Apply(a) ==
  /\ At(a, "apply")
  /\ IF settings.kind = "none" THEN Goto(a, "resolve")
     ELSE call' = [call EXCEPT ![a].pc = "defaults", ![a].doc = settings]
  /\ UNCHANGED <<session, process, counters>>

(***************************************************************************)
(* The core                                                                 *)
(***************************************************************************)
(* static.lock is held from STARTING to STARTED, and by Stop.               *)
Unlocked == \A a \in Actors : ~At(a, "up")

(* No target: the status says STOPPED, even if the core runs.               *)
Resolve(a) ==
  /\ At(a, "resolve")
  /\ LET target == ResolveStartTarget(call[a].st)
     IN  IF target = None THEN core' = "STOPPED" /\ Fail(a, "target")
         ELSE /\ call' = [call EXCEPT ![a].target = target,
                            ![a].pc = IF call[a].req.op = "connect" THEN "start" ELSE "stop"]
              /\ UNCHANGED core
  /\ UNCHANGED <<session, options, run, counters>>
StopCore(a) ==
  /\ At(a, "stop") /\ Unlocked
  /\ core' = "STOPPED" /\ run' = NoRun
  /\ CASE call[a].req.op = "reconnect" -> Goto(a, "start")
       [] call[a].req.op # "reconnect" /\ run = NoRun -> Fail(a, "stopped")
       [] OTHER -> Goto(a, "done")
  /\ UNCHANGED <<session, options, counters>>
StartCore(a) ==
  /\ At(a, "start") /\ Unlocked
  /\ IF core # "STOPPED" THEN Fail(a, "started") /\ UNCHANGED <<core, run>>
     ELSE /\ core' = "STARTING" /\ Goto(a, "up")
          /\ run' = [target |-> call[a].target, options |-> options]
  /\ UNCHANGED <<session, options, counters>>
CoreUp(a) ==
  /\ At(a, "up")
  /\ core' = "STARTED"
  /\ LET c == call[a]
     IN  call' = [call EXCEPT ![a] =
           IF c.req.op = "connect" THEN [c EXCEPT !.pc = "save", !.i = 1, !.st = Connected(c.st, c.target)]
           ELSE [c EXCEPT !.pc = "done"]]
  /\ UNCHANGED <<session, options, run, counters>>
CoreFails(a) ==
  /\ At(a, "up") /\ mishaps < MaxMishaps /\ mishaps' = mishaps + 1
  /\ core' = "STOPPED" /\ run' = NoRun
  /\ call' = [call EXCEPT ![a].pc = "done", ![a].err = "start", ![a].alone = FALSE, ![a].before = <<>>]
  /\ UNCHANGED <<session, options, calls>>

(* The process dies: the rows stay as they are.                             *)
Crash ==
  /\ mishaps < MaxMishaps /\ mishaps' = mishaps + 1
  /\ options' = DefaultClientOptions /\ core' = "STOPPED" /\ run' = NoRun
  /\ call' = [a \in Actors |-> Idle]
  /\ UNCHANGED <<session, calls>>

(* Steps that leave the status of the core alone, and those that set it.    *)
DataStep(a) ==
  \/ Load(a) \/ Save(a) \/ SaveFails(a) \/ ClearPid(a) \/ DeletePid(a)
  \/ GetJson(a) \/ StoreJson(a) \/ Defaults(a) \/ Unmarshal(a) \/ Apply(a)
CoreStep(a) == Resolve(a) \/ StopCore(a) \/ StartCore(a) \/ CoreUp(a) \/ CoreFails(a)
=============================================================================
