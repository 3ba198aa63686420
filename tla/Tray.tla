-------------------------------- MODULE Tray --------------------------------
(***************************************************************************)
(* The tray of v2/hcore/tray beside the session: a menu whose changes are    *)
(* queued for one goroutine (dispatch.go), the goroutines that wait for      *)
(* clicks (tray.go), the watcher of the core (status.go), and the processes  *)
(* of the UI (ui_control.go, ui_presence.go), which make calls of their own. *)
(***************************************************************************)
EXTENDS SessionState

CONSTANTS
  Pids,      \* process ids of UIs
  Looks,     \* locales and themes, the empty one among them
  QueueSize  \* capacity of cmdCh

VARIABLES
  phase,    \* of the tray: "starting", "up", "quit", "done"
  queue,    \* cmdCh
  menu,     \* what is drawn: the state the toggle is for, the checked mode, the
            \* profiles, and lastProfilesHash
  failed,   \* trayErrorState
  watch,    \* the watcher: "off", "poll", or the state it has read
  tail,     \* what an actor does after its call: "none", "session", or the state it read
  alive, presence, \* the UIs that run, and the pid in ui_presence.json
  spawned,  \* UIs that were started and have not come up
  early, dropped, stale \* ghosts: a refresh before the menu was made, a full queue, an old state sent
shown == <<phase, queue, menu, failed, watch, early, dropped, stale>>
uis   == <<alive, presence, spawned>>
trayVars == <<shown, tail, uis>>
vars == <<session, process, call, counters, trayVars>>

NotDrawn == "not drawn"
Blank == [core |-> NotDrawn, mode |-> NotDrawn, meta |-> {NotDrawn}, hash |-> <<>>]
TrayInit ==
  /\ phase = "starting" /\ queue = <<>> /\ failed = FALSE /\ watch = "off"
  /\ menu = Blank
  /\ tail = [a \in Actors |-> "none"]
  /\ alive \in {{}, {1}} /\ presence = 1 /\ spawned = 0
  /\ early = FALSE /\ dropped = FALSE /\ stale = FALSE
Init == SessionInit /\ TrayInit

(***************************************************************************)
(* What the constants may be                                                *)
(***************************************************************************)
RowSets  == [active: SUBSET Ids, direct: BOOLEAN, mode: Modes, meta: {NoMeta} \cup SUBSET Ids,
             target: Targets \cup {None}, look: Looks, pid: Pids \cup {0}]
Docs     == [kind: {"none", "bad", "ok"}, flags: Modes, rest: Nat]
Incoming == [active: SUBSET Ids, direct: BOOLEAN, mode: Modes \cup {""},
             meta: {NoMeta} \cup SUBSET Ids, target: Targets \cup {None}, look: Looks,
             pid: Pids \cup {0}]
UiRequests ==
  [op: {"sync"}, clear: BOOLEAN, in: Incoming] \cup [op: {"active"}, ids: SUBSET Ids]
    \cup [op: {"mode"}, mode: Modes] \cup [op: {"settings"}, doc: Docs]
    \cup [op: {"clearpid"}, pid: Pids \cup {0}]
    \cup [op: {"connect", "disconnect", "reconnect"}]
(* The actors are those of the code; a process id is a positive int32.      *)
ASSUME SessionAssumption ==
  /\ Actors = {"ui", "menu", "item"} /\ Requests("ui") \subseteq UiRequests
  /\ Pids \subseteq Nat \ {0} /\ 1 \in Pids /\ "" \in Looks /\ QueueSize \in Nat
  /\ \A s \in Stores : s.row \in RowSets /\ s.settings \in Docs /\ s.files \subseteq Targets

(***************************************************************************)
(* The queue                                                                *)
(***************************************************************************)
Refresh    == [kind |-> "refresh"]
Conn(state) == [kind |-> "conn", state |-> state]
Check(mode) == [kind |-> "mode", mode |-> mode]
(* A command is dropped when the queue is full.                             *)
Dispatch(cmds) ==
  /\ queue' = IF Len(queue \o cmds) <= QueueSize THEN queue \o cmds ELSE queue
  /\ dropped' = (dropped \/ Len(queue \o cmds) > QueueSize)

(* profilesHash                                                             *)
ProfilesHash(st) == <<st.meta, st.active, st.direct>>

(* refreshTrayDisplay: the hash is kept even when there is no menu yet.     *)
Drawn == phase # "starting"
ShowConn(m, state) == IF Drawn THEN [m EXCEPT !.core = state] ELSE m
ShowMode(m, mode)  == IF Drawn THEN [m EXCEPT !.mode = mode] ELSE m
RebuildProfileSubmenuIfNeeded(m, st) ==
  IF m.hash = ProfilesHash(st) THEN m
  ELSE [m EXCEPT !.hash = ProfilesHash(st), !.meta = IF Drawn THEN st.meta ELSE @]
RunCommand ==
  /\ queue # <<>>
  /\ LET cmd == Head(queue)
     IN  /\ menu' = CASE cmd.kind = "refresh" ->
                           ShowConn(ShowMode(RebuildProfileSubmenuIfNeeded(menu, row), row.mode), core)
                      [] cmd.kind = "conn" -> ShowConn(menu, cmd.state)
                      [] cmd.kind = "mode" -> ShowMode(menu, cmd.mode)
         /\ failed' = IF (cmd.kind = "refresh" /\ core = "STARTED")
                            \/ (cmd.kind = "conn" /\ cmd.state = "STARTED") THEN FALSE ELSE failed
         /\ early' = (early \/ (cmd.kind = "refresh" /\ ~Drawn))
  /\ queue' = Tail(queue)
  /\ UNCHANGED <<session, process, call, counters, phase, watch, tail, dropped, stale, uis>>

(* onReady: the watcher of the preferences asks for a refresh when it       *)
(* starts, before the menu is made or after.                                *)
PrefsChange ==
  /\ calls < MaxCalls /\ calls' = calls + 1
  /\ Dispatch(<<Refresh>>)
  /\ UNCHANGED <<session, process, call, mishaps, phase, menu, failed, watch, tail,
                 early, stale, uis>>
BugOnReady ==
  /\ phase = "starting" /\ phase' = "up"
  /\ UNCHANGED <<session, process, call, counters, queue, dropped, menu, failed, watch, tail, early, stale, uis>>
OnReady ==
  /\ phase = "starting" /\ phase' = "up"
  /\ Dispatch(<<Refresh>>)
  /\ UNCHANGED <<session, process, call, counters, menu, failed, watch, tail, early, stale, uis>>

(***************************************************************************)
(* Calls and what follows them                                              *)
(***************************************************************************)
(* What a request is for an actor: the toggle is for what the core is now.  *)
ToggleEnabled == menu.core \notin {"STARTING", "STOPPING"}
Toggle == IF core = "STARTED" THEN [op |-> "disconnect"] ELSE [op |-> "connect"]
Clicks ==
  (IF ToggleEnabled THEN {Toggle} ELSE {})
    \cup {[op |-> "reconnect"]} \cup {[op |-> "mode", mode |-> m] : m \in Modes}
ItemClicks == IF menu.meta \in {{NotDrawn}, NoMeta} THEN {}
              ELSE {[op |-> "active", ids |-> {id}] : id \in Ids}
Known(req) == req.op # "sync" \/ req.in.pid \in alive \cup {0}
Asks(a) ==
  CASE a = "menu" -> IF phase = "up" THEN Clicks ELSE {}
    [] a = "item" -> IF phase = "up" THEN ItemClicks ELSE {}
    [] OTHER -> {req \in Requests(a) : Known(req)}

Begin(a) ==
  /\ At(a, "idle") /\ tail[a] = "none" /\ calls < MaxCalls
  /\ calls' = calls + 1
  /\ \E req \in Asks(a) : Start(a, req)
  /\ UNCHANGED <<session, process, mishaps, trayVars>>

Data(a) == DataStep(a) /\ UNCHANGED trayVars
(* SetCoreStatus tells the tray.                                            *)
Core(a) ==
  /\ CoreStep(a)
  /\ IF core' # core THEN Dispatch(<<Conn(core')>>) ELSE UNCHANGED <<queue, dropped>>
  /\ UNCHANGED <<phase, menu, failed, watch, early, stale, tail, uis>>

(* An answered call: SyncSessionState refreshes the tray; a click on a mode *)
(* or a profile goes on with a reconnect when the core runs; and the other  *)
(* clicks end in handleSession.                                             *)
Return(a) ==
  /\ At(a, "done")
  /\ LET c == call[a]
         again == c.err = "" /\ core = "STARTED" /\ a # "ui" /\ c.req.op \in {"mode", "active"}
         handled == a # "ui" /\ phase = "up" /\ c.req.op \in {"connect", "disconnect", "reconnect"}
         cmds == IF a = "ui"
                 THEN IF c.req.op \in {"sync", "clearpid"} /\ c.err = "" THEN <<Refresh>> ELSE <<>>
                 ELSE IF c.req.op = "mode" /\ c.err = "" THEN <<Check(c.req.mode)>> ELSE <<>>
     IN  /\ CASE again -> Start(a, [op |-> "reconnect"])
              [] phase = "quit" /\ a = "menu" /\ c.req.op = "clearpid" -> Start(a, [op |-> "disconnect"])
              [] OTHER -> call' = [call EXCEPT ![a] = Idle]
         /\ phase' = IF phase = "quit" /\ a = "menu" /\ c.req.op = "disconnect" THEN "done" ELSE phase
         /\ tail' = [tail EXCEPT ![a] =
              IF handled THEN "session" ELSE "none"]
         /\ failed' = IF handled THEN c.err # "" ELSE failed
         /\ menu' = IF a = "item" /\ c.req.op = "active" /\ c.err = ""
                    THEN [menu EXCEPT !.hash = <<>>] ELSE menu
         /\ Dispatch(cmds)
  /\ UNCHANGED <<session, process, counters, watch, early, stale, uis>>

(* handleSession: the state is read, and sent a step later.                 *)
TailRead(a) ==
  /\ tail[a] = "session" /\ tail' = [tail EXCEPT ![a] = core]
  /\ UNCHANGED <<session, process, call, counters, shown, uis>>
Settled(state) == state \notin {"STARTING", "STOPPING"}
TailSend(a) ==
  /\ tail[a] \notin {"none", "session"}
  /\ Dispatch(<<Conn(tail[a])>>) /\ stale' = (stale \/ tail[a] # core)
  /\ watch' = IF ~Settled(tail[a]) /\ watch = "off" THEN "poll" ELSE watch
  /\ tail' = [tail EXCEPT ![a] = "none"]
  /\ UNCHANGED <<session, process, call, counters, phase, menu, failed, early, uis>>

(* watchCoreTransitions, until the core settles or the ceiling is reached.  *)
WatchRead ==
  /\ watch = "poll" /\ watch' = core
  /\ UNCHANGED <<session, process, call, counters, phase, queue, menu, failed, early, dropped,
                 stale, tail, uis>>
WatchSend ==
  /\ watch \notin {"off", "poll"}
  /\ Dispatch(<<Conn(watch)>>) /\ stale' = (stale \/ watch # core)
  /\ watch' \in IF Settled(watch) THEN {"off"} ELSE {"off", "poll"}
  /\ UNCHANGED <<session, process, call, counters, phase, menu, failed, early, tail, uis>>

(***************************************************************************)
(* The processes of the UI                                                  *)
(***************************************************************************)
(* resolveUiPid: the presence file first, then the row.                     *)
ResolveUiPid == CASE presence \in alive -> presence
                  [] presence \notin alive /\ row.pid \in alive -> row.pid
                  [] OTHER -> 0
(* A click on the icon, or on the first item of the menu.                   *)
ShowOrSpawn ==
  /\ phase = "up" /\ calls < MaxCalls /\ calls' = calls + 1
  /\ spawned' = IF ResolveUiPid = 0 THEN spawned + 1 ELSE spawned
  /\ UNCHANGED <<session, process, call, mishaps, shown, tail, alive, presence>>
(* A process id that was freed a moment ago is not given out again while    *)
(* the tray clears the row of the UI that it ended.                         *)
Freed(pid) == call["menu"].req = [op |-> "clearpid", pid |-> pid]
UiStarts(pid) ==
  /\ spawned > 0 /\ spawned' = spawned - 1 /\ ~Freed(pid)
  /\ pid \notin alive /\ alive' = alive \cup {pid} /\ presence' = pid
  /\ UNCHANGED <<session, process, call, counters, shown, tail>>
UiDies(pid) ==
  /\ pid \in alive /\ alive' = alive \ {pid}
  /\ At("ui", "idle") /\ calls < MaxCalls /\ calls' = calls + 1
  /\ UNCHANGED <<session, process, call, mishaps, shown, tail, presence, spawned>>
(* Quit: requestUiQuit ends the UI that it finds, and clears its pid; then  *)
(* the core is stopped.  A process that outlives its kill keeps its row.    *)
QuitClears(pid) == pid > 0 /\ pid \notin alive'
Quit ==
  /\ phase = "up" /\ At("menu", "idle") /\ tail["menu"] = "none" /\ calls < MaxCalls
  /\ calls' = calls + 1 /\ phase' = "quit"
  /\ alive' \in {alive, alive \ {ResolveUiPid}}
  /\ Start("menu", IF QuitClears(ResolveUiPid)
                   THEN [op |-> "clearpid", pid |-> ResolveUiPid] ELSE [op |-> "disconnect"])
  /\ UNCHANGED <<session, process, mishaps, queue, menu, failed, watch, early, dropped,
                 stale, tail, presence, spawned>>

(* The process dies; the UIs are other processes.                           *)
HostDies ==
  /\ Crash
  /\ phase' = "starting" /\ queue' = <<>> /\ failed' = FALSE /\ watch' = "off"
  /\ menu' = Blank /\ tail' = [a \in Actors |-> "none"]
  /\ early' = FALSE /\ dropped' = FALSE /\ stale' = FALSE
  /\ UNCHANGED uis

Next ==
  \/ \E a \in Actors : Begin(a) \/ Data(a) \/ Core(a) \/ Return(a) \/ TailRead(a) \/ TailSend(a)
  \/ RunCommand \/ PrefsChange \/ OnReady \/ WatchRead \/ WatchSend
  \/ ShowOrSpawn \/ Quit
  \/ \E pid \in Pids : UiStarts(pid) \/ UiDies(pid)
  \/ HostDies
Spec == Init /\ [][Next]_vars
=============================================================================
