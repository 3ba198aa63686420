---------------------------- MODULE SessionProps ----------------------------
(***************************************************************************)
(* What the session and the tray promise.                                   *)
(***************************************************************************)
EXTENDS Tray

(* Every variable has its type; the core is stopped, coming up or up.       *)
CoreStates == {"STOPPED", "STARTING", "STARTED"}
Runs     == [target: Targets \cup {None}, options: Docs]
Steps    == {"idle", "clear", "delete", "load", "save", "apply", "getjson", "store", "defaults",
             "unmarshal", "resolve", "stop", "start", "up", "done"}
Errors   == {"", "save", "settings", "target", "start", "started", "stopped"}
Calls    == [pc: Steps, req: UiRequests \cup {NoReq}, st: RowSets, i: 1..Groups, doc: Docs,
             target: Targets \cup {None}, err: Errors, alone: BOOLEAN,
             before: Seq([row: RowSets, settings: Docs, options: Docs, run: Runs])]
Commands == {Refresh} \cup {Conn(state) : state \in CoreStates} \cup {Check(mode) : mode \in Modes}
SnTypeOK ==
  /\ row \in RowSets /\ settings \in Docs /\ files \subseteq Targets
  /\ options \in Docs /\ options.kind = "ok" /\ core \in CoreStates /\ run \in Runs
  /\ call \in [Actors -> Calls] /\ tail \in [Actors -> {"none", "session"} \cup CoreStates]
  /\ phase \in {"starting", "up", "quit", "done"} /\ watch \in {"off", "poll"} \cup CoreStates
  /\ queue \in Seq(Commands) /\ Len(queue) <= QueueSize
  /\ failed \in BOOLEAN /\ alive \subseteq Pids /\ presence \in Pids

(***************************************************************************)
(* What each call means when nothing else happens                           *)
(***************************************************************************)
Cleared(r, pid) == IF r.pid = pid \/ pid = 0 THEN [r EXCEPT !.pid = 0] ELSE r
Synced(r, req) == MergeSync(IF req.clear THEN Cleared(r, req.in.pid) ELSE r, req.in)
RowAfter(c) ==
  CASE c.req.op = "sync"     -> Synced(c.before[1].row, c.req)
    [] c.req.op = "active"   -> PatchActive(c.before[1].row, c.req.ids)
    [] c.req.op = "mode"     -> PatchMode(c.before[1].row, c.req.mode)
    [] c.req.op = "clearpid" -> Cleared(c.before[1].row, c.req.pid)
    [] c.req.op = "connect" /\ c.err = "" -> [c.before[1].row EXCEPT !.target = c.target]
    [] OTHER -> c.before[1].row
DocAfter(c) ==
  CASE c.req.op = "settings" /\ c.req.doc.kind # "none" -> c.req.doc
    [] c.req.op = "mode" /\ c.before[1].settings.kind = "ok" -> Doc(c.req.mode, c.before[1].settings.rest)
    [] OTHER -> c.before[1].settings

(* A call of the session that runs without another beside it, a crash or a  *)
(* failed write, changes the rows that it is about and no other: what it    *)
(* saves of the rest is what it has read, and an empty value never erases   *)
(* one (SaveState, SyncState, SessionConnect's save without the locale, the *)
(* theme and the pid of the UI).                                            *)
AloneIsAtomic ==
  \A a \in Actors : (At(a, "done") /\ call[a].alone) =>
    row = RowAfter(call[a]) /\ settings = DocAfter(call[a])

(* A connect or reconnect that ran alone started what the session names,    *)
(* with the stored settings, and only while the session was connectable:    *)
(* the target that an earlier session cached is not used on its own         *)
(* (resolve.go: "Otherwise a stale cache ...").  A change of the mode leaves *)
(* the options in memory with the flags of the mode.                        *)
StartsWhatWasAsked ==
  \A a \in Actors : (At(a, "done") /\ call[a].alone /\ call[a].err = "") =>
    LET c == call[a]
    IN  CASE c.req.op \in {"connect", "reconnect"} ->
               /\ core = "STARTED" /\ Connectable(c.before[1].row)
               /\ run.target = ResolveStartTarget(c.before[1].row)
               /\ run.options = IF c.before[1].settings.kind = "none" THEN c.before[1].options ELSE c.before[1].settings
          [] c.req.op = "mode" /\ settings.kind = "ok" -> options = settings /\ options.flags = row.mode
          [] OTHER -> TRUE

(* The pid of a UI that runs is not cleared by the tray: it ends that UI    *)
(* first, and compares the pid (ClearUiPidIf: "avoids clearing a newer UI") *)
(* -- unless another call comes between the comparison and the delete.      *)
PidOfLiveUiKept ==
  [][(row.pid # 0 /\ row'.pid = 0 /\ call["menu"].alone /\ At("ui", "idle")) => row.pid \notin alive]_vars

(* The profile that was clicked in the tray is the one that runs after the  *)
(* reconnect which the click asks for (resolve.go: the cache must not       *)
(* connect "a profile the user has since disabled").                        *)
ClickedProfileRuns ==
  LET c == call["item"]
  IN  (c.pc = "done" /\ c.req.op = "reconnect" /\ c.alone /\ c.err = "") => run.target \in row.active

(***************************************************************************)
(* What is drawn                                                            *)
(***************************************************************************)
AtRest ==
  /\ \A a \in Actors : At(a, "idle") /\ tail[a] = "none"
  /\ watch = "off" /\ queue = <<>> /\ phase = "up"

(* At rest the toggle is for the state of the core, whoever changed it: the *)
(* queue keeps the order of the changes.  Excepted are a full queue and a   *)
(* state that was read before a change and sent after it.                   *)
MenuFollowsCore == (AtRest /\ ~dropped /\ ~stale) => menu.core = core

(* A refresh draws the profiles as they are, so the hash of the last one    *)
(* names what is drawn -- unless one ran before the menu was made.          *)
RefreshShows ==
  (queue # <<>> /\ queue' = Tail(queue) /\ Head(queue) = Refresh /\ "starting" \notin {phase, phase'} /\ ~early) =>
    menu'.meta = row.meta

(* A call alone changes its own rows only, and keeps the pid of a live UI.  *)
SessionIsKept == [](SnTypeOK /\ AloneIsAtomic) /\ PidOfLiveUiKept

(* The menu shows the core and the profiles as they are.                    *)
MenuIsTrue == [][MenuFollowsCore' /\ RefreshShows]_vars
=============================================================================
