--------------------------- MODULE SessionProofs ---------------------------
(***************************************************************************)
(* What the session and the tray promise, for every set of profiles and      *)
(* UIs, every request of the UI, every stored session, every bound of the    *)
(* calls and of the mishaps, and every capacity of the queue.                *)
(***************************************************************************)
EXTENDS SessionProps, TLAPS

(***************************************************************************)
(* The invariant                                                            *)
(***************************************************************************)
(* Where a call of each kind may be, and what it knows there.               *)
Reached(req) ==
  CASE req.op = "sync" -> {"clear", "delete", "load", "save", "done"}
    [] req.op = "active" -> {"load", "save", "done"}
    [] req.op = "mode" -> {"load", "save", "getjson", "store", "defaults", "unmarshal", "done"}
    [] req.op = "settings" -> {"defaults", "store", "unmarshal", "done"}
    [] req.op = "disconnect" -> {"stop", "done"}
    [] req.op = "clearpid" -> {"clear", "delete", "done"}
    [] req.op = "connect" ->
         {"load", "apply", "defaults", "unmarshal", "resolve", "start", "up", "save", "done"}
    [] req.op = "reconnect" ->
         {"load", "apply", "defaults", "unmarshal", "resolve", "stop", "start", "up", "done"}
    [] OTHER -> {"idle"}
DocOf(c) == IF c.req.op = "settings" THEN c.req.doc ELSE c.doc
Placed(c) ==
  /\ c.pc \in Reached(c.req)
  /\ c.pc # "done" => c.err = ""
  /\ (c.pc \in {"clear", "delete"} /\ c.req.op = "sync") => c.req.clear
  /\ (c.pc \in {"store", "unmarshal"} \/ (c.pc = "defaults" /\ c.req.op # "settings")) =>
       DocOf(c).kind # "none"
  /\ (\/ c.pc \in {"start", "up"}
      \/ c.pc = "stop" /\ c.req.op = "reconnect"
      \/ c.pc = "save" /\ c.req.op = "connect") => c.target # None
PlaceInv == \A a \in Actors : Placed(call[a])

(* The tray ends a UI before it clears its pid, and the items of the menu   *)
(* only pick a profile.                                                     *)
TrayCallInv ==
  /\ call["item"].req.op \in {"none", "active", "reconnect"}
  /\ call["menu"].req.op # "sync"
  /\ call["menu"].req.op = "clearpid" => call["menu"].req.pid \in Pids \ alive

(* A call that is alone remembers what it began with.                       *)
Busy(a) == ~At(a, "idle") /\ call[a].alone
QuietInv == \A a \in Actors : Busy(a) => Quiet({a}) /\ Len(call[a].before) = 1

(* What the rows and the document are at each place of a call that is alone. *)
Begun(c) == c.before[1]
Base(c) ==
  IF c.req.op = "sync" /\ c.req.clear THEN Cleared(Begun(c).row, c.req.in.pid) ELSE Begun(c).row
Saved(c) ==
  CASE c.req.op = "sync" -> MergeSync(Base(c), c.req.in)
    [] c.req.op = "active" -> PatchActive(Base(c), c.req.ids)
    [] c.req.op = "mode" -> PatchMode(Base(c), c.req.mode)
    [] OTHER -> Connected(Base(c), c.target)
Halfway(old, new, i) ==
  CASE i = 1 -> old
    [] i = 2 -> [old EXCEPT !.active = new.active, !.direct = new.direct]
    [] OTHER -> [old EXCEPT !.active = new.active, !.direct = new.direct,
                            !.mode = new.mode, !.meta = new.meta]
Connects(c) == c.req.op \in {"connect", "reconnect"}
RowNow(c) ==
  CASE c.pc \in {"clear", "delete"} -> Begun(c).row
    [] c.pc = "load" -> Base(c)
    [] c.pc = "save" -> Halfway(Base(c), Saved(c), c.i)
    [] Connects(c) /\ c.pc \notin {"load", "save", "done"} -> Begun(c).row
    [] OTHER -> RowAfter(c)
Early(c) ==
  c.pc \in {"load", "save", "getjson", "store"} \/ (c.pc = "defaults" /\ c.req.op = "settings")
SettingsNow(c) == IF Early(c) THEN Begun(c).settings ELSE DocAfter(c)

(* What it has read, and what it does with it.                              *)
HasRead(c) ==
  /\ c.pc = "delete" => row.pid = Expected(c.req)
  /\ (c.pc = "load" /\ c.i > 1) => c.st.active = row.active /\ c.st.direct = row.direct
  /\ (c.pc = "load" /\ c.i > 2) => c.st.mode = row.mode /\ c.st.meta = row.meta
  /\ c.pc = "save" => c.st = Saved(c)
  /\ (Connects(c) /\ c.pc \notin {"load", "save", "done"}) => c.st = Begun(c).row
Asked(c) ==
  IF Begun(c).settings.kind = "none" THEN Begun(c).options ELSE Begun(c).settings
Succeeded(c) == c.pc = "save" \/ (c.pc = "done" /\ c.err = "")
Connecting(c) ==
  Connects(c) =>
    /\ c.pc \in {"load", "apply"} => options = Begun(c).options
    /\ c.pc \in {"defaults", "unmarshal"} => c.doc = Begun(c).settings
    /\ c.pc \in {"resolve", "stop", "start"} => options = Asked(c)
    /\ (c.pc \in {"stop", "start", "up"} \/ Succeeded(c)) =>
         Connectable(Begun(c).row) /\ c.target = ResolveStartTarget(Begun(c).row)
    /\ (c.pc = "up" \/ Succeeded(c)) => run = [target |-> c.target, options |-> Asked(c)]
    /\ Succeeded(c) => core = "STARTED"
Switching(c) ==
  c.req.op = "mode" =>
    /\ c.pc \in {"store", "defaults", "unmarshal"} =>
         Begun(c).settings.kind = "ok" /\ c.doc = Doc(c.req.mode, Begun(c).settings.rest)
    /\ (c.pc = "done" /\ c.err = "" /\ settings.kind = "ok") =>
         options = settings /\ options.flags = c.req.mode
Knows(c) ==
  row = RowNow(c) /\ settings = SettingsNow(c) /\ HasRead(c) /\ Connecting(c) /\ Switching(c)
AloneInv == \A a \in Actors : Busy(a) => Knows(call[a])

(* The types, of the session and of the tray.                               *)
CallTypes ==
  /\ row \in RowSets /\ settings \in Docs /\ files \subseteq Targets
  /\ options \in Docs /\ options.kind = "ok" /\ core \in CoreStates /\ run \in Runs
  /\ call \in [Actors -> Calls]
TrayTypes ==
  /\ tail \in [Actors -> {"none", "session"} \cup CoreStates]
  /\ phase \in {"starting", "up", "quit", "done"} /\ watch \in {"off", "poll"} \cup CoreStates
  /\ queue \in Seq(Commands) /\ Len(queue) <= QueueSize
  /\ failed \in BOOLEAN /\ alive \subseteq Pids /\ presence \in Pids

(* The invariant of the calls; alive is the one variable of the tray in it. *)
CallInv == CallTypes /\ PlaceInv /\ TrayCallInv /\ QuietInv /\ AloneInv

(***************************************************************************)
(* The operators on rows, documents and targets                             *)
(***************************************************************************)
(* Two rows of a session are equal when their fields are.                   *)
LEMMA RowsEqual ==
  ASSUME NEW r \in RowSets, NEW s \in RowSets,
         r.active = s.active, r.direct = s.direct, r.mode = s.mode, r.meta = s.meta,
         r.target = s.target, r.look = s.look, r.pid = s.pid
  PROVE  r = s
  BY DEF RowSets

(* The values that the code writes have the types of the variables.         *)
LEMMA ValuesTyped ==
  /\ Rows0 \in RowSets /\ NoDoc \in Docs /\ BadDoc \in Docs /\ DefaultClientOptions \in Docs
  /\ NoRun \in Runs /\ Idle \in Calls
  /\ DefaultClientOptions.kind = "ok"
  <1>1. Rows0 \in RowSets BY SessionAssumption DEF Rows0, RowSets, Modes, NoMeta, None
  <1>2. NoDoc \in Docs /\ BadDoc \in Docs /\ DefaultClientOptions \in Docs
        /\ DefaultClientOptions.kind = "ok"
    BY DEF NoDoc, BadDoc, DefaultClientOptions, Doc, Docs, Modes
  <1>3. NoRun \in Runs BY <1>2 DEF NoRun, Runs, None
  <1>4. Idle \in Calls BY <1>1, <1>2 DEF Idle, Calls, NoReq, Groups, Steps, Errors, None
  <1> QED BY <1>1, <1>2, <1>3, <1>4

(* What a request of each kind holds.                                       *)
LEMMA RequestTyped ==
  ASSUME NEW req \in UiRequests \cup {NoReq}
  PROVE  /\ req.op \in {"none", "sync", "active", "mode", "settings", "clearpid",
                        "connect", "disconnect", "reconnect"}
         /\ req.op = "sync" => req.clear \in BOOLEAN /\ req.in \in Incoming
         /\ req.op = "active" => req.ids \in SUBSET Ids
         /\ req.op = "mode" => req.mode \in Modes
         /\ req.op = "settings" => req.doc \in Docs
         /\ req.op = "clearpid" => req.pid \in Pids \cup {0}
  BY DEF UiRequests, NoReq

(* The merges and the clearing of the pid keep the type of the rows.        *)
LEMMA MergesTyped ==
  ASSUME NEW r \in RowSets
  PROVE  /\ \A in \in Incoming : MergeSync(r, in) \in RowSets
         /\ \A ids \in SUBSET Ids : PatchActive(r, ids) \in RowSets
         /\ \A mode \in Modes : PatchMode(r, mode) \in RowSets
         /\ \A t \in Targets \cup {None} : Connected(r, t) \in RowSets
         /\ \A pid \in Pids \cup {0} : Cleared(r, pid) \in RowSets
  <1>1. ASSUME NEW in \in Incoming PROVE MergeSync(r, in) \in RowSets
    BY DEF MergeSync, Take, Incoming, RowSets
  <1>2. ASSUME NEW ids \in SUBSET Ids PROVE PatchActive(r, ids) \in RowSets
    BY DEF PatchActive, RowSets
  <1>3. ASSUME NEW mode \in Modes PROVE PatchMode(r, mode) \in RowSets
    BY DEF PatchMode, RowSets
  <1>4. ASSUME NEW t \in Targets \cup {None} PROVE Connected(r, t) \in RowSets
    BY SessionAssumption DEF Connected, RowSets
  <1>5. ASSUME NEW pid \in Pids \cup {0} PROVE Cleared(r, pid) \in RowSets
    BY DEF Cleared, RowSets
  <1> QED BY <1>1, <1>2, <1>3, <1>4, <1>5

(* A load and a save move rows of the right type.                           *)
LEMMA GroupsTyped ==
  ASSUME row \in RowSets, NEW st \in RowSets, NEW i \in 1..Groups
  PROVE  Read(st, i) \in RowSets /\ Write(st, i) \in RowSets
  BY DEF Read, Write, RowSets, Groups

(* After its three groups a load has read the whole row.                    *)
LEMMA LoadReadsAll ==
  ASSUME row \in RowSets, NEW st \in RowSets,
         st.active = row.active, st.direct = row.direct, st.mode = row.mode, st.meta = row.meta
  PROVE  Read(st, 3) = row
  <1>1. Read(st, 3) = [st EXCEPT !.target = row.target, !.look = row.look, !.pid = row.pid]
    BY DEF Read
  <1>2. Read(st, 3) \in RowSets BY GroupsTyped DEF Groups
  <1> QED BY <1>1, <1>2, RowsEqual DEF RowSets

(* A target that is resolved is on disk, and the session is connectable.    *)
LEMMA TargetOnDisk ==
  ASSUME files \subseteq Targets, NEW st \in RowSets
  PROVE  /\ ResolveStartTarget(st) \in Targets \cup {None}
         /\ ResolveStartTarget(st) # None => Connectable(st)
  BY DEF ResolveStartTarget, OnDisk

(* One call moves, and the others stay where they are.                      *)
LEMMA OneMoves ==
  ASSUME call \in [Actors -> Calls], NEW a \in Actors, NEW d \in Calls,
         call' = [call EXCEPT ![a] = d]
  PROVE  /\ call' \in [Actors -> Calls] /\ call'[a] = d
         /\ \A b \in Actors \ {a} : call'[b] = call[b]
  OBVIOUS

(***************************************************************************)
(* One step of one call                                                     *)
(***************************************************************************)
(* It keeps its request; it stays alone or not, or stops being so.          *)
Same(c, d) == d.req = c.req /\ (d.alone => c.alone /\ d.before = c.before)

(* The other calls are idle if this one is alone, and know nothing if not.  *)
LEMMA OneStep ==
  ASSUME CallInv, NEW a \in Actors, ~At(a, "idle"),
         NEW d \in Calls, call' = [call EXCEPT ![a] = d], Same(call[a], d), Placed(d),
         row' \in RowSets, settings' \in Docs, files' = files, options' \in Docs,
         options'.kind = "ok", core' \in CoreStates, run' \in Runs, alive' = alive,
         (Busy(a) /\ d.alone) => Knows(d)'
  PROVE  CallInv'
  <1>0. CallTypes /\ PlaceInv /\ TrayCallInv /\ QuietInv /\ AloneInv BY DEF CallInv
  <1>1. /\ call' \in [Actors -> Calls] /\ call'[a] = d
        /\ \A b \in Actors \ {a} : call'[b] = call[b]
    BY <1>0, OneMoves DEF CallTypes
  <1>2. CallTypes' BY <1>0, <1>1 DEF CallTypes
  <1>3. PlaceInv'
    <2> SUFFICES ASSUME NEW b \in Actors PROVE Placed(call[b])'
      BY DEF PlaceInv
    <2>1. CASE b = a BY <2>1, <1>1
    <2>2. CASE b # a
      <3>1. Placed(call[b]) /\ call'[b] = call[b] BY <2>2, <1>0, <1>1 DEF PlaceInv
      <3> QED BY <3>1
    <2> QED BY <2>1, <2>2
  <1>4. TrayCallInv'
    BY <1>0, <1>1, SessionAssumption DEF TrayCallInv, Same
  <1>5. ASSUME NEW b \in Actors, Busy(b)' PROVE b = a /\ Busy(a) /\ d.alone
    BY <1>0, <1>1, <1>5 DEF QuietInv, Busy, At, Quiet, Same
  <1>6. QuietInv'
    <2> SUFFICES ASSUME NEW b \in Actors, Busy(b)' PROVE (Quiet({b}) /\ Len(call[b].before) = 1)'
      BY DEF QuietInv
    <2>1. b = a /\ Busy(a) /\ d.alone BY <1>5
    <2>2. Quiet({a}) /\ Len(call[a].before) = 1 BY <2>1, <1>0 DEF QuietInv
    <2> QED BY <2>1, <2>2, <1>1 DEF Quiet, At, Same
  <1>7. AloneInv'
    <2> SUFFICES ASSUME NEW b \in Actors, Busy(b)' PROVE Knows(call[b])'
      BY DEF AloneInv
    <2>1. b = a /\ Busy(a) /\ d.alone BY <1>5
    <2> QED BY <2>1, <1>1
  <1> QED BY <1>2, <1>3, <1>4, <1>6, <1>7 DEF CallInv

(* A call begins: it has its own record, and the others lose their solitude. *)
LEMMA StartMoves ==
  ASSUME CallTypes, NEW a \in Actors, NEW req \in UiRequests, Start(a, req)
  PROVE  /\ call' \in [Actors -> Calls]
         /\ call'[a] = [Idle EXCEPT !.pc = FirstStep(req), !.req = req, !.alone = Quiet({a}),
                          !.before = IF Quiet({a}) THEN <<Snapshot>> ELSE <<>>]
         /\ \A b \in Actors \ {a} :
              call'[b] = [call[b] EXCEPT !.alone = FALSE, !.before = <<>>]
  <1> DEFINE D == [Idle EXCEPT !.pc = FirstStep(req), !.req = req, !.alone = Quiet({a}),
                     !.before = IF Quiet({a}) THEN <<Snapshot>> ELSE <<>>]
             B == [row: RowSets, settings: Docs, options: Docs, run: Runs]
  <1>1. Snapshot \in B BY DEF CallTypes, Snapshot
  <1>2. <<Snapshot>> \in Seq(B) /\ <<>> \in Seq(B)
    <2> HIDE DEF B
    <2> QED BY <1>1
  <1>3. FirstStep(req) \in Steps BY DEF FirstStep, Steps
  <1>4. Quiet({a}) \in BOOLEAN BY DEF Quiet
  <1>5. D \in Calls
    BY <1>2, <1>3, <1>4, ValuesTyped DEF Idle, Calls, Rows0, NoDoc
  <1>6. ASSUME NEW b \in Actors PROVE [call[b] EXCEPT !.alone = FALSE, !.before = <<>>] \in Calls
    BY <1>2 DEF CallTypes, Calls
  <1>7. /\ call'[a] = D
        /\ \A b \in Actors \ {a} : call'[b] = [call[b] EXCEPT !.alone = FALSE, !.before = <<>>]
        /\ call' = [b \in Actors |-> call'[b]]
    <2> HIDE DEF D
    <2> QED BY DEF Start, D
  <1>8. \A b \in Actors : call'[b] \in Calls
    <2> HIDE DEF D
    <2> QED BY <1>5, <1>6, <1>7
  <1> QED BY <1>7, <1>8

(* What a call that begins is, and the others beside it.                    *)
LEMMA StartFields ==
  ASSUME CallTypes, NEW a \in Actors, NEW req \in UiRequests, Start(a, req)
  PROVE  /\ call'[a].pc = FirstStep(req) /\ call'[a].req = req /\ call'[a].i = 1
         /\ call'[a].err = "" /\ call'[a].alone = Quiet({a}) /\ call'[a].doc = NoDoc
         /\ Quiet({a}) => call'[a].before = <<Snapshot>>
         /\ \A b \in Actors \ {a} : /\ ~call'[b].alone /\ call'[b].pc = call[b].pc
                                    /\ call'[b].req = call[b].req /\ call'[b].err = call[b].err
                                    /\ call'[b].doc = call[b].doc /\ call'[b].target = call[b].target
  <1>1. /\ call' \in [Actors -> Calls]
        /\ call'[a] = [Idle EXCEPT !.pc = FirstStep(req), !.req = req, !.alone = Quiet({a}),
                         !.before = IF Quiet({a}) THEN <<Snapshot>> ELSE <<>>]
        /\ \A b \in Actors \ {a} : call'[b] = [call[b] EXCEPT !.alone = FALSE, !.before = <<>>]
    BY StartMoves
  <1>2. ASSUME NEW b \in Actors PROVE call[b] \in Calls BY DEF CallTypes
  <1>3. /\ call'[a].pc = FirstStep(req) /\ call'[a].req = req /\ call'[a].i = 1
        /\ call'[a].err = "" /\ call'[a].alone = Quiet({a}) /\ call'[a].doc = NoDoc
        /\ Quiet({a}) => call'[a].before = <<Snapshot>>
    BY <1>1 DEF Idle
  <1>4. ASSUME NEW b \in Actors \ {a}
        PROVE  /\ ~call'[b].alone /\ call'[b].pc = call[b].pc
               /\ call'[b].req = call[b].req /\ call'[b].err = call[b].err
               /\ call'[b].doc = call[b].doc /\ call'[b].target = call[b].target
    <2>1. call[b] \in Calls /\ call'[b] = [call[b] EXCEPT !.alone = FALSE, !.before = <<>>]
      BY <1>1, <1>2
    <2> QED BY <2>1 DEF Calls
  <1> QED BY <1>3, <1>4

(* What a call that is alone sees first is what it began with.              *)
LEMMA StartKnows ==
  ASSUME CallTypes, NEW a \in Actors, NEW req \in UiRequests, Start(a, req), Quiet({a}),
         UNCHANGED <<session, process>>, NEW d, d = call'[a]
  PROVE  Knows(d)'
  <1>1. d.pc = FirstStep(req) /\ d.req = req /\ d.i = 1 /\ d.before = <<Snapshot>>
    BY StartFields
  <1>2. /\ Begun(d).row = row /\ Begun(d).settings = settings /\ Begun(d).options = options
    BY <1>1 DEF Begun, Snapshot
  <1>3. UNCHANGED <<row, settings, options>> BY DEF session, process
  <1>4. /\ req.op \in {"none", "sync", "active", "mode", "settings", "clearpid",
                       "connect", "disconnect", "reconnect"}
        /\ req.op # "none"
    BY RequestTyped DEF UiRequests
  <1>5. row = RowNow(d)
    BY <1>1, <1>2, <1>4 DEF RowNow, FirstStep, Base, Connects, RowAfter, Begun
  <1>6. settings = SettingsNow(d)
    BY <1>1, <1>2, <1>4 DEF SettingsNow, Early, FirstStep, DocAfter, Begun
  <1>7. HasRead(d)'
    BY <1>1, <1>2, <1>4 DEF HasRead, FirstStep, Connects
  <1>8. Connecting(d)' /\ Switching(d)'
    BY <1>1, <1>2, <1>3, <1>4 DEF Connecting, Switching, Succeeded, Connects, FirstStep
  <1> QED BY <1>3, <1>5, <1>6, <1>7, <1>8 DEF Knows

(* A call that begins keeps the invariant, and the others know no more.     *)
LEMMA StartStep ==
  ASSUME CallInv, NEW a \in Actors, NEW req \in UiRequests, Start(a, req),
         UNCHANGED <<session, process>>, alive' \subseteq alive,
         a = "item" => req.op \in {"active", "reconnect"},
         a = "menu" => req.op # "sync",
         (a = "menu" /\ req.op = "clearpid") => req.pid \in Pids \ alive'
  PROVE  CallInv'
  <1>0. CallTypes /\ PlaceInv /\ TrayCallInv /\ QuietInv /\ AloneInv BY DEF CallInv
  <1>1. call' \in [Actors -> Calls] BY <1>0, StartMoves
  <1>2. /\ call'[a].pc = FirstStep(req) /\ call'[a].req = req
        /\ call'[a].err = "" /\ call'[a].alone = Quiet({a}) /\ call'[a].doc = NoDoc
        /\ Quiet({a}) => call'[a].before = <<Snapshot>>
        /\ \A b \in Actors \ {a} : /\ ~call'[b].alone /\ call'[b].pc = call[b].pc
                                   /\ call'[b].req = call[b].req /\ call'[b].err = call[b].err
                                   /\ call'[b].doc = call[b].doc /\ call'[b].target = call[b].target
    BY <1>0, StartFields
  <1>3. CallTypes' BY <1>0, <1>1 DEF CallTypes, session, process
  <1>4. PlaceInv'
    <2> SUFFICES ASSUME NEW b \in Actors PROVE Placed(call'[b])
      BY DEF PlaceInv
    <2>1. CASE b = a
      <3>1. req.op \in {"none", "sync", "active", "mode", "settings", "clearpid",
                        "connect", "disconnect", "reconnect"} /\ req.op # "none"
        BY RequestTyped DEF UiRequests
      <3> QED BY <2>1, <1>2, <3>1 DEF Placed, Reached, FirstStep, DocOf
    <2>2. CASE b # a
      <3>1. Placed(call[b]) BY <1>0 DEF PlaceInv
      <3> QED BY <3>1, <2>2, <1>2 DEF Placed, DocOf
    <2> QED BY <2>1, <2>2
  <1>5. TrayCallInv'
    BY <1>0, <1>2, SessionAssumption DEF TrayCallInv
  <1>6. ASSUME NEW b \in Actors, Busy(b)' PROVE b = a /\ Quiet({a})
    BY <1>2, <1>6 DEF Busy
  <1>7. QuietInv'
    <2> SUFFICES ASSUME NEW b \in Actors, Busy(b)' PROVE (Quiet({b}) /\ Len(call[b].before) = 1)'
      BY DEF QuietInv
    <2>1. b = a /\ Quiet({a}) BY <1>6
    <2> QED BY <2>1, <1>2 DEF Quiet, At
  <1>8. AloneInv'
    <2> SUFFICES ASSUME NEW b \in Actors, Busy(b)' PROVE Knows(call[b])'
      BY DEF AloneInv
    <2> QED BY <1>0, <1>6, StartKnows
  <1> QED BY <1>3, <1>4, <1>5, <1>7, <1>8 DEF CallInv

(* The files on disk decide the target, and do not change.                  *)
LEMMA ResolveKeeps ==
  ASSUME files' = files, NEW st PROVE ResolveStartTarget(st)' = ResolveStartTarget(st)
  BY DEF ResolveStartTarget, OnDisk

(* A call is over, and its actor is idle again.                             *)
LEMMA IdleStep ==
  ASSUME CallInv, NEW a \in Actors, ~At(a, "idle"), call' = [call EXCEPT ![a] = Idle],
         UNCHANGED <<session, process, alive>>
  PROVE  CallInv'
  <1>0. CallTypes /\ PlaceInv /\ TrayCallInv /\ QuietInv /\ AloneInv BY DEF CallInv
  <1>1. /\ call' \in [Actors -> Calls] /\ call'[a] = Idle
        /\ \A b \in Actors \ {a} : call'[b] = call[b]
    BY <1>0, OneMoves, ValuesTyped DEF CallTypes
  <1>2. Idle.pc = "idle" /\ Idle.req.op = "none" /\ Idle.err = "" BY DEF Idle, NoReq
  <1>3. CallTypes' BY <1>0, <1>1 DEF CallTypes, session, process
  <1>4. PlaceInv'
    <2> SUFFICES ASSUME NEW b \in Actors PROVE Placed(call'[b])
      BY DEF PlaceInv
    <2>1. CASE b = a BY <2>1, <1>1, <1>2 DEF Placed, Reached
    <2>2. CASE b # a BY <2>2, <1>0, <1>1 DEF PlaceInv
    <2> QED BY <2>1, <2>2
  <1>5. TrayCallInv' BY <1>0, <1>1, <1>2, SessionAssumption DEF TrayCallInv
  <1>6. ASSUME NEW b \in Actors PROVE ~Busy(b)'
    BY <1>0, <1>1, <1>2 DEF QuietInv, Busy, At, Quiet
  <1> QED BY <1>3, <1>4, <1>5, <1>6 DEF CallInv, QuietInv, AloneInv

(* The process dies and every call with it.                                 *)
LEMMA CrashStep ==
  ASSUME CallInv, Crash, UNCHANGED alive
  PROVE  CallInv'
  <1>0. CallTypes BY DEF CallInv
  <1>1. \A a \in Actors : call'[a] = Idle BY DEF Crash
  <1>2. Idle.pc = "idle" /\ Idle.req.op = "none" /\ Idle.err = "" BY DEF Idle, NoReq
  <1>3. CallTypes'
    BY <1>0, ValuesTyped DEF CallTypes, Crash, session, CoreStates
  <1>4. PlaceInv' BY <1>1, <1>2 DEF PlaceInv, Placed, Reached
  <1>5. TrayCallInv' BY <1>1, <1>2, SessionAssumption DEF TrayCallInv
  <1>6. ASSUME NEW b \in Actors PROVE ~Busy(b)' BY <1>1, <1>2 DEF Busy, At
  <1> QED BY <1>3, <1>4, <1>5, <1>6 DEF CallInv, QuietInv, AloneInv

(* Everything else leaves the calls and what they are about alone; a UI     *)
(* that comes up does not have the pid that the menu clears.                *)
LEMMA RestStep ==
  ASSUME CallInv, UNCHANGED <<session, process, call>>,
         call["menu"].req.op = "clearpid" => call["menu"].req.pid \notin alive' \ alive
  PROVE  CallInv'
  <1>0. CallTypes /\ PlaceInv /\ TrayCallInv /\ QuietInv /\ AloneInv BY DEF CallInv
  <1>1. UNCHANGED <<row, settings, files, options, core, run, call>> BY DEF session, process
  <1>2. CallTypes' BY <1>0, <1>1 DEF CallTypes
  <1>3. PlaceInv' BY <1>0, <1>1 DEF PlaceInv
  <1>4. TrayCallInv' BY <1>0, <1>1 DEF TrayCallInv
  <1>5. QuietInv' BY <1>0, <1>1 DEF QuietInv, Busy, At, Quiet
  <1>6. AloneInv'
    <2> SUFFICES ASSUME NEW b \in Actors, Busy(b)' PROVE Knows(call[b])'
      BY DEF AloneInv
    <2> PICK c : c = call[b] OBVIOUS
    <2>1. Knows(c) /\ c = call'[b] BY <1>0, <1>1 DEF AloneInv, Busy, At
    <2>2. (row = RowNow(c) /\ settings = SettingsNow(c) /\ HasRead(c))'
      BY <1>1, <2>1 DEF Knows, HasRead
    <2>3. Connecting(c)' BY <1>1, <2>1, ResolveKeeps DEF Knows, Connecting
    <2>4. Switching(c)' BY <1>1, <2>1 DEF Knows, Switching
    <2>5. Knows(c)' BY <2>2, <2>3, <2>4 DEF Knows
    <2> QED BY <2>1, <2>5
  <1> QED BY <1>2, <1>3, <1>4, <1>5, <1>6 DEF CallInv

(* What is known of a call in every state.                                  *)
LEMMA CallFacts ==
  ASSUME CallInv, NEW a \in Actors, NEW c, c = call[a]
  PROVE  /\ c \in Calls /\ c.req \in UiRequests \cup {NoReq} /\ Placed(c)
         /\ c.st \in RowSets /\ c.i \in 1..Groups /\ c.doc \in Docs /\ c.target \in Targets \cup {None}
         /\ row \in RowSets /\ settings \in Docs /\ files \subseteq Targets
         /\ options \in Docs /\ options.kind = "ok" /\ core \in CoreStates /\ run \in Runs
         /\ Busy(a) => /\ Knows(c)
                       /\ Begun(c).row \in RowSets /\ Begun(c).settings \in Docs
                       /\ Begun(c).options \in Docs
  <1> DEFINE B == [row: RowSets, settings: Docs, options: Docs, run: Runs]
  <1>0. CallTypes /\ PlaceInv /\ QuietInv /\ AloneInv BY DEF CallInv
  <1>1. c \in Calls BY <1>0 DEF CallTypes
  <1>2. /\ c.req \in UiRequests \cup {NoReq}
        /\ c.st \in RowSets /\ c.i \in 1..Groups /\ c.doc \in Docs /\ c.target \in Targets \cup {None}
        /\ c.before \in Seq(B)
    BY <1>1 DEF Calls
  <1>3. ASSUME Busy(a) PROVE Begun(c) \in B
    <2>1. Len(c.before) = 1 BY <1>0, <1>3 DEF QuietInv
    <2> HIDE DEF B
    <2> QED BY <1>2, <2>1 DEF Begun
  <1>4. Placed(c) /\ (Busy(a) => Knows(c)) BY <1>0 DEF PlaceInv, AloneInv
  <1>5. row \in RowSets /\ settings \in Docs /\ files \subseteq Targets
        /\ options \in Docs /\ options.kind = "ok" /\ core \in CoreStates /\ run \in Runs
    BY <1>0 DEF CallTypes
  <1> QED BY <1>1, <1>2, <1>3, <1>4, <1>5

(* What a call found, and what it saves, are rows.                          *)
LEMMA BasesTyped ==
  ASSUME NEW c \in Calls, Begun(c).row \in RowSets
  PROVE  /\ Base(c) \in RowSets
         /\ c.req.op \in {"sync", "active", "mode", "connect"} => Saved(c) \in RowSets
  <1>1. c.req \in UiRequests \cup {NoReq} /\ c.target \in Targets \cup {None} BY DEF Calls
  <1>2. c.req.op = "sync" => c.req.in \in Incoming /\ c.req.in.pid \in Pids \cup {0}
    BY <1>1, RequestTyped DEF Incoming
  <1>3. Base(c) \in RowSets BY <1>2, MergesTyped DEF Base
  <1>4. /\ c.req.op = "active" => c.req.ids \in SUBSET Ids
        /\ c.req.op = "mode" => c.req.mode \in Modes
    BY <1>1, RequestTyped
  <1>5. c.req.op \in {"sync", "active", "mode", "connect"} => Saved(c) \in RowSets
    BY <1>1, <1>2, <1>3, <1>4, MergesTyped DEF Saved
  <1> QED BY <1>3, <1>5

(* The fields of a call that a step may set, one by one: first its place.   *)
Like(c, d) == d.req = c.req /\ d.alone = c.alone /\ d.before = c.before
LEMMA SetPc ==
  ASSUME NEW c \in Calls, NEW pc \in Steps, NEW d, d = [c EXCEPT !.pc = pc]
  PROVE  d \in Calls /\ d.pc = pc /\ Like(c, d) /\ d.i = c.i /\ d.st = c.st /\ d.doc = c.doc
         /\ d.target = c.target /\ d.err = c.err
  BY DEF Calls, Like

(* Its group of rows.                                                       *)
LEMMA SetI ==
  ASSUME NEW c \in Calls, NEW i \in 1..3, NEW d, d = [c EXCEPT !.i = i]
  PROVE  d \in Calls /\ d.i = i /\ Like(c, d) /\ d.pc = c.pc /\ d.st = c.st /\ d.doc = c.doc
         /\ d.target = c.target /\ d.err = c.err
  BY DEF Calls, Like, Groups

(* The rows that it holds.                                                  *)
LEMMA SetSt ==
  ASSUME NEW c \in Calls, NEW st \in RowSets, NEW d, d = [c EXCEPT !.st = st]
  PROVE  d \in Calls /\ d.st = st /\ Like(c, d) /\ d.pc = c.pc /\ d.i = c.i /\ d.doc = c.doc
         /\ d.target = c.target /\ d.err = c.err
  BY DEF Calls, Like

(* The document that it holds.                                              *)
LEMMA SetDoc ==
  ASSUME NEW c \in Calls, NEW doc \in Docs, NEW d, d = [c EXCEPT !.doc = doc]
  PROVE  d \in Calls /\ d.doc = doc /\ Like(c, d) /\ d.pc = c.pc /\ d.i = c.i /\ d.st = c.st
         /\ d.target = c.target /\ d.err = c.err
  BY DEF Calls, Like

(* Its target.                                                              *)
LEMMA SetTarget ==
  ASSUME NEW c \in Calls, NEW t \in Targets \cup {None}, NEW d, d = [c EXCEPT !.target = t]
  PROVE  d \in Calls /\ d.target = t /\ Like(c, d) /\ d.pc = c.pc /\ d.i = c.i /\ d.st = c.st
         /\ d.doc = c.doc /\ d.err = c.err
  BY DEF Calls, Like

(* What it answers.                                                         *)
LEMMA SetErr ==
  ASSUME NEW c \in Calls, NEW err \in Errors, NEW d, d = [c EXCEPT !.err = err]
  PROVE  d \in Calls /\ d.err = err /\ Like(c, d) /\ d.pc = c.pc /\ d.i = c.i /\ d.st = c.st
         /\ d.doc = c.doc /\ d.target = c.target
  BY DEF Calls, Like

(* It is alone no more.                                                     *)
LEMMA SetAlone ==
  ASSUME NEW c \in Calls, NEW d, d = [c EXCEPT !.alone = FALSE, !.before = <<>>]
  PROVE  d \in Calls /\ ~d.alone /\ d.req = c.req /\ d.pc = c.pc /\ d.i = c.i /\ d.st = c.st
         /\ d.doc = c.doc /\ d.target = c.target /\ d.err = c.err
  <1>1. <<>> \in Seq([row: RowSets, settings: Docs, options: Docs, run: Runs])
    OBVIOUS
  <1> QED BY <1>1 DEF Calls

(* The moves Goto and Fail.                                                 *)
LEMMA GotoMoves ==
  ASSUME CallInv, NEW a \in Actors, NEW c, c = call[a], NEW pc \in Steps, Goto(a, pc)
  PROVE  \E d \in Calls :
           /\ call' = [call EXCEPT ![a] = d]
           /\ d.pc = pc /\ d.i = 1 /\ Like(c, d) /\ d.st = c.st /\ d.doc = c.doc
           /\ d.target = c.target /\ d.err = c.err
  <1>1. c \in Calls BY CallFacts
  <1>2. PICK e : e = [c EXCEPT !.pc = pc] OBVIOUS
  <1>3. PICK d : d = [e EXCEPT !.i = 1] OBVIOUS
  <1>4. e \in Calls /\ e.pc = pc /\ Like(c, e) /\ e.st = c.st /\ e.doc = c.doc
        /\ e.target = c.target /\ e.err = c.err
    BY <1>1, <1>2, SetPc
  <1>5. d \in Calls /\ d.i = 1 /\ Like(e, d) /\ d.pc = e.pc /\ d.st = e.st /\ d.doc = e.doc
        /\ d.target = e.target /\ d.err = e.err
    BY <1>3, <1>4, SetI
  <1>6. call' = [call EXCEPT ![a] = d] BY <1>2, <1>3 DEF Goto
  <1>7. Like(c, d) BY <1>4, <1>5 DEF Like
  <1> QED BY <1>4, <1>5, <1>6, <1>7

(* A call that fails is done, with its error.                               *)
LEMMA FailMoves ==
  ASSUME CallInv, NEW a \in Actors, NEW c, c = call[a], NEW why \in Errors, Fail(a, why)
  PROVE  \E d \in Calls :
           /\ call' = [call EXCEPT ![a] = d]
           /\ d.pc = "done" /\ d.err = why /\ Like(c, d) /\ d.i = c.i /\ d.st = c.st
           /\ d.doc = c.doc /\ d.target = c.target
  <1>1. c \in Calls BY CallFacts
  <1>2. PICK e : e = [c EXCEPT !.pc = "done"] OBVIOUS
  <1>3. PICK d : d = [e EXCEPT !.err = why] OBVIOUS
  <1>4. e \in Calls /\ e.pc = "done" /\ Like(c, e) /\ e.i = c.i /\ e.st = c.st /\ e.doc = c.doc
        /\ e.target = c.target
    BY <1>1, <1>2, SetPc DEF Steps
  <1>5. d \in Calls /\ d.err = why /\ Like(e, d) /\ d.pc = e.pc /\ d.i = e.i /\ d.st = e.st
        /\ d.doc = e.doc /\ d.target = e.target
    BY <1>3, <1>4, SetErr
  <1>6. call' = [call EXCEPT ![a] = d] BY <1>2, <1>3 DEF Fail
  <1>7. Like(c, d) BY <1>4, <1>5 DEF Like
  <1> QED BY <1>4, <1>5, <1>6, <1>7

(* What depends on the request and on what was found stays the same.        *)
LEMMA LikeBase ==
  ASSUME NEW c, NEW d, Like(c, d)
  PROVE  /\ Begun(d) = Begun(c) /\ Base(d) = Base(c) /\ Asked(d) = Asked(c)
         /\ DocAfter(d) = DocAfter(c) /\ (Connects(d) <=> Connects(c))
         /\ d.target = c.target => Saved(d) = Saved(c)
         /\ (d.target = c.target /\ d.err = c.err) => RowAfter(d) = RowAfter(c)
  BY DEF Like, Begun, Base, Saved, Asked, DocAfter, Connects, RowAfter

(***************************************************************************)
(* The loads                                                                *)
(***************************************************************************)
LEMMA LoadMore ==
  ASSUME CallInv, NEW a \in Actors, Load(a), UNCHANGED alive, call[a].i < 3
  PROVE  CallInv'
  <1>c. PICK c : c = call[a] OBVIOUS
  <1>1. /\ c \in Calls /\ Placed(c) /\ c.st \in RowSets /\ c.i \in 1..3
        /\ row \in RowSets /\ settings \in Docs /\ options \in Docs
        /\ options.kind = "ok" /\ core \in CoreStates /\ run \in Runs
        /\ Busy(a) => Knows(c)
    BY <1>c, CallFacts DEF Groups
  <1>e. PICK e : e = [c EXCEPT !.st = Read(c.st, c.i)] OBVIOUS
  <1>d. PICK d : d = [e EXCEPT !.i = @ + 1] OBVIOUS
  <1>2. c.pc = "load" /\ c.i \in {1, 2} BY <1>1, <1>c DEF Load, At
  <1>3. Read(c.st, c.i) \in RowSets BY <1>1, GroupsTyped DEF Groups
  <1>4. /\ e \in Calls /\ e.st = Read(c.st, c.i) /\ Like(c, e) /\ e.pc = c.pc /\ e.i = c.i
        /\ e.doc = c.doc /\ e.target = c.target /\ e.err = c.err
    BY <1>1, <1>3, <1>e, SetSt
  <1>5. call' = [call EXCEPT ![a] = d]
    BY <1>2, <1>4, <1>c, <1>d, <1>e DEF Load, Groups
  <1>6. /\ d \in Calls /\ d.i = c.i + 1 /\ Like(e, d) /\ d.pc = e.pc /\ d.st = e.st
        /\ d.doc = e.doc /\ d.target = e.target /\ d.err = e.err
    <2>1. c.i + 1 \in 1..3 /\ d = [e EXCEPT !.i = c.i + 1] BY <1>2, <1>4, <1>d
    <2> QED BY <2>1, <1>4, SetI
  <1>7. Like(c, d) /\ d.pc = "load" /\ d.st = Read(c.st, c.i) /\ d.err = c.err
        /\ d.doc = c.doc /\ d.target = c.target
    BY <1>2, <1>4, <1>6 DEF Like
  <1>8. UNCHANGED <<row, settings, files, options, core, run>> BY DEF Load, session, process
  <1>9. Same(c, d) /\ Placed(d) BY <1>1, <1>2, <1>7 DEF Same, Like, Placed, DocOf
  <1>10. ASSUME Busy(a) PROVE Knows(d)'
    <2>1. row = Base(c) /\ settings = Begun(c).settings /\ HasRead(c) /\ Connecting(c)
      BY <1>1, <1>2, <1>10 DEF Knows, RowNow, SettingsNow, Early
    <2>2. Begun(d) = Begun(c) /\ Base(d) = Base(c) /\ (Connects(d) <=> Connects(c))
      BY <1>7, LikeBase
    <2>3. row' = RowNow(d) /\ settings' = SettingsNow(d)
      BY <1>7, <1>8, <2>1, <2>2 DEF RowNow, SettingsNow, Early
    <2>4. HasRead(d)'
      BY <1>1, <1>2, <1>6, <1>7, <1>8, <2>1 DEF HasRead, Read, RowSets
    <2>5. Connecting(d)' /\ Switching(d)'
      BY <1>2, <1>7, <1>8, <2>1, <2>2 DEF Connecting, Switching, Succeeded
    <2> QED BY <2>3, <2>4, <2>5 DEF Knows
  <1>11. ~At(a, "idle") BY <1>2, <1>c DEF At
  <1> QED BY <1>1, <1>5, <1>6, <1>8, <1>9, <1>10, <1>11, <1>c, OneStep

(* The last group: what was read is the whole row, and is merged.           *)
LEMMA LoadLast ==
  ASSUME CallInv, NEW a \in Actors, Load(a), UNCHANGED alive, call[a].i = 3
  PROVE  CallInv'
  <1>c. PICK c : c = call[a] OBVIOUS
  <1>1. /\ c \in Calls /\ Placed(c) /\ c.st \in RowSets /\ c.req \in UiRequests \cup {NoReq}
        /\ row \in RowSets /\ settings \in Docs /\ options \in Docs
        /\ options.kind = "ok" /\ core \in CoreStates /\ run \in Runs
        /\ Busy(a) => Knows(c)
    BY <1>c, CallFacts
  <1>s. PICK st : st = Read(c.st, 3) OBVIOUS
  <1>e. PICK e : e = [c EXCEPT !.st = st] OBVIOUS
  <1>f. PICK f : f = [e EXCEPT !.i = 1] OBVIOUS
  <1>d. PICK d : d = AfterLoad(f) OBVIOUS
  <1>2. c.pc = "load" /\ c.i = 3 BY <1>c DEF Load, At
  <1>3. st \in RowSets BY <1>1, <1>s, GroupsTyped DEF Groups
  <1>4. /\ e \in Calls /\ e.st = st /\ Like(c, e) /\ e.pc = c.pc /\ e.i = c.i
        /\ e.doc = c.doc /\ e.target = c.target /\ e.err = c.err
    BY <1>1, <1>3, <1>e, SetSt
  <1>5. /\ f \in Calls /\ f.i = 1 /\ Like(e, f) /\ f.pc = e.pc /\ f.st = e.st
        /\ f.doc = e.doc /\ f.target = e.target /\ f.err = e.err
    BY <1>4, <1>f, SetI
  <1>6. call' = [call EXCEPT ![a] = d]
    <2>1. e = [c EXCEPT !.st = Read(c.st, c.i)] BY <1>2, <1>e, <1>s
    <2>2. call' = [call EXCEPT ![a] = IF e.i < 3 THEN [e EXCEPT !.i = @ + 1]
                                      ELSE AfterLoad([e EXCEPT !.i = 1])]
      BY <2>1, <1>c DEF Load, Groups
    <2>3. ~(e.i < 3) BY <1>2, <1>4
    <2> QED BY <2>2, <2>3, <1>d, <1>f
  <1>7. Like(c, f) BY <1>4, <1>5 DEF Like
  <1>8. /\ c.req.op \in {"sync", "active", "mode", "connect", "reconnect"}
        /\ c.req.op = "sync" => c.req.in \in Incoming
        /\ c.req.op = "active" => c.req.ids \in SUBSET Ids
        /\ c.req.op = "mode" => c.req.mode \in Modes
    BY <1>1, <1>2, RequestTyped DEF Placed, Reached
  <1>9. /\ d \in Calls /\ d.i = 1 /\ Like(f, d) /\ d.doc = f.doc /\ d.target = f.target
        /\ d.err = f.err
        /\ c.req.op = "sync" => d.pc = "save" /\ d.st = MergeSync(st, c.req.in)
        /\ c.req.op = "active" => d.pc = "save" /\ d.st = PatchActive(st, c.req.ids)
        /\ c.req.op = "mode" => d.pc = "save" /\ d.st = PatchMode(st, c.req.mode)
        /\ Connects(c) => d.pc = "apply" /\ d.st = st
    <2>r. f.req = c.req /\ f.st = st BY <1>4, <1>5, <1>7 DEF Like
    <2>1. ASSUME NEW n \in RowSets, d = [f EXCEPT !.pc = "save", !.st = n]
          PROVE  /\ d \in Calls /\ d.i = 1 /\ Like(f, d) /\ d.doc = f.doc /\ d.target = f.target
                 /\ d.err = f.err /\ d.pc = "save" /\ d.st = n
      <3>g. PICK g : g = [f EXCEPT !.pc = "save"] OBVIOUS
      <3>1. /\ g \in Calls /\ g.pc = "save" /\ Like(f, g) /\ g.i = f.i /\ g.doc = f.doc
            /\ g.target = f.target /\ g.err = f.err
        BY <1>5, <3>g, SetPc DEF Steps
      <3>2. d = [g EXCEPT !.st = n] BY <2>1, <3>g
      <3>3. /\ d \in Calls /\ d.st = n /\ Like(g, d) /\ d.pc = g.pc /\ d.i = g.i /\ d.doc = g.doc
            /\ d.target = g.target /\ d.err = g.err
        BY <3>1, <3>2, SetSt
      <3> QED BY <1>5, <3>1, <3>3 DEF Like
    <2>2. CASE c.req.op = "sync"
      <3>1. MergeSync(st, c.req.in) \in RowSets BY <1>3, <1>8, <2>2, MergesTyped
      <3>2. d = [f EXCEPT !.pc = "save", !.st = MergeSync(st, c.req.in)]
        BY <1>d, <2>2, <2>r DEF AfterLoad
      <3> QED BY <2>1, <2>2, <3>1, <3>2 DEF Connects
    <2>3. CASE c.req.op = "active"
      <3>1. PatchActive(st, c.req.ids) \in RowSets BY <1>3, <1>8, <2>3, MergesTyped
      <3>2. d = [f EXCEPT !.pc = "save", !.st = PatchActive(st, c.req.ids)]
        BY <1>d, <2>3, <2>r DEF AfterLoad
      <3> QED BY <2>1, <2>3, <3>1, <3>2 DEF Connects
    <2>4. CASE c.req.op = "mode"
      <3>1. PatchMode(st, c.req.mode) \in RowSets BY <1>3, <1>8, <2>4, MergesTyped
      <3>2. d = [f EXCEPT !.pc = "save", !.st = PatchMode(st, c.req.mode)]
        BY <1>d, <2>4, <2>r DEF AfterLoad
      <3> QED BY <2>1, <2>4, <3>1, <3>2 DEF Connects
    <2>5. CASE Connects(c)
      <3>1. d = [f EXCEPT !.pc = "apply"] BY <1>d, <2>5, <2>r DEF AfterLoad, Connects
      <3>2. /\ d \in Calls /\ d.pc = "apply" /\ Like(f, d) /\ d.i = f.i /\ d.st = f.st
            /\ d.doc = f.doc /\ d.target = f.target /\ d.err = f.err
        BY <1>5, <3>1, SetPc DEF Steps
      <3> QED BY <1>5, <2>5, <2>r, <3>2 DEF Connects
    <2> QED BY <1>8, <2>2, <2>3, <2>4, <2>5 DEF Connects
  <1>10. /\ Like(c, d) /\ d.pc = IF Connects(c) THEN "apply" ELSE "save"
         /\ d.doc = c.doc /\ d.target = c.target /\ d.err = c.err
    BY <1>4, <1>5, <1>7, <1>8, <1>9 DEF Like, Connects
  <1>11. UNCHANGED <<row, settings, files, options, core, run>> BY DEF Load, session, process
  <1>12. Same(c, d) /\ Placed(d)
    BY <1>1, <1>2, <1>8, <1>10 DEF Same, Like, Placed, DocOf, Reached, Connects
  <1>13. ASSUME Busy(a) PROVE Knows(d)'
    <2>1. row = Base(c) /\ settings = Begun(c).settings /\ HasRead(c) /\ Connecting(c)
      BY <1>1, <1>2, <1>13 DEF Knows, RowNow, SettingsNow, Early
    <2>2. st = row
      <3>1. /\ c.st.active = row.active /\ c.st.direct = row.direct
            /\ c.st.mode = row.mode /\ c.st.meta = row.meta
        BY <1>2, <2>1 DEF HasRead
      <3> QED BY <1>1, <1>s, <3>1, LoadReadsAll
    <2>3. Connects(c) => Base(c) = Begun(c).row BY DEF Connects, Base
    <2>4. /\ Begun(d) = Begun(c) /\ Base(d) = Base(c) /\ (Connects(d) <=> Connects(c))
          /\ DocAfter(d) = DocAfter(c) /\ Saved(d) = Saved(c)
      BY <1>10, LikeBase
    <2>5. ~Connects(c) => d.st = Saved(c)
      BY <1>8, <1>9, <2>1, <2>2 DEF Saved, Connects
    <2>6. row' = RowNow(d)
      BY <1>9, <1>10, <1>11, <2>1, <2>3, <2>4 DEF RowNow, Halfway
    <2>7. Connects(c) => DocAfter(c) = Begun(c).settings
      BY DEF DocAfter, Begun, Connects
    <2>8. settings' = SettingsNow(d)
      BY <1>10, <1>11, <2>1, <2>4, <2>7 DEF SettingsNow, Early
    <2>9. HasRead(d)'
      BY <1>9, <1>10, <1>11, <2>1, <2>2, <2>3, <2>4, <2>5 DEF HasRead
    <2>10. Connecting(d)'
      BY <1>2, <1>10, <1>11, <2>1, <2>4 DEF Connecting, Succeeded
    <2>11. Switching(d)'
      BY <1>10 DEF Switching
    <2> QED BY <2>6, <2>8, <2>9, <2>10, <2>11 DEF Knows
  <1>14. ~At(a, "idle") BY <1>2, <1>c DEF At
  <1> QED BY <1>1, <1>6, <1>9, <1>11, <1>12, <1>13, <1>14, <1>c, OneStep

(* A load, whatever the group.                                              *)
LEMMA LoadStep ==
  ASSUME CallInv, NEW a \in Actors, Load(a), UNCHANGED alive
  PROVE  CallInv'
  <1>1. call[a].i \in 1..3 BY CallFacts DEF Groups
  <1>2. call[a].i < 3 \/ call[a].i = 3 BY <1>1
  <1> QED BY <1>2, LoadMore, LoadLast

(***************************************************************************)
(* The saves                                                                *)
(***************************************************************************)
(* The last group of rows: the empty values are skipped.                    *)
Kept(old, new, kept) ==
  /\ kept \in RowSets
  /\ kept.active = new.active /\ kept.direct = new.direct
  /\ kept.mode = new.mode /\ kept.meta = new.meta
  /\ kept.target = IF new.target = None THEN old.target ELSE new.target
  /\ kept.look = IF new.look = "" THEN old.look ELSE new.look
  /\ kept.pid = IF new.pid = 0 THEN old.pid ELSE new.pid
LEMMA WriteEnd ==
  ASSUME NEW old \in RowSets, NEW new \in RowSets, row \in RowSets,
         row = Halfway(old, new, 3)
  PROVE  Kept(old, new, Write(new, 3))
  <1>w. PICK W : W = Write(new, 3) OBVIOUS
  <1>1. row = [old EXCEPT !.active = new.active, !.direct = new.direct,
                          !.mode = new.mode, !.meta = new.meta]
    BY DEF Halfway
  <1>2. /\ row.active = new.active /\ row.direct = new.direct /\ row.mode = new.mode
        /\ row.meta = new.meta /\ row.target = old.target /\ row.look = old.look
        /\ row.pid = old.pid
    BY <1>1 DEF RowSets
  <1>3. W = [row EXCEPT !.target = IF new.target = None THEN row.target ELSE new.target,
                        !.look = IF new.look = "" THEN row.look ELSE new.look,
                        !.pid = IF new.pid = 0 THEN row.pid ELSE new.pid]
    BY <1>w DEF Write, Skips
  <1>4. W \in RowSets BY <1>3 DEF RowSets
  <1>5. /\ W.active = row.active /\ W.direct = row.direct /\ W.mode = row.mode
        /\ W.meta = row.meta
    BY <1>3 DEF RowSets
  <1>6. /\ W.target = IF new.target = None THEN row.target ELSE new.target
        /\ W.look = IF new.look = "" THEN row.look ELSE new.look
        /\ W.pid = IF new.pid = 0 THEN row.pid ELSE new.pid
    BY <1>3 DEF RowSets
  <1>7. Kept(old, new, W) BY <1>2, <1>4, <1>5, <1>6 DEF Kept
  <1> QED BY <1>w, <1>7

(* There is one such row.                                                   *)
LEMMA KeptOnce ==
  ASSUME NEW old, NEW new, NEW r, NEW s, Kept(old, new, r), Kept(old, new, s)
  PROVE  r = s
  <1>1. r \in RowSets /\ s \in RowSets BY DEF Kept
  <1>2. r.active = s.active /\ r.direct = s.direct /\ r.mode = s.mode /\ r.meta = s.meta
    BY DEF Kept
  <1>3. r.target = s.target /\ r.look = s.look /\ r.pid = s.pid BY DEF Kept
  <1> QED BY <1>1, <1>2, <1>3, RowsEqual

(* What is skipped was empty in the merge as well, or is not what a connect *)
(* saves.                                                                   *)
LEMMA KeptByAll ==
  ASSUME NEW old \in RowSets
  PROVE  /\ \A in \in Incoming : Kept(old, MergeSync(old, in), MergeSync(old, in))
         /\ \A ids \in SUBSET Ids : Kept(old, PatchActive(old, ids), PatchActive(old, ids))
         /\ \A mode \in Modes : Kept(old, PatchMode(old, mode), PatchMode(old, mode))
         /\ \A t \in Targets \ {None} : Kept(old, Connected(old, t), [old EXCEPT !.target = t])
  <1>1. ASSUME NEW in \in Incoming PROVE Kept(old, MergeSync(old, in), MergeSync(old, in))
    <2>n. PICK new : new = MergeSync(old, in) OBVIOUS
    <2>1. new \in RowSets BY <2>n, MergesTyped
    <2>2. /\ new.target = None => new.target = old.target
          /\ new.look = "" => new.look = old.look
          /\ new.pid = 0 => new.pid = old.pid
      BY <2>n DEF MergeSync, Take
    <2>3. Kept(old, new, new) BY <2>1, <2>2 DEF Kept
    <2> QED BY <2>n, <2>3
  <1>2. ASSUME NEW ids \in SUBSET Ids PROVE Kept(old, PatchActive(old, ids), PatchActive(old, ids))
    <2>n. PICK new : new = PatchActive(old, ids) OBVIOUS
    <2>1. new \in RowSets BY <2>n, MergesTyped
    <2>2. new.target = old.target /\ new.look = old.look /\ new.pid = old.pid
      BY <2>n DEF PatchActive, RowSets
    <2>3. Kept(old, new, new) BY <2>1, <2>2 DEF Kept
    <2> QED BY <2>n, <2>3
  <1>3. ASSUME NEW mode \in Modes PROVE Kept(old, PatchMode(old, mode), PatchMode(old, mode))
    <2>n. PICK new : new = PatchMode(old, mode) OBVIOUS
    <2>1. new \in RowSets BY <2>n, MergesTyped
    <2>2. new.target = old.target /\ new.look = old.look /\ new.pid = old.pid
      BY <2>n DEF PatchMode, RowSets
    <2>3. Kept(old, new, new) BY <2>1, <2>2 DEF Kept
    <2> QED BY <2>n, <2>3
  <1>4. ASSUME NEW t \in Targets \ {None} PROVE Kept(old, Connected(old, t), [old EXCEPT !.target = t])
    <2>n. PICK new : new = Connected(old, t) OBVIOUS
    <2>k. PICK kept : kept = [old EXCEPT !.target = t] OBVIOUS
    <2>1. new \in RowSets /\ kept \in RowSets BY <2>n, <2>k, MergesTyped DEF RowSets
    <2>2. /\ new.target = t /\ new.look = "" /\ new.pid = 0
          /\ new.active = old.active /\ new.direct = old.direct
          /\ new.mode = old.mode /\ new.meta = old.meta
      BY <2>n DEF Connected, RowSets
    <2>3. /\ kept.target = t /\ kept.look = old.look /\ kept.pid = old.pid
          /\ kept.active = old.active /\ kept.direct = old.direct
          /\ kept.mode = old.mode /\ kept.meta = old.meta
      BY <2>k DEF RowSets
    <2>4. Kept(old, new, kept)
      <3>1. kept.active = new.active /\ kept.direct = new.direct
            /\ kept.mode = new.mode /\ kept.meta = new.meta
        BY <2>2, <2>3
      <3>2. kept.target = IF new.target = None THEN old.target ELSE new.target
        BY <2>2, <2>3
      <3>3. /\ kept.look = IF new.look = "" THEN old.look ELSE new.look
            /\ kept.pid = IF new.pid = 0 THEN old.pid ELSE new.pid
        BY <2>2, <2>3
      <3> QED BY <2>1, <3>1, <3>2, <3>3 DEF Kept
    <2> QED BY <2>n, <2>k, <2>4
  <1> QED BY <1>1, <1>2, <1>3, <1>4

(* After the last group the row is as promised.                             *)
LEMMA WriteLast ==
  ASSUME NEW c \in Calls, c.req.op \in {"sync", "active", "mode", "connect"}, c.err = "",
         c.req.op = "connect" => c.target # None, Begun(c).row \in RowSets,
         row \in RowSets, row = Halfway(Base(c), Saved(c), 3)
  PROVE  Write(Saved(c), 3) = RowAfter(c)
  <1>1. Base(c) \in RowSets /\ Saved(c) \in RowSets BY BasesTyped
  <1>2. c.req \in UiRequests \cup {NoReq} /\ c.target \in Targets \cup {None} BY DEF Calls
  <1>3. c.req.op # "sync" => Base(c) = Begun(c).row BY DEF Base
  <1>4. Kept(Base(c), Saved(c), RowAfter(c))
    <2>1. CASE c.req.op = "sync"
      <3>1. c.req.in \in Incoming BY <1>2, <2>1, RequestTyped
      <3>2. Saved(c) = MergeSync(Base(c), c.req.in) /\ RowAfter(c) = Saved(c)
        BY <2>1 DEF Saved, RowAfter, Synced, Base, Begun
      <3> QED BY <1>1, <3>1, <3>2, KeptByAll
    <2>2. CASE c.req.op = "active"
      <3>1. c.req.ids \in SUBSET Ids BY <1>2, <2>2, RequestTyped
      <3>2. Saved(c) = PatchActive(Base(c), c.req.ids) /\ RowAfter(c) = Saved(c)
        BY <1>3, <2>2 DEF Saved, RowAfter, Begun
      <3> QED BY <1>1, <3>1, <3>2, KeptByAll
    <2>3. CASE c.req.op = "mode"
      <3>1. c.req.mode \in Modes BY <1>2, <2>3, RequestTyped
      <3>2. Saved(c) = PatchMode(Base(c), c.req.mode) /\ RowAfter(c) = Saved(c)
        BY <1>3, <2>3 DEF Saved, RowAfter, Begun
      <3> QED BY <1>1, <3>1, <3>2, KeptByAll
    <2>4. CASE c.req.op = "connect"
      <3>1. c.target \in Targets \ {None} BY <1>2, <2>4
      <3>2. /\ Saved(c) = Connected(Base(c), c.target)
            /\ RowAfter(c) = [Base(c) EXCEPT !.target = c.target]
        BY <1>3, <2>4 DEF Saved, RowAfter, Begun
      <3> QED BY <1>1, <3>1, <3>2, KeptByAll
    <2> QED BY <2>1, <2>2, <2>3, <2>4
  <1>5. Kept(Base(c), Saved(c), Write(Saved(c), 3)) BY <1>1, WriteEnd
  <1> QED BY <1>4, <1>5, KeptOnce

(* The groups before it.                                                    *)
LEMMA WriteMore ==
  ASSUME NEW old \in RowSets, NEW new \in RowSets, NEW i \in {1, 2},
         row \in RowSets, row = Halfway(old, new, i)
  PROVE  Write(new, i) = Halfway(old, new, i + 1)
  <1>1. CASE i = 1
    BY <1>1 DEF Write, Halfway, RowSets
  <1>2. CASE i = 2
    <2>h. PICK H : H = Halfway(old, new, 3) OBVIOUS
    <2>w. PICK W : W = Write(new, 2) OBVIOUS
    <2>1. H = [old EXCEPT !.active = new.active, !.direct = new.direct,
                          !.mode = new.mode, !.meta = new.meta]
      BY <2>h DEF Halfway
    <2>2. W = [row EXCEPT !.mode = new.mode, !.meta = new.meta] BY <2>w DEF Write
    <2>3. row = [old EXCEPT !.active = new.active, !.direct = new.direct]
      BY <1>2 DEF Halfway
    <2>4. H \in RowSets /\ W \in RowSets BY <2>1, <2>2 DEF RowSets
    <2>5. /\ H.active = new.active /\ H.direct = new.direct /\ H.mode = new.mode
          /\ H.meta = new.meta /\ H.target = old.target /\ H.look = old.look /\ H.pid = old.pid
      BY <2>1 DEF RowSets
    <2>6. /\ row.active = new.active /\ row.direct = new.direct /\ row.target = old.target
          /\ row.look = old.look /\ row.pid = old.pid
      BY <2>3 DEF RowSets
    <2>7. /\ W.active = new.active /\ W.direct = new.direct /\ W.mode = new.mode
          /\ W.meta = new.meta /\ W.target = old.target /\ W.look = old.look /\ W.pid = old.pid
      BY <2>2, <2>6 DEF RowSets
    <2> QED BY <1>2, <2>h, <2>w, <2>4, <2>5, <2>7, RowsEqual
  <1> QED BY <1>1, <1>2

(* A save goes on to the next group of rows.                                *)
LEMMA SaveMore ==
  ASSUME CallInv, NEW a \in Actors, Save(a), UNCHANGED alive, call[a].i < 3
  PROVE  CallInv'
  <1>c. PICK c : c = call[a] OBVIOUS
  <1>1. /\ c \in Calls /\ Placed(c) /\ c.st \in RowSets /\ c.i \in 1..3
        /\ c.req \in UiRequests \cup {NoReq}
        /\ row \in RowSets /\ settings \in Docs /\ options \in Docs
        /\ options.kind = "ok" /\ core \in CoreStates /\ run \in Runs
        /\ Busy(a) => Knows(c) /\ Begun(c).row \in RowSets
    BY <1>c, CallFacts DEF Groups
  <1>2. c.pc = "save" /\ c.i \in {1, 2} BY <1>1, <1>c DEF Save, At
  <1>r. c.req.op \in {"sync", "active", "mode", "connect"}
    BY <1>1, <1>2, RequestTyped DEF Placed, Reached
  <1>d. PICK d : d = [c EXCEPT !.i = c.i + 1] OBVIOUS
  <1>3. /\ d \in Calls /\ d.i = c.i + 1 /\ Like(c, d) /\ d.pc = c.pc /\ d.st = c.st
        /\ d.doc = c.doc /\ d.target = c.target /\ d.err = c.err
    <2>1. c.i + 1 \in 1..3 BY <1>2
    <2> QED BY <2>1, <1>1, <1>d, SetI
  <1>4. call' = [call EXCEPT ![a] = d] /\ row' = Write(c.st, c.i)
    <2>1. c.i < 3 BY <1>2
    <2>2. row' = Write(c.st, c.i) BY <1>c DEF Save
    <2>3. call' = [call EXCEPT ![a] = d] BY <2>1, <1>c, <1>d DEF Save, Groups
    <2> QED BY <2>2, <2>3
  <1>5. UNCHANGED <<settings, files, options, core, run>> BY DEF Save, process
  <1>6. row' \in RowSets BY <1>1, <1>4, GroupsTyped DEF Groups
  <1>7. Same(c, d) /\ Placed(d) BY <1>1, <1>2, <1>3 DEF Same, Like, Placed, DocOf
  <1>8. ASSUME Busy(a) PROVE Knows(d)'
    <2>1. /\ row = Halfway(Base(c), Saved(c), c.i) /\ settings = Begun(c).settings
          /\ c.st = Saved(c) /\ Connecting(c)
      BY <1>1, <1>2, <1>8 DEF Knows, RowNow, SettingsNow, Early, HasRead
    <2>2. /\ Begun(d) = Begun(c) /\ Base(d) = Base(c) /\ (Connects(d) <=> Connects(c))
          /\ Saved(d) = Saved(c) /\ Asked(d) = Asked(c)
      BY <1>3, LikeBase
    <2>3. row' = Halfway(Base(c), Saved(c), c.i + 1)
      <3>1. Base(c) \in RowSets /\ Saved(c) \in RowSets BY <1>1, <1>8, <1>r, BasesTyped
      <3> QED BY <3>1, <1>1, <1>2, <1>4, <2>1, WriteMore
    <2>4. row' = RowNow(d) /\ settings' = SettingsNow(d)
      BY <1>2, <1>3, <1>5, <2>1, <2>2, <2>3 DEF RowNow, SettingsNow, Early
    <2>5. HasRead(d)' BY <1>2, <1>3, <2>1, <2>2 DEF HasRead
    <2>6. Connecting(d)'
      BY <1>2, <1>3, <1>5, <2>1, <2>2, ResolveKeeps DEF Connecting, Succeeded
    <2>7. Switching(d)' BY <1>2, <1>3 DEF Switching
    <2> QED BY <2>4, <2>5, <2>6, <2>7 DEF Knows
  <1>9. ~At(a, "idle") BY <1>2, <1>c DEF At
  <1> QED BY <1>1, <1>3, <1>4, <1>5, <1>6, <1>7, <1>8, <1>9, <1>c, OneStep

(* A save ends: the rows are those that the call is to leave behind.        *)
LEMMA SaveLast ==
  ASSUME CallInv, NEW a \in Actors, Save(a), UNCHANGED alive, call[a].i = 3
  PROVE  CallInv'
  <1>c. PICK c : c = call[a] OBVIOUS
  <1>1. /\ c \in Calls /\ Placed(c) /\ c.st \in RowSets
        /\ c.req \in UiRequests \cup {NoReq}
        /\ row \in RowSets /\ settings \in Docs /\ options \in Docs
        /\ options.kind = "ok" /\ core \in CoreStates /\ run \in Runs
        /\ Busy(a) => Knows(c) /\ Begun(c).row \in RowSets
    BY <1>c, CallFacts
  <1>2. c.pc = "save" /\ c.i = 3 BY <1>c DEF Save, At
  <1>r. c.req.op \in {"sync", "active", "mode", "connect"}
    BY <1>1, <1>2, RequestTyped DEF Placed, Reached
  <1>p. PICK pc : pc = IF c.req.op = "mode" THEN "getjson" ELSE "done" OBVIOUS
  <1>e. PICK e : e = [c EXCEPT !.pc = pc] OBVIOUS
  <1>d. PICK d : d = [e EXCEPT !.i = 1] OBVIOUS
  <1>3. /\ e \in Calls /\ e.pc = pc /\ Like(c, e) /\ e.st = c.st /\ e.doc = c.doc
        /\ e.target = c.target /\ e.err = c.err
    BY <1>1, <1>e, <1>p, SetPc DEF Steps
  <1>4. /\ d \in Calls /\ d.i = 1 /\ Like(e, d) /\ d.pc = e.pc /\ d.st = e.st
        /\ d.doc = e.doc /\ d.target = e.target /\ d.err = e.err
    BY <1>3, <1>d, SetI
  <1>5. call' = [call EXCEPT ![a] = d] /\ row' = Write(c.st, 3)
    <2>1. d = [c EXCEPT !.pc = IF c.req.op = "mode" THEN "getjson" ELSE "done", !.i = 1]
      BY <1>d, <1>e, <1>p
    <2> QED BY <2>1, <1>2, <1>c DEF Save, Groups
  <1>6. /\ Like(c, d) /\ d.pc = pc /\ d.doc = c.doc /\ d.target = c.target /\ d.err = c.err
    BY <1>3, <1>4 DEF Like
  <1>q. /\ c.req.op = "mode" => d.pc = "getjson" /\ ~Connects(c)
        /\ c.req.op # "mode" => d.pc = "done"
    BY <1>6, <1>p DEF Connects
  <1>7. UNCHANGED <<settings, files, options, core, run>> BY DEF Save, process
  <1>8. row' \in RowSets BY <1>1, <1>5, GroupsTyped DEF Groups
  <1>9. Same(c, d) /\ Placed(d)
    BY <1>1, <1>2, <1>6, <1>p, <1>r DEF Same, Like, Placed, DocOf, Reached
  <1>10. ASSUME Busy(a) PROVE Knows(d)'
    <2>1. /\ row = Halfway(Base(c), Saved(c), 3) /\ settings = Begun(c).settings
          /\ c.st = Saved(c) /\ Connecting(c)
      BY <1>1, <1>2, <1>10 DEF Knows, RowNow, SettingsNow, Early, HasRead
    <2>2. /\ Begun(d) = Begun(c) /\ (Connects(d) <=> Connects(c))
          /\ RowAfter(d) = RowAfter(c) /\ DocAfter(d) = DocAfter(c) /\ Asked(d) = Asked(c)
      BY <1>6, LikeBase
    <2>3. row' = RowAfter(c)
      <3>1. c.err = "" /\ (c.req.op = "connect" => c.target # None)
        BY <1>1, <1>2 DEF Placed
      <3> QED BY <3>1, <1>1, <1>5, <1>10, <1>r, <2>1, WriteLast
    <2>4. row' = RowNow(d)
      BY <1>q, <2>2, <2>3 DEF RowNow
    <2>5. settings' = SettingsNow(d)
      <3>1. c.req.op # "mode" => DocAfter(c) = Begun(c).settings
        BY <1>r DEF DocAfter, Begun
      <3>2. CASE c.req.op = "mode"
        BY <1>7, <1>q, <2>1, <2>2, <3>2 DEF SettingsNow, Early
      <3>3. CASE c.req.op # "mode"
        BY <1>7, <1>q, <2>1, <2>2, <3>1, <3>3 DEF SettingsNow, Early
      <3> QED BY <3>2, <3>3
    <2>6. HasRead(d)' BY <1>q, <2>2 DEF HasRead
    <2>7. Connecting(d)'
      <3>1. CASE ~Connects(c) BY <3>1, <2>2 DEF Connecting
      <3>2. CASE Connects(c)
        <4>1. d.pc = "done" BY <1>6, <1>p, <3>2 DEF Connects
        <4> QED BY <4>1, <1>2, <1>6, <1>7, <2>1, <2>2, ResolveKeeps DEF Connecting, Succeeded
      <3> QED BY <3>1, <3>2
    <2>8. Switching(d)' BY <1>6, <1>p DEF Switching, Like
    <2> QED BY <2>4, <2>5, <2>6, <2>7, <2>8 DEF Knows
  <1>11. ~At(a, "idle") BY <1>2, <1>c DEF At
  <1> QED BY <1>1, <1>4, <1>5, <1>7, <1>8, <1>9, <1>10, <1>11, <1>c, OneStep

(* A save, one group of rows or the last.                                   *)
LEMMA SaveStep ==
  ASSUME CallInv, NEW a \in Actors, Save(a), UNCHANGED alive
  PROVE  CallInv'
  <1>1. call[a].i \in 1..3 BY CallFacts DEF Groups
  <1>2. call[a].i < 3 \/ call[a].i = 3 BY <1>1
  <1> QED BY <1>2, SaveMore, SaveLast

(* A call whose write or start fails is not judged any more.                *)
LEMMA BreaksStep ==
  ASSUME CallInv, NEW a \in Actors, ~At(a, "idle"), NEW why \in Errors,
         call' = [call EXCEPT ![a].pc = "done", ![a].err = why, ![a].alone = FALSE,
                    ![a].before = <<>>],
         UNCHANGED <<session, options, alive>>, core' \in CoreStates, run' \in Runs,
         "done" \in Reached(call[a].req)
  PROVE  CallInv'
  <1>c. PICK c : c = call[a] OBVIOUS
  <1>1. /\ c \in Calls /\ Placed(c) /\ row \in RowSets /\ settings \in Docs
        /\ options \in Docs /\ options.kind = "ok"
    BY <1>c, CallFacts
  <1>2. PICK e : e = [c EXCEPT !.pc = "done"] OBVIOUS
  <1>3. PICK f : f = [e EXCEPT !.err = why] OBVIOUS
  <1>4. PICK d : d = [f EXCEPT !.alone = FALSE, !.before = <<>>] OBVIOUS
  <1>5. e \in Calls /\ e.pc = "done" /\ e.req = c.req
    BY <1>1, <1>2, SetPc DEF Steps, Like
  <1>6. f \in Calls /\ f.pc = "done" /\ f.req = c.req
    BY <1>3, <1>5, SetErr DEF Like
  <1>7. d \in Calls /\ d.pc = "done" /\ d.req = c.req /\ ~d.alone
    BY <1>4, <1>6, SetAlone
  <1>8. call' = [call EXCEPT ![a] = d] BY <1>c, <1>2, <1>3, <1>4
  <1>9. Same(c, d) /\ Placed(d) BY <1>7, <1>c DEF Same, Placed
  <1>10. UNCHANGED <<row, settings, files, options>> BY DEF session
  <1> QED BY <1>1, <1>7, <1>8, <1>9, <1>10, <1>c, OneStep

(* A row is not written, or the core does not come up.                      *)
LEMMA FailsStep ==
  ASSUME CallInv, NEW a \in Actors, SaveFails(a) \/ CoreFails(a), UNCHANGED alive
  PROVE  CallInv'
  <1>1. /\ Placed(call[a]) /\ call[a].req \in UiRequests \cup {NoReq}
        /\ core \in CoreStates /\ run \in Runs
    BY CallFacts
  <1>2. CASE SaveFails(a)
    <2>1. call[a].pc = "save" BY <1>2 DEF SaveFails, At
    <2>2. "done" \in Reached(call[a].req)
      BY <1>1, <2>1, RequestTyped DEF Placed, Reached
    <2>w. PICK why : why = IF call[a].req.op = "connect" THEN "" ELSE "save" OBVIOUS
    <2>3. call' = [call EXCEPT ![a].pc = "done", ![a].err = why, ![a].alone = FALSE,
                     ![a].before = <<>>]
      BY <1>2, <2>w DEF SaveFails
    <2>5. why \in Errors BY <2>w DEF Errors
    <2>4. UNCHANGED <<session, options, core, run>> BY <1>2 DEF SaveFails, process
    <2> QED BY <1>1, <2>1, <2>2, <2>3, <2>4, <2>5, BreaksStep DEF At
  <1>3. CASE CoreFails(a)
    <2>1. call[a].pc = "up" BY <1>3 DEF CoreFails, At
    <2>2. "done" \in Reached(call[a].req)
      BY <1>1, <2>1, RequestTyped DEF Placed, Reached
    <2>3. call' = [call EXCEPT ![a].pc = "done", ![a].err = "start", ![a].alone = FALSE,
                     ![a].before = <<>>]
      BY <1>3 DEF CoreFails
    <2>4. UNCHANGED <<session, options>> /\ core' \in CoreStates /\ run' \in Runs
      BY <1>3, ValuesTyped DEF CoreFails, CoreStates
    <2> QED BY <2>1, <2>2, <2>3, <2>4, BreaksStep DEF At, Errors
  <1> QED BY <1>2, <1>3

(***************************************************************************)
(* The pid of the UI                                                        *)
(***************************************************************************)
(* Where a step of the two may lead, and what the row is then.              *)
LEMMA PidMoves ==
  ASSUME CallInv, NEW a \in Actors, NEW c, c = call[a], c.pc \in {"clear", "delete"},
         NEW pc, pc = "delete" \/ pc = AfterClear(a), Goto(a, pc),
         UNCHANGED <<settings, files, process, alive>>, row' \in RowSets,
         Busy(a) => /\ pc = "delete" => row' = Begun(c).row /\ row'.pid = Expected(c.req)
                    /\ pc # "delete" => row' = Cleared(Begun(c).row, Expected(c.req))
  PROVE  CallInv'
  <1>1. /\ Placed(c) /\ c.req \in UiRequests \cup {NoReq}
        /\ settings \in Docs /\ options \in Docs /\ options.kind = "ok"
        /\ core \in CoreStates /\ run \in Runs
        /\ Busy(a) => Knows(c)
    BY CallFacts
  <1>2. /\ c.req.op \in {"sync", "clearpid"} /\ c.err = ""
        /\ c.req.op = "sync" => c.req.clear
    BY <1>1, RequestTyped DEF Placed, Reached
  <1>3. /\ c.req.op = "sync" => pc \in {"delete", "load"}
        /\ c.req.op = "clearpid" => pc \in {"delete", "done"}
    BY <1>2 DEF AfterClear
  <1>4. pc \in Steps BY <1>2, <1>3 DEF Steps
  <1>5. PICK d \in Calls :
           /\ call' = [call EXCEPT ![a] = d]
           /\ d.pc = pc /\ d.i = 1 /\ Like(c, d) /\ d.st = c.st /\ d.doc = c.doc
           /\ d.target = c.target /\ d.err = c.err
    BY <1>4, GotoMoves
  <1>6. UNCHANGED <<options, core, run>> BY DEF process
  <1>7. Same(c, d) /\ Placed(d)
    BY <1>1, <1>2, <1>3, <1>5 DEF Same, Like, Placed, DocOf, Reached
  <1>8. ASSUME Busy(a) PROVE Knows(d)'
    <2>1. /\ Begun(d) = Begun(c) /\ Base(d) = Base(c) /\ (Connects(d) <=> Connects(c))
          /\ RowAfter(d) = RowAfter(c) /\ DocAfter(d) = DocAfter(c)
      BY <1>5, LikeBase
    <2>2. DocAfter(c) = Begun(c).settings BY <1>2 DEF DocAfter, Begun
    <2>3. settings' = SettingsNow(d)
      BY <1>1, <1>2, <1>3, <1>5, <1>8, <2>1, <2>2 DEF Knows, SettingsNow, Early
    <2>4. ~Connects(c) BY <1>2 DEF Connects
    <2>5. CASE pc = "delete"
      <3>1. row' = RowNow(d) BY <1>5, <1>8, <2>1, <2>5 DEF RowNow
      <3>2. HasRead(d)' BY <1>5, <1>8, <2>1, <2>4, <2>5 DEF HasRead, Like
      <3>3. Connecting(d)' /\ Switching(d)'
        BY <1>2, <1>5, <2>1, <2>4 DEF Connecting, Switching, Like
      <3> QED BY <2>3, <3>1, <3>2, <3>3 DEF Knows
    <2>6. CASE pc # "delete"
      <3>1. c.req.op = "sync" => pc = "load" /\ Base(c) = Cleared(Begun(c).row, Expected(c.req))
        BY <1>2, <1>3, <2>6 DEF Base, Expected
      <3>2. c.req.op = "clearpid" =>
              pc = "done" /\ RowAfter(c) = Cleared(Begun(c).row, Expected(c.req))
        BY <1>3, <2>6 DEF RowAfter, Expected, Begun
      <3>3. row' = RowNow(d)
        BY <1>2, <1>5, <1>8, <2>1, <2>4, <2>6, <3>1, <3>2 DEF RowNow
      <3>4. d.pc \in {"load", "done"} /\ d.i = 1 /\ ~Connects(d)
        BY <1>2, <1>5, <2>1, <2>4, <3>1, <3>2
      <3>6. HasRead(d)' BY <3>4 DEF HasRead
      <3>5. Connecting(d)' /\ Switching(d)'
        BY <1>2, <1>5, <2>1, <2>4 DEF Connecting, Switching, Like
      <3> QED BY <2>3, <3>3, <3>5, <3>6 DEF Knows
    <2> QED BY <2>5, <2>6
  <1>9. files' = files /\ settings' \in Docs /\ alive' = alive BY <1>1
  <1>10. ~At(a, "idle") BY DEF At
  <1> QED BY <1>1, <1>5, <1>6, <1>7, <1>8, <1>9, <1>10, OneStep

(* ClearUiPid and the comparison of ClearUiPidIf.                           *)
LEMMA ClearPidStep ==
  ASSUME CallInv, NEW a \in Actors, ClearPid(a), UNCHANGED alive
  PROVE  CallInv'
  <1>c. PICK c : c = call[a] OBVIOUS
  <1>x. PICK pid : pid = Expected(c.req) OBVIOUS
  <1>1. /\ c.pc = "clear" /\ UNCHANGED <<settings, files, process>>
        /\ pid > 0 => /\ Goto(a, IF row.pid = pid THEN "delete" ELSE AfterClear(a))
                      /\ row' = row
        /\ ~(pid > 0) => Goto(a, AfterClear(a)) /\ row' = [row EXCEPT !.pid = 0]
    BY <1>c, <1>x DEF ClearPid, At
  <1>2. /\ row \in RowSets /\ Placed(c) /\ c.req \in UiRequests \cup {NoReq}
        /\ Busy(a) => row = Begun(c).row
    BY <1>1, <1>c, CallFacts DEF Knows, RowNow
  <1>3. pid \in Nat
    <2>1. c.req.op \in {"sync", "clearpid"} BY <1>1, <1>2, RequestTyped DEF Placed, Reached
    <2>2. pid \in Pids \cup {0} BY <2>1, <1>2, <1>x, RequestTyped DEF Expected, Incoming
    <2>3. Pids \subseteq Nat BY SessionAssumption
    <2> QED BY <2>2, <2>3
  <1>4. AfterClear(a) # "delete" BY DEF AfterClear
  <1>5. CASE pid > 0 /\ row.pid = pid
    <2>1. Goto(a, "delete") /\ row' = row BY <1>1, <1>5
    <2> QED BY <1>1, <1>2, <1>5, <2>1, <1>c, <1>x, PidMoves
  <1>6. CASE pid > 0 /\ row.pid # pid
    <2>1. Goto(a, AfterClear(a)) /\ row' = row BY <1>1, <1>6
    <2>2. Cleared(row, pid) = row BY <1>6 DEF Cleared
    <2> QED BY <1>1, <1>2, <1>4, <2>1, <2>2, <1>c, <1>x, PidMoves
  <1>7. CASE ~(pid > 0)
    <2>1. Goto(a, AfterClear(a)) /\ row' = [row EXCEPT !.pid = 0] BY <1>1, <1>7
    <2>2. Cleared(row, pid) = [row EXCEPT !.pid = 0] BY <1>3, <1>7 DEF Cleared
    <2>3. row' \in RowSets BY <1>2, <2>1 DEF RowSets
    <2> QED BY <1>1, <1>2, <1>4, <2>1, <2>2, <2>3, <1>c, <1>x, PidMoves
  <1> QED BY <1>5, <1>6, <1>7

(* The delete that follows it.                                              *)
LEMMA DeletePidStep ==
  ASSUME CallInv, NEW a \in Actors, DeletePid(a), UNCHANGED alive
  PROVE  CallInv'
  <1>c. PICK c : c = call[a] OBVIOUS
  <1>1. /\ c.pc = "delete" /\ UNCHANGED <<settings, files, process>>
        /\ Goto(a, AfterClear(a)) /\ row' = [row EXCEPT !.pid = 0]
    BY <1>c DEF DeletePid, At
  <1>2. /\ row \in RowSets
        /\ Busy(a) => row = Begun(c).row /\ row.pid = Expected(c.req)
    BY <1>1, <1>c, CallFacts DEF Knows, RowNow, HasRead
  <1>3. AfterClear(a) # "delete" BY DEF AfterClear
  <1>4. Busy(a) => row' = Cleared(Begun(c).row, Expected(c.req))
    BY <1>1, <1>2 DEF Cleared
  <1>5. row' \in RowSets BY <1>1, <1>2 DEF RowSets
  <1> QED BY <1>1, <1>3, <1>4, <1>5, <1>c, PidMoves

(***************************************************************************)
(* The client settings                                                      *)
(***************************************************************************)
(* The row that a call beside the loads and the saves finds.                *)
RowRests(c) == row = IF Connects(c) THEN Begun(c).row ELSE RowAfter(c)

(* What is known of a call that changes the settings or the options.        *)
DocKnown(a, c) ==
  /\ c \in Calls /\ Placed(c) /\ c.err = "" /\ ~At(a, "idle")
  /\ c.req.op \in {"mode", "settings", "connect", "reconnect"}
  /\ c.req.op = "mode" => c.req.mode \in Modes
  /\ DocOf(c) \in Docs /\ NewDoc(a) = DocOf(c)
  /\ row \in RowSets /\ settings \in Docs /\ options \in Docs
  /\ options.kind = "ok" /\ core \in CoreStates /\ run \in Runs
  /\ Busy(a) => Knows(c) /\ Begun(c).settings \in Docs /\ RowRests(c)
LEMMA DocFacts ==
  ASSUME CallInv, NEW a \in Actors, NEW c, c = call[a],
         c.pc \in {"getjson", "store", "defaults", "unmarshal", "apply"}
  PROVE  DocKnown(a, c)
  <1>1. /\ c \in Calls /\ Placed(c) /\ c.req \in UiRequests \cup {NoReq} /\ c.doc \in Docs
        /\ row \in RowSets /\ settings \in Docs /\ options \in Docs
        /\ options.kind = "ok" /\ core \in CoreStates /\ run \in Runs
        /\ Busy(a) => Knows(c) /\ Begun(c).settings \in Docs
    BY CallFacts
  <1>2. c.req.op \in {"mode", "settings", "connect", "reconnect"} /\ c.err = ""
    BY <1>1, RequestTyped DEF Placed, Reached
  <1>3. /\ c.req.op = "mode" => c.req.mode \in Modes
        /\ c.req.op = "settings" => c.req.doc \in Docs
    BY <1>1, RequestTyped
  <1>4. DocOf(c) \in Docs BY <1>1, <1>3 DEF DocOf
  <1>5. NewDoc(a) = DocOf(c) BY DEF NewDoc, DocOf
  <1>6. Busy(a) => RowRests(c)
    BY <1>1 DEF Knows, RowNow, RowRests
  <1> QED BY <1>1, <1>2, <1>3, <1>4, <1>5, <1>6 DEF At, DocKnown

(* The rows of a call that changes no row are what they were.               *)
LEMMA RowStays ==
  ASSUME NEW c, NEW d, Like(c, d),
         c.req.op \in {"mode", "settings", "connect", "reconnect", "disconnect"},
         c.err = "", d.pc \notin {"load", "save", "clear", "delete"},
         RowRests(c),
         (d.pc = "done" /\ c.req.op = "connect") => d.err # ""
  PROVE  row = RowNow(d)
  <1>1. Begun(d) = Begun(c) /\ (Connects(d) <=> Connects(c)) /\ d.req = c.req
    BY LikeBase DEF Like
  <1>2. CASE Connects(c) /\ d.pc # "done" BY <1>1, <1>2 DEF RowNow, RowRests
  <1>3. CASE Connects(c) /\ d.pc = "done"
    <2>1. RowAfter(d) = Begun(d).row BY <1>1, <1>3 DEF RowAfter, Connects, Begun
    <2> QED BY <1>1, <1>3, <2>1 DEF RowNow, RowRests
  <1>4. CASE ~Connects(c)
    <2>1. RowAfter(d) = RowAfter(c)
      BY <1>1, <1>4 DEF RowAfter, Connects, Begun
    <2> QED BY <1>1, <1>4, <2>1 DEF RowNow, RowRests
  <1> QED BY <1>2, <1>3, <1>4

(* The stored document is read before the flags are put in it.              *)
LEMMA GetJsonStep ==
  ASSUME CallInv, NEW a \in Actors, GetJson(a), UNCHANGED alive
  PROVE  CallInv'
  <1>c. PICK c : c = call[a] OBVIOUS
  <1>1. c.pc = "getjson" /\ UNCHANGED <<session, process>> BY <1>c DEF GetJson, At
  <1>k. DocKnown(a, c) BY <1>1, <1>c, DocFacts
  <1>t. c \in Calls BY <1>k DEF DocKnown
  <1>2. /\ Placed(c) /\ c.err = "" /\ ~At(a, "idle")
        /\ c.req.op \in {"mode", "settings", "connect", "reconnect"}
        /\ c.req.op = "mode" => c.req.mode \in Modes
        /\ row \in RowSets /\ settings \in Docs /\ options \in Docs
        /\ options.kind = "ok" /\ core \in CoreStates /\ run \in Runs
        /\ Busy(a) => Knows(c) /\ Begun(c).settings \in Docs /\ RowRests(c)
    BY <1>k DEF DocKnown
  <1>3. c.req.op = "mode" /\ ~Connects(c)
    BY <1>1, <1>2 DEF Placed, Reached, Connects
  <1>4. UNCHANGED <<row, settings, files, options, core, run>> BY <1>1 DEF session, process
  <1>5. Busy(a) => settings = Begun(c).settings
    BY <1>1, <1>2 DEF Knows, SettingsNow, Early
  <1>6. PICK d \in Calls :
          /\ call' = [call EXCEPT ![a] = d] /\ Like(c, d)
          /\ settings.kind = "none" => d.pc = "done" /\ d.err = ""
          /\ settings.kind = "bad" => d.pc = "done" /\ d.err # ""
          /\ settings.kind = "ok" => /\ d.pc = "store" /\ d.err = ""
                                     /\ d.doc = Doc(c.req.mode, settings.rest)
    <2>1. CASE settings.kind = "none"
      <3>1. Goto(a, "done") BY <2>1 DEF GetJson
      <3>2. \E d \in Calls : call' = [call EXCEPT ![a] = d] /\ d.pc = "done" /\ Like(c, d) /\ d.err = c.err
        BY <3>1, <1>c, GotoMoves DEF Steps
      <3> QED BY <1>2, <2>1, <3>2
    <2>2. CASE settings.kind = "bad"
      <3>1. Fail(a, "settings") BY <2>2 DEF GetJson
      <3>0. "settings" \in Errors BY DEF Errors
      <3>2. \E d \in Calls : call' = [call EXCEPT ![a] = d] /\ d.pc = "done" /\ Like(c, d) /\ d.err = "settings"
        BY <3>0, <3>1, <1>c, FailMoves
      <3> QED BY <2>2, <3>2
    <2>3. CASE settings.kind = "ok"
      <3>w. PICK doc : doc = Doc(c.req.mode, settings.rest) OBVIOUS
      <3>e. PICK e : e = [c EXCEPT !.pc = "store"] OBVIOUS
      <3>f. PICK f : f = [e EXCEPT !.i = 1] OBVIOUS
      <3>d. PICK d : d = [f EXCEPT !.doc = doc] OBVIOUS
      <3>1. doc \in Docs BY <3>w, <1>2, <1>3 DEF Doc, Docs
      <3>2. e \in Calls /\ e.pc = "store" /\ Like(c, e) /\ e.err = c.err
        BY <3>e, <1>t, SetPc DEF Steps
      <3>3. f \in Calls /\ f.pc = "store" /\ Like(e, f) /\ f.err = c.err
        BY <3>f, <3>2, SetI
      <3>4. d \in Calls /\ d.pc = "store" /\ Like(f, d) /\ d.err = c.err /\ d.doc = doc
        BY <3>d, <3>1, <3>3, SetDoc
      <3>5. Like(c, d) BY <3>2, <3>3, <3>4 DEF Like
      <3>6. call' = [call EXCEPT ![a] = d]
        <4>1. call' = [call EXCEPT ![a].pc = "store", ![a].i = 1, ![a].doc = doc]
          BY <2>3, <1>c, <3>w DEF GetJson
        <4> QED BY <4>1, <1>c, <3>e, <3>f, <3>d
      <3> QED BY <1>2, <2>3, <3>w, <3>4, <3>5, <3>6
    <2> QED BY <1>2, <2>1, <2>2, <2>3 DEF Docs
  <1>7. settings.kind \in {"none", "bad", "ok"} BY <1>2 DEF Docs
  <1>8. Same(c, d) /\ Placed(d)
    <2>1. d.req.op = "mode" /\ d.pc \in {"done", "store"}
      BY <1>3, <1>6, <1>7 DEF Like
    <2>2. d.pc = "store" => DocOf(d).kind = "ok" /\ d.err = ""
      <3>1. d.pc = "store" => d.doc = Doc(c.req.mode, settings.rest) /\ d.err = ""
        BY <1>6, <1>7
      <3>2. Doc(c.req.mode, settings.rest).kind = "ok" BY DEF Doc
      <3>3. DocOf(d) = d.doc BY <2>1 DEF DocOf
      <3> QED BY <3>1, <3>2, <3>3
    <2> QED BY <1>6, <2>1, <2>2 DEF Same, Like, Placed, Reached
  <1>9. ASSUME Busy(a) PROVE Knows(d)'
    <2>1. /\ Begun(d) = Begun(c) /\ (Connects(d) <=> Connects(c)) /\ d.req = c.req
          /\ DocAfter(d) = DocAfter(c)
      BY <1>6, LikeBase DEF Like
    <2>2. row = RowNow(d) BY <1>2, <1>3, <1>6, <1>7, <1>9, RowStays
    <2>3. settings = SettingsNow(d)
      <3>1. settings.kind # "ok" => DocAfter(c) = settings
        BY <1>3, <1>5, <1>9 DEF DocAfter, Begun
      <3> QED BY <1>5, <1>6, <1>7, <1>9, <2>1, <3>1 DEF SettingsNow, Early
    <2>4. HasRead(d)' BY <1>3, <1>6, <1>7, <2>1 DEF HasRead
    <2>5. Connecting(d)' BY <1>3, <2>1 DEF Connecting
    <2>6. Switching(d)' BY <1>4, <1>5, <1>6, <1>7, <1>9, <2>1 DEF Switching
    <2> QED BY <1>4, <2>2, <2>3, <2>4, <2>5, <2>6 DEF Knows
  <1> QED BY <1>2, <1>4, <1>6, <1>8, <1>9, <1>c, OneStep

(* The document is stored, with its flags or as a client sent it.           *)
LEMMA StoreJsonStep ==
  ASSUME CallInv, NEW a \in Actors, StoreJson(a), UNCHANGED alive
  PROVE  CallInv'
  <1>c. PICK c : c = call[a] OBVIOUS
  <1>1. /\ c.pc = "store" /\ settings' = NewDoc(a) /\ UNCHANGED <<row, files, process>>
        /\ Goto(a, IF c.req.op = "mode" THEN "defaults" ELSE "unmarshal")
    BY <1>c DEF StoreJson, At
  <1>k. DocKnown(a, c) BY <1>1, <1>c, DocFacts
  <1>2. /\ Placed(c) /\ c.err = "" /\ ~At(a, "idle")
        /\ DocOf(c) \in Docs /\ NewDoc(a) = DocOf(c)
        /\ row \in RowSets /\ options \in Docs
        /\ options.kind = "ok" /\ core \in CoreStates /\ run \in Runs
        /\ Busy(a) => Knows(c) /\ Begun(c).settings \in Docs /\ RowRests(c)
    BY <1>k DEF DocKnown
  <1>3. c.req.op \in {"mode", "settings"} /\ ~Connects(c)
    BY <1>1, <1>k DEF DocKnown, Placed, Reached, Connects
  <1>4. UNCHANGED <<options, core, run>> BY <1>1 DEF process
  <1>p. PICK pc : pc = IF c.req.op = "mode" THEN "defaults" ELSE "unmarshal" OBVIOUS
  <1>5. PICK d \in Calls :
          /\ call' = [call EXCEPT ![a] = d] /\ Like(c, d) /\ d.pc = pc
          /\ d.err = c.err /\ d.doc = c.doc /\ d.target = c.target
    <2>1. Goto(a, pc) /\ pc \in Steps BY <1>1, <1>p DEF Steps
    <2> QED BY <2>1, <1>c, GotoMoves
  <1>6. /\ c.req.op = "mode" => d.pc = "defaults"
        /\ c.req.op = "settings" => d.pc = "unmarshal"
    BY <1>5, <1>p
  <1>7. d.req = c.req /\ DocOf(d) = DocOf(c) BY <1>5 DEF Like, DocOf
  <1>8. DocOf(c).kind # "none" BY <1>1, <1>2 DEF Placed
  <1>9. Same(c, d) /\ Placed(d)
    BY <1>2, <1>3, <1>5, <1>6, <1>7, <1>8 DEF Same, Like, Placed, Reached
  <1>10. ASSUME Busy(a) PROVE Knows(d)'
    <2>1. /\ Begun(d) = Begun(c) /\ (Connects(d) <=> Connects(c)) /\ DocAfter(d) = DocAfter(c)
      BY <1>5, LikeBase
    <2>2. row = RowNow(d)
      BY <1>2, <1>3, <1>5, <1>6, <1>10, RowStays
    <2>3. settings' = DocAfter(c)
      <3>1. CASE c.req.op = "mode"
        BY <1>1, <1>2, <1>10, <3>1 DEF Knows, Switching, DocAfter, DocOf, Begun
      <3>2. CASE c.req.op = "settings"
        BY <1>1, <1>2, <1>8, <3>2 DEF DocAfter, DocOf
      <3> QED BY <1>3, <3>1, <3>2
    <2>4. settings' = SettingsNow(d)
      BY <1>3, <1>6, <1>7, <2>1, <2>3 DEF SettingsNow, Early
    <2>5. HasRead(d)' BY <1>3, <1>6, <2>1 DEF HasRead
    <2>6. Connecting(d)' BY <1>3, <2>1 DEF Connecting
    <2>7. Switching(d)'
      BY <1>1, <1>2, <1>5, <1>6, <1>7, <1>10, <2>1 DEF Knows, Switching
    <2> QED BY <1>1, <2>2, <2>4, <2>5, <2>6, <2>7 DEF Knows
  <1>11. settings' \in Docs /\ UNCHANGED <<row, files>> BY <1>1, <1>2
  <1> QED BY <1>2, <1>4, <1>5, <1>9, <1>10, <1>11, <1>c, OneStep

(* The defaults take the place of the options.                              *)
LEMMA DefaultsStep ==
  ASSUME CallInv, NEW a \in Actors, Defaults(a), UNCHANGED alive
  PROVE  CallInv'
  <1>c. PICK c : c = call[a] OBVIOUS
  <1>1. /\ c.pc = "defaults" /\ options' = DefaultClientOptions
        /\ UNCHANGED <<session, core, run>>
        /\ Goto(a, IF NewDoc(a).kind = "none" THEN "done"
                   ELSE IF c.req.op = "settings" THEN "store" ELSE "unmarshal")
    BY <1>c DEF Defaults, At
  <1>k. DocKnown(a, c) BY <1>1, <1>c, DocFacts
  <1>2. /\ Placed(c) /\ c.err = "" /\ ~At(a, "idle")
        /\ c.req.op \in {"mode", "settings", "connect", "reconnect"}
        /\ NewDoc(a) = DocOf(c)
        /\ row \in RowSets /\ settings \in Docs /\ core \in CoreStates /\ run \in Runs
        /\ Busy(a) => Knows(c) /\ Begun(c).settings \in Docs /\ RowRests(c)
    BY <1>k DEF DocKnown
  <1>3. UNCHANGED <<row, settings, files>> BY <1>1 DEF session
  <1>p. PICK pc : pc = IF DocOf(c).kind = "none" THEN "done"
                       ELSE IF c.req.op = "settings" THEN "store" ELSE "unmarshal"
    OBVIOUS
  <1>4. PICK d \in Calls :
          /\ call' = [call EXCEPT ![a] = d] /\ Like(c, d) /\ d.pc = pc
          /\ d.err = c.err /\ d.doc = c.doc /\ d.target = c.target /\ d.st = c.st
    <2>1. Goto(a, pc) /\ pc \in Steps BY <1>1, <1>2, <1>p DEF Steps
    <2> QED BY <2>1, <1>c, GotoMoves
  <1>5. c.req.op # "settings" => DocOf(c).kind # "none" BY <1>1, <1>2 DEF Placed
  <1>6. /\ DocOf(c).kind = "none" => c.req.op = "settings" /\ d.pc = "done"
        /\ (DocOf(c).kind # "none" /\ c.req.op = "settings") => d.pc = "store"
        /\ c.req.op # "settings" => d.pc = "unmarshal"
    BY <1>4, <1>5, <1>p
  <1>7. d.req = c.req /\ DocOf(d) = DocOf(c) BY <1>4 DEF Like, DocOf
  <1>8. Same(c, d) /\ Placed(d)
    BY <1>2, <1>4, <1>5, <1>6, <1>7 DEF Same, Like, Placed, Reached
  <1>9. ASSUME Busy(a) PROVE Knows(d)'
    <2>1. /\ Begun(d) = Begun(c) /\ (Connects(d) <=> Connects(c)) /\ DocAfter(d) = DocAfter(c)
      BY <1>4, LikeBase
    <2>2. d.pc \in {"done", "store", "unmarshal"} /\ (Connects(c) => d.pc = "unmarshal")
      BY <1>6 DEF Connects
    <2>3. row = RowNow(d) BY <1>2, <1>4, <1>9, <2>2, RowStays DEF Connects
    <2>4. settings = SettingsNow(d)
      <3>1. CASE c.req.op = "settings"
        <4>1. settings = Begun(c).settings
          BY <1>1, <1>2, <1>9, <3>1 DEF Knows, SettingsNow, Early
        <4>2. DocOf(c).kind = "none" => DocAfter(c) = Begun(c).settings
          BY <3>1 DEF DocAfter, DocOf, Begun
        <4> QED BY <1>6, <2>1, <3>1, <4>1, <4>2 DEF SettingsNow, Early
      <3>2. CASE c.req.op # "settings"
        <4>1. settings = DocAfter(c)
          BY <1>1, <1>2, <1>9, <3>2 DEF Knows, SettingsNow, Early
        <4> QED BY <1>6, <1>7, <2>1, <3>2, <4>1 DEF SettingsNow, Early
      <3> QED BY <3>1, <3>2
    <2>5. HasRead(d)'
      <3>1. Connects(c) => c.st = Begun(c).row
        BY <1>1, <1>2, <1>9 DEF Knows, HasRead
      <3>2. d.st = c.st BY <1>4
      <3> QED BY <2>1, <2>2, <3>1, <3>2 DEF HasRead
    <2>6. Connecting(d)'
      <3>1. Connects(c) => c.doc = Begun(c).settings
        BY <1>1, <1>2, <1>9 DEF Knows, Connecting
      <3> QED BY <1>4, <2>1, <2>2, <3>1 DEF Connecting, Succeeded
    <2>7. Switching(d)'
      <3>1. c.req.op = "mode" =>
              Begun(c).settings.kind = "ok" /\ c.doc = Doc(c.req.mode, Begun(c).settings.rest)
        BY <1>1, <1>2, <1>9 DEF Knows, Switching
      <3> QED BY <1>4, <1>6, <1>7, <2>1, <3>1 DEF Switching
    <2> QED BY <1>3, <2>3, <2>4, <2>5, <2>6, <2>7 DEF Knows
  <1>10. options' \in Docs /\ options'.kind = "ok" BY <1>1, ValuesTyped
  <1> QED BY <1>1, <1>2, <1>3, <1>4, <1>8, <1>9, <1>10, <1>c, OneStep

(* The document is read over the defaults.                                  *)
LEMMA UnmarshalStep ==
  ASSUME CallInv, NEW a \in Actors, Unmarshal(a), UNCHANGED alive
  PROVE  CallInv'
  <1>c. PICK c : c = call[a] OBVIOUS
  <1>1. /\ c.pc = "unmarshal" /\ UNCHANGED <<session, core, run>>
        /\ NewDoc(a).kind = "bad" => Fail(a, "settings") /\ options' = options
        /\ NewDoc(a).kind # "bad" =>
             /\ options' = NewDoc(a)
             /\ Goto(a, IF Connects(c) THEN "resolve" ELSE "done")
    BY <1>c DEF Unmarshal, At, Connects
  <1>k. DocKnown(a, c) BY <1>1, <1>c, DocFacts
  <1>2. /\ Placed(c) /\ c.err = "" /\ ~At(a, "idle")
        /\ c.req.op \in {"mode", "settings", "connect", "reconnect"}
        /\ DocOf(c) \in Docs /\ NewDoc(a) = DocOf(c)
        /\ row \in RowSets /\ settings \in Docs /\ options \in Docs /\ options.kind = "ok"
        /\ core \in CoreStates /\ run \in Runs
        /\ Busy(a) => Knows(c) /\ Begun(c).settings \in Docs /\ RowRests(c)
    BY <1>k DEF DocKnown
  <1>3. UNCHANGED <<row, settings, files, core, run>> BY <1>1 DEF session
  <1>4. DocOf(c).kind # "none" BY <1>1, <1>2 DEF Placed
  <1>5. PICK d \in Calls :
          /\ call' = [call EXCEPT ![a] = d] /\ Like(c, d)
          /\ d.doc = c.doc /\ d.target = c.target /\ d.st = c.st
          /\ DocOf(c).kind = "bad" => d.pc = "done" /\ d.err = "settings"
          /\ DocOf(c).kind # "bad" => d.err = ""
          /\ (DocOf(c).kind # "bad" /\ Connects(c)) => d.pc = "resolve"
          /\ (DocOf(c).kind # "bad" /\ ~Connects(c)) => d.pc = "done"
    <2>1. CASE DocOf(c).kind = "bad"
      <3>1. Fail(a, "settings") BY <1>1, <1>2, <2>1
      <3>2. "settings" \in Errors BY DEF Errors
      <3>3. \E d \in Calls : /\ call' = [call EXCEPT ![a] = d] /\ d.pc = "done" /\ Like(c, d)
                             /\ d.doc = c.doc /\ d.target = c.target /\ d.st = c.st
                             /\ d.err = "settings"
        BY <3>1, <3>2, <1>c, FailMoves
      <3> QED BY <2>1, <3>3
    <2>2. CASE DocOf(c).kind # "bad"
      <3>w. PICK pc : pc = IF Connects(c) THEN "resolve" ELSE "done" OBVIOUS
      <3>1. Goto(a, pc) /\ pc \in Steps BY <1>1, <1>2, <2>2, <3>w DEF Steps
      <3>2. \E d \in Calls : /\ call' = [call EXCEPT ![a] = d] /\ d.pc = pc /\ Like(c, d)
                             /\ d.doc = c.doc /\ d.target = c.target /\ d.st = c.st
                             /\ d.err = c.err
        BY <3>1, <1>c, GotoMoves
      <3>3. (Connects(c) => pc = "resolve") /\ (~Connects(c) => pc = "done")
        BY <3>w
      <3> QED BY <1>2, <2>2, <3>2, <3>3
    <2> QED BY <2>1, <2>2
  <1>6. /\ options' \in Docs /\ options'.kind = "ok"
        /\ DocOf(c).kind # "bad" => options' = DocOf(c)
    BY <1>1, <1>2, <1>4 DEF Docs
  <1>7. d.req = c.req /\ d.pc \in {"done", "resolve"} /\ (d.pc = "resolve" => Connects(c) /\ d.err = "")
    BY <1>5 DEF Like
  <1>8. Same(c, d) /\ Placed(d)
    BY <1>2, <1>5, <1>7 DEF Same, Like, Placed, Reached, Connects
  <1>9. ASSUME Busy(a) PROVE Knows(d)'
    <2>1. /\ Begun(d) = Begun(c) /\ (Connects(d) <=> Connects(c)) /\ DocAfter(d) = DocAfter(c)
          /\ Asked(d) = Asked(c)
      BY <1>5, LikeBase
    <2>2. Connects(c) /\ d.pc = "done" => d.err # "" BY <1>5
    <2>3. row = RowNow(d) BY <1>2, <1>5, <1>7, <1>9, <2>2, RowStays DEF Connects
    <2>4. settings = SettingsNow(d)
      BY <1>1, <1>2, <1>7, <1>9, <2>1 DEF Knows, SettingsNow, Early
    <2>5. HasRead(d)'
      <3>1. Connects(c) => c.st = Begun(c).row
        BY <1>1, <1>2, <1>9 DEF Knows, HasRead
      <3> QED BY <1>5, <1>7, <2>1, <3>1 DEF HasRead
    <2>6. Connecting(d)'
      <3>1. Connects(c) => c.doc = Begun(c).settings
        BY <1>1, <1>2, <1>9 DEF Knows, Connecting
      <3>2. d.pc = "resolve" => options' = Asked(d)
        <4>1. ASSUME d.pc = "resolve" PROVE options' = Asked(d)
          <5>1. Connects(c) /\ options' = DocOf(c) BY <4>1, <1>5, <1>6, <1>7
          <5>2. DocOf(c) = Begun(c).settings BY <3>1, <5>1 DEF DocOf, Connects
          <5> QED BY <1>4, <2>1, <5>1, <5>2 DEF Asked
        <4> QED BY <4>1
      <3>3. Connects(d) => ~Succeeded(d) BY <1>7, <2>1, <2>2 DEF Succeeded
      <3> QED BY <1>7, <3>2, <3>3 DEF Connecting
    <2>7. Switching(d)'
      <3>1. ASSUME c.req.op = "mode", d.err = ""
            PROVE  options' = settings /\ options'.flags = c.req.mode
        <4>1. /\ Begun(c).settings.kind = "ok"
              /\ c.doc = Doc(c.req.mode, Begun(c).settings.rest)
          BY <1>1, <1>2, <1>9, <3>1 DEF Knows, Switching
        <4>2. options' = c.doc BY <1>5, <1>6, <3>1 DEF DocOf
        <4>3. settings = DocAfter(c)
          BY <1>1, <1>2, <1>9, <3>1 DEF Knows, SettingsNow, Early
        <4>4. DocAfter(c) = c.doc BY <3>1, <4>1 DEF DocAfter, Begun
        <4>5. c.doc.flags = c.req.mode BY <4>1 DEF Doc
        <4> QED BY <4>2, <4>3, <4>4, <4>5
      <3>2. d.pc \notin {"store", "defaults", "unmarshal"} BY <1>7
      <3> QED BY <1>3, <1>7, <3>1, <3>2 DEF Switching
    <2> QED BY <1>3, <2>3, <2>4, <2>5, <2>6, <2>7 DEF Knows
  <1> QED BY <1>2, <1>3, <1>5, <1>6, <1>8, <1>9, <1>c, OneStep

(* The stored settings are applied when there are any.                      *)
LEMMA ApplyStep ==
  ASSUME CallInv, NEW a \in Actors, Apply(a), UNCHANGED alive
  PROVE  CallInv'
  <1>c. PICK c : c = call[a] OBVIOUS
  <1>1. /\ c.pc = "apply" /\ UNCHANGED <<session, process>>
        /\ settings.kind = "none" => Goto(a, "resolve")
        /\ settings.kind # "none" =>
             call' = [call EXCEPT ![a].pc = "defaults", ![a].doc = settings]
    BY <1>c DEF Apply, At
  <1>k. DocKnown(a, c) BY <1>1, <1>c, DocFacts
  <1>t. c \in Calls /\ settings \in Docs BY <1>k DEF DocKnown
  <1>2. /\ Placed(c) /\ c.err = "" /\ ~At(a, "idle")
        /\ row \in RowSets /\ options \in Docs /\ options.kind = "ok"
        /\ core \in CoreStates /\ run \in Runs
        /\ Busy(a) => Knows(c) /\ Begun(c).settings \in Docs /\ RowRests(c)
    BY <1>k DEF DocKnown
  <1>3. c.req.op \in {"connect", "reconnect"} /\ Connects(c)
    BY <1>1, <1>k DEF DocKnown, Placed, Reached, Connects
  <1>4. UNCHANGED <<row, settings, files, options, core, run>> BY <1>1 DEF session, process
  <1>5. PICK d \in Calls :
          /\ call' = [call EXCEPT ![a] = d] /\ Like(c, d) /\ d.err = c.err /\ d.st = c.st
          /\ settings.kind = "none" => d.pc = "resolve"
          /\ settings.kind # "none" => d.pc = "defaults" /\ d.doc = settings
    <2>1. CASE settings.kind = "none"
      <3>1. Goto(a, "resolve") /\ "resolve" \in Steps BY <1>1, <2>1 DEF Steps
      <3>2. \E d \in Calls : /\ call' = [call EXCEPT ![a] = d] /\ d.pc = "resolve" /\ Like(c, d)
                             /\ d.st = c.st /\ d.err = c.err
        BY <3>1, <1>c, GotoMoves
      <3> QED BY <2>1, <3>2
    <2>2. CASE settings.kind # "none"
      <3>e. PICK e : e = [c EXCEPT !.pc = "defaults"] OBVIOUS
      <3>n. PICK doc : doc = settings OBVIOUS
      <3>d. PICK d : d = [e EXCEPT !.doc = doc] OBVIOUS
      <3>1. e \in Calls /\ e.pc = "defaults" /\ Like(c, e) /\ e.st = c.st /\ e.err = c.err
        BY <3>e, <1>t, SetPc DEF Steps
      <3>2. d \in Calls /\ d.doc = doc /\ Like(e, d) /\ d.pc = e.pc /\ d.st = e.st /\ d.err = e.err
        BY <3>d, <3>n, <3>1, <1>t, SetDoc
      <3>3. Like(c, d) BY <3>1, <3>2 DEF Like
      <3>4. call' = [call EXCEPT ![a] = d] BY <1>1, <1>c, <2>2, <3>e, <3>n, <3>d
      <3> QED BY <2>2, <3>n, <3>1, <3>2, <3>3, <3>4
    <2> QED BY <2>1, <2>2
  <1>6. d.req = c.req /\ d.pc \in {"resolve", "defaults"} BY <1>5 DEF Like
  <1>7. Same(c, d) /\ Placed(d)
    <2>1. d.pc = "defaults" => DocOf(d).kind # "none"
      BY <1>3, <1>5, <1>6 DEF DocOf
    <2> QED BY <1>2, <1>3, <1>5, <1>6, <2>1 DEF Same, Like, Placed, Reached
  <1>8. ASSUME Busy(a) PROVE Knows(d)'
    <2>1. /\ Begun(d) = Begun(c) /\ (Connects(d) <=> Connects(c)) /\ DocAfter(d) = DocAfter(c)
          /\ Asked(d) = Asked(c)
      BY <1>5, LikeBase
    <2>2. DocAfter(c) = Begun(c).settings BY <1>3 DEF DocAfter, Begun
    <2>3. settings = Begun(c).settings /\ options = Begun(c).options /\ c.st = Begun(c).row
      BY <1>1, <1>2, <1>3, <1>8, <2>2 DEF Knows, SettingsNow, Early, Connecting, HasRead
    <2>4. row = RowNow(d) BY <1>2, <1>3, <1>5, <1>6, <1>8, RowStays
    <2>5. settings = SettingsNow(d)
      BY <1>3, <1>6, <2>1, <2>2, <2>3 DEF SettingsNow, Early
    <2>6. HasRead(d)' BY <1>5, <1>6, <2>1, <2>3 DEF HasRead
    <2>7. Connecting(d)'
      <3>1. d.pc = "resolve" => options = Asked(d)
        BY <1>5, <1>6, <2>1, <2>3 DEF Asked
      <3>2. d.pc = "defaults" => d.doc = Begun(d).settings
        BY <1>5, <1>6, <2>1, <2>3
      <3>3. ~Succeeded(d) BY <1>6 DEF Succeeded
      <3> QED BY <1>4, <1>6, <3>1, <3>2, <3>3 DEF Connecting
    <2>8. Switching(d)' BY <1>3, <1>6 DEF Switching
    <2> QED BY <1>4, <2>4, <2>5, <2>6, <2>7, <2>8 DEF Knows
  <1> QED BY <1>t, <1>2, <1>4, <1>5, <1>7, <1>8, <1>c, OneStep

(***************************************************************************)
(* The core                                                                 *)
(***************************************************************************)
(* What is known of a call that is about to start or stop the core.         *)
CoreKnown(a, c) ==
  /\ c \in Calls /\ Placed(c) /\ c.err = "" /\ ~At(a, "idle")
  /\ c.req.op \in {"connect", "reconnect", "disconnect"}
  /\ Connects(c) <=> c.req.op # "disconnect"
  /\ c.pc # "stop" => Connects(c)
  /\ c.st \in RowSets /\ c.target \in Targets \cup {None}
  /\ row \in RowSets /\ settings \in Docs /\ files \subseteq Targets /\ options \in Docs
  /\ options.kind = "ok" /\ core \in CoreStates /\ run \in Runs
  /\ Busy(a) => /\ Knows(c) /\ Begun(c).row \in RowSets /\ RowRests(c)
                /\ settings = DocAfter(c) /\ DocAfter(c) = Begun(c).settings
                /\ Connects(c) => c.st = Begun(c).row
LEMMA CoreFacts ==
  ASSUME CallInv, NEW a \in Actors, NEW c, c = call[a], c.pc \in {"resolve", "stop", "start", "up"}
  PROVE  CoreKnown(a, c)
  <1>1. /\ c \in Calls /\ Placed(c) /\ c.req \in UiRequests \cup {NoReq}
        /\ c.st \in RowSets /\ c.target \in Targets \cup {None}
        /\ row \in RowSets /\ settings \in Docs /\ files \subseteq Targets /\ options \in Docs
        /\ options.kind = "ok" /\ core \in CoreStates /\ run \in Runs
        /\ Busy(a) => Knows(c) /\ Begun(c).row \in RowSets
    BY CallFacts
  <1>2. c.req.op \in {"connect", "reconnect", "disconnect"} /\ c.err = ""
    BY <1>1, RequestTyped DEF Placed, Reached
  <1>3. Connects(c) <=> c.req.op # "disconnect" BY <1>2 DEF Connects
  <1>4. c.pc # "stop" => Connects(c) BY <1>1, <1>2, <1>3 DEF Placed, Reached
  <1>5. ASSUME Busy(a)
        PROVE  /\ RowRests(c) /\ settings = DocAfter(c) /\ DocAfter(c) = Begun(c).settings
               /\ Connects(c) => c.st = Begun(c).row
    <2>1. RowRests(c) BY <1>1, <1>5 DEF Knows, RowNow, RowRests
    <2>2. settings = DocAfter(c) BY <1>1, <1>5 DEF Knows, SettingsNow, Early
    <2>3. DocAfter(c) = Begun(c).settings BY <1>2 DEF DocAfter, Begun
    <2>4. Connects(c) => c.st = Begun(c).row BY <1>1, <1>5 DEF Knows, HasRead
    <2> QED BY <2>1, <2>2, <2>3, <2>4
  <1> QED BY <1>1, <1>2, <1>3, <1>4, <1>5 DEF At, CoreKnown

(* The session names a target, or nothing is started.                       *)
LEMMA ResolveStep ==
  ASSUME CallInv, NEW a \in Actors, Resolve(a), UNCHANGED alive
  PROVE  CallInv'
  <1>c. PICK c : c = call[a] OBVIOUS
  <1>r. PICK target : target = ResolveStartTarget(c.st) OBVIOUS
  <1>1. /\ c.pc = "resolve" /\ UNCHANGED <<session, options, run>>
        /\ target = None => core' = "STOPPED" /\ Fail(a, "target")
        /\ target # None =>
             /\ call' = [call EXCEPT ![a].target = target,
                           ![a].pc = IF c.req.op = "connect" THEN "start" ELSE "stop"]
             /\ UNCHANGED core
    BY <1>c, <1>r DEF Resolve, At
  <1>k. CoreKnown(a, c) BY <1>1, <1>c, CoreFacts
  <1>t. c \in Calls /\ c.st \in RowSets /\ files \subseteq Targets BY <1>k DEF CoreKnown
  <1>2. /\ Placed(c) /\ c.err = "" /\ ~At(a, "idle")
        /\ row \in RowSets /\ settings \in Docs /\ options \in Docs
        /\ options.kind = "ok" /\ core \in CoreStates /\ run \in Runs
        /\ Busy(a) => /\ Knows(c) /\ RowRests(c) /\ c.st = Begun(c).row
                      /\ settings = DocAfter(c) /\ DocAfter(c) = Begun(c).settings
    BY <1>1, <1>k DEF CoreKnown
  <1>3. c.req.op \in {"connect", "reconnect"} /\ Connects(c)
    BY <1>1, <1>k DEF CoreKnown
  <1>4. UNCHANGED <<row, settings, files, options, run>> BY <1>1 DEF session
  <1>5. target \in Targets \cup {None} /\ (target # None => Connectable(c.st))
    BY <1>t, <1>r, TargetOnDisk
  <1>6. PICK d \in Calls :
          /\ call' = [call EXCEPT ![a] = d] /\ Like(c, d) /\ d.st = c.st
          /\ target = None => d.pc = "done" /\ d.err = "target"
          /\ target # None => /\ d.target = target /\ d.err = c.err
                              /\ c.req.op = "connect" => d.pc = "start"
                              /\ c.req.op = "reconnect" => d.pc = "stop"
    <2>1. CASE target = None
      <3>1. Fail(a, "target") BY <1>1, <2>1
      <3>2. "target" \in Errors BY DEF Errors
      <3>3. \E d \in Calls : /\ call' = [call EXCEPT ![a] = d] /\ d.pc = "done" /\ Like(c, d)
                             /\ d.st = c.st /\ d.err = "target"
        BY <3>1, <3>2, <1>c, FailMoves
      <3> QED BY <2>1, <3>3
    <2>2. CASE target # None
      <3>p. PICK pc : pc = IF c.req.op = "connect" THEN "start" ELSE "stop" OBVIOUS
      <3>e. PICK e : e = [c EXCEPT !.target = target] OBVIOUS
      <3>d. PICK d : d = [e EXCEPT !.pc = pc] OBVIOUS
      <3>1. e \in Calls /\ e.target = target /\ Like(c, e) /\ e.st = c.st /\ e.err = c.err
        BY <3>e, <1>t, <1>5, SetTarget
      <3>2. pc \in Steps BY <3>p DEF Steps
      <3>3. d \in Calls /\ d.pc = pc /\ Like(e, d) /\ d.target = e.target /\ d.st = e.st /\ d.err = e.err
        BY <3>d, <3>1, <3>2, SetPc
      <3>4. Like(c, d) BY <3>1, <3>3 DEF Like
      <3>5. call' = [call EXCEPT ![a] = d] BY <1>1, <1>c, <2>2, <3>p, <3>e, <3>d
      <3>6. /\ c.req.op = "connect" => pc = "start"
            /\ c.req.op = "reconnect" => pc = "stop"
        BY <3>p
      <3> QED BY <2>2, <3>1, <3>3, <3>4, <3>5, <3>6
    <2> QED BY <2>1, <2>2
  <1>7. /\ d.req = c.req /\ d.pc \in {"done", "start", "stop"}
        /\ d.pc = "done" => target = None /\ d.err # ""
        /\ d.pc # "done" => target # None /\ d.err = "" /\ d.target = target
    BY <1>2, <1>3, <1>6 DEF Like
  <1>8. Same(c, d) /\ Placed(d)
    BY <1>3, <1>6, <1>7 DEF Same, Like, Placed, Reached
  <1>9. ASSUME Busy(a) PROVE Knows(d)'
    <2>1. /\ Begun(d) = Begun(c) /\ (Connects(d) <=> Connects(c)) /\ DocAfter(d) = DocAfter(c)
          /\ Asked(d) = Asked(c)
      BY <1>6, LikeBase
    <2>2. row = RowNow(d) BY <1>2, <1>3, <1>6, <1>7, <1>9, RowStays
    <2>3. settings = SettingsNow(d)
      BY <1>2, <1>7, <1>9, <2>1 DEF SettingsNow, Early
    <2>4. HasRead(d)' BY <1>2, <1>6, <1>7, <1>9, <2>1 DEF HasRead
    <2>5. Connecting(d)'
      <3>1. options = Asked(c) BY <1>1, <1>2, <1>3, <1>9 DEF Knows, Connecting
      <3>2. d.pc # "done" =>
              Connectable(Begun(d).row) /\ d.target = ResolveStartTarget(Begun(d).row)
        BY <1>2, <1>5, <1>7, <1>9, <1>r, <2>1
      <3>3. ResolveStartTarget(Begun(d).row)' = ResolveStartTarget(Begun(d).row)
        BY <1>4, ResolveKeeps
      <3>4. ~Succeeded(d) BY <1>7 DEF Succeeded
      <3> QED BY <1>4, <1>7, <2>1, <3>1, <3>2, <3>3, <3>4 DEF Connecting
    <2>6. Switching(d)' BY <1>3, <1>7 DEF Switching
    <2> QED BY <1>4, <2>2, <2>3, <2>4, <2>5, <2>6 DEF Knows
  <1>10. core' \in CoreStates BY <1>1, <1>2 DEF CoreStates
  <1> QED BY <1>2, <1>4, <1>6, <1>8, <1>9, <1>10, <1>c, OneStep

(* The core is stopped, before a start or for good.                         *)
LEMMA StopCoreStep ==
  ASSUME CallInv, NEW a \in Actors, StopCore(a), UNCHANGED alive
  PROVE  CallInv'
  <1>c. PICK c : c = call[a] OBVIOUS
  <1>1. /\ c.pc = "stop" /\ core' = "STOPPED" /\ run' = NoRun /\ UNCHANGED <<session, options>>
        /\ c.req.op = "reconnect" => Goto(a, "start")
        /\ c.req.op # "reconnect" => Fail(a, "stopped") \/ Goto(a, "done")
    BY <1>c DEF StopCore, At
  <1>k. CoreKnown(a, c) BY <1>1, <1>c, CoreFacts
  <1>2. /\ Placed(c) /\ c.err = "" /\ ~At(a, "idle")
        /\ row \in RowSets /\ settings \in Docs /\ options \in Docs /\ options.kind = "ok"
        /\ c.req.op \in {"reconnect", "disconnect"}
        /\ Connects(c) <=> c.req.op # "disconnect"
        /\ Busy(a) => /\ Knows(c) /\ RowRests(c) /\ settings = DocAfter(c)
                      /\ Connects(c) => c.st = Begun(c).row
    BY <1>1, <1>k DEF CoreKnown, Placed, Reached
  <1>3. UNCHANGED <<row, settings, files, options>> BY <1>1 DEF session
  <1>4. PICK d \in Calls :
          /\ call' = [call EXCEPT ![a] = d] /\ Like(c, d)
          /\ c.req.op = "reconnect" => /\ d.pc = "start" /\ d.err = "" /\ d.st = c.st
                                       /\ d.target = c.target
          /\ c.req.op # "reconnect" => d.pc = "done"
    <2>1. CASE c.req.op = "reconnect"
      <3>1. Goto(a, "start") /\ "start" \in Steps BY <1>1, <2>1 DEF Steps
      <3>2. \E d \in Calls : /\ call' = [call EXCEPT ![a] = d] /\ d.pc = "start" /\ Like(c, d)
                             /\ d.st = c.st /\ d.err = c.err /\ d.target = c.target
        BY <3>1, <1>c, GotoMoves
      <3> QED BY <1>2, <2>1, <3>2
    <2>2. CASE c.req.op # "reconnect" /\ Fail(a, "stopped")
      <3>1. "stopped" \in Errors BY DEF Errors
      <3>2. \E d \in Calls : call' = [call EXCEPT ![a] = d] /\ d.pc = "done" /\ Like(c, d)
        BY <2>2, <3>1, <1>c, FailMoves
      <3> QED BY <2>2, <3>2
    <2>3. CASE c.req.op # "reconnect" /\ Goto(a, "done")
      <3>1. "done" \in Steps BY DEF Steps
      <3>2. \E d \in Calls : call' = [call EXCEPT ![a] = d] /\ d.pc = "done" /\ Like(c, d)
        BY <2>3, <3>1, <1>c, GotoMoves
      <3> QED BY <2>3, <3>2
    <2> QED BY <1>1, <2>1, <2>2, <2>3
  <1>5. /\ d.req = c.req /\ d.pc \in {"start", "done"}
        /\ d.pc = "start" <=> Connects(c)
        /\ d.pc = "start" => c.req.op = "reconnect" /\ d.err = ""
    BY <1>2, <1>4 DEF Like
  <1>6. Same(c, d) /\ Placed(d)
    BY <1>1, <1>2, <1>4, <1>5 DEF Same, Like, Placed, Reached
  <1>7. ASSUME Busy(a) PROVE Knows(d)'
    <2>1. /\ Begun(d) = Begun(c) /\ (Connects(d) <=> Connects(c)) /\ DocAfter(d) = DocAfter(c)
          /\ Asked(d) = Asked(c)
      BY <1>4, LikeBase
    <2>2. row = RowNow(d) BY <1>2, <1>4, <1>5, <1>7, RowStays
    <2>3. settings = SettingsNow(d)
      BY <1>2, <1>5, <1>7, <2>1 DEF SettingsNow, Early
    <2>4. HasRead(d)' BY <1>2, <1>4, <1>5, <1>7, <2>1 DEF HasRead
    <2>5. Connecting(d)'
      <3>1. CASE ~Connects(c) BY <2>1, <3>1 DEF Connecting
      <3>2. CASE Connects(c)
        <4>1. /\ options = Asked(c) /\ Connectable(Begun(c).row)
              /\ c.target = ResolveStartTarget(Begun(c).row)
          BY <1>1, <1>2, <1>7, <3>2 DEF Knows, Connecting
        <4>2. ResolveStartTarget(Begun(c).row)' = ResolveStartTarget(Begun(c).row)
          BY <1>3, ResolveKeeps
        <4>3. d.pc = "start" /\ d.target = c.target /\ ~Succeeded(d)
          BY <1>2, <1>4, <1>5, <3>2 DEF Succeeded
        <4> QED BY <1>3, <2>1, <4>1, <4>2, <4>3 DEF Connecting
      <3> QED BY <3>1, <3>2
    <2>6. Switching(d)' BY <1>2, <1>5 DEF Switching
    <2> QED BY <1>3, <2>2, <2>3, <2>4, <2>5, <2>6 DEF Knows
  <1>8. core' \in CoreStates /\ run' \in Runs BY <1>1, ValuesTyped DEF CoreStates
  <1> QED BY <1>2, <1>3, <1>4, <1>6, <1>7, <1>8, <1>c, OneStep

(* The core is started with the target and the options, or runs already.    *)
LEMMA StartCoreStep ==
  ASSUME CallInv, NEW a \in Actors, StartCore(a), UNCHANGED alive
  PROVE  CallInv'
  <1>c. PICK c : c = call[a] OBVIOUS
  <1>1. /\ c.pc = "start" /\ UNCHANGED <<session, options>>
        /\ core # "STOPPED" => Fail(a, "started") /\ UNCHANGED <<core, run>>
        /\ core = "STOPPED" => /\ core' = "STARTING" /\ Goto(a, "up")
                               /\ run' = [target |-> c.target, options |-> options]
    BY <1>c DEF StartCore, At
  <1>k. CoreKnown(a, c) BY <1>1, <1>c, CoreFacts
  <1>2. /\ Placed(c) /\ c.err = "" /\ ~At(a, "idle") /\ c.target \in Targets \cup {None}
        /\ row \in RowSets /\ settings \in Docs /\ options \in Docs /\ options.kind = "ok"
        /\ core \in CoreStates /\ run \in Runs
        /\ Busy(a) => /\ Knows(c) /\ RowRests(c) /\ c.st = Begun(c).row
                      /\ settings = DocAfter(c)
    BY <1>1, <1>k DEF CoreKnown
  <1>3. c.req.op \in {"connect", "reconnect"} /\ Connects(c)
    BY <1>1, <1>k DEF CoreKnown
  <1>4. UNCHANGED <<row, settings, files, options>> BY <1>1 DEF session
  <1>5. PICK d \in Calls :
          /\ call' = [call EXCEPT ![a] = d] /\ Like(c, d) /\ d.st = c.st /\ d.target = c.target
          /\ core # "STOPPED" => d.pc = "done" /\ d.err = "started"
          /\ core = "STOPPED" => d.pc = "up" /\ d.err = ""
    <2>1. CASE core # "STOPPED"
      <3>1. Fail(a, "started") BY <1>1, <2>1
      <3>2. "started" \in Errors BY DEF Errors
      <3>3. \E d \in Calls : /\ call' = [call EXCEPT ![a] = d] /\ d.pc = "done" /\ Like(c, d)
                             /\ d.st = c.st /\ d.target = c.target /\ d.err = "started"
        BY <3>1, <3>2, <1>c, FailMoves
      <3> QED BY <2>1, <3>3
    <2>2. CASE core = "STOPPED"
      <3>1. Goto(a, "up") /\ "up" \in Steps BY <1>1, <2>2 DEF Steps
      <3>2. \E d \in Calls : /\ call' = [call EXCEPT ![a] = d] /\ d.pc = "up" /\ Like(c, d)
                             /\ d.st = c.st /\ d.target = c.target /\ d.err = c.err
        BY <3>1, <1>c, GotoMoves
      <3> QED BY <1>2, <2>2, <3>2
    <2> QED BY <2>1, <2>2
  <1>6. /\ d.req = c.req /\ d.pc \in {"done", "up"}
        /\ d.pc = "done" => d.err # ""
        /\ d.pc = "up" => /\ core = "STOPPED" /\ d.err = ""
    BY <1>5 DEF Like
  <1>7. Same(c, d) /\ Placed(d)
    BY <1>1, <1>2, <1>3, <1>5, <1>6 DEF Same, Like, Placed, Reached
  <1>8. ASSUME Busy(a) PROVE Knows(d)'
    <2>1. /\ Begun(d) = Begun(c) /\ (Connects(d) <=> Connects(c)) /\ DocAfter(d) = DocAfter(c)
          /\ Asked(d) = Asked(c)
      BY <1>5, LikeBase
    <2>2. row = RowNow(d) BY <1>2, <1>3, <1>5, <1>6, <1>8, RowStays
    <2>3. settings = SettingsNow(d)
      BY <1>2, <1>6, <1>8, <2>1 DEF SettingsNow, Early
    <2>4. HasRead(d)' BY <1>2, <1>5, <1>6, <1>8, <2>1 DEF HasRead
    <2>5. Connecting(d)'
      <3>1. /\ options = Asked(c) /\ Connectable(Begun(c).row)
            /\ c.target = ResolveStartTarget(Begun(c).row)
        BY <1>1, <1>2, <1>3, <1>8 DEF Knows, Connecting
      <3>2. ResolveStartTarget(Begun(c).row)' = ResolveStartTarget(Begun(c).row)
        BY <1>4, ResolveKeeps
      <3>3. ~Succeeded(d) BY <1>6 DEF Succeeded
      <3>4. d.pc = "up" => run' = [target |-> d.target, options |-> Asked(d)]
        BY <1>1, <1>5, <1>6, <2>1, <3>1
      <3> QED BY <1>4, <1>5, <1>6, <2>1, <3>1, <3>2, <3>3, <3>4 DEF Connecting
    <2>6. Switching(d)' BY <1>3, <1>6 DEF Switching
    <2> QED BY <1>4, <2>2, <2>3, <2>4, <2>5, <2>6 DEF Knows
  <1>9. core' \in CoreStates /\ run' \in Runs
    <2>1. core' \in CoreStates BY <1>1, <1>2 DEF CoreStates
    <2>2. CASE core # "STOPPED" BY <1>1, <1>2, <2>1, <2>2
    <2>3. CASE core = "STOPPED"
      <3>1. run' = [target |-> c.target, options |-> options] BY <1>1, <2>3
      <3>2. c.target \in Targets \cup {None} /\ options \in Docs BY <1>2
      <3> QED BY <2>1, <3>1, <3>2 DEF Runs
    <2> QED BY <2>2, <2>3
  <1> QED BY <1>2, <1>4, <1>5, <1>7, <1>8, <1>9, <1>c, OneStep

(* The core is up; a connect saves the target.                              *)
LEMMA CoreUpStep ==
  ASSUME CallInv, NEW a \in Actors, CoreUp(a), UNCHANGED alive
  PROVE  CallInv'
  <1>c. PICK c : c = call[a] OBVIOUS
  <1>s. PICK st : st = Connected(c.st, c.target) OBVIOUS
  <1>1. /\ c.pc = "up" /\ core' = "STARTED" /\ UNCHANGED <<session, options, run>>
        /\ c.req.op = "connect" =>
             call' = [call EXCEPT ![a] = [c EXCEPT !.pc = "save", !.i = 1, !.st = st]]
        /\ c.req.op # "connect" => call' = [call EXCEPT ![a] = [c EXCEPT !.pc = "done"]]
    <2>1. c.pc = "up" /\ core' = "STARTED" /\ UNCHANGED <<session, options, run>>
      BY <1>c DEF CoreUp, At
    <2>2. call' = [call EXCEPT ![a] =
            IF c.req.op = "connect"
            THEN [c EXCEPT !.pc = "save", !.i = 1, !.st = Connected(c.st, c.target)]
            ELSE [c EXCEPT !.pc = "done"]]
      BY <1>c DEF CoreUp
    <2> QED BY <2>1, <2>2, <1>s
  <1>k. CoreKnown(a, c) BY <1>1, <1>c, CoreFacts
  <1>t. c \in Calls /\ c.st \in RowSets /\ c.target \in Targets \cup {None} BY <1>k DEF CoreKnown
  <1>2. /\ Placed(c) /\ c.err = "" /\ ~At(a, "idle")
        /\ row \in RowSets /\ settings \in Docs /\ options \in Docs /\ options.kind = "ok"
        /\ run \in Runs
        /\ Busy(a) => /\ Knows(c) /\ RowRests(c) /\ c.st = Begun(c).row
                      /\ settings = DocAfter(c) /\ DocAfter(c) = Begun(c).settings
    BY <1>1, <1>k DEF CoreKnown
  <1>3. c.req.op \in {"connect", "reconnect"} /\ Connects(c)
    BY <1>1, <1>k DEF CoreKnown
  <1>4. UNCHANGED <<row, settings, files, options, run>> BY <1>1 DEF session
  <1>5. st \in RowSets BY <1>t, <1>s, MergesTyped
  <1>6. PICK d \in Calls :
          /\ call' = [call EXCEPT ![a] = d] /\ Like(c, d) /\ d.err = c.err /\ d.target = c.target
          /\ c.req.op = "connect" => d.pc = "save" /\ d.i = 1 /\ d.st = st
          /\ c.req.op # "connect" => d.pc = "done"
    <2>1. CASE c.req.op = "connect"
      <3>e. PICK e : e = [c EXCEPT !.pc = "save"] OBVIOUS
      <3>f. PICK f : f = [e EXCEPT !.i = 1] OBVIOUS
      <3>d. PICK d : d = [f EXCEPT !.st = st] OBVIOUS
      <3>1. e \in Calls /\ e.pc = "save" /\ Like(c, e) /\ e.target = c.target /\ e.err = c.err
        BY <3>e, <1>t, SetPc DEF Steps
      <3>2. /\ f \in Calls /\ f.i = 1 /\ Like(e, f) /\ f.pc = e.pc /\ f.target = e.target
            /\ f.err = e.err
        BY <3>f, <3>1, SetI
      <3>3. /\ d \in Calls /\ d.st = st /\ Like(f, d) /\ d.pc = f.pc /\ d.i = f.i
            /\ d.target = f.target /\ d.err = f.err
        BY <3>d, <1>5, <3>2, SetSt
      <3>4. Like(c, d) BY <3>1, <3>2, <3>3 DEF Like
      <3>5. call' = [call EXCEPT ![a] = d] BY <1>1, <2>1, <3>e, <3>f, <3>d
      <3> QED BY <2>1, <3>1, <3>2, <3>3, <3>4, <3>5
    <2>2. CASE c.req.op # "connect"
      <3>d. PICK d : d = [c EXCEPT !.pc = "done"] OBVIOUS
      <3>1. d \in Calls /\ d.pc = "done" /\ Like(c, d) /\ d.target = c.target /\ d.err = c.err
        BY <3>d, <1>t, SetPc DEF Steps
      <3>2. call' = [call EXCEPT ![a] = d] BY <1>1, <2>2, <3>d
      <3> QED BY <2>2, <3>1, <3>2
    <2> QED BY <2>1, <2>2
  <1>7. /\ d.req = c.req /\ d.pc \in {"save", "done"}
        /\ d.pc = "save" <=> c.req.op = "connect"
        /\ Succeeded(d)
    BY <1>2, <1>6 DEF Like, Succeeded
  <1>8. Same(c, d) /\ Placed(d)
    BY <1>1, <1>2, <1>3, <1>6, <1>7 DEF Same, Like, Placed, Reached
  <1>9. ASSUME Busy(a) PROVE Knows(d)'
    <2>1. /\ Begun(d) = Begun(c) /\ (Connects(d) <=> Connects(c)) /\ DocAfter(d) = DocAfter(c)
          /\ Asked(d) = Asked(c) /\ Base(d) = Base(c) /\ Saved(d) = Saved(c)
      BY <1>6, LikeBase
    <2>2. Base(c) = Begun(c).row BY <1>3 DEF Base
    <2>3. row = RowNow(d)
      <3>1. CASE d.pc = "save"
        <4>1. row = Base(c) BY <1>2, <1>3, <1>9, <2>2 DEF RowRests
        <4>2. RowNow(d) = Halfway(Base(d), Saved(d), 1) BY <1>6, <1>7, <3>1 DEF RowNow
        <4> QED BY <2>1, <4>1, <4>2 DEF Halfway
      <3>2. CASE d.pc = "done"
        BY <1>2, <1>3, <1>6, <1>7, <1>9, <3>2, RowStays
      <3> QED BY <1>7, <3>1, <3>2
    <2>4. settings = SettingsNow(d)
      BY <1>2, <1>7, <1>9, <2>1 DEF SettingsNow, Early
    <2>5. HasRead(d)'
      <3>1. c.req.op = "connect" => st = Saved(c)
        BY <1>2, <1>9, <1>s, <2>2 DEF Saved
      <3> QED BY <1>6, <1>7, <2>1, <3>1 DEF HasRead
    <2>6. Connecting(d)'
      <3>1. /\ Connectable(Begun(c).row) /\ c.target = ResolveStartTarget(Begun(c).row)
            /\ run = [target |-> c.target, options |-> Asked(c)]
        BY <1>1, <1>2, <1>3, <1>9 DEF Knows, Connecting
      <3>2. ResolveStartTarget(Begun(c).row)' = ResolveStartTarget(Begun(c).row)
        BY <1>4, ResolveKeeps
      <3> QED BY <1>1, <1>4, <1>6, <1>7, <2>1, <3>1, <3>2 DEF Connecting
    <2>7. Switching(d)' BY <1>3, <1>7 DEF Switching
    <2> QED BY <1>4, <2>3, <2>4, <2>5, <2>6, <2>7 DEF Knows
  <1>10. core' \in CoreStates BY <1>1 DEF CoreStates
  <1> QED BY <1>2, <1>4, <1>6, <1>8, <1>9, <1>10, <1>c, OneStep

(***************************************************************************)
(* Every step, and the first state                                          *)
(***************************************************************************)
(* A step of a call, whatever the tray does meanwhile.                      *)
LEMMA WorkStep ==
  ASSUME CallInv, NEW a \in Actors, DataStep(a) \/ CoreStep(a), UNCHANGED alive
  PROVE  CallInv'
  <1>1. CASE DataStep(a)
    BY <1>1, LoadStep, SaveStep, FailsStep, ClearPidStep, DeletePidStep, GetJsonStep,
       StoreJsonStep, DefaultsStep, UnmarshalStep, ApplyStep DEF DataStep
  <1>2. CASE CoreStep(a)
    BY <1>2, ResolveStep, StopCoreStep, StartCoreStep, CoreUpStep, FailsStep DEF CoreStep
  <1> QED BY <1>1, <1>2

(* What an actor may ask is a request; the menu and its items ask for less. *)
LEMMA AsksTyped ==
  ASSUME NEW a \in Actors, NEW req \in Asks(a)
  PROVE  /\ req \in UiRequests
         /\ a = "item" => req.op \in {"active", "reconnect"}
         /\ a = "menu" => req.op \notin {"sync", "clearpid"}
  <1>1. a \in {"ui", "menu", "item"} /\ Requests("ui") \subseteq UiRequests
    BY SessionAssumption
  <1>2. CASE a = "ui"
    BY <1>1, <1>2 DEF Asks
  <1>3. CASE a = "menu"
    <2>1. req \in Clicks BY <1>3 DEF Asks
    <2>2. \/ req = [op |-> "disconnect"] \/ req = [op |-> "connect"] \/ req = [op |-> "reconnect"]
          \/ \E m \in Modes : req = [op |-> "mode", mode |-> m]
      BY <2>1 DEF Clicks, Toggle
    <2> QED BY <1>3, <2>2 DEF UiRequests
  <1>4. CASE a = "item"
    <2>1. req \in ItemClicks BY <1>4 DEF Asks
    <2>2. PICK id \in Ids : req = [op |-> "active", ids |-> {id}]
      BY <2>1 DEF ItemClicks
    <2>3. {id} \in SUBSET Ids OBVIOUS
    <2> QED BY <1>4, <2>2, <2>3 DEF UiRequests
  <1> QED BY <1>1, <1>2, <1>3, <1>4

(* A call begins.                                                           *)
LEMMA BeginStep ==
  ASSUME CallInv, NEW a \in Actors, Begin(a)
  PROVE  CallInv'
  <1>1. PICK req \in Asks(a) : Start(a, req) BY DEF Begin
  <1>2. UNCHANGED <<session, process, alive>> BY DEF Begin, trayVars, uis
  <1>3. /\ req \in UiRequests
        /\ a = "item" => req.op \in {"active", "reconnect"}
        /\ a = "menu" => req.op \notin {"sync", "clearpid"}
    BY AsksTyped
  <1> QED BY <1>1, <1>2, <1>3, StartStep

(* A call is answered, and another may follow.                              *)
LEMMA ReturnStep ==
  ASSUME CallInv, NEW a \in Actors, Return(a)
  PROVE  CallInv'
  <1>1. UNCHANGED <<session, process, alive>> /\ ~At(a, "idle") BY DEF Return, uis, At
  <1>2. \/ Start(a, [op |-> "reconnect"])
        \/ Start(a, [op |-> "disconnect"]) /\ a = "menu"
        \/ call' = [call EXCEPT ![a] = Idle]
    BY DEF Return
  <1>3. [op |-> "reconnect"] \in UiRequests /\ [op |-> "disconnect"] \in UiRequests
    BY DEF UiRequests
  <1>4. CASE Start(a, [op |-> "reconnect"])
    BY <1>1, <1>3, <1>4, StartStep
  <1>5. CASE Start(a, [op |-> "disconnect"]) /\ a = "menu"
    BY <1>1, <1>3, <1>5, StartStep
  <1>6. CASE call' = [call EXCEPT ![a] = Idle]
    BY <1>1, <1>6, IdleStep
  <1> QED BY <1>2, <1>4, <1>5, <1>6

(* The tray quits: the UI that it finds is dead before its pid is cleared.  *)
LEMMA QuitStep ==
  ASSUME CallInv, TrayTypes, Quit
  PROVE  CallInv'
  <1>p. PICK pid : pid = ResolveUiPid OBVIOUS
  <1>1. UNCHANGED <<session, process>> /\ alive' \in {alive, alive \ {pid}}
    BY <1>p DEF Quit
  <1>2. pid \in Pids \cup {0}
    <2>1. alive \subseteq Pids BY DEF TrayTypes
    <2> QED BY <2>1, <1>p DEF ResolveUiPid
  <1>3. alive' \subseteq alive BY <1>1
  <1>4. "menu" \in Actors BY SessionAssumption
  <1>5. CASE QuitClears(pid)
    <2>r. PICK req : req = [op |-> "clearpid", pid |-> pid] OBVIOUS
    <2>1. Start("menu", req) BY <1>5, <1>p, <2>r DEF Quit
    <2>2. req \in UiRequests /\ req.op = "clearpid" /\ req.pid = pid
      BY <1>2, <2>r DEF UiRequests
    <2>3. pid \in Pids \ alive' BY <1>2, <1>5 DEF QuitClears
    <2> QED BY <1>1, <1>3, <1>4, <2>1, <2>2, <2>3, StartStep
  <1>6. CASE ~QuitClears(pid)
    <2>r. PICK req : req = [op |-> "disconnect"] OBVIOUS
    <2>1. Start("menu", req) BY <1>6, <1>p, <2>r DEF Quit
    <2>2. req \in UiRequests /\ req.op = "disconnect" BY <2>r DEF UiRequests
    <2> QED BY <1>1, <1>3, <1>4, <2>1, <2>2, StartStep
  <1> QED BY <1>5, <1>6

(* A UI comes up or goes: the one that the menu clears does not come back.  *)
LEMMA UiStep ==
  ASSUME CallInv, NEW pid \in Pids, UiStarts(pid) \/ UiDies(pid)
  PROVE  CallInv'
  <1>1. UNCHANGED <<session, process, call>> BY DEF UiStarts, UiDies
  <1>2. ASSUME call["menu"].req.op = "clearpid" PROVE call["menu"].req.pid \notin alive' \ alive
    <2>r. PICK req : req = call["menu"].req OBVIOUS
    <2>1. req \in UiRequests \cup {NoReq}
      BY <2>r, CallFacts, SessionAssumption
    <2>2. req = [op |-> "clearpid", pid |-> req.pid]
      BY <1>2, <2>r, <2>1 DEF UiRequests, NoReq
    <2>3. CASE UiStarts(pid)
      <3>1. alive' = alive \cup {pid} /\ req # [op |-> "clearpid", pid |-> pid]
        BY <2>3, <2>r DEF UiStarts, Freed
      <3>2. req.pid # pid BY <2>2, <3>1
      <3> QED BY <2>r, <3>1, <3>2
    <2>4. CASE UiDies(pid) BY <2>4, <2>r DEF UiDies
    <2> QED BY <2>3, <2>4
  <1> QED BY <1>1, <1>2, RestStep

(* Every step keeps the invariant of the calls.                             *)
LEMMA CallNext ==
  ASSUME CallInv, TrayTypes, [Next]_vars
  PROVE  CallInv'
  <1>1. ASSUME NEW a \in Actors, Data(a) PROVE CallInv'
    BY <1>1, WorkStep DEF Data, trayVars, uis
  <1>2. ASSUME NEW a \in Actors, Core(a) PROVE CallInv'
    BY <1>2, WorkStep DEF Core, uis
  <1>3. ASSUME NEW a \in Actors, TailRead(a) \/ TailSend(a) PROVE CallInv'
    BY <1>3, RestStep DEF TailRead, TailSend, uis
  <1>4. CASE RunCommand \/ PrefsChange \/ OnReady \/ WatchRead \/ WatchSend \/ ShowOrSpawn
    BY <1>4, RestStep DEF RunCommand, PrefsChange, OnReady, WatchRead, WatchSend, ShowOrSpawn, uis
  <1>5. CASE HostDies BY <1>5, CrashStep DEF HostDies, uis
  <1>6. CASE UNCHANGED vars BY <1>6, RestStep DEF vars, trayVars, uis
  <1> QED BY <1>1, <1>2, <1>3, <1>4, <1>5, <1>6, BeginStep, ReturnStep, QuitStep, UiStep DEF Next

(* The first state.                                                         *)
LEMMA CallInit ==
  ASSUME Init
  PROVE  CallInv
  <1>1. /\ row \in RowSets /\ settings \in Docs /\ files \subseteq Targets
        /\ options = DefaultClientOptions /\ core = "STOPPED" /\ run = NoRun
        /\ call = [a \in Actors |-> Idle]
    BY SessionAssumption DEF Init, SessionInit
  <1>2. CallTypes BY <1>1, ValuesTyped DEF CallTypes, CoreStates
  <1>3. \A a \in Actors : call[a] = Idle BY <1>1
  <1>4. Idle.pc = "idle" /\ Idle.req.op = "none" /\ Idle.err = "" BY DEF Idle, NoReq
  <1>5. PlaceInv BY <1>3, <1>4 DEF PlaceInv, Placed, Reached
  <1>6. TrayCallInv BY <1>3, <1>4, SessionAssumption DEF TrayCallInv
  <1>7. ASSUME NEW b \in Actors PROVE ~Busy(b) BY <1>3, <1>4 DEF Busy, At
  <1> QED BY <1>2, <1>5, <1>6, <1>7 DEF CallInv, QuietInv, AloneInv

(***************************************************************************)
(* The queue and what is drawn                                              *)
(***************************************************************************)
(* What is queued for the state of the core leads to it: with nothing       *)
(* queued it is drawn, and the last such command names it or reads it.      *)
Shows(cmd) == cmd.kind \in {"refresh", "conn"}
LeadsTo(q, state, drawn) ==
  /\ (\A j \in 1..Len(q) : ~Shows(q[j])) => drawn = state
  /\ \A i \in 1..Len(q) :
       (Shows(q[i]) /\ \A j \in 1..Len(q) : j > i => ~Shows(q[j])) => q[i] \in {Refresh, Conn(state)}
QueueInv == (~dropped /\ ~stale /\ phase # "starting") => LeadsTo(queue, core, menu.core)
(* The hash names the profiles that are drawn, unless it was taken before   *)
(* there was a menu.                                                        *)
HashInv == (~early /\ menu.hash # <<>>) => phase # "starting" /\ menu.hash[1] = menu.meta
MenuShape == \E c, m, t, h : menu = [core |-> c, mode |-> m, meta |-> t, hash |-> h]
Ghosts == early \in BOOLEAN /\ dropped \in BOOLEAN /\ stale \in BOOLEAN
MenuInv == MenuShape /\ Ghosts /\ QueueInv /\ HashInv
SessionInv == CallInv /\ TrayTypes /\ MenuInv

(* The commands, and which of them show the state of the core.              *)
LEMMA CommandsTyped ==
  /\ Refresh \in Commands /\ Shows(Refresh)
  /\ \A state \in CoreStates : Conn(state) \in Commands /\ Shows(Conn(state))
  /\ \A mode \in Modes : Check(mode) \in Commands /\ ~Shows(Check(mode))
  BY DEF Commands, Refresh, Conn, Check, Shows

(* One command goes to the end of the queue, or the queue is full.          *)
LEMMA DispatchOne ==
  ASSUME NEW C, queue \in Seq(C), Len(queue) <= QueueSize, NEW cmd \in C,
         Dispatch(<<cmd>>), dropped \in BOOLEAN
  PROVE  /\ queue' \in Seq(C) /\ Len(queue') <= QueueSize /\ Len(queue') >= Len(queue)
         /\ dropped' \in BOOLEAN
         /\ ~dropped' => ~dropped /\ queue' = Append(queue, cmd)
  <1>q. PICK q : q = queue \o <<cmd>> OBVIOUS
  <1>1. q \in Seq(C) /\ Len(q) = Len(queue) + 1 /\ q = Append(queue, cmd)
    BY <1>q
  <1>2. /\ queue' = IF Len(q) <= QueueSize THEN q ELSE queue
        /\ dropped' = (dropped \/ Len(q) > QueueSize)
    BY <1>q DEF Dispatch
  <1>3. QueueSize \in Nat BY SessionAssumption
  <1>4. CASE Len(q) <= QueueSize BY <1>1, <1>2, <1>3, <1>4
  <1>5. CASE ~(Len(q) <= QueueSize)
    <2>1. Len(q) \in Nat /\ Len(queue) \in Nat BY <1>1
    <2>2. Len(q) > QueueSize BY <1>3, <1>5, <2>1
    <2>3. queue' = queue /\ dropped' = TRUE BY <1>2, <1>5, <2>2
    <2> QED BY <2>1, <2>3
  <1> QED BY <1>4, <1>5

(* No command leaves the queue as it is.                                    *)
LEMMA DispatchNone ==
  ASSUME NEW C, queue \in Seq(C), Len(queue) <= QueueSize, Dispatch(<<>>), dropped \in BOOLEAN
  PROVE  UNCHANGED queue /\ (dropped' <=> dropped) /\ dropped' \in BOOLEAN
  <1>1. queue \o <<>> = queue OBVIOUS
  <1>2. QueueSize \in Nat BY SessionAssumption
  <1>3. Len(queue) \in Nat /\ ~(Len(queue) > QueueSize) BY <1>2
  <1> QED BY <1>1, <1>3 DEF Dispatch

(* A command that shows the state at the end of the queue leads to it.      *)
LEMMA AppendShows ==
  ASSUME NEW C, NEW q \in Seq(C), NEW cmd, NEW state, NEW drawn,
         cmd \in {Refresh, Conn(state)}, Shows(cmd)
  PROVE  LeadsTo(Append(q, cmd), state, drawn)
  <1>p. PICK p : p = Append(q, cmd) OBVIOUS
  <1>1. Len(p) = Len(q) + 1 /\ p[Len(p)] = cmd /\ Len(q) \in Nat BY <1>p
  <1>2. Len(p) \in 1..Len(p) BY <1>1
  <1>3. ~(\A j \in 1..Len(p) : ~Shows(p[j])) BY <1>1, <1>2
  <1>4. ASSUME NEW i \in 1..Len(p), \A j \in 1..Len(p) : j > i => ~Shows(p[j])
        PROVE  p[i] = cmd
    <2>1. ~(Len(p) > i) BY <1>1, <1>2, <1>4
    <2>2. i = Len(p) BY <1>1, <2>1
    <2> QED BY <1>1, <2>2
  <1> QED BY <1>p, <1>3, <1>4 DEF LeadsTo

(* One that shows something else changes nothing.                           *)
LEMMA AppendOther ==
  ASSUME NEW C, NEW q \in Seq(C), NEW cmd, ~Shows(cmd), NEW state, NEW drawn,
         LeadsTo(q, state, drawn)
  PROVE  LeadsTo(Append(q, cmd), state, drawn)
  <1>p. PICK p : p = Append(q, cmd) OBVIOUS
  <1>1. /\ Len(p) = Len(q) + 1 /\ p[Len(p)] = cmd /\ Len(q) \in Nat
        /\ \A i \in 1..Len(q) : p[i] = q[i]
    BY <1>p
  <1>2. ASSUME \A j \in 1..Len(p) : ~Shows(p[j]) PROVE drawn = state
    <2>1. \A j \in 1..Len(q) : ~Shows(q[j]) BY <1>1, <1>2
    <2> QED BY <2>1 DEF LeadsTo
  <1>3. ASSUME NEW i \in 1..Len(p), Shows(p[i]), \A j \in 1..Len(p) : j > i => ~Shows(p[j])
        PROVE  p[i] \in {Refresh, Conn(state)}
    <2>1. i \in 1..Len(q) BY <1>1, <1>3
    <2>2. Shows(q[i]) /\ \A j \in 1..Len(q) : j > i => ~Shows(q[j])
      BY <1>1, <1>3, <2>1
    <2> QED BY <1>1, <2>1, <2>2 DEF LeadsTo
  <1> QED BY <1>p, <1>2, <1>3 DEF LeadsTo

(* The first command is run: the rest of the queue leads there from what it *)
(* draws.                                                                   *)
LEMMA TailLeads ==
  ASSUME NEW C, NEW q \in Seq(C), q # <<>>, NEW state, NEW drawn, LeadsTo(q, state, drawn),
         NEW next, q[1] = Refresh => next = state,
         q[1] = Conn(state) => next = state,
         ~Shows(q[1]) => next = drawn
  PROVE  LeadsTo(Tail(q), state, next)
  <1>p. PICK p : p = Tail(q) OBVIOUS
  <1>1. /\ Len(p) = Len(q) - 1 /\ Len(q) \in Nat /\ Len(q) >= 1
        /\ \A i \in 1..Len(p) : p[i] = q[i + 1]
    BY <1>p
  <1>2. ASSUME \A j \in 1..Len(p) : ~Shows(p[j]) PROVE next = state
    <2>1. ASSUME NEW j \in 1..Len(q), j > 1 PROVE ~Shows(q[j])
      <3>1. j - 1 \in 1..Len(p) /\ (j - 1) + 1 = j BY <1>1, <2>1
      <3> QED BY <1>1, <1>2, <3>1
    <2>2. 1 \in 1..Len(q) BY <1>1
    <2>3. CASE Shows(q[1])
      <3>1. q[1] \in {Refresh, Conn(state)} BY <2>1, <2>2, <2>3 DEF LeadsTo
      <3> QED BY <3>1
    <2>4. CASE ~Shows(q[1])
      <3>1. \A j \in 1..Len(q) : ~Shows(q[j]) BY <1>1, <2>1, <2>4
      <3> QED BY <2>4, <3>1 DEF LeadsTo
    <2> QED BY <2>3, <2>4
  <1>3. ASSUME NEW i \in 1..Len(p), Shows(p[i]), \A j \in 1..Len(p) : j > i => ~Shows(p[j])
        PROVE  p[i] \in {Refresh, Conn(state)}
    <2>1. i + 1 \in 1..Len(q) /\ Shows(q[i + 1]) /\ p[i] = q[i + 1] BY <1>1, <1>3
    <2>2. ASSUME NEW j \in 1..Len(q), j > i + 1 PROVE ~Shows(q[j])
      <3>1. j - 1 \in 1..Len(p) /\ (j - 1) + 1 = j /\ j - 1 > i BY <1>1, <2>2
      <3> QED BY <1>1, <1>3, <3>1
    <2> QED BY <2>1, <2>2 DEF LeadsTo
  <1> QED BY <1>p, <1>2, <1>3 DEF LeadsTo

(* What a step may do to the menu besides running a command: it forgets the *)
(* hash, and draws nothing.                                                 *)
Forgets == menu' = menu \/ menu' = [menu EXCEPT !.hash = <<>>]
LEMMA HashRests ==
  ASSUME MenuInv, Forgets, UNCHANGED early, phase' = "starting" => phase = "starting"
  PROVE  MenuShape' /\ HashInv' /\ menu'.core = menu.core
  <1>1. PICK c, m, t, h : menu = [core |-> c, mode |-> m, meta |-> t, hash |-> h]
    BY DEF MenuInv, MenuShape
  <1>2. HashInv BY DEF MenuInv
  <1>3. CASE menu' = menu BY <1>1, <1>2, <1>3 DEF HashInv, MenuShape
  <1>4. CASE menu' = [menu EXCEPT !.hash = <<>>]
    <2>1. menu' = [core |-> c, mode |-> m, meta |-> t, hash |-> <<>>] BY <1>1, <1>4
    <2>2. menu'.hash = <<>> /\ menu'.core = menu.core BY <1>1, <2>1
    <2>3. MenuShape' BY <2>1 DEF MenuShape
    <2> QED BY <2>2, <2>3 DEF HashInv
  <1> QED BY <1>3, <1>4 DEF Forgets

(* Nothing is queued.                                                       *)
LEMMA MenuRests ==
  ASSUME MenuInv, Forgets, UNCHANGED <<queue, core, early, stale, dropped>>,
         phase' = "starting" <=> phase = "starting"
  PROVE  MenuInv'
  <1>1. MenuShape' /\ HashInv' /\ menu'.core = menu.core BY HashRests
  <1>2. QueueInv' BY <1>1 DEF MenuInv, QueueInv
  <1>3. Ghosts' BY DEF MenuInv, Ghosts
  <1> QED BY <1>1, <1>2, <1>3 DEF MenuInv

(* A command is queued that shows the state of the core, as it is unless it *)
(* is stale.                                                                *)
LEMMA MenuIsTold ==
  ASSUME MenuInv, TrayTypes, NEW cmd \in Commands, Shows(cmd), Dispatch(<<cmd>>), Forgets,
         UNCHANGED early, phase' = "starting" => phase = "starting", stale' \in BOOLEAN,
         ~stale' => cmd \in {Refresh, Conn(core')}
  PROVE  /\ MenuInv' /\ queue' \in Seq(Commands) /\ Len(queue') <= QueueSize
         /\ Len(queue') >= Len(queue)
  <1>1. queue \in Seq(Commands) /\ Len(queue) <= QueueSize BY DEF TrayTypes
  <1>2. dropped \in BOOLEAN /\ early \in BOOLEAN BY DEF MenuInv, Ghosts
  <1>3. /\ queue' \in Seq(Commands) /\ Len(queue') <= QueueSize /\ Len(queue') >= Len(queue)
        /\ dropped' \in BOOLEAN
        /\ ~dropped' => ~dropped /\ queue' = Append(queue, cmd)
    BY <1>1, <1>2, DispatchOne
  <1>4. MenuShape' /\ HashInv' BY HashRests
  <1>5. QueueInv'
    <2> SUFFICES ASSUME ~dropped', ~stale' PROVE LeadsTo(queue', core', menu'.core)
      BY DEF QueueInv
    <2>1. queue' = Append(queue, cmd) BY <1>3
    <2>2. LeadsTo(Append(queue, cmd), core', menu'.core) BY <1>1, AppendShows
    <2> QED BY <2>1, <2>2
  <1>6. Ghosts' BY <1>2, <1>3 DEF Ghosts
  <1> QED BY <1>3, <1>4, <1>5, <1>6 DEF MenuInv

(* A command is queued that shows something else.                           *)
LEMMA MenuIsChecked ==
  ASSUME MenuInv, TrayTypes, NEW cmd \in Commands, ~Shows(cmd), Dispatch(<<cmd>>), Forgets,
         UNCHANGED <<early, stale, core>>, phase' = "starting" <=> phase = "starting"
  PROVE  /\ MenuInv' /\ queue' \in Seq(Commands) /\ Len(queue') <= QueueSize
         /\ Len(queue') >= Len(queue)
  <1>1. queue \in Seq(Commands) /\ Len(queue) <= QueueSize BY DEF TrayTypes
  <1>2. Ghosts BY DEF MenuInv
  <1>3. /\ queue' \in Seq(Commands) /\ Len(queue') <= QueueSize /\ Len(queue') >= Len(queue)
        /\ dropped' \in BOOLEAN
        /\ ~dropped' => ~dropped /\ queue' = Append(queue, cmd)
    BY <1>1, <1>2, DispatchOne DEF Ghosts
  <1>4. MenuShape' /\ HashInv' /\ menu'.core = menu.core BY HashRests
  <1>5. QueueInv'
    <2> SUFFICES ASSUME ~dropped', ~stale', phase' # "starting"
                 PROVE  LeadsTo(queue', core', menu'.core)
      BY DEF QueueInv
    <2>1. queue' = Append(queue, cmd) /\ LeadsTo(queue, core, menu.core)
      BY <1>3 DEF MenuInv, QueueInv
    <2>2. LeadsTo(Append(queue, cmd), core, menu.core) BY <1>1, <2>1, AppendOther
    <2> QED BY <1>4, <2>1, <2>2
  <1>6. Ghosts' BY <1>2, <1>3 DEF Ghosts
  <1> QED BY <1>3, <1>4, <1>5, <1>6 DEF MenuInv

(* The goroutine runs a command; a refresh draws the profiles of the row.   *)
LEMMA RunCommandStep ==
  ASSUME MenuInv, TrayTypes, CallTypes, RunCommand
  PROVE  TrayTypes' /\ MenuInv' /\ RefreshShows
  <1>1. PICK c, m, t, h : menu = [core |-> c, mode |-> m, meta |-> t, hash |-> h]
    BY DEF MenuInv, MenuShape
  <1>c. PICK cmd : cmd = queue[1] OBVIOUS
  <1>2. queue # <<>> /\ queue \in Seq(Commands) /\ Len(queue) <= QueueSize
    BY DEF RunCommand, TrayTypes
  <1>3. Head(queue) = cmd /\ cmd \in Commands BY <1>2, <1>c
  <1>4. /\ queue' = Tail(queue) /\ queue' \in Seq(Commands) /\ Len(queue') <= QueueSize
    <2>1. queue' = Tail(queue) BY DEF RunCommand
    <2>2. Tail(queue) \in Seq(Commands) /\ Len(Tail(queue)) = Len(queue) - 1 /\ Len(queue) \in Nat
      BY <1>2
    <2>3. QueueSize \in Nat BY SessionAssumption
    <2> QED BY <1>2, <2>1, <2>2, <2>3
  <1>5. UNCHANGED <<session, process, phase, watch, tail, dropped, stale, alive, presence>>
    BY DEF RunCommand, uis
  <1>6. row' = row /\ core' = core BY <1>5 DEF session, process
  <1>7. failed' \in BOOLEAN
    <2>1. failed' = FALSE \/ failed' = failed BY DEF RunCommand
    <2> QED BY <2>1 DEF TrayTypes
  <1>8. TrayTypes' BY <1>4, <1>5, <1>7 DEF TrayTypes
  <1>9. \/ cmd = Refresh \/ \E state \in CoreStates : cmd = Conn(state)
        \/ \E mode \in Modes : cmd = Check(mode)
    BY <1>3 DEF Commands
  <1>10. Ghosts' /\ (early' <=> early \/ (cmd.kind = "refresh" /\ ~Drawn))
    BY <1>3, <1>5 DEF RunCommand, Ghosts, MenuInv
  <1>11. CASE cmd = Refresh
    <2>1. cmd.kind = "refresh" BY <1>11 DEF Refresh
    <2>2. menu' = ShowConn(ShowMode(RebuildProfileSubmenuIfNeeded(menu, row), row.mode), core)
      BY <1>3, <2>1 DEF RunCommand
    <2>h. PICK hash : hash = ProfilesHash(row) OBVIOUS
    <2>3. hash # <<>> /\ hash[1] = row.meta BY <2>h DEF ProfilesHash
    <2>4. CASE Drawn
      <3>1. \E n : /\ menu' = [core |-> core, mode |-> row.mode, meta |-> n, hash |-> hash]
                   /\ h # hash => n = row.meta
                   /\ h = hash => n = t
        <4>1. CASE h = hash
          BY <1>1, <2>2, <2>4, <2>h, <4>1 DEF ShowConn, ShowMode, RebuildProfileSubmenuIfNeeded
        <4>2. CASE h # hash
          BY <1>1, <2>2, <2>4, <2>h, <4>2 DEF ShowConn, ShowMode, RebuildProfileSubmenuIfNeeded
        <4> QED BY <4>1, <4>2
      <3>2. PICK n : /\ menu' = [core |-> core, mode |-> row.mode, meta |-> n, hash |-> hash]
                     /\ h # hash => n = row.meta
                     /\ h = hash => n = t
        BY <3>1
      <3>3. ~early => n = row.meta
        BY <1>1, <2>3, <3>2 DEF MenuInv, HashInv
      <3>4. phase # "starting" /\ (early' <=> early) BY <1>10, <2>4 DEF Drawn
      <3>5. MenuShape' BY <3>2 DEF MenuShape
      <3>6. HashInv' BY <1>5, <2>3, <3>2, <3>3, <3>4 DEF HashInv
      <3>7. menu'.core = core BY <3>2
      <3>8. menu'.meta = n BY <3>2
      <3>9. RefreshShows BY <3>3, <3>8 DEF RefreshShows
      <3>10. QueueInv'
        <4> SUFFICES ASSUME ~dropped, ~stale PROVE LeadsTo(Tail(queue), core, menu'.core)
          BY <1>4, <1>5, <1>6 DEF QueueInv
        <4>1. LeadsTo(queue, core, menu.core) BY <3>4 DEF MenuInv, QueueInv
        <4>2. Shows(queue[1]) BY <1>c, <2>1 DEF Shows
        <4> QED BY <1>2, <3>7, <4>1, <4>2, TailLeads
      <3> QED BY <1>8, <1>10, <3>5, <3>6, <3>9, <3>10 DEF MenuInv
    <2>5. CASE ~Drawn
      <3>1. \E n : menu' = [core |-> c, mode |-> m, meta |-> t, hash |-> n]
        BY <1>1, <2>2, <2>5, <2>h DEF ShowConn, ShowMode, RebuildProfileSubmenuIfNeeded
      <3>2. phase' = "starting" /\ early' BY <1>5, <1>10, <2>1, <2>5 DEF Drawn
      <3> QED BY <1>8, <1>10, <3>1, <3>2 DEF MenuInv, MenuShape, HashInv, QueueInv, RefreshShows
    <2> QED BY <2>4, <2>5
  <1>12. CASE cmd # Refresh
    <2>1. cmd.kind \in {"conn", "mode"} /\ (early' <=> early)
      BY <1>9, <1>10, <1>12 DEF Conn, Check
    <2>2. \E k, n : /\ menu' = [core |-> k, mode |-> n, meta |-> t, hash |-> h]
                    /\ ~Drawn => k = c
                    /\ (Drawn /\ cmd.kind = "conn") => k = cmd.state
                    /\ cmd.kind = "mode" => k = c
      <3>1. CASE cmd.kind = "conn"
        <4>1. menu' = ShowConn(menu, cmd.state) BY <1>3, <3>1 DEF RunCommand
        <4> QED BY <1>1, <3>1, <4>1 DEF ShowConn
      <3>2. CASE cmd.kind = "mode"
        <4>1. menu' = ShowMode(menu, cmd.mode) BY <1>3, <3>2 DEF RunCommand
        <4> QED BY <1>1, <3>2, <4>1 DEF ShowMode
      <3> QED BY <2>1, <3>1, <3>2
    <2>3. PICK k, n : /\ menu' = [core |-> k, mode |-> n, meta |-> t, hash |-> h]
                      /\ ~Drawn => k = c
                      /\ (Drawn /\ cmd.kind = "conn") => k = cmd.state
                      /\ cmd.kind = "mode" => k = c
      BY <2>2
    <2>4. MenuShape' BY <2>3 DEF MenuShape
    <2>5. HashInv'
      <3>1. menu'.hash = menu.hash /\ menu'.meta = menu.meta BY <1>1, <2>3
      <3> QED BY <1>5, <2>1, <3>1 DEF MenuInv, HashInv
    <2>6. RefreshShows BY <1>3, <1>12 DEF RefreshShows
    <2>7. QueueInv'
      <3> SUFFICES ASSUME ~dropped, ~stale, Drawn
                   PROVE  LeadsTo(Tail(queue), core, menu'.core)
        BY <1>4, <1>5, <1>6 DEF QueueInv, Drawn
      <3>1. LeadsTo(queue, core, menu.core) BY DEF MenuInv, QueueInv, Drawn
      <3>2. menu'.core = k /\ menu.core = c BY <1>1, <2>3
      <3>3. cmd = Conn(core) => k = core BY <2>3 DEF Conn
      <3>4. ~Shows(cmd) => k = c BY <2>1, <2>3 DEF Shows
      <3> QED BY <1>2, <1>12, <1>c, <3>1, <3>2, <3>3, <3>4, TailLeads
    <2> QED BY <1>8, <1>10, <2>4, <2>5, <2>6, <2>7 DEF MenuInv
  <1> QED BY <1>11, <1>12

(***************************************************************************)
(* Every step of the tray                                                   *)
(***************************************************************************)
(* The types but for those of the queue, and what a step that runs no       *)
(* command leaves true.                                                     *)
Others ==
  /\ tail \in [Actors -> {"none", "session"} \cup CoreStates]
  /\ phase \in {"starting", "up", "quit", "done"} /\ watch \in {"off", "poll"} \cup CoreStates
  /\ failed \in BOOLEAN /\ alive \subseteq Pids /\ presence \in Pids
TrayKeeps == TrayTypes' /\ MenuInv' /\ Len(queue') >= Len(queue)

(* A step that queues nothing.                                              *)
LEMMA QueueRests ==
  ASSUME MenuInv, TrayTypes, Others', Forgets, UNCHANGED <<queue, core, early, stale, dropped>>,
         phase' = "starting" <=> phase = "starting"
  PROVE  TrayKeeps
  <1>1. MenuInv' BY MenuRests
  <1>2. queue \in Seq(Commands) /\ Len(queue) <= QueueSize BY DEF TrayTypes
  <1>3. TrayTypes' BY <1>2 DEF TrayTypes, Others
  <1>4. Len(queue') >= Len(queue) BY <1>2
  <1> QED BY <1>1, <1>3, <1>4 DEF TrayKeeps

(* A step that queues a command for the state of the core.                  *)
LEMMA QueueIsTold ==
  ASSUME MenuInv, TrayTypes, Others', NEW cmd \in Commands, Shows(cmd), Dispatch(<<cmd>>), Forgets,
         UNCHANGED early, phase' = "starting" => phase = "starting", stale' \in BOOLEAN,
         ~stale' => cmd \in {Refresh, Conn(core')}
  PROVE  TrayKeeps
  <1>1. /\ MenuInv' /\ queue' \in Seq(Commands) /\ Len(queue') <= QueueSize
        /\ Len(queue') >= Len(queue)
    BY MenuIsTold
  <1>2. TrayTypes' BY <1>1 DEF TrayTypes, Others
  <1> QED BY <1>1, <1>2 DEF TrayKeeps

(* A step that queues a command for something else.                         *)
LEMMA QueueIsChecked ==
  ASSUME MenuInv, TrayTypes, Others', NEW cmd \in Commands, ~Shows(cmd), Dispatch(<<cmd>>), Forgets,
         UNCHANGED <<early, stale, core>>, phase' = "starting" <=> phase = "starting"
  PROVE  TrayKeeps
  <1>1. /\ MenuInv' /\ queue' \in Seq(Commands) /\ Len(queue') <= QueueSize
        /\ Len(queue') >= Len(queue)
    BY MenuIsChecked
  <1>2. TrayTypes' BY <1>1 DEF TrayTypes, Others
  <1> QED BY <1>1, <1>2 DEF TrayKeeps

(* The steps of the calls and of the UIs queue nothing.                     *)
LEMMA CallsRest ==
  ASSUME SessionInv, NEW a \in Actors, Begin(a) \/ Data(a) \/ TailRead(a)
  PROVE  TrayKeeps
  <1>0. MenuInv /\ TrayTypes /\ CallTypes BY DEF SessionInv, CallInv
  <1>1. CASE Begin(a)
    BY <1>0, <1>1, QueueRests DEF Begin, process, trayVars, shown, uis, TrayTypes, Others, Forgets
  <1>2. CASE Data(a)
    <2>1. UNCHANGED core
      BY <1>2 DEF Data, DataStep, Load, Save, SaveFails, ClearPid, DeletePid, GetJson, StoreJson,
                  Defaults, Unmarshal, Apply, process
    <2> QED
      BY <1>0, <1>2, <2>1, QueueRests DEF Data, trayVars, shown, uis, TrayTypes, Others, Forgets
  <1>3. CASE TailRead(a)
    <2>1. tail' = [tail EXCEPT ![a] = core] /\ UNCHANGED <<process, shown, uis>>
      BY <1>3 DEF TailRead
    <2>2. tail' \in [Actors -> {"none", "session"} \cup CoreStates]
      BY <1>0, <2>1 DEF TrayTypes, CallTypes
    <2> QED
      BY <1>0, <2>1, <2>2, QueueRests DEF process, shown, uis, TrayTypes, Others, Forgets
  <1> QED BY <1>1, <1>2, <1>3

(* Nor do those of the watcher, of the UIs and of a click on the icon.      *)
LEMMA OthersRest ==
  ASSUME SessionInv,
         WatchRead \/ ShowOrSpawn \/ Quit \/ (\E pid \in Pids : UiStarts(pid) \/ UiDies(pid))
           \/ UNCHANGED vars
  PROVE  TrayKeeps
  <1>0. MenuInv /\ TrayTypes /\ core \in CoreStates BY DEF SessionInv, CallInv, CallTypes
  <1>1. CASE WatchRead
    BY <1>0, <1>1, QueueRests DEF WatchRead, process, uis, TrayTypes, Others, Forgets
  <1>2. CASE ShowOrSpawn
    BY <1>0, <1>2, QueueRests DEF ShowOrSpawn, process, shown, TrayTypes, Others, Forgets
  <1>3. CASE Quit
    <2>1. /\ phase = "up" /\ phase' = "quit" /\ alive' \subseteq alive
          /\ UNCHANGED <<process, queue, menu, failed, watch, early, dropped, stale, tail, presence>>
      BY <1>3 DEF Quit
    <2> QED BY <1>0, <2>1, QueueRests DEF process, TrayTypes, Others, Forgets
  <1>4. ASSUME NEW pid \in Pids, UiStarts(pid) \/ UiDies(pid) PROVE TrayKeeps
    <2>1. /\ alive' \subseteq alive \cup {pid} /\ presence' \in {presence, pid}
          /\ UNCHANGED <<process, shown, tail>>
      BY <1>4 DEF UiStarts, UiDies
    <2> QED BY <1>0, <2>1, QueueRests DEF process, shown, TrayTypes, Others, Forgets
  <1>5. CASE UNCHANGED vars
    BY <1>0, <1>5, QueueRests DEF vars, process, trayVars, shown, uis, TrayTypes, Others, Forgets
  <1> QED BY <1>1, <1>2, <1>3, <1>4, <1>5

(* The core tells the tray of each change of its state.                     *)
LEMMA CoreTells ==
  ASSUME SessionInv, core' \in CoreStates, NEW a \in Actors, Core(a)
  PROVE  TrayKeeps
  <1>0. MenuInv /\ TrayTypes /\ Ghosts BY DEF SessionInv, MenuInv
  <1>1. UNCHANGED <<phase, menu, failed, watch, early, stale, tail, uis>> BY DEF Core
  <1>2. Others' /\ Forgets BY <1>0, <1>1 DEF uis, TrayTypes, Others, Forgets
  <1>3. CASE core' = core
    BY <1>0, <1>1, <1>2, <1>3, QueueRests DEF Core
  <1>4. CASE core' # core
    <2>1. PICK cmd : cmd = Conn(core') OBVIOUS
    <2>2. cmd \in Commands /\ Shows(cmd) BY <2>1, CommandsTyped
    <2>3. Dispatch(<<cmd>>) BY <1>4, <2>1 DEF Core
    <2>4. stale' \in BOOLEAN BY <1>0, <1>1 DEF Ghosts
    <2> QED BY <1>0, <1>1, <1>2, <2>1, <2>2, <2>3, <2>4, QueueIsTold
  <1> QED BY <1>3, <1>4

(* A refresh is asked for.                                                  *)
LEMMA RefreshIsAsked ==
  ASSUME SessionInv, PrefsChange \/ OnReady
  PROVE  TrayKeeps
  <1>0. MenuInv /\ TrayTypes /\ Ghosts BY DEF SessionInv, MenuInv
  <1>1. PICK cmd : cmd = Refresh OBVIOUS
  <1>2. cmd \in Commands /\ Shows(cmd) BY <1>1, CommandsTyped
  <1>3. /\ Dispatch(<<cmd>>) /\ UNCHANGED <<menu, failed, watch, tail, early, stale, uis>>
        /\ phase' = phase \/ phase' = "up"
    BY <1>1 DEF PrefsChange, OnReady
  <1>4. Others' /\ Forgets BY <1>0, <1>3 DEF uis, TrayTypes, Others, Forgets
  <1>5. stale' \in BOOLEAN BY <1>0, <1>3 DEF Ghosts
  <1>6. phase' = "starting" => phase = "starting" BY <1>3
  <1> QED BY <1>0, <1>1, <1>2, <1>3, <1>4, <1>5, <1>6, QueueIsTold

(* A state that was read is sent; it is stale if the core has gone on.      *)
LEMMA StateIsSent ==
  ASSUME SessionInv, WatchSend \/ \E a \in Actors : TailSend(a)
  PROVE  TrayKeeps
  <1>0. MenuInv /\ TrayTypes /\ Ghosts BY DEF SessionInv, MenuInv
  <1>1. ASSUME NEW state \in CoreStates, Dispatch(<<Conn(state)>>),
               stale' = (stale \/ state # core), Others', Forgets, UNCHANGED <<early, phase, core>>
        PROVE  TrayKeeps
    <2>1. PICK cmd : cmd = Conn(state) OBVIOUS
    <2>2. cmd \in Commands /\ Shows(cmd) /\ Dispatch(<<cmd>>) BY <1>1, <2>1, CommandsTyped
    <2>3. stale' \in BOOLEAN BY <1>0, <1>1 DEF Ghosts
    <2>4. ~stale' => cmd \in {Refresh, Conn(core')} BY <1>0, <1>1, <2>1 DEF Ghosts
    <2> QED BY <1>0, <1>1, <2>2, <2>3, <2>4, QueueIsTold
  <1>2. CASE WatchSend
    <2>1. PICK state : state = watch OBVIOUS
    <2>2. state \in CoreStates BY <1>0, <1>2, <2>1 DEF WatchSend, TrayTypes
    <2>3. watch' \in {"off", "poll"} BY <1>2 DEF WatchSend
    <2>4. Others' /\ Forgets /\ UNCHANGED <<early, phase, core>>
      BY <1>0, <1>2, <2>3 DEF WatchSend, process, uis, TrayTypes, Others, Forgets
    <2>5. Dispatch(<<Conn(state)>>) /\ stale' = (stale \/ state # core)
      BY <1>2, <2>1 DEF WatchSend
    <2> QED BY <1>1, <2>2, <2>4, <2>5
  <1>3. ASSUME NEW a \in Actors, TailSend(a) PROVE TrayKeeps
    <2>1. PICK state : state = tail[a] OBVIOUS
    <2>2. state \in CoreStates BY <1>0, <1>3, <2>1 DEF TailSend, TrayTypes
    <2>3. watch' = "poll" \/ watch' = watch BY <1>3 DEF TailSend
    <2>4. tail' \in [Actors -> {"none", "session"} \cup CoreStates]
      BY <1>0, <1>3 DEF TailSend, TrayTypes
    <2>5. Others' /\ Forgets /\ UNCHANGED <<early, phase, core>>
      BY <1>0, <1>3, <2>3, <2>4 DEF TailSend, process, uis, TrayTypes, Others, Forgets
    <2>6. Dispatch(<<Conn(state)>>) /\ stale' = (stale \/ state # core)
      BY <1>3, <2>1 DEF TailSend
    <2> QED BY <1>1, <2>2, <2>5, <2>6
  <1> QED BY <1>2, <1>3

(* A call is answered: the tray draws what it may have changed.             *)
LEMMA ReturnTells ==
  ASSUME SessionInv, NEW a \in Actors, Return(a)
  PROVE  TrayKeeps
  <1>0. MenuInv /\ TrayTypes /\ Ghosts /\ CallInv BY DEF SessionInv, MenuInv
  <1>c. PICK c : c = call[a] OBVIOUS
  <1>1. UNCHANGED <<core, watch, early, stale, uis>> BY DEF Return, process
  <1>2. \/ phase' = phase
        \/ phase = "quit" /\ phase' = "done"
    BY DEF Return
  <1>3. Others'
    <2>1. PICK t : t \in {"session", "none"} /\ tail' = [tail EXCEPT ![a] = t]
      <3>1. \/ tail' = [tail EXCEPT ![a] = "session"]
            \/ tail' = [tail EXCEPT ![a] = "none"]
        BY DEF Return
      <3> QED BY <3>1
    <2>2. tail' \in [Actors -> {"none", "session"} \cup CoreStates]
      BY <1>0, <2>1 DEF TrayTypes
    <2>3. failed' \in BOOLEAN
      <3>1. failed' = (call[a].err # "") \/ failed' = failed BY DEF Return
      <3> QED BY <1>0, <3>1 DEF TrayTypes
    <2> QED BY <1>0, <1>1, <1>2, <2>2, <2>3 DEF uis, TrayTypes, Others
  <1>4. Forgets BY DEF Return, Forgets
  <1>5. stale' \in BOOLEAN BY <1>0, <1>1 DEF Ghosts
  <1>6. (phase' = "starting" <=> phase = "starting") BY <1>2
  <1>7. \/ Dispatch(<<Refresh>>)
        \/ Dispatch(<<Check(c.req.mode)>>) /\ c.req.op = "mode"
        \/ Dispatch(<<>>)
    BY <1>c DEF Return
  <1>8. CASE Dispatch(<<Refresh>>)
    <2>1. PICK cmd : cmd = Refresh OBVIOUS
    <2>2. cmd \in Commands /\ Shows(cmd) BY <2>1, CommandsTyped
    <2> QED BY <1>0, <1>1, <1>3, <1>4, <1>5, <1>6, <1>8, <2>1, <2>2, QueueIsTold
  <1>9. CASE Dispatch(<<Check(c.req.mode)>>) /\ c.req.op = "mode"
    <2>1. PICK cmd : cmd = Check(c.req.mode) OBVIOUS
    <2>2. c.req \in UiRequests \cup {NoReq} BY <1>0, <1>c, CallFacts
    <2>3. c.req.mode \in Modes BY <1>9, <2>2, RequestTyped
    <2>4. cmd \in Commands /\ ~Shows(cmd) BY <2>1, <2>3, CommandsTyped
    <2> QED BY <1>0, <1>1, <1>3, <1>4, <1>6, <1>9, <2>1, <2>4, QueueIsChecked
  <1>10. CASE Dispatch(<<>>)
    <2>1. queue \in Seq(Commands) /\ Len(queue) <= QueueSize BY <1>0 DEF TrayTypes
    <2>2. UNCHANGED queue /\ (dropped' <=> dropped) /\ dropped' \in BOOLEAN
      BY <1>0, <1>10, <2>1, DispatchNone DEF Ghosts
    <2>3. dropped' = dropped BY <1>0, <2>2 DEF Ghosts
    <2> QED BY <1>0, <1>1, <1>3, <1>4, <1>6, <2>2, <2>3, QueueRests
  <1> QED BY <1>7, <1>8, <1>9, <1>10

(* The process dies, and another starts with nothing drawn.                 *)
LEMMA HostDiesStep ==
  ASSUME SessionInv, HostDies
  PROVE  TrayTypes' /\ MenuInv' /\ phase' = "starting"
  <1>0. TrayTypes BY DEF SessionInv
  <1>1. QueueSize \in Nat BY SessionAssumption
  <1>2. queue' = <<>> /\ queue' \in Seq(Commands) /\ Len(queue') <= QueueSize
    <2>1. queue' = <<>> BY DEF HostDies
    <2> QED BY <1>1, <2>1
  <1>3. /\ phase' = "starting" /\ failed' = FALSE /\ watch' = "off" /\ UNCHANGED uis
        /\ menu' = Blank /\ tail' = [a \in Actors |-> "none"]
        /\ early' = FALSE /\ dropped' = FALSE /\ stale' = FALSE
    BY DEF HostDies
  <1>4. TrayTypes' BY <1>0, <1>2, <1>3 DEF TrayTypes, uis
  <1>5. MenuInv' BY <1>3 DEF MenuInv, MenuShape, Ghosts, QueueInv, HashInv, Blank
  <1> QED BY <1>3, <1>4, <1>5

(* The first state of the tray.                                             *)
LEMMA TrayStarts ==
  ASSUME Init
  PROVE  TrayTypes /\ MenuInv
  <1>1. QueueSize \in Nat BY SessionAssumption
  <1>2. queue \in Seq(Commands) /\ Len(queue) <= QueueSize
    <2>1. queue = <<>> BY DEF Init, TrayInit
    <2> QED BY <1>1, <2>1
  <1>3. 1 \in Pids BY SessionAssumption
  <1>4. /\ phase = "starting" /\ failed = FALSE /\ watch = "off"
        /\ menu = Blank /\ tail = [a \in Actors |-> "none"]
        /\ alive \in {{}, {1}} /\ presence = 1
        /\ early = FALSE /\ dropped = FALSE /\ stale = FALSE
    BY DEF Init, TrayInit
  <1>5. TrayTypes BY <1>2, <1>3, <1>4 DEF TrayTypes
  <1>6. MenuInv BY <1>4 DEF MenuInv, MenuShape, Ghosts, QueueInv, HashInv, Blank
  <1> QED BY <1>5, <1>6

(***************************************************************************)
(* What the session and the tray promise                                    *)
(***************************************************************************)
(* A step runs a command, dies or keeps the queue, and keeps the invariant. *)
LEMMA TrayNext ==
  ASSUME SessionInv, CallInv', [Next]_vars
  PROVE  TrayTypes' /\ MenuInv' /\ RefreshShows
  <1>0. /\ TrayTypes /\ MenuInv /\ CallTypes /\ core' \in CoreStates
        /\ queue \in Seq(Commands)
    BY DEF SessionInv, CallInv, CallTypes, TrayTypes
  <1>1. CASE RunCommand BY <1>0, <1>1, RunCommandStep
  <1>2. CASE HostDies
    <2>1. TrayTypes' /\ MenuInv' /\ phase' = "starting" BY <1>2, HostDiesStep
    <2> QED BY <2>1 DEF RefreshShows
  <1>3. CASE TrayKeeps
    <2>1. queue # <<>> => queue' # Tail(queue)
      <3> SUFFICES ASSUME queue # <<>>, queue' = Tail(queue) PROVE FALSE
        OBVIOUS
      <3>1. Len(Tail(queue)) = Len(queue) - 1 /\ Len(queue) \in Nat BY <1>0
      <3>2. Len(queue') >= Len(queue) BY <1>3 DEF TrayKeeps
      <3> QED BY <3>1, <3>2
    <2> QED BY <1>3, <2>1 DEF TrayKeeps, RefreshShows
  <1>4. RunCommand \/ HostDies \/ TrayKeeps
    BY <1>0, CallsRest, OthersRest, CoreTells, RefreshIsAsked, StateIsSent, ReturnTells DEF Next
  <1> QED BY <1>1, <1>2, <1>3, <1>4

(* The invariant holds at first and after every step.                       *)
LEMMA SessionStarts ==
  ASSUME Init PROVE SessionInv
  BY CallInit, TrayStarts DEF SessionInv

(* Every step keeps it, and a refresh that it runs draws the profiles.      *)
LEMMA SessionNext ==
  ASSUME SessionInv, [Next]_vars
  PROVE  SessionInv' /\ RefreshShows
  <1>1. CallInv' BY CallNext DEF SessionInv
  <1> QED BY <1>1, TrayNext DEF SessionInv

(* At rest nothing is queued, so what is drawn is the state of the core.    *)
LEMMA RestIsShown ==
  ASSUME SessionInv PROVE MenuFollowsCore
  <1> SUFFICES ASSUME AtRest, ~dropped, ~stale PROVE menu.core = core
    BY DEF MenuFollowsCore
  <1>1. queue = <<>> /\ phase = "up" BY DEF AtRest
  <1>2. LeadsTo(queue, core, menu.core) BY <1>1 DEF SessionInv, MenuInv, QueueInv
  <1>3. \A j \in 1..Len(queue) : ~Shows(queue[j]) BY <1>1
  <1> QED BY <1>2, <1>3 DEF LeadsTo

(* The types are those of the invariant.                                    *)
LEMMA TypesHold ==
  ASSUME SessionInv PROVE SnTypeOK
  BY DEF SessionInv, CallInv, CallTypes, TrayTypes, SnTypeOK

(* A call that ends alone is one that knows what it began with.             *)
LEMMA DoneKnows ==
  ASSUME SessionInv, NEW a \in Actors, NEW c, c = call[a], c.pc = "done", c.alone
  PROVE  /\ c.req \in UiRequests \cup {NoReq} /\ Begun(c).row \in RowSets
         /\ row = RowAfter(c) /\ settings = DocAfter(c) /\ Connecting(c) /\ Switching(c)
  <1>1. Busy(a) BY DEF Busy, At
  <1>2. /\ c.req \in UiRequests \cup {NoReq} /\ Begun(c).row \in RowSets /\ Knows(c)
    BY <1>1, CallFacts DEF SessionInv
  <1>3. RowNow(c) = RowAfter(c) BY DEF RowNow
  <1>4. SettingsNow(c) = DocAfter(c) BY DEF SettingsNow, Early
  <1> QED BY <1>2, <1>3, <1>4 DEF Knows

(* So the rows and the document are what its request makes of them.         *)
LEMMA CallsAreAtomic ==
  ASSUME SessionInv PROVE AloneIsAtomic
  BY DoneKnows DEF AloneIsAtomic, At

(* And the core runs what the session named.                                *)
LEMMA CallsStartWhatIsAsked ==
  ASSUME SessionInv PROVE StartsWhatWasAsked
  <1> SUFFICES ASSUME NEW a \in Actors, NEW c, c = call[a], c.pc = "done", c.alone, c.err = ""
               PROVE  /\ c.req.op \in {"connect", "reconnect"} =>
                           /\ core = "STARTED" /\ Connectable(Begun(c).row)
                           /\ run.target = ResolveStartTarget(Begun(c).row)
                           /\ run.options = Asked(c)
                      /\ (c.req.op = "mode" /\ settings.kind = "ok") =>
                           options = settings /\ options.flags = row.mode
    BY DEF StartsWhatWasAsked, At, Begun, Asked
  <1>1. /\ c.req \in UiRequests \cup {NoReq} /\ Begun(c).row \in RowSets
        /\ row = RowAfter(c) /\ Connecting(c) /\ Switching(c)
    BY DoneKnows
  <1>2. ASSUME c.req.op \in {"connect", "reconnect"}
        PROVE  /\ core = "STARTED" /\ Connectable(Begun(c).row)
               /\ run.target = ResolveStartTarget(Begun(c).row)
               /\ run.options = Asked(c)
    <2>1. /\ Connectable(Begun(c).row) /\ c.target = ResolveStartTarget(Begun(c).row)
          /\ run = [target |-> c.target, options |-> Asked(c)] /\ core = "STARTED"
      BY <1>1, <1>2 DEF Connecting, Connects, Succeeded
    <2>2. run.target = c.target /\ run.options = Asked(c) BY <2>1
    <2> QED BY <2>1, <2>2
  <1>3. ASSUME c.req.op = "mode", settings.kind = "ok"
        PROVE  options = settings /\ options.flags = row.mode
    <2>1. options = settings /\ options.flags = c.req.mode BY <1>1, <1>3 DEF Switching
    <2>2. row = PatchMode(Begun(c).row, c.req.mode) BY <1>1, <1>3 DEF RowAfter, Begun
    <2>3. row.mode = c.req.mode BY <1>1, <2>2 DEF PatchMode, RowSets
    <2> QED BY <2>1, <2>3
  <1> QED BY <1>2, <1>3

(* A save never writes an empty pid, and the menu, which clears pids too,   *)
(* has ended the UI that it compares the row with.                          *)
LEMMA PidIsKept ==
  ASSUME SessionInv, [Next]_vars, row.pid # 0, row'.pid = 0, call["menu"].alone, At("ui", "idle")
  PROVE  row.pid \notin alive
  <1>0. CallInv /\ row \in RowSets /\ TrayCallInv BY DEF SessionInv, CallInv, CallTypes
  <1>1. row' # row OBVIOUS
  <1>2. PICK a \in Actors : Save(a) \/ ClearPid(a) \/ DeletePid(a)
    <2>1. ASSUME NEW a \in Actors, DataStep(a), ~(Save(a) \/ ClearPid(a) \/ DeletePid(a))
          PROVE  UNCHANGED row
      BY <2>1 DEF DataStep, Load, SaveFails, GetJson, StoreJson, Defaults, Unmarshal, Apply, session
    <2>2. ASSUME NEW a \in Actors, Core(a) PROVE UNCHANGED row
      BY <2>2 DEF Core, CoreStep, Resolve, StopCore, StartCore, CoreUp, CoreFails, session
    <2>3. ASSUME NEW a \in Actors, Begin(a) \/ Return(a) \/ TailRead(a) \/ TailSend(a)
          PROVE  UNCHANGED row
      BY <2>3 DEF Begin, Return, TailRead, TailSend, session
    <2>4. ASSUME \/ RunCommand \/ PrefsChange \/ OnReady \/ WatchRead \/ WatchSend
                 \/ ShowOrSpawn \/ Quit \/ HostDies \/ UNCHANGED vars
          PROVE  UNCHANGED row
      BY <2>4 DEF RunCommand, PrefsChange, OnReady, WatchRead, WatchSend, ShowOrSpawn, Quit,
                  HostDies, Crash, session, vars
    <2>5. ASSUME NEW pid \in Pids, UiStarts(pid) \/ UiDies(pid) PROVE UNCHANGED row
      BY <2>5 DEF UiStarts, UiDies, session
    <2> QED BY <1>1, <2>1, <2>2, <2>3, <2>4, <2>5 DEF Next, Data
  <1>c. PICK c : c = call[a] OBVIOUS
  <1>3. /\ c.req \in UiRequests \cup {NoReq} /\ Placed(c) /\ c.st \in RowSets /\ c.i \in 1..Groups
        /\ Busy(a) => Knows(c)
    BY <1>0, <1>c, CallFacts
  <1>4. ASSUME Save(a) PROVE FALSE
    <2>1. row' = Write(c.st, c.i) BY <1>4, <1>c DEF Save
    <2>2. Write(c.st, c.i).pid # 0
      <3>1. CASE c.i = 1 BY <1>0, <3>1 DEF Write, RowSets
      <3>2. CASE c.i = 2 BY <1>0, <3>2 DEF Write, RowSets
      <3>3. CASE c.i \notin {1, 2}
        <4>1. Write(c.st, c.i).pid = (IF Skips("pid", c.st) THEN row.pid ELSE c.st.pid)
          BY <1>0, <3>3 DEF Write, RowSets
        <4> QED BY <4>1 DEF Skips
      <3> QED BY <3>1, <3>2, <3>3
    <2> QED BY <2>1, <2>2
  <1>5. ASSUME ClearPid(a) \/ DeletePid(a)
        PROVE  a = "menu" /\ c.req.op = "clearpid" /\ c.req.pid \in Pids \ alive
    <2>1. c.pc \in {"clear", "delete"} BY <1>5, <1>c DEF ClearPid, DeletePid, At
    <2>2. c.req.op \in {"sync", "clearpid"}
      <3>1. c.pc \in Reached(c.req) BY <1>3 DEF Placed
      <3> QED BY <2>1, <3>1 DEF Reached
    <2>3. a # "ui" BY <2>1, <1>c DEF At
    <2>4. a # "item" BY <1>0, <1>c, <2>2 DEF TrayCallInv
    <2>5. a = "menu" BY <2>3, <2>4, SessionAssumption
    <2> QED BY <1>0, <1>c, <2>2, <2>5 DEF TrayCallInv
  <1>6. ASSUME ClearPid(a) PROVE FALSE
    <2>1. c.req.op = "clearpid" /\ c.req.pid \in Pids BY <1>5, <1>6
    <2>2. Pids \subseteq Nat \ {0} BY SessionAssumption
    <2>n. \A p \in Pids : p > 0 BY <2>2
    <2>3. c.req.pid > 0 BY <2>1, <2>n
    <2>4. Expected(c.req) > 0 BY <2>1, <2>3 DEF Expected
    <2> QED BY <1>1, <1>6, <1>c, <2>4 DEF ClearPid
  <1>7. ASSUME DeletePid(a) PROVE row.pid \notin alive
    <2>1. a = "menu" /\ c.req.op = "clearpid" /\ c.req.pid \in Pids \ alive BY <1>5, <1>7
    <2>2. c.pc = "delete" /\ Busy(a) BY <1>7, <1>c, <2>1 DEF DeletePid, Busy, At
    <2>3. row.pid = Expected(c.req) BY <1>3, <2>2 DEF Knows, HasRead
    <2> QED BY <2>1, <2>3 DEF Expected
  <1> QED BY <1>2, <1>4, <1>6, <1>7

(***************************************************************************)
(* The theorems                                                             *)
(***************************************************************************)

(* The invariant of the session and the tray: a call that is alone knows    *)
(* what it began with, and the queue leads to the state of the core.        *)
THEOREM SessionInvariant == Spec => []SessionInv
  <1>1. Init => SessionInv BY SessionStarts
  <1>2. SessionInv /\ [Next]_vars => SessionInv' BY SessionNext
  <1> QED BY <1>1, <1>2, PTL DEF Spec

(* A connect or reconnect that ran alone started what the session names,    *)
(* with the stored settings, whatever was cached (session_connect.go and    *)
(* resolve.go); a change of the mode leaves its flags in the options.       *)
THEOREM CallsStartWhatWasAsked == Spec => []StartsWhatWasAsked
  <1>1. SessionInv => StartsWhatWasAsked BY CallsStartWhatIsAsked
  <1> QED BY <1>1, SessionInvariant, PTL

(* A call that ran alone changed the rows that it is about and no other,    *)
(* although it loads and saves them all, and the tray clears the pid of no  *)
(* UI that runs (state.go, ui_control.go).                                  *)
THEOREM SessionIsAlwaysKept == Spec => SessionIsKept
  <1>1. SessionInv => SnTypeOK /\ AloneIsAtomic BY TypesHold, CallsAreAtomic
  <1>2. SessionInv /\ [Next]_vars =>
          [(row.pid # 0 /\ row'.pid = 0 /\ call["menu"].alone /\ At("ui", "idle")) =>
             row.pid \notin alive]_vars
    BY PidIsKept
  <1> QED BY <1>1, <1>2, SessionInvariant, PTL DEF Spec, SessionIsKept, PidOfLiveUiKept

(* At rest the toggle of the menu is for the state of the core, and a       *)
(* refresh draws the profiles of the row, whoever changed them and however  *)
(* many commands were queued (dispatch.go, tray.go, status.go).             *)
THEOREM MenuIsAlwaysTrue == Spec => MenuIsTrue
  <1>1. SessionInv => MenuFollowsCore BY RestIsShown
  <1>2. SessionInv /\ [Next]_vars => RefreshShows BY SessionNext
  <1> QED BY <1>1, <1>2, SessionInvariant, PTL DEF Spec, MenuIsTrue
=============================================================================
