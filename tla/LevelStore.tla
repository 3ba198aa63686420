----------------------------- MODULE LevelStore -----------------------------
(***************************************************************************)
(* The LevelDB tables of v2/db (hiddify_db.go): processes that open one      *)
(* table, recover, quarantine or rewrite its directory, and read and write   *)
(* its rows.  A directory keeps its identity when it is renamed.             *)
(*                                                                           *)
(* The mutex dbMu lets one goroutine of a process be inside getDB or         *)
(* CloseAll; a row is written after it was released.  The locks of           *)
(* directories are those of the operating system, gone with their holder.    *)
(* Renames follow POSIX: a directory that a process holds can be renamed.    *)
(***************************************************************************)
EXTENDS Integers, FiniteSets

CONSTANTS
  Procs, Keys,
  Dirs,       \* identities of directories, which bound how many are made
  Attempts,   \* openRetryAttempts
  MaxCalls,   \* bound of calls
  MaxCrashes, \* bound of crashes
  MaxFaults,  \* bound of failed opens, renames and writes
  MaxBloats   \* bound of rewrites

NoDir  == 0
Nobody == "nobody"
ASSUME StoreAssumption ==
  /\ Dirs \subseteq Nat \ {0} /\ 1 \in Dirs /\ Nobody \notin Procs
  /\ Attempts \in Nat \ {0} /\ {MaxCalls, MaxCrashes, MaxFaults, MaxBloats} \subseteq Nat

VARIABLES
  live, bak,   \* the directories named x.db and x.db.bloated-bak
  corrupt,     \* those named x.db.corrupt-<time>
  rows,        \* the keys in each directory
  damage,      \* why a directory does not open: "none", "journal", "lost"
  bloated,     \* the directories with more than 64 files
  holder,      \* who holds the lock file of a directory
  cached,      \* dbMap: the directory of a process's handle
  closed,      \* that handle is closed
  call,        \* the call in progress of a process
  acked,       \* ghost: the keys that the answered calls left in the table
  destroyed,   \* ghost: the keys that a power loss destroyed, and those of a backup that
               \* an earlier rewrite left and the next one removed
  stolen,      \* ghost: the directories that lost their name while another held them
  intruded,    \* ghost: a process opened the table while another had it half replaced, or
               \* went on, on an error of its own, to replace one that is held or replaced
  calls, crashes, faults, bloats, rewrites \* counters
dirs == <<live, bak, corrupt, rows, damage, bloated, holder>>
ghosts == <<acked, destroyed, stolen, intruded>>
bounds == <<calls, crashes, faults, bloats, rewrites>>
vars == <<dirs, cached, closed, call, ghosts, bounds>>

Idle == [pc |-> "idle", op |-> "none", key |-> Nobody, tries |-> 0, ret |-> "none",
         dir |-> NoDir, aside |-> NoDir, closed |-> FALSE, pairs |-> {}]
Init ==
  /\ live \in {NoDir, 1} /\ bak = NoDir /\ corrupt = {}
  /\ rows = [d \in Dirs |-> IF d = live THEN Keys ELSE {}]
  /\ damage = [d \in Dirs |-> "none"] /\ bloated = {}
  /\ holder = [d \in Dirs |-> Nobody]
  /\ cached = [p \in Procs |-> NoDir] /\ closed = [p \in Procs |-> FALSE]
  /\ call = [p \in Procs |-> Idle]
  /\ acked = (IF live = NoDir THEN {} ELSE Keys) /\ destroyed = {} /\ stolen = {}
  /\ intruded = FALSE
  /\ calls = 0 /\ crashes = 0 /\ faults = 0 /\ bloats = 0 /\ rewrites = 0

(***************************************************************************)
(* Helpers                                                                  *)
(***************************************************************************)
At(p, where) == call[p].pc = where
To(p, where) == call' = [call EXCEPT ![p].pc = where]
Named(d) == d \in {live, bak} \cup corrupt
Unused == {d \in Dirs : ~Named(d) /\ holder[d] = Nobody /\ \A p \in Procs :
                          d \notin {cached[p], call[p].dir}}
(* A directory whose name p takes away.                                     *)
Takes(p, d) == IF d # NoDir /\ holder[d] \notin {Nobody, p} THEN {d} ELSE {}
Release(d) == IF d = NoDir THEN holder ELSE [holder EXCEPT ![d] = Nobody]

(* getDB caches the handle of d and returns it to its caller.               *)
Serve(p, d, shut) ==
  /\ cached' = [cached EXCEPT ![p] = d] /\ closed' = [closed EXCEPT ![p] = shut]
  /\ call' = [call EXCEPT ![p].pc = "use", ![p].dir = d, ![p].closed = shut]
Return(p) == call' = [call EXCEPT ![p] = Idle]

(* openGoLevelDB starts over, and its result goes to ret.                   *)
StartOpen(p, ret) == call' = [call EXCEPT ![p].pc = "open", ![p].tries = 0, ![p].ret = ret]

(* It returns a handle: the first open goes on to the count of files, the   *)
(* one after the rename to the copy; a handle that comes with an error is   *)
(* dropped by getDB, which keeps the old one, closed by the rewrite.        *)
Opened(p, d) ==
  CASE call[p].ret = "get" ->
         /\ call' = [call EXCEPT ![p].pc = "count", ![p].dir = d]
         /\ UNCHANGED <<cached, closed>>
    [] call[p].ret = "fresh" ->
         /\ call' = [call EXCEPT ![p].pc = "copy", ![p].dir = d]
         /\ UNCHANGED <<cached, closed>>
    [] OTHER -> Serve(p, call[p].dir, TRUE)
NotOpened(p) ==
  CASE call[p].ret = "get" -> Return(p) /\ UNCHANGED <<cached, closed>>
    [] call[p].ret = "fresh" -> To(p, "clear") /\ UNCHANGED <<cached, closed>>
    [] OTHER -> Serve(p, call[p].dir, TRUE)

(* p replaces the directory, or is about to: it does not hold its lock.     *)
Replacing(p) ==
  \/ call[p].pc \in {"recover", "reopen", "quarantine", "after", "rmbak", "move", "copy", "clear", "restore"}
  \/ call[p].ret \in {"fresh", "moved", "restored"}
Intrudes(p) == intruded' = (intruded \/ \E q \in Procs \ {p} : Replacing(q))

(***************************************************************************)
(* openGoLevelDB                                                            *)
(***************************************************************************)
(* The library creates a missing directory, and locks it.                   *)
Creates(p) ==
  LET d == CHOOSE e \in Unused : TRUE
  IN
    /\ live = NoDir /\ Unused # {} /\ live' = d
    /\ rows' = [rows EXCEPT ![d] = {}] /\ damage' = [damage EXCEPT ![d] = "none"]
    /\ bloated' = bloated \ {d} /\ holder' = [holder EXCEPT ![d] = p]
    /\ Opened(p, d)
    /\ Intrudes(p) /\ UNCHANGED <<bak, corrupt>>
Locks(p) ==
  /\ live # NoDir /\ holder[live] = Nobody /\ damage[live] = "none"
  /\ holder' = [holder EXCEPT ![live] = p]
  /\ Opened(p, live) /\ Intrudes(p)
  /\ UNCHANGED <<live, bak, corrupt, rows, damage, bloated>>
Busy   == live # NoDir /\ holder[live] # Nobody
Broken == live # NoDir /\ holder[live] = Nobody /\ damage[live] # "none"

OpenSucceeds(p) ==
  /\ At(p, "open")
  /\ Creates(p) \/ Locks(p)
  /\ UNCHANGED <<acked, destroyed, stolen, bounds>>

(* Another live process: the loop breaks, and the conflict is surfaced.     *)
IsLockConflict == Busy
OpenConflict(p) ==
  /\ At(p, "open") /\ IsLockConflict
  /\ NotOpened(p)
  /\ UNCHANGED <<dirs, ghosts, bounds>>

OpenFails(p) ==
  /\ At(p, "open") /\ (Broken \/ (Busy /\ ~IsLockConflict))
  /\ IF call[p].tries + 1 < Attempts
     THEN call' = [call EXCEPT ![p].tries = @ + 1]
     ELSE To(p, "recover")
  /\ UNCHANGED <<dirs, cached, closed, ghosts, bounds>>

(* Any other error (no descriptor, no space, no permission) that lasts for  *)
(* all attempts ends there too, whatever the state of the directory.        *)
OpenKeepsFailing(p) ==
  /\ At(p, "open") /\ faults < MaxFaults
  /\ faults' = faults + 1
  /\ call' = [call EXCEPT ![p].pc = "recover", ![p].tries = Attempts]
  /\ intruded' = (intruded \/ Busy \/ \E q \in Procs \ {p} : Replacing(q))
  /\ UNCHANGED <<dirs, cached, closed, acked, destroyed, stolen, calls, crashes, bloats, rewrites>>

(* recoverGoLevelDB: a lost directory is not recovered, and neither is one  *)
(* that a process holds by now; an error of the process may last, or not.   *)
Recover(p) ==
  /\ At(p, "recover")
  /\ live # NoDir => holder[live] = Nobody /\ damage[live] # "lost"
  /\ To(p, "reopen")
  /\ damage' = [d \in Dirs |-> IF d = live THEN "none" ELSE damage[d]]
  /\ UNCHANGED <<live, bak, corrupt, rows, bloated, holder, cached, closed, ghosts, bounds>>
RecoverFails(p) ==
  /\ At(p, "recover")
  /\ \/ live # NoDir /\ (holder[live] # Nobody \/ damage[live] = "lost")
     \/ call[p].tries = Attempts
  /\ To(p, "quarantine")
  /\ UNCHANGED <<dirs, cached, closed, ghosts, bounds>>
Reopen(p) ==
  /\ At(p, "reopen")
  /\ \/ Creates(p) \/ Locks(p)
     \/ (Busy \/ Broken) /\ To(p, "quarantine") /\ UNCHANGED <<dirs, cached, closed, intruded>>
  /\ UNCHANGED <<acked, destroyed, stolen, bounds>>

(* quarantineAndReopen                                                      *)
Quarantine(p) ==
  /\ At(p, "quarantine") /\ live # NoDir
  /\ corrupt' = corrupt \cup {live} /\ live' = NoDir
  /\ stolen' = stolen \cup Takes(p, live)
  /\ call' = [call EXCEPT ![p].pc = "after", ![p].aside = live]
  /\ UNCHANGED <<bak, rows, damage, bloated, holder, cached, closed, acked, destroyed, intruded, bounds>>
QuarantineFails(p) ==
  /\ At(p, "quarantine")
  /\ \/ live = NoDir /\ UNCHANGED faults
     \/ faults < MaxFaults /\ faults' = faults + 1
  /\ NotOpened(p)
  /\ UNCHANGED <<dirs, ghosts, calls, crashes, bloats, rewrites>>
OpenAfterQuarantine(p) ==
  /\ At(p, "after")
  /\ Creates(p) \/ Locks(p)
  /\ UNCHANGED <<acked, destroyed, stolen, bounds>>
(* The rename back is undone by a directory that another process made.      *)
RenameBack(p) ==
  /\ At(p, "after")
  /\ IF live = NoDir
     THEN /\ faults < MaxFaults /\ faults' = faults + 1
          /\ live' = call[p].aside /\ corrupt' = corrupt \ {call[p].aside}
     ELSE (Busy \/ Broken) /\ UNCHANGED <<live, corrupt, faults>>
  /\ NotOpened(p)
  /\ UNCHANGED <<bak, rows, damage, bloated, holder, ghosts, calls, crashes, bloats, rewrites>>

(***************************************************************************)
(* getDB after the open, and rewriteBloatedDB                               *)
(***************************************************************************)
Count(p) ==
  /\ At(p, "count") /\ call[p].dir \notin bloated
  /\ Serve(p, call[p].dir, FALSE)
  /\ UNCHANGED <<dirs, ghosts, bounds>>

(* All pairs are read and the handle is closed, which gives up the lock.    *)
ReadPairs(p) ==
  /\ At(p, "count") /\ call[p].dir \in bloated
  /\ call' = [call EXCEPT ![p].pc = "rmbak", ![p].pairs = rows[call[p].dir]]
  /\ holder' = Release(call[p].dir)
  /\ rewrites' = rewrites + 1
  /\ UNCHANGED <<live, bak, corrupt, rows, damage, bloated, cached, closed, ghosts,
                 calls, crashes, faults, bloats>>
(* A backup that is there is of a rewrite that did not end: what it alone   *)
(* holds goes with it.                                                      *)
RemoveBak(p) ==
  /\ At(p, "rmbak")
  /\ bak' = NoDir /\ stolen' = stolen \cup Takes(p, bak)
  /\ destroyed' = destroyed \cup (IF bak = NoDir THEN {} ELSE rows[bak] \ call[p].pairs)
  /\ To(p, "move")
  /\ UNCHANGED <<live, corrupt, rows, damage, bloated, holder, cached, closed, acked, intruded, bounds>>
BugMoveAside(p) ==
  /\ At(p, "move") /\ live # NoDir
  /\ live' = NoDir /\ stolen' = stolen \cup Takes(p, live)
  /\ StartOpen(p, "fresh")
  /\ UNCHANGED <<bak, corrupt, rows, damage, bloated, holder, cached, closed, acked, destroyed, intruded, bounds>>
MoveAside(p) ==
  /\ At(p, "move") /\ live # NoDir /\ bak = NoDir
  /\ bak' = live /\ live' = NoDir /\ stolen' = stolen \cup Takes(p, live)
  /\ StartOpen(p, "fresh")
  /\ UNCHANGED <<corrupt, rows, damage, bloated, holder, cached, closed, acked, destroyed, intruded, bounds>>
MoveFails(p) ==
  /\ At(p, "move")
  /\ \/ (live = NoDir \/ bak # NoDir) /\ UNCHANGED faults
     \/ faults < MaxFaults /\ faults' = faults + 1
  /\ StartOpen(p, "moved")
  /\ UNCHANGED <<dirs, cached, closed, ghosts, calls, crashes, bloats, rewrites>>

(* The pairs are set one by one; a failed write closes the fresh directory. *)
CopyPair(p) ==
  /\ At(p, "copy")
  /\ \E k \in call[p].pairs :
       /\ rows' = [rows EXCEPT ![call[p].dir] = @ \cup {k}]
       /\ call' = [call EXCEPT ![p].pairs = @ \ {k}]
  /\ UNCHANGED <<live, bak, corrupt, damage, bloated, holder, cached, closed, ghosts, bounds>>
CopyFails(p) ==
  /\ At(p, "copy") /\ call[p].pairs # {} /\ faults < MaxFaults
  /\ faults' = faults + 1
  /\ holder' = Release(call[p].dir)
  /\ call' = [call EXCEPT ![p].pc = "clear", ![p].ret = "failed"]
  /\ UNCHANGED <<live, bak, corrupt, rows, damage, bloated, cached, closed, ghosts,
                 calls, crashes, bloats, rewrites>>
CopyDone(p) ==
  /\ At(p, "copy") /\ call[p].pairs = {}
  /\ bak' = NoDir /\ stolen' = stolen \cup Takes(p, bak)
  /\ Serve(p, call[p].dir, FALSE)
  /\ UNCHANGED <<live, corrupt, rows, damage, bloated, holder, acked, destroyed, intruded, bounds>>

(* The rewrite failed: the directory is removed, whoever made it, and the   *)
(* old one gets its name back; the error of that rename is not looked at.   *)
Clear(p) ==
  /\ At(p, "clear")
  /\ live' = NoDir /\ stolen' = stolen \cup Takes(p, live)
  /\ To(p, "restore")
  /\ UNCHANGED <<bak, corrupt, rows, damage, bloated, holder, cached, closed, acked, destroyed, intruded, bounds>>
Restore(p) ==
  /\ At(p, "restore")
  /\ \/ live = NoDir /\ bak # NoDir /\ live' = bak /\ bak' = NoDir /\ UNCHANGED faults
     \/ (live # NoDir \/ bak = NoDir) /\ UNCHANGED <<live, bak, faults>>
     \/ faults < MaxFaults /\ faults' = faults + 1 /\ UNCHANGED <<live, bak>>
  /\ IF call[p].ret = "fresh"
     THEN StartOpen(p, "restored") /\ UNCHANGED <<cached, closed>>
     ELSE Serve(p, call[p].dir, TRUE)
  /\ UNCHANGED <<corrupt, rows, damage, bloated, holder, ghosts, calls, crashes, bloats, rewrites>>

(***************************************************************************)
(* The operations of a table                                                *)
(***************************************************************************)
Begin(p, op, k) ==
  /\ At(p, "idle") /\ calls < MaxCalls
  /\ calls' = calls + 1
  /\ call' = [call EXCEPT ![p] = [Idle EXCEPT !.op = op, !.key = k,
                !.pc = IF cached[p] = NoDir THEN "open" ELSE "use",
                !.ret = "get", !.dir = cached[p], !.closed = closed[p]]]
  /\ UNCHANGED <<dirs, cached, closed, ghosts, crashes, faults, bloats, rewrites>>

(* UpdateInsert and Delete, outside dbMu; a closed handle is an error.      *)
Put(set, op, k) == IF op = "put" THEN set \cup {k} ELSE set \ {k}
Use(p) ==
  LET c == call[p]
  IN  /\ c.pc = "use"
      /\ IF c.closed THEN UNCHANGED <<rows, acked, destroyed>>
         ELSE /\ rows' = [rows EXCEPT ![c.dir] = Put(@, c.op, c.key)]
              /\ acked' = Put(acked, c.op, c.key)
              /\ destroyed' = destroyed \ {c.key}
      /\ Return(p)
      /\ UNCHANGED <<live, bak, corrupt, damage, bloated, holder, cached, closed, stolen, intruded, bounds>>

(* CloseAll, when dbMu is free.                                             *)
CloseAll(p) ==
  /\ call[p].pc \in {"idle", "use"} /\ cached[p] # NoDir
  /\ holder' = IF closed[p] THEN holder ELSE Release(cached[p])
  /\ cached' = [cached EXCEPT ![p] = NoDir] /\ closed' = [closed EXCEPT ![p] = FALSE]
  /\ call' = [call EXCEPT ![p].closed = TRUE]
  /\ UNCHANGED <<live, bak, corrupt, rows, damage, bloated, ghosts, bounds>>

(***************************************************************************)
(* The environment                                                          *)
(***************************************************************************)
(* A process dies, and a power loss may damage the directory it writes.     *)
Crash(p) ==
  /\ crashes < MaxCrashes /\ crashes' = crashes + 1
  /\ holder' = [d \in Dirs |-> IF holder[d] = p THEN Nobody ELSE holder[d]]
  /\ cached' = [cached EXCEPT ![p] = NoDir] /\ closed' = [closed EXCEPT ![p] = FALSE]
  /\ Return(p)
  /\ \/ UNCHANGED <<rows, damage, acked, destroyed>>
     \/ \E how \in {"journal", "lost"}, lost \in SUBSET Keys :
          /\ live # NoDir /\ holder[live] = p
          /\ (how = "lost") => (lost = Keys)
          /\ damage' = [damage EXCEPT ![live] = how]
          /\ rows' = [rows EXCEPT ![live] = @ \ lost]
          /\ destroyed' = destroyed \cup lost
          /\ UNCHANGED acked
  /\ UNCHANGED <<live, bak, corrupt, bloated, stolen, intruded, calls, faults, bloats, rewrites>>

(* Files pile up in the directory.                                          *)
Bloat ==
  /\ bloats < MaxBloats /\ live # NoDir /\ live \notin bloated
  /\ bloats' = bloats + 1 /\ bloated' = bloated \cup {live}
  /\ UNCHANGED <<live, bak, corrupt, rows, damage, holder, cached, closed, call, ghosts,
                 calls, crashes, faults, rewrites>>

Opening(p) ==
  \/ OpenSucceeds(p) \/ OpenConflict(p) \/ OpenFails(p) \/ OpenKeepsFailing(p)
  \/ Recover(p) \/ RecoverFails(p) \/ Reopen(p) \/ Quarantine(p) \/ QuarantineFails(p) \/ OpenAfterQuarantine(p) \/ RenameBack(p)
Rewriting(p) ==
  \/ Count(p) \/ ReadPairs(p) \/ RemoveBak(p) \/ MoveAside(p) \/ MoveFails(p)
  \/ CopyPair(p) \/ CopyFails(p) \/ CopyDone(p) \/ Clear(p) \/ Restore(p)
Step(p) == Opening(p) \/ Rewriting(p) \/ Use(p)
Next ==
  \/ \E p \in Procs : Step(p) \/ CloseAll(p) \/ Crash(p)
  \/ \E p \in Procs, op \in {"put", "delete"}, k \in Keys : Begin(p, op, k)
  \/ Bloat

Spec == Init /\ [][Next]_vars

(***************************************************************************)
(* Properties                                                               *)
(***************************************************************************)
(* Every variable has its type, a directory has one name at most, and the   *)
(* quarantined ones are out of the way of the live one.                     *)
StTypeOK ==
  /\ {live, bak} \subseteq Dirs \cup {NoDir} /\ corrupt \subseteq Dirs
  /\ (live # NoDir => live # bak /\ live \notin corrupt) /\ bak \notin corrupt
  /\ rows \in [Dirs -> SUBSET Keys] /\ damage \in [Dirs -> {"none", "journal", "lost"}]
  /\ bloated \subseteq Dirs /\ holder \in [Dirs -> Procs \cup {Nobody}]
  /\ cached \in [Procs -> Dirs \cup {NoDir}] /\ closed \in [Procs -> BOOLEAN]
  /\ \A p \in Procs : call[p].dir \in Dirs \cup {NoDir} /\ call[p].pairs \subseteq Keys
  /\ acked \subseteq Keys /\ destroyed \subseteq Keys /\ stolen \subseteq Dirs

(* A second process that runs into a live one is turned away: a directory   *)
(* loses its name while another process holds it only if that one opened it *)
(* while the first had the table half replaced, or the first could not open *)
(* it for another reason than the lock ("Surface the conflict instead",     *)
(* openGoLevelDB).                                                          *)
StealNeedsARace == (stolen # {}) => intruded

(* Directories that are no longer the table: quarantined, or the backup of  *)
(* a rewrite in which a process died or the rename back failed.             *)
RowsOf(names) == UNION {rows[d] : d \in names \ {NoDir}}
PutAside == RowsOf(corrupt \cup {bak})

(* Through recovery, quarantine and rewrites the table holds what the       *)
(* answered calls left in it, and nothing comes back that they deleted, but *)
(* for the keys that were destroyed, and without those that were put aside: *)
(* unless another process opened the table meanwhile.                       *)
LiveMatches ==
  (/\ live # NoDir /\ damage[live] = "none"
   /\ ~intruded /\ \A p \in Procs : ~Replacing(p)) =>
    /\ rows[live] \ destroyed \subseteq acked
    /\ acked \ (destroyed \cup PutAside) \subseteq rows[live]

(* Nothing else is lost for good: every row that was acknowledged is in a   *)
(* directory that has a name, be it a crash or an error that put it there,  *)
(* until the next rewrite removes it as an old backup (line 214).           *)
RowsSomewhere ==
  ~intruded => acked \ destroyed \subseteq RowsOf({live, bak} \cup corrupt)

(* The handle in dbMap is open and holds the lock, unless a step of a       *)
(* rewrite failed: then it is the old one, which is closed.                 *)
HandleIsOpen ==
  ~intruded => \A p \in Procs : cached[p] # NoDir =>
    IF closed[p] THEN faults > 0 /\ rewrites > 0 ELSE holder[cached[p]] = p

(* What was stored is kept, up to what the code loses: through conflicts,   *)
(* recovery, quarantine, crashes and rewrites that fail the rows are        *)
(* somewhere, the live directory is the table, and a cached handle is open. *)
TablesAreKept == StTypeOK /\ StealNeedsARace /\ LiveMatches /\ RowsSomewhere /\ HandleIsOpen

(* "Re-open original so caller is not left without a DB"                    *)
(* (hiddify_db.go:216): what getDB caches is open.                          *)
CallerKeepsADb == \A p \in Procs : cached[p] # NoDir => ~closed[p]
=============================================================================
