----------------------------- MODULE AtomicFile -----------------------------
(***************************************************************************)
(* WriteFileAtomic of v2/hutils (atomic_file.go): writers of one path, each  *)
(* with a temporary file of its own, and one path.bak for all of them.  A    *)
(* file is whole or it is not; a rename fails when the system says so, a     *)
(* reader that keeps the file open on Windows for one.                       *)
(***************************************************************************)
EXTENDS Integers, FiniteSets

CONSTANTS
  Writers,
  MaxKills   \* bound of crashes of the process

None   == "none"
First  == "first"    \* what the path holds before the first write
Torn   == "torn"
Values == Writers \cup {First}

VARIABLES
  path, bak, \* what the two names hold
  tmp,       \* the temporary file of each writer
  orphans,   \* what the temporary files hold that were kept
  stored,    \* ghost: the path has held a file
  wpc, had,  \* where a writer is, and hadFinal
  werr,      \* it returns an error
  unrestored,\* ghost: a rename back failed
  wbefore,   \* ghost: the path when a writer began on its own, or "shared"
  kills
fileVars == <<path, bak, tmp, orphans, stored, wpc, had, werr, unrestored, wbefore, kills>>

AtomicInit ==
  /\ path \in {None, First} /\ bak = None
  /\ tmp = [w \in Writers |-> None] /\ orphans = {} /\ stored = (path # None)
  /\ wpc = [w \in Writers |-> "idle"] /\ had = [w \in Writers |-> FALSE]
  /\ werr = [w \in Writers |-> FALSE] /\ unrestored = FALSE
  /\ wbefore = [w \in Writers |-> "shared"] /\ kills = 0

Step(w, from, to) == wpc[w] = from /\ wpc' = [wpc EXCEPT ![w] = to]
Fail(w, from)     == Step(w, from, "cleanup") /\ werr' = [werr EXCEPT ![w] = TRUE]

(* A writer makes its file, writes and syncs it.                            *)
CreateTemp(w) ==
  /\ Step(w, "idle", "write")
  /\ tmp' = [tmp EXCEPT ![w] = Torn] /\ werr' = [werr EXCEPT ![w] = FALSE]
  /\ had' = [had EXCEPT ![w] = FALSE]
  /\ wbefore' = [v \in Writers |->
       IF v = w /\ \A x \in Writers \ {w} : wpc[x] = "idle" THEN path
       ELSE IF v = w \/ wpc[v] # "idle" THEN "shared" ELSE wbefore[v]]
  /\ UNCHANGED <<path, bak, unrestored, kills, orphans, stored>>
WriteSync(w) ==
  /\ Step(w, "write", "rename") /\ tmp' = [tmp EXCEPT ![w] = w]
  /\ UNCHANGED <<path, bak, had, werr, unrestored, wbefore, kills, orphans, stored>>
WriteSyncFails(w) ==
  /\ Fail(w, "write")
  /\ UNCHANGED <<path, bak, tmp, had, unrestored, wbefore, kills, orphans, stored>>

(* replaceFile: one rename, and replaceWithBak when it fails.               *)
Rename(w) ==
  /\ Step(w, "rename", "done") /\ path' = tmp[w] /\ stored' = TRUE /\ tmp' = [tmp EXCEPT ![w] = None]
  /\ UNCHANGED <<bak, had, werr, unrestored, wbefore, kills, orphans>>
RenameFails(w) ==
  /\ Step(w, "rename", "stat") /\ bak' = None
  /\ UNCHANGED <<path, tmp, had, werr, unrestored, wbefore, kills, orphans, stored>>
BugStatFinal(w) ==
  /\ Step(w, "stat", IF path = None THEN "swap" ELSE "aside")
  /\ UNCHANGED <<path, bak, tmp, had, werr, unrestored, wbefore, kills, orphans, stored>>
StatFinal(w) ==
  /\ Step(w, "stat", IF path = None THEN "swap" ELSE "aside")
  /\ had' = [had EXCEPT ![w] = path # None]
  /\ UNCHANGED <<path, bak, tmp, werr, unrestored, wbefore, kills, orphans, stored>>
MoveAside(w) ==
  /\ Step(w, "aside", "swap") /\ path # None
  /\ bak' = path /\ path' = None
  /\ UNCHANGED <<tmp, had, werr, unrestored, wbefore, kills, orphans, stored>>
MoveAsideFails(w) ==
  /\ Fail(w, "aside")
  /\ UNCHANGED <<path, bak, tmp, had, unrestored, wbefore, kills, orphans, stored>>
Swap(w) ==
  /\ Step(w, "swap", "rmbak") /\ path' = tmp[w] /\ stored' = TRUE /\ tmp' = [tmp EXCEPT ![w] = None]
  /\ UNCHANGED <<bak, had, werr, unrestored, wbefore, kills, orphans>>
SwapFails(w) ==
  /\ wpc[w] = "swap"
  /\ IF had[w] THEN wpc' = [wpc EXCEPT ![w] = "restore"] /\ UNCHANGED werr ELSE Fail(w, "swap")
  /\ UNCHANGED <<path, bak, tmp, had, unrestored, wbefore, kills, orphans, stored>>
(* The result of the rename back is not looked at.                          *)
Restore(w) ==
  /\ Fail(w, "restore")
  /\ \/ bak # None /\ path' = bak /\ bak' = None /\ UNCHANGED unrestored
     \/ UNCHANGED <<path, bak>> /\ unrestored' = TRUE
  /\ UNCHANGED <<tmp, had, wbefore, kills, orphans, stored>>
RemoveBak(w) ==
  /\ Step(w, "rmbak", "done") /\ bak' = None
  /\ UNCHANGED <<path, tmp, had, werr, unrestored, wbefore, kills, orphans, stored>>

(* The deferred function: the file stays when the destination is gone.      *)
Cleanup(w) ==
  /\ Step(w, "cleanup", IF path = None THEN "done" ELSE "unlink")
  /\ UNCHANGED <<path, bak, tmp, had, werr, unrestored, wbefore, kills, orphans, stored>>
Unlink(w) ==
  /\ Step(w, "unlink", "done") /\ tmp' = [tmp EXCEPT ![w] = None]
  /\ UNCHANGED <<path, bak, had, werr, unrestored, wbefore, kills, orphans, stored>>
(* A temporary file that is kept has a name that no later write takes.      *)
Whole(S) == S \ {None, Torn}
Answer(w) ==
  /\ Step(w, "done", "idle")
  /\ tmp' = [tmp EXCEPT ![w] = None] /\ orphans' = orphans \cup Whole({tmp[w]})
  /\ UNCHANGED <<path, bak, had, werr, unrestored, wbefore, kills, stored>>

(* The process dies, with all its writers.                                  *)
Killed ==
  /\ kills < MaxKills /\ kills' = kills + 1
  /\ wpc' = [w \in Writers |-> "idle"] /\ wbefore' = [w \in Writers |-> "shared"]
  /\ tmp' = [w \in Writers |-> None] /\ orphans' = orphans \cup Whole({tmp[w] : w \in Writers})
  /\ UNCHANGED <<path, bak, had, werr, unrestored, stored>>

AtomicStep(w) ==
  \/ CreateTemp(w) \/ WriteSync(w) \/ WriteSyncFails(w) \/ Rename(w) \/ RenameFails(w)
  \/ StatFinal(w) \/ MoveAside(w) \/ MoveAsideFails(w) \/ Swap(w) \/ SwapFails(w)
  \/ Restore(w) \/ RemoveBak(w) \/ Cleanup(w) \/ Unlink(w) \/ Answer(w)
AtomicNext == (\E w \in Writers : AtomicStep(w)) \/ Killed
AtomicSpec == AtomicInit /\ [][AtomicNext]_fileVars

(***************************************************************************)
(* Properties                                                               *)
(***************************************************************************)
(* A reader of the path finds a whole file or none (atomic_file.go:9 "so     *)
(* readers never see a truncated file"), and the copy is whole as well.      *)
NeverTorn == {path, bak} \subseteq Values \cup {None} /\ tmp \in [Writers -> Values \cup {None, Torn}]

(* However two writers and a crash fall into each other's steps, once there *)
(* was a file, a whole one is left under some name: the path, path.bak or a *)
(* temporary file ("avoid losing both copies").                             *)
NothingLost ==
  stored => Whole({path, bak} \cup {tmp[w] : w \in Writers} \cup orphans) # {}

(* A write without another beside it puts its file at the path, or returns  *)
(* an error and leaves what was there; nothing but these two outcomes, as   *)
(* long as the rename back works ("On failure it does not destroy an         *)
(* existing target").                                                       *)
AloneAllOrNothing ==
  \A w \in Writers :
    (wpc[w] = "done" /\ wbefore[w] # "shared" /\ ~unrestored) =>
      path = IF werr[w] THEN wbefore[w] ELSE w

(* A write is whole or has not happened, and never costs both copies.       *)
WritesAreAtomic == NeverTorn /\ NothingLost /\ AloneAllOrNothing
=============================================================================
