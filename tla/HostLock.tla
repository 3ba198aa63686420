------------------------------ MODULE HostLock ------------------------------
(***************************************************************************)
(* The hosts of cmd/cmd_host_serve.go: processes that listen on one address, *)
(* and the file core_host.lock in which the one that got it names itself for *)
(* the UI.  What runs between the lock and the signal is CoreService.        *)
(***************************************************************************)
EXTENDS Integers, FiniteSets

CONSTANTS
  Hosts,       \* process ids
  MaxStarts,   \* bound of starts of hosts
  MaxFailures  \* bound of writes that fail, panics and kills

VARIABLES
  owner,     \* the host that listens, or 0
  lock,      \* the host that core_host.lock names, or 0
  hpc,       \* where each host is
  exit,      \* the code with which each host ended last
  quiet,     \* ghost: hosts that serve without a lock of their own: the write failed
  raced,     \* ghost: hosts that bound before an older one had removed its lock
  starts, failures
hostVars == <<owner, lock, hpc, exit, quiet, raced, starts, failures>>

HostInit ==
  /\ owner = 0 /\ lock \in {0} \cup Hosts   \* left by one that was killed
  /\ hpc = [h \in Hosts |-> "off"] /\ exit = [h \in Hosts |-> IF lock = h THEN 137 ELSE 0]
  /\ quiet = {} /\ raced = {} /\ starts = 0 /\ failures = 0

At(h, where) == hpc[h] = where
Go(h, where) == hpc' = [hpc EXCEPT ![h] = where]
Exit(h, code) == hpc' = [hpc EXCEPT ![h] = "off"] /\ exit' = [exit EXCEPT ![h] = code]
Release(h) == owner' = IF owner = h THEN 0 ELSE owner
Trouble == failures < MaxFailures /\ failures' = failures + 1

(* runHostServe: Setup binds the address, or the process exits.             *)
Serve(h) ==
  /\ At(h, "off") /\ starts < MaxStarts /\ starts' = starts + 1
  /\ Go(h, "setup")
  /\ UNCHANGED <<owner, lock, exit, quiet, raced, failures>>
Setup(h) ==
  /\ At(h, "setup") /\ owner = 0
  /\ owner' = h /\ Go(h, "lock")
  /\ raced' = IF \E g \in Hosts \ {h} : At(g, "remove") THEN raced \cup {h} ELSE raced \ {h}
  /\ quiet' = quiet \ {h}
  /\ UNCHANGED <<lock, exit, starts, failures>>
SetupFails(h) ==
  /\ At(h, "setup")
  /\ \/ owner # 0 /\ Exit(h, 3) /\ UNCHANGED failures
     \/ Trouble /\ Exit(h, 1)
  /\ UNCHANGED <<owner, lock, quiet, raced, starts>>

(* A write that fails is a warning.                                         *)
WriteCoreHostLock(h) ==
  /\ At(h, "lock") /\ lock' = h /\ Go(h, "serve")
  /\ UNCHANGED <<owner, exit, quiet, raced, starts, failures>>
WriteFails(h) ==
  /\ At(h, "lock") /\ Trouble /\ Go(h, "serve") /\ quiet' = quiet \cup {h}
  /\ UNCHANGED <<owner, lock, exit, raced, starts>>

(* A signal, or quit in the tray: the core stops, then the server closes.   *)
CloseGrpcServer(h) ==
  /\ At(h, "serve") /\ Go(h, "remove") /\ Release(h)
  /\ UNCHANGED <<lock, exit, quiet, raced, starts, failures>>
(* A panic runs the deferred removal while the process still listens.       *)
Panic(h) ==
  /\ At(h, "serve") /\ Trouble /\ Go(h, "panic")
  /\ UNCHANGED <<owner, lock, exit, quiet, raced, starts>>
BugRemoveCoreHostLock(h) ==
  /\ hpc[h] \in {"remove", "panic"}
  /\ UNCHANGED lock /\ Release(h) /\ Exit(h, IF At(h, "panic") THEN 1 ELSE 0)
  /\ UNCHANGED <<quiet, raced, starts, failures>>
RemoveCoreHostLock(h) ==
  /\ hpc[h] \in {"remove", "panic"}
  /\ lock' = 0 /\ Release(h) /\ Exit(h, IF At(h, "panic") THEN 1 ELSE 0)
  /\ UNCHANGED <<quiet, raced, starts, failures>>
(* Nothing is deferred for a process that is killed.                        *)
Kill(h) ==
  /\ ~At(h, "off") /\ Trouble /\ Exit(h, 137) /\ Release(h)
  /\ UNCHANGED <<lock, quiet, raced, starts>>

HostStep(h) ==
  \/ Serve(h) \/ Setup(h) \/ SetupFails(h) \/ WriteCoreHostLock(h) \/ WriteFails(h)
  \/ CloseGrpcServer(h) \/ Panic(h) \/ RemoveCoreHostLock(h) \/ Kill(h)
HostNext == \E h \in Hosts : HostStep(h)
HostSpec == HostInit /\ [][HostNext]_hostVars

(***************************************************************************)
(* Properties                                                               *)
(***************************************************************************)
(* The UI finds the host that serves: the lock names it, whatever hosts     *)
(* started, lost the race for the address, stopped or died before and       *)
(* beside it (cmd_host_serve.go:101-110 "Whoever publishes the lock must own *)
(* the listener") -- unless its write failed, or it took the address from a *)
(* host that had closed its listener and not yet removed its lock.          *)
ServingIsNamed ==
  \A h \in Hosts : (At(h, "serve") /\ h \notin quiet \cup raced) => lock = h

(* A host that ended in order leaves no lock behind for a UI to wait on,    *)
(* one that an older host of the same pid left included.                    *)
NoLockAfterExit == \A h \in Hosts : (At(h, "off") /\ exit[h] = 0) => lock # h

(* The lock names the host that serves, and none that ended in order.       *)
LockNamesTheHost == ServingIsNamed /\ NoLockAfterExit
=============================================================================
