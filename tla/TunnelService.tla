---------------------------- MODULE TunnelService ----------------------------
(***************************************************************************)
(* The privileged helper of v2/hcore/tunnelservice: a process that owns one *)
(* sing-box with a TUN adapter, and the commands that install, start, stop  *)
(* and end it over a local port (admin_service_commander.go).  Its handlers *)
(* take no lock: Start is a step that makes a box and a step that stores it. *)
(***************************************************************************)
EXTENDS Integers, FiniteSets

CONSTANTS
  Commands,     \* processes that command the helper
  MaxStarts,    \* bound of Start calls; a box has the number of its call
  MaxCommands,  \* bound of commands
  MaxTroubles   \* bound of kills, time-outs, failed boxes and lost requests

VARIABLES
  helper,   \* "none", "up", or "dying": Exit was answered, os.Exit comes in a second
  launch,   \* a process was started that will try to become the helper
  box,      \* TunnelService.box, or 0
  up,       \* the boxes that run in the helper
  adapter,  \* the box whose TUN adapter the system has, 0, or Ghost
  start,    \* where each call of Start is
  cmd,      \* what each command does, how far it is, and what it answered
  alone,    \* ghost: commands beside which nothing else happened, the late exit of a helper
            \* that they asked to exit included
  overlap,  \* ghost: a handler ran beside a Start in this helper, or a Start came
            \* between another command's Stop and its Start
  commands, troubles
tunnelVars == <<helper, launch, box, up, adapter, start, cmd, alone, overlap, commands, troubles>>

Ghost  == -1      \* an adapter that outlived its process
Starts == 1..MaxStarts
NoCommand == [op |-> "none", at |-> "done", install |-> FALSE, sent |-> 0, ok |-> FALSE]

TunnelInit ==
  /\ helper \in {"none", "up"} /\ launch = FALSE /\ box = 0 /\ up = {}
  /\ adapter \in {0, Ghost} /\ start = [s \in Starts |-> "free"]
  /\ cmd = [c \in Commands |-> NoCommand] /\ alone = [c \in Commands |-> FALSE]
  /\ overlap = FALSE /\ commands = 0 /\ troubles = 0

At(c, where) == cmd[c].at = where
Go(c, where) == cmd' = [cmd EXCEPT ![c].at = where]
Done(c, ok)  == cmd' = [cmd EXCEPT ![c].at = "done", ![c].ok = ok]
Trouble  == troubles < MaxTroubles /\ troubles' = troubles + 1
Starting == {s \in Starts : start[s] \in {"new", "made", "unmade"}}
Disturb  == alone' = [c \in Commands |-> FALSE]
(* HealStickyTun is best effort and has a cooldown on Windows.              *)
HealStickyTun(found) == {found, 0}

(***************************************************************************)
(* The helper                                                               *)
(***************************************************************************)
StopBox ==
  /\ up' = up \ {box}
  /\ adapter' = IF box # 0 /\ adapter = box THEN 0 ELSE adapter
  /\ overlap' = (overlap \/ Starting # {})
  /\ UNCHANGED box

(* TunnelService.Start: the leftover adapter is reclaimed, then a box made. *)
NewService(s) ==
  /\ start[s] = "new" /\ 0 \in HealStickyTun(adapter)
  /\ up' = up \cup {s} /\ adapter' = s /\ start' = [start EXCEPT ![s] = "made"]
  /\ UNCHANGED <<helper, launch, box, cmd, alone, overlap, commands, troubles>>
NewServiceFails(s) ==
  /\ start[s] = "new"
  /\ \/ adapter # 0 /\ UNCHANGED troubles
     \/ Trouble
  /\ adapter' \in HealStickyTun(adapter) /\ start' = [start EXCEPT ![s] = "unmade"]
  /\ UNCHANGED <<helper, launch, box, up, cmd, alone, overlap, commands>>
(* The result is stored, an error's nil too.                                *)
StoreBox(s) ==
  /\ start[s] \in {"made", "unmade"}
  /\ box' = IF start[s] = "made" THEN s ELSE 0
  /\ start' = [start EXCEPT ![s] = IF start[s] = "made" THEN "ok" ELSE "error"]
  /\ UNCHANGED <<helper, launch, up, adapter, cmd, alone, overlap, commands, troubles>>

(* The process ends and takes its boxes along; an adapter may stay behind.  *)
Gone ==
  /\ helper' = "none" /\ box' = 0 /\ up' = {} /\ overlap' = FALSE
  /\ adapter' \in IF adapter = 0 THEN {0} ELSE {0, Ghost}
  /\ start' = [s \in Starts |-> IF s \in Starting THEN "error" ELSE start[s]]
ExitTimer ==
  /\ helper = "dying" /\ Gone /\ UNCHANGED <<launch, cmd, alone, commands, troubles>>
(* A kill, or a stop by the system's service manager.                       *)
Kill ==
  /\ helper # "none" /\ Trouble /\ Gone /\ Disturb
  /\ UNCHANGED <<launch, cmd, commands>>

(* The process that was launched listens, unless another helper still does. *)
StartTunnelGrpcServer ==
  /\ launch /\ launch' = FALSE
  /\ helper' = IF helper = "none" THEN "up" ELSE helper
  /\ UNCHANGED <<box, up, adapter, start, cmd, alone, overlap, commands, troubles>>

(***************************************************************************)
(* The commands                                                             *)
(***************************************************************************)
Begin(c, op) ==
  /\ At(c, "done") /\ commands < MaxCommands /\ commands' = commands + 1
  /\ cmd' = [cmd EXCEPT ![c] = [op |-> op, at |-> op, install |-> TRUE, sent |-> 0, ok |-> FALSE]]
  /\ alone' = [d \in Commands |-> d = c /\ Starting = {} /\ helper # "dying"
                                   /\ \A e \in Commands \ {c} : At(e, "done")]
  /\ UNCHANGED <<helper, launch, box, up, adapter, start, overlap, troubles>>

(* startTunnelRequest: what failed is retried once with a new helper.       *)
Failed(c) ==
  IF cmd[c].install THEN Go(c, "restart") /\ UNCHANGED adapter
  ELSE Done(c, FALSE) /\ adapter' \in HealStickyTun(adapter)
IsPortInUse(c) ==
  /\ At(c, "activate")
  /\ \/ helper # "none" /\ Go(c, "stopfirst") /\ UNCHANGED adapter
     \/ helper = "none" /\ cmd[c].install /\ Go(c, "install") /\ UNCHANGED adapter
     \/ helper = "none" /\ ~cmd[c].install /\ Failed(c)
  /\ UNCHANGED <<helper, launch, box, up, start, alone, overlap, commands, troubles>>
BugStopFirst(c) ==
  /\ At(c, "stopfirst") /\ Go(c, "start")
  /\ UNCHANGED <<box, up, adapter, overlap>>
  /\ UNCHANGED <<helper, launch, start, alone, commands, troubles>>
StopFirst(c) ==
  /\ At(c, "stopfirst") /\ Go(c, "start")
  /\ IF helper = "none" THEN UNCHANGED <<box, up, adapter, overlap>> ELSE StopBox
  /\ UNCHANGED <<helper, launch, start, alone, commands, troubles>>
SendStart(c) ==
  /\ At(c, "start") /\ helper # "none"
  /\ \E s \in Starts : /\ start[s] = "free" /\ \A r \in 1..(s - 1) : start[r] # "free"
                       /\ start' = [start EXCEPT ![s] = "new"]
                       /\ cmd' = [cmd EXCEPT ![c].at = "wait", ![c].sent = s]
  /\ overlap' = (overlap \/ Starting # {} \/ \E d \in Commands \ {c} : At(d, "start"))
  /\ UNCHANGED <<helper, launch, box, up, adapter, alone, commands, troubles>>
StartAnswered(c) ==
  /\ At(c, "wait") /\ start[cmd[c].sent] = "ok" /\ Done(c, TRUE)
  /\ UNCHANGED <<helper, launch, box, up, adapter, start, alone, overlap, commands, troubles>>
(* An error, a helper that is gone, or five seconds.                        *)
StartFails(c) ==
  /\ \/ At(c, "wait") /\ start[cmd[c].sent] = "error" /\ UNCHANGED troubles
     \/ At(c, "start") /\ helper = "none" /\ UNCHANGED troubles
     \/ At(c, "wait") /\ cmd[c].sent \in Starting /\ Trouble
  /\ Failed(c)
  /\ UNCHANGED <<helper, launch, box, up, start, alone, overlap, commands>>

(* ExitTunnelService, as a command or before a new helper is installed.     *)
AfterExit(c) == IF At(c, "exit") THEN Done(c, TRUE) ELSE Go(c, "install")
Exit(c) ==
  /\ At(c, "exit") \/ At(c, "restart")
  /\ helper # "none" /\ helper' = "dying"
  /\ StopBox /\ AfterExit(c)
  /\ UNCHANGED <<launch, start, alone, commands, troubles>>
ExitLost(c) ==
  /\ At(c, "exit") \/ At(c, "restart")
  /\ \/ helper = "none" /\ UNCHANGED troubles
     \/ Trouble
  /\ AfterExit(c)
  /\ UNCHANGED <<helper, launch, box, up, adapter, start, alone, overlap, commands>>

(* runTunnelService: the service is installed and started; where that fails *)
(* a helper is run in the background.  Either is waited for for a second.   *)
Install(c) ==
  /\ At(c, "install") /\ Go(c, "settle")
  /\ \/ launch' = TRUE /\ UNCHANGED helper
     \/ helper' = (IF helper = "none" THEN "up" ELSE helper) /\ UNCHANGED launch
  /\ UNCHANGED <<box, up, adapter, start, alone, overlap, commands, troubles>>
InstallFails(c) ==
  /\ At(c, "install")
  /\ \/ launch' = TRUE /\ Go(c, "settle") /\ UNCHANGED <<alone, troubles>>
     \/ /\ Trouble /\ cmd' = [cmd EXCEPT ![c].at = "activate", ![c].install = FALSE]
        /\ alone' = [alone EXCEPT ![c] = @ /\ helper # "dying"] /\ UNCHANGED launch
  /\ UNCHANGED <<helper, box, up, adapter, start, overlap, commands>>
(* This second is not that of the helper's exit: the request may reach the  *)
(* helper that was asked to exit.                                           *)
Settled(c) ==
  /\ At(c, "settle")
  /\ cmd' = [cmd EXCEPT ![c].at = "activate", ![c].install = FALSE]
  /\ alone' = [alone EXCEPT ![c] = @ /\ helper # "dying"]
  /\ UNCHANGED <<helper, launch, box, up, adapter, start, overlap, commands, troubles>>

(* stopTunnelRequest: an error, such as that of a box which is closed       *)
(* already, is tried again, and reported.                                   *)
Stop(c) ==
  /\ At(c, "deactivate") /\ helper # "none" /\ StopBox
  /\ \/ box \in up \cup {0} /\ Done(c, TRUE) /\ UNCHANGED troubles
     \/ box # 0 /\ box \notin up /\ (Done(c, TRUE) \/ Go(c, "again")) /\ UNCHANGED troubles
     \/ box \in up /\ Trouble /\ Go(c, "again")
  /\ UNCHANGED <<helper, launch, start, alone, commands>>
StopAgain(c) ==
  /\ At(c, "again") /\ Done(c, FALSE)
  /\ IF helper = "none" THEN UNCHANGED <<box, up, adapter, overlap>> ELSE StopBox
  /\ UNCHANGED <<helper, launch, start, alone, commands, troubles>>
StopRefused(c) ==
  /\ At(c, "deactivate") /\ helper = "none" /\ Done(c, FALSE)
  /\ UNCHANGED <<helper, launch, box, up, adapter, start, alone, overlap, commands, troubles>>

Command(c) ==
  \/ \E op \in {"activate", "deactivate", "exit"} : Begin(c, op)
  \/ IsPortInUse(c) \/ StopFirst(c) \/ SendStart(c) \/ StartAnswered(c) \/ StartFails(c)
  \/ Exit(c) \/ ExitLost(c) \/ Install(c) \/ InstallFails(c) \/ Settled(c)
  \/ Stop(c) \/ StopAgain(c) \/ StopRefused(c)
TunnelNext ==
  \/ \E c \in Commands : Command(c)
  \/ \E s \in Starts : NewService(s) \/ NewServiceFails(s) \/ StoreBox(s)
  \/ ExitTimer \/ Kill \/ StartTunnelGrpcServer
TunnelSpec == TunnelInit /\ [][TunnelNext]_tunnelVars

(***************************************************************************)
(* Properties, for a helper in which no Start ran beside another call.      *)
(* Otherwise they fail: box is read and written without a lock, and a Start *)
(* on a box that is up overwrites it.                                       *)
(***************************************************************************)
(* A box that runs is the one that the next Stop or Exit closes, or its     *)
(* Start is about to store it: no retry, time-out, failed start or restart  *)
(* of the helper leaves one that nobody can close.                          *)
BoxIsHeld == ~overlap => up \subseteq {box} \cup {s \in Starts : start[s] = "made"}

(* A command that ran alone did what it says: after an activation that      *)
(* succeeded the tunnel is up with its adapter, however many helpers it     *)
(* took, and after a deactivation that succeeded none is.  Excepted is an   *)
(* activation whose retry comes before the helper that it asked to exit is  *)
(* gone: its box may start in that helper, and goes with it.                *)
CommandsDoWhatTheySay ==
  \A c \in Commands : (At(c, "done") /\ alone[c] /\ cmd[c].ok /\ ~overlap) =>
    CASE cmd[c].op = "activate"   -> box \in up /\ adapter = box
      [] cmd[c].op = "deactivate" -> up = {} /\ adapter \in {0, Ghost}
      [] OTHER -> TRUE

(* The tunnel is the commands' to bring up and down.                        *)
TunnelObeys == BoxIsHeld /\ CommandsDoWhatTheySay
=============================================================================
