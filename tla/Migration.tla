----------------------------- MODULE Migration ------------------------------
(***************************************************************************)
(* The change between legacy user mode and system mode: the helper         *)
(* packaging/migrate/letsnote-wheelpad-migrate with its enable, disable    *)
(* and rollback, the marker files it keeps, the system unit and the        *)
(* legacy user units whose conditions and udev rule read them.             *)
(*                                                                         *)
(* acquire_lock lets one helper work at a time, so one program counter     *)
(* stands for every call ever made.  A step of it is one command, or the   *)
(* assignment of one flag that cleanup_failure reads: a command may fail,  *)
(* a signal may run the trap, and SIGKILL or a reboot may strike between   *)
(* any two.  Calls that refuse to begin change nothing and are stuttering  *)
(* steps.                                                                  *)
(***************************************************************************)
EXTENDS Naturals

CONSTANT Users \* login sessions that may run the legacy user unit

VARIABLES
  markers, \* the marker files that exist
  sys,     \* the system unit
  user,    \* [Users -> the state of the session's user unit]
  device,  \* what systemd has yet to do about the last udev event
  pc,      \* the next command of the helper
  undo,    \* the flags of cleanup_failure: "enable" for cleanup_mode, and
           \* what enable says it has begun to make
  late     \* bookkeeping: sessions whose unit had passed its conditions, but
           \* not started its daemon, when enable looked for daemons

vars == <<markers, sys, user, device, pc, undo, late>>
units == <<sys, user, device, late>>

MarkerFiles == {"persistent", "staging", "block"}
RuntimeMarkers == {"staging", "block"} \* below /run: a reboot clears them

\* The conditions of the two units.
Authorized == markers \cap {"persistent", "staging"} # {}
UserAllowed == markers \cap {"persistent", "block"} = {}

SysRunning == sys \in {"starting", "active"}
\* running_daemons fails
DaemonSeen == SysRunning \/ \E u \in Users : user[u] = "running"

Init ==
  /\ markers = {}
  /\ sys = "inactive"
  /\ user = [u \in Users |-> "stopped"]
  /\ device = "settled"
  /\ pc = "idle"
  /\ undo = {}
  /\ late = {}

(***************************************************************************)
(* Commands.                                                               *)
(***************************************************************************)
Goto(at, then) == pc = at /\ pc' = then

Remove(at, marker, then) ==
  /\ Goto(at, then)
  /\ markers' = markers \ {marker}
  /\ UNCHANGED <<units, undo>>

\* systemctl stop: a unit that has failed stays failed, and the job may fail.
Stop(at, then) ==
  /\ Goto(at, then)
  /\ sys' \in {sys, IF sys = "failed" THEN "failed" ELSE "inactive"}
  /\ UNCHANGED <<markers, user, device, undo, late>>

\* reload_and_trigger: what the udev rule asks of systemd once it has run.
Trigger(at, then) ==
  /\ Goto(at, then)
  /\ device' = IF Authorized THEN "wants" ELSE "gone"
  /\ UNCHANGED <<markers, sys, user, undo, late>>

(***************************************************************************)
(* enable begins only when no marker is left and the unit is not active.   *)
(***************************************************************************)
\* The trap is set with cleanup_mode, then the first flag.
EnableBegin ==
  /\ Goto("idle", "enable flag block")
  /\ markers = {}
  /\ sys # "active"
  /\ undo' = {"enable"}
  /\ UNCHANGED <<markers, units>>

Raise(at, flag, then) ==
  /\ Goto(at, then)
  /\ undo' = undo \cup {flag}
  /\ UNCHANGED <<markers, units>>

Lower(at, flag, then) ==
  /\ Goto(at, then)
  /\ undo' = undo \ {flag}
  /\ UNCHANGED <<markers, units>>

Create(at, marker, then) ==
  /\ Goto(at, then)
  /\ markers' = markers \cup {marker}
  /\ UNCHANGED <<units, undo>>

FlagBlock == Raise("enable flag block", "block", "enable block")
BlockUser == Create("enable block", "block", "enable scan")

\* Seeded fault: only the system unit is looked at.
FaultyScan ==
  /\ Goto("enable scan", "enable flag staging")
  /\ ~SysRunning
  /\ late' = {u \in Users : user[u] = "starting"}
  /\ UNCHANGED <<markers, sys, user, device, undo>>

Scan ==
  /\ Goto("enable scan", "enable flag staging")
  /\ ~DaemonSeen
  /\ late' = {u \in Users : user[u] = "starting"}
  /\ UNCHANGED <<markers, sys, user, device, undo>>

\* staging_started and staging_created.
FlagStaging == Raise("enable flag staging", "staging", "enable stage")
Stage == Create("enable stage", "staging", "enable trigger")

EnableTrigger == Trigger("enable trigger", "enable flag instance")

\* systemctl start, once the nodes and their ACLs have been verified.
FlagInstance == Raise("enable flag instance", "instance", "enable start")

StartInstance ==
  /\ Goto("enable start", "enable await")
  /\ sys' = IF SysRunning THEN sys ELSE "starting"
  /\ UNCHANGED <<markers, user, device, undo, late>>

\* systemctl start returns when the daemon is ready; is-active confirms it.
VerifyActive ==
  /\ Goto("enable await", "enable flag commit")
  /\ sys = "active"
  /\ UNCHANGED <<markers, units, undo>>

FlagCommit == Raise("enable flag commit", "persistent", "enable commit")
Commit == Create("enable commit", "persistent", "enable unstage")

Unstage == Remove("enable unstage", "staging", "enable unblock")
Unblock == Remove("enable unblock", "block", "enable finish")

\* Seeded fault: enable ends with cleanup_mode still set.
FaultyLeaveMode ==
  /\ Goto("enable leave", "idle")
  /\ UNCHANGED <<markers, units, undo>>

\* The flags are reset one by one, and the trap goes last.
Finish == Lower("enable finish", "staging", "enable leave")
LeaveMode == Lower("enable leave", "enable", "enable untrap")

RemoveTrap ==
  /\ Goto("enable untrap", "idle")
  /\ undo' = {}
  /\ UNCHANGED <<markers, units>>

(***************************************************************************)
(* cleanup_failure, from a command that fails or a signal: the rollback    *)
(* proper once staging_started is set, the user block alone without it,    *)
(* and nothing once cleanup_mode is empty.                                 *)
(***************************************************************************)
Trapped ==
  {"enable flag block", "enable block", "enable scan", "enable flag staging", "enable stage",
   "enable trigger", "enable flag instance", "enable start", "enable await",
   "enable flag commit", "enable commit", "enable unstage", "enable unblock",
   "enable finish", "enable leave", "enable untrap"}

Cleanup ==
  CASE {"enable", "staging", "instance"} \subseteq undo -> "undo stop"
    [] {"enable", "staging"} \subseteq undo /\ "instance" \notin undo -> "undo persistent"
    [] {"enable", "block"} \subseteq undo /\ "staging" \notin undo -> "undo block"
    [] OTHER -> "undone"

EnableFails ==
  /\ pc \in Trapped
  /\ pc' = Cleanup
  /\ UNCHANGED <<markers, units, undo>>

UndoStop == Stop("undo stop", "undo check")

UndoChecked ==
  /\ Goto("undo check", "undo persistent")
  /\ ~DaemonSeen
  /\ UNCHANGED <<markers, units, undo>>

\* "rollback could not stop ...; authorization markers retained"
UndoGivesUp ==
  /\ Goto("undo check", "idle")
  /\ DaemonSeen
  /\ undo' = {}
  /\ UNCHANGED <<markers, units>>

UndoMarker(at, flag, then) ==
  Remove(at, IF flag \in undo THEN flag ELSE "nothing", then)

UndoPersistent == UndoMarker("undo persistent", "persistent", "undo staging")

\* Seeded fault: the user block is lifted first, and staging forgotten.
FaultyUndoStaging == UndoMarker("undo staging", "block", "undo block")
UndoStaging == UndoMarker("undo staging", "staging", "undo block")
UndoBlock ==
  UndoMarker("undo block", "block",
             IF "staging" \in undo THEN "undo trigger" ELSE "undone")
UndoTrigger == Trigger("undo trigger", "undone")

Undone ==
  /\ Goto("undone", "idle")
  /\ undo' = {}
  /\ UNCHANGED <<markers, units>>

(***************************************************************************)
(* disable, from whatever state it finds; a failure undoes nothing.        *)
(***************************************************************************)
\* Seeded fault: the user block of an earlier call is relied on.
FaultyDisableBegin ==
  /\ Goto("idle", "disable stop")
  /\ UNCHANGED <<markers, units, undo>>

DisableBegin ==
  /\ Goto("idle", "disable stop")
  /\ markers' = markers \cup {"block"}
  /\ UNCHANGED <<units, undo>>

DisableStop == Stop("disable stop", "disable check")

DisableChecked ==
  /\ Goto("disable check", "disable persistent")
  /\ sys = "inactive"
  /\ UNCHANGED <<markers, units, undo>>

\* "... could not be stopped; persistent marker retained"
DisableRefused ==
  /\ Goto("disable check", "refused")
  /\ sys # "inactive"
  /\ UNCHANGED <<markers, units, undo>>

DisablePersistent == Remove("disable persistent", "persistent", "disable staging")
DisableStaging == Remove("disable staging", "staging", "disable trigger")
DisableTrigger == Trigger("disable trigger", "disable unblock")
DisableUnblock == Remove("disable unblock", "block", "idle")

DisableFails ==
  /\ pc \in {"disable stop", "disable check", "disable persistent", "disable staging",
             "disable trigger", "disable unblock", "refused"}
  /\ pc' = "idle"
  /\ UNCHANGED <<markers, units, undo>>

Helper ==
  \/ EnableBegin \/ FlagBlock \/ BlockUser \/ Scan \/ FlagStaging \/ Stage
  \/ EnableTrigger \/ FlagInstance \/ StartInstance \/ VerifyActive
  \/ FlagCommit \/ Commit \/ Unstage \/ Unblock
  \/ Finish \/ LeaveMode \/ RemoveTrap \/ EnableFails
  \/ UndoStop \/ UndoChecked \/ UndoGivesUp \/ UndoPersistent \/ UndoStaging
  \/ UndoBlock \/ UndoTrigger \/ Undone
  \/ DisableBegin \/ DisableStop \/ DisableChecked \/ DisableRefused
  \/ DisablePersistent \/ DisableStaging \/ DisableTrigger \/ DisableUnblock
  \/ DisableFails

(***************************************************************************)
(* The system unit.  SYSTEMD_WANTS of the udev rule starts it, and without *)
(* the systemd tag its BindsTo= may stop it; a daemon that fails, also     *)
(* because of a resume, is restarted until the start limit is hit, if the  *)
(* conditions still hold.                                                  *)
(***************************************************************************)
SysWanted ==
  /\ device = "wants"
  /\ device' = "settled"
  /\ sys' = IF Authorized /\ sys \in {"inactive", "failed"} THEN "starting" ELSE sys
  /\ UNCHANGED <<markers, user, pc, undo, late>>

SysUnbound ==
  /\ device = "gone"
  /\ device' = "settled"
  /\ sys' \in {sys, IF sys = "failed" THEN "failed" ELSE "inactive"}
  /\ UNCHANGED <<markers, user, pc, undo, late>>

SysReady ==
  /\ sys = "starting"
  /\ sys' = "active"
  /\ UNCHANGED <<markers, user, device, pc, undo, late>>

SysFails ==
  /\ SysRunning
  /\ sys' = "restart"
  /\ UNCHANGED <<markers, user, device, pc, undo, late>>

SysRestarts ==
  /\ sys = "restart"
  /\ sys' \in {"failed", IF Authorized THEN "starting" ELSE "inactive"}
  /\ UNCHANGED <<markers, user, device, pc, undo, late>>

\* The device vanishes and comes back.
Replug ==
  /\ sys' = IF sys = "failed" THEN "failed" ELSE "inactive"
  /\ device' = IF Authorized THEN "wants" ELSE "settled"
  /\ UNCHANGED <<markers, user, pc, undo, late>>

(***************************************************************************)
(* The user unit of a session: the conditions are checked first, the       *)
(* daemon is there a moment later.                                         *)
(***************************************************************************)
UserStarts(u) ==
  /\ user[u] = "stopped"
  /\ UserAllowed
  /\ user' = [user EXCEPT ![u] = "starting"]
  /\ UNCHANGED <<markers, sys, device, pc, undo, late>>

UserRuns(u) ==
  /\ user[u] = "starting"
  /\ user' = [user EXCEPT ![u] = "running"]
  /\ UNCHANGED <<markers, sys, device, pc, undo, late>>

\* It is stopped, or fails: a restart checks the conditions again.
UserStops(u) ==
  /\ user[u] # "stopped"
  /\ user' = [user EXCEPT ![u] = "stopped"]
  /\ late' = late \ {u}
  /\ UNCHANGED <<markers, sys, device, pc, undo>>

(***************************************************************************)
(* SIGKILL ends the helper where it is; a reboot ends everything.          *)
(***************************************************************************)
Kill ==
  /\ pc # "idle"
  /\ pc' = "idle"
  /\ undo' = {}
  /\ UNCHANGED <<markers, units>>

Reboot ==
  /\ markers' = markers \ RuntimeMarkers
  /\ sys' = "inactive"
  /\ user' = [u \in Users |-> "stopped"]
  /\ device' = IF "persistent" \in markers THEN "wants" ELSE "settled"
  /\ pc' = "idle"
  /\ undo' = {}
  /\ late' = {}

Next ==
  \/ Helper
  \/ SysWanted \/ SysUnbound \/ SysReady \/ SysFails \/ SysRestarts \/ Replug
  \/ \E u \in Users : UserStarts(u) \/ UserRuns(u) \/ UserStops(u)
  \/ Kill
  \/ Reboot

Spec == Init /\ [][Next]_vars

-----------------------------------------------------------------------------
Disabling ==
  {"disable stop", "disable check", "disable persistent", "disable staging",
   "disable trigger", "disable unblock", "refused"}
Blocking == {"enable flag block", "enable block"}
Enabling == Trapped \ Blocking
Undoing ==
  {"undo stop", "undo check", "undo persistent", "undo staging", "undo block",
   "undo trigger", "undone"}

\* Types; and no flag is set but while enable or its rollback is at work.
TypeOK ==
  /\ markers \subseteq MarkerFiles
  /\ sys \in {"inactive", "starting", "active", "restart", "failed"}
  /\ user \in [Users -> {"stopped", "starting", "running"}]
  /\ device \in {"settled", "wants", "gone"}
  /\ pc \in {"idle"} \cup Trapped \cup Undoing \cup Disabling
  /\ undo \subseteq {"enable", "block", "staging", "instance", "persistent"}
  /\ undo # {} => pc \in Trapped \cup Undoing
  /\ late \subseteq Users

(***************************************************************************)
(* While a helper is at work, from the moment it looks for daemons to the  *)
(* end or until its rollback has seen its instance stopped, and as long as *)
(* the staging marker of an interrupted one is left, no user unit can      *)
(* start (migrate:361-372, 423, 450-452, 466-476).                         *)
(***************************************************************************)
UserKeptOut ==
  (\/ pc \in Enabling \cup Disabling
   \/ pc \in {"undo stop", "undo check", "undo persistent"}
   \/ "staging" \in markers) => ~UserAllowed

(***************************************************************************)
(* README.md:152, "Do not run legacy and system daemons at the same time": *)
(* while system mode is authorized, its daemon and a user's do not run at  *)
(* the same time, unless that user's unit had passed its conditions before *)
(* the block was there and started its daemon after enable had looked.     *)
(***************************************************************************)
NeverBoth ==
  (Authorized /\ SysRunning) => \A u \in Users : user[u] = "running" => u \in late

(***************************************************************************)
(* A rollback that comes to its end leaves no marker, wherever enable      *)
(* failed and whatever happened to the daemons meanwhile, with one         *)
(* exception: a signal that finds staging_started reset already comes too  *)
(* late, and the mode that has been committed by then stays authorized, by *)
(* the persistent marker alone (migrate:346-385, 453-455).                 *)
(***************************************************************************)
TooLate == "persistent" \in undo /\ "staging" \notin undo

RolledBack ==
  pc = "undone" => markers = IF TooLate THEN {"persistent"} ELSE {}

(***************************************************************************)
(* "... could not be stopped" (migrate:471): disable refuses to go on only *)
(* over a unit that runs or is about to.                                   *)
(***************************************************************************)
RefusesOnlyRunning ==
  [][(pc = "disable check" /\ pc' = "refused") => sys # "failed"]_vars
=============================================================================
