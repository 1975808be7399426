------------------------------- MODULE Daemon -------------------------------
(***************************************************************************)
(* The life of the daemon: main and run (src/src/main.rs), the instance    *)
(* lock, the shutdown signal and the resume monitor (src/src/runtime.rs),  *)
(* the choice and the opening of the touchpad (src/src/evdev.rs), the      *)
(* configuration (src/src/config.rs) and the virtual devices               *)
(* (src/src/uinput.rs), for several daemons and one physical touchpad that *)
(* may be unplugged and plugged in again.                                  *)
(*                                                                         *)
(* The handshake of Startup and the pipeline of FrameProxy are one or two  *)
(* steps each here.  What a run holds is released in the reverse order of  *)
(* its construction, so each release is a step of its own.                 *)
(***************************************************************************)
EXTENDS Integers

CONSTANTS
  Daemons,
  Nodes,           \* /dev/input/event*
  Dirs,            \* values of RUNTIME_DIRECTORY and XDG_RUNTIME_DIR
  Nothing,         \* no node, no directory, no lock
  UsableDirs,      \* directories that pass validate_runtime_directory
  Environments,    \* for each daemon, the environments it may be started in
  Device,          \* for each daemon, --device or config.device, or Nothing
  ExplicitConfig,  \* daemons that are given --config
  ConfigFiles,     \* states of a configuration file: "valid", "invalid", "missing"
  ResumeThreshold, \* suspended time that counts as a resume (100 ms)
  MaxEvents        \* bound: things that happen from outside, and failing calls

RunEnvironments == [runtime : Dirs \cup {Nothing}, xdg : Dirs \cup {Nothing}]
Locks == Dirs \X Nodes

ASSUME DaemonAssumption ==
  /\ Nothing \notin Nodes \cup Dirs \cup Locks
  /\ UsableDirs \subseteq Dirs
  /\ Environments \in [Daemons -> SUBSET RunEnvironments]
  /\ Device \in [Daemons -> Nodes \cup {Nothing}]
  /\ ExplicitConfig \subseteq Daemons
  /\ ConfigFiles \subseteq {"valid", "invalid", "missing"}
  /\ ResumeThreshold \in Nat \ {0}
  /\ MaxEvents \in Nat

VARIABLES
  pad,    \* the physical pad: its node, or Nothing, and how often it was plugged in
  slept,  \* CLOCK_BOOTTIME - CLOCK_MONOTONIC
  events, \* things that have happened
  wanted, \* for each daemon, whether systemd starts it when it is off
  asked,  \* whether it has been asked to end, and systemd has to leave it off
  self    \* the processes

outside == <<pad, slept, events>>
vars == <<pad, slept, events, wanted, asked, self>>

Unplugged == 0
Virtual == -1

(***************************************************************************)
(* A process: what it does next, what it remembers and what it holds.      *)
(***************************************************************************)
Steps == {"off", "load", "signals", "select", "lock", "open", "vpad", "wheel", "takeover",
          "confirm", "ready", "monitor", "poll", "read signal", "hung up", "frames",
          "drop input", "drop wheel", "drop vpad", "drop lock", "drop signals", "end", "dying"}

Processes ==
  [pc : Steps,
   env : RunEnvironments,
   why : {"none", "shutdown", "resumed", "error"}, \* how the run ends
   masked : BOOLEAN,                   \* ShutdownSignal: SIGTERM and SIGINT blocked
   pending : BOOLEAN,                  \* ... and one of them pending
   path : Nodes \cup {Nothing},        \* device_path
   lock : Locks \cup {Nothing},        \* InstanceLock: directory and device number
   opened : Nat \cup {Virtual},        \* InputDevice: which plugging of the pad
   grabbed : BOOLEAN,                  \* GrabGuard
   vpad : Nodes \cup {Nothing},        \* UinputTouchpad: its node
   wheel : BOOLEAN,                    \* UinputWheel
   seen : Nat,                         \* ResumeMonitor.suspend_offset_ns
   ready : BOOLEAN,                    \* READY=1 has been sent by this process
   \* Bookkeeping for the properties, which no step of the code reads:
   since : Nat,                        \* suspended time when the loop began
   late : Nat]                         \* batches processed after a resume since then

Off ==
  [pc |-> "off", env |-> [runtime |-> Nothing, xdg |-> Nothing], why |-> "none",
   masked |-> FALSE, pending |-> FALSE, path |-> Nothing, lock |-> Nothing,
   opened |-> Unplugged, grabbed |-> FALSE, vpad |-> Nothing, wheel |-> FALSE,
   seen |-> 0, ready |-> FALSE, since |-> 0, late |-> 0]

Init ==
  /\ pad \in {[node |-> n, plug |-> 1] : n \in Nodes}
  /\ slept = 0
  /\ events = 0
  /\ wanted = [d \in Daemons |-> TRUE]
  /\ asked = [d \in Daemons |-> FALSE]
  /\ self = [d \in Daemons |-> Off]

At(d, step) == self[d].pc = step

\* A step of daemon d that changes nothing but its process.
Becomes(d, process) ==
  /\ self' = [self EXCEPT ![d] = process]
  /\ UNCHANGED <<outside, wanted, asked>>

\* The run of d ends: what it holds is dropped.
Ends(d, reason) == Becomes(d, [self[d] EXCEPT !.pc = "drop input", !.why = reason])

(***************************************************************************)
(* Devices.  A node is the pad's, a virtual touchpad's, or free.  The      *)
(* virtual touchpads carry the physical name and also match the pattern.   *)
(***************************************************************************)
FreeNodes == Nodes \ ({pad.node} \cup {self[d].vpad : d \in Daemons})

SourceAt(node) ==
  CASE node = pad.node -> pad.plug
    [] \E d \in Daemons : node = self[d].vpad -> Virtual
    [] OTHER -> Unplugged

IsConnected(d) == pad.node # Nothing /\ self[d].opened = pad.plug

(***************************************************************************)
(* What happens from outside.                                              *)
(***************************************************************************)
Happens == events < MaxEvents /\ events' = events + 1

Unplug ==
  /\ Happens
  /\ pad.node # Nothing
  /\ pad' = [pad EXCEPT !.node = Nothing]
  /\ UNCHANGED <<slept, wanted, asked, self>>

PlugIn ==
  /\ Happens
  /\ pad.node = Nothing
  /\ \E node \in FreeNodes : pad' = [node |-> node, plug |-> pad.plug + 1]
  /\ UNCHANGED <<slept, wanted, asked, self>>

\* A sleep may be too short to count as a resume on its own.
Suspend ==
  /\ Happens
  /\ \E time \in 1 .. ResumeThreshold : slept' = slept + time
  /\ UNCHANGED <<pad, wanted, asked, self>>

(***************************************************************************)
(* What systemd makes of the end of a process, both units being            *)
(* Type=notify with Restart=on-failure: an exit with 0 or a death by       *)
(* SIGTERM or SIGINT is a clean end, but before READY=1 it is a failure    *)
(* ("protocol") like any other.  A unit that is being stopped is not       *)
(* restarted whatever becomes of its process.                              *)
(***************************************************************************)
Restarts(d, clean) == wanted[d] /\ ~(clean /\ self[d].ready)

\* SIGTERM or SIGINT kills the process at once unless it has blocked them.
Signalled(d) ==
  self' = [self EXCEPT ![d] = IF self[d].pc \in {"off", "dying"} THEN @
                              ELSE IF @.masked THEN [@ EXCEPT !.pending = TRUE]
                              ELSE [@ EXCEPT !.pc = "dying"]]

\* ... sent by anyone but systemd.
Terminate(d) ==
  /\ Happens
  /\ self[d].pc \notin {"off", "dying"}
  /\ Signalled(d)
  /\ asked' = [asked EXCEPT ![d] = @ \/ self[d].ready]
  /\ wanted' = [wanted EXCEPT ![d] = IF self[d].masked THEN @ ELSE Restarts(d, TRUE)]
  /\ UNCHANGED <<pad, slept>>

\* systemctl stop.
StopRequest(d) ==
  /\ Happens
  /\ Signalled(d)
  /\ asked' = [asked EXCEPT ![d] = TRUE]
  /\ wanted' = [wanted EXCEPT ![d] = FALSE]
  /\ UNCHANGED <<pad, slept>>

\* SIGKILL, which counts as a failure whatever signal came before.
Kill(d) ==
  /\ Happens
  /\ self[d].pc \notin {"off", "dying"}
  /\ asked' = [asked EXCEPT ![d] = FALSE]
  /\ self' = [self EXCEPT ![d].pc = "dying"]
  /\ UNCHANGED <<pad, slept, wanted>>

StartRequest(d) ==
  /\ Happens
  /\ At(d, "off")
  /\ wanted' = [wanted EXCEPT ![d] = TRUE]
  /\ asked' = [asked EXCEPT ![d] = FALSE]
  /\ UNCHANGED <<pad, slept, self>>

(***************************************************************************)
(* systemd starts a wanted daemon.                                         *)
(***************************************************************************)
Start(d) ==
  /\ At(d, "off")
  /\ wanted[d]
  /\ \E e \in Environments[d] : Becomes(d, [Off EXCEPT !.pc = "load", !.env = e])

(***************************************************************************)
(* run: configuration, signals, device.                                    *)
(***************************************************************************)
\* Config::load: only an implicit file may be missing.
Loads(d, file) == file = "valid" \/ (file = "missing" /\ d \notin ExplicitConfig)

LoadConfig(d) ==
  /\ At(d, "load")
  /\ \E file \in ConfigFiles :
       IF Loads(d, file) THEN Becomes(d, [self[d] EXCEPT !.pc = "signals"])
       ELSE Ends(d, "error")

BlockSignals(d) ==
  /\ At(d, "signals")
  /\ Becomes(d, [self[d] EXCEPT !.pc = "select", !.masked = TRUE])

\* find_by_name takes the only candidate that is not virtual.
Candidates == {n \in Nodes : SourceAt(n) \notin {Unplugged, Virtual}}

\* Seeded fault: no search by name when no device is given.
FaultySelectDevice(d) ==
  /\ At(d, "select")
  /\ Becomes(d, [self[d] EXCEPT !.pc = "lock", !.path = Device[d]])

SelectDevice(d) ==
  /\ At(d, "select")
  /\ \/ /\ Device[d] # Nothing
        /\ Becomes(d, [self[d] EXCEPT !.pc = "lock", !.path = Device[d]])
     \/ /\ Device[d] = Nothing
        /\ \E n \in Candidates :
             /\ Candidates = {n}
             /\ Becomes(d, [self[d] EXCEPT !.pc = "lock", !.path = n])
     \/ /\ Device[d] = Nothing
        /\ \A n \in Nodes : Candidates # {n}
        /\ Ends(d, "error")

\* runtime_directory: a bad RUNTIME_DIRECTORY is not made up for by the other.
RuntimeDirectory(e) ==
  LET value == IF e.runtime # Nothing THEN e.runtime ELSE e.xdg
  IN  IF value \in UsableDirs THEN value ELSE Nothing

\* InstanceLock::acquire.  A lock that the process itself still held would
\* exclude it, too.
LockOf(d) == <<RuntimeDirectory(self[d].env), self[d].path>>

\* Seeded fault: the lock is a temporary, given up at once.
FaultyAcquireLock(d) ==
  /\ At(d, "lock")
  /\ IF /\ RuntimeDirectory(self[d].env) # Nothing
        /\ SourceAt(self[d].path) # Unplugged
        /\ \A e \in Daemons : self[e].lock # LockOf(d)
     THEN Becomes(d, [self[d] EXCEPT !.pc = "open"])
     ELSE Ends(d, "error")

AcquireLock(d) ==
  /\ At(d, "lock")
  /\ IF /\ RuntimeDirectory(self[d].env) # Nothing
        /\ SourceAt(self[d].path) # Unplugged
        /\ \A e \in Daemons : self[e].lock # LockOf(d)
     THEN Becomes(d, [self[d] EXCEPT !.pc = "open", !.lock = LockOf(d)])
     ELSE Ends(d, "error")

\* Seeded fault: the node is taken for the device that was selected.
FaultyOpen(d) ==
  /\ At(d, "open")
  /\ LET source == SourceAt(self[d].path)
     IN  IF source = Unplugged THEN Ends(d, "error")
         ELSE Becomes(d, [self[d] EXCEPT !.pc = "vpad", !.opened = source])

\* InputDevice::open looks again whether it is a physical device.
OpenDevice(d) ==
  /\ At(d, "open")
  /\ LET source == SourceAt(self[d].path)
     IN  IF source \in {Unplugged, Virtual} THEN Ends(d, "error")
         ELSE Becomes(d, [self[d] EXCEPT !.pc = "vpad", !.opened = source])

\* create_from_physical reads the pad's axes.
CreateTouchpad(d) ==
  /\ At(d, "vpad")
  /\ IF IsConnected(d)
     THEN \E node \in FreeNodes :
            Becomes(d, [self[d] EXCEPT !.pc = "wheel", !.vpad = node])
     ELSE Ends(d, "error")

CreateWheel(d) ==
  /\ At(d, "wheel")
  /\ Becomes(d, [self[d] EXCEPT !.pc = "takeover", !.wheel = TRUE])

(***************************************************************************)
(* The startup loop: a shutdown is read at its top and in its wait, a      *)
(* disconnected pad ends it, a grab held by another client is an error.    *)
(***************************************************************************)
IsGrabbedByOther(d) ==
  \E e \in Daemons \ {d} : self[e].grabbed /\ self[e].opened = self[d].opened

Grab(d) ==
  /\ At(d, "takeover")
  /\ ~self[d].pending
  /\ IsConnected(d)
  /\ IF IsGrabbedByOther(d) THEN Ends(d, "error")
     ELSE Becomes(d, [self[d] EXCEPT !.pc = "confirm", !.grabbed = TRUE])

HungUpAtStartup(d) ==
  /\ At(d, "takeover")
  /\ ~self[d].pending
  /\ ~IsConnected(d)
  /\ Ends(d, "error")

ShutdownAtStartup(d) ==
  /\ At(d, "takeover")
  /\ self[d].pending
  /\ self' = [self EXCEPT ![d] = [@ EXCEPT !.pc = "drop input", !.why = "shutdown",
                                           !.pending = FALSE]]
  /\ UNCHANGED <<outside, wanted, asked>>

\* Seeded fault: the grab is released although the pad was found quiet.
FaultyConfirmGrab(d) ==
  /\ At(d, "confirm")
  /\ IF IsConnected(d)
     THEN Becomes(d, [self[d] EXCEPT !.pc = "ready", !.grabbed = FALSE])
     ELSE Ends(d, "error")

ConfirmGrab(d) ==
  /\ At(d, "confirm")
  /\ IF IsConnected(d) THEN Becomes(d, [self[d] EXCEPT !.pc = "ready"])
     ELSE Ends(d, "error")

RetryGrab(d) ==
  /\ At(d, "confirm")
  /\ IsConnected(d)
  /\ Becomes(d, [self[d] EXCEPT !.pc = "takeover", !.grabbed = FALSE])

(***************************************************************************)
(* systemd is told that the daemon is ready, after the first run only      *)
(* effectively.  run_event_loop: the resume monitor starts; then, after    *)
(* each poll, a resume, a signal, a disconnect and input are looked at in  *)
(* this order.                                                             *)
(***************************************************************************)
NotifyReady(d) ==
  /\ At(d, "ready")
  /\ Becomes(d, [self[d] EXCEPT !.pc = "monitor", !.ready = TRUE])

StartMonitor(d) ==
  /\ At(d, "monitor")
  /\ Becomes(d, [self[d] EXCEPT !.pc = "poll", !.seen = slept,
                                  !.since = slept, !.late = 0])

HasResumed(d) == slept - self[d].seen >= ResumeThreshold

\* Seeded fault: every observation moves the baseline.
FaultyObserve(d) == slept

\* ResumeMonitor::observe keeps the baseline, so that short sleeps add up.
Observe(d) == self[d].seen

Poll(d) ==
  /\ At(d, "poll")
  /\ IF HasResumed(d) THEN Ends(d, "resumed")
     ELSE Becomes(d, [self[d] EXCEPT
            !.seen = Observe(d),
            !.pc = IF self[d].pending THEN "read signal"
                   ELSE IF ~IsConnected(d) THEN "hung up" ELSE "frames"])

\* read_requested takes the signal.
ReadSignal(d) ==
  /\ At(d, "read signal")
  /\ Becomes(d, [self[d] EXCEPT !.pc = "drop input", !.why = "shutdown", !.pending = FALSE])

\* Seeded fault: a hang-up is taken for a wake-up without input.
FaultyHungUp(d) ==
  /\ At(d, "hung up")
  /\ Becomes(d, [self[d] EXCEPT !.pc = "poll"])

HungUp(d) ==
  /\ At(d, "hung up")
  /\ Ends(d, "error")

\* poll_frames, or the frame of a liveness check, and process_and_emit.
ProcessBatch(d) ==
  /\ At(d, "frames")
  /\ IF IsConnected(d)
     THEN Becomes(d, [self[d] EXCEPT
            !.pc = "poll",
            !.late = IF slept - self[d].since >= ResumeThreshold THEN @ + 1 ELSE @])
     ELSE Ends(d, "error")

(***************************************************************************)
(* Any call may fail; a write may fail between the wheel and the touchpad. *)
(***************************************************************************)
Fallible == {"signals", "select", "lock", "open", "vpad", "wheel", "takeover", "confirm",
             "ready", "monitor", "poll", "read signal", "frames"}

CallFails(d) ==
  /\ Happens
  /\ self[d].pc \in Fallible
  /\ self' = [self EXCEPT ![d] = [@ EXCEPT !.pc = "drop input", !.why = "error"]]
  /\ UNCHANGED <<pad, slept, wanted, asked>>

(***************************************************************************)
(* The end of run: what it holds goes in the reverse order.  Restoring the *)
(* signal mask delivers a pending signal, which ends the process.          *)
(***************************************************************************)
DropInput(d) ==
  /\ At(d, "drop input")
  /\ Becomes(d, [self[d] EXCEPT !.pc = "drop wheel", !.grabbed = FALSE, !.opened = Unplugged])

DropWheel(d) ==
  /\ At(d, "drop wheel")
  /\ Becomes(d, [self[d] EXCEPT !.pc = "drop vpad", !.wheel = FALSE])

DropTouchpad(d) ==
  /\ At(d, "drop vpad")
  /\ Becomes(d, [self[d] EXCEPT !.pc = "drop lock", !.vpad = Nothing])

\* Seeded fault: the lock lives as long as the process.
FaultyDropLock(d) ==
  /\ At(d, "drop lock")
  /\ Becomes(d, [self[d] EXCEPT !.pc = "drop signals"])

DropLock(d) ==
  /\ At(d, "drop lock")
  /\ Becomes(d, [self[d] EXCEPT !.pc = "drop signals", !.lock = Nothing])

\* Seeded fault: what is pending is read away before the mask is restored.
FaultyDropSignals(d) ==
  /\ At(d, "drop signals")
  /\ Becomes(d, [self[d] EXCEPT !.pc = "end", !.masked = FALSE, !.pending = FALSE])

DropSignals(d) ==
  /\ At(d, "drop signals")
  /\ self' = [self EXCEPT ![d] = [@ EXCEPT !.masked = FALSE, !.pending = FALSE,
                                           !.pc = IF self[d].pending THEN "dying" ELSE "end"]]
  /\ wanted' = [wanted EXCEPT ![d] = IF self[d].pending THEN Restarts(d, TRUE) ELSE @]
  /\ UNCHANGED <<outside, asked>>

\* main: a resume runs again, an error exits with 1, a shutdown with 0.
RunAgain(d) ==
  /\ At(d, "end")
  /\ self[d].why = "resumed"
  /\ Becomes(d, [self[d] EXCEPT !.pc = "load", !.why = "none"])

Exit(d) ==
  /\ At(d, "end")
  /\ self[d].why # "resumed"
  /\ self' = [self EXCEPT ![d] = Off]
  /\ wanted' = [wanted EXCEPT ![d] = Restarts(d, self[d].why = "shutdown")]
  /\ UNCHANGED <<outside, asked>>

\* The kernel closes what a killed process held, in no order one could rely on.
Reap(d) ==
  /\ At(d, "dying")
  /\ \/ Becomes(d, [self[d] EXCEPT !.grabbed = FALSE, !.opened = Unplugged])
     \/ Becomes(d, [self[d] EXCEPT !.wheel = FALSE, !.vpad = Nothing])
     \/ Becomes(d, [self[d] EXCEPT !.lock = Nothing])
  /\ self' # self

Reaped(d) ==
  /\ At(d, "dying")
  /\ self[d].opened = Unplugged /\ self[d].vpad = Nothing /\ self[d].lock = Nothing
  /\ ~self[d].grabbed /\ ~self[d].wheel
  /\ Becomes(d, Off)

Run(d) ==
  \/ Start(d) \/ LoadConfig(d) \/ BlockSignals(d) \/ SelectDevice(d) \/ AcquireLock(d)
  \/ OpenDevice(d) \/ CreateTouchpad(d) \/ CreateWheel(d)
  \/ ShutdownAtStartup(d) \/ HungUpAtStartup(d) \/ ConfirmGrab(d) \/ RetryGrab(d)
  \/ NotifyReady(d) \/ StartMonitor(d) \/ Poll(d) \/ ReadSignal(d) \/ HungUp(d) \/ ProcessBatch(d)
  \/ DropInput(d) \/ DropWheel(d) \/ DropTouchpad(d) \/ DropLock(d) \/ DropSignals(d)
  \/ RunAgain(d) \/ Exit(d) \/ Reap(d) \/ Reaped(d)

Outside ==
  \/ Unplug \/ PlugIn \/ Suspend
  \/ \E d \in Daemons : Terminate(d) \/ StopRequest(d) \/ Kill(d) \/ StartRequest(d)

Next ==
  \/ Outside
  \/ \E d \in Daemons : Run(d) \/ Grab(d) \/ CallFails(d)

Spec == Init /\ [][Next]_vars

(***************************************************************************)
(* Every process runs on, none waits for another, and systemd restarts     *)
(* what it wants.  Only the grab may never come: it waits for the pad to   *)
(* be quiet.                                                               *)
(***************************************************************************)
FairSpec == Spec /\ \A d \in Daemons : WF_vars(Run(d))

-----------------------------------------------------------------------------
Ending == {"drop input", "drop wheel", "drop vpad", "drop lock", "drop signals", "end"}
PastLock == {"open", "vpad", "wheel", "takeover", "confirm", "ready", "monitor",
             "poll", "read signal", "hung up", "frames"}
PastSelection == PastLock \cup {"lock"}

TypeOK ==
  /\ pad \in [node : Nodes \cup {Nothing}, plug : Nat \ {0}]
  /\ slept \in Nat
  /\ events \in Nat
  /\ wanted \in [Daemons -> BOOLEAN]
  /\ asked \in [Daemons -> BOOLEAN]
  /\ self \in [Daemons -> Processes]
  /\ \A d \in Daemons : self[d].pc \in PastSelection => self[d].path \in Nodes

(***************************************************************************)
(* Daemons that find the same directory and the same device never meet on  *)
(* the pad: while one holds the grab no other is past its lock, not even   *)
(* while the first one ends, fails or starts again inside its process      *)
(* (main.rs run, runtime.rs InstanceLock).  A process that is being killed *)
(* is excepted: the kernel may give up its lock before its grab.           *)
(***************************************************************************)
SiblingsNeverMeet ==
  \A d, e \in Daemons :
    (d # e /\ self[d].grabbed /\ ~At(d, "dying") /\ self[e].pc \in PastLock) =>
      LockOf(d) # LockOf(e)

(***************************************************************************)
(* Daemons of different users or modes have different locks; the pad is    *)
(* proxied by one of them all the same (evdev.rs:362-395).                 *)
(***************************************************************************)
InLoop(d) == self[d].pc \in {"ready", "monitor", "poll", "read signal", "hung up", "frames"}

OneProxy ==
  \A d, e \in Daemons :
    (d # e /\ InLoop(d) /\ InLoop(e)) => self[d].opened # self[e].opened

(***************************************************************************)
(* No daemon ever reads a virtual touchpad, its own or another's, although *)
(* their names match and a virtual touchpad may take over the node of a    *)
(* pad that was unplugged after it was selected (evdev.rs:407-424,         *)
(* 776-791).                                                               *)
(***************************************************************************)
NoFeedback == \A d \in Daemons : self[d].opened # Virtual

(***************************************************************************)
(* A run, the first or one after a resume, starts with nothing held by the *)
(* process: it cannot be locked out by itself (main.rs:41-55).             *)
(***************************************************************************)
HoldsNothing(d) ==
  /\ self[d].lock = Nothing /\ self[d].opened = Unplugged /\ ~self[d].grabbed
  /\ self[d].vpad = Nothing /\ ~self[d].wheel /\ ~self[d].masked

RunsStartClean == \A d \in Daemons : At(d, "load") => HoldsNothing(d)

(***************************************************************************)
(* Contact states from before a suspend reach the virtual pad at most once *)
(* after it: by the batch that was on its way when the system went to      *)
(* sleep, be it one sleep or several short ones (main.rs:302-309,          *)
(* runtime.rs:44-51).                                                      *)
(***************************************************************************)
OneLateBatch == \A d \in Daemons : self[d].late <= 1

(***************************************************************************)
(* A daemon that has announced READY=1 and is then sent SIGTERM or SIGINT, *)
(* or that systemd is asked to stop, is not started again, also when it    *)
(* was just starting over after a resume or failing at the time            *)
(* (runtime.rs:89-93, main.rs:44-54, Type=notify and Restart=on-failure of *)
(* both units).  Before READY=1 such a signal makes systemd start it anew. *)
(***************************************************************************)
AskedStaysOff == \A d \in Daemons : (asked[d] /\ At(d, "off")) => ~wanted[d]

(***************************************************************************)
(* A daemon that is asked to end, whose pad was unplugged or that finds    *)
(* that the system slept lets go of everything, wherever it is: a new pad  *)
(* on the same node finds its lock free, and after a resume all devices    *)
(* are made anew (main.rs:219-276, 302-360).                               *)
(***************************************************************************)
MustEnd(d) ==
  \/ self[d].pending
  \/ self[d].opened # Unplugged /\ ~IsConnected(d)
  \/ At(d, "poll") /\ HasResumed(d)

LetsGo == \A d \in Daemons : MustEnd(d) ~> HoldsNothing(d)
=============================================================================
