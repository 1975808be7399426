# letsnote-wheelpad: specifications, model checking and proofs

letsnote-wheelpad turns circular motion on a Let's Note touchpad into wheel
events. One daemon per touchpad grabs the physical evdev node, forwards ordinary
input through a virtual touchpad, and holds back the one contact that scrolls.
This directory models that daemon and the helper that migrates it between user
and system mode, in TLA+, checks the models with TLC and proves theorems about
them with TLAPS. Paths below are relative to the repository root; `migrate` is
`packaging/migrate/letsnote-wheelpad-migrate`.

## 1. Inventory

| Component | State it keeps | Operations | What must hold |
|---|---|---|---|
| Gesture state machine, `src/fsm.rs` | Idle, Contact, Moving, Scrolling or Debounce, with the tracked contact | `step` per frame | a contact from the dead zone never scrolls; one scroll, one contact |
| Circular detector, `src/detector.rs` | last 20 samples, last stored sample, accumulated angle | `on_gesture_start`, `push_if_moved`, `step` | output proportional to the turn, in its direction, and of this scroll only |
| Physical input, `src/evdev.rs` | fetched events, `FrameState` (slots, selected slot, BTN_TOUCH, buttons) | `poll_frames`, `reconcile_frame`, `query_frame_state` | the state is the pad's once everything is read; a lost frame is made up for |
| Router, `src/router.rs` | its own selected slot and tracking ids | `route_frame`, `reconcile` | exactly the captured contact's positions are held back |
| Frame processor, `src/proxy.rs` | FSM, detector and router | `process_frame` | the tracked contact is followed, not its slot |
| Virtual devices, `src/uinput.rs` | what was written to them | `forward`, `select_mt_slot`, `emit_v`, `emit_h` | no finger stays behind on the virtual pad |
| Daemon lifecycle, `main` and `run` of `src/main.rs` | what a run has acquired so far | configuration, signals, lock, devices, grab, loop, drops in reverse order, run again or exit | one daemon per pad; nothing held by a daemon that must end; no feedback |
| Startup, `src/main.rs`, `StartupCoordinator` | grab, last queried state, two readiness facts | drain, query, inspect, grab, confirm, release | no touch is cut off from its readers; no wake-up is lost |
| Event loop, `src/main.rs` | none of its own | poll, liveness check, exits | every scroll ends; what was observed is shown in order |
| Runtime, `src/runtime.rs` | signalfd and old mask, instance lock, suspend offset | `read_requested`, `acquire`, `resumed` | a shutdown request is not lost; locks exclude siblings; short sleeps add up |
| Configuration, `src/config.rs`, `src/error.rs` | none | load, validate | only an implicit file may be missing; the rest is unit tested |
| Migration helper, `migrate` | three marker files | `enable`, `disable`, rollback, `status` | modes exclude each other; interruptions can be recovered from |
| Units and udev rules, `packaging/systemd`, `packaging/udev` | unit states, device tags | start, restart, bind | they follow the markers |
| Package scripts, `packaging/{deb,rpm,arch,aur}` | none | removal guards, udev refresh | a running daemon keeps its package |

How they interact. The kernel fills the client buffer of the node while the
daemon, a single thread, is between two system calls. `poll_frames` cuts the
events into frames; a frame with SYN_DROPPED is replaced by a query of five
ioctls and a synthetic frame that leads from the old state to the queried one;
the liveness check of a scroll does the same once a second. `process_frame` shows
the tracked contact to the FSM, which drives the detector, and routes the frame's
events. Three copies of the slot state (`FrameState`, `Router`, the virtual pad)
have to agree although only the frames connect them. Daemons of different users
or modes meet at the node only: their locks are different files unless they share
a runtime directory, and the grab is the kernel's. The helper, systemd, udev
and the users' units share nothing but the marker files.

What is hard: reports between any two ioctls of a query, batches that end inside
a frame, buffers that overflow inside a report, events fetched before a query and
applied after it, slots that are reused while tracked, the race between "nothing
is touched" and the grab, waits without a timeout, angles that wrap, a pad that is
replaced on the same node, suspends and signals at any call, and a migration
killed between any two commands. `PROJECT.json` lists them at their
lines, each with the properties that cover it.

## 2. Modules

| Module | Models |
|---|---|
| `TypeB` | `FrameState`, `ContactSnapshot`, `apply_event`, `reconciliation_events`: operators only |
| `WheelFsm` | `Fsm::step` as a function of the state and a touch frame |
| `Router` | the router and what reaches the virtual pad |
| `KernelPad` | the touchpad, the evdev client buffer and EVIOCGKEY (external, from how `src/` uses them) |
| `FrameProxy` | the running daemon: composes the four above with `poll_frames`, the query and the loop |
| `PadCopy` | abstract: the virtual pad shows views of the pad in order, none skipped, until the daemon stops |
| `Detector` | the circular detector, as operators |
| `Gesture` | one finger, `WheelFsm` and `Detector`, frame by frame, with the wheel output |
| `Startup` | from the opened device to READY=1, with the pad's other readers and signals |
| `Daemon` | the life of several daemons over one pad: `main`, `run`, locks, devices, signals, suspends, systemd |
| `Migration` | the helper, the system unit, any number of user units, udev, kills and reboots |
| `MCFrameProxy`, `MCGesture`, `MCStartup`, `MCDaemon` | geometry and constants of the small instances |
| `TypeB_proofs` | lemmas on functions defined by recursion over an initial segment, on applying events and on reconciliation |
| `KernelPad_proofs` | lemmas on reports, the client buffer and what a reader of it is going to see |
| `FrameProxy_proofs`, `CatchUp_proofs`, `Gesture_proofs`, `Startup_proofs`, `Daemon_proofs`, `Migration_proofs` | theorems |

Operators named `Faulty...` are seeded faults, each before the definition it
would replace; no specification uses them. Putting one in that place makes TLC
find the property it is listed with in `PROJECT.json` violated, which shows that
the property depends on the code that the definition stands for.

### FrameProxy: state and steps

`phys`, `next`, `reports` and `queue` are the kernel's; `pending`, `fs`, `kind`
and `answer` belong to `InputDevice` (`answer` is the half-filled result of a
query, `kind` its purpose); `frames` is the vector between `poll_frames` and
`process_and_emit`; `fsm` and `router` are the processor's; `vpad` is what a
reader of the virtual touchpad believes. `pc` says which system call is next.
`Fetch` is `fetch_events`, `Assemble...` one turn of the loop in `poll_frames`,
`QuerySlot` to `QueryYs` the ioctls, `ProcessFrame` is `process_and_emit`.
`LoopEnds` is every other way out of the loop, at any call; `LoopMayEnd` switches
it on. The loop starts with `fs` as confirmed by the startup, whose slots hold the
positions of earlier contacts (`Leftover`) while those of the virtual pad hold
their own (`Origin`), and with the virtual slot aligned by `SelectMtSlot`.

`FrameProxy` implements `PadCopy` (`Copy`): the backlog is the list of assembled
frames, the copy is what the virtual pad shows of slot, contacts and BTN_TOUCH.
`CopiesInOrder` is the safety part, `CopiesAll` adds that what was observed is
shown.

### Startup: state and steps

`others` is what programs without the grab believe, `startup` the
`StartupCoordinator`. `CallFails` stands for an error of any call before the
notification: the query after the grab is followed by an ungrab, and what else is
held goes with the device or the `GrabGuard` that owns it. `quiet` and `raced`
are bookkeeping for properties.

### Gesture: state and steps

Each step is a frame: a touchdown, a move, a rest, a lift or a frame without any
finger. `touchdown`, `unseen`, `moves`, `senses`, `turned` and `scrolled` are
bookkeeping. Places lie on two rings of 24 around a center, so that bearings and
the directions between places are whole fractions of half a turn.

### Daemon: state and steps

`self[d]` is the process of daemon `d`: its next call `pc`, what it remembers
(`path`, `why`, `seen`) and what it holds (`masked`, `lock`, `opened`, `grabbed`,
`vpad`, `wheel`). `pad` is the physical pad with its node and a count that tells
one plugging from the next, `slept` the difference of the clocks, `wanted` what
systemd starts; `asked`, `since` and `late` are bookkeeping. A virtual touchpad
occupies a node like the pad does and its name matches the pattern as well, so a
node may change hands between the selection and the opening of a device. Every
way out of `run` goes through the drops, one step each, in the reverse order of
construction. The drop of the signal mask delivers what is pending. The handshake
is `Grab`, `ConfirmGrab` and `RetryGrab`; `NotifyReady` sends READY=1; a batch of
frames is `ProcessBatch`. Both units are `Type=notify` with `Restart=on-failure`, so
what systemd makes of the end of a process depends on `ready` (`Restarts`): a clean
exit or a death by SIGTERM or SIGINT ends the unit only after READY=1, and is a
failure that restarts it before. `StopRequest` is `systemctl stop`, which switches
the unit off in any case; `Terminate` is the same signal from anyone else.

### Migration: state and steps

`markers` are the files, `undo` the flags of `cleanup_failure`, `sys` the unit's
state with its restart delay and the failed state of the start limit, `device`
what systemd still has to do about the last udev event. Since `acquire_lock` lets
one helper work at a time there is one program counter. Every command is a step, and
so is every assignment to a flag that the rollback reads (`FlagBlock` to `FlagCommit`,
`Finish`, `LeaveMode`), because the traps are armed in between: a signal can arrive
after a file is made and before its flag is set, or between `staging_started=0` and
`cleanup_mode=` at the end (`migrate:453-454`). Which branch of `cleanup_failure` then
runs is decided in `Cleanup`, from the flags alone.

## 3. Runs

| Run | Shows | Distinct states |
|---|---|---|
| `proxy_lossless` | nothing lost, no scroll: the daemon and the virtual pad catch up with the pad, however frames are cut; a slot out of range ends the daemon | 589,000 |
| `proxy_lossy` | reports of two fingers, overflows and torn queries: three copies in sync, no finger left behind, a capture freezes one contact and no other, the tracked contact is kept; `FrameProxy` implements `PadCopy`, and shows what it observed unless it ends; a scroll whose contact is gone ends | 588,000 |
| `gesture` | a finger that creeps, circles, turns or crosses the center, one contact after another: direction, proportional output, the dead-zone trap, no tick without travel | 229,000 |
| `startup` | the handshake, with all its safety and liveness properties | 450,000 |
| `daemon` | two daemons over one pad: locks, grab, virtual devices, replugging, suspends, signals, kills, failing calls | 611,000 |
| `migration` | the migration under failures, signals, kills and reboots | 12,000 |

Six runs refute what the repository says of the program:

- `proxy_lost_button`: a reconciliation emits no button events, and its
  EVIOCGKEY discards those queued: a press or release is lost for the virtual pad
  (`src/evdev.rs:730`; `README.md:168`).
- `proxy_lost_finger`: events fetched before a query are applied after it, to the
  slot the query found selected (`src/evdev.rs:436`; `README.md:168`).
- `proxy_capture_leak`: a report of two fingers fetched before a query is replayed
  onto the slot the query found selected, and the position of one finger moves the
  other, which is captured (`src/evdev.rs:436`; `src/proxy.rs:49-51`).
- `proxy_slip_back`: after a capture ends in the dead zone, an axis that moved
  only during the capture stays stale (`src/proxy.rs:46`;
  `tests/routing_synthetic.rs:141`).
- `gesture_coasting`: frames of a resting finger repeat the last mean turn
  (`src/fsm.rs:244`; `README.md:164`).
- `migration_failed_unit`: `disable` refuses a unit that has failed, as if it
  could not be stopped (`migrate:470`; `migrate:416`, `README.md:116`).

Bounds, and why they are enough:

- Two slots: a tracked contact and another one, below or above it; every rule of
  the router and of `for_contact` compares one slot with another.
- Four reports (five where runs of one finger refute a property), a buffer of seven
  or eight events, batches of four: a report with two fingers has up to nine events,
  so it is cut by a batch and by the end of the buffer, and one query can be torn by
  several reports.
- Two or more tracking ids (`MaxTouches`): a slot is reused. Ids are not reused;
  the kernel's counter wraps after 65536 touches.
- Three places for the finger: the dead zone and two points a sweep apart;
  `proxy_lossy` does without the dead zone, where nothing is captured.
- Two fingers per report (`FingersPerReport`) in every run whose properties must hold;
  one where reports of one finger refute a property. In `proxy_lossy` frames are
  replayed onto the wrong slot, but five reports are needed for one to move a captured
  contact: `proxy_capture_leak` has them, with three tracking ids and one schedule
  (`LateReader`: the daemon first reads an overflowed buffer, the pad does not report
  during the query), which restricts what the run searches, not what it finds.
- The history holds 6 samples instead of 20: enough for four turns, which have a
  rejected turn at any position among them. Ten frames fill it and let a
  scroll engage, tick, end and start again.
- Two daemons, three nodes and three runtime directories for `Daemon`: the daemons
  are started with the same directory or with different ones; the pad, both virtual
  pads and a free node compete for the three nodes.
  Two things happen from outside (`MaxEvents`), failing calls included, at any
  step of either: unplugging and plugging in again, two short sleeps, a failure of
  one daemon while the other runs. The threshold of a resume is two units of sleep.
- Two sessions for `Migration`; its other state is finite without bounds.

Deadlock is checked except in `Gesture`, whose frames run out, in `Startup`, which
ends in `run` or `exit`, and in `Daemon`, whose daemons may all be switched off.

Fairness. In `FrameProxy` it is weak fairness of each kind of call: fetching or the
timeout of a scroll, assembling, querying, and taking a frame off the list. The
calls do not block except for poll, and poll returns when input is there or after a
second, so a turn of the loop that is begun is finished. In `Startup` it is weak
fairness of the daemon's steps together, of which poll alone waits, without a timeout,
for input or a signal, as its guards say; a failing call is not among them, so that
no failure is needed for progress. In `Daemon` it is weak fairness of each process,
including its start by systemd when it is wanted and the kernel's part in the end
of a killed one, but not of the grab, which waits for the pad to be quiet. Nothing
is assumed of the touchpad, the finger, signals, failures or users. `TakesOver`
needs the pad to be left alone from some point on, which it states.

## 4. Theorems

Proved for all values of the constants (numbers of slots, positions, geometry,
buffer and batch sizes, bounds, sessions) from the named assumptions the modules
declare, which say that the constants have their types, that the sentinels
differ from the values they stand next to and, of the geometry of `Gesture`, that a
place is within the dead band of itself and no sweep away from itself:

- `FrameProxy_proofs`: `TypeCorrect` (`TypeOK`), `InSync` (`ProxyInSync`),
  `Tracked` (`TrackedContactKept`), `CopiesSound` (`CopiesInOrder`).
- `CatchUp_proofs`: `FingersLift` (`NoStuckFinger`), `CaptureHolds`
  (`CaptureFreezes`), `CaptureHoldsNothingElse` (`CaptureIsLocal`); where nothing
  overflows and scrolling is off (`Lossless`), `ViewCatchesUp` (`CaughtUp`),
  `FingersCatchUp` (`FingersCaughtUp`), `ButtonsCatchUp` (`ButtonsCaughtUp`) and
  `PointerCatchesUp` (`PointerFollows`).
- `Gesture_proofs`: `TypeCorrect`, `ProportionSound` (`ProportionalScroll`),
  `TrapSound` (`TrapHolds`), `TravelSound` (`TickNeedsTravel`); for a geometry that
  bends with the finger, `OneWaySound` (`OneWayScroll`).
- `Startup_proofs`: `TypeCorrect`, `ReadySound` (`ReadyMeansUntouched`),
  `ExitSound` (`ExitReleases`), `OthersSound` (`OthersLetGo`); where nothing
  overflows and no slot is out of range (`SoundPad`), `QueueSound`
  (`QueueCarriesOn`).
- `Daemon_proofs`: `TypeCorrect`, `SiblingsApart` (`SiblingsNeverMeet`),
  `SingleProxy` (`OneProxy`), `NeverFeedsBack` (`NoFeedback`), `CleanStarts`
  (`RunsStartClean`), `LateOnce` (`OneLateBatch`), `StaysOff` (`AskedStaysOff`).
- `Migration_proofs`: `TypeCorrect`, `KeptOut` (`UserKeptOut`), `OneMode`
  (`NeverBoth`), `RollbackSound` (`RolledBack`).

`ProxyInSync` speaks only of states without frames in between, so it is not
inductive. The invariant `Inv` adds `Chain`: the router is the virtual pad's, and
the queued frames form a chain in which the events of each lead from the contacts
of the one before, at first from the virtual pad, to its own, the last being `fs`.
Appending a frame extends the chain because `apply_event` over the frame, or
`reconciliation_events` over a queried state, has that effect
(`TypeB_proofs!ReconciliationEffect`); processing one takes off its head because
routing moves router and virtual pad in lockstep whatever is suppressed
(`RouteFrameLockStep`). Both rest on the first part of `TypeB_proofs`, which gets
induction over the prefix functions of frames out of set induction.

`CopiesSound` shows that `FrameProxy` implements `PadCopy` under the refinement
mapping: appending a frame is `Observe`, processing one is `Show`, because by
`Chain` the head of the backlog is what the virtual pad shows afterwards, the exits
are `Stop`, and every other step leaves backlog and copy alone.

`CaughtUp` and its kin speak of a drained daemon, so their invariants have to know
what it is going to make of what it has not read. `KernelPad_proofs` calls that the
outlook (`Outlook`): the state that applying the unread events leads to, where the
SYN_REPORT after a SYN_DROPPED stands for the query that will be made then. Its lemmas
say how a report, an overflow (`PushReportEffect`) and EVIOCGKEY (`FlushOutlook`)
change the outlook, and that outlooks from related pads stay related (`Alike`). The
invariant of `FingersLift` is `Framed`, which says that unread input ends with a
whole report and that a query is made only when one is due, and `Foreseen`, the part of
the outlook that survives losses and torn queries: unless it is an error it has the
slot of the pad selected and no finger that the pad does not have (`Inside`). While a
query is under way it starts from what the query will have found (`Base`). The
equalities of the other four need `KeepingUp`, by which the outlook is the pad itself,
and `Trail`, by which the virtual pad is behind the daemon's state by the queued
frames and by axis values from before the takeover.

The router decides from the contact it believes in the selected slot which position
event to hold back. In a slot where the frame names its contact before it places it
(`NamesFirst`), that is the contact the slot holds after the frame, so what is held
back is exactly the captured contact's (`RouteFrameHeldBack`, by induction over the
events, slot by slot). A report of the kernel is such a frame, and so is what a
reconciliation builds, slot by slot, each slot selected first (`ReconciliationOrder`,
kept for the frames in the list by `RebuiltPlaced`). A report that was queued before a
query need not be: it starts without naming the slot that was selected then, and is
applied to the slot that the query found selected. `CaptureFreezes` and
`CaptureIsLocal` except the slots in which such a frame, read and not rebuilt, is
`Misplaced`; the theorems have no other premise. That the exception is needed, and
that a captured contact then really jumps, is what `proxy_capture_leak` shows.

In `Gesture`, `GInv` has three parts besides the types. `Trap` follows a contact
through the states of the gesture. `Travel` says that the history of a scroll holds
no more samples than the finger has moved: a finger that rests is within the dead
band of the last stored sample, so its frames store nothing, and engaging takes a
first movement. `Balance` is the account of a scroll: the turn so far and the full
turns emitted differ by what is in the accumulator. It is kept because the drain
loops take off a full turn per tick (`DrainedType`), which end because a least
number of full turns exists, and because axis and sign lose no tick (`TicksAdd`).

`OneWaySound` is about what the code adds to the geometry. In general a finger can
zigzag outwards and inwards while it goes one way around the center, and then its
turns go either way. `Bends` names what excludes that: where the finger can creep
within the dead band of a sample, and the next sample it stores, are such that a turn
of three consecutive samples is rejected or goes the finger's way. `MCGesture` states
that its rings bend (`RingBends`), and TLC evaluates it. The invariant `Winds` says
that the history of a scroll consists of such samples; then no counted turn goes the
other way, neither does their mean, and from an accumulator within half a turn such
a mean is not drained the other way (`DrainedWay`). A repeated frame, a full
history and the samples of an earlier contact make no difference.

In `Startup`, `Inv` says which part of a query is done at which call and what it
can have seen: if the pad has been quiet at no instant since the grab, the keys or
ids read since then show it. BTN_TOUCH is on exactly while a contact is, so the key
read and the id read cannot both miss a contact that stays.

`QueueSound` adds `Carried`, on the outlook over the queue from what the query under
the grab will have found: it has no finger that the pad does not have; once the keys
are read it has the pad's BTN_TOUCH, because EVIOCGKEY takes older key events out of
the queue; and once the ids are read and show no contact it has the pad's contacts:
reports from before the query replay to no contact, and later ones lead from there to
the pad as it is.

In `Daemon`, `IInv` has two kinds of parts. Of one process (`Holds`, `Remembers`,
`Obeys`): at which calls it holds what, so that each drop finds exactly what was
acquired and a new run nothing; that between two polls the loop is at most one
batch behind the clocks; that a signal that was asked for is pending or on its way
to `Off`. Of two (`LocksApart`, `GrabsApart`): equal locks are not held twice, nor
is one pad grabbed twice. `SiblingsNeverMeet` follows from the first of these
because a grab is only held under the lock, and `OneProxy` from the second because
the loop only runs under the grab.

In `Migration`, `IInv` says which markers exist at each command (`Progress`), that
the staging marker never stands without the user block (`BlockFirst`), and that in
an authorized state every session whose unit is not stopped is one that had passed
its conditions before the block was there (`OnlyLate`). `RolledBack` has one exception,
`TooLate`: after `staging_started=0` the rollback no longer takes the migration for
begun and withdraws the user block only, so a signal handled before `cleanup_mode=`
leaves the persistent marker behind although `enable` exits with 1.

Checked by TLC only: liveness (`ScrollEnds`, `CopiesAll`, `TakesOver`, `ShutdownEndsWait`,
`LetsGo`), which tlapm cannot prove. The premises of the theorems above are not gaps of
the proofs: `proxy_lost_finger` and `proxy_lost_button` refute two of the properties
that need `Lossless`, and on a pad that does not bend a finger can scroll both ways.

## 5. Abstractions, and what is not modelled

- Positions are abstract; `Outer`, `Swept`, `Near`, `Direction`, `Bearing` and
  `TightTurns` stand for the geometry and are tables in the instances. Angles are
  integers, so rounding of floating point numbers is not part of the model; the
  accumulator is kept in fractions that all means divide.
- ABS_X and ABS_Y, and every event without Type B state, pass through unread; the
  router suppresses the first two with the captured contact. They are left out.
- One bit stands for the eight touchpad buttons; only "none pressed" is ever asked.
- Events routed in one frame reach the virtual pad in one write; they are applied
  one by one within the step. High-resolution wheel events accompany each tick.
- When the buffer overflows inside a report, its tail is assumed to fit behind
  SYN_DROPPED.
- In `FrameProxy` a signal, a resume, a disconnect or a failing read or write is
  `LoopEnds`: each of them ends the loop with everything it holds, and what happens
  next is `Daemon`'s. It starts with an empty queue: what was queued between the
  last drain and the confirmation of the grab is looked at in `Startup` only.
- In `Daemon` the pad's capabilities, the checks of an opened device and of a
  runtime directory, and the text of a configuration file are reduced to their
  outcome. The wait of the startup for a quiet pad is the grab not being taken. A
  failing call counts as one of the bounded events. A killed process loses what it
  holds in any order. `Restart=on-failure` restarts without a limit; the limit is
  in `Migration`. A process is ready for systemd from its first READY=1 on, also
  while it runs again after a resume.
- Axis values that a slot held before the takeover are excepted from
  `PointerFollows`: the kernel does not report them again and the new virtual pad
  starts with its own (`src/uinput.rs:163-182` copies the axes' values, which slots
  do not have).
- `raced` in `Startup` excuses a contact lifted between a grab and its
  confirmation for the rest of the run: `src/main.rs:116-119` documents that window.
- In `Migration` the verifications of nodes, ACLs, configuration and identity are commands
  that may fail, and helpers that refuse to start change nothing. Whether systemd
  stops a unit whose device has lost its tag is left open. A daemon that is
  started by hand, not by a unit, is outside the model.
- Not modelled: parsing and validating the configuration and the error texts (pure
  functions), node modes and ACLs, `status`, and the package scripts, which check
  the markers and processes once before a removal and keep no state.

## 6. Plan

Done: 1. `TypeB`, `Router`, `WheelFsm`, `KernelPad`, `FrameProxy`; 2. `Detector`,
`Gesture`; 3. `Startup`; 4. `Migration`; 5. `Daemon`; 6. `PadCopy` and the
refinement; 7. the theorems above.

Next, in this order:

1. `Startup` followed by `FrameProxy`, so that the queue left by the grab is
   processed by the loop, which replays touches the confirmed state already holds.
2. Further abstract specifications: the takeover of a device, implemented by
   `Startup`; a wheel that accounts for accumulated turn, implemented by `Gesture`.
3. Proofs: that the abstract specifications of 2 are implemented.
4. The removal guards of the packages as a further reader of the markers.
