------------------------------ MODULE Startup -------------------------------
(***************************************************************************)
(* How the daemon takes the touchpad over (src/src/main.rs run, after the  *)
(* device is opened and the virtual devices exist): it waits until nothing *)
(* is touched, grabs, looks again, and reports itself ready only if the    *)
(* pad was still untouched; StartupCoordinator (src/src/evdev.rs) keeps    *)
(* the two facts readiness depends on.                                     *)
(*                                                                         *)
(* A step of the daemon is what happens between two system calls.  The     *)
(* programs that read the pad before the grab see every report made while  *)
(* it is not grabbed, and no other.                                        *)
(***************************************************************************)
EXTENDS KernelPad

CONSTANTS
  MaxReports,  \* bound: reports the pad makes
  FetchMax,    \* events one fetch_events call returns at most
  Origin,      \* position every slot holds before it is first used
  CallsMayFail, \* may a system call on the pad fail
  MaySignal    \* may SIGTERM or SIGINT arrive

ASSUME StartupAssumption ==
  /\ MaxReports \in Nat
  /\ FetchMax \in Nat \ {0}
  /\ Origin \in Positions
  /\ {CallsMayFail, MaySignal} \subseteq BOOLEAN

VARIABLES
  phys,     \* the physical pad
  next,     \* the next tracking id it will use
  reports,  \* reports it has made
  queue,    \* the daemon's evdev client buffer
  others,   \* contacts the other readers of the pad believe in
  signal,   \* "none", "pending" on the signalfd, or "read"
  grabbed,  \* EVIOCGRAB is held
  pc,       \* what the daemon does next
  fs,       \* InputDevice.state
  answer,   \* the part of FrameState the ioctls have answered so far
  startup,  \* StartupCoordinator
  ready,    \* READY=1 has been sent
  \* Bookkeeping for the properties, which no step of the code reads:
  quiet,    \* the pad has been untouched at some instant since the grab
  raced     \* a contact was lifted between a grab and its confirmation

device == <<phys, next, reports>>
ghosts == <<quiet, raced>>
vars == <<phys, next, reports, queue, others, signal, grabbed, pc, fs, answer,
          startup, ready, quiet, raced>>

Untouched ==
  [slots |-> [s \in Slots |-> [id |-> Inactive, x |-> Origin.x, y |-> Origin.y]],
   cur |-> 0, touch |-> FALSE, btn |-> FALSE]

NotReady == [stable |-> FALSE, initialized |-> FALSE]

(***************************************************************************)
(* The pad was opened while anything may have been going on: the reports   *)
(* of the first steps stand for it.  The first call is                     *)
(* refresh_ungrabbed_state.                                                *)
(***************************************************************************)
Init ==
  /\ phys = Untouched
  /\ next = 0
  /\ reports = 0
  /\ queue = << >>
  /\ others = [s \in Slots |-> Inactive]
  /\ signal = "none"
  /\ grabbed = FALSE
  /\ pc = "drain"
  /\ fs = Untouched
  /\ answer = Untouched
  /\ startup = NotReady
  /\ ready = FALSE
  /\ quiet = FALSE
  /\ raced = FALSE

(***************************************************************************)
(* The environment.                                                        *)
(***************************************************************************)
Lifted(before, after, slot) ==
  before.slots[slot].id # Inactive /\ after.slots[slot].id # before.slots[slot].id

Report ==
  /\ reports < MaxReports
  /\ reports' = reports + 1
  /\ \E r \in Reports(phys, next) :
       /\ MayPush(queue, r.events)
       /\ phys' = r.pad
       /\ next' = r.next
       /\ queue' = PushReport(queue, r.events)
  /\ others' = [s \in Slots |->
                  IF grabbed \/ phys'.slots[s].id = phys.slots[s].id
                  THEN others[s] ELSE phys'.slots[s].id]
  /\ quiet' = (quiet \/ (grabbed /\ IsQuiescent(phys')))
  /\ raced' = \/ raced
               \/ /\ grabbed /\ ~startup.stable
                  /\ \E s \in Slots : Lifted(phys, phys', s)
  /\ UNCHANGED <<signal, grabbed, pc, fs, answer, startup, ready>>

Signal ==
  /\ MaySignal
  /\ signal = "none"
  /\ signal' = "pending"
  /\ UNCHANGED <<device, queue, others, grabbed, pc, fs, answer, startup, ready, ghosts>>

(***************************************************************************)
(* refresh_ungrabbed_state: drain_available_events, batch by batch, until  *)
(* nothing can be read, then a state query.                                *)
(***************************************************************************)
DrainBatch ==
  /\ pc = "drain"
  /\ queue # << >>
  /\ queue' = SubSeq(queue, (IF Len(queue) < FetchMax THEN Len(queue) ELSE FetchMax) + 1,
                     Len(queue))
  /\ UNCHANGED <<device, others, signal, grabbed, pc, fs, answer, startup, ready, ghosts>>

\* Seeded fault: the queue is drained and the state not queried again.
FaultyDrainOnly ==
  /\ pc = "drain"
  /\ queue = << >>
  /\ pc' = "inspect"
  /\ UNCHANGED <<device, queue, others, signal, grabbed, fs, answer, startup, ready, ghosts>>

DrainEnd ==
  /\ pc = "drain"
  /\ queue = << >>
  /\ pc' = "query slot"
  /\ UNCHANGED <<device, queue, others, signal, grabbed, fs, answer, startup, ready, ghosts>>

(***************************************************************************)
(* query_frame_state, one ioctl at a time.  The same query ends a refresh  *)
(* and confirms a grab.                                                    *)
(***************************************************************************)
Query(at, then) == pc = at /\ pc' = then

\* Seeded fault: the queried slot is not validated.
FaultyQuerySlot ==
  /\ Query("query slot", "query keys")
  /\ \E slot \in {phys.cur, NoSlot} : answer' = [answer EXCEPT !.cur = slot]
  /\ UNCHANGED <<device, queue, others, signal, grabbed, fs, startup, ready, ghosts>>

QuerySlot ==
  /\ Query("query slot", "query keys")
  /\ answer' = [answer EXCEPT !.cur = phys.cur]
  /\ UNCHANGED <<device, queue, others, signal, grabbed, fs, startup, ready, ghosts>>

QueryKeys ==
  /\ Query("query keys", "query ids")
  /\ answer' = [answer EXCEPT !.touch = phys.touch, !.btn = phys.btn]
  /\ queue' = FlushKeys(queue)
  /\ UNCHANGED <<device, others, signal, grabbed, fs, startup, ready, ghosts>>

QueryIds ==
  /\ Query("query ids", "query xs")
  /\ answer' = [answer EXCEPT !.slots =
                  [s \in Slots |-> [@[s] EXCEPT !.id = phys.slots[s].id]]]
  /\ UNCHANGED <<device, queue, others, signal, grabbed, fs, startup, ready, ghosts>>

QueryXs ==
  /\ Query("query xs", "query ys")
  /\ answer' = [answer EXCEPT !.slots =
                  [s \in Slots |-> [@[s] EXCEPT !.x = phys.slots[s].x]]]
  /\ UNCHANGED <<device, queue, others, signal, grabbed, fs, startup, ready, ghosts>>

QueryYs ==
  /\ Query("query ys", IF grabbed THEN "confirm" ELSE "inspect")
  /\ fs' = [answer EXCEPT !.slots =
              [s \in Slots |-> [@[s] EXCEPT !.y = phys.slots[s].y]]]
  /\ answer' = Untouched
  /\ UNCHANGED <<device, queue, others, signal, grabbed, startup, ready, ghosts>>

(***************************************************************************)
(* The top of the loop: a pending shutdown ends it; inspect_ungrabbed      *)
(* decides between waiting and a grab.                                     *)
(***************************************************************************)
\* Seeded fault: a shutdown read while waiting counts as a change of input.
FaultyReadShutdown ==
  /\ pc \in {"inspect", "wait"}
  /\ signal = "pending"
  /\ signal' = "read"
  /\ pc' = IF pc = "wait" THEN "drain" ELSE "exit"
  /\ UNCHANGED <<device, queue, others, grabbed, fs, answer, startup, ready, ghosts>>

ReadShutdown ==
  /\ pc \in {"inspect", "wait"}
  /\ signal = "pending"
  /\ signal' = "read"
  /\ pc' = "exit"
  /\ UNCHANGED <<device, queue, others, grabbed, fs, answer, startup, ready, ghosts>>

InspectUngrabbed ==
  /\ pc = "inspect"
  /\ signal # "pending"
  /\ startup' = NotReady
  /\ pc' = IF IsQuiescent(fs) THEN "grab" ELSE "wait"
  /\ UNCHANGED <<device, queue, others, signal, grabbed, fs, answer, ready, ghosts>>

\* wait_for_startup_change: poll without a timeout, then refresh.
Wake ==
  /\ pc = "wait"
  /\ signal # "pending"
  /\ queue # << >>
  /\ pc' = "drain"
  /\ UNCHANGED <<device, queue, others, signal, grabbed, fs, answer, startup, ready, ghosts>>

(***************************************************************************)
(* grab_if_quiescent: EVIOCGRAB, a query, and EVIOCGRAB(0) if it finds     *)
(* anything touched; nothing is read in between.                           *)
(***************************************************************************)
\* Seeded fault: the state seen before the grab is taken to hold after it.
FaultyGrab ==
  /\ pc = "grab"
  /\ grabbed' = TRUE
  /\ pc' = "confirm"
  /\ quiet' = IsQuiescent(phys)
  /\ UNCHANGED <<device, queue, others, signal, fs, answer, startup, ready, raced>>

Grab ==
  /\ pc = "grab"
  /\ grabbed' = TRUE
  /\ pc' = "query slot"
  /\ quiet' = IsQuiescent(phys)
  /\ UNCHANGED <<device, queue, others, signal, fs, answer, startup, ready, raced>>

\* Seeded faults: the grab is kept whatever the query found; what was queued
\* since the grab is discarded.
FaultyConfirmGrab ==
  /\ pc = "confirm"
  /\ startup' = [stable |-> TRUE, initialized |-> FALSE]
  /\ pc' = "initialize"
  /\ UNCHANGED <<device, queue, others, signal, grabbed, fs, answer, ready, ghosts>>
FaultyConfirmAndDrain ==
  /\ pc = "confirm"
  /\ IsQuiescent(fs)
  /\ startup' = [stable |-> TRUE, initialized |-> FALSE]
  /\ queue' = << >>
  /\ pc' = "initialize"
  /\ UNCHANGED <<device, others, signal, grabbed, fs, answer, ready, ghosts>>

\* GrabAttempt::Stable and StartupCoordinator::inspect_grabbed.
ConfirmGrab ==
  /\ pc = "confirm"
  /\ IsQuiescent(fs)
  /\ startup' = [stable |-> TRUE, initialized |-> FALSE]
  /\ pc' = "initialize"
  /\ UNCHANGED <<device, queue, others, signal, grabbed, fs, answer, ready, ghosts>>

\* GrabAttempt::Retry: the grab is released before the loop goes round.
ReleaseGrab ==
  /\ pc = "confirm"
  /\ ~IsQuiescent(fs)
  /\ startup' = NotReady
  /\ grabbed' = FALSE
  /\ pc' = "inspect"
  /\ UNCHANGED <<device, queue, others, signal, fs, answer, ready, ghosts>>

\* The processor is built from the confirmed state: mark_processor_initialized.
InitializeProcessor ==
  /\ pc = "initialize"
  /\ startup.stable
  /\ startup' = [startup EXCEPT !.initialized = TRUE]
  /\ pc' = "notify"
  /\ UNCHANGED <<device, queue, others, signal, grabbed, fs, answer, ready, ghosts>>

NotifyReady ==
  /\ pc = "notify"
  /\ startup.stable /\ startup.initialized
  /\ ready' = TRUE
  /\ pc' = "run"
  /\ UNCHANGED <<device, queue, others, signal, grabbed, fs, answer, startup, ghosts>>

(***************************************************************************)
(* Any call up to the notification may fail and end the daemon: a query    *)
(* after the grab is followed by EVIOCGRAB(0), and what else is held is    *)
(* released with the device or the guard that owns it.                     *)
(***************************************************************************)
\* Seeded fault: a failed call leaves the grab as it is.
FaultyCallFails ==
  /\ CallsMayFail
  /\ pc \notin {"notify", "run", "exit"}
  /\ pc = "confirm" => ~IsQuiescent(fs)
  /\ startup' = NotReady
  /\ pc' = "exit"
  /\ UNCHANGED <<device, queue, others, signal, grabbed, fs, answer, ready, ghosts>>

CallFails ==
  /\ CallsMayFail
  /\ pc \notin {"notify", "run", "exit"}
  /\ pc = "confirm" => ~IsQuiescent(fs)
  /\ startup' = NotReady
  /\ grabbed' = FALSE
  /\ pc' = "exit"
  /\ UNCHANGED <<device, queue, others, signal, fs, answer, ready, ghosts>>

Advance ==
  \/ DrainBatch \/ DrainEnd
  \/ QuerySlot \/ QueryKeys \/ QueryIds \/ QueryXs \/ QueryYs
  \/ ReadShutdown \/ InspectUngrabbed \/ Wake
  \/ Grab \/ ConfirmGrab \/ ReleaseGrab
  \/ InitializeProcessor \/ NotifyReady

Daemon == Advance \/ CallFails

Next == Report \/ Signal \/ Daemon

Spec == Init /\ [][Next]_vars

(***************************************************************************)
(* No step of the daemon but poll waits for anything, and poll returns     *)
(* when input or a signal is there: it keeps running.  Nothing makes a     *)
(* call fail, so that failures never help it along.                        *)
(***************************************************************************)
FairSpec == Spec /\ WF_vars(Advance)

-----------------------------------------------------------------------------
TypeOK ==
  /\ phys \in Pads
  /\ next \in Nat
  /\ reports \in Nat
  /\ queue \in Seq(KernelEvents)
  /\ others \in [Slots -> TrackingIds]
  /\ signal \in {"none", "pending", "read"}
  /\ grabbed \in BOOLEAN
  /\ pc \in {"drain", "query slot", "query keys", "query ids", "query xs", "query ys",
             "inspect", "wait", "grab", "confirm", "initialize", "notify", "run", "exit"}
  /\ fs \in Pads
  /\ answer \in Pads
  /\ startup \in [stable : BOOLEAN, initialized : BOOLEAN]
  /\ ready \in BOOLEAN
  /\ quiet \in BOOLEAN
  /\ raced \in BOOLEAN

(***************************************************************************)
(* Readiness is announced only under the grab, and only if the pad really  *)
(* was untouched at some instant after the grab, although the query that   *)
(* confirms it reads keys and contacts at different instants               *)
(* (evdev.rs:362-394, main.rs:187-194).                                    *)
(***************************************************************************)
ReadyMeansUntouched == ready => (grabbed /\ quiet)

(***************************************************************************)
(* A daemon that ends before it is ready leaves the pad to the others, on  *)
(* every way out (evdev.rs:299-309, 369-379, 388-392).                     *)
(***************************************************************************)
ExitReleases == pc = "exit" => ~grabbed

(***************************************************************************)
(* "Do not cut an active physical lifecycle away from its current          *)
(* consumers" (main.rs:113-119): once the grab is confirmed they believe   *)
(* in no contact, except for one lifted in the documented window between   *)
(* a grab and the end of its query.                                        *)
(***************************************************************************)
OthersLetGo ==
  (startup.stable /\ ~raced) => \A s \in Slots : others[s] = Inactive

(***************************************************************************)
(* Events delivered after the grab remain queued for normal processing     *)
(* (evdev.rs:366-368): what the daemon starts from, brought forward by     *)
(* what is queued, holds the contacts of the physical pad.                 *)
(***************************************************************************)
Followed(pad, e) == IF e = Syn THEN pad ELSE ApplyEvent(pad, e)

Replayed ==
  LET after[i \in 0 .. Len(queue)] ==
        IF i = 0 THEN fs ELSE Followed(after[i - 1], queue[i])
  IN  after[Len(queue)]

QueueCarriesOn ==
  startup.stable =>
    LET start == Replayed
    IN  /\ start.touch = phys.touch
        /\ start.cur = phys.cur
        /\ \A s \in Slots : start.slots[s].id = phys.slots[s].id

(***************************************************************************)
(* No wake-up is lost: a pad that stays untouched is taken over, unless    *)
(* the daemon ends first; and a requested shutdown ends the wait.          *)
(***************************************************************************)
Finished == pc \in {"run", "exit"}
TakesOver == <>[]IsQuiescent(phys) => <>Finished
ShutdownEndsWait == (signal = "pending") ~> Finished
=============================================================================
