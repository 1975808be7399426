----------------------------- MODULE FrameProxy -----------------------------
(***************************************************************************)
(* The proxy pipeline of a running daemon: the kernel buffer of the        *)
(* grabbed touchpad, InputDevice::poll_frames and reconcile_frame          *)
(* (src/src/evdev.rs), FrameProcessor::process_frame (src/src/proxy.rs)    *)
(* and the virtual touchpad, driven by run_event_loop (src/src/main.rs).   *)
(*                                                                         *)
(* The daemon has one thread.  A step of it is what happens between two    *)
(* system calls, so the touchpad can report between any two of them; in    *)
(* particular a state query is five ioctls that need not see one state.    *)
(***************************************************************************)
EXTENDS WheelFsm, Router, KernelPad

CONSTANTS
  MaxReports, \* bound: reports the pad makes
  FetchMax,  \* events one fetch_events call returns at most
  Origin,    \* position every slot of a new virtual pad holds
  Leftover,  \* position the slots of the physical pad hold when it is taken
  NoKind,    \* no reconciliation under way
  LoopMayEnd \* may a signal, a resume or a failing call end the loop

ASSUME ProxyAssumption ==
  /\ MaxReports \in Nat
  /\ FetchMax \in Nat \ {0}
  /\ {Origin, Leftover} \subseteq Positions
  /\ NoKind \notin Kinds
  /\ LoopMayEnd \in BOOLEAN

VARIABLES
  phys,     \* the physical pad
  next,     \* the next tracking id it will use
  reports,  \* reports it has made
  queue,    \* the evdev client buffer of the daemon
  pc,       \* what the daemon does next
  pending,  \* InputDevice.pending_events
  fs,       \* InputDevice.state
  kind,     \* the reconciliation a query is made for, or NoKind
  answer,   \* the part of FrameState the ioctls have answered so far
  frames,   \* frames assembled and not yet processed
  fsm,      \* FrameProcessor.fsm
  router,   \* FrameProcessor.router
  vpad      \* the virtual touchpad as its readers see it

device == <<phys, next, reports>>
source == <<pending, fs, kind, answer>>
processor == <<fsm, router, vpad>>
vars == <<phys, next, reports, queue, pc, pending, fs, kind, answer, frames,
          fsm, router, vpad>>

(***************************************************************************)
(* A daemon that has just grabbed a quiescent pad, whose slots hold the    *)
(* positions of earlier contacts: the router is built from the confirmed   *)
(* state and select_mt_slot has aligned the virtual pad, whose slots have  *)
(* held nothing yet (main.rs:164-184).                                     *)
(***************************************************************************)
Quiet(place, slot) ==
  [slots |-> [s \in Slots |-> [id |-> Inactive, x |-> place.x, y |-> place.y]],
   cur |-> slot, touch |-> FALSE, btn |-> FALSE]

QuietPad == Quiet(Origin, 0)

\* Seeded fault: the virtual pad is not aligned.
FaultySelectMtSlot(slot) == QuietPad

SelectMtSlot(slot) == Quiet(Origin, slot)

Init ==
  /\ \E slot \in Slots : phys = Quiet(Leftover, slot)
  /\ next = 0
  /\ reports = 0
  /\ queue = << >>
  /\ pc = "poll"
  /\ pending = << >>
  /\ fs = phys
  /\ kind = NoKind
  /\ answer = QuietPad
  /\ frames = << >>
  /\ fsm = FsmIdle
  /\ router = RouterOf(fs)
  /\ vpad = SelectMtSlot(fs.cur)

(***************************************************************************)
(* The touchpad reports whenever it likes.                                 *)
(***************************************************************************)
Report ==
  /\ reports < MaxReports
  /\ reports' = reports + 1
  /\ \E r \in Reports(phys, next) :
       /\ MayPush(queue, r.events)
       /\ phys' = r.pad
       /\ next' = r.next
       /\ queue' = PushReport(queue, r.events)
  /\ UNCHANGED <<pc, source, frames, processor>>

(***************************************************************************)
(* poll: input is readable, or a second has passed without any.  Without a *)
(* scroll in progress a timeout changes nothing.                           *)
(***************************************************************************)
HasFrame(events) == \E i \in 1 .. Len(events) : events[i].type = "SYN"
FrameEnd(events) ==
  CHOOSE i \in 1 .. Len(events) :
    /\ events[i].type = "SYN"
    /\ \A j \in 1 .. i - 1 : events[j].type # "SYN"

\* Seeded fault: assembled frames wait for the next input.
FaultyAfterAssembly(rest, done) == IF HasFrame(rest) THEN "assemble" ELSE "poll"

\* poll_frames goes on while a whole frame is pending, then hands them over.
AfterAssembly(rest, done) ==
  IF HasFrame(rest) THEN "assemble" ELSE IF done = << >> THEN "poll" ELSE "process"

Fetch ==
  /\ pc = "poll"
  /\ queue # << >>
  /\ LET n == IF Len(queue) < FetchMax THEN Len(queue) ELSE FetchMax
     IN  /\ pending' = pending \o SubSeq(queue, 1, n)
         /\ queue' = SubSeq(queue, n + 1, Len(queue))
  /\ pc' = AfterAssembly(pending', frames)
  /\ UNCHANGED <<device, fs, kind, answer, frames, processor>>

IsScrolling == fsm.state = "Scrolling"

TimeoutIdle ==
  /\ pc = "poll"
  /\ queue = << >>
  /\ ~IsScrolling
  /\ UNCHANGED vars

TimeoutScrolling ==
  /\ pc = "poll"
  /\ queue = << >>
  /\ IsScrolling
  /\ pc' = "query slot"
  /\ kind' = "LivenessCheck"
  /\ UNCHANGED <<device, queue, pending, fs, answer, frames, processor>>

(***************************************************************************)
(* poll_frames takes the pending events up to a SYN_REPORT.                *)
(***************************************************************************)
HeadEnd == FrameEnd(pending)
HeadEvents == SubSeq(pending, 1, HeadEnd - 1)
\* Seeded fault: what follows the frame in the batch is cleared.
FaultyRestCleared == << >>

RestEvents == SubSeq(pending, HeadEnd + 1, Len(pending))
HeadIsDropped == \E i \in 1 .. HeadEnd - 1 : pending[i].type = "DROPPED"

Frame(contacts, events, reconciled) ==
  [contacts |-> contacts, events |-> events, reconciled |-> reconciled]

AssembleFrame ==
  /\ pc = "assemble"
  /\ ~HeadIsDropped
  /\ SelectsValidSlots(HeadEvents)
  /\ fs' = ApplyEvents(fs, HeadEvents)
  /\ frames' = Append(frames, Frame(fs', HeadEvents, FALSE))
  /\ pending' = RestEvents
  /\ pc' = AfterAssembly(pending', frames')
  /\ UNCHANGED <<device, queue, kind, answer, processor>>

\* apply_event rejects a slot: the loop ends with InputReadFailed, and what
\* was assembled before the bad frame is never processed.
AssembleInvalid ==
  /\ pc = "assemble"
  /\ ~HeadIsDropped
  /\ ~SelectsValidSlots(HeadEvents)
  /\ pc' = "exit"
  /\ UNCHANGED <<device, queue, source, frames, processor>>

AssembleDropped ==
  /\ pc = "assemble"
  /\ HeadIsDropped
  /\ pending' = RestEvents
  /\ kind' = "LostSynchronization"
  /\ pc' = "query slot"
  /\ UNCHANGED <<device, queue, fs, answer, frames, processor>>

(***************************************************************************)
(* query_frame_state, one ioctl at a time, and the end of reconcile_frame. *)
(***************************************************************************)
QuerySlot ==
  /\ pc = "query slot"
  /\ answer' = [answer EXCEPT !.cur = phys.cur]
  /\ pc' = "query keys"
  /\ UNCHANGED <<device, queue, pending, fs, kind, frames, processor>>

QueryKeys ==
  /\ pc = "query keys"
  /\ answer' = [answer EXCEPT !.touch = phys.touch, !.btn = phys.btn]
  /\ queue' = FlushKeys(queue)
  /\ pc' = "query ids"
  /\ UNCHANGED <<device, pending, fs, kind, frames, processor>>

QueryIds ==
  /\ pc = "query ids"
  /\ answer' = [answer EXCEPT !.slots =
                  [s \in Slots |-> [@[s] EXCEPT !.id = phys.slots[s].id]]]
  /\ pc' = "query xs"
  /\ UNCHANGED <<device, queue, pending, fs, kind, frames, processor>>

QueryXs ==
  /\ pc = "query xs"
  /\ answer' = [answer EXCEPT !.slots =
                  [s \in Slots |-> [@[s] EXCEPT !.x = phys.slots[s].x]]]
  /\ pc' = "query ys"
  /\ UNCHANGED <<device, queue, pending, fs, kind, frames, processor>>

QueryYs ==
  /\ pc = "query ys"
  /\ LET refreshed == [answer EXCEPT !.slots =
                         [s \in Slots |-> [@[s] EXCEPT !.y = phys.slots[s].y]]]
         events == ReconciliationEvents(fs, refreshed, kind)
     IN  /\ fs' = refreshed
         /\ frames' = Append(frames, Frame(refreshed, events, TRUE))
  /\ answer' = QuietPad
  /\ kind' = NoKind
  /\ pc' = IF kind = "LivenessCheck" THEN "process"
           ELSE AfterAssembly(pending, frames')
  /\ UNCHANGED <<device, queue, pending, processor>>

(***************************************************************************)
(* process_frame: the FSM sees the tracked contact, or the primary one     *)
(* when it tracks none; then the frame's events are routed.                *)
(***************************************************************************)
TouchFrame(contacts) ==
  IF fsm.contact # NoContact THEN ForContact(contacts, fsm.contact)
  ELSE Primary(contacts)

\* Seeded fault: nothing is captured before the scroll engages.
FaultyCaptureLate(before, after) ==
  IF before.state = "Scrolling" THEN before.contact
  ELSE IF after.state = "Scrolling" THEN after.contact
  ELSE NoContact

\* The contact whose positions are kept from the virtual pad this frame.
Capture(before, after) ==
  IF before.state = "Scrolling" THEN before.contact
  ELSE IF \/ after.state = "Scrolling"
          \/ before.state = "Moving" /\ after.state = "Moving"
       THEN after.contact
       ELSE NoContact

ProcessFrame ==
  /\ pc = "process"
  /\ LET frame == Head(frames)
         after == FsmStep(fsm, TouchFrame(frame.contacts))
         routed == RouteFrame(router, vpad, Capture(fsm, after), frame.events)
     IN  /\ fsm' = after
         /\ vpad' = routed.vpad
         /\ router' = IF frame.reconciled THEN RouterOf(frame.contacts)
                      ELSE routed.router
  /\ frames' = Tail(frames)
  /\ pc' = IF frames' = << >> THEN "poll" ELSE "process"
  /\ UNCHANGED <<device, queue, source>>

(***************************************************************************)
(* A shutdown request, a resume, a disconnected pad or a failing call ends *)
(* the loop wherever it is.  The processor, the virtual pad and the frames *)
(* not yet forwarded, the one at hand included, are dropped.               *)
(***************************************************************************)
LoopEnds ==
  /\ LoopMayEnd
  /\ pc \notin {"assemble", "exit"}
  /\ pc' = "exit"
  /\ UNCHANGED <<device, queue, source, frames, processor>>

Exited ==
  /\ pc = "exit"
  /\ UNCHANGED vars

Query == QuerySlot \/ QueryKeys \/ QueryIds \/ QueryXs \/ QueryYs
Assemble == AssembleFrame \/ AssembleInvalid \/ AssembleDropped
Daemon ==
  Fetch \/ TimeoutIdle \/ TimeoutScrolling \/ Assemble \/ Query \/ ProcessFrame
    \/ LoopEnds \/ Exited

Next == Report \/ Daemon

Spec == Init /\ [][Next]_vars

(***************************************************************************)
(* The event loop blocks on nothing but its poll, which returns as soon as *)
(* input is readable and after a second in any case, so each of its turns  *)
(* is completed.  Only one of these is enabled at a time; a frame is       *)
(* processed by the one step that takes it off the list.                   *)
(***************************************************************************)
Processes == pc = "process" /\ frames' = Tail(frames)

Fairness ==
  /\ WF_vars(Fetch \/ TimeoutScrolling)
  /\ WF_vars(Assemble)
  /\ WF_vars(Query)
  /\ WF_frames(Processes)

FairSpec == Spec /\ Fairness

-----------------------------------------------------------------------------
TypeOK ==
  /\ phys \in Pads
  /\ next \in Nat
  /\ reports \in Nat
  /\ queue \in Seq(KernelEvents)
  /\ pc \in {"poll", "assemble", "process", "exit", "query slot", "query keys",
            "query ids", "query xs", "query ys"}
  /\ pending \in Seq(KernelEvents)
  /\ fs \in Pads
  /\ kind \in Kinds \cup {NoKind}
  /\ answer \in Pads
  /\ frames \in Seq([contacts : Pads, events : Seq(Events), reconciled : BOOLEAN])
  /\ fsm \in FsmStates
  /\ router \in Routers
  /\ vpad \in Pads

(***************************************************************************)
(* Whenever every assembled frame has been processed, the daemon's three   *)
(* copies of the protocol state agree on the selected slot, on the contact *)
(* in every slot and on BTN_TOUCH, however frames, reconciliations and     *)
(* captures were interleaved (evdev.rs FrameState, router.rs Router, and   *)
(* what has been written to the virtual pad).                              *)
(***************************************************************************)
ProxyInSync ==
  frames = << >> =>
    /\ router = RouterOf(fs)
    /\ RouterOf(vpad) = RouterOf(fs)
    /\ vpad.touch = fs.touch

(***************************************************************************)
(* route_frame decides event by event, with the contact the slot holds at  *)
(* that point (router.rs:54-95).  A frame that was read, not rebuilt, is   *)
(* misplaced in a slot when it places something there and names a contact  *)
(* there, or none, afterwards: the place was another contact's.  A report  *)
(* of the pad names first; one that was fetched behind a SYN_DROPPED may   *)
(* not, as it is replayed onto the slot the query found selected.          *)
(***************************************************************************)
SelectedBy(pad, events, i) == ApplyEvents(pad, SubSeq(events, 1, i)).cur

Places(pad, events, i, slot) ==
  events[i].type \in {"X", "Y"} /\ SelectedBy(pad, events, i) = slot

Names(pad, events, i, slot) ==
  events[i].type = "ID" /\ SelectedBy(pad, events, i) = slot

NamesFirst(pad, events, slot) ==
  \A i, j \in 1 .. Len(events) :
    Places(pad, events, i, slot) /\ Names(pad, events, j, slot) => j < i

Misplaced(frame, slot) ==
  ~frame.reconciled /\ ~NamesFirst(vpad, frame.events, slot)

(***************************************************************************)
(* From the frame after touchdown until its capture ends, the tracked      *)
(* contact does not move on the virtual pad: neither its own events nor    *)
(* positions rebuilt by a reconciliation get through (proxy.rs:43-57),     *)
(* except in a frame that is misplaced in its slot.                        *)
(***************************************************************************)
Capturable(f) == f.state \in {"Moving", "Scrolling"}

Captured == Capturable(fsm) /\ Capturable(fsm') /\ fsm.contact = fsm'.contact

TrackedStays ==
  PositionOf(vpad', fsm.contact.slot) = PositionOf(vpad, fsm.contact.slot)

CaptureFreezes ==
  [][Captured =>
       TrackedStays \/ (Processes /\ Misplaced(Head(frames), fsm.contact.slot))]_vars

\* ... and without that exception, as proxy.rs:49-51 has it.
CaptureHeld == [][Captured => TrackedStays]_vars

(***************************************************************************)
(* A capture holds back one contact and nothing else: every slot that does *)
(* not hold the captured contact after the frame, and every button, is     *)
(* left by it as it would be with no capture at all (router.rs:97-110),    *)
(* again except where the frame is misplaced.                              *)
(***************************************************************************)
CaptureIsLocal ==
  [][Processes =>
       LET frame == Head(frames)
           capture == Capture(fsm, fsm')
           free == RouteFrame(router, vpad, NoContact, frame.events).vpad
       IN  /\ vpad'.touch = free.touch /\ vpad'.btn = free.btn
           /\ \A slot \in Slots :
                \/ capture = ContactOf(frame.contacts, slot)
                \/ vpad'.slots[slot] = free.slots[slot]
                \/ Misplaced(frame, slot)]_vars

(***************************************************************************)
(* While the tracked contact stays on the pad it is the tracked contact,   *)
(* whichever contacts come and go in lower slots (proxy.rs:39-42).         *)
(***************************************************************************)
TrackedContactKept ==
  [][(Processes /\ fsm.contact # NoContact /\ ScrollEnabled
        /\ Head(frames).contacts.touch
        /\ fsm.contact = ContactOf(Head(frames).contacts, fsm.contact.slot)) =>
       fsm'.contact = fsm.contact]_vars

(***************************************************************************)
(* A scroll whose contact has left the physical pad ends, also when its    *)
(* slot is taken by another contact at once or the lift itself is lost, or *)
(* the daemon ends.                                                        *)
(***************************************************************************)
ContactGone == phys.slots[fsm.contact.slot].id # fsm.contact.id

ScrollEnds == (IsScrolling /\ ContactGone) ~> (~IsScrolling \/ pc = "exit")

(***************************************************************************)
(* When nothing is queued, pending or assembled, the daemon's view of the  *)
(* pad is the physical pad, however its reports were cut into batches.     *)
(***************************************************************************)
Drained == pc = "poll" /\ queue = << >> /\ pending = << >>

CaughtUp == Drained => fs = phys

\* ... the virtual pad holds the fingers the physical pad holds ...
FingersCaughtUp == Drained => RouterOf(vpad) = RouterOf(phys)

\* ... and the virtual buttons are the physical ones.
ButtonsCaughtUp == Drained => vpad.btn = phys.btn

(***************************************************************************)
(* No finger is left behind on the virtual pad: once all contacts are gone *)
(* from the physical pad and the daemon has drained its input, none is     *)
(* left on the virtual pad, whatever was lost, reconciled or replayed.     *)
(***************************************************************************)
NoStuckFinger ==
  (Drained /\ ActiveSlots(phys) = {}) => ActiveSlots(vpad) = {}

(***************************************************************************)
(* A contact trapped in the dead zone moves the pointer: its position on   *)
(* the virtual pad is the physical one.                                    *)
(***************************************************************************)
TrappedContactPoints ==
  (Drained /\ fsm.state = "Contact" /\ fs = phys) =>
    PositionOf(vpad, fsm.contact.slot) = PositionOf(phys, fsm.contact.slot)

(***************************************************************************)
(* Where no contact is ever captured, the virtual pad points where the     *)
(* physical pad does, except on an axis on which the first contact of a    *)
(* slot has the value the slot held at the takeover: the kernel does not   *)
(* report it, and the new virtual pad holds its initial value instead      *)
(* (uinput.rs:113-215, main.rs:164-174).                                   *)
(***************************************************************************)
Follows(virtual, physical, initial, left) ==
  virtual = physical \/ (virtual = initial /\ physical = left)

PointerFollows ==
  (Drained /\ ~ScrollEnabled) =>
    \A s \in ActiveSlots(phys) :
      /\ Follows(vpad.slots[s].x, phys.slots[s].x, Origin.x, Leftover.x)
      /\ Follows(vpad.slots[s].y, phys.slots[s].y, Origin.y, Leftover.y)

-----------------------------------------------------------------------------
(***************************************************************************)
(* The abstract proxy this pipeline implements: the virtual pad shows the  *)
(* contacts of the assembled frames one by one.                            *)
(***************************************************************************)
View(pad) == [contacts |-> RouterOf(pad), touch |-> pad.touch]

Backlog == [i \in DOMAIN frames |-> View(frames[i].contacts)]

Copy == INSTANCE PadCopy WITH
  Views <- [contacts : Routers, touch : BOOLEAN],
  Blanks <- {View(Quiet(Origin, slot)) : slot \in Slots},
  backlog <- Backlog,
  copy <- View(vpad),
  up <- pc # "exit"

\* Readers of the virtual touchpad see its contacts as they were observed, in
\* that order, none left out, whatever is lost or captured (proxy.rs, router.rs).
CopiesInOrder == Copy!Spec

\* ... and what was observed is shown, unless the daemon ends.
CopiesAll == Copy!FairSpec
=============================================================================
