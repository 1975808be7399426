----------------------------- MODULE KernelPad -----------------------------
(***************************************************************************)
(* The kernel side of the physical touchpad, as src/ relies on it: the     *)
(* reports a Type B pad makes, and the evdev client buffer the daemon      *)
(* reads them from.  Nothing here is code of the repository.               *)
(*                                                                         *)
(* The input core reports an axis only when its value differs from the     *)
(* slot's last one, and a slot only when it differs from the selected one. *)
(* A whole report enters the client buffer under its lock.                 *)
(* EVIOCGKEY removes queued key events from the buffer, because its answer *)
(* is newer than they are, and the reports that are left empty, except one *)
(* at the front, which may end a report that is half read.                 *)
(***************************************************************************)
EXTENDS TypeB

CONSTANTS
  Points,    \* positions a finger can be reported at
  MaxTouches, \* bound: tracking ids handed out (the kernel's counter wraps)
  FingersPerReport, \* bound: slots one report may change
  QueueMax,  \* capacity of the client buffer, in events
  Overflows, \* may the pad report into a full buffer
  BadSlots   \* out-of-range ABS_MT_SLOT values a faulty device may report

ASSUME KernelAssumption ==
  /\ Points \subseteq Positions
  /\ MaxTouches \in Nat
  /\ FingersPerReport \in {1, 2}
  /\ QueueMax \in Nat \ {0, 1}
  /\ Overflows \in BOOLEAN
  /\ BadSlots \subseteq Nat \ Slots

Syn == [type |-> "SYN"]
Dropped == [type |-> "DROPPED"]
KernelEvents == Events \cup {Syn, Dropped}

(***************************************************************************)
(* What one report may do to a slot: touch down with a fresh id (lifting   *)
(* the contact that held the slot), move, or lift.                         *)
(***************************************************************************)
TouchDowns(id) == {[id |-> id, x |-> p.x, y |-> p.y] : p \in Points}
Moves(s) == IF s.id = Inactive THEN {} ELSE TouchDowns(s.id) \ {s}
Lifts(s) == {[s EXCEPT !.id = Inactive]} \ {s}
Changes(s, id) ==
  Moves(s) \cup Lifts(s) \cup (IF id < MaxTouches THEN TouchDowns(id) ELSE {})

SlotReport(slot, cur, old, new) ==
  LET Only(cond, events) == IF cond THEN events ELSE << >>
      replaced == old.id # new.id /\ old.id # Inactive /\ new.id # Inactive
  IN  Only(cur # slot, <<Event("SLOT", slot)>>)
      \o Only(replaced, <<Event("ID", Inactive)>>)
      \o Only(old.id # new.id, <<Event("ID", new.id)>>)
      \o Only(old.x # new.x, <<Event("X", new.x)>>)
      \o Only(old.y # new.y, <<Event("Y", new.y)>>)

(***************************************************************************)
(* Reports are built slot by slot, in ascending order; BTN_TOUCH, which    *)
(* says whether any contact is left, comes last.                           *)
(***************************************************************************)
WithSlot(pad, slot, new) ==
  LET slots == [pad.slots EXCEPT ![slot] = new]
  IN  [pad EXCEPT !.slots = slots, !.cur = slot,
                  !.touch = \E s \in Slots : slots[s].id # Inactive]

ChangeSlot(report, slot) ==
  {[pad    |-> WithSlot(report.pad, slot, new),
    events |-> report.events
               \o SlotReport(slot, report.pad.cur, report.pad.slots[slot], new),
    next   |-> IF new.id = report.next THEN report.next + 1 ELSE report.next]
     : new \in Changes(report.pad.slots[slot], report.next)}

OneChange(report) == UNION {ChangeSlot(report, s) : s \in Slots}
LaterChange(report, slot) ==
  UNION {ChangeSlot(report, t) : t \in {t \in Slots : slot < t}}
TwoChanges(report) ==
  UNION {UNION {LaterChange(r, s) : r \in ChangeSlot(report, s)} : s \in Slots}
WithTouch(report, touch) ==
  IF report.pad.touch = touch THEN report
  ELSE [report EXCEPT !.events = Append(@, Event("TOUCH", report.pad.touch))]

FingerReports(pad, next) ==
  LET none == [pad |-> pad, events |-> << >>, next |-> next]
      changed == OneChange(none)
                 \cup IF FingersPerReport = 1 THEN {} ELSE TwoChanges(none)
  IN  {WithTouch(r, pad.touch) : r \in changed}

ButtonReports(pad, next) ==
  {[pad    |-> [pad EXCEPT !.btn = ~@],
    events |-> <<Event("BTN", ~pad.btn)>>,
    next   |-> next]}

BadReports(pad, next) ==
  {[pad |-> pad, events |-> <<Event("SLOT", bad)>>, next |-> next]
     : bad \in BadSlots}

Reports(pad, next) ==
  FingerReports(pad, next) \cup ButtonReports(pad, next)
    \cup BadReports(pad, next)

(***************************************************************************)
(* The evdev client buffer.  With Overflows FALSE the reader is assumed to *)
(* keep up with the pad.                                                   *)
(***************************************************************************)
MayPush(queue, events) == Overflows \/ Len(queue) + Len(events) < QueueMax

\* The first event that does not fit clears the buffer; it and the rest of the
\* report follow SYN_DROPPED.
PushReport(queue, events) ==
  LET report == Append(events, Syn)
      free == IF Len(queue) < QueueMax THEN QueueMax - Len(queue) ELSE 0
  IN  IF Len(report) <= free THEN queue \o report
      ELSE <<Dropped>> \o SubSeq(report, free + 1, Len(report))

\* The buffer after EVIOCGKEY: no key events, and no SYN_REPORT after another.
KeepUnlessKey(kept, e) ==
  IF \/ e.type \in {"TOUCH", "BTN"}
     \/ e.type = "SYN" /\ kept # << >> /\ kept[Len(kept)] = Syn
  THEN kept
  ELSE Append(kept, e)

FlushKeys(queue) ==
  LET kept[i \in 0 .. Len(queue)] ==
        IF i = 0 THEN << >> ELSE KeepUnlessKey(kept[i - 1], queue[i])
  IN  kept[Len(queue)]
=============================================================================
