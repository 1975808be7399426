--------------------------- MODULE KernelPad_proofs ---------------------------
(***************************************************************************)
(* What the kernel side hands the daemon is well formed: its reports are   *)
(* events that lead from one pad to another, BTN_TOUCH says whether a      *)
(* contact is left, and the client buffer stays a buffer.  What is queued  *)
(* foretells the pad: the outlook of its reader, report by report and over *)
(* the queries that race with them.                                        *)
(***************************************************************************)
EXTENDS KernelPad, TypeB_proofs

KernelReports == [pad : Pads, events : Seq(Events), next : Nat]

\* BTN_TOUCH is pressed exactly while a slot holds a contact.
TouchIsContact(pad) == pad.touch = (\E s \in Slots : IsActive(pad, s))

LEMMA ChangesType ==
  ASSUME NEW s \in SlotStates, NEW id \in Nat
  PROVE  Changes(s, id) \subseteq SlotStates
<1>1. \A i \in TrackingIds : TouchDowns(i) \subseteq SlotStates
  BY KernelAssumption DEF TouchDowns, SlotStates, Positions
<1>2. Moves(s) \subseteq SlotStates
  BY <1>1 DEF Moves, SlotStates
<1>3. Lifts(s) \subseteq SlotStates
  BY DEF Lifts, SlotStates, TrackingIds
<1>4. id \in TrackingIds
  BY DEF TrackingIds
<1> QED BY <1>1, <1>2, <1>3, <1>4 DEF Changes

LEMMA SlotReportType ==
  ASSUME NEW slot \in Slots, NEW cur, NEW old \in SlotStates, NEW new \in SlotStates
  PROVE  SlotReport(slot, cur, old, new) \in Seq(Events)
<1>1. /\ Event("SLOT", slot) \in Events /\ Event("ID", Inactive) \in Events
      /\ Event("ID", new.id) \in Events
      /\ Event("X", new.x) \in Events /\ Event("Y", new.y) \in Events
  BY NSlotsAssumption
    DEF Event, Events, SlotEvents, IdEvents, PositionEvents, KeyEvents, Slots, SlotStates,
        TrackingIds
<1> DEFINE Only(cond, events) == IF cond THEN events ELSE << >>
           a == Only(cur # slot, <<Event("SLOT", slot)>>)
           b == Only(old.id # new.id /\ old.id # Inactive /\ new.id # Inactive,
                     <<Event("ID", Inactive)>>)
           c == Only(old.id # new.id, <<Event("ID", new.id)>>)
           d == Only(old.x # new.x, <<Event("X", new.x)>>)
           e == Only(old.y # new.y, <<Event("Y", new.y)>>)
<1>2. /\ a \in Seq(Events) /\ b \in Seq(Events) /\ c \in Seq(Events) /\ d \in Seq(Events)
      /\ e \in Seq(Events)
  BY <1>1
<1>3. SlotReport(slot, cur, old, new) = a \o b \o c \o d \o e
  BY DEF SlotReport
<1> HIDE DEF a, b, c, d, e
<1>4. a \o b \in Seq(Events)
  BY <1>2
<1>5. a \o b \o c \in Seq(Events)
  BY <1>2, <1>4
<1>6. a \o b \o c \o d \in Seq(Events)
  BY <1>2, <1>5
<1> QED BY <1>2, <1>3, <1>6

(***************************************************************************)
(* A report that changes one slot more.                                    *)
(***************************************************************************)
LEMMA ChangeSlotType ==
  ASSUME NEW report \in KernelReports, NEW slot \in Slots,
         NEW r \in ChangeSlot(report, slot)
  PROVE  r \in KernelReports /\ TouchIsContact(r.pad)
<1> DEFINE old == report.pad.slots[slot]
<1>1. report.pad \in Pads /\ report.events \in Seq(Events) /\ report.next \in Nat
  BY DEF KernelReports
<1>2. old \in SlotStates
  BY <1>1 DEF Pads
<1>3. PICK new \in Changes(old, report.next) :
        r = [pad    |-> WithSlot(report.pad, slot, new),
             events |-> report.events \o SlotReport(slot, report.pad.cur, old, new),
             next   |-> IF new.id = report.next THEN report.next + 1 ELSE report.next]
  BY DEF ChangeSlot
<1>4. new \in SlotStates
  BY <1>1, <1>2, <1>3, ChangesType
<1>5. r.pad = WithSlot(report.pad, slot, new)
  BY <1>3
<1> DEFINE slots == [report.pad.slots EXCEPT ![slot] = new]
           touch == \E s \in Slots : slots[s].id # Inactive
<1>6. slots \in [Slots -> SlotStates]
  BY <1>1, <1>4 DEF Pads
<1>7. r.pad = [report.pad EXCEPT !.slots = slots, !.cur = slot, !.touch = touch]
  BY <1>5 DEF WithSlot
<1> HIDE DEF slots
<1>8. touch \in BOOLEAN
  OBVIOUS
<1>9. r.pad \in Pads /\ r.pad.slots = slots /\ r.pad.touch = touch
  <2> HIDE DEF touch
  <2> QED BY <1>1, <1>6, <1>7, <1>8 DEF Pads
<1>10. TouchIsContact(r.pad)
  BY <1>9 DEF TouchIsContact, IsActive
<1>11. r.events \in Seq(Events)
  <2> DEFINE more == SlotReport(slot, report.pad.cur, old, new)
  <2>1. more \in Seq(Events)
    BY <1>2, <1>4, SlotReportType
  <2>2. r.events = report.events \o more
    BY <1>3
  <2> HIDE DEF more
  <2> QED BY <1>1, <2>1, <2>2
<1>12. r.next \in Nat
  BY <1>1, <1>3
<1>13. r = [pad |-> r.pad, events |-> r.events, next |-> r.next]
  BY <1>3
<1> QED BY <1>9, <1>10, <1>11, <1>12, <1>13 DEF KernelReports

(***************************************************************************)
(* The events of a report say what happened to the pad: a consumer that    *)
(* applies them to the pad as it was has the pad as it is, BTN_TOUCH apart *)
(* until the event that ends the report.                                   *)
(***************************************************************************)
LEMMA KernelEventsValid ==
  ASSUME NEW slot \in Slots, NEW new \in SlotStates
  PROVE  /\ Event("SLOT", slot) \in ValidEvents
         /\ Event("ID", Inactive) \in ValidEvents
         /\ Event("ID", new.id) \in ValidEvents
         /\ Event("X", new.x) \in ValidEvents
         /\ Event("Y", new.y) \in ValidEvents
BY NSlotsAssumption
  DEF Event, ValidEvents, Events, SlotEvents, IdEvents, PositionEvents, KeyEvents,
      Slots, SlotStates, TrackingIds, Inactive

LEMMA SlotReportEffect ==
  ASSUME NEW pad \in Pads, NEW slot \in Slots, NEW new \in SlotStates
  PROVE  LET events == SlotReport(slot, pad.cur, pad.slots[slot], new)
         IN  /\ events \in Seq(ValidEvents)
             /\ ApplyEvents(pad, events) = [pad EXCEPT !.slots[slot] = new, !.cur = slot]
<1> DEFINE old == pad.slots[slot]
           other == pad.cur # slot
           replaced == old.id # new.id /\ old.id # Inactive /\ new.id # Inactive
           named == old.id # new.id
           a == IF other THEN <<Event("SLOT", slot)>> ELSE << >>
           b == IF replaced THEN <<Event("ID", Inactive)>> ELSE << >>
           c == IF named THEN <<Event("ID", new.id)>> ELSE << >>
           x == IF old.x # new.x THEN <<Event("X", new.x)>> ELSE << >>
           y == IF old.y # new.y THEN <<Event("Y", new.y)>> ELSE << >>
           ab == a \o b
           abc == ab \o c
           abcx == abc \o x
           p1 == ApplyEvents(pad, a)
           p2 == ApplyEvents(p1, b)
           p3 == ApplyEvents(p2, c)
           p4 == ApplyEvents(p3, x)
           p5 == ApplyEvents(p4, y)
<1>1. /\ Event("SLOT", slot) \in ValidEvents /\ Event("ID", Inactive) \in ValidEvents
      /\ Event("ID", new.id) \in ValidEvents
      /\ Event("X", new.x) \in ValidEvents /\ Event("Y", new.y) \in ValidEvents
  BY KernelEventsValid
<1>2. /\ a \in Seq(ValidEvents) /\ b \in Seq(ValidEvents) /\ c \in Seq(ValidEvents)
      /\ x \in Seq(ValidEvents) /\ y \in Seq(ValidEvents)
  BY <1>1
<1>3. SlotReport(slot, pad.cur, old, new) = abcx \o y
  BY DEF SlotReport
<1>4. p1 \in Pads /\ p2 \in Pads /\ p3 \in Pads /\ p4 \in Pads
  <2> HIDE DEF a, b, c, x, y
  <2> QED BY <1>2, ApplyEventsType
<1>5. /\ p1 = ApplyEvents(pad, a) /\ p2 = ApplyEvents(p1, b) /\ p3 = ApplyEvents(p2, c)
      /\ p4 = ApplyEvents(p3, x) /\ p5 = ApplyEvents(p4, y)
  OBVIOUS
<1> HIDE DEF p1, p2, p3, p4, p5, other, replaced, named
<1>6. /\ p1 = IF other THEN ApplyEvent(pad, Event("SLOT", slot)) ELSE pad
      /\ p2 = IF replaced THEN ApplyEvent(p1, Event("ID", Inactive)) ELSE p1
      /\ p3 = IF named THEN ApplyEvent(p2, Event("ID", new.id)) ELSE p2
      /\ p4 = IF old.x # new.x THEN ApplyEvent(p3, Event("X", new.x)) ELSE p3
      /\ p5 = IF old.y # new.y THEN ApplyEvent(p4, Event("Y", new.y)) ELSE p4
  BY <1>1, <1>4, <1>5, ApplyOne, ApplyNone
<1> HIDE DEF a, b, c, x, y
<1>7. abcx \o y \in Seq(ValidEvents) /\ ApplyEvents(pad, abcx \o y) = p5
  <2>1. ab \in Seq(ValidEvents) /\ abc \in Seq(ValidEvents) /\ abcx \in Seq(ValidEvents)
    BY <1>2
  <2>2. ApplyEvents(pad, ab) = p2
    BY <1>2, <1>5, ApplyEventsConcat
  <2>3. ApplyEvents(pad, abc) = p3
    <3> HIDE DEF ab
    <3> QED BY <1>2, <1>5, <2>1, <2>2, ApplyEventsConcat
  <2>4. ApplyEvents(pad, abcx) = p4
    <3> HIDE DEF abc
    <3> QED BY <1>2, <1>5, <2>1, <2>3, ApplyEventsConcat
  <2> HIDE DEF abcx
  <2>5. ApplyEvents(pad, abcx \o y) = p5
    BY <1>2, <1>5, <2>1, <2>4, ApplyEventsConcat
  <2>6. abcx \o y \in Seq(ValidEvents)
    BY <1>2, <2>1
  <2> QED BY <2>5, <2>6
<1> DEFINE Holds(q, id, x0, y0) ==
             /\ q \in Pads /\ q.cur = slot /\ q.touch = pad.touch /\ q.btn = pad.btn
             /\ q.slots[slot].id = id /\ q.slots[slot].x = x0 /\ q.slots[slot].y = y0
             /\ \A s \in Slots \ {slot} :
                  /\ q.slots[s].id = pad.slots[s].id
                  /\ q.slots[s].x = pad.slots[s].x
                  /\ q.slots[s].y = pad.slots[s].y
<1>8. /\ \A q, id, x0, y0 : Holds(q, id, x0, y0) =>
           /\ Holds(ApplyEvent(q, Event("ID", Inactive)), Inactive, x0, y0)
           /\ Holds(ApplyEvent(q, Event("ID", new.id)), new.id, x0, y0)
           /\ Holds(ApplyEvent(q, Event("X", new.x)), id, new.x, y0)
           /\ Holds(ApplyEvent(q, Event("Y", new.y)), id, x0, new.y)
  <2> SUFFICES ASSUME NEW q, NEW id, NEW x0, NEW y0, Holds(q, id, x0, y0)
               PROVE  /\ Holds(ApplyEvent(q, Event("ID", Inactive)), Inactive, x0, y0)
                      /\ Holds(ApplyEvent(q, Event("ID", new.id)), new.id, x0, y0)
                      /\ Holds(ApplyEvent(q, Event("X", new.x)), id, new.x, y0)
                      /\ Holds(ApplyEvent(q, Event("Y", new.y)), id, x0, new.y)
    OBVIOUS
  <2>1. \A e \in ValidEvents : ApplyEvent(q, e) \in Pads
    BY ApplyEventType
  <2>2. Holds(ApplyEvent(q, Event("ID", Inactive)), Inactive, x0, y0)
    BY <1>1, <2>1, ApplyEventEffect DEF Event
  <2>3. Holds(ApplyEvent(q, Event("ID", new.id)), new.id, x0, y0)
    BY <1>1, <2>1, ApplyEventEffect DEF Event
  <2>4. Holds(ApplyEvent(q, Event("X", new.x)), id, new.x, y0)
    BY <1>1, <2>1, ApplyEventEffect DEF Event
  <2>5. Holds(ApplyEvent(q, Event("Y", new.y)), id, x0, new.y)
    BY <1>1, <2>1, ApplyEventEffect DEF Event
  <2> QED BY <2>2, <2>3, <2>4, <2>5
<1>9. Holds(p1, old.id, old.x, old.y)
  BY <1>1, <1>4, <1>6, ApplyEventEffect DEF Event, other
<1> HIDE DEF Holds
<1>10. Holds(p5, new.id, new.x, new.y)
  <2>1. Holds(p3, new.id, old.x, old.y)
    BY <1>6, <1>8, <1>9 DEF named, replaced
  <2>2. Holds(p4, new.id, new.x, old.y)
    BY <1>6, <1>8, <2>1
  <2> QED BY <1>6, <1>8, <2>2
<1> DEFINE target == [pad EXCEPT !.slots[slot] = new, !.cur = slot]
<1>11. target \in Pads /\ Holds(target, new.id, new.x, new.y)
  BY DEF Pads, SlotStates, Holds
<1> HIDE DEF target
<1>12. p5 = target
  BY <1>10, <1>11, PadsEqual DEF Holds
<1> QED BY <1>3, <1>7, <1>12 DEF target

\* The events of a report under way lead from the pad it began with to where it
\* has got, but for BTN_TOUCH.
Reached(from, report) ==
  /\ report.events \in Seq(ValidEvents)
  /\ ApplyEvents(from, report.events) = [report.pad EXCEPT !.touch = from.touch]

LEMMA ChangeSlotEffect ==
  ASSUME NEW from \in Pads, NEW report \in KernelReports, Reached(from, report),
         NEW slot \in Slots, NEW r \in ChangeSlot(report, slot)
  PROVE  /\ Reached(from, r)
         /\ r.pad.cur = slot
         /\ report.pad.slots[slot].id # Inactive \/ r.pad.slots[slot].id # Inactive
         /\ \A s \in Slots \ {slot} : r.pad.slots[s] = report.pad.slots[s]
<1> DEFINE p == report.pad
           q == [p EXCEPT !.touch = from.touch]
           old == p.slots[slot]
<1>1. p \in Pads /\ report.events \in Seq(ValidEvents) /\ report.next \in Nat
  BY DEF KernelReports, Reached
<1>2. /\ q \in Pads /\ q.cur = p.cur /\ q.slots = p.slots /\ q.btn = p.btn
      /\ q.touch = from.touch
  BY <1>1 DEF Pads
<1>3. old \in SlotStates
  BY <1>1 DEF Pads
<1>4. PICK new \in Changes(old, report.next) :
        r = [pad    |-> WithSlot(p, slot, new),
             events |-> report.events \o SlotReport(slot, p.cur, old, new),
             next   |-> IF new.id = report.next THEN report.next + 1 ELSE report.next]
  BY DEF ChangeSlot
<1>5. new \in SlotStates
  BY <1>1, <1>3, <1>4, ChangesType
<1> DEFINE more == SlotReport(slot, p.cur, old, new)
           touch == \E s \in Slots : [p.slots EXCEPT ![slot] = new][s].id # Inactive
<1>6. ApplyEvents(from, report.events) = q
  BY DEF Reached
<1>7. more \in Seq(ValidEvents) /\ ApplyEvents(q, more) = [q EXCEPT !.slots[slot] = new, !.cur = slot]
  <2>1. more = SlotReport(slot, q.cur, q.slots[slot], new)
    BY <1>2
  <2>2. q \in Pads
    BY <1>2
  <2> HIDE DEF q, more
  <2> DEFINE told == SlotReport(slot, q.cur, q.slots[slot], new)
  <2>3. told \in Seq(ValidEvents) /\ ApplyEvents(q, told) = [q EXCEPT !.slots[slot] = new, !.cur = slot]
    BY <1>5, <2>2, SlotReportEffect
  <2> QED BY <2>1, <2>3
<1>8. r.events = report.events \o more
  BY <1>4
<1>9. r.pad = [p EXCEPT !.slots = [p.slots EXCEPT ![slot] = new], !.cur = slot, !.touch = touch]
  BY <1>4 DEF WithSlot
<1> HIDE DEF touch
<1>10. [r.pad EXCEPT !.touch = from.touch] = [q EXCEPT !.slots[slot] = new, !.cur = slot]
  BY <1>1, <1>9 DEF Pads
<1>11. Reached(from, r)
  <2> HIDE DEF more, q
  <2>1. r.events \in Seq(ValidEvents)
    BY <1>1, <1>7, <1>8
  <2>2. ApplyEvents(from, r.events) = ApplyEvents(q, more)
    BY <1>1, <1>6, <1>7, <1>8, ApplyEventsConcat
  <2> QED BY <1>7, <1>10, <2>1, <2>2 DEF Reached
<1>12. old.id # Inactive \/ new.id # Inactive
  <2>1. CASE new \in Moves(old)
    BY <2>1 DEF Moves
  <2>2. CASE new \in Lifts(old)
    BY <1>3, <2>2 DEF Lifts, SlotStates
  <2>3. CASE new \in TouchDowns(report.next)
    <3>1. new.id = report.next
      BY <2>3 DEF TouchDowns
    <3> QED BY <1>1, <3>1 DEF Inactive
  <2> QED BY <1>4, <2>1, <2>2, <2>3 DEF Changes
<1>13. /\ r.pad.cur = slot /\ r.pad.slots[slot] = new
       /\ \A s \in Slots \ {slot} : r.pad.slots[s] = p.slots[s]
  BY <1>1, <1>9 DEF Pads
<1> QED BY <1>11, <1>12, <1>13

\* A report that selects another slot touches, moves or lifts a contact there.
Occupies(pad, report) ==
  report.pad.cur # pad.cur =>
    \/ pad.slots[report.pad.cur].id # Inactive
    \/ report.pad.slots[report.pad.cur].id # Inactive

LEMMA FingerReportsEffect ==
  ASSUME NEW pad \in Pads, NEW next \in Nat, NEW r \in FingerReports(pad, next)
  PROVE  /\ r.events \in Seq(ValidEvents)
         /\ ApplyEvents(pad, r.events) = r.pad
         /\ Occupies(pad, r)
<1> DEFINE none == [pad |-> pad, events |-> << >>, next |-> next]
           changed == OneChange(none)
                      \cup IF FingersPerReport = 1 THEN {} ELSE TwoChanges(none)
<1>1. none \in KernelReports /\ none.pad = pad
  BY DEF KernelReports
<1>2. Reached(pad, none)
  <2>1. none.events = << >> /\ << >> \in Seq(ValidEvents)
    OBVIOUS
  <2>2. [pad EXCEPT !.touch = pad.touch] = pad
    BY DEF Pads
  <2> HIDE DEF none
  <2> QED BY <1>1, <2>1, <2>2, ApplyNone DEF Reached
<1>3. PICK c \in changed : r = WithTouch(c, pad.touch)
  BY DEF FingerReports
<1> HIDE DEF none
<1>4. c \in OneChange(none) \/ c \in TwoChanges(none)
  BY <1>3
<1>5. c \in KernelReports /\ Reached(pad, c) /\ Occupies(pad, c)
  <2>1. CASE c \in OneChange(none)
    <3>1. PICK s \in Slots : c \in ChangeSlot(none, s)
      BY <2>1 DEF OneChange
    <3>2. c \in KernelReports
      BY <1>1, <3>1, ChangeSlotType
    <3> QED BY <1>1, <1>2, <3>1, <3>2, ChangeSlotEffect DEF Occupies
  <2>2. CASE c \in TwoChanges(none)
    <3>1. PICK s \in Slots : \E first \in ChangeSlot(none, s) : c \in LaterChange(first, s)
      BY <2>2 DEF TwoChanges
    <3>2. PICK first \in ChangeSlot(none, s) : c \in LaterChange(first, s)
      BY <3>1
    <3>3. first \in KernelReports /\ Reached(pad, first)
      BY <1>1, <1>2, <3>2, ChangeSlotType, ChangeSlotEffect
    <3>4. PICK t \in Slots : s < t /\ c \in ChangeSlot(first, t)
      BY <3>2 DEF LaterChange
    <3>5. t # s
      BY <3>4 DEF Slots
    <3>6. first.pad.slots[t] = pad.slots[t]
      BY <1>1, <1>2, <3>2, <3>5, ChangeSlotEffect
    <3>7. c \in KernelReports
      BY <3>3, <3>4, ChangeSlotType
    <3>8. /\ Reached(pad, c) /\ c.pad.cur = t
          /\ first.pad.slots[t].id # Inactive \/ c.pad.slots[t].id # Inactive
      BY <3>3, <3>4, ChangeSlotEffect
    <3> QED BY <3>6, <3>7, <3>8 DEF Occupies
  <2> QED BY <1>4, <2>1, <2>2
<1>6. c.pad \in Pads /\ c.events \in Seq(ValidEvents)
  BY <1>5 DEF KernelReports, Reached
<1>7. CASE c.pad.touch = pad.touch
  <2>1. r = c
    BY <1>3, <1>7 DEF WithTouch
  <2>2. [c.pad EXCEPT !.touch = pad.touch] = c.pad
    BY <1>6, <1>7 DEF Pads
  <2> QED BY <1>5, <1>6, <2>1, <2>2 DEF Reached
<1>8. CASE c.pad.touch # pad.touch
  <2> DEFINE touch == Event("TOUCH", c.pad.touch)
             mid == ApplyEvents(pad, c.events)
             events == Append(c.events, touch)
  <2>1. touch \in ValidEvents
    BY <1>6 DEF Event, ValidEvents, Events, KeyEvents, Pads
  <2>2. mid = [c.pad EXCEPT !.touch = pad.touch]
    BY <1>5 DEF Reached
  <2>3. ApplyEvent(mid, touch) = c.pad
    BY <1>6, <2>2 DEF ApplyEvent, Event, Pads
  <2> HIDE DEF touch
  <2>4. events \in Seq(ValidEvents) /\ ApplyEvents(pad, events) = ApplyEvent(mid, touch)
    BY <1>6, <2>1, ApplyEventsAppend
  <2>5. r = [c EXCEPT !.events = events]
    BY <1>3, <1>8 DEF WithTouch, touch
  <2> HIDE DEF events, mid
  <2>6. r.pad = c.pad /\ r.events = events
    BY <1>5, <2>5 DEF KernelReports
  <2> QED BY <1>5, <2>3, <2>4, <2>6 DEF Occupies
<1> QED BY <1>7, <1>8

\* What any report comes to: its events say what happened, or it names no slot.
LEMMA ReportsEffect ==
  ASSUME NEW pad \in Pads, NEW next \in Nat, NEW r \in Reports(pad, next)
  PROVE  \/ /\ r.events \in Seq(ValidEvents)
            /\ ApplyEvents(pad, r.events) = r.pad
            /\ Occupies(pad, r)
         \/ /\ BadSlots # {}
            /\ r.pad = pad
            /\ \E bad \in Nat \ Slots : r.events = <<Event("SLOT", bad)>>
<1>1. CASE r \in FingerReports(pad, next)
  BY <1>1, FingerReportsEffect
<1>2. CASE r \in ButtonReports(pad, next)
  <2> DEFINE press == Event("BTN", ~pad.btn)
  <2>1. press \in ValidEvents /\ ApplyEvent(pad, press) = [pad EXCEPT !.btn = ~@]
    BY DEF Event, ValidEvents, Events, KeyEvents, Pads, ApplyEvent
  <2>2. r.pad = [pad EXCEPT !.btn = ~@] /\ r.events = <<press>>
    BY <1>2 DEF ButtonReports
  <2>3. r.pad.cur = pad.cur
    BY <2>2 DEF Pads
  <2> HIDE DEF press
  <2> QED BY <2>1, <2>2, <2>3, ApplyOne DEF Occupies
<1>3. CASE r \in BadReports(pad, next)
  BY <1>3, KernelAssumption DEF BadReports
<1> QED BY <1>1, <1>2, <1>3 DEF Reports

(***************************************************************************)
(* Every report of the pad, from a pad whose BTN_TOUCH is right.           *)
(***************************************************************************)
LEMMA ReportsType ==
  ASSUME NEW pad \in Pads, TouchIsContact(pad), NEW next \in Nat,
         NEW r \in Reports(pad, next)
  PROVE  r \in KernelReports /\ TouchIsContact(r.pad)
<1>1. CASE r \in FingerReports(pad, next)
  <2> DEFINE none == [pad |-> pad, events |-> << >>, next |-> next]
             changed == OneChange(none)
                        \cup IF FingersPerReport = 1 THEN {} ELSE TwoChanges(none)
  <2>1. none \in KernelReports
    BY DEF KernelReports
  <2>2. PICK c \in changed : r = WithTouch(c, pad.touch)
    BY <1>1 DEF FingerReports
  <2> HIDE DEF none
  <2>3. c \in OneChange(none) \/ c \in TwoChanges(none)
    BY <2>2
  <2>4. c \in KernelReports /\ TouchIsContact(c.pad)
    <3>1. CASE c \in OneChange(none)
      BY <2>1, <3>1, ChangeSlotType DEF OneChange
    <3>2. CASE c \in TwoChanges(none)
      <4>1. PICK s \in Slots : \E first \in ChangeSlot(none, s) : c \in LaterChange(first, s)
        BY <3>2 DEF TwoChanges
      <4>2. PICK first \in ChangeSlot(none, s) : c \in LaterChange(first, s)
        BY <4>1
      <4>3. first \in KernelReports
        BY <2>1, <4>2, ChangeSlotType
      <4>4. PICK t \in Slots : c \in ChangeSlot(first, t)
        BY <4>2 DEF LaterChange
      <4> QED BY <4>3, <4>4, ChangeSlotType
    <3> QED BY <2>3, <3>1, <3>2
  <2>5. c.pad \in Pads /\ c.events \in Seq(Events) /\ c.next \in Nat
    BY <2>4 DEF KernelReports
  <2> DEFINE touch == Event("TOUCH", c.pad.touch)
             events == Append(c.events, touch)
  <2>6. touch \in Events
    BY <2>5 DEF Event, Events, KeyEvents, Pads
  <2> HIDE DEF touch
  <2>7. events \in Seq(Events)
    BY <2>5, <2>6
  <2>8. r = c \/ r = [c EXCEPT !.events = events]
    BY <2>2 DEF WithTouch, touch
  <2> HIDE DEF events
  <2> QED BY <2>4, <2>5, <2>7, <2>8 DEF KernelReports
<1>2. CASE r \in ButtonReports(pad, next)
  <2>1. Event("BTN", ~pad.btn) \in Events
    BY DEF Event, Events, KeyEvents, Pads
  <2>2. /\ r.pad = [pad EXCEPT !.btn = ~@] /\ r.events = <<Event("BTN", ~pad.btn)>>
        /\ r.next = next /\ r = [pad |-> r.pad, events |-> r.events, next |-> r.next]
    BY <1>2 DEF ButtonReports
  <2>3. r.events \in Seq(Events)
    BY <2>1, <2>2
  <2>4. r.pad \in Pads /\ r.pad.slots = pad.slots /\ r.pad.touch = pad.touch
    BY <2>2 DEF Pads
  <2> QED BY <2>2, <2>3, <2>4 DEF KernelReports, TouchIsContact, IsActive
<1>3. CASE r \in BadReports(pad, next)
  <2>1. PICK bad \in BadSlots :
          r = [pad |-> pad, events |-> <<Event("SLOT", bad)>>, next |-> next]
    BY <1>3 DEF BadReports
  <2>2. Event("SLOT", bad) \in Events
    BY KernelAssumption DEF Event, Events, SlotEvents
  <2>3. <<Event("SLOT", bad)>> \in Seq(Events)
    BY <2>2
  <2> QED BY <2>1, <2>3 DEF KernelReports
<1> QED BY <1>1, <1>2, <1>3 DEF Reports

(***************************************************************************)
(* The client buffer.                                                      *)
(***************************************************************************)
LEMMA PushReportType ==
  ASSUME NEW queue \in Seq(KernelEvents), NEW events \in Seq(Events)
  PROVE  PushReport(queue, events) \in Seq(KernelEvents)
<1> DEFINE report == Append(events, Syn)
           free == IF Len(queue) < QueueMax THEN QueueMax - Len(queue) ELSE 0
           rest == SubSeq(report, free + 1, Len(report))
           first == <<Dropped>>
<1>1. Syn \in KernelEvents /\ Dropped \in KernelEvents /\ Events \subseteq KernelEvents
  BY DEF KernelEvents
<1>2. events \in Seq(KernelEvents)
  <2>1. \A i \in 1 .. Len(events) : events[i] \in KernelEvents
    BY <1>1
  <2> QED BY <2>1
<1>3. report \in Seq(KernelEvents) /\ first \in Seq(KernelEvents)
  BY <1>1, <1>2
<1>4. free \in Nat
  BY KernelAssumption
<1>5. PushReport(queue, events) = IF Len(report) <= free THEN queue \o report ELSE first \o rest
  BY DEF PushReport
<1> HIDE DEF report, free, first
<1>6. rest \in Seq(KernelEvents)
  BY <1>3, <1>4
<1> HIDE DEF rest
<1>7. queue \o report \in Seq(KernelEvents) /\ first \o rest \in Seq(KernelEvents)
  BY <1>3, <1>6
<1> QED BY <1>5, <1>7

LEMMA FlushKeysRun ==
  ASSUME NEW queue \in Seq(KernelEvents)
  PROVE  \E run \in [0 .. Len(queue) -> Seq(KernelEvents)] :
           /\ run[0] = << >>
           /\ \A i \in 1 .. Len(queue) : run[i] = KeepUnlessKey(run[i - 1], queue[i])
           /\ FlushKeys(queue) = run[Len(queue)]
<1> DEFINE n == Len(queue)
           Rec(g) == g = [i \in 0 .. n |->
                            IF i = 0 THEN << >> ELSE KeepUnlessKey(g[i - 1], queue[i])]
           kept == CHOOSE g : Rec(g)
           step == [x \in (1 .. n) \X Seq(KernelEvents) |-> KeepUnlessKey(x[2], queue[x[1]])]
<1>1. n \in Nat /\ \A i \in 1 .. n : queue[i] \in KernelEvents
  OBVIOUS
<1>2. \A s \in Seq(KernelEvents), e \in KernelEvents : KeepUnlessKey(s, e) \in Seq(KernelEvents)
  BY DEF KeepUnlessKey
<1>3. step \in [(1 .. n) \X Seq(KernelEvents) -> Seq(KernelEvents)]
  <2> HIDE DEF n
  <2> QED BY <1>1, <1>2
<1>4. << >> \in Seq(KernelEvents)
  OBVIOUS
<1>5. FlushKeys(queue) = kept[n]
  BY DEF FlushKeys
<1> HIDE DEF n
<1>6. PICK f \in [0 .. n -> Seq(KernelEvents)] : IsRun(f, n, << >>, step)
  <2> HIDE DEF step
  <2> QED BY <1>1, <1>3, <1>4, RecursionExists
<1>7. f[0] = << >>
  <2> HIDE DEF step
  <2> QED BY <1>6 DEF IsRun
<1>8. ASSUME NEW i \in 1 .. n
      PROVE  f[i] = KeepUnlessKey(f[i - 1], queue[i])
  <2> DEFINE x == <<i, f[i - 1]>>
  <2>1. x \in (1 .. n) \X Seq(KernelEvents)
    <3>1. i - 1 \in 0 .. n
      BY <1>1
    <3> QED BY <3>1
  <2>2. f[i] = step[x]
    <3> HIDE DEF step
    <3> QED BY <1>6 DEF IsRun
  <2>3. step[x] = KeepUnlessKey(x[2], queue[x[1]])
    <3> HIDE DEF x
    <3> QED BY <2>1
  <2> QED BY <2>2, <2>3
<1> HIDE DEF step
<1>9. Rec(kept)
  <2>1. Rec(f)
    BY <1>1, <1>7, <1>8
  <2> HIDE DEF Rec
  <2> QED BY <2>1
<1> HIDE DEF kept
<1>10. \A i \in 0 .. n :
         kept[i] = IF i = 0 THEN << >> ELSE KeepUnlessKey(kept[i - 1], queue[i])
  <2>1. kept = [i \in 0 .. n |->
                  IF i = 0 THEN << >> ELSE KeepUnlessKey(kept[i - 1], queue[i])]
    BY <1>9
  <2> QED BY ONLY <2>1
<1> DEFINE S == {i \in 0 .. n : kept[i] \in Seq(KernelEvents)}
<1>11. 0 \in S
  <2>1. 0 \in 0 .. n
    BY <1>1
  <2>2. kept[0] = << >>
    BY <1>10, <2>1
  <2> QED BY <1>4, <2>1, <2>2
<1>12. \A i \in 1 .. n : i - 1 \in S => i \in S
  <2> SUFFICES ASSUME NEW i \in 1 .. n, kept[i - 1] \in Seq(KernelEvents)
               PROVE  i \in 0 .. n /\ kept[i] \in Seq(KernelEvents)
    OBVIOUS
  <2>1. i \in 0 .. n /\ i # 0
    BY <1>1
  <2> QED BY <1>1, <1>2, <1>10, <2>1
<1>13. 0 .. n \subseteq S
  <2> HIDE DEF S
  <2> QED BY <1>1, <1>11, <1>12, RangeInduction
<1>14. kept \in [0 .. n -> Seq(KernelEvents)]
  <2>1. kept = [i \in 0 .. n |->
                  IF i = 0 THEN << >> ELSE KeepUnlessKey(kept[i - 1], queue[i])]
    BY <1>9
  <2>2. \A i \in 0 .. n : kept[i] \in Seq(KernelEvents)
    BY <1>13
  <2>3. kept = [i \in 0 .. n |-> kept[i]]
    BY ONLY <2>1
  <2> QED BY ONLY <2>2, <2>3
<1>15. kept[0] = << >> /\ \A i \in 1 .. n : kept[i] = KeepUnlessKey(kept[i - 1], queue[i])
  <2>1. 0 \in 0 .. n /\ \A i \in 1 .. n : i \in 0 .. n /\ i # 0
    BY <1>1
  <2> QED BY <1>10, <2>1
<1>16. n = Len(queue)
  BY DEF n
<1> QED BY <1>5, <1>14, <1>15, <1>16

(***************************************************************************)
(* EVIOCGKEY goes through the buffer event by event.                       *)
(***************************************************************************)
KeepStep == [x \in Seq(KernelEvents) \X KernelEvents |-> KeepUnlessKey(x[1], x[2])]

LEMMA KeepStepIsStep == IsStep(KeepStep, Seq(KernelEvents), KernelEvents)
<1>1. \A s \in Seq(KernelEvents), e \in KernelEvents : KeepUnlessKey(s, e) \in Seq(KernelEvents)
  BY DEF KeepUnlessKey
<1> QED BY <1>1 DEF IsStep, KeepStep

LEMMA FlushKeysOutcome ==
  ASSUME NEW queue \in Seq(KernelEvents)
  PROVE  FlushKeys(queue) = Outcome(KeepStep, Seq(KernelEvents), << >>, queue)
<1> DEFINE n == Len(queue)
<1>1. n \in Nat /\ n <= n /\ << >> \in Seq(KernelEvents)
      /\ \A i \in 1 .. n : queue[i] \in KernelEvents /\ i - 1 \in 0 .. n
  OBVIOUS
<1>2. PICK f \in [0 .. n -> Seq(KernelEvents)] :
        /\ f[0] = << >>
        /\ \A i \in 1 .. n : f[i] = KeepUnlessKey(f[i - 1], queue[i])
        /\ FlushKeys(queue) = f[n]
  BY FlushKeysRun
<1>3. Steps(f, KeepStep, << >>, queue)
  <2>1. ASSUME NEW i \in 1 .. n PROVE f[i] = KeepStep[<<f[i - 1], queue[i]>>]
    <3>1. f[i - 1] \in Seq(KernelEvents) /\ queue[i] \in KernelEvents
      BY <1>1, <1>2
    <3> QED BY <1>2, <3>1 DEF KeepStep
  <2> QED BY <1>2, <2>1 DEF Steps
<1>4. PICK g : Steps(g, KeepStep, << >>, queue)
               /\ Outcome(KeepStep, Seq(KernelEvents), << >>, queue) = g[n]
  BY <1>1, KeepStepIsStep, OutcomeSteps
<1>5. f[n] = g[n]
  BY <1>1, <1>3, <1>4, StepsAgree
<1> QED BY <1>2, <1>4, <1>5

LEMMA FlushKeysType ==
  ASSUME NEW queue \in Seq(KernelEvents)
  PROVE  FlushKeys(queue) \in Seq(KernelEvents)
<1>1. << >> \in Seq(KernelEvents)
  OBVIOUS
<1> QED BY <1>1, FlushKeysOutcome, KeepStepIsStep, OutcomeType

LEMMA FlushKeysNone == FlushKeys(<< >>) = << >>
<1>1. << >> \in Seq(KernelEvents)
  OBVIOUS
<1> QED BY <1>1, FlushKeysOutcome, KeepStepIsStep, OutcomeNone

LEMMA FlushKeysAppend ==
  ASSUME NEW queue \in Seq(KernelEvents), NEW e \in KernelEvents
  PROVE  FlushKeys(Append(queue, e)) = KeepUnlessKey(FlushKeys(queue), e)
<1> DEFINE kept == FlushKeys(queue)
           more == Append(queue, e)
<1>1. more \in Seq(KernelEvents) /\ << >> \in Seq(KernelEvents) /\ kept \in Seq(KernelEvents)
  BY FlushKeysType
<1>2. FlushKeys(more) = KeepStep[<<kept, e>>]
  <2>1. /\ FlushKeys(more) = Outcome(KeepStep, Seq(KernelEvents), << >>, more)
        /\ kept = Outcome(KeepStep, Seq(KernelEvents), << >>, queue)
    BY <1>1, FlushKeysOutcome
  <2>2. Outcome(KeepStep, Seq(KernelEvents), << >>, Append(queue, e)) =
          KeepStep[<<Outcome(KeepStep, Seq(KernelEvents), << >>, queue), e>>]
    <3> DEFINE T == Seq(KernelEvents)
               none == << >>
    <3>1. none \in T /\ queue \in Seq(KernelEvents) /\ IsStep(KeepStep, T, KernelEvents)
      BY <1>1, KeepStepIsStep
    <3> HIDE DEF T, none
    <3>2. Outcome(KeepStep, T, none, Append(queue, e)) = KeepStep[<<Outcome(KeepStep, T, none, queue), e>>]
      BY <3>1, OutcomeAppend
    <3> QED BY <3>2 DEF T, none
  <2> HIDE DEF kept
  <2> QED BY <2>1, <2>2
<1> HIDE DEF kept
<1>3. KeepStep[<<kept, e>>] = KeepUnlessKey(kept, e)
  BY <1>1 DEF KeepStep
<1> QED BY <1>2, <1>3 DEF kept

-----------------------------------------------------------------------------
(***************************************************************************)
(* The outlook of poll_frames over a sequence of kernel events: the pad it *)
(* will have, unless events were lost, and then a query brings it to the   *)
(* physical pad w at the next SYN_REPORT, or a slot is rejected, which     *)
(* ends the loop (evdev.rs poll_frames, reconcile_frame).                  *)
(***************************************************************************)
Outlooks == [mode : {"ok", "lost", "bad"}, pad : Pads]

Start(pad) == [mode |-> "ok", pad |-> pad]

Foresee(o, w, e) ==
  CASE e.type = "DROPPED" -> [o EXCEPT !.mode = "lost"]
    [] e.type = "SYN"     -> IF o.mode = "lost" THEN Start(w) ELSE o
    [] OTHER              -> IF o.mode # "ok" THEN o
                             ELSE IF e \in ValidEvents THEN Start(ApplyEvent(o.pad, e))
                             ELSE [o EXCEPT !.mode = "bad"]

Foresight(w) == [x \in Outlooks \X KernelEvents |-> Foresee(x[1], w, x[2])]

Outlook(o, w, events) == Outcome(Foresight(w), Outlooks, o, events)

LEMMA StartType ==
  ASSUME NEW pad \in Pads
  PROVE  Start(pad) \in Outlooks /\ Start(pad).mode = "ok" /\ Start(pad).pad = pad
BY DEF Start, Outlooks

LEMMA KernelEventKinds ==
  ASSUME NEW e \in KernelEvents
  PROVE  \/ e = Dropped /\ e.type = "DROPPED"
         \/ e = Syn /\ e.type = "SYN"
         \/ e \in Events /\ e.type \notin {"SYN", "DROPPED"}
BY DEF KernelEvents, Syn, Dropped, Events, SlotEvents, IdEvents, PositionEvents, KeyEvents

LEMMA ValidKernelEvents ==
  /\ ValidEvents \subseteq KernelEvents /\ Syn \in KernelEvents /\ Dropped \in KernelEvents
  /\ Syn.type = "SYN" /\ Dropped.type = "DROPPED"
  /\ \A e \in ValidEvents : e.type \notin {"SYN", "DROPPED"}
BY DEF ValidEvents, KernelEvents, Syn, Dropped, Events, SlotEvents, IdEvents, PositionEvents,
       KeyEvents

LEMMA ForeseeType ==
  ASSUME NEW o \in Outlooks, NEW w \in Pads, NEW e \in KernelEvents
  PROVE  Foresee(o, w, e) \in Outlooks
<1>1. CASE e.type = "DROPPED"
  BY <1>1 DEF Foresee, Outlooks
<1>2. CASE e.type = "SYN"
  BY <1>2, StartType DEF Foresee
<1>3. CASE e.type \notin {"DROPPED", "SYN"}
  <2>1. o.pad \in Pads
    BY DEF Outlooks
  <2>2. CASE o.mode # "ok"
    BY <1>3, <2>2 DEF Foresee
  <2>3. CASE o.mode = "ok" /\ e \in ValidEvents
    BY <1>3, <2>1, <2>3, ApplyEventType, StartType DEF Foresee
  <2>4. CASE o.mode = "ok" /\ e \notin ValidEvents
    BY <1>3, <2>4 DEF Foresee, Outlooks
  <2> QED BY <2>2, <2>3, <2>4
<1> QED BY <1>1, <1>2, <1>3

LEMMA ForesightIsStep ==
  ASSUME NEW w \in Pads
  PROVE  IsStep(Foresight(w), Outlooks, KernelEvents)
BY ForeseeType DEF IsStep, Foresight

LEMMA OutlookType ==
  ASSUME NEW o \in Outlooks, NEW w \in Pads, NEW s \in Seq(KernelEvents)
  PROVE  Outlook(o, w, s) \in Outlooks
BY ForesightIsStep, OutcomeType DEF Outlook

LEMMA OutlookNone ==
  ASSUME NEW o \in Outlooks, NEW w \in Pads
  PROVE  Outlook(o, w, << >>) = o
BY ForesightIsStep, OutcomeNone DEF Outlook

LEMMA OutlookAppend ==
  ASSUME NEW o \in Outlooks, NEW w \in Pads, NEW s \in Seq(KernelEvents), NEW e \in KernelEvents
  PROVE  Outlook(o, w, Append(s, e)) = Foresee(Outlook(o, w, s), w, e)
<1>1. Outlook(o, w, Append(s, e)) = Foresight(w)[<<Outlook(o, w, s), e>>]
  BY ForesightIsStep, OutcomeAppend DEF Outlook
<1> DEFINE mid == Outlook(o, w, s)
<1>2. mid \in Outlooks
  BY OutlookType
<1> HIDE DEF mid
<1>3. Foresight(w)[<<mid, e>>] = Foresee(mid, w, e)
  BY <1>2 DEF Foresight
<1> QED BY <1>1, <1>3 DEF mid

LEMMA OutlookConcat ==
  ASSUME NEW o \in Outlooks, NEW w \in Pads, NEW s \in Seq(KernelEvents),
         NEW t \in Seq(KernelEvents)
  PROVE  Outlook(o, w, s \o t) = Outlook(Outlook(o, w, s), w, t)
BY ForesightIsStep, OutcomeConcat DEF Outlook

-----------------------------------------------------------------------------
(***************************************************************************)
(* Two outlooks over the same input stay alike: a relation between pads    *)
(* that every event preserves holds between where they lead, if it holds   *)
(* where they start and where a query takes them.                          *)
(***************************************************************************)
Preserved(R) ==
  \A p, q \in Pads, e \in ValidEvents :
    <<p, q>> \in R => <<ApplyEvent(p, e), ApplyEvent(q, e)>> \in R

Alike(R, o1, o2) ==
  o1.mode = o2.mode /\ (o1.mode = "ok" => <<o1.pad, o2.pad>> \in R)

LEMMA ForeseeAlike ==
  ASSUME NEW R, Preserved(R), NEW o1 \in Outlooks, NEW o2 \in Outlooks, Alike(R, o1, o2),
         NEW w1 \in Pads, NEW w2 \in Pads, <<w1, w2>> \in R, NEW e \in KernelEvents
  PROVE  Alike(R, Foresee(o1, w1, e), Foresee(o2, w2, e))
<1>1. CASE e.type = "DROPPED"
  BY <1>1 DEF Foresee, Alike, Outlooks
<1>2. CASE e.type = "SYN"
  BY <1>2 DEF Foresee, Alike, Start
<1>3. CASE e.type \notin {"DROPPED", "SYN"}
  <2>1. o1.pad \in Pads /\ o2.pad \in Pads
    BY DEF Outlooks
  <2>2. CASE o1.mode # "ok"
    BY <1>3, <2>2 DEF Foresee, Alike
  <2>3. CASE o1.mode = "ok" /\ e \in ValidEvents
    BY <1>3, <2>1, <2>3 DEF Foresee, Alike, Start, Preserved
  <2>4. CASE o1.mode = "ok" /\ e \notin ValidEvents
    BY <1>3, <2>4 DEF Foresee, Alike, Outlooks
  <2> QED BY <2>2, <2>3, <2>4
<1> QED BY <1>1, <1>2, <1>3

LEMMA OutlooksAlike ==
  ASSUME NEW R, Preserved(R), NEW o1 \in Outlooks, NEW o2 \in Outlooks, Alike(R, o1, o2),
         NEW w1 \in Pads, NEW w2 \in Pads, <<w1, w2>> \in R, NEW events \in Seq(KernelEvents)
  PROVE  Alike(R, Outlook(o1, w1, events), Outlook(o2, w2, events))
<1> DEFINE S == {s \in Seq(KernelEvents) : Alike(R, Outlook(o1, w1, s), Outlook(o2, w2, s))}
<1>1. << >> \in S
  <2>1. << >> \in Seq(KernelEvents)
    OBVIOUS
  <2> QED BY <2>1, OutlookNone
<1>2. ASSUME NEW s \in Seq(KernelEvents), NEW e \in KernelEvents, s \in S
      PROVE  Append(s, e) \in S
  <2>1. Append(s, e) \in Seq(KernelEvents)
    OBVIOUS
  <2>2. /\ Outlook(o1, w1, s) \in Outlooks /\ Outlook(o2, w2, s) \in Outlooks
        /\ Alike(R, Outlook(o1, w1, s), Outlook(o2, w2, s))
    BY <1>2, OutlookType
  <2>3. Alike(R, Foresee(Outlook(o1, w1, s), w1, e), Foresee(Outlook(o2, w2, s), w2, e))
    BY <2>2, ForeseeAlike
  <2>4. Alike(R, Outlook(o1, w1, Append(s, e)), Outlook(o2, w2, Append(s, e)))
    BY <2>3, OutlookAppend
  <2> QED BY <2>1, <2>4
<1>3. Seq(KernelEvents) \subseteq S
  <2> HIDE DEF S
  <2> QED BY <1>1, <1>2, SeqInduction
<1> QED BY <1>3

LEMMA ApplyEventsPreserved ==
  ASSUME NEW R, Preserved(R), NEW p \in Pads, NEW q \in Pads, <<p, q>> \in R,
         NEW events \in Seq(ValidEvents)
  PROVE  <<ApplyEvents(p, events), ApplyEvents(q, events)>> \in R
<1> DEFINE S == {s \in Seq(ValidEvents) : <<ApplyEvents(p, s), ApplyEvents(q, s)>> \in R}
<1>1. << >> \in S
  <2>1. << >> \in Seq(ValidEvents)
    OBVIOUS
  <2> QED BY <2>1, ApplyNone
<1>2. ASSUME NEW s \in Seq(ValidEvents), NEW e \in ValidEvents, s \in S
      PROVE  Append(s, e) \in S
  <2>1. Append(s, e) \in Seq(ValidEvents)
    OBVIOUS
  <2>2. /\ ApplyEvents(p, s) \in Pads /\ ApplyEvents(q, s) \in Pads
        /\ <<ApplyEvents(p, s), ApplyEvents(q, s)>> \in R
    BY <1>2, ApplyEventsType
  <2>3. <<ApplyEvent(ApplyEvents(p, s), e), ApplyEvent(ApplyEvents(q, s), e)>> \in R
    BY <2>2 DEF Preserved
  <2>4. <<ApplyEvents(p, Append(s, e)), ApplyEvents(q, Append(s, e))>> \in R
    BY <2>3, ApplyEventsAppend
  <2> QED BY <2>1, <2>4
<1>3. Seq(ValidEvents) \subseteq S
  <2> HIDE DEF S
  <2> QED BY <1>1, <1>2, SeqInduction
<1> QED BY <1>3

(***************************************************************************)
(* The outlook over one frame.                                             *)
(***************************************************************************)
LEMMA ValidSeqs ==
  ASSUME NEW events \in Seq(ValidEvents)
  PROVE  events \in Seq(KernelEvents)
BY ValidKernelEvents, SeqMonotonic

LEMMA FrameOutlook ==
  ASSUME NEW o \in Outlooks, NEW w \in Pads, NEW events \in Seq(ValidEvents)
  PROVE  Outlook(o, w, events) =
           IF o.mode = "ok" THEN Start(ApplyEvents(o.pad, events)) ELSE o
<1> DEFINE After(s) == IF o.mode = "ok" THEN Start(ApplyEvents(o.pad, s)) ELSE o
           S == {s \in Seq(ValidEvents) : Outlook(o, w, s) = After(s)}
<1>1. o.pad \in Pads
  BY DEF Outlooks
<1>2. << >> \in S
  <2>1. << >> \in Seq(ValidEvents)
    OBVIOUS
  <2>2. o.mode = "ok" => o = Start(o.pad)
    BY DEF Outlooks, Start
  <2>3. After(<< >>) = o
    BY <1>1, <2>2, ApplyNone
  <2> QED BY <2>1, <2>3, OutlookNone
<1>3. ASSUME NEW s \in Seq(ValidEvents), NEW e \in ValidEvents, s \in S
      PROVE  Append(s, e) \in S
  <2>1. Append(s, e) \in Seq(ValidEvents)
    OBVIOUS
  <2>2. s \in Seq(KernelEvents) /\ e \in KernelEvents /\ e.type \notin {"SYN", "DROPPED"}
    BY ValidSeqs, ValidKernelEvents
  <2>3. Outlook(o, w, Append(s, e)) = Foresee(After(s), w, e)
    BY <1>3, <2>2, OutlookAppend
  <2>4. Foresee(After(s), w, e) = After(Append(s, e))
    <3>1. CASE o.mode = "ok"
      <4>1. ApplyEvents(o.pad, Append(s, e)) = ApplyEvent(ApplyEvents(o.pad, s), e)
        BY <1>1, ApplyEventsAppend
      <4> QED BY <2>2, <3>1, <4>1 DEF Foresee, Start
    <3>2. CASE o.mode # "ok"
      BY <2>2, <3>2 DEF Foresee
    <3> QED BY <3>1, <3>2
  <2> QED BY <2>1, <2>3, <2>4
<1>4. Seq(ValidEvents) \subseteq S
  <2> HIDE DEF S
  <2> QED BY <1>2, <1>3, SeqInduction
<1> QED BY <1>4

LEMMA ReportOutlook ==
  ASSUME NEW o \in Outlooks, NEW w \in Pads, NEW events \in Seq(ValidEvents)
  PROVE  Outlook(o, w, Append(events, Syn)) =
           IF o.mode = "ok" THEN Start(ApplyEvents(o.pad, events))
           ELSE IF o.mode = "lost" THEN Start(w) ELSE o
<1>1. events \in Seq(KernelEvents)
  BY ValidSeqs
<1>2. Outlook(o, w, Append(events, Syn)) = Foresee(Outlook(o, w, events), w, Syn)
  BY <1>1, ValidKernelEvents, OutlookAppend
<1>3. Outlook(o, w, events) = IF o.mode = "ok" THEN Start(ApplyEvents(o.pad, events)) ELSE o
  BY FrameOutlook
<1> QED BY <1>2, <1>3, ValidKernelEvents DEF Foresee, Start

\* Once an event was lost, only the next SYN_REPORT says anything.
LoseSome(events) ==
  /\ \A i \in 1 .. Len(events) : events[i].type # "SYN"
  /\ \E i \in 1 .. Len(events) : events[i].type = "DROPPED"

LEMMA LostOutlook ==
  ASSUME NEW o \in Outlooks, NEW w \in Pads, NEW events \in Seq(KernelEvents), LoseSome(events)
  PROVE  Outlook(o, w, Append(events, Syn)) = Start(w)
<1> DEFINE S == {s \in Seq(KernelEvents) : LoseSome(s) => Outlook(o, w, s).mode = "lost"}
<1>1. << >> \in S
  BY DEF LoseSome
<1>2. ASSUME NEW s \in Seq(KernelEvents), NEW e \in KernelEvents, s \in S
      PROVE  Append(s, e) \in S
  <2> DEFINE t == Append(s, e)
             mid == Outlook(o, w, s)
  <2>1. t \in Seq(KernelEvents)
    OBVIOUS
  <2>2. Outlook(o, w, t) = Foresee(mid, w, e) /\ mid \in Outlooks
    BY OutlookAppend, OutlookType
  <2>3. ASSUME LoseSome(t) PROVE Outlook(o, w, t).mode = "lost"
    <3>1. e.type # "SYN" /\ (e.type = "DROPPED" \/ LoseSome(s))
      <4>1. /\ Len(t) = Len(s) + 1 /\ t[Len(s) + 1] = e /\ Len(s) \in Nat
            /\ \A i \in 1 .. Len(s) : t[i] = s[i]
        OBVIOUS
      <4> HIDE DEF t
      <4> QED BY <2>3, <4>1 DEF LoseSome
    <3>2. CASE e.type = "DROPPED"
      BY <2>2, <3>2 DEF Foresee, Outlooks
    <3>3. CASE e.type # "DROPPED"
      <4>1. mid.mode = "lost"
        BY <1>2, <3>1, <3>3
      <4> QED BY <2>2, <3>1, <3>3, <4>1 DEF Foresee
    <3> QED BY <3>2, <3>3
  <2> QED BY <2>1, <2>3
<1>3. Seq(KernelEvents) \subseteq S
  <2> HIDE DEF S
  <2> QED BY <1>1, <1>2, SeqInduction
<1>4. Outlook(o, w, events).mode = "lost"
  BY <1>3
<1>5. Outlook(o, w, Append(events, Syn)) = Foresee(Outlook(o, w, events), w, Syn)
  BY ValidKernelEvents, OutlookAppend
<1> QED BY <1>4, <1>5, ValidKernelEvents DEF Foresee

-----------------------------------------------------------------------------
(***************************************************************************)
(* How a report enters the buffer, and how EVIOCGKEY leaves it.            *)
(***************************************************************************)
EventSeqs == Seq(KernelEvents)

LEMMA EventSeqsType ==
  ASSUME NEW s \in Seq(Events)
  PROVE  s \in EventSeqs /\ Append(s, Syn) \in EventSeqs
<1>1. Events \subseteq KernelEvents /\ Syn \in KernelEvents
  BY DEF KernelEvents
<1>2. s \in Seq(KernelEvents)
  BY <1>1, SeqMonotonic
<1> QED BY <1>1, <1>2 DEF EventSeqs

LEMMA PushReportEffect ==
  ASSUME NEW queue0 \in EventSeqs, NEW events \in Seq(Events)
  PROVE  \/ PushReport(queue0, events) = queue0 \o Append(events, Syn)
         \/ /\ ~(Len(queue0) + Len(events) < QueueMax)
            /\ \E lost \in EventSeqs :
                 LoseSome(lost) /\ PushReport(queue0, events) = Append(lost, Syn)
<1> DEFINE report == Append(events, Syn)
           free == IF Len(queue0) < QueueMax THEN QueueMax - Len(queue0) ELSE 0
           n == Len(events)
           rest == SubSeq(events, free + 1, n)
           lost == <<Dropped>> \o rest
<1>1. /\ n \in Nat /\ free \in Nat /\ Len(queue0) \in Nat /\ QueueMax \in Nat
      /\ Len(report) = n + 1 /\ report[n + 1] = Syn /\ \A i \in 1 .. n : report[i] = events[i]
  BY KernelAssumption DEF EventSeqs
<1>2. PushReport(queue0, events) =
        IF Len(report) <= free THEN queue0 \o report
        ELSE <<Dropped>> \o SubSeq(report, free + 1, Len(report))
  BY DEF PushReport
<1>3. CASE Len(report) <= free
  BY <1>2, <1>3
<1>4. CASE ~(Len(report) <= free)
  <2>1. free <= n /\ ~(Len(queue0) + n < QueueMax)
    BY <1>1, <1>4
  <2> HIDE DEF free
  <2>2. events \in EventSeqs /\ \A i \in 1 .. n : events[i] \in Events
    BY EventSeqsType
  <2>3. /\ rest \in EventSeqs /\ Len(rest) = n - free
        /\ \A i \in 1 .. n - free : rest[i] = events[free + i]
    BY <1>1, <2>1, <2>2 DEF EventSeqs
  <2> HIDE DEF rest
  <2>4. /\ lost \in EventSeqs /\ Len(lost) = n - free + 1 /\ lost[1] = Dropped
        /\ \A i \in 2 .. Len(lost) : lost[i] = rest[i - 1]
    BY <1>1, <2>1, <2>3, ValidKernelEvents DEF EventSeqs
  <2>5. LoseSome(lost)
    <3>1. \A e \in Events : e.type # "SYN"
      BY DEF Events, SlotEvents, IdEvents, PositionEvents, KeyEvents
    <3>2. \A i \in 1 .. Len(lost) : lost[i].type # "SYN"
      <4> TAKE i \in 1 .. Len(lost)
      <4>1. CASE i = 1
        BY <2>4, <4>1, ValidKernelEvents
      <4>2. CASE i # 1
        <5>1. i \in 2 .. Len(lost) /\ i - 1 \in 1 .. n - free /\ free + (i - 1) \in 1 .. n
          BY <1>1, <2>1, <2>4, <4>2
        <5> QED BY <2>2, <2>3, <2>4, <3>1, <5>1
      <4> QED BY <4>1, <4>2
    <3>3. 1 \in 1 .. Len(lost) /\ lost[1].type = "DROPPED"
      BY <1>1, <2>1, <2>4, ValidKernelEvents
    <3> QED BY <3>2, <3>3 DEF LoseSome
  <2>6. PushReport(queue0, events) = Append(lost, Syn)
    <3> DEFINE tail == SubSeq(report, free + 1, n + 1)
    <3>1. report \in EventSeqs
      BY EventSeqsType
    <3>2. /\ Len(tail) = n + 1 - free /\ tail \in EventSeqs
          /\ \A i \in 1 .. n + 1 - free : tail[i] = report[free + i]
      <4> HIDE DEF report
      <4> QED BY <1>1, <2>1, <3>1 DEF EventSeqs
    <3> HIDE DEF tail, report
    <3>3. tail = Append(rest, Syn)
      <4>1. /\ Append(rest, Syn) \in EventSeqs /\ Len(Append(rest, Syn)) = n + 1 - free
            /\ Append(rest, Syn)[n + 1 - free] = Syn
            /\ \A i \in 1 .. n - free : Append(rest, Syn)[i] = rest[i]
        BY <1>1, <2>1, <2>3, ValidKernelEvents DEF EventSeqs
      <4>2. \A i \in 1 .. n + 1 - free : tail[i] = Append(rest, Syn)[i]
        <5> TAKE i \in 1 .. n + 1 - free
        <5>1. CASE i = n + 1 - free
          BY <1>1, <2>1, <3>2, <4>1, <5>1
        <5>2. CASE i # n + 1 - free
          <6>1. i \in 1 .. n - free /\ free + i \in 1 .. n
            BY <1>1, <2>1, <5>2
          <6> QED BY <1>1, <2>3, <3>2, <4>1, <6>1
        <5> QED BY <5>1, <5>2
      <4> DEFINE more == Append(rest, Syn)
      <4> HIDE DEF more
      <4> QED BY <3>2, <4>1, <4>2, SeqEqual DEF more, EventSeqs
    <3>4. <<Dropped>> \o Append(rest, Syn) = Append(<<Dropped>> \o rest, Syn)
      BY <2>3, ValidKernelEvents DEF EventSeqs
    <3> QED BY <1>1, <1>2, <1>4, <3>3, <3>4 DEF tail
  <2> HIDE DEF lost
  <2> QED BY <2>1, <2>4, <2>5, <2>6
<1> QED BY <1>3, <1>4

\* Two pads with the same selected slot and the same contacts (RouterOf).
SameView ==
  {v \in Pads \X Pads : v[1].cur = v[2].cur
                        /\ \A s \in Slots : v[1].slots[s].id = v[2].slots[s].id}

LEMMA SameViewPreserved == Preserved(SameView)
<1> SUFFICES ASSUME NEW p \in Pads, NEW q \in Pads, NEW e \in ValidEvents, <<p, q>> \in SameView
             PROVE  <<ApplyEvent(p, e), ApplyEvent(q, e)>> \in SameView
  BY DEF Preserved
<1>1. p.cur = q.cur /\ \A s \in Slots : p.slots[s].id = q.slots[s].id
  BY DEF SameView
<1> DEFINE p1 == ApplyEvent(p, e)
           q1 == ApplyEvent(q, e)
<1>2. p1 \in Pads /\ q1 \in Pads
  BY ApplyEventType
<1>3. p1.cur = q1.cur /\ \A s \in Slots : p1.slots[s].id = q1.slots[s].id
  BY <1>1, ApplyEventEffect
<1> HIDE DEF p1, q1
<1>4. <<p1, q1>> \in SameView
  BY <1>2, <1>3 DEF SameView
<1> QED BY <1>4 DEF p1, q1

LEMMA SameViewRefl ==
  ASSUME NEW p \in Pads
  PROVE  <<p, p>> \in SameView
BY DEF SameView

\* A key event changes nothing of the view.
LEMMA KeyOutlook ==
  ASSUME NEW o1 \in Outlooks, NEW o2 \in Outlooks, Alike(SameView, o1, o2), NEW w \in Pads,
         NEW e \in KernelEvents, e.type \in {"TOUCH", "BTN"}
  PROVE  Alike(SameView, Foresee(o1, w, e), o2)
<1>1. e \in ValidEvents
  BY KernelEventKinds DEF ValidEvents
<1>2. CASE o1.mode # "ok"
  BY <1>2 DEF Foresee
<1>3. CASE o1.mode = "ok"
  <2> DEFINE p == ApplyEvent(o1.pad, e)
  <2>1. o1.pad \in Pads /\ o2.pad \in Pads /\ <<o1.pad, o2.pad>> \in SameView
    BY <1>3 DEF Outlooks, Alike
  <2>2. o1.pad.cur = o2.pad.cur /\ \A s \in Slots : o1.pad.slots[s].id = o2.pad.slots[s].id
    BY <2>1 DEF SameView
  <2>3. p \in Pads /\ p.cur = o1.pad.cur /\ \A s \in Slots : p.slots[s].id = o1.pad.slots[s].id
    BY <1>1, <2>1, ApplyEventType, ApplyEventEffect
  <2>4. Foresee(o1, w, e) = Start(p)
    BY <1>1, <1>3 DEF Foresee
  <2> HIDE DEF p
  <2>5. <<p, o2.pad>> \in SameView
    BY <2>1, <2>2, <2>3 DEF SameView
  <2> QED BY <1>3, <2>4, <2>5 DEF Alike, Start
<1> QED BY <1>2, <1>3

LEMMA FlushOutlook ==
  ASSUME NEW o \in Outlooks, NEW w \in Pads, NEW events \in EventSeqs
  PROVE  Alike(SameView, Outlook(o, w, events), Outlook(o, w, FlushKeys(events)))
<1> DEFINE Ended(s) == /\ FlushKeys(s) # << >>
                       /\ FlushKeys(s)[Len(FlushKeys(s))] = Syn
           S == {s \in Seq(KernelEvents) :
                   /\ Alike(SameView, Outlook(o, w, s), Outlook(o, w, FlushKeys(s)))
                   /\ Ended(s) => Outlook(o, w, FlushKeys(s)).mode # "lost"}
<1>1. << >> \in S
  <2>1. << >> \in Seq(KernelEvents) /\ ~Ended(<< >>)
    BY FlushKeysNone
  <2>2. Outlook(o, w, << >>) = o
    BY OutlookNone
  <2>3. o.mode = "ok" => o.pad \in Pads
    BY DEF Outlooks
  <2>4. Alike(SameView, o, o)
    BY <2>3, SameViewRefl DEF Alike
  <2> HIDE DEF Ended
  <2> QED BY <2>1, <2>2, <2>4, FlushKeysNone
<1>2. ASSUME NEW s \in Seq(KernelEvents), NEW e \in KernelEvents, s \in S
      PROVE  Append(s, e) \in S
  <2> DEFINE t == Append(s, e)
             kept == FlushKeys(s)
             next0 == FlushKeys(t)
             o1 == Outlook(o, w, s)
             o2 == Outlook(o, w, kept)
  <2>1. /\ t \in Seq(KernelEvents) /\ kept \in Seq(KernelEvents)
        /\ next0 = KeepUnlessKey(kept, e)
    BY FlushKeysType, FlushKeysAppend
  <2>2. o1 \in Outlooks /\ o2 \in Outlooks /\ Outlook(o, w, t) = Foresee(o1, w, e)
    BY <2>1, OutlookType, OutlookAppend
  <2>3. Alike(SameView, o1, o2) /\ (Ended(s) => o2.mode # "lost")
    BY <1>2
  <2>4. Ended(s) <=> kept # << >> /\ kept[Len(kept)] = Syn
    OBVIOUS
  <2>5. Ended(t) <=> next0 # << >> /\ next0[Len(next0)] = Syn
    OBVIOUS
  <2>6. SUFFICES /\ Alike(SameView, Foresee(o1, w, e), Outlook(o, w, next0))
                 /\ Ended(t) => Outlook(o, w, next0).mode # "lost"
    BY <2>1, <2>2
  <2> HIDE DEF Ended, t, kept, next0, o1
  <2>7. CASE e.type \in {"TOUCH", "BTN"}
    <3>1. next0 = kept
      BY <2>1, <2>7 DEF KeepUnlessKey
    <3> QED BY <2>2, <2>3, <2>4, <2>5, <2>7, <3>1, KeyOutlook
  <2>8. CASE e.type = "SYN" /\ kept # << >> /\ kept[Len(kept)] = Syn
    <3>1. next0 = kept
      BY <2>1, <2>8 DEF KeepUnlessKey
    <3>2. o2.mode # "lost" /\ o1.mode # "lost"
      BY <2>3, <2>4, <2>8 DEF Alike
    <3>3. Foresee(o1, w, e) = o1
      BY <2>8, <3>2 DEF Foresee
    <3> QED BY <2>3, <2>4, <2>5, <3>1, <3>3
  <2>9. CASE next0 = Append(kept, e)
    <3>1. Outlook(o, w, next0) = Foresee(o2, w, e)
      BY <2>1, <2>9, OutlookAppend
    <3>2. Alike(SameView, Foresee(o1, w, e), Foresee(o2, w, e))
      BY <2>2, <2>3, SameViewPreserved, SameViewRefl, ForeseeAlike
    <3>3. Ended(t) => e = Syn
      BY <2>1, <2>5, <2>9
    <3>4. Foresee(o2, w, Syn).mode # "lost"
      BY ValidKernelEvents DEF Foresee, Start
    <3> QED BY <3>1, <3>2, <3>3, <3>4
  <2> QED BY <2>1, <2>7, <2>8, <2>9 DEF KeepUnlessKey
<1>3. Seq(KernelEvents) \subseteq S
  <2> HIDE DEF S
  <2> QED BY <1>1, <1>2, SeqInduction
<1> QED BY <1>3 DEF EventSeqs

EndsInSyn(s) == s # << >> => s[Len(s)] = Syn

LEMMA FlushEndsInSyn ==
  ASSUME NEW events \in EventSeqs, EndsInSyn(events)
  PROVE  /\ FlushKeys(events) \in EventSeqs
         /\ EndsInSyn(FlushKeys(events))
         /\ events # << >> => FlushKeys(events) # << >>
<1>1. FlushKeys(events) \in EventSeqs
  BY FlushKeysType DEF EventSeqs
<1>2. CASE events = << >>
  BY <1>1, <1>2, FlushKeysNone DEF EndsInSyn
<1>3. CASE events # << >>
  <2> DEFINE n == Len(events) - 1
             s == SubSeq(events, 1, n)
             kept == FlushKeys(s)
  <2>1. s \in Seq(KernelEvents) /\ events = Append(s, Syn)
    <3>1. events[Len(events)] = Syn /\ Len(events) \in Nat \ {0}
      BY <1>3 DEF EndsInSyn, EventSeqs
    <3>2. s \in Seq(KernelEvents) /\ Len(s) = n /\ \A i \in 1 .. n : s[i] = events[i]
      <4>1. n \in Nat /\ n <= Len(events)
        BY <3>1
      <4> HIDE DEF n
      <4> QED BY <4>1 DEF EventSeqs
    <3> HIDE DEF s
    <3>3. /\ Append(s, Syn) \in Seq(KernelEvents) /\ Len(Append(s, Syn)) = Len(events)
          /\ \A i \in 1 .. Len(events) : Append(s, Syn)[i] = events[i]
      BY <3>1, <3>2, ValidKernelEvents
    <3> DEFINE t == Append(s, Syn)
    <3> HIDE DEF t
    <3>4. t = events
      BY <3>3, SeqEqual DEF t, EventSeqs
    <3> QED BY <3>2, <3>4 DEF t
  <2> HIDE DEF s
  <2>2. kept \in Seq(KernelEvents) /\ FlushKeys(events) = KeepUnlessKey(kept, Syn)
    BY <2>1, FlushKeysType, FlushKeysAppend, ValidKernelEvents
  <2> HIDE DEF kept
  <2>3. CASE kept # << >> /\ kept[Len(kept)] = Syn
    BY <1>1, <2>2, <2>3, ValidKernelEvents DEF KeepUnlessKey, EndsInSyn
  <2>4. CASE ~(kept # << >> /\ kept[Len(kept)] = Syn)
    <3>1. FlushKeys(events) = Append(kept, Syn)
      BY <2>2, <2>4, ValidKernelEvents DEF KeepUnlessKey
    <3> QED BY <1>1, <2>2, <3>1 DEF EndsInSyn
  <2> QED BY <2>3, <2>4
<1> QED BY <1>2, <1>3

-----------------------------------------------------------------------------
(***************************************************************************)
(* What a drained daemon will show of the contacts: where the outlook is   *)
(* not an error, it has the slot the physical pad has selected, and a      *)
(* finger only where the physical pad has one.                             *)
(***************************************************************************)
Inside(o, w) ==
  o.mode = "ok" =>
    /\ o.pad.cur = w.cur
    /\ \A s \in Slots : ~IsActive(w, s) => ~IsActive(o.pad, s)

LEMMA InsideAlike ==
  ASSUME NEW o1, NEW o2, Alike(SameView, o1, o2), NEW w, Inside(o1, w)
  PROVE  Inside(o2, w)
BY DEF Alike, SameView, Inside, IsActive

(***************************************************************************)
(* Relations between pads that a report's events preserve, between the     *)
(* outlook of a daemon that has not seen the report and the one of a       *)
(* daemon whose query has, or is about to.                                 *)
(***************************************************************************)
AnyPads == Pads \X Pads
SameSlot == {v \in Pads \X Pads : v[1].cur = v[2].cur}
SameSlotOr(c) == {v \in Pads \X Pads : v[1].cur = v[2].cur \/ v[1].cur = c}

\* The second pad has no finger in slot s that the first one lacks, and no
\* event for another slot that reaches s in it.
NoNewIn(s) ==
  {v \in Pads \X Pads :
     \/ v[1].cur = v[2].cur /\ (~IsActive(v[1], s) => ~IsActive(v[2], s))
     \/ v[2].cur # s /\ ~IsActive(v[2], s)}

\* Whatever happens in slot s of the first pad after slot c is left happens in
\* the second.
ToldFrom(c, s, id) ==
  {v \in Pads \X Pads :
     \/ /\ v[1].cur = v[2].cur
        /\ v[1].slots[s].id = v[2].slots[s].id \/ v[1].slots[s].id = id
     \/ v[1].cur = c /\ v[1].slots[s].id = id}

LEMMA RelationsPreserved ==
  ASSUME NEW s \in Slots, NEW c \in Slots, NEW id
  PROVE  /\ Preserved(AnyPads)
         /\ Preserved(SameSlot)
         /\ Preserved(SameSlotOr(c))
         /\ Preserved(NoNewIn(s))
         /\ c # s => Preserved(ToldFrom(c, s, id))
<1> SUFFICES ASSUME NEW p \in Pads, NEW q \in Pads, NEW e \in ValidEvents
             PROVE  LET before == <<p, q>>
                        after == <<ApplyEvent(p, e), ApplyEvent(q, e)>>
                    IN  /\ before \in AnyPads => after \in AnyPads
                        /\ before \in SameSlot => after \in SameSlot
                        /\ before \in SameSlotOr(c) => after \in SameSlotOr(c)
                        /\ before \in NoNewIn(s) => after \in NoNewIn(s)
                        /\ c # s => (before \in ToldFrom(c, s, id) => after \in ToldFrom(c, s, id))
  BY DEF Preserved
<1> DEFINE p1 == ApplyEvent(p, e)
           q1 == ApplyEvent(q, e)
<1>1. p1 \in Pads /\ q1 \in Pads
  BY ApplyEventType
<1>2. /\ p1.cur = IF e.type = "SLOT" THEN e.value ELSE p.cur
      /\ q1.cur = IF e.type = "SLOT" THEN e.value ELSE q.cur
      /\ p1.slots[s].id = IF e.type = "ID" /\ s = p.cur THEN e.value ELSE p.slots[s].id
      /\ q1.slots[s].id = IF e.type = "ID" /\ s = q.cur THEN e.value ELSE q.slots[s].id
  BY ApplyEventEffect
<1> HIDE DEF p1, q1
<1> DEFINE before == <<p, q>>
           after == <<p1, q1>>
<1>3. before \in AnyPads => after \in AnyPads
  BY <1>1 DEF AnyPads
<1>4. before \in SameSlot => after \in SameSlot
  BY <1>1, <1>2 DEF SameSlot
<1>5. before \in SameSlotOr(c) => after \in SameSlotOr(c)
  BY <1>1, <1>2 DEF SameSlotOr
<1>6. before \in NoNewIn(s) => after \in NoNewIn(s)
  BY <1>1, <1>2 DEF NoNewIn, IsActive
<1>7. c # s => (before \in ToldFrom(c, s, id) => after \in ToldFrom(c, s, id))
  BY <1>1, <1>2 DEF ToldFrom
<1> QED BY <1>3, <1>4, <1>5, <1>6, <1>7 DEF p1, q1

\* Where the outlook starts when the pad reports: a query under way sees the
\* tracking ids after the report.
StartsFor(w, w2, base, base2) ==
  \/ base2 = base
  \/ base = w /\ base2 = w2
  \/ base.cur = base2.cur /\ \A s \in Slots : base2.slots[s].id = w2.slots[s].id

LEMMA InsideReport ==
  ASSUME NEW w \in Pads, NEW w2 \in Pads, NEW base \in Pads, NEW base2 \in Pads,
         StartsFor(w, w2, base, base2), NEW events \in Seq(ValidEvents),
         ApplyEvents(w, events) = w2,
         w2.cur # w.cur => IsActive(w, w2.cur) \/ IsActive(w2, w2.cur),
         NEW unread \in EventSeqs, Inside(Outlook(Start(base), w, unread), w)
  PROVE  Inside(Outlook(Start(base2), w2, unread \o Append(events, Syn)), w2)
<1> DEFINE o == Outlook(Start(base), w, unread)
           p == Outlook(Start(base2), w2, unread)
           after == Outlook(Start(base2), w2, unread \o Append(events, Syn))
<1>1. /\ Start(base) \in Outlooks /\ Start(base2) \in Outlooks
      /\ Start(base).mode = "ok" /\ Start(base2).mode = "ok"
      /\ Start(base).pad = base /\ Start(base2).pad = base2
  BY StartType
<1>2. o \in Outlooks /\ p \in Outlooks
  BY <1>1, OutlookType DEF EventSeqs
<1>3. ASSUME NEW R, Preserved(R), <<w, w2>> \in R, <<base, base2>> \in R
      PROVE  Alike(R, o, p)
  <2>1. Alike(R, Start(base), Start(base2))
    BY <1>1, <1>3 DEF Alike
  <2> QED BY <1>1, <1>3, <2>1, OutlooksAlike DEF EventSeqs
<1>4. after = Outlook(p, w2, Append(events, Syn))
  <2>1. Append(events, Syn) \in Seq(KernelEvents)
    <3>1. events \in Seq(KernelEvents)
      BY ValidSeqs
    <3> QED BY <3>1, ValidKernelEvents
  <2> QED BY <1>1, <2>1, OutlookConcat DEF EventSeqs
<1>5. after = IF p.mode = "ok" THEN Start(ApplyEvents(p.pad, events))
              ELSE IF p.mode = "lost" THEN Start(w2) ELSE p
  BY <1>2, <1>4, ReportOutlook
<1> HIDE DEF o, p, after
<1>6. CASE p.mode # "ok"
  BY <1>5, <1>6 DEF Inside, Start, after
<1>7. CASE p.mode = "ok"
  <2> DEFINE q == ApplyEvents(p.pad, events)
  <2>1. 0 \in Slots
    BY NSlotsAssumption DEF Slots
  <2>2. o.mode = "ok"
    <3>1. Alike(AnyPads, o, p)
      BY <1>3, <2>1, RelationsPreserved DEF AnyPads
    <3> QED BY <1>7, <3>1 DEF Alike
  <2>3. o.pad \in Pads /\ p.pad \in Pads /\ w.cur \in Slots /\ w2.cur \in Slots
    BY <1>2 DEF Outlooks, Pads
  <2>4. o.pad.cur = w.cur /\ \A s \in Slots : ~IsActive(w, s) => ~IsActive(o.pad, s)
    BY <2>2 DEF Inside, o
  <2>5. ASSUME NEW R, Preserved(R), <<w, p.pad>> \in R
        PROVE  <<w2, q>> \in R
    BY <2>3, <2>5, ApplyEventsPreserved
  <2>6. q \in Pads /\ after = Start(q)
    BY <1>5, <1>7, <2>3, ApplyEventsType
  <2> HIDE DEF q
  <2>7. q.cur = w2.cur
    <3>1. CASE w2.cur = w.cur
      <4>1. Preserved(SameSlot)
        BY <2>1, RelationsPreserved
      <4>2. <<w, w2>> \in SameSlot /\ <<base, base2>> \in SameSlot
        BY <3>1 DEF SameSlot, StartsFor
      <4>3. p.pad.cur = o.pad.cur
        BY <1>3, <2>2, <4>1, <4>2 DEF Alike, SameSlot
      <4>4. <<w, p.pad>> \in SameSlot
        BY <2>3, <2>4, <4>3 DEF SameSlot
      <4>5. <<w2, q>> \in SameSlot
        BY <2>5, <4>1, <4>4
      <4> QED BY <4>5 DEF SameSlot
    <3>2. CASE w2.cur # w.cur
      <4>1. Preserved(SameSlotOr(w.cur))
        BY <2>3, RelationsPreserved
      <4>2. <<w, p.pad>> \in SameSlotOr(w.cur)
        BY <2>3 DEF SameSlotOr
      <4>3. <<w2, q>> \in SameSlotOr(w.cur)
        BY <2>5, <4>1, <4>2
      <4> QED BY <3>2, <4>3 DEF SameSlotOr
    <3> QED BY <3>1, <3>2
  <2>8. ASSUME NEW s \in Slots, ~IsActive(w2, s)
        PROVE  ~IsActive(q, s)
    <3>1. CASE s = w2.cur /\ w2.cur # w.cur
      <4> DEFINE id == w.slots[s].id
      <4>1. id # Inactive /\ w2.slots[s].id = Inactive
        BY <2>8, <3>1 DEF IsActive
      <4>2. Preserved(ToldFrom(w.cur, s, id))
        BY <2>3, <3>1, RelationsPreserved
      <4>3. <<w, p.pad>> \in ToldFrom(w.cur, s, id)
        BY <2>3 DEF ToldFrom
      <4>4. <<w2, q>> \in ToldFrom(w.cur, s, id)
        BY <2>5, <4>2, <4>3
      <4> HIDE DEF id
      <4> QED BY <3>1, <4>1, <4>4 DEF ToldFrom, IsActive
    <3>2. CASE s # w2.cur \/ w2.cur = w.cur
      <4>1. Preserved(NoNewIn(s))
        BY <2>3, RelationsPreserved
      <4>2. <<w, w2>> \in NoNewIn(s) /\ <<base, base2>> \in NoNewIn(s)
        BY <2>8, <3>2 DEF NoNewIn, StartsFor, IsActive
      <4>3. <<o.pad, p.pad>> \in NoNewIn(s)
        BY <1>3, <2>2, <4>1, <4>2 DEF Alike
      <4>4. <<w, p.pad>> \in NoNewIn(s)
        BY <2>3, <2>4, <4>3 DEF NoNewIn
      <4>5. <<w2, q>> \in NoNewIn(s)
        BY <2>5, <4>1, <4>4
      <4> QED BY <2>8, <4>5 DEF NoNewIn
    <3> QED BY <3>1, <3>2
  <2> QED BY <2>6, <2>7, <2>8 DEF Inside, Start, after
<1> QED BY <1>6, <1>7

-----------------------------------------------------------------------------
(***************************************************************************)
(* A client buffer that lost nothing and names no slot that is not there:  *)
(* its outlook is what its events make of the pad, whatever a query would  *)
(* find.                                                                   *)
(***************************************************************************)
SoundEvents == ValidEvents \cup {Syn}

LEMMA SoundSeqs ==
  ASSUME NEW s \in Seq(SoundEvents)
  PROVE  s \in Seq(KernelEvents)
<1>1. SoundEvents \subseteq KernelEvents
  BY ValidKernelEvents DEF SoundEvents
<1> QED BY <1>1, SeqMonotonic

LEMMA SoundOutlook ==
  ASSUME NEW o \in Outlooks, o.mode = "ok", NEW w1 \in Pads, NEW w2 \in Pads,
         NEW events \in Seq(SoundEvents)
  PROVE  /\ Outlook(o, w1, events) \in Outlooks
         /\ Outlook(o, w1, events).mode = "ok"
         /\ Outlook(o, w1, events) = Outlook(o, w2, events)
<1> DEFINE S == {s \in Seq(SoundEvents) :
                   /\ Outlook(o, w1, s).mode = "ok"
                   /\ Outlook(o, w1, s) = Outlook(o, w2, s)}
<1>1. << >> \in S
  <2>1. << >> \in Seq(SoundEvents)
    OBVIOUS
  <2> QED BY <2>1, OutlookNone
<1>2. ASSUME NEW s \in Seq(SoundEvents), NEW e \in SoundEvents, s \in S
      PROVE  Append(s, e) \in S
  <2> DEFINE mid == Outlook(o, w1, s)
  <2>1. Append(s, e) \in Seq(SoundEvents)
    OBVIOUS
  <2>2. /\ s \in Seq(KernelEvents) /\ e \in KernelEvents
        /\ (e = Syn /\ e.type = "SYN") \/ (e \in ValidEvents /\ e.type \notin {"SYN", "DROPPED"})
    <3>1. e \in KernelEvents
          /\ ((e = Syn /\ e.type = "SYN") \/ (e \in ValidEvents /\ e.type \notin {"SYN", "DROPPED"}))
      BY ValidKernelEvents DEF SoundEvents
    <3> QED BY <3>1, SoundSeqs
  <2>3. mid \in Outlooks /\ mid.mode = "ok" /\ Outlook(o, w2, s) = mid
    BY <1>2, <2>2, OutlookType
  <2>4. /\ Outlook(o, w1, Append(s, e)) = Foresee(mid, w1, e)
        /\ Outlook(o, w2, Append(s, e)) = Foresee(mid, w2, e)
    BY <2>2, <2>3, OutlookAppend
  <2> HIDE DEF mid
  <2>5. Foresee(mid, w1, e) = Foresee(mid, w2, e) /\ Foresee(mid, w1, e).mode = "ok"
    <3>1. CASE e.type = "SYN"
      BY <2>3, <3>1 DEF Foresee
    <3>2. CASE e \in ValidEvents /\ e.type \notin {"SYN", "DROPPED"}
      BY <2>3, <3>2 DEF Foresee, Start
    <3> QED BY <2>2, <3>1, <3>2
  <2> QED BY <2>1, <2>4, <2>5
<1>3. Seq(SoundEvents) \subseteq S
  <2> HIDE DEF S
  <2> QED BY <1>1, <1>2, SeqInduction
<1>4. Outlook(o, w1, events) \in Outlooks
  BY SoundSeqs, OutlookType
<1> QED BY <1>3, <1>4

\* Two pads with the same BTN_TOUCH.
SameTouch == {v \in Pads \X Pads : v[1].touch = v[2].touch}

LEMMA SameTouchPreserved == Preserved(SameTouch)
<1> SUFFICES ASSUME NEW p \in Pads, NEW q \in Pads, NEW e \in ValidEvents, <<p, q>> \in SameTouch
             PROVE  <<ApplyEvent(p, e), ApplyEvent(q, e)>> \in SameTouch
  BY DEF Preserved
<1>1. p.touch = q.touch
  BY DEF SameTouch
<1> DEFINE p1 == ApplyEvent(p, e)
           q1 == ApplyEvent(q, e)
<1>2. p1 \in Pads /\ q1 \in Pads
  BY ApplyEventType
<1>3. p1.touch = q1.touch
  BY <1>1, ApplyEventEffect
<1> HIDE DEF p1, q1
<1>4. <<p1, q1>> \in SameTouch
  BY <1>2, <1>3 DEF SameTouch
<1> QED BY <1>4 DEF p1, q1

\* After EVIOCGKEY nothing in the buffer says anything of BTN_TOUCH.
LEMMA FlushSound ==
  ASSUME NEW events \in Seq(SoundEvents), NEW o \in Outlooks, o.mode = "ok", NEW w \in Pads
  PROVE  /\ FlushKeys(events) \in Seq(SoundEvents)
         /\ Outlook(o, w, FlushKeys(events)).pad.touch = o.pad.touch
<1> DEFINE S == {s \in Seq(SoundEvents) :
                   /\ FlushKeys(s) \in Seq(SoundEvents)
                   /\ Outlook(o, w, FlushKeys(s)).pad.touch = o.pad.touch}
<1>1. << >> \in S
  <2>1. << >> \in Seq(SoundEvents)
    OBVIOUS
  <2> QED BY <2>1, FlushKeysNone, OutlookNone
<1>2. ASSUME NEW s \in Seq(SoundEvents), NEW e \in SoundEvents, s \in S
      PROVE  Append(s, e) \in S
  <2> DEFINE kept == FlushKeys(s)
             next0 == FlushKeys(Append(s, e))
  <2>1. Append(s, e) \in Seq(SoundEvents)
    OBVIOUS
  <2>2. /\ s \in Seq(KernelEvents) /\ e \in KernelEvents
        /\ ((e = Syn /\ e.type = "SYN") \/ (e \in ValidEvents /\ e.type \notin {"SYN", "DROPPED"}))
    <3>1. e \in KernelEvents
          /\ ((e = Syn /\ e.type = "SYN") \/ (e \in ValidEvents /\ e.type \notin {"SYN", "DROPPED"}))
      BY ValidKernelEvents DEF SoundEvents
    <3> QED BY <3>1, SoundSeqs
  <2>3. next0 = KeepUnlessKey(kept, e)
    BY <2>2, FlushKeysAppend
  <2>4. kept \in Seq(SoundEvents) /\ Outlook(o, w, kept).pad.touch = o.pad.touch
    BY <1>2
  <2>5. kept \in Seq(KernelEvents) /\ Outlook(o, w, kept) \in Outlooks
        /\ Outlook(o, w, kept).mode = "ok"
    BY <2>4, SoundSeqs, SoundOutlook
  <2> HIDE DEF kept, next0
  <2>6. SUFFICES next0 \in Seq(SoundEvents) /\ Outlook(o, w, next0).pad.touch = o.pad.touch
    BY <2>1 DEF next0
  <2>7. CASE next0 = kept
    BY <2>4, <2>7
  <2>8. CASE next0 = Append(kept, e) /\ e.type \notin {"TOUCH", "BTN"}
    <3>1. next0 \in Seq(SoundEvents)
      BY <2>4, <2>8
    <3>2. Outlook(o, w, next0) = Foresee(Outlook(o, w, kept), w, e)
      BY <2>2, <2>5, <2>8, OutlookAppend
    <3> DEFINE mid == Outlook(o, w, kept)
    <3>3. mid \in Outlooks /\ mid.mode = "ok" /\ mid.pad.touch = o.pad.touch /\ mid.pad \in Pads
      BY <2>4, <2>5 DEF Outlooks
    <3> HIDE DEF mid
    <3>4. Foresee(mid, w, e).pad.touch = o.pad.touch
      <4>1. CASE e.type = "SYN"
        BY <3>3, <4>1 DEF Foresee
      <4>2. CASE e \in ValidEvents /\ e.type \notin {"SYN", "DROPPED"}
        <5>1. Foresee(mid, w, e) = Start(ApplyEvent(mid.pad, e))
          BY <3>3, <4>2 DEF Foresee
        <5>2. ApplyEvent(mid.pad, e).touch = mid.pad.touch
          BY <2>8, <3>3, <4>2, ApplyEventEffect
        <5> QED BY <3>3, <5>1, <5>2 DEF Start
      <4> QED BY <2>2, <4>1, <4>2
    <3> QED BY <3>1, <3>2, <3>4 DEF mid
  <2> QED BY <2>3, <2>7, <2>8 DEF KeepUnlessKey
<1>3. Seq(SoundEvents) \subseteq S
  <2> HIDE DEF S
  <2> QED BY <1>1, <1>2, SeqInduction
<1> QED BY <1>3

(***************************************************************************)
(* What agrees with the pad before a report agrees with it after, once the *)
(* report is queued: for any relation between pads that says the same of   *)
(* both and that events preserve.                                          *)
(***************************************************************************)
Equality(R) ==
  /\ \A p \in Pads : <<p, p>> \in R
  /\ \A p, q, r \in Pads : <<p, q>> \in R /\ <<q, r>> \in R => <<p, r>> \in R

LEMMA ReportAgrees ==
  ASSUME NEW R, Preserved(R), Equality(R),
         NEW w \in Pads, NEW w2 \in Pads, NEW base \in Pads, NEW base2 \in Pads,
         <<base, base2>> \in R,
         NEW events \in Seq(ValidEvents), ApplyEvents(w, events) = w2,
         NEW unread \in Seq(SoundEvents),
         <<w, Outlook(Start(base), w, unread).pad>> \in R
  PROVE  <<w2, Outlook(Start(base2), w2, unread \o Append(events, Syn)).pad>> \in R
<1> DEFINE o == Outlook(Start(base), w, unread)
           p == Outlook(Start(base2), w2, unread)
           full == Append(events, Syn)
<1>1. /\ Start(base) \in Outlooks /\ Start(base2) \in Outlooks
      /\ Start(base).mode = "ok" /\ Start(base2).mode = "ok"
      /\ Start(base).pad = base /\ Start(base2).pad = base2
  BY StartType
<1>2. /\ o \in Outlooks /\ o.mode = "ok" /\ p \in Outlooks /\ p.mode = "ok"
      /\ o = Outlook(Start(base), w2, unread)
  BY <1>1, SoundOutlook
<1>3. unread \in Seq(KernelEvents) /\ events \in Seq(KernelEvents) /\ full \in Seq(KernelEvents)
  BY SoundSeqs, ValidSeqs, ValidKernelEvents
<1>4. Alike(R, o, p)
  <2>1. Alike(R, Start(base), Start(base2)) /\ <<w2, w2>> \in R
    BY <1>1 DEF Alike, Equality
  <2>2. Alike(R, Outlook(Start(base), w2, unread), p)
    BY <1>1, <1>3, <2>1, OutlooksAlike
  <2> QED BY <1>2, <2>2
<1>5. Outlook(Start(base2), w2, unread \o full) = Start(ApplyEvents(p.pad, events))
  <2>1. Outlook(Start(base2), w2, unread \o full) = Outlook(p, w2, full)
    <3> HIDE DEF full
    <3> QED BY <1>1, <1>3, OutlookConcat
  <2>2. Outlook(p, w2, full) = Start(ApplyEvents(p.pad, events))
    <3> HIDE DEF p
    <3> QED BY <1>2, ReportOutlook
  <2> QED BY <2>1, <2>2
<1> HIDE DEF o, p, full
<1>6. o.pad \in Pads /\ p.pad \in Pads
  BY <1>2 DEF Outlooks
<1>7. <<w, p.pad>> \in R
  <2>1. <<w, o.pad>> \in R /\ <<o.pad, p.pad>> \in R
    BY <1>2, <1>4 DEF Alike, o
  <2> QED BY <1>6, <2>1 DEF Equality
<1>8. <<ApplyEvents(w, events), ApplyEvents(p.pad, events)>> \in R
  BY <1>6, <1>7, ApplyEventsPreserved
<1> DEFINE q == ApplyEvents(p.pad, events)
<1> HIDE DEF q
<1>9. Outlook(Start(base2), w2, unread \o full).pad = q
  BY <1>5 DEF Start, q
<1>10. <<w2, q>> \in R
  BY <1>8 DEF q
<1>11. <<w2, Outlook(Start(base2), w2, unread \o full).pad>> \in R
  BY <1>9, <1>10
<1> QED BY <1>11 DEF full

LEMMA SameEqualities == Equality(SameView) /\ Equality(SameTouch)
BY DEF Equality, SameView, SameTouch

=============================================================================
