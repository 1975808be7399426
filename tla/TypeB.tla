------------------------------- MODULE TypeB -------------------------------
(***************************************************************************)
(* The multitouch "Type B" protocol state the daemon keeps for the         *)
(* physical touchpad (src/src/evdev.rs): FrameState, the ContactSnapshot   *)
(* taken from it, and the event sequence that takes a consumer from one    *)
(* FrameState to another.                                                  *)
(*                                                                         *)
(* A pad is [slots, cur, touch, btn]: the slots with their tracking id and *)
(* position, the slot that slot-less events refer to, BTN_TOUCH, and       *)
(* whether a touchpad button is pressed (the eight-bit pressed_buttons     *)
(* mask is only ever compared with zero, so one bit stands for it).        *)
(* A frame's SYN_REPORT is the end of its event sequence.                  *)
(***************************************************************************)
EXTENDS Integers, Sequences

CONSTANTS
  NSlots,    \* number of MT slots, fixed when the device is opened
  NoSlot,    \* current_slot = None: an invalid ABS_MT_SLOT was seen
  NoContact, \* contact_id = None
  NoPos      \* pos = None

ASSUME NSlotsAssumption == NSlots \in Nat \ {0}

Slots == 0 .. NSlots - 1
Inactive == -1                       \* INACTIVE_TRACKING_ID
TrackingIds == Nat \cup {Inactive}

SlotStates == [id : TrackingIds, x : Int, y : Int]
Positions == [x : Int, y : Int]
ContactIds == [slot : Slots, id : Nat]

Pads ==
  [slots : [Slots -> SlotStates], cur : Slots, touch : BOOLEAN, btn : BOOLEAN]

ASSUME SentinelAssumption ==
  /\ NoSlot \notin Slots
  /\ NoContact \notin ContactIds
  /\ NoPos \notin Positions

(***************************************************************************)
(* The events the daemon interprets.  Every other event passes through it  *)
(* unread and carries no Type B state.                                     *)
(***************************************************************************)
Event(type, value) == [type |-> type, value |-> value]

SlotEvents == [type : {"SLOT"}, value : Nat]
IdEvents == [type : {"ID"}, value : TrackingIds]
PositionEvents == [type : {"X", "Y"}, value : Int]
KeyEvents == [type : {"TOUCH", "BTN"}, value : BOOLEAN]
Events == SlotEvents \cup IdEvents \cup PositionEvents \cup KeyEvents

\* Seeded fault: apply_event takes whatever slot the device names.
FaultySelectsAnySlot(events) == TRUE

\* validated_runtime_slot accepts the value of every slot event of the frame.
SelectsValidSlots(events) ==
  \A i \in 1 .. Len(events) :
    events[i].type = "SLOT" => events[i].value \in Slots

(***************************************************************************)
(* FrameState::apply_event, and apply_event over a whole frame.            *)
(***************************************************************************)
ApplyEvent(pad, e) ==
  CASE e.type = "TOUCH" -> [pad EXCEPT !.touch = e.value]
    [] e.type = "BTN"   -> [pad EXCEPT !.btn = e.value]
    [] e.type = "SLOT"  -> [pad EXCEPT !.cur = IF e.value \in Slots
                                               THEN e.value ELSE NoSlot]
    [] e.type = "ID"    -> [pad EXCEPT !.slots[pad.cur].id = e.value]
    [] e.type = "X"     -> [pad EXCEPT !.slots[pad.cur].x = e.value]
    [] e.type = "Y"     -> [pad EXCEPT !.slots[pad.cur].y = e.value]

ApplyEvents(pad, events) ==
  LET after[i \in 0 .. Len(events)] ==
        IF i = 0 THEN pad ELSE ApplyEvent(after[i - 1], events[i])
  IN  after[Len(events)]

(***************************************************************************)
(* ContactSnapshot: what the gesture FSM is shown of a frame.              *)
(***************************************************************************)
IsActive(pad, slot) == pad.slots[slot].id # Inactive
ActiveSlots(pad) == {slot \in Slots : IsActive(pad, slot)}

PositionOf(pad, slot) == [x |-> pad.slots[slot].x, y |-> pad.slots[slot].y]
ContactOf(pad, slot) == [slot |-> slot, id |-> pad.slots[slot].id]

NoTouch == [contact |-> FALSE, pos |-> NoPos, id |-> NoContact]
TouchAt(pad, slot) ==
  [contact |-> TRUE, pos |-> PositionOf(pad, slot), id |-> ContactOf(pad, slot)]

\* ContactSnapshot::primary: the active contact in the lowest slot.
Primary(pad) ==
  IF pad.touch /\ ActiveSlots(pad) # {}
  THEN TouchAt(pad, CHOOSE s \in ActiveSlots(pad) :
                      \A t \in ActiveSlots(pad) : s <= t)
  ELSE NoTouch

\* Seeded faults: the tracked contact is looked for in the lowest slot only;
\* whoever is in its slot is taken for it.
FaultyForLowest(pad, contact) ==
  IF pad.touch /\ Primary(pad).id = contact
  THEN TouchAt(pad, contact.slot)
  ELSE [NoTouch EXCEPT !.id = contact]
FaultyForSlot(pad, contact) ==
  IF pad.touch /\ IsActive(pad, contact.slot)
  THEN TouchAt(pad, contact.slot)
  ELSE [NoTouch EXCEPT !.id = contact]

\* ContactSnapshot::for_contact: the tracked contact, wherever others are.
ForContact(pad, contact) ==
  IF pad.touch /\ pad.slots[contact.slot].id = contact.id
  THEN TouchAt(pad, contact.slot)
  ELSE [NoTouch EXCEPT !.id = contact]

\* ContactSnapshot::is_quiescent.
IsQuiescent(pad) == ~pad.touch /\ ~pad.btn /\ ActiveSlots(pad) = {}

(***************************************************************************)
(* reconciliation_events: the events that carry a consumer of the previous *)
(* state to the refreshed one.  Note what is not among them: no event for  *)
(* a button, and no position of a surviving contact unless synchronization *)
(* was lost.                                                               *)
(***************************************************************************)
Kinds == {"LostSynchronization", "LivenessCheck"}

\* Seeded fault: only the new contact of a slot is announced.
FaultyNoLift(slot, old, new, kind) ==
  IF old.id # new.id /\ new.id # Inactive
  THEN <<Event("SLOT", slot), Event("ID", new.id),
         Event("X", new.x), Event("Y", new.y)>>
  ELSE << >>

SlotReconciliation(slot, old, new, kind) ==
  LET identityChanged == old.id # new.id
      rebuildPosition == /\ new.id # Inactive
                         /\ identityChanged \/ kind = "LostSynchronization"
      Only(cond, events) == IF cond THEN events ELSE << >>
  IN  Only(identityChanged \/ rebuildPosition, <<Event("SLOT", slot)>>)
      \o Only(identityChanged /\ old.id # Inactive, <<Event("ID", Inactive)>>)
      \o Only(identityChanged /\ new.id # Inactive, <<Event("ID", new.id)>>)
      \o Only(rebuildPosition, <<Event("X", new.x), Event("Y", new.y)>>)

\* Seeded fault: the selected slot is not restored at the end.
FaultyLeavesSlot(previous, refreshed, kind) ==
  LET below[n \in 0 .. NSlots] ==
        IF n = 0 THEN << >>
        ELSE below[n - 1] \o SlotReconciliation(n - 1, previous.slots[n - 1],
                                                refreshed.slots[n - 1], kind)
      touch == IF previous.touch = refreshed.touch THEN << >>
               ELSE <<Event("TOUCH", refreshed.touch)>>
  IN  below[NSlots] \o touch

ReconciliationEvents(previous, refreshed, kind) ==
  LET below[n \in 0 .. NSlots] ==
        IF n = 0 THEN << >>
        ELSE below[n - 1] \o SlotReconciliation(n - 1, previous.slots[n - 1],
                                                refreshed.slots[n - 1], kind)
      touch == IF previous.touch = refreshed.touch THEN << >>
               ELSE <<Event("TOUCH", refreshed.touch)>>
  IN  below[NSlots] \o touch \o <<Event("SLOT", refreshed.cur)>>
=============================================================================
