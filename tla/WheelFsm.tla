------------------------------ MODULE WheelFsm ------------------------------
(***************************************************************************)
(* The gesture state machine (src/src/fsm.rs): Fsm::step as a function of  *)
(* the state and one touch frame.  What a step asks of the circular        *)
(* detector follows from the states it joins (Gesture.tla).                *)
(*                                                                         *)
(* Geometry is abstract: Outer holds the positions radial_gate_ok accepts, *)
(* Swept the pairs <<engage_start, current>> whose engagement_swept_angle  *)
(* exceeds TRIGGER_ANGLE in either direction.                              *)
(***************************************************************************)
EXTENDS TypeB

CONSTANTS
  ScrollEnabled, \* scroll.enable
  Outer,         \* positions outside the dead zone
  Swept          \* pairs of positions past the trigger angle

ASSUME GeometryAssumption ==
  /\ ScrollEnabled \in BOOLEAN
  /\ Outer \subseteq Positions
  /\ Swept \subseteq Positions \X Positions

FsmIdle == [state |-> "Idle", contact |-> NoContact, start |-> NoPos]
FsmDebounce == [state |-> "Debounce", contact |-> NoContact, start |-> NoPos]
FsmContact(contact) ==
  [state |-> "Contact", contact |-> contact, start |-> NoPos]
FsmMoving(contact, start) ==
  [state |-> "Moving", contact |-> contact, start |-> start]
FsmScrolling(contact) ==
  [state |-> "Scrolling", contact |-> contact, start |-> NoPos]

FsmStates ==
  {f \in [state   : {"Idle", "Contact", "Moving", "Scrolling", "Debounce"},
          contact : ContactIds \cup {NoContact},
          start   : Positions \cup {NoPos}] :
     /\ f.contact = NoContact <=> f.state \in {"Idle", "Debounce"}
     /\ f.start = NoPos <=> f.state # "Moving"}

(***************************************************************************)
(* One arm of the match per state; a touch frame that has a contact also   *)
(* has its position and identity (TypeB!Primary, TypeB!ForContact).        *)
(***************************************************************************)
StepIdle(touch) ==
  IF ~touch.contact THEN FsmIdle
  ELSE IF touch.pos \in Outer THEN FsmMoving(touch.id, touch.pos)
  ELSE FsmContact(touch.id)

\* Seeded fault: the trap opens once the contact is outside the dead zone.
FaultyTrapOpens(fsm, touch) ==
  IF touch.contact /\ touch.pos \in Outer THEN FsmMoving(fsm.contact, touch.pos)
  ELSE IF touch.contact THEN fsm ELSE FsmIdle

StepContact(fsm, touch) == IF touch.contact THEN fsm ELSE FsmIdle

StepMoving(fsm, touch) ==
  IF ~touch.contact THEN FsmIdle
  ELSE IF touch.pos \notin Outer THEN FsmContact(fsm.contact)
  ELSE IF <<fsm.start, touch.pos>> \in Swept THEN FsmScrolling(fsm.contact)
  ELSE fsm

StepScrolling(fsm, touch) == IF touch.contact THEN fsm ELSE FsmDebounce

FsmStep(fsm, touch) ==
  IF ~ScrollEnabled THEN FsmIdle
  ELSE CASE fsm.state = "Idle"      -> StepIdle(touch)
         [] fsm.state = "Contact"   -> StepContact(fsm, touch)
         [] fsm.state = "Moving"    -> StepMoving(fsm, touch)
         [] fsm.state = "Scrolling" -> StepScrolling(fsm, touch)
         [] fsm.state = "Debounce"  -> FsmIdle
=============================================================================
