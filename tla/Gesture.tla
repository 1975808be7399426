------------------------------ MODULE Gesture -------------------------------
(***************************************************************************)
(* One finger on the pad, the gesture state machine and the circular       *)
(* detector it drives (Fsm::step, src/src/fsm.rs), frame by frame, with    *)
(* the wheel output each frame yields.  The finger is the tracked contact  *)
(* as long as it stays; what other contacts do is FrameProxy's subject.    *)
(***************************************************************************)
EXTENDS WheelFsm, Detector

CONSTANTS
  Starts,      \* where the finger may touch down
  Reach,       \* [position -> the positions it can move to within a frame]
  MaxContacts, \* bound: touchdowns
  MaxFrames,   \* bound: frames
  HorizontalEnable, HorizontalStart, HorizontalEnd, \* scroll.horizontal_*
  ReverseVertical, ReverseHorizontal                \* scroll.reverse_*

ASSUME GestureAssumption ==
  /\ Starts \subseteq DOMAIN Reach
  /\ DOMAIN Reach \subseteq Positions
  /\ \A pos \in DOMAIN Reach :
       /\ Reach[pos] \subseteq DOMAIN Reach
       /\ <<pos, pos>> \in Near       \* a distance of 0 is within the dead band
       /\ <<pos, pos>> \notin Swept   \* and no sweep
       /\ \A to \in DOMAIN Reach : Direction[<<pos, to>>] \in Int
  /\ MaxContacts \in Nat
  /\ MaxFrames \in Nat
  /\ HorizontalEnable \in BOOLEAN
  /\ {HorizontalStart, HorizontalEnd} \subseteq 0 .. 15
  /\ {ReverseVertical, ReverseHorizontal} \subseteq BOOLEAN

VARIABLES
  finger,   \* where the finger is, or NoPos
  contacts, \* contacts so far
  frames,   \* frames so far
  fsm,      \* Fsm.state
  det,      \* CircularDetector
  wheel,    \* the Action of the last frame
  \* Bookkeeping for the properties, which no step of the code reads:
  touchdown, \* where the contact was in its first frame
  unseen,   \* that frame met the FSM in Debounce
  moves,    \* frames of the contact that changed its position
  senses,   \* ways it has moved around the center
  turned,   \* angle accumulated since the scroll engaged
  scrolled  \* wheel output since then

pad == <<finger, contacts, frames>>
gesture == <<fsm, det, wheel>>
history == <<touchdown, unseen, moves, senses, turned, scrolled>>
vars == <<pad, gesture, history>>

NoWheel == [v |-> 0, h |-> 0]

Init ==
  /\ finger = NoPos
  /\ contacts = 0
  /\ frames = 0
  /\ fsm = FsmIdle
  /\ det = FreshDetector
  /\ wheel = NoWheel
  /\ touchdown = NoPos
  /\ unseen = FALSE
  /\ moves = 0
  /\ senses = {}
  /\ turned = 0
  /\ scrolled = NoWheel

(***************************************************************************)
(* emit: the horizontal arc chooses the axis, the reverse flags the sign.  *)
(***************************************************************************)
Signed(reverse, ticks) == IF reverse THEN -ticks ELSE ticks

Emit(ticks, pos) ==
  IF HorizontalEnable /\ WithinArc(pos, HorizontalStart, HorizontalEnd)
  THEN [NoWheel EXCEPT !.h = Signed(ReverseHorizontal, ticks)]
  ELSE [NoWheel EXCEPT !.v = Signed(ReverseVertical, ticks)]

(***************************************************************************)
(* Fsm::step: the detector runs in every frame that leaves the state       *)
(* Scrolling, on a fresh accumulator and history when it was just entered. *)
(***************************************************************************)
Engages(before, after) == before.state = "Moving" /\ after.state = "Scrolling"

\* Seeded fault: the detector keeps what the last scroll left in it.
FaultyNoReset(before, after) == det

StartOfStep(before, after) == IF Engages(before, after) THEN FreshDetector ELSE det

Step(touch) ==
  LET after == FsmStep(fsm, touch)
      start == StartOfStep(fsm, after)
      stepped == DetectorStep(PushIfMoved(start, touch.pos))
  IN  /\ frames < MaxFrames
      /\ frames' = frames + 1
      /\ fsm' = after
      /\ IF after.state = "Scrolling"
         THEN /\ det' = stepped.det
              /\ wheel' = IF stepped.ticks # 0 THEN Emit(stepped.ticks, touch.pos)
                          ELSE NoWheel
         ELSE det' = det /\ wheel' = NoWheel

\* What the properties remember of the scroll this frame belongs to.
Account ==
  LET engages == Engages(fsm, fsm')
      added == IF fsm'.state = "Scrolling" /\ HasTurn(det'.history)
               THEN Contribution(det'.history) ELSE 0
  IN  /\ turned' = added + IF engages THEN 0 ELSE turned
      /\ scrolled' = [v |-> wheel'.v + IF engages THEN 0 ELSE scrolled.v,
                      h |-> wheel'.h + IF engages THEN 0 ELSE scrolled.h]

TouchAtPos(pos, n) ==
  [contact |-> TRUE, pos |-> pos, id |-> [slot |-> 0, id |-> n]]

TouchDown(pos) ==
  /\ finger = NoPos
  /\ contacts < MaxContacts
  /\ Step(TouchAtPos(pos, contacts))
  /\ finger' = pos
  /\ contacts' = contacts + 1
  /\ touchdown' = pos
  /\ unseen' = (fsm.state = "Debounce")
  /\ moves' = 0
  /\ senses' = {}
  /\ Account

Sense(from, to) ==
  LET d == Wrapped(Bearing[to] - Bearing[from])
  IN  IF {from, to} \subseteq Outer /\ Magnitude(d) < HalfTurn
      THEN {IF d > 0 THEN 1 ELSE -1}
      ELSE {1, -1}

Move(pos) ==
  /\ Step(TouchAtPos(pos, contacts - 1))
  /\ finger' = pos
  /\ moves' = moves + 1
  /\ senses' = senses \cup Sense(finger, pos)
  /\ Account
  /\ UNCHANGED <<contacts, touchdown, unseen>>

\* A frame that leaves the finger where it is: a button, another contact, or
\* the liveness check of a scroll.
Rest ==
  /\ finger # NoPos
  /\ Step(TouchAtPos(finger, contacts - 1))
  /\ Account
  /\ UNCHANGED <<finger, contacts, touchdown, unseen, moves, senses>>

Lift ==
  /\ finger # NoPos
  /\ Step([NoTouch EXCEPT !.id = fsm.contact])
  /\ finger' = NoPos
  /\ Account
  /\ UNCHANGED <<contacts, touchdown, unseen, moves, senses>>

\* A frame without any contact.
NoFinger ==
  /\ finger = NoPos
  /\ Step(NoTouch)
  /\ Account
  /\ UNCHANGED <<finger, contacts, touchdown, unseen, moves, senses>>

Next ==
  \/ \E pos \in Starts : TouchDown(pos)
  \/ finger # NoPos /\ \E pos \in Reach[finger] : Move(pos)
  \/ Rest
  \/ Lift
  \/ NoFinger

Spec == Init /\ [][Next]_vars

-----------------------------------------------------------------------------
TypeOK ==
  /\ finger \in Positions \cup {NoPos}
  /\ contacts \in 0 .. MaxContacts
  /\ frames \in 0 .. MaxFrames
  /\ fsm \in FsmStates
  /\ det.history \in Seq(Positions) /\ Len(det.history) <= HistoryCapacity
  /\ det.last \in Positions \cup {NoPos}
  /\ det.acc \in -Pi .. Pi
  /\ wheel \in [v : Int, h : Int]

(***************************************************************************)
(* Wheel output is proportional to the turn (detector.rs:189-194): since   *)
(* the scroll engaged, what all frames contributed and what was emitted    *)
(* differ by at most half a turn, on whichever axis and with whichever     *)
(* sign it went out, and nothing of an earlier scroll is in either.        *)
(***************************************************************************)
Emitted ==
  Signed(ReverseVertical, scrolled.v) + Signed(ReverseHorizontal, scrolled.h)

ProportionalScroll ==
  fsm.state = "Scrolling" =>
    /\ turned + 2 * Pi * Emitted = det.acc
    /\ Magnitude(turned + 2 * Pi * Emitted) <= Pi

(***************************************************************************)
(* A finger that has only gone one way around the center scrolls only one  *)
(* way: no wrap of an angle, rejected turn or drained rest turns a tick    *)
(* around, and neither does what an earlier contact left in the detector.  *)
(***************************************************************************)
OneWayScroll ==
  LET ticks == Signed(ReverseVertical, wheel.v) + Signed(ReverseHorizontal, wheel.h)
  IN  /\ senses = {1} => ticks <= 0
      /\ senses = {-1} => ticks >= 0

(***************************************************************************)
(* What it rests on of the geometry: one relation holds where a finger     *)
(* creeps within the dead band of a sample as it goes one way, the other   *)
(* from a sample to the next one it stores on that way; and a turn of      *)
(* three such samples is rejected or goes that way as well.                *)
(***************************************************************************)
Bends(way, creeps, leaps) ==
  /\ \A pos \in DOMAIN Reach : <<pos, pos>> \in creeps
  /\ \A at, from \in DOMAIN Reach : \A to \in Reach[from] :
       <<at, from>> \in creeps /\ Sense(from, to) = {way} =>
         <<at, to>> \in IF <<at, to>> \in Near THEN creeps ELSE leaps
  /\ \A a, b, c \in DOMAIN Reach :
       {<<a, b>>, <<b, c>>} \subseteq leaps =>
         IsRejected(<<c, b, a>>, 1) \/ way * Turn(<<c, b, a>>, 1) >= 0

(***************************************************************************)
(* A contact scrolls only after it has itself moved far enough: a tick     *)
(* takes five stored samples (three turns), all of this contact.           *)
(***************************************************************************)
TickNeedsTravel == wheel # NoWheel => moves >= 5

(***************************************************************************)
(* A contact that touched down in the dead zone never scrolls, wherever it *)
(* goes afterwards (D-020, fsm.rs:156-168); the exception is a contact     *)
(* whose first frame met the FSM in Debounce, which is not looked at.      *)
(***************************************************************************)
TrapHolds ==
  fsm.state = "Scrolling" => (touchdown \in Outer \/ unseen)

(***************************************************************************)
(* README.md:164, "There is no kinetic or coasting scroll": a frame that   *)
(* leaves the finger where it is does not turn the wheel.                  *)
(***************************************************************************)
NoCoasting ==
  [][(finger' = finger /\ finger # NoPos) => wheel' = NoWheel]_vars
=============================================================================
