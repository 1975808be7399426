--------------------------- MODULE Gesture_proofs ---------------------------
(***************************************************************************)
(* The types, the dead-zone trap, the travel a tick takes and the          *)
(* proportion of the wheel to the turn, for every geometry, history        *)
(* capacity, sensitivity and bound.  Trap follows a contact through the    *)
(* states of the gesture.  Travel says that the history of a scroll is no  *)
(* longer than the finger has moved, because a finger that rests is within *)
(* the dead band of the last stored sample.  Balance is the account of a   *)
(* scroll: what is not emitted yet is in the accumulator.  Winds follows   *)
(* a finger that goes one way from sample to sample: where the geometry    *)
(* bends with it, no counted turn and no tick goes the other way.          *)
(***************************************************************************)
EXTENDS Gesture, TypeB_proofs

Reachable == DOMAIN Reach

IsDetector(d) ==
  /\ d = [history |-> d.history, last |-> d.last, acc |-> d.acc]
  /\ d.history \in Seq(Reachable) /\ Len(d.history) <= HistoryCapacity
  /\ d.last \in Positions \cup {NoPos}
  /\ d.acc \in Int

Wheels == [v : Int, h : Int]

Known ==
  /\ finger \in Reachable \cup {NoPos}
  /\ contacts \in 0 .. MaxContacts
  /\ finger # NoPos => contacts > 0
  /\ frames \in 0 .. MaxFrames
  /\ fsm \in FsmStates
  /\ IsDetector(det) /\ det.acc \in -Pi .. Pi
  /\ wheel \in Wheels
  /\ moves \in Nat

\* Where a contact can be in the states of the gesture.
Trap ==
  /\ fsm.state \in {"Moving", "Scrolling"} => (touchdown \in Outer \/ unseen)
  /\ fsm.state \in {"Contact", "Moving", "Scrolling"} => finger # NoPos
  /\ fsm.state = "Debounce" => finger = NoPos
  /\ (fsm.state = "Idle" /\ finger # NoPos /\ ScrollEnabled) => unseen

\* How far it has moved.
Travel ==
  /\ (fsm.state = "Moving" /\ moves = 0) => fsm.start = finger
  /\ fsm.state = "Scrolling" =>
       /\ Len(det.history) <= moves
       /\ det.last # NoPos
       /\ <<det.last, finger>> \in Near
  /\ TickNeedsTravel

\* What the wheel still owes to the turn.
Balance ==
  fsm.state = "Scrolling" =>
    /\ turned \in Int
    /\ scrolled \in Wheels
    /\ turned + 2 * Pi * Emitted = det.acc

GInv == Known /\ Trap /\ Travel /\ Balance

-----------------------------------------------------------------------------
(***************************************************************************)
(* A set of naturals up to n that is not empty has a maximum.              *)
(***************************************************************************)
LEMMA MaxExists ==
  ASSUME NEW n \in Nat, NEW S, S \subseteq 0 .. n, S # {}
  PROVE  Max(S) \in S
<1> DEFINE T == {n - x : x \in S}
<1>1. T \subseteq Nat /\ T # {}
  <2>1. \A x \in S : x \in Nat /\ n - x \in Nat
    OBVIOUS
  <2> QED BY <2>1
<1>2. PICK low \in T : \A y \in T : low <= y
  <2> HIDE DEF T
  <2> QED BY <1>1, NatMin
<1>3. PICK high \in S : low = n - high
  OBVIOUS
<1>4. \A y \in S : high >= y
  <2> SUFFICES ASSUME NEW y \in S PROVE high >= y
    OBVIOUS
  <2>1. n - y \in T
    OBVIOUS
  <2>2. low <= n - y
    <3> HIDE DEF T
    <3> QED BY <1>2, <2>1
  <2> QED BY <1>3, <2>2
<1> QED BY <1>4 DEF Max

(***************************************************************************)
(* A turn takes three samples (detector.rs:141-182).                       *)
(***************************************************************************)
LEMMA TurnsFit ==
  ASSUME NEW samples \in Seq(Reachable), Len(samples) >= 3
  PROVE  ValidTurns(samples) \in 0 .. Len(samples) - 2
<1> DEFINE n == Len(samples) - 2
           S == {m \in 0 .. n : \A i \in 1 .. m : ~IsRejected(samples, i)}
<1>1. n \in Nat
  OBVIOUS
<1>2. 0 \in S
  BY <1>1
<1>3. S \subseteq 0 .. n /\ S # {}
  BY <1>2
<1>4. Max(S) \in S
  <2> HIDE DEF S, n
  <2> QED BY <1>1, <1>3, MaxExists
<1> QED BY <1>3, <1>4 DEF ValidTurns

LEMMA TickTakesSamples ==
  ASSUME NEW samples \in Seq(Reachable), HasTurn(samples)
  PROVE  Len(samples) >= 5
BY TurnsFit DEF HasTurn

(***************************************************************************)
(* A multiple is at least as large.                                        *)
(***************************************************************************)
LEMMA Multiple ==
  ASSUME NEW p \in Nat \ {0}, NEW n \in Nat
  PROVE  2 * p * n >= n
OBVIOUS

(***************************************************************************)
(* The drain loops end, below half a turn, and a tick is a full turn       *)
(* (detector.rs:211-219).                                                  *)
(***************************************************************************)
LEMMA FullTurnsType ==
  ASSUME NEW angle \in Int
  PROVE  /\ Pi \in Nat \ {0}
         /\ FullTurns(angle) \in Nat
         /\ angle - 2 * Pi * FullTurns(angle) <= Pi
         /\ FullTurns(angle) > 0 => angle - 2 * Pi * (FullTurns(angle) - 1) > Pi
<1> DEFINE T == {n \in Nat : angle - 2 * Pi * n <= Pi}
           least(n) == /\ angle - 2 * Pi * n <= Pi
                       /\ \A m \in 0 .. n - 1 : angle - 2 * Pi * m > Pi
<1>1. Pi \in Nat \ {0}
  BY DetectorAssumption DEF Pi
<1> HIDE DEF Pi
<1>2. Magnitude(angle) \in Nat /\ angle <= Magnitude(angle)
  BY DEF Magnitude
<1>3. Magnitude(angle) \in T
  <2>1. 2 * Pi * Magnitude(angle) >= Magnitude(angle)
    BY <1>1, <1>2, Multiple
  <2>2. 2 * Pi * Magnitude(angle) \in Int
    BY <1>1, <1>2
  <2> QED BY <1>1, <1>2, <2>1, <2>2
<1>4. PICK n \in T : \A y \in T : n <= y
  <2> HIDE DEF T
  <2>1. T \subseteq Nat
    BY DEF T
  <2> QED BY <1>3, <2>1, NatMin
<1>5. n \in 0 .. Magnitude(angle) /\ least(n)
  <2>1. n <= Magnitude(angle) /\ n \in Nat
    BY <1>3, <1>4
  <2>2. ASSUME NEW m \in 0 .. n - 1 PROVE angle - 2 * Pi * m > Pi
    <3>1. m \in Nat /\ m \notin T
      BY <1>4, <2>1
    <3>2. angle - 2 * Pi * m \in Int
      BY <1>1, <3>1
    <3> QED BY <1>1, <3>1, <3>2
  <2> QED BY <1>2, <2>1, <2>2
<1>6. FullTurns(angle) \in 0 .. Magnitude(angle) /\ least(FullTurns(angle))
  <2> HIDE DEF least
  <2>1. FullTurns(angle) = CHOOSE k \in 0 .. Magnitude(angle) : least(k)
    BY DEF FullTurns, least
  <2> QED BY <1>5, <2>1
<1> QED BY <1>1, <1>2, <1>6

LEMMA DrainedType ==
  ASSUME NEW acc \in Int
  PROVE  /\ Drained(acc).acc \in -Pi .. Pi
         /\ Drained(acc).ticks \in Int
         /\ Drained(acc).acc = acc + 2 * Pi * Drained(acc).ticks
<1> DEFINE down == FullTurns(acc)
           rest == acc - 2 * Pi * down
           up == FullTurns(-rest)
<1>1. Pi \in Nat \ {0} /\ down \in Nat /\ rest <= Pi
  BY FullTurnsType
<1> HIDE DEF down
<1>2. rest \in Int
  BY <1>1
<1>3. /\ up \in Nat /\ -rest - 2 * Pi * up <= Pi
      /\ up > 0 => -rest - 2 * Pi * (up - 1) > Pi
  <2> HIDE DEF rest
  <2> QED BY <1>2, FullTurnsType
<1>4. Drained(acc) = [acc |-> rest + 2 * Pi * up, ticks |-> up - down]
  BY DEF Drained, down
<1> HIDE DEF up
<1>5. rest + 2 * Pi * up = acc + 2 * Pi * (up - down)
  BY <1>1, <1>3
<1> HIDE DEF rest
<1>6. rest + 2 * Pi * up \in -Pi .. Pi
  <2>1. 2 * Pi * up \in Int /\ 2 * Pi * (up - 1) = 2 * Pi * up - 2 * Pi
    BY <1>1, <1>3
  <2>2. CASE up = 0
    BY <1>1, <1>2, <2>1, <2>2, <1>3
  <2>3. CASE up > 0
    BY <1>1, <1>2, <2>1, <2>3, <1>3
  <2> QED BY <1>3, <2>2, <2>3
<1> QED BY <1>1, <1>3, <1>4, <1>5, <1>6

(***************************************************************************)
(* A turn, the sum of turns and what a step adds are whole numbers.        *)
(***************************************************************************)
LEMMA TurnType ==
  ASSUME NEW samples \in Seq(Reachable), NEW i \in 1 .. Len(samples) - 2
  PROVE  Turn(samples, i) \in Int
<1>1. /\ samples[i] \in Reachable /\ samples[i + 1] \in Reachable
      /\ samples[i + 2] \in Reachable
  OBVIOUS
<1>2. /\ Direction[<<samples[i + 1], samples[i]>>] \in Int
      /\ Direction[<<samples[i + 2], samples[i + 1]>>] \in Int
  BY <1>1, GestureAssumption DEF Reachable
<1>3. HalfTurn \in Nat
  BY DetectorAssumption
<1> QED BY <1>2, <1>3 DEF Turn, Wrapped

(***************************************************************************)
(* What holds of 0 and survives every turn holds of their sum.             *)
(***************************************************************************)
LEMMA TurnSumIn ==
  ASSUME NEW samples, NEW n \in Nat, NEW Sums, 0 \in Sums,
         \A i \in 1 .. n : \A x \in Sums : x + Turn(samples, i) \in Sums
  PROVE  TurnSum(samples, n) \in Sums
<1> DEFINE step == [x \in (1 .. n) \X Sums |-> x[2] + Turn(samples, x[1])]
           Rec(g) == g = [i \in 0 .. n |->
                            IF i = 0 THEN 0 ELSE g[i - 1] + Turn(samples, i)]
           sum == CHOOSE g : Rec(g)
           S == {i \in 0 .. n : sum[i] \in Sums}
<1>1. step \in [(1 .. n) \X Sums -> Sums]
  OBVIOUS
<1>2. PICK f \in [0 .. n -> Sums] : IsRun(f, n, 0, step)
  <2> HIDE DEF step
  <2> QED BY <1>1, RecursionExists
<1>3. f[0] = 0
  <2> HIDE DEF step
  <2> QED BY <1>2 DEF IsRun
<1>4. ASSUME NEW i \in 1 .. n PROVE f[i] = f[i - 1] + Turn(samples, i)
  <2>1. f[i] = step[<<i, f[i - 1]>>]
    <3> HIDE DEF step
    <3> QED BY <1>2 DEF IsRun
  <2>2. f[i - 1] \in Sums
    BY <1>2
  <2> QED BY <2>1, <2>2
<1>5. TurnSum(samples, n) = sum[n]
  BY DEF TurnSum
<1>6. Rec(sum)
  <2>1. Rec(f)
    BY <1>2, <1>3, <1>4
  <2> HIDE DEF Rec
  <2> QED BY <2>1
<1> HIDE DEF sum
<1>7. \A i \in 0 .. n : sum[i] = IF i = 0 THEN 0 ELSE sum[i - 1] + Turn(samples, i)
  <2>1. sum = [i \in 0 .. n |-> IF i = 0 THEN 0 ELSE sum[i - 1] + Turn(samples, i)]
    BY <1>6
  <2> QED BY ONLY <2>1
<1>8. 0 \in S
  BY <1>7
<1>9. ASSUME NEW i \in 1 .. n, i - 1 \in S PROVE i \in S
  <2>1. sum[i] = sum[i - 1] + Turn(samples, i) /\ sum[i - 1] \in Sums
    BY <1>7, <1>9
  <2> QED BY <2>1
<1>10. 0 .. n \subseteq S
  <2> HIDE DEF S
  <2> QED BY <1>8, <1>9, RangeInduction
<1> QED BY <1>5, <1>10

LEMMA TurnSumType ==
  ASSUME NEW samples \in Seq(Reachable), NEW n \in Nat, n <= Len(samples) - 2
  PROVE  TurnSum(samples, n) \in Int
<1> DEFINE Sums == Int
<1>1. \A i \in 1 .. n : \A x \in Sums : x + Turn(samples, i) \in Sums
  BY TurnType
<1>2. 0 \in Sums
  OBVIOUS
<1>3. TurnSum(samples, n) \in Sums
  <2> HIDE DEF Sums
  <2> QED BY <1>1, <1>2, TurnSumIn
<1> QED BY <1>3

LEMMA ContributionType ==
  ASSUME NEW samples \in Seq(Reachable), HasTurn(samples)
  PROVE  Contribution(samples) \in Int
<1> DEFINE n == ValidTurns(samples)
<1>1. n \in Nat /\ n >= 3 /\ n <= Len(samples) - 2
  BY TurnsFit DEF HasTurn
<1>2. TurnSum(samples, n) \in Int
  <2> HIDE DEF n
  <2> QED BY <1>1, TurnSumType
<1>3. SensitivityOf(Sensitivity) \in Int
  BY DetectorAssumption DEF SensitivityOf, SensitivityTable
<1>4. Scale \div n \in Int
  BY <1>1, DetectorAssumption
<1> HIDE DEF n
<1> QED BY <1>2, <1>3, <1>4 DEF Contribution, n

(***************************************************************************)
(* push_if_moved stores a sample or is within the dead band of the last.   *)
(***************************************************************************)
LEMMA Pushed ==
  ASSUME NEW d, IsDetector(d), NEW pos \in Reachable
  PROVE  /\ IsDetector(PushIfMoved(d, pos))
         /\ PushIfMoved(d, pos).acc = d.acc
         /\ PushIfMoved(d, pos).last # NoPos
         /\ <<PushIfMoved(d, pos).last, pos>> \in Near
         /\ Len(PushIfMoved(d, pos).history) <= Len(d.history) + 1
         /\ (d.last # NoPos /\ <<d.last, pos>> \in Near) => PushIfMoved(d, pos) = d
<1>1. pos \in Positions /\ NoPos \notin Positions /\ <<pos, pos>> \in Near
  BY GestureAssumption, SentinelAssumption DEF Reachable
<1>2. CASE d.last # NoPos /\ <<d.last, pos>> \in Near
  BY <1>2 DEF PushIfMoved, IsDetector
<1>3. CASE ~(d.last # NoPos /\ <<d.last, pos>> \in Near)
  <2> DEFINE n == Len(d.history)
             kept == IF n = HistoryCapacity THEN n - 1 ELSE n
             old == SubSeq(d.history, 1, kept)
             new == <<pos>> \o old
  <2>1. d.history \in Seq(Reachable) /\ n \in Nat /\ n <= HistoryCapacity
    BY DEF IsDetector
  <2>2. HistoryCapacity \in Nat \ {0} /\ kept \in 0 .. n /\ kept + 1 <= HistoryCapacity
    BY <2>1, DetectorAssumption
  <2>3. old \in Seq(Reachable) /\ Len(old) = kept
    <3> HIDE DEF kept
    <3> QED BY <2>1, <2>2
  <2>4. new \in Seq(Reachable) /\ Len(new) = kept + 1
    <3> HIDE DEF old, kept
    <3> QED BY <2>2, <2>3
  <2>5. PushIfMoved(d, pos) = [history |-> new, last |-> pos, acc |-> d.acc]
    <3>1. PushIfMoved(d, pos) = [d EXCEPT !.last = pos, !.history = new]
      BY <1>3 DEF PushIfMoved
    <3> HIDE DEF new
    <3> QED BY <3>1 DEF IsDetector
  <2>6. d.acc \in Int
    BY DEF IsDetector
  <2> HIDE DEF new, kept
  <2> QED BY <1>1, <1>3, <2>1, <2>2, <2>4, <2>5, <2>6 DEF IsDetector
<1> QED BY <1>2, <1>3

(***************************************************************************)
(* step leaves the samples alone, ticks only with enough of them and       *)
(* accounts for what it adds.                                              *)
(***************************************************************************)
Added(samples) == IF HasTurn(samples) THEN Contribution(samples) ELSE 0

LEMMA Stepped ==
  ASSUME NEW d, IsDetector(d), d.acc \in -Pi .. Pi
  PROVE  /\ IsDetector(DetectorStep(d).det)
         /\ DetectorStep(d).det.history = d.history
         /\ DetectorStep(d).det.last = d.last
         /\ DetectorStep(d).det.acc \in -Pi .. Pi
         /\ DetectorStep(d).ticks \in Int
         /\ DetectorStep(d).ticks # 0 => Len(d.history) >= 5
         /\ Added(d.history) \in Int
         /\ DetectorStep(d).det.acc
              = d.acc + Added(d.history) + 2 * Pi * DetectorStep(d).ticks
<1>1. d.acc \in Int /\ d.history \in Seq(Reachable)
  BY DEF IsDetector
<1>2. Pi \in Nat
  BY <1>1, FullTurnsType
<1>3. CASE HasTurn(d.history)
  <2> DEFINE rest == Drained(d.acc + Contribution(d.history))
  <2>1. DetectorStep(d) = [det |-> [d EXCEPT !.acc = rest.acc], ticks |-> rest.ticks]
    BY <1>3 DEF DetectorStep
  <2>2. Len(d.history) >= 5
    BY <1>1, <1>3, TickTakesSamples
  <2>3. Contribution(d.history) \in Int /\ Added(d.history) = Contribution(d.history)
    BY <1>1, <1>3, ContributionType DEF Added
  <2>4. /\ rest.acc \in -Pi .. Pi /\ rest.ticks \in Int
        /\ rest.acc = (d.acc + Contribution(d.history)) + 2 * Pi * rest.ticks
    BY <1>1, <2>3, DrainedType
  <2> HIDE DEF rest
  <2>5. [d EXCEPT !.acc = rest.acc]
          = [history |-> d.history, last |-> d.last, acc |-> rest.acc]
    BY DEF IsDetector
  <2>6. rest.acc \in Int
    BY <1>2, <2>4
  <2> QED BY <1>1, <2>1, <2>2, <2>3, <2>4, <2>5, <2>6 DEF IsDetector
<1>4. CASE ~HasTurn(d.history)
  <2>1. DetectorStep(d) = [det |-> d, ticks |-> 0] /\ Added(d.history) = 0
    BY <1>4 DEF DetectorStep, Added
  <2> QED BY <1>1, <1>2, <2>1
<1> QED BY <1>3, <1>4

LEMMA FreshIsDetector ==
  /\ IsDetector(FreshDetector)
  /\ Len(FreshDetector.history) = 0
  /\ FreshDetector.acc = 0
BY DetectorAssumption DEF IsDetector, FreshDetector

(***************************************************************************)
(* emit: whatever the axis and the sign, the ticks are on the wheel.       *)
(***************************************************************************)
TicksOf(w) == Signed(ReverseVertical, w.v) + Signed(ReverseHorizontal, w.h)

LEMMA EmitType ==
  ASSUME NEW ticks \in Int, NEW pos
  PROVE  /\ Emit(ticks, pos) \in Wheels /\ TicksOf(Emit(ticks, pos)) = ticks
         /\ NoWheel \in Wheels /\ TicksOf(NoWheel) = 0
BY DEF Emit, NoWheel, Wheels, TicksOf, Signed

LEMMA TicksAdd ==
  ASSUME NEW a \in Wheels, NEW b \in Wheels
  PROVE  /\ TicksOf(a) \in Int
         /\ TicksOf([v |-> a.v + b.v, h |-> a.h + b.h]) = TicksOf(a) + TicksOf(b)
BY DEF Wheels, TicksOf, Signed

-----------------------------------------------------------------------------
(***************************************************************************)
(* The transitions of the gesture, without and with a touch.               *)
(***************************************************************************)
LEMMA FsmStateTypes ==
  /\ FsmIdle \in FsmStates
  /\ FsmDebounce \in FsmStates
  /\ \A c \in ContactIds : FsmContact(c) \in FsmStates /\ FsmScrolling(c) \in FsmStates
  /\ \A c \in ContactIds, p \in Positions : FsmMoving(c, p) \in FsmStates
<1>1. NoContact \notin ContactIds /\ NoPos \notin Positions
  BY SentinelAssumption
<1> QED
  BY <1>1 DEF FsmStates, FsmIdle, FsmDebounce, FsmContact, FsmScrolling, FsmMoving

LEMMA FsmStays ==
  ASSUME fsm \in FsmStates, NEW touch,
         touch.contact => touch.pos \in Positions /\ touch.id \in ContactIds
  PROVE  FsmStep(fsm, touch) \in FsmStates
<1>1. /\ fsm.state \in {"Idle", "Contact", "Moving", "Scrolling", "Debounce"}
      /\ fsm.state \notin {"Idle", "Debounce"} => fsm.contact \in ContactIds
  BY DEF FsmStates
<1>2. fsm.state = "Idle" => StepIdle(touch) \in FsmStates
  BY FsmStateTypes DEF StepIdle
<1>3. fsm.state = "Contact" => StepContact(fsm, touch) \in FsmStates
  BY FsmStateTypes DEF StepContact
<1>4. fsm.state = "Moving" => StepMoving(fsm, touch) \in FsmStates
  BY <1>1, FsmStateTypes DEF StepMoving
<1>5. fsm.state = "Scrolling" => StepScrolling(fsm, touch) \in FsmStates
  BY FsmStateTypes DEF StepScrolling
<1> QED BY <1>1, <1>2, <1>3, <1>4, <1>5, FsmStateTypes DEF FsmStep

LEMMA WithoutTouch ==
  ASSUME fsm \in FsmStates, NEW touch, ~touch.contact
  PROVE  /\ FsmStep(fsm, touch).state \in {"Idle", "Debounce"}
         /\ FsmStep(fsm, touch).state = "Debounce" => fsm.state = "Scrolling"
BY DEF FsmStates, FsmStep, StepIdle, StepContact, StepMoving, StepScrolling, FsmIdle,
  FsmDebounce

LEMMA WithTouch ==
  ASSUME fsm \in FsmStates, NEW touch, touch.contact,
         NEW after, after = FsmStep(fsm, touch)
  PROVE  /\ after.state \in {"Idle", "Contact", "Moving", "Scrolling"}
         /\ after.state = "Idle" => ~ScrollEnabled \/ fsm.state = "Debounce"
         /\ after.state # "Idle" => ScrollEnabled
         /\ after.state = "Scrolling" =>
              \/ fsm.state = "Scrolling"
              \/ fsm.state = "Moving" /\ <<fsm.start, touch.pos>> \in Swept
         /\ after.state = "Moving" =>
              \/ fsm.state = "Moving" /\ after = fsm
              \/ fsm.state = "Idle" /\ after.start = touch.pos /\ touch.pos \in Outer
<1>1. fsm.state \in {"Idle", "Contact", "Moving", "Scrolling", "Debounce"}
  BY DEF FsmStates
<1> QED
  BY <1>1 DEF FsmStep, StepIdle, StepContact, StepMoving, StepScrolling, FsmIdle,
    FsmDebounce, FsmContact, FsmMoving, FsmScrolling

(***************************************************************************)
(* What every frame keeps.                                                 *)
(***************************************************************************)
LEMMA FrameTypes ==
  ASSUME Known, NEW touch, Step(touch),
         touch.contact => touch.pos \in Positions /\ touch.id \in ContactIds
  PROVE  /\ frames' \in 0 .. MaxFrames
         /\ fsm' = FsmStep(fsm, touch)
         /\ fsm' \in FsmStates
<1>1. fsm' \in FsmStates
  BY FsmStays DEF Known, Step
<1> QED BY <1>1, GestureAssumption DEF Known, Step

(***************************************************************************)
(* What a frame does to the detector and the wheel.                        *)
(***************************************************************************)
LEMMA NotScrolling ==
  ASSUME Known, NEW touch, Step(touch), fsm'.state # "Scrolling"
  PROVE  IsDetector(det') /\ det'.acc \in -Pi .. Pi /\ wheel' = NoWheel /\ wheel' \in Wheels
BY EmitType DEF Known, Step

LEMMA ScrollFrame ==
  ASSUME Known, NEW pos \in Reachable, NEW n, Step(TouchAtPos(pos, n)),
         fsm'.state = "Scrolling",
         NEW start, start = StartOfStep(fsm, fsm'),
         IsDetector(start), start.acc \in -Pi .. Pi
  PROVE  /\ IsDetector(det') /\ det'.acc \in -Pi .. Pi
         /\ det'.last # NoPos
         /\ <<det'.last, pos>> \in Near
         /\ Len(det'.history) <= Len(start.history) + 1
         /\ (start.last # NoPos /\ <<start.last, pos>> \in Near) =>
              det'.history = start.history
         /\ wheel' \in Wheels
         /\ wheel' # NoWheel => Len(det'.history) >= 5
         /\ Added(det'.history) \in Int
         /\ det'.acc = start.acc + Added(det'.history) + 2 * Pi * TicksOf(wheel')
<1> DEFINE touch == TouchAtPos(pos, n)
           pushed == PushIfMoved(start, pos)
           stepped == DetectorStep(pushed)
<1>1. touch.pos = pos
  BY DEF TouchAtPos
<1>2. /\ IsDetector(pushed) /\ pushed.acc = start.acc /\ pushed.last # NoPos
      /\ <<pushed.last, pos>> \in Near /\ Len(pushed.history) <= Len(start.history) + 1
      /\ (start.last # NoPos /\ <<start.last, pos>> \in Near) => pushed = start
  BY Pushed
<1>3. /\ det' = stepped.det
      /\ wheel' = IF stepped.ticks # 0 THEN Emit(stepped.ticks, pos) ELSE NoWheel
  <2> HIDE DEF touch
  <2> QED BY <1>1 DEF Step, touch
<1> HIDE DEF pushed
<1>4. /\ IsDetector(stepped.det)
      /\ stepped.det.history = pushed.history /\ stepped.det.last = pushed.last
      /\ stepped.det.acc \in -Pi .. Pi
      /\ stepped.ticks \in Int
      /\ stepped.ticks # 0 => Len(pushed.history) >= 5
      /\ Added(pushed.history) \in Int
      /\ stepped.det.acc = pushed.acc + Added(pushed.history) + 2 * Pi * stepped.ticks
  BY <1>2, Stepped
<1> HIDE DEF stepped
<1>5. wheel' \in Wheels /\ TicksOf(wheel') = stepped.ticks
  <2>1. \A t \in Int : Emit(t, pos) \in Wheels /\ TicksOf(Emit(t, pos)) = t
    BY EmitType
  <2>2. NoWheel \in Wheels /\ TicksOf(NoWheel) = 0
    BY EmitType
  <2>3. CASE stepped.ticks # 0
    <3>1. wheel' = Emit(stepped.ticks, pos)
      BY <1>3, <2>3
    <3> QED BY <1>4, <2>1, <3>1
  <2>4. CASE stepped.ticks = 0
    <3>1. wheel' = NoWheel
      BY <1>3, <2>4
    <3> QED BY <2>2, <2>4, <3>1
  <2> QED BY <2>3, <2>4
<1>6. wheel' # NoWheel => Len(pushed.history) >= 5
  BY <1>3, <1>4
<1>7. det' = stepped.det
  BY <1>3
<1>8. /\ stepped.det.last # NoPos /\ <<stepped.det.last, pos>> \in Near
      /\ Len(stepped.det.history) <= Len(start.history) + 1
      /\ (start.last # NoPos /\ <<start.last, pos>> \in Near) =>
           stepped.det.history = start.history
      /\ Added(stepped.det.history) \in Int
      /\ stepped.det.acc
           = start.acc + Added(stepped.det.history) + 2 * Pi * TicksOf(wheel')
  BY <1>2, <1>4, <1>5
<1> QED BY <1>4, <1>5, <1>6, <1>7, <1>8

-----------------------------------------------------------------------------
LEMMA InitGInv == Init => GInv
<1> SUFFICES ASSUME Init PROVE GInv
  OBVIOUS
<1>1. fsm \in FsmStates /\ fsm.state = "Idle"
  BY FsmStateTypes DEF Init, FsmIdle
<1>2. IsDetector(det) /\ det.acc \in -Pi .. Pi
  <2>1. Pi \in Nat
    BY FullTurnsType
  <2> QED BY <2>1, FreshIsDetector DEF Init
<1>3. wheel \in Wheels /\ wheel = NoWheel
  BY EmitType DEF Init
<1> QED BY <1>1, <1>2, <1>3, GestureAssumption
      DEF Init, GInv, Known, Trap, Travel, TickNeedsTravel, Balance

(***************************************************************************)
(* The account of a scroll: it opens when the scroll engages.              *)
(***************************************************************************)
LEMMA Accounted ==
  ASSUME Known, Balance, NEW pos \in Reachable, NEW n, Step(TouchAtPos(pos, n)), Account,
         fsm'.state = "Scrolling", fsm.state \in {"Moving", "Scrolling"}
  PROVE  Balance'
<1> DEFINE start == StartOfStep(fsm, fsm')
           added == Added(det'.history)
<1>1. Pi \in Nat
  BY FullTurnsType
<1>2. IsDetector(start) /\ start.acc \in -Pi .. Pi
  BY <1>1, FreshIsDetector DEF Known, StartOfStep
<1>3. /\ wheel' \in Wheels
      /\ added \in Int
      /\ det'.acc = start.acc + added + 2 * Pi * TicksOf(wheel')
  <2> HIDE DEF start
  <2> QED BY <1>2, ScrollFrame DEF start
<1>4. Emitted' = TicksOf(scrolled') /\ Emitted = TicksOf(scrolled)
  BY DEF Emitted, TicksOf
<1>5. TicksOf(wheel') \in Int
  BY <1>3, TicksAdd
<1>6. CASE fsm.state = "Moving"
  <2>1. Engages(fsm, fsm')
    BY <1>6 DEF Engages
  <2>2. start.acc = 0
    BY <2>1, FreshIsDetector DEF StartOfStep
  <2>3. turned' = added + 0 /\ scrolled' = [v |-> wheel'.v + 0, h |-> wheel'.h + 0]
    BY <2>1 DEF Account, Added
  <2>4. scrolled' = wheel'
    BY <1>3, <2>3 DEF Wheels
  <2> HIDE DEF start, added
  <2> QED BY <1>1, <1>3, <1>4, <1>5, <2>2, <2>3, <2>4 DEF Balance
<1>7. CASE fsm.state = "Scrolling"
  <2>1. ~Engages(fsm, fsm')
    BY <1>7 DEF Engages
  <2>2. start = det
    BY <2>1 DEF StartOfStep
  <2>3. /\ turned' = added + turned
        /\ scrolled' = [v |-> wheel'.v + scrolled.v, h |-> wheel'.h + scrolled.h]
    BY <2>1 DEF Account, Added
  <2>4. /\ turned \in Int /\ scrolled \in Wheels
        /\ turned + 2 * Pi * TicksOf(scrolled) = det.acc
    BY <1>4, <1>7 DEF Balance
  <2>5. TicksOf(scrolled') = TicksOf(wheel') + TicksOf(scrolled)
    BY <1>3, <2>3, <2>4, TicksAdd
  <2>6. scrolled' \in Wheels
    BY <1>3, <2>3, <2>4 DEF Wheels
  <2>7. TicksOf(scrolled) \in Int
    BY <2>4, TicksAdd
  <2> HIDE DEF start, added
  <2>8. turned' + 2 * Pi * TicksOf(scrolled') = det'.acc
    <3>1. 2 * Pi * (TicksOf(wheel') + TicksOf(scrolled))
            = 2 * Pi * TicksOf(wheel') + 2 * Pi * TicksOf(scrolled)
      BY <1>1, <1>5, <2>7
    <3>2. 2 * Pi * TicksOf(wheel') \in Int /\ 2 * Pi * TicksOf(scrolled) \in Int
      BY <1>1, <1>5, <2>7
    <3> QED BY <1>3, <2>2, <2>3, <2>4, <2>5, <3>1, <3>2
  <2>9. turned' \in Int
    BY <1>3, <2>3, <2>4
  <2> QED BY <1>4, <2>6, <2>8, <2>9 DEF Balance
<1> QED BY <1>6, <1>7

(***************************************************************************)
(* A frame of the finger: at the place where it is, or at another one.     *)
(***************************************************************************)
LEMMA FingerFrame ==
  ASSUME GInv, finger # NoPos, NEW pos \in Reachable, Step(TouchAtPos(pos, contacts - 1)),
         finger' = pos, UNCHANGED <<contacts, touchdown, unseen>>, Account,
         \/ moves' = moves + 1
         \/ moves' = moves /\ pos = finger
  PROVE  GInv'
<1> DEFINE touch == TouchAtPos(pos, contacts - 1)
<1>1. Known /\ Trap /\ Travel /\ Balance
  BY DEF GInv
<1>2. pos \in Positions /\ pos # NoPos
  BY GestureAssumption, SentinelAssumption DEF Reachable
<1>3. touch.contact /\ touch.pos = pos /\ touch.id \in ContactIds
  <2>1. contacts - 1 \in Nat /\ 0 \in Slots
    BY <1>1, GestureAssumption, NSlotsAssumption DEF Known, Slots
  <2> QED BY <2>1 DEF TouchAtPos, ContactIds
<1>4. frames' \in 0 .. MaxFrames /\ fsm' = FsmStep(fsm, touch) /\ fsm' \in FsmStates
  <2> HIDE DEF touch
  <2> QED BY <1>1, <1>2, <1>3, FrameTypes DEF touch
<1>5. /\ fsm'.state \in {"Idle", "Contact", "Moving", "Scrolling"}
      /\ fsm'.state = "Idle" => ~ScrollEnabled \/ fsm.state = "Debounce"
      /\ fsm'.state # "Idle" => ScrollEnabled
      /\ fsm'.state = "Scrolling" =>
           \/ fsm.state = "Scrolling"
           \/ fsm.state = "Moving" /\ <<fsm.start, pos>> \in Swept
      /\ fsm'.state = "Moving" =>
           \/ fsm.state = "Moving" /\ fsm' = fsm
           \/ fsm.state = "Idle" /\ fsm'.start = pos /\ pos \in Outer
  <2> HIDE DEF touch
  <2> QED BY <1>1, <1>3, <1>4, WithTouch DEF Known
<1>6. moves' \in Nat /\ moves \in Nat /\ moves <= moves'
  BY <1>1 DEF Known
<1>7. Trap'
  <2>1. fsm'.state \in {"Moving", "Scrolling"} => (touchdown' \in Outer \/ unseen')
    BY <1>1, <1>5 DEF Trap
  <2>2. (fsm'.state = "Idle" /\ ScrollEnabled) => unseen'
    <3>1. fsm.state # "Debounce"
      BY <1>1 DEF Trap
    <3> QED BY <1>5, <3>1
  <2> QED BY <1>2, <1>5, <2>1, <2>2 DEF Trap
<1>8. /\ finger' \in Reachable /\ contacts' \in 0 .. MaxContacts
      /\ finger' # NoPos => contacts' > 0
  BY <1>1 DEF Known
<1>9. CASE fsm'.state # "Scrolling"
  <2>1. /\ IsDetector(det') /\ det'.acc \in -Pi .. Pi /\ wheel' = NoWheel
        /\ wheel' \in Wheels
    BY <1>1, <1>9, NotScrolling
  <2>2. (fsm'.state = "Moving" /\ moves' = 0) => fsm'.start = finger'
    BY <1>1, <1>5, <1>6 DEF Travel
  <2> QED BY <1>4, <1>6, <1>7, <1>8, <1>9, <2>1, <2>2
        DEF GInv, Known, Travel, TickNeedsTravel, Balance, Reachable
<1>10. CASE fsm'.state = "Scrolling"
  <2> DEFINE start == StartOfStep(fsm, fsm')
  <2>1. IsDetector(start) /\ start.acc \in -Pi .. Pi
    <3>1. Pi \in Nat
      BY FullTurnsType
    <3> QED BY <1>1, <3>1, FreshIsDetector DEF Known, StartOfStep
  <2>2. /\ Len(start.history) + 1 <= moves'
        \/ /\ Len(start.history) <= moves'
           /\ start.last # NoPos /\ <<start.last, pos>> \in Near
    <3>1. CASE fsm.state = "Scrolling"
      <4>1. start = det
        BY <3>1 DEF StartOfStep, Engages
      <4>2. Len(det.history) \in Nat
        BY <1>1 DEF Known, IsDetector
      <4> HIDE DEF start
      <4> QED BY <1>1, <1>6, <3>1, <4>1, <4>2 DEF Travel
    <3>2. CASE fsm.state = "Moving" /\ <<fsm.start, pos>> \in Swept
      <4>1. start = FreshDetector
        BY <1>10, <3>2 DEF StartOfStep, Engages
      <4>2. moves' >= 1
        <5>1. SUFFICES ASSUME moves' = 0 PROVE FALSE
          BY <1>6
        <5>2. moves = 0 /\ pos = finger
          BY <1>6, <5>1
        <5>3. fsm.start = pos
          BY <1>1, <3>2, <5>2 DEF Travel
        <5> QED BY <3>2, <5>3, GestureAssumption DEF Reachable
      <4> HIDE DEF start
      <4> QED BY <1>6, <4>1, <4>2, FreshIsDetector
    <3> QED BY <1>5, <1>10, <3>1, <3>2
  <2>3. Balance'
    BY <1>1, <1>5, <1>10, Accounted
  <2> HIDE DEF start
  <2>4. /\ IsDetector(det') /\ det'.acc \in -Pi .. Pi
        /\ det'.last # NoPos /\ <<det'.last, pos>> \in Near
        /\ Len(det'.history) <= Len(start.history) + 1
        /\ (start.last # NoPos /\ <<start.last, pos>> \in Near) =>
             det'.history = start.history
        /\ wheel' \in Wheels
        /\ wheel' # NoWheel => Len(det'.history) >= 5
    BY <1>1, <1>10, <2>1, ScrollFrame DEF start
  <2>5. Len(start.history) \in Nat /\ Len(det'.history) \in Nat
    BY <2>1, <2>4 DEF IsDetector
  <2>6. Len(det'.history) <= moves'
    BY <1>6, <2>2, <2>4, <2>5
  <2>7. wheel' # NoWheel => moves' >= 5
    BY <1>6, <2>4, <2>5, <2>6
  <2> QED BY <1>4, <1>6, <1>7, <1>8, <1>10, <2>3, <2>4, <2>6, <2>7
        DEF GInv, Known, Travel, TickNeedsTravel
<1> QED BY <1>9, <1>10

(***************************************************************************)
(* The first frame of a contact.                                           *)
(***************************************************************************)
LEMMA TouchDownStep ==
  ASSUME GInv, NEW pos \in Starts, TouchDown(pos)
  PROVE  GInv'
<1> DEFINE touch == TouchAtPos(pos, contacts)
<1>1. Known /\ Trap
  BY DEF GInv
<1>2. pos \in Reachable /\ pos \in Positions /\ pos # NoPos
  BY GestureAssumption, SentinelAssumption DEF Reachable
<1>3. touch.contact /\ touch.pos = pos /\ touch.id \in ContactIds
  <2>1. contacts \in Nat /\ 0 \in Slots
    BY <1>1, GestureAssumption, NSlotsAssumption DEF Known, Slots
  <2> QED BY <2>1 DEF TouchAtPos, ContactIds
<1>4. frames' \in 0 .. MaxFrames /\ fsm' = FsmStep(fsm, touch) /\ fsm' \in FsmStates
  <2>1. Step(touch)
    BY DEF TouchDown
  <2> HIDE DEF touch
  <2> QED BY <1>1, <1>2, <1>3, <2>1, FrameTypes
<1>5. fsm.state \in {"Idle", "Debounce"}
  BY <1>1 DEF Known, FsmStates, Trap, TouchDown
<1>6. /\ fsm'.state \in {"Idle", "Contact", "Moving"}
      /\ fsm'.state = "Idle" => ~ScrollEnabled \/ fsm.state = "Debounce"
      /\ fsm'.state = "Moving" => fsm'.start = pos /\ pos \in Outer
  <2> HIDE DEF touch
  <2> QED BY <1>1, <1>3, <1>4, <1>5, WithTouch DEF Known
<1>7. IsDetector(det') /\ det'.acc \in -Pi .. Pi /\ wheel' = NoWheel /\ wheel' \in Wheels
  <2> HIDE DEF touch
  <2> QED BY <1>1, <1>6, NotScrolling DEF TouchDown
<1>8. contacts' \in 0 .. MaxContacts /\ contacts' > 0
  BY <1>1, GestureAssumption DEF Known, TouchDown
<1>9. Known'
  BY <1>2, <1>4, <1>7, <1>8 DEF Known, TouchDown
<1>10. Trap' /\ Travel' /\ Balance'
  BY <1>2, <1>5, <1>6, <1>7 DEF Trap, Travel, TickNeedsTravel, Balance, TouchDown
<1> QED BY <1>9, <1>10 DEF GInv

(***************************************************************************)
(* A frame without a finger.                                               *)
(***************************************************************************)
LEMMA EmptyFrame ==
  ASSUME GInv, NEW touch, ~touch.contact, Step(touch), finger' = NoPos,
         UNCHANGED <<contacts, moves>>
  PROVE  GInv'
<1>1. Known
  BY DEF GInv
<1>2. frames' \in 0 .. MaxFrames /\ fsm' = FsmStep(fsm, touch) /\ fsm' \in FsmStates
  BY <1>1, FrameTypes
<1>3. fsm'.state \in {"Idle", "Debounce"}
  BY <1>1, <1>2, WithoutTouch DEF Known
<1>4. IsDetector(det') /\ det'.acc \in -Pi .. Pi /\ wheel' = NoWheel /\ wheel' \in Wheels
  BY <1>1, <1>3, NotScrolling
<1>5. Known'
  BY <1>1, <1>2, <1>4 DEF Known
<1> QED BY <1>3, <1>4, <1>5 DEF GInv, Trap, Travel, TickNeedsTravel, Balance

LEMMA NextGInv == GInv /\ [Next]_vars => GInv'
<1> SUFFICES ASSUME GInv, [Next]_vars PROVE GInv'
  OBVIOUS
<1>1. ASSUME NEW pos \in Starts, TouchDown(pos) PROVE GInv'
  BY <1>1, TouchDownStep
<1>2. ASSUME finger # NoPos, NEW pos \in Reach[finger], Move(pos) PROVE GInv'
  <2>1. pos \in Reachable
    BY <1>2, GestureAssumption DEF GInv, Known, Reachable
  <2>2. /\ Step(TouchAtPos(pos, contacts - 1)) /\ finger' = pos /\ moves' = moves + 1
        /\ UNCHANGED <<contacts, touchdown, unseen>> /\ Account
    BY <1>2 DEF Move
  <2> QED BY <1>2, <2>1, <2>2, FingerFrame
<1>3. CASE Rest
  <2>1. /\ finger # NoPos /\ finger \in Reachable
        /\ Step(TouchAtPos(finger, contacts - 1)) /\ finger' = finger /\ moves' = moves
        /\ UNCHANGED <<contacts, touchdown, unseen>> /\ Account
    BY <1>3 DEF Rest, GInv, Known
  <2> QED BY <2>1, FingerFrame
<1>4. CASE Lift
  <2>1. ~[NoTouch EXCEPT !.id = fsm.contact].contact
    BY DEF NoTouch
  <2> QED BY <1>4, <2>1, EmptyFrame DEF Lift
<1>5. CASE NoFinger
  <2>1. ~NoTouch.contact
    BY DEF NoTouch
  <2>2. finger' = NoPos /\ UNCHANGED <<contacts, moves>> /\ Step(NoTouch)
    BY <1>5 DEF NoFinger
  <2> QED BY <2>1, <2>2, EmptyFrame
<1>6. CASE UNCHANGED vars
  BY <1>6 DEF vars, pad, gesture, history, GInv, Known, Trap, Travel, TickNeedsTravel,
    Balance, Emitted
<1> QED BY <1>1, <1>2, <1>3, <1>4, <1>5, <1>6 DEF Next

THEOREM Invariance == Spec => []GInv
BY InitGInv, NextGInv, PTL DEF Spec

-----------------------------------------------------------------------------
(***************************************************************************)
(* Types: the history stays within its capacity and the accumulator within *)
(* half a turn (detector.rs:119-187).                                      *)
(***************************************************************************)
THEOREM TypeCorrect == Spec => []TypeOK
<1>1. GInv => TypeOK
  <2> SUFFICES ASSUME GInv PROVE TypeOK
    OBVIOUS
  <2>1. Known
    BY DEF GInv
  <2>2. Reachable \subseteq Positions
    BY GestureAssumption DEF Reachable
  <2>3. det.history \in Seq(Positions) /\ Len(det.history) <= HistoryCapacity
    <3>1. det.history \in Seq(Reachable) /\ Len(det.history) <= HistoryCapacity
      BY <2>1 DEF Known, IsDetector
    <3> QED BY <2>2, <3>1
  <2> QED BY <2>1, <2>2, <2>3 DEF TypeOK, Known, IsDetector, Wheels
<1> QED BY <1>1, Invariance, PTL

(***************************************************************************)
(* The wheel follows the turn of the scroll to within half a turn, on      *)
(* whichever axis and with whichever sign, for every geometry and          *)
(* sensitivity (detector.rs:189-219, fsm.rs:229-263).                      *)
(***************************************************************************)
THEOREM ProportionSound == Spec => []ProportionalScroll
<1>1. GInv => ProportionalScroll
  <2> SUFFICES ASSUME GInv, fsm.state = "Scrolling"
               PROVE  /\ turned + 2 * Pi * Emitted = det.acc
                      /\ Magnitude(turned + 2 * Pi * Emitted) <= Pi
    BY DEF ProportionalScroll
  <2>1. turned + 2 * Pi * Emitted = det.acc /\ det.acc \in -Pi .. Pi
    BY DEF GInv, Balance, Known
  <2>2. Pi \in Nat
    BY FullTurnsType
  <2>3. Magnitude(det.acc) <= Pi
    BY <2>1, <2>2 DEF Magnitude
  <2> QED BY <2>1, <2>3
<1> QED BY <1>1, Invariance, PTL

(***************************************************************************)
(* A contact that touched down in the dead zone never scrolls, but for the *)
(* one that the FSM met in Debounce (fsm.rs:123-168).                      *)
(***************************************************************************)
THEOREM TrapSound == Spec => []TrapHolds
<1>1. GInv => TrapHolds
  BY DEF GInv, Trap, TrapHolds
<1> QED BY <1>1, Invariance, PTL

(***************************************************************************)
(* A tick takes five samples, which take five movements of this contact    *)
(* (detector.rs:119-187).                                                  *)
(***************************************************************************)
THEOREM TravelSound == Spec => []TickNeedsTravel
<1>1. GInv => TickNeedsTravel
  BY DEF GInv, Travel
<1> QED BY <1>1, Invariance, PTL

-----------------------------------------------------------------------------
(***************************************************************************)
(* The two ways around the center, as signs.                               *)
(***************************************************************************)
Ways == {1, -1}

LEMMA TurnSumWay ==
  ASSUME NEW samples \in Seq(Reachable), NEW n \in Nat, n <= Len(samples) - 2,
         NEW way \in Ways, \A i \in 1 .. n : way * Turn(samples, i) >= 0
  PROVE  way * TurnSum(samples, n) >= 0 /\ TurnSum(samples, n) \in Int
<1> DEFINE Sums == {x \in Int : way * x >= 0}
<1>1. ASSUME NEW i \in 1 .. n, NEW x \in Sums PROVE x + Turn(samples, i) \in Sums
  <2>1. Turn(samples, i) \in Int
    BY TurnType
  <2>2. way * Turn(samples, i) >= 0
    OBVIOUS
  <2> QED BY <2>1, <2>2 DEF Ways
<1>2. 0 \in Sums
  BY DEF Ways
<1>3. TurnSum(samples, n) \in Sums
  <2> HIDE DEF Sums
  <2> QED BY <1>1, <1>2, TurnSumIn
<1> QED BY <1>3

(***************************************************************************)
(* The turns that count are not rejected (detector.rs:164-182).            *)
(***************************************************************************)
LEMMA CountedTurns ==
  ASSUME NEW samples \in Seq(Reachable), Len(samples) >= 3
  PROVE  \A i \in 1 .. ValidTurns(samples) : ~IsRejected(samples, i)
<1> DEFINE n == Len(samples) - 2
           S == {m \in 0 .. n : \A i \in 1 .. m : ~IsRejected(samples, i)}
<1>1. n \in Nat /\ 0 \in S /\ S \subseteq 0 .. n
  OBVIOUS
<1>2. Max(S) \in S
  <2> HIDE DEF S, n
  <2> QED BY <1>1, MaxExists
<1> QED BY <1>2 DEF ValidTurns

LEMMA ProductWay ==
  ASSUME NEW a \in Nat, NEW t \in Int, NEW k \in Nat, NEW way \in Ways, way * t >= 0
  PROVE  way * (a * t * k) >= 0
<1>1. ASSUME NEW x \in Nat, NEW y \in Nat PROVE x * y \in Nat
  OBVIOUS
<1>2. CASE way = 1
  <2>1. t \in Nat
    BY <1>2
  <2>2. a * t \in Nat
    BY <2>1, <1>1
  <2>3. a * t * k \in Nat
    BY <2>2, <1>1
  <2> QED BY <1>2, <2>3
<1>3. CASE way = -1
  <2>1. -t \in Nat
    BY <1>3
  <2>2. a * (-t) \in Nat
    BY <2>1, <1>1
  <2>3. (a * (-t)) * k \in Nat
    BY <2>2, <1>1
  <2>4. (a * (-t)) * k = -(a * t * k)
    OBVIOUS
  <2>5. a * t * k \in Int
    OBVIOUS
  <2> QED BY <1>3, <2>3, <2>4, <2>5
<1> QED BY <1>2, <1>3 DEF Ways

LEMMA QuotientNat ==
  ASSUME NEW s \in Nat, NEW n \in Nat, n > 0
  PROVE  s \div n \in Nat
<1> DEFINE k == s \div n
           r == s % n
<1>1. k \in Int /\ r \in Nat /\ r < n /\ s = n * k + r
  OBVIOUS
<1> HIDE DEF k, r
<1>2. ASSUME NEW m \in Nat PROVE n * m \in Nat
  OBVIOUS
<1>3. SUFFICES ASSUME k < 0 PROVE FALSE
  BY <1>1 DEF k
<1>4. n * (-k - 1) \in Nat /\ n * (-k - 1) = -(n * k) - n /\ n * k \in Int
  BY <1>1, <1>2, <1>3
<1> QED BY <1>1, <1>4

(***************************************************************************)
(* If no counted turn goes the other way, neither does what a step adds.   *)
(***************************************************************************)
LEMMA AddedWay ==
  ASSUME NEW samples \in Seq(Reachable), NEW way \in Ways,
         \A i \in 1 .. Len(samples) - 2 :
           IsRejected(samples, i) \/ way * Turn(samples, i) >= 0
  PROVE  way * Added(samples) >= 0
<1>1. CASE ~HasTurn(samples)
  BY <1>1 DEF Added, Ways
<1>2. CASE HasTurn(samples)
  <2> DEFINE n == ValidTurns(samples)
  <2>1. n \in Nat /\ n >= 3 /\ n <= Len(samples) - 2
    BY <1>2, TurnsFit DEF HasTurn
  <2>2. \A i \in 1 .. n : ~IsRejected(samples, i)
    BY <1>2, CountedTurns DEF HasTurn
  <2> HIDE DEF n
  <2>3. \A i \in 1 .. n : way * Turn(samples, i) >= 0
    BY <2>1, <2>2
  <2>4. way * TurnSum(samples, n) >= 0 /\ TurnSum(samples, n) \in Int
    BY <2>1, <2>3, TurnSumWay
  <2>5. SensitivityOf(Sensitivity) \in Nat
    BY DetectorAssumption DEF SensitivityOf, SensitivityTable
  <2>6. Scale \div n \in Nat
    <3>1. Scale \in Nat /\ n > 0
      BY <2>1, DetectorAssumption
    <3> QED BY <2>1, <3>1, QuotientNat
  <2>7. Added(samples) = SensitivityOf(Sensitivity) * TurnSum(samples, n) * (Scale \div n)
    BY <1>2 DEF Added, Contribution, n
  <2> QED BY <2>4, <2>5, <2>6, <2>7, ProductWay
<1> QED BY <1>1, <1>2

(***************************************************************************)
(* An angle of at most half a turn is not drained, and what is added to    *)
(* such an angle one way is not drained the other way (detector.rs:211).   *)
(***************************************************************************)
LEMMA NotDrained ==
  ASSUME NEW angle \in Int, angle <= Pi
  PROVE  FullTurns(angle) = 0
<1> DEFINE n == FullTurns(angle)
<1>1. Pi \in Nat \ {0} /\ n \in Nat /\ (n > 0 => angle - 2 * Pi * (n - 1) > Pi)
  BY FullTurnsType
<1> HIDE DEF n, Pi
<1>2. SUFFICES ASSUME n > 0 PROVE FALSE
  BY <1>1 DEF n
<1>3. 2 * Pi * (n - 1) >= n - 1
  BY <1>1, <1>2, Multiple
<1>4. 2 * Pi * (n - 1) \in Int
  BY <1>1
<1> QED BY <1>1, <1>2, <1>3, <1>4

LEMMA DrainedWay ==
  ASSUME NEW acc \in -Pi .. Pi, NEW added \in Int, NEW way \in Ways, way * added >= 0
  PROVE  way * Drained(acc + added).ticks <= 0
<1> DEFINE angle == acc + added
           down == FullTurns(angle)
           rest == angle - 2 * Pi * down
           up == FullTurns(-rest)
<1>1. Pi \in Nat \ {0}
  BY FullTurnsType
<1>2. angle \in Int
  BY <1>1
<1>3. Drained(acc + added).ticks = up - down
  BY DEF Drained
<1>4. /\ down \in Nat /\ rest <= Pi
      /\ down > 0 => angle - 2 * Pi * (down - 1) > Pi
  <2> HIDE DEF angle
  <2> QED BY <1>2, FullTurnsType
<1>5. angle <= Pi => down = 0
  <2> HIDE DEF angle
  <2> QED BY <1>2, NotDrained
<1>6. CASE way = 1
  <2>1. angle >= -Pi
    BY <1>1, <1>6
  <2> HIDE DEF angle, down
  <2>2. 2 * Pi * (down - 1) = 2 * Pi * down - 2 * Pi /\ 2 * Pi * down \in Int
    BY <1>1, <1>4
  <2>3. rest \in Int /\ -rest <= Pi
    BY <1>1, <1>2, <1>4, <2>1, <2>2
  <2>4. up = 0
    <3> HIDE DEF rest
    <3> QED BY <2>3, NotDrained
  <2> HIDE DEF rest, up
  <2> QED BY <1>3, <1>4, <1>6, <2>4
<1>7. CASE way = -1
  <2>1. angle <= Pi
    BY <1>1, <1>7
  <2>2. down = 0
    BY <1>5, <2>1
  <2> HIDE DEF angle, down
  <2>3. rest = angle
    BY <1>1, <1>2, <2>2
  <2>4. up \in Nat
    <3> HIDE DEF rest
    <3> QED BY <1>2, <2>3, FullTurnsType
  <2> HIDE DEF rest, up
  <2> QED BY <1>3, <1>7, <2>2, <2>4
<1> QED BY <1>6, <1>7 DEF Ways

-----------------------------------------------------------------------------
(***************************************************************************)
(* Samples stored on one way turn that way, or too sharply to count.       *)
(***************************************************************************)
Strides(samples, leaps) ==
  \A i \in 1 .. Len(samples) - 1 : <<samples[i + 1], samples[i]>> \in leaps

LEMMA StridesTurn ==
  ASSUME NEW samples \in Seq(Reachable), NEW way \in Ways, NEW creeps, NEW leaps,
         Bends(way, creeps, leaps), Strides(samples, leaps),
         NEW i \in 1 .. Len(samples) - 2
  PROVE  IsRejected(samples, i) \/ way * Turn(samples, i) >= 0
<1> DEFINE a == samples[i + 2]
           b == samples[i + 1]
           c == samples[i]
           three == <<c, b, a>>
<1>1. a \in Reachable /\ b \in Reachable /\ c \in Reachable
  OBVIOUS
<1>2. <<a, b>> \in leaps
  <2>1. i + 1 \in 1 .. Len(samples) - 1 /\ (i + 1) + 1 = i + 2
    OBVIOUS
  <2> QED BY <2>1 DEF Strides
<1>3. <<b, c>> \in leaps
  <2>1. i \in 1 .. Len(samples) - 1
    OBVIOUS
  <2> QED BY <2>1 DEF Strides
<1>4. IsRejected(three, 1) \/ way * Turn(three, 1) >= 0
  <2> HIDE DEF a, b, c
  <2> QED BY <1>1, <1>2, <1>3 DEF Bends, Reachable
<1>5. three[1] = c /\ three[1 + 1] = b /\ three[1 + 2] = a
  <2> HIDE DEF a, b, c
  <2> QED OBVIOUS
<1>6. Turn(three, 1) = Turn(samples, i)
  <2> HIDE DEF three
  <2> QED BY <1>5 DEF Turn
<1>7. IsRejected(three, 1) <=> IsRejected(samples, i)
  <2> HIDE DEF three
  <2> QED BY <1>5, <1>6 DEF IsRejected
<1> QED BY <1>4, <1>6, <1>7

(***************************************************************************)
(* The last stored sample is the newest of the history (detector.rs:119).  *)
(***************************************************************************)
Newest(d) == Len(d.history) >= 1 /\ d.last = d.history[1]

LEMMA Stored ==
  ASSUME NEW d, IsDetector(d), NEW pos \in Reachable,
         ~(d.last # NoPos /\ <<d.last, pos>> \in Near)
  PROVE  \E kept \in 0 .. Len(d.history) :
           /\ PushIfMoved(d, pos).last = pos
           /\ PushIfMoved(d, pos).history \in Seq(Reachable)
           /\ Len(PushIfMoved(d, pos).history) = kept + 1
           /\ PushIfMoved(d, pos).history[1] = pos
           /\ \A i \in 1 .. kept : PushIfMoved(d, pos).history[i + 1] = d.history[i]
<1> DEFINE n == Len(d.history)
           kept == IF n = HistoryCapacity THEN n - 1 ELSE n
           old == SubSeq(d.history, 1, kept)
           new == <<pos>> \o old
<1>1. d.history \in Seq(Reachable) /\ n \in Nat /\ n <= HistoryCapacity
  BY DEF IsDetector
<1>2. HistoryCapacity \in Nat \ {0} /\ kept \in 0 .. n
  BY <1>1, DetectorAssumption
<1>3. PushIfMoved(d, pos).last = pos /\ PushIfMoved(d, pos).history = new
  <2>1. PushIfMoved(d, pos) = [d EXCEPT !.last = pos, !.history = new]
    BY DEF PushIfMoved
  <2> HIDE DEF new
  <2> QED BY <2>1 DEF IsDetector
<1>4. old \in Seq(Reachable) /\ Len(old) = kept
  <2> HIDE DEF kept
  <2> QED BY <1>1, <1>2
<1>5. \A i \in 1 .. kept : old[i] = d.history[i]
  <2> HIDE DEF kept
  <2> QED BY <1>1, <1>2
<1>6. new \in Seq(Reachable) /\ Len(new) = kept + 1 /\ new[1] = pos
  <2> HIDE DEF old, kept
  <2> QED BY <1>2, <1>4
<1>7. \A i \in 1 .. kept : new[i + 1] = old[i]
  <2> HIDE DEF old, kept
  <2> QED BY <1>2, <1>4
<1> HIDE DEF new, old, kept
<1> QED BY <1>2, <1>3, <1>5, <1>6, <1>7

LEMMA PushedNewest ==
  ASSUME NEW d, IsDetector(d), NEW pos \in Reachable, Newest(d) \/ d = FreshDetector
  PROVE  Newest(PushIfMoved(d, pos))
<1>1. CASE d.last # NoPos /\ <<d.last, pos>> \in Near
  <2>1. PushIfMoved(d, pos) = d
    BY <1>1 DEF PushIfMoved
  <2>2. d # FreshDetector
    BY <1>1 DEF FreshDetector
  <2> QED BY <2>1, <2>2
<1>2. CASE ~(d.last # NoPos /\ <<d.last, pos>> \in Near)
  BY <1>2, Stored DEF Newest
<1> QED BY <1>1, <1>2

(***************************************************************************)
(* A finger that goes on one way adds a sample on that way or creeps.      *)
(***************************************************************************)
LEMMA PushedOn ==
  ASSUME NEW d, IsDetector(d), NEW pos \in Reachable, NEW way, NEW creeps, NEW leaps,
         Bends(way, creeps, leaps),
         \/ d = FreshDetector
         \/ /\ Newest(d) /\ d.last # NoPos /\ Strides(d.history, leaps)
            /\ <<d.last, pos>> \in IF <<d.last, pos>> \in Near THEN creeps ELSE leaps
  PROVE  /\ Strides(PushIfMoved(d, pos).history, leaps)
         /\ <<PushIfMoved(d, pos).last, pos>> \in creeps
<1>1. CASE d.last # NoPos /\ <<d.last, pos>> \in Near
  <2>1. PushIfMoved(d, pos) = d
    BY <1>1 DEF PushIfMoved
  <2>2. d # FreshDetector
    BY <1>1 DEF FreshDetector
  <2> QED BY <1>1, <2>1, <2>2
<1>2. CASE ~(d.last # NoPos /\ <<d.last, pos>> \in Near)
  <2> DEFINE new == PushIfMoved(d, pos)
  <2>1. PICK kept \in 0 .. Len(d.history) :
           /\ new.last = pos
           /\ new.history \in Seq(Reachable)
           /\ Len(new.history) = kept + 1
           /\ new.history[1] = pos
           /\ \A i \in 1 .. kept : new.history[i + 1] = d.history[i]
    BY <1>2, Stored
  <2> HIDE DEF new
  <2>2. <<new.last, pos>> \in creeps
    BY <2>1 DEF Bends, Reachable
  <2>3. Len(d.history) \in Nat
    BY DEF IsDetector
  <2>4. ASSUME NEW i \in 1 .. kept PROVE <<new.history[i + 1], new.history[i]>> \in leaps
    <3>1. kept > 0 /\ kept <= Len(d.history) /\ d # FreshDetector
      BY <2>1, <2>3, <2>4, FreshIsDetector
    <3>2. CASE i = 1
      <4>1. new.history[i + 1] = d.history[1] /\ new.history[i] = pos
        BY <2>1, <2>4, <3>2
      <4> QED BY <1>2, <3>1, <4>1 DEF Newest
    <3>3. CASE i > 1
      <4>1. i - 1 \in 1 .. kept /\ (i - 1) + 1 = i /\ i - 1 \in 1 .. Len(d.history) - 1
        BY <2>3, <2>4, <3>1, <3>3
      <4>2. new.history[i + 1] = d.history[i] /\ new.history[i] = d.history[i - 1]
        BY <2>1, <2>4, <4>1
      <4>3. <<d.history[i], d.history[i - 1]>> \in leaps
        BY <3>1, <4>1 DEF Strides
      <4> QED BY <4>2, <4>3
    <3> QED BY <3>2, <3>3
  <2>5. Strides(new.history, leaps)
    BY <2>1, <2>4 DEF Strides
  <2> QED BY <2>2, <2>5 DEF new
<1> QED BY <1>1, <1>2

(***************************************************************************)
(* What a frame of a scroll makes of the samples and the wheel.            *)
(***************************************************************************)
LEMMA ScrollsOn ==
  ASSUME NEW pos \in Reachable, NEW n, Step(TouchAtPos(pos, n)),
         fsm'.state = "Scrolling",
         NEW start, start = StartOfStep(fsm, fsm'),
         IsDetector(start), start.acc \in -Pi .. Pi
  PROVE  /\ det'.history = PushIfMoved(start, pos).history
         /\ det'.last = PushIfMoved(start, pos).last
         /\ TicksOf(wheel') = DetectorStep(PushIfMoved(start, pos)).ticks
<1> DEFINE touch == TouchAtPos(pos, n)
           pushed == PushIfMoved(start, pos)
           stepped == DetectorStep(pushed)
<1>1. touch.pos = pos
  BY DEF TouchAtPos
<1>2. IsDetector(pushed) /\ pushed.acc = start.acc
  BY Pushed
<1>3. /\ det' = stepped.det
      /\ wheel' = IF stepped.ticks # 0 THEN Emit(stepped.ticks, pos) ELSE NoWheel
  <2> HIDE DEF touch
  <2> QED BY <1>1 DEF Step, touch
<1> HIDE DEF pushed
<1>4. /\ stepped.det.history = pushed.history /\ stepped.det.last = pushed.last
      /\ stepped.ticks \in Int
  BY <1>2, Stepped
<1> HIDE DEF stepped
<1>5. TicksOf(wheel') = stepped.ticks
  <2>1. \A t \in Int : TicksOf(Emit(t, pos)) = t
    BY EmitType
  <2>2. TicksOf(NoWheel) = 0
    BY EmitType
  <2>3. CASE stepped.ticks # 0
    <3>1. wheel' = Emit(stepped.ticks, pos)
      BY <1>3, <2>3
    <3> QED BY <1>4, <2>1, <3>1
  <2>4. CASE stepped.ticks = 0
    <3>1. wheel' = NoWheel
      BY <1>3, <2>4
    <3> QED BY <2>2, <2>4, <3>1
  <2> QED BY <2>3, <2>4
<1> QED BY <1>3, <1>4, <1>5 DEF pushed, stepped

LEMMA TicksWay ==
  ASSUME NEW d, IsDetector(d), d.acc \in -Pi .. Pi,
         NEW way \in Ways, NEW creeps, NEW leaps, Bends(way, creeps, leaps),
         Strides(d.history, leaps)
  PROVE  way * DetectorStep(d).ticks <= 0
<1>1. d.history \in Seq(Reachable)
  BY DEF IsDetector
<1>2. \A i \in 1 .. Len(d.history) - 2 :
        IsRejected(d.history, i) \/ way * Turn(d.history, i) >= 0
  BY <1>1, StridesTurn
<1>3. way * Added(d.history) >= 0
  BY <1>1, <1>2, AddedWay
<1>4. CASE HasTurn(d.history)
  <2>1. Contribution(d.history) \in Int /\ Added(d.history) = Contribution(d.history)
    BY <1>1, <1>4, ContributionType DEF Added
  <2>2. way * Drained(d.acc + Contribution(d.history)).ticks <= 0
    BY <1>3, <2>1, DrainedWay
  <2> QED BY <1>4, <2>2 DEF DetectorStep
<1>5. CASE ~HasTurn(d.history)
  BY <1>5 DEF DetectorStep, Ways
<1> QED BY <1>4, <1>5

-----------------------------------------------------------------------------
(***************************************************************************)
(* A finger that has gone one way left samples on that way, and has crept  *)
(* on from the last of them.                                               *)
(***************************************************************************)
Winds(way, creeps, leaps) ==
  /\ moves > 0 => senses # {}
  /\ fsm.state = "Scrolling" =>
       /\ Newest(det)
       /\ senses = {way} =>
            Strides(det.history, leaps) /\ <<det.last, finger>> \in creeps
  /\ senses = {way} => way * TicksOf(wheel) <= 0

LEMMA InitWinds == Init => \A way, creeps, leaps : Winds(way, creeps, leaps)
BY DEF Init, Winds, FsmIdle

LEMMA FingerWinds ==
  ASSUME NEW way \in Ways, NEW creeps, NEW leaps, Bends(way, creeps, leaps),
         GInv, Winds(way, creeps, leaps), finger # NoPos,
         NEW pos \in Reachable, Step(TouchAtPos(pos, contacts - 1)), finger' = pos,
         \/ /\ moves' = moves + 1 /\ pos \in Reach[finger]
            /\ senses' = senses \cup Sense(finger, pos)
         \/ moves' = moves /\ pos = finger /\ senses' = senses
  PROVE  Winds(way, creeps, leaps)'
<1>1. Known /\ Trap /\ Travel
  BY DEF GInv
<1>2. moves \in Nat /\ finger \in Reachable
  BY <1>1 DEF Known
<1>3. Sense(finger, pos) # {}
  BY DEF Sense
<1>4. moves' > 0 => senses' # {}
  BY <1>2, <1>3 DEF Winds
<1>5. CASE fsm'.state # "Scrolling"
  <2>1. wheel' = NoWheel
    BY <1>1, <1>5, NotScrolling
  <2>2. TicksOf(wheel') = 0
    BY <2>1, EmitType
  <2> QED BY <1>4, <1>5, <2>2 DEF Winds, Ways
<1>6. CASE fsm'.state = "Scrolling"
  <2> DEFINE touch == TouchAtPos(pos, contacts - 1)
             start == StartOfStep(fsm, fsm')
             pushed == PushIfMoved(start, pos)
  <2>1. IsDetector(start) /\ start.acc \in -Pi .. Pi
    <3>1. Pi \in Nat
      BY FullTurnsType
    <3> QED BY <1>1, <3>1, FreshIsDetector DEF Known, StartOfStep
  <2>2. \/ fsm.state = "Scrolling" /\ start = det
        \/ start = FreshDetector
    <3>1. pos \in Positions /\ touch.contact
      BY GestureAssumption DEF Reachable, TouchAtPos
    <3>2. fsm' = FsmStep(fsm, touch)
      BY DEF Step
    <3>3. fsm.state \in {"Scrolling", "Moving"}
      <4> HIDE DEF touch
      <4> QED BY <1>1, <1>6, <3>1, <3>2, WithTouch DEF Known
    <3> QED BY <1>6, <3>3 DEF StartOfStep, Engages
  <2> HIDE DEF start
  <2>3. Newest(start) \/ start = FreshDetector
    BY <2>2 DEF Winds
  <2>4. /\ det'.history = pushed.history /\ det'.last = pushed.last
        /\ TicksOf(wheel') = DetectorStep(pushed).ticks
    BY <1>6, <2>1, ScrollsOn DEF start
  <2>5. IsDetector(pushed) /\ pushed.acc = start.acc
    BY <2>1, Pushed
  <2>6. Newest(pushed)
    BY <2>1, <2>3, PushedNewest
  <2>7. Newest(det')
    <3> HIDE DEF pushed
    <3> QED BY <2>4, <2>6 DEF Newest
  <2>8. ASSUME senses' = {way}
        PROVE  Strides(pushed.history, leaps) /\ <<pushed.last, pos>> \in creeps
    <3>1. ASSUME fsm.state = "Scrolling", start = det
          PROVE  /\ Newest(start) /\ start.last # NoPos /\ Strides(start.history, leaps)
                 /\ <<start.last, pos>> \in
                      IF <<start.last, pos>> \in Near THEN creeps ELSE leaps
      <4>1. /\ Newest(det) /\ det.last # NoPos /\ <<det.last, finger>> \in Near
            /\ Len(det.history) <= moves
        BY <1>1, <3>1 DEF Winds, Travel
      <4>2. Len(det.history) \in Nat /\ det.history \in Seq(Reachable)
        BY <1>1 DEF Known, IsDetector
      <4>3. moves > 0 /\ senses # {}
        BY <1>2, <4>1, <4>2 DEF Winds, Newest
      <4>4. senses = {way}
        BY <2>8, <4>3
      <4>5. Strides(det.history, leaps) /\ <<det.last, finger>> \in creeps
        BY <3>1, <4>4 DEF Winds
      <4>6. CASE pos = finger
        BY <3>1, <4>1, <4>5, <4>6
      <4>7. CASE pos \in Reach[finger] /\ senses' = senses \cup Sense(finger, pos)
        <5>1. Sense(finger, pos) = {way}
          BY <1>3, <2>8, <4>7
        <5>2. det.last \in Reachable
          BY <4>1, <4>2 DEF Newest
        <5> QED BY <1>2, <3>1, <4>1, <4>5, <4>7, <5>1, <5>2 DEF Bends, Reachable
      <4> QED BY <4>6, <4>7
    <3> QED BY <2>1, <2>2, <3>1, PushedOn
  <2>9. senses' = {way} => way * TicksOf(wheel') <= 0
    <3> HIDE DEF pushed
    <3> QED BY <2>1, <2>4, <2>5, <2>8, TicksWay
  <2> HIDE DEF pushed
  <2> QED BY <1>4, <2>4, <2>7, <2>8, <2>9 DEF Winds
<1> QED BY <1>5, <1>6

LEMMA EmptyWinds ==
  ASSUME NEW way \in Ways, NEW creeps, NEW leaps,
         GInv, Winds(way, creeps, leaps), NEW touch, ~touch.contact, Step(touch),
         UNCHANGED <<moves, senses>>
  PROVE  Winds(way, creeps, leaps)'
<1>1. Known
  BY DEF GInv
<1>2. fsm'.state # "Scrolling"
  <2>1. fsm' = FsmStep(fsm, touch)
    BY DEF Step
  <2> QED BY <1>1, <2>1, WithoutTouch DEF Known
<1>3. TicksOf(wheel') = 0
  BY <1>1, <1>2, NotScrolling, EmitType
<1> QED BY <1>2, <1>3 DEF Winds, Ways

LEMMA NextWinds ==
  ASSUME NEW way \in Ways, NEW creeps, NEW leaps, Bends(way, creeps, leaps),
         GInv, Winds(way, creeps, leaps), [Next]_vars
  PROVE  Winds(way, creeps, leaps)'
<1>1. ASSUME NEW pos \in Starts, TouchDown(pos) PROVE Winds(way, creeps, leaps)'
  <2>1. moves' = 0 /\ senses' = {}
    BY <1>1 DEF TouchDown
  <2>2. fsm'.state # "Scrolling"
    <3> DEFINE touch == TouchAtPos(pos, contacts)
    <3>1. touch.contact
      BY DEF TouchAtPos
    <3>2. fsm' = FsmStep(fsm, touch)
      BY <1>1 DEF TouchDown, Step
    <3>3. fsm \in FsmStates /\ fsm.state \notin {"Moving", "Scrolling"}
      BY <1>1 DEF GInv, Known, Trap, TouchDown
    <3> HIDE DEF touch
    <3> QED BY <3>1, <3>2, <3>3, WithTouch
  <2> QED BY <2>1, <2>2 DEF Winds
<1>2. ASSUME finger # NoPos, NEW pos \in Reach[finger], Move(pos)
      PROVE  Winds(way, creeps, leaps)'
  <2>1. pos \in Reachable
    BY <1>2, GestureAssumption DEF GInv, Known, Reachable
  <2>2. /\ Step(TouchAtPos(pos, contacts - 1)) /\ finger' = pos /\ moves' = moves + 1
        /\ senses' = senses \cup Sense(finger, pos)
    BY <1>2 DEF Move
  <2> QED BY <1>2, <2>1, <2>2, FingerWinds
<1>3. CASE Rest
  <2>1. /\ finger # NoPos /\ finger \in Reachable
        /\ Step(TouchAtPos(finger, contacts - 1)) /\ finger' = finger
        /\ moves' = moves /\ senses' = senses
    BY <1>3 DEF Rest, GInv, Known
  <2> QED BY <2>1, FingerWinds
<1>4. CASE Lift
  <2>1. ~[NoTouch EXCEPT !.id = fsm.contact].contact
    BY DEF NoTouch
  <2> QED BY <1>4, <2>1, EmptyWinds DEF Lift
<1>5. CASE NoFinger
  <2>1. ~NoTouch.contact
    BY DEF NoTouch
  <2> QED BY <1>5, <2>1, EmptyWinds DEF NoFinger
<1>6. CASE UNCHANGED vars
  BY <1>6 DEF vars, pad, gesture, history, Winds, Newest
<1> QED BY <1>1, <1>2, <1>3, <1>4, <1>5, <1>6 DEF Next

(***************************************************************************)
(* A finger that has only gone one way around the center scrolls only one  *)
(* way (detector.rs:153-219), on every pad whose geometry bends with such  *)
(* a finger, for every sensitivity, arc and capacity of the history.       *)
(***************************************************************************)
THEOREM OneWaySound ==
  (\A way \in Ways : \E creeps, leaps : Bends(way, creeps, leaps))
    => (Spec => []OneWayScroll)
<1> SUFFICES ASSUME \A way \in Ways : \E creeps, leaps : Bends(way, creeps, leaps)
             PROVE  Spec => []OneWayScroll
  OBVIOUS
<1>1. PICK creeps, leaps : Bends(1, creeps, leaps)
  BY DEF Ways
<1>2. PICK back, bounds : Bends(-1, back, bounds)
  BY DEF Ways
<1> DEFINE Both == Winds(1, creeps, leaps) /\ Winds(-1, back, bounds)
<1>3. Init => GInv /\ Both
  BY InitGInv, InitWinds DEF Ways
<1>4. GInv /\ Both /\ [Next]_vars => GInv' /\ Both'
  <2> SUFFICES ASSUME GInv, Both, [Next]_vars PROVE GInv' /\ Both'
    OBVIOUS
  <2>1. Winds(1, creeps, leaps)'
    BY <1>1, NextWinds DEF Ways
  <2>2. Winds(-1, back, bounds)'
    BY <1>2, NextWinds DEF Ways
  <2> QED BY <2>1, <2>2, NextGInv
<1>5. GInv /\ Both => OneWayScroll
  <2>1. GInv => TicksOf(wheel) \in Int
    BY TicksAdd DEF GInv, Known
  <2>2. Both => /\ senses = {1} => 1 * TicksOf(wheel) <= 0
                /\ senses = {-1} => (-1) * TicksOf(wheel) <= 0
    BY DEF Winds
  <2> HIDE DEF Both
  <2> QED BY <2>1, <2>2 DEF OneWayScroll, TicksOf
<1> HIDE DEF Both
<1> QED BY <1>3, <1>4, <1>5, PTL DEF Spec
=============================================================================
