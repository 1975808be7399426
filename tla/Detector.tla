------------------------------ MODULE Detector ------------------------------
(***************************************************************************)
(* The circular-motion detector (src/src/detector.rs): a history of touch  *)
(* samples, newest first, and an accumulated angle that is drained into    *)
(* wheel ticks.                                                            *)
(*                                                                         *)
(* Angles are integers in units of half a turn / HalfTurn, and geometry is *)
(* given by functions of positions, so that an instance whose angles are   *)
(* whole units is computed exactly.  The accumulator, which holds means,   *)
(* is kept in 1/Scale of that unit.                                        *)
(***************************************************************************)
EXTENDS TypeB, FiniteSetsExt

CONSTANTS
  HalfTurn,        \* pi, in angle units
  Direction,       \* [Pairs of positions -> angle] of a motion vector
  Bearing,         \* [Positions -> angle] of a position seen from the center
  Near,            \* pairs of positions within SAMPLE_DEADBAND of each other
  TightTurns,      \* triples whose circumradius is below the minimum
  HistoryCapacity, \* HISTORY_CAPACITY
  Scale,           \* resolution of the accumulator
  Sensitivity      \* scroll.sensitivity

ASSUME DetectorAssumption ==
  /\ HalfTurn \in Nat \ {0}
  /\ HistoryCapacity \in Nat \ {0}
  /\ Scale \in Nat \ {0}
  /\ \A n \in 3 .. HistoryCapacity - 2 : Scale % n = 0
  /\ Sensitivity \in Int

Pi == HalfTurn * Scale
Magnitude(n) == IF n < 0 THEN -n ELSE n

\* The difference of two angles, brought back once into -pi .. pi.
Wrapped(d) ==
  IF d > HalfTurn THEN d - 2 * HalfTurn
  ELSE IF d < -HalfTurn THEN d + 2 * HalfTurn
  ELSE d

(***************************************************************************)
(* CircularDetector: [history, last, acc].                                 *)
(***************************************************************************)
FreshDetector == [history |-> << >>, last |-> NoPos, acc |-> 0]

\* Seeded fault: the new sample goes to the wrong end of the history.
FaultyPushesLast(det, pos) ==
  IF det.last # NoPos /\ <<det.last, pos>> \in Near THEN det
  ELSE LET n == Len(det.history)
           first == IF n = HistoryCapacity THEN 2 ELSE 1
       IN  [det EXCEPT !.last = pos,
                       !.history = SubSeq(@, first, n) \o <<pos>>]

\* push_if_moved: the dead band is measured from the last stored sample.
PushIfMoved(det, pos) ==
  IF det.last # NoPos /\ <<det.last, pos>> \in Near THEN det
  ELSE LET n == Len(det.history)
           kept == IF n = HistoryCapacity THEN n - 1 ELSE n
       IN  [det EXCEPT !.last = pos,
                       !.history = <<pos>> \o SubSeq(@, 1, kept)]

(***************************************************************************)
(* Turn i is the change of direction between the samples i+2, i+1 and i.   *)
(* The first rejected turn cuts off every older one.                       *)
(***************************************************************************)
Turn(history, i) ==
  Wrapped(Direction[<<history[i + 1], history[i]>>]
            - Direction[<<history[i + 2], history[i + 1]>>])

IsRejected(history, i) ==
  \/ 4 * Magnitude(Turn(history, i)) > HalfTurn
  \/ <<history[i], history[i + 1], history[i + 2]>> \in TightTurns

ValidTurns(history) ==
  Max({n \in 0 .. Len(history) - 2 :
         \A i \in 1 .. n : ~IsRejected(history, i)})

TurnSum(history, n) ==
  LET sum[i \in 0 .. n] == IF i = 0 THEN 0 ELSE sum[i - 1] + Turn(history, i)
  IN  sum[n]

SensitivityTable == <<10, 14, 20, 28, 40>>
SensitivityOf(speed) ==
  SensitivityTable[3 + (IF speed < -2 THEN -2 ELSE IF speed > 2 THEN 2 ELSE speed)]

\* Seeded fault: a single turn is enough to step.
FaultyOneTurn(history) == Len(history) >= 3 /\ ValidTurns(history) >= 1

\* What a step adds to the accumulator.
HasTurn(history) == Len(history) >= 3 /\ ValidTurns(history) >= 3
Contribution(history) ==
  LET n == ValidTurns(history)
  IN  SensitivityOf(Sensitivity) * TurnSum(history, n) * (Scale \div n)

\* Seeded fault: at most one tick per step.
FaultyDrainedOnce(acc) ==
  IF acc > Pi THEN [acc |-> acc - 2 * Pi, ticks |-> -1]
  ELSE IF acc < -Pi THEN [acc |-> acc + 2 * Pi, ticks |-> 1]
  ELSE [acc |-> acc, ticks |-> 0]

(***************************************************************************)
(* The two drain loops: a full turn off per tick, until the rest is at     *)
(* most half a turn, first for an angle above it, then for one below.      *)
(***************************************************************************)
FullTurns(angle) ==
  CHOOSE n \in 0 .. Magnitude(angle) :
    /\ angle - 2 * Pi * n <= Pi
    /\ \A m \in 0 .. n - 1 : angle - 2 * Pi * m > Pi

Drained(acc) ==
  LET down == FullTurns(acc)
      rest == acc - 2 * Pi * down
      up == FullTurns(-rest)
  IN  [acc |-> rest + 2 * Pi * up, ticks |-> up - down]

\* CircularDetector::step: the detector afterwards and the ticks it returns.
DetectorStep(det) ==
  IF HasTurn(det.history)
  THEN LET rest == Drained(det.acc + Contribution(det.history))
       IN  [det |-> [det EXCEPT !.acc = rest.acc], ticks |-> rest.ticks]
  ELSE [det |-> det, ticks |-> 0]

(***************************************************************************)
(* engagement_swept_angle against TRIGGER_ANGLE, and within_horizontal_arc *)
(* (angles are compared with zones of pi/8).                               *)
(***************************************************************************)
SweepsPastTrigger(start, pos) ==
  12 * Magnitude(Wrapped(Bearing[pos] - Bearing[start])) > HalfTurn

WithinArc(pos, first, last) ==
  LET theta == IF Bearing[pos] < 0 THEN Bearing[pos] + 2 * HalfTurn ELSE Bearing[pos]
      after == 8 * theta >= first * HalfTurn
      before == 8 * theta <= last * HalfTurn
  IN  IF first <= last THEN after /\ before ELSE after \/ before
=============================================================================
