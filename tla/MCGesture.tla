----------------------------- MODULE MCGesture ------------------------------
(***************************************************************************)
(* A circular pad in polar positions: x is 0 at the center, 2 on the outer *)
(* ring of N places and 1 on a ring half as wide; y is the place on the    *)
(* ring, clockwise as screen angles go.  The motion from place i to place  *)
(* j of a ring, less than half a turn ahead, points a quarter turn ahead   *)
(* of the place half way between them: a whole number of units of pi/N.    *)
(* Only the center is in the dead zone.  The dead band is wider than one   *)
(* step of the outer ring and than two of the inner ring, and the minimum  *)
(* rotation radius lies between the radii of the rings.                    *)
(***************************************************************************)
EXTENDS Gesture

N == 24
Center == [x |-> 0, y |-> 0]
InnerAt(i) == [x |-> 1, y |-> i % N]
RingAt(i) == [x |-> 2, y |-> i % N]
Inner == {InnerAt(i) : i \in 0 .. N - 1}
Ring == {RingAt(i) : i \in 0 .. N - 1}
OffCenter == Inner \cup Ring
Places == OffCenter \cup {Center}

\* An angle in units of pi/N, as atan2 returns it.
Angle(u) == LET a == u % (2 * N) IN IF a > N THEN a - 2 * N ELSE a

\* No finger of this model jumps from ring to ring.
Toward(p, q) ==
  LET ahead == (q.y - p.y) % N
  IN  IF p = q THEN 0
      ELSE IF p = Center THEN Angle(2 * q.y)
      ELSE IF q = Center THEN Angle(2 * p.y + N)
      ELSE IF 2 * ahead <= N THEN Angle(2 * p.y + ahead + N \div 2)
      ELSE Angle(2 * p.y - (N - ahead) - N \div 2)

RingDirection == [pair \in Places \X Places |-> Toward(pair[1], pair[2])]
RingBearing == [p \in Places |-> IF p = Center THEN 0 ELSE Angle(2 * p.y)]
Apart(ring, steps) ==
  {pair \in ring \X ring : (pair[1].y - pair[2].y) % N \in steps}
RingNear == Apart(Ring, {0, 1, N - 1}) \cup Apart(Inner, {0, 1, 2, N - 1, N - 2})
              \cup {<<Center, Center>>}
RingSwept ==
  {pair \in OffCenter \X OffCenter : SweepsPastTrigger(pair[1], pair[2])}

\* Three different places of the inner ring lie on a circle that is too small.
SmallTurns ==
  {<<InnerAt(i), InnerAt(i - s), InnerAt(i - 2 * s)>> : i \in 0 .. N - 1, s \in {3, N - 3}}

Ahead(p, steps) == {[p EXCEPT !.y = (p.y + s) % N] : s \in steps}

\* A finger that creeps, circles widely or tightly, turns back or crosses the
\* center.
Roam ==
  [p \in Places |->
     IF p = Center THEN {RingAt(0), InnerAt(3)}
     ELSE IF p \in Inner THEN Ahead(p, {3})
     ELSE Ahead(p, {-3, 1, 3}) \cup {Center}]
RoamStarts == {RingAt(8), InnerAt(8), Center}

\* A finger that circles either way, or slips out of the center.
Circle ==
  [p \in Places |-> IF p = Center THEN {RingAt(0)} ELSE Ahead(p, {-3, 2, 3})]
CircleStarts == {RingAt(10), Center}

(***************************************************************************)
(* What a finger that goes one way can reach from a sample: by creeping    *)
(* within the dead band, and at once as the next sample.                   *)
(***************************************************************************)
Onward(p, way, steps) == Ahead(p, {way * s : s \in steps})
Creeps(way) ==
  {pair \in Places \X Places :
     pair \in RingNear /\ pair[2] \in Onward(pair[1], way, 0 .. 2)}
Leaps(way) ==
  {pair \in OffCenter \X OffCenter : pair[2] \in Onward(pair[1], way, 2 .. 5)}

ASSUME RingBends == \A way \in {1, -1} : Bends(way, Creeps(way), Leaps(way))
=============================================================================
