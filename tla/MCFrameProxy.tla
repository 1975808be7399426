---------------------------- MODULE MCFrameProxy ----------------------------
(***************************************************************************)
(* Small instances of FrameProxy.  The pad is a line or a 2x2 grid; the    *)
(* origin is the dead zone, and only a change between the two outer points *)
(* that differ most counts as a sweep.                                     *)
(***************************************************************************)
EXTENDS FrameProxy

At(px, py) == [x |-> px, y |-> py]

MCOrigin == At(0, 0)
Used == At(1, 0)
LinePoints == {At(0, 0), At(1, 0), At(2, 0)}
GridPoints == {At(0, 0), At(1, 0), At(0, 1), At(1, 1)}
OuterLine == LinePoints \ {MCOrigin}

LineOuter == OuterLine
LineSwept == {<<At(1, 0), At(2, 0)>>, <<At(2, 0), At(1, 0)>>}
NoSweep == {}

GridOuter == GridPoints \ {MCOrigin}
GridSwept == {<<At(1, 0), At(0, 1)>>, <<At(0, 1), At(1, 0)>>}

\* A schedule: the daemon is late and first reads when the buffer has
\* overflowed, and the pad does not report while it queries.
LateReader ==
  /\ (pc = "poll" /\ pc' # "poll") => (queue # << >> /\ Head(queue) = Dropped)
  /\ reports' # reports => pc \in {"poll", "assemble"}
=============================================================================
