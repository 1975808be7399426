---------------------------- MODULE TypeB_proofs ----------------------------
(***************************************************************************)
(* Lemmas about functions defined by recursion, and about applying events  *)
(* to a pad: they preserve its type, they compose, two pads that agree     *)
(* stay in agreement, and the reconciliation events lead from the previous *)
(* contacts to the refreshed ones.                                         *)
(***************************************************************************)
EXTENDS TypeB, SequenceTheorems, WellFoundedInduction, TLAPS

-----------------------------------------------------------------------------
(***************************************************************************)
(* Induction over an initial segment of the naturals, in terms of sets,    *)
(* and what it gives for functions defined by recursion over such a        *)
(* segment: the prefix functions of ApplyEvents, RouteFrame, TurnSum,      *)
(* ReconciliationEvents and FlushKeys.                                     *)
(***************************************************************************)

(***************************************************************************)
(* A nonempty set of naturals has a least element: what the induction      *)
(* below rests on.                                                         *)
(***************************************************************************)
LEMMA NatMin ==
  ASSUME NEW T, T \subseteq Nat, T # {}
  PROVE \E x \in T : \A y \in T : x <= y
<1> DEFINE R == {ss \in Nat \X Nat : ss[1] < ss[2]}
<1>1. IsWellFoundedOn(R, Nat)
  BY NatLessThanWellFounded DEF OpToRel
<1>2. PICK x \in T : \A y \in T : ~(<<y, x>> \in R)
  <2> HIDE DEF R
  <2> QED BY <1>1, WFMin
<1>3. \A y \in T : x <= y
  <2> SUFFICES ASSUME NEW y \in T PROVE x <= y
    OBVIOUS
  <2>1. y \in Nat /\ x \in Nat
    OBVIOUS
  <2>2. ~(y < x)
    <3> SUFFICES ASSUME y < x PROVE <<y, x>> \in R
      BY <1>2
    <3> QED BY <2>1
  <2> QED BY <2>1, <2>2
<1> QED BY <1>3

(***************************************************************************)
(* Induction over Nat, and over 0 .. n: a set that holds 0 and, with each  *)
(* number, the next, holds them all.                                       *)
(***************************************************************************)
LEMMA SetInduction ==
  ASSUME NEW S, 0 \in S, \A n \in Nat : n \in S => n + 1 \in S
  PROVE Nat \subseteq S
<1> SUFFICES ASSUME Nat \ S # {} PROVE FALSE
  OBVIOUS
<1>1. PICK m \in Nat \ S : \A y \in Nat \ S : m <= y
  BY NatMin
<1>2. m # 0 /\ m - 1 \in Nat /\ m - 1 \in S
  BY <1>1
<1> QED BY <1>1, <1>2

LEMMA RangeInduction ==
  ASSUME NEW n \in Nat, NEW S, 0 \in S, \A i \in 1 .. n : i - 1 \in S => i \in S
  PROVE 0 .. n \subseteq S
<1> DEFINE T == {i \in Nat : i <= n => i \in S}
<1>1. 0 \in T
  OBVIOUS
<1>2. \A i \in Nat : i \in T => i + 1 \in T
  OBVIOUS
<1>3. Nat \subseteq T
  <2> HIDE DEF T
  <2> QED BY <1>1, <1>2, SetInduction
<1> QED BY <1>3

-----------------------------------------------------------------------------
(***************************************************************************)
(* The runs of a step function: run[i] is what i steps make of base.       *)
(***************************************************************************)
IsRun(run, n, base, step) ==
  run[0] = base /\ \A i \in 1 .. n : run[i] = step[<<i, run[i - 1]>>]

(***************************************************************************)
(* A run of m - 1 steps extends to one of m steps.                         *)
(***************************************************************************)
LEMMA RunExtends ==
  ASSUME NEW n \in Nat, NEW T, NEW base \in T, NEW step \in [(1 .. n) \X T -> T],
         NEW m \in 1 .. n, NEW f \in [0 .. m - 1 -> T], IsRun(f, m - 1, base, step)
  PROVE  \E g \in [0 .. m -> T] : IsRun(g, m, base, step)
<1> DEFINE last == step[<<m, f[m - 1]>>]
<1> DEFINE g == [i \in 0 .. m |-> IF i = m THEN last ELSE f[i]]
<1>1. m \in Nat /\ m - 1 \in Nat /\ m <= n
  OBVIOUS
<1>2. f[m - 1] \in T
  BY <1>1
<1>3. last \in T
  BY <1>1, <1>2
<1>4. \A i \in 0 .. m : i # m => i \in 0 .. m - 1
  BY <1>1
<1>5. g \in [0 .. m -> T]
  <2> HIDE DEF last
  <2> QED BY <1>1, <1>3, <1>4
<1>6. g[0] = base
  <2> HIDE DEF last
  <2> QED BY <1>1 DEF IsRun
<1>7. ASSUME NEW i \in 1 .. m PROVE g[i] = step[<<i, g[i - 1]>>]
  <2>1. g[i - 1] = f[i - 1]
    <3> HIDE DEF last
    <3> QED BY <1>1
  <2>2. CASE i = m
    <3>1. g[i] = last
      <4> HIDE DEF last
      <4> QED BY <1>1, <2>2
    <3> QED BY <2>1, <2>2, <3>1
  <2>3. CASE i # m
    <3> HIDE DEF last
    <3>1. g[i] = f[i] /\ i \in 1 .. m - 1
      BY <1>1, <2>3
    <3> HIDE DEF g
    <3> QED BY <2>1, <3>1 DEF IsRun
  <2> QED BY <2>2, <2>3
<1> QED
  <2> HIDE DEF g
  <2> QED BY <1>5, <1>6, <1>7 DEF IsRun

(***************************************************************************)
(* A step function that stays within T has a run of any length, within T:  *)
(* a function defined by recursion over 0 .. n exists.                     *)
(***************************************************************************)
LEMMA RecursionExists ==
  ASSUME NEW n \in Nat, NEW T, NEW base \in T, NEW step \in [(1 .. n) \X T -> T]
  PROVE \E f \in [0 .. n -> T] : IsRun(f, n, base, step)
<1> DEFINE S == {m \in 0 .. n : \E f \in [0 .. m -> T] : IsRun(f, m, base, step)}
<1>1. 0 \in S
  <2> DEFINE f == [i \in 0 .. 0 |-> base]
  <2>1. f \in [0 .. 0 -> T] /\ f[0] = base
    OBVIOUS
  <2>2. IsRun(f, 0, base, step)
    <3> HIDE DEF f
    <3> QED BY <2>1 DEF IsRun
  <2> QED BY <2>1, <2>2
<1>2. \A m \in 1 .. n : m - 1 \in S => m \in S
  <2> SUFFICES ASSUME NEW m \in 1 .. n, m - 1 \in S PROVE m \in S
    OBVIOUS
  <2>1. \E g \in [0 .. m -> T] : IsRun(g, m, base, step)
    BY RunExtends
  <2> QED BY <2>1
<1>3. 0 .. n \subseteq S
  <2> HIDE DEF S
  <2> QED BY <1>1, <1>2, RangeInduction
<1>4. n \in S
  <2> HIDE DEF S
  <2> QED BY <1>3
<1> QED BY <1>4

-----------------------------------------------------------------------------
(***************************************************************************)
(* Induction over the sequences of a set, again in terms of sets: a set    *)
(* that holds the empty one and, with each, those longer by one.           *)
(***************************************************************************)
LEMMA SeqInduction ==
  ASSUME NEW A, NEW S, << >> \in S,
         \A s \in Seq(A), e \in A : s \in S => Append(s, e) \in S
  PROVE  Seq(A) \subseteq S
<1> SUFFICES ASSUME NEW s \in Seq(A) PROVE s \in S
  OBVIOUS
<1> DEFINE n == Len(s)
           Prefix(i) == SubSeq(s, 1, i)
           P == {i \in 0 .. n : Prefix(i) \in S}
<1>1. n \in Nat
  OBVIOUS
<1>2. 0 \in P
  <2>1. Prefix(0) = << >>
    OBVIOUS
  <2> HIDE DEF Prefix, n
  <2> QED BY <1>1, <2>1
<1>3. \A i \in 1 .. n : i - 1 \in P => i \in P
  <2> SUFFICES ASSUME NEW i \in 1 .. n, Prefix(i - 1) \in S
               PROVE  i \in 0 .. n /\ Prefix(i) \in S
    OBVIOUS
  <2>1. i \in 0 .. n /\ i - 1 \in 0 .. n
    BY <1>1
  <2>2. Prefix(i - 1) \in Seq(A) /\ s[i] \in A
    BY <1>1, <2>1
  <2>3. Prefix(i) = Append(Prefix(i - 1), s[i])
    BY <1>1, <2>1
  <2> HIDE DEF Prefix
  <2> QED BY <2>1, <2>2, <2>3
<1>4. n \in P
  <2> HIDE DEF P, n
  <2>1. 0 .. n \subseteq P
    BY <1>1, <1>2, <1>3, RangeInduction
  <2> QED BY <1>1, <2>1
<1>5. Prefix(n) = s
  OBVIOUS
<1> QED BY <1>4, <1>5

(***************************************************************************)
(* What a step function makes of a base, one element of a sequence after   *)
(* the other.                                                              *)
(***************************************************************************)
IsStep(step, T, A) == step \in [T \X A -> T]

Steps(run, step, base, s) ==
  run[0] = base /\ \A i \in 1 .. Len(s) : run[i] = step[<<run[i - 1], s[i]>>]

Outcome(step, T, base, s) ==
  (CHOOSE run \in [0 .. Len(s) -> T] : Steps(run, step, base, s))[Len(s)]

LEMMA StepsExist ==
  ASSUME NEW T, NEW A, NEW base \in T, NEW step, IsStep(step, T, A), NEW s \in Seq(A)
  PROVE  \E run \in [0 .. Len(s) -> T] : Steps(run, step, base, s)
<1> DEFINE n == Len(s)
           ahead == [x \in (1 .. n) \X T |-> step[<<x[2], s[x[1]]>>]]
<1>1. n \in Nat /\ \A i \in 1 .. n : s[i] \in A
  OBVIOUS
<1>2. ahead \in [(1 .. n) \X T -> T]
  <2> HIDE DEF n
  <2> QED BY <1>1 DEF IsStep
<1>3. PICK f \in [0 .. n -> T] : IsRun(f, n, base, ahead)
  <2> HIDE DEF ahead, n
  <2> QED BY <1>1, <1>2, RecursionExists
<1>4. f[0] = base
  <2> HIDE DEF ahead
  <2> QED BY <1>3 DEF IsRun
<1>5. ASSUME NEW i \in 1 .. n
      PROVE  f[i] = step[<<f[i - 1], s[i]>>]
  <2> DEFINE x == <<i, f[i - 1]>>
  <2>1. x \in (1 .. n) \X T
    <3>1. i - 1 \in 0 .. n
      BY <1>1
    <3> QED BY <3>1
  <2>2. f[i] = ahead[x]
    <3> HIDE DEF ahead
    <3> QED BY <1>3 DEF IsRun
  <2>3. ahead[x] = step[<<x[2], s[x[1]]>>]
    <3> HIDE DEF x
    <3> QED BY <2>1
  <2> QED BY <2>2, <2>3
<1> QED BY <1>4, <1>5 DEF Steps

LEMMA StepsAgree ==
  ASSUME NEW T, NEW A, NEW base, NEW step, NEW s \in Seq(A), NEW t \in Seq(A),
         NEW n \in Nat, n <= Len(s), n <= Len(t), \A i \in 1 .. n : s[i] = t[i],
         NEW f, NEW g, Steps(f, step, base, s), Steps(g, step, base, t)
  PROVE  f[n] = g[n]
<1> DEFINE P == {i \in 0 .. n : f[i] = g[i]}
<1>1. 0 \in P
  BY DEF Steps
<1>2. \A i \in 1 .. n : i - 1 \in P => i \in P
  <2> SUFFICES ASSUME NEW i \in 1 .. n, f[i - 1] = g[i - 1]
               PROVE  i \in 0 .. n /\ f[i] = g[i]
    OBVIOUS
  <2>1. i \in 0 .. n /\ i \in 1 .. Len(s) /\ i \in 1 .. Len(t)
    OBVIOUS
  <2>2. f[i] = step[<<f[i - 1], s[i]>>] /\ g[i] = step[<<g[i - 1], t[i]>>]
    BY <2>1 DEF Steps
  <2> QED BY <2>1, <2>2
<1>3. n \in P
  <2> HIDE DEF P
  <2>1. 0 .. n \subseteq P
    BY <1>1, <1>2, RangeInduction
  <2> QED BY <2>1
<1> QED BY <1>3

LEMMA OutcomeSteps ==
  ASSUME NEW T, NEW A, NEW base \in T, NEW step, IsStep(step, T, A), NEW s \in Seq(A)
  PROVE  \E run \in [0 .. Len(s) -> T] :
           Steps(run, step, base, s) /\ Outcome(step, T, base, s) = run[Len(s)]
<1>1. \E run \in [0 .. Len(s) -> T] : Steps(run, step, base, s)
  BY StepsExist
<1> QED BY <1>1 DEF Outcome

LEMMA OutcomeNone ==
  ASSUME NEW T, NEW A, NEW base \in T, NEW step, IsStep(step, T, A)
  PROVE  Outcome(step, T, base, << >>) = base
<1> DEFINE none == << >>
<1>1. none \in Seq(A)
  OBVIOUS
<1>2. Len(none) = 0
  OBVIOUS
<1> HIDE DEF none
<1>3. PICK f \in [0 .. Len(none) -> T] :
        Steps(f, step, base, none) /\ Outcome(step, T, base, none) = f[Len(none)]
  BY <1>1, OutcomeSteps
<1>4. Outcome(step, T, base, none) = base
  BY <1>2, <1>3 DEF Steps
<1> QED BY <1>4 DEF none

LEMMA OutcomeType ==
  ASSUME NEW T, NEW A, NEW base \in T, NEW step, IsStep(step, T, A), NEW s \in Seq(A)
  PROVE  Outcome(step, T, base, s) \in T
<1>1. Len(s) \in 0 .. Len(s)
  OBVIOUS
<1> QED BY <1>1, OutcomeSteps

LEMMA OutcomeAppend ==
  ASSUME NEW T, NEW A, NEW base \in T, NEW step, IsStep(step, T, A), NEW s \in Seq(A),
         NEW e \in A
  PROVE  Outcome(step, T, base, Append(s, e)) = step[<<Outcome(step, T, base, s), e>>]
<1> DEFINE t == Append(s, e)
           n == Len(s)
<1>1. /\ n \in Nat /\ t \in Seq(A) /\ Len(t) = n + 1 /\ t[n + 1] = e
      /\ \A i \in 1 .. n : s[i] = t[i]
  OBVIOUS
<1> HIDE DEF t
<1>2. PICK f : Steps(f, step, base, s) /\ Outcome(step, T, base, s) = f[n]
  BY OutcomeSteps
<1>3. PICK g : Steps(g, step, base, t) /\ Outcome(step, T, base, t) = g[n + 1]
  BY <1>1, OutcomeSteps
<1>4. f[n] = g[n]
  <2>1. n \in Nat /\ n <= Len(s) /\ n <= Len(t) /\ \A i \in 1 .. n : s[i] = t[i]
    BY <1>1
  <2>2. Steps(f, step, base, s) /\ Steps(g, step, base, t) /\ t \in Seq(A)
    BY <1>1, <1>2, <1>3
  <2> HIDE DEF n
  <2> QED BY <2>1, <2>2, StepsAgree
<1>5. g[n + 1] = step[<<g[n], e>>]
  <2>1. n + 1 \in 1 .. Len(t) /\ n + 1 - 1 = n
    BY <1>1
  <2> QED BY <1>1, <1>3, <2>1 DEF Steps
<1> QED BY <1>2, <1>3, <1>4, <1>5 DEF t

LEMMA OutcomeConcat ==
  ASSUME NEW T, NEW A, NEW base \in T, NEW step, IsStep(step, T, A), NEW a \in Seq(A),
         NEW b \in Seq(A)
  PROVE  Outcome(step, T, base, a \o b) = Outcome(step, T, Outcome(step, T, base, a), b)
<1> DEFINE mid == Outcome(step, T, base, a)
           S == {s \in Seq(A) : Outcome(step, T, base, a \o s) = Outcome(step, T, mid, s)}
<1>1. mid \in T
  BY OutcomeType
<1>2. << >> \in S
  <2>1. a \o << >> = a /\ << >> \in Seq(A)
    OBVIOUS
  <2>2. Outcome(step, T, mid, << >>) = mid
    <3> HIDE DEF mid
    <3> QED BY <1>1, OutcomeNone
  <2> QED BY <2>1, <2>2
<1>3. \A s \in Seq(A), e \in A : s \in S => Append(s, e) \in S
  <2> SUFFICES ASSUME NEW s \in Seq(A), NEW e \in A,
                      Outcome(step, T, base, a \o s) = Outcome(step, T, mid, s)
               PROVE  /\ Append(s, e) \in Seq(A)
                      /\ Outcome(step, T, base, a \o Append(s, e))
                           = Outcome(step, T, mid, Append(s, e))
    OBVIOUS
  <2> DEFINE both == a \o s
  <2>1. both \in Seq(A)
    OBVIOUS
  <2> HIDE DEF mid, S
  <2>2. Outcome(step, T, mid, Append(s, e)) = step[<<Outcome(step, T, mid, s), e>>]
    BY <1>1, OutcomeAppend
  <2>3. Outcome(step, T, base, Append(both, e)) = step[<<Outcome(step, T, base, both), e>>]
    <3> HIDE DEF both
    <3> QED BY <2>1, OutcomeAppend
  <2>4. a \o Append(s, e) = Append(both, e) /\ Append(s, e) \in Seq(A)
    OBVIOUS
  <2> QED BY <2>2, <2>3, <2>4
<1>4. Seq(A) \subseteq S
  <2> HIDE DEF S
  <2> QED BY <1>2, <1>3, SeqInduction
<1> QED BY <1>4

-----------------------------------------------------------------------------
\* The events FrameState::apply_event accepts.
ValidEvents == {e \in Events : e.type = "SLOT" => e.value \in Slots}

(***************************************************************************)
(* FrameState::apply_event keeps a pad a pad (evdev.rs).                   *)
(***************************************************************************)
LEMMA ApplyEventType ==
  ASSUME NEW pad \in Pads, NEW e \in ValidEvents
  PROVE  ApplyEvent(pad, e) \in Pads
<1>1. CASE e.type = "SLOT"
  BY <1>1 DEF ApplyEvent, ValidEvents, Pads
<1>2. CASE e.type \in {"TOUCH", "BTN"}
  <2>1. e.value \in BOOLEAN
    BY <1>2 DEF ValidEvents, Events, SlotEvents, IdEvents, PositionEvents, KeyEvents
  <2> QED BY <1>2, <2>1 DEF ApplyEvent, Pads
<1>3. CASE e.type = "ID"
  <2>1. e.value \in TrackingIds
    BY <1>3 DEF ValidEvents, Events, SlotEvents, IdEvents, PositionEvents, KeyEvents
  <2> QED BY <1>3, <2>1 DEF ApplyEvent, Pads, SlotStates
<1>4. CASE e.type \in {"X", "Y"}
  <2>1. e.value \in Int
    BY <1>4 DEF ValidEvents, Events, SlotEvents, IdEvents, PositionEvents, KeyEvents
  <2>2. CASE e.type = "X"
    BY <2>1, <2>2 DEF ApplyEvent, Pads, SlotStates
  <2>3. CASE e.type = "Y"
    BY <2>1, <2>3 DEF ApplyEvent, Pads, SlotStates
  <2> QED BY <1>4, <2>2, <2>3
<1> QED
  BY <1>1, <1>2, <1>3, <1>4
    DEF ValidEvents, Events, SlotEvents, IdEvents, PositionEvents, KeyEvents

(***************************************************************************)
(* What an event does to each part of a pad.                               *)
(***************************************************************************)
LEMMA ApplyEventEffect ==
  ASSUME NEW p \in Pads, NEW e \in ValidEvents
  PROVE  LET q == ApplyEvent(p, e)
             Hits(type, s) == e.type = type /\ s = p.cur
         IN  /\ q.cur = IF e.type = "SLOT" THEN e.value ELSE p.cur
             /\ q.touch = IF e.type = "TOUCH" THEN e.value ELSE p.touch
             /\ q.btn = IF e.type = "BTN" THEN e.value ELSE p.btn
             /\ \A s \in Slots :
                  /\ q.slots[s].id = IF Hits("ID", s) THEN e.value ELSE p.slots[s].id
                  /\ q.slots[s].x = IF Hits("X", s) THEN e.value ELSE p.slots[s].x
                  /\ q.slots[s].y = IF Hits("Y", s) THEN e.value ELSE p.slots[s].y
<1>1. CASE e.type = "SLOT"
  BY <1>1 DEF ApplyEvent, ValidEvents, Pads
<1>2. CASE e.type \in {"TOUCH", "BTN"}
  BY <1>2 DEF ApplyEvent, Pads
<1>3. CASE e.type \in {"ID", "X", "Y"}
  BY <1>3 DEF ApplyEvent, Pads, SlotStates
<1> QED
  BY <1>1, <1>2, <1>3
    DEF ValidEvents, Events, SlotEvents, IdEvents, PositionEvents, KeyEvents

\* Two pads are the same when every part of them is.
LEMMA PadsEqual ==
  ASSUME NEW p \in Pads, NEW q \in Pads,
         p.cur = q.cur, p.touch = q.touch, p.btn = q.btn,
         \A s \in Slots : /\ p.slots[s].id = q.slots[s].id
                          /\ p.slots[s].x = q.slots[s].x
                          /\ p.slots[s].y = q.slots[s].y
  PROVE  p = q
<1>1. \A s \in Slots : p.slots[s] = q.slots[s]
  BY DEF Pads, SlotStates
<1>2. p.slots = q.slots
  BY <1>1 DEF Pads
<1> QED BY <1>2 DEF Pads

(***************************************************************************)
(* A frame whose slots were all accepted consists of valid events.         *)
(***************************************************************************)
LEMMA ValidFrame ==
  ASSUME NEW events \in Seq(Events), SelectsValidSlots(events)
  PROVE  events \in Seq(ValidEvents)
<1>1. \A i \in 1 .. Len(events) : events[i] \in ValidEvents
  BY DEF SelectsValidSlots, ValidEvents
<1> QED BY <1>1

(***************************************************************************)
(* What the recursive definition of ApplyEvents comes to: a run of pads,   *)
(* one event at a time.                                                    *)
(***************************************************************************)
IsRunOf(run, pad, events) ==
  /\ run \in [0 .. Len(events) -> Pads]
  /\ run[0] = pad
  /\ \A i \in 1 .. Len(events) : run[i] = ApplyEvent(run[i - 1], events[i])

LEMMA ApplyEventsRun ==
  ASSUME NEW pad \in Pads, NEW events \in Seq(ValidEvents)
  PROVE  \E run : IsRunOf(run, pad, events) /\ ApplyEvents(pad, events) = run[Len(events)]
<1> DEFINE step ==
      [x \in (1 .. Len(events)) \X Pads |-> ApplyEvent(x[2], events[x[1]])]
<1> DEFINE Rec(g) ==
      g = [i \in 0 .. Len(events) |-> IF i = 0 THEN pad ELSE ApplyEvent(g[i - 1], events[i])]
<1> DEFINE after == CHOOSE g : Rec(g)
<1>1. Len(events) \in Nat /\ \A i \in 1 .. Len(events) : events[i] \in ValidEvents
  OBVIOUS
<1>2. step \in [(1 .. Len(events)) \X Pads -> Pads]
  BY <1>1, ApplyEventType
<1>3. PICK f \in [0 .. Len(events) -> Pads] : IsRun(f, Len(events), pad, step)
  <2> HIDE DEF step
  <2> QED BY <1>1, <1>2, RecursionExists
<1>4. f[0] = pad
  <2> HIDE DEF step
  <2> QED BY <1>3 DEF IsRun
<1>5. ASSUME NEW i \in 1 .. Len(events)
      PROVE  f[i] = ApplyEvent(f[i - 1], events[i])
  <2> DEFINE x == <<i, f[i - 1]>>
  <2>1. x \in (1 .. Len(events)) \X Pads
    <3>1. i - 1 \in 0 .. Len(events)
      BY <1>1
    <3> QED BY <3>1
  <2>2. f[i] = step[x]
    <3> HIDE DEF step
    <3> QED BY <1>3 DEF IsRun
  <2>3. step[x] = ApplyEvent(x[2], events[x[1]])
    <3> HIDE DEF x
    <3> QED BY <2>1
  <2> QED BY <2>2, <2>3
<1> HIDE DEF step
<1>6. Rec(after)
  <2>1. Rec(f)
    BY <1>1, <1>4, <1>5
  <2> HIDE DEF Rec
  <2> QED BY <2>1
<1>7. ApplyEvents(pad, events) = after[Len(events)]
  BY DEF ApplyEvents
<1> HIDE DEF after
<1>8. after[0] = pad
      /\ \A i \in 1 .. Len(events) : after[i] = ApplyEvent(after[i - 1], events[i])
  BY <1>1, <1>6
<1>9. \A i \in 0 .. Len(events) : after[i] = f[i]
  <2> DEFINE S == {i \in 0 .. Len(events) : after[i] = f[i]}
  <2>1. 0 \in S
    BY <1>1, <1>4, <1>8
  <2>2. \A i \in 1 .. Len(events) : i - 1 \in S => i \in S
    BY <1>1, <1>5, <1>8
  <2>3. 0 .. Len(events) \subseteq S
    <3> HIDE DEF S
    <3> QED BY <1>1, <2>1, <2>2, RangeInduction
  <2> QED BY <2>3
<1> QED BY <1>1, <1>4, <1>5, <1>7, <1>9 DEF IsRunOf

(***************************************************************************)
(* FrameState after a whole frame of accepted events is a pad again.       *)
(***************************************************************************)
LEMMA ApplyEventsType ==
  ASSUME NEW pad \in Pads, NEW events \in Seq(ValidEvents)
  PROVE  ApplyEvents(pad, events) \in Pads
<1>1. PICK run : IsRunOf(run, pad, events) /\ ApplyEvents(pad, events) = run[Len(events)]
  BY ApplyEventsRun
<1>2. Len(events) \in 0 .. Len(events)
  OBVIOUS
<1> QED BY <1>1, <1>2 DEF IsRunOf

(***************************************************************************)
(* query_frame_state puts a pad together from the answers of five ioctls.  *)
(***************************************************************************)
LEMMA AnswerTypes ==
  ASSUME NEW a \in Pads, NEW p \in Pads
  PROVE  /\ [a EXCEPT !.cur = p.cur] \in Pads
         /\ [a EXCEPT !.touch = p.touch, !.btn = p.btn] \in Pads
         /\ [a EXCEPT !.slots = [s \in Slots |-> [@[s] EXCEPT !.id = p.slots[s].id]]] \in Pads
         /\ [a EXCEPT !.slots = [s \in Slots |-> [@[s] EXCEPT !.x = p.slots[s].x]]] \in Pads
         /\ [a EXCEPT !.slots = [s \in Slots |-> [@[s] EXCEPT !.y = p.slots[s].y]]] \in Pads
BY DEF Pads, SlotStates

-----------------------------------------------------------------------------
(***************************************************************************)
(* Two pads that show the same contacts.                                   *)
(***************************************************************************)
SameContacts(p, q) ==
  /\ p.cur = q.cur
  /\ p.touch = q.touch
  /\ \A s \in Slots : p.slots[s].id = q.slots[s].id

(***************************************************************************)
(* An event leaves two pads that show the same contacts in agreement, and  *)
(* a position event changes the contacts of neither.                       *)
(***************************************************************************)
LEMMA ApplyEventAgrees ==
  ASSUME NEW p \in Pads, NEW q \in Pads, NEW e \in ValidEvents, SameContacts(p, q)
  PROVE  SameContacts(ApplyEvent(p, e), ApplyEvent(q, e))
<1>1. CASE e.type = "SLOT"
  BY <1>1 DEF ApplyEvent, SameContacts, Pads
<1>2. CASE e.type \in {"TOUCH", "BTN"}
  BY <1>2 DEF ApplyEvent, SameContacts, Pads
<1>3. CASE e.type \in {"ID", "X", "Y"}
  BY <1>3 DEF ApplyEvent, SameContacts, Pads, SlotStates
<1> QED
  BY <1>1, <1>2, <1>3
    DEF ValidEvents, Events, SlotEvents, IdEvents, PositionEvents, KeyEvents

LEMMA PositionsKeepContacts ==
  ASSUME NEW p \in Pads, NEW e, e.type \in {"X", "Y"}
  PROVE  SameContacts(ApplyEvent(p, e), p)
BY DEF ApplyEvent, SameContacts, Pads, SlotStates

LEMMA ApplyEventsAgree ==
  ASSUME NEW p \in Pads, NEW q \in Pads, NEW events \in Seq(ValidEvents),
         SameContacts(p, q)
  PROVE  SameContacts(ApplyEvents(p, events), ApplyEvents(q, events))
<1>1. PICK f : IsRunOf(f, p, events) /\ ApplyEvents(p, events) = f[Len(events)]
  BY ApplyEventsRun
<1>2. PICK g : IsRunOf(g, q, events) /\ ApplyEvents(q, events) = g[Len(events)]
  BY ApplyEventsRun
<1>3. Len(events) \in Nat /\ \A i \in 1 .. Len(events) : events[i] \in ValidEvents
  OBVIOUS
<1> DEFINE S == {i \in 0 .. Len(events) : SameContacts(f[i], g[i])}
<1>4. 0 \in S
  BY <1>1, <1>2, <1>3 DEF IsRunOf
<1>5. \A i \in 1 .. Len(events) : i - 1 \in S => i \in S
  <2> SUFFICES ASSUME NEW i \in 1 .. Len(events), i - 1 \in S
               PROVE  SameContacts(f[i], g[i])
    BY <1>3
  <2>1. i - 1 \in 0 .. Len(events) /\ events[i] \in ValidEvents
    BY <1>3
  <2>2. f[i - 1] \in Pads /\ g[i - 1] \in Pads /\ SameContacts(f[i - 1], g[i - 1])
    BY <1>1, <1>2, <2>1 DEF IsRunOf
  <2>3. f[i] = ApplyEvent(f[i - 1], events[i]) /\ g[i] = ApplyEvent(g[i - 1], events[i])
    BY <1>1, <1>2 DEF IsRunOf
  <2> HIDE DEF S
  <2> QED BY <2>1, <2>2, <2>3, ApplyEventAgrees
<1>6. 0 .. Len(events) \subseteq S
  <2> HIDE DEF S
  <2> QED BY <1>3, <1>4, <1>5, RangeInduction
<1>7. Len(events) \in S
  <2> HIDE DEF S
  <2> QED BY <1>3, <1>6
<1> QED BY <1>1, <1>2, <1>7

-----------------------------------------------------------------------------
(***************************************************************************)
(* Applying one frame after another is applying their concatenation.       *)
(***************************************************************************)
LEMMA ApplyEventsConcat ==
  ASSUME NEW pad \in Pads, NEW a \in Seq(ValidEvents), NEW b \in Seq(ValidEvents)
  PROVE  ApplyEvents(pad, a \o b) = ApplyEvents(ApplyEvents(pad, a), b)
<1> DEFINE ab == a \o b
<1> DEFINE mid == ApplyEvents(pad, a)
<1>1. /\ ab \in Seq(ValidEvents) /\ Len(ab) = Len(a) + Len(b)
      /\ Len(a) \in Nat /\ Len(b) \in Nat
      /\ \A i \in 1 .. Len(a) : ab[i] = a[i]
      /\ \A i \in 1 .. Len(b) : ab[Len(a) + i] = b[i]
  OBVIOUS
<1>2. mid \in Pads
  BY ApplyEventsType
<1> HIDE DEF ab, mid
<1>3. PICK f : IsRunOf(f, pad, ab) /\ ApplyEvents(pad, ab) = f[Len(ab)]
  BY <1>1, ApplyEventsRun
<1>4. PICK g : IsRunOf(g, pad, a) /\ mid = g[Len(a)]
  BY ApplyEventsRun DEF mid
<1>5. PICK h : IsRunOf(h, mid, b) /\ ApplyEvents(mid, b) = h[Len(b)]
  BY <1>2, ApplyEventsRun
<1>6. f[Len(a)] = g[Len(a)]
  <2> DEFINE S == {i \in 0 .. Len(a) : f[i] = g[i]}
  <2>1. 0 \in S
    BY <1>1, <1>3, <1>4 DEF IsRunOf
  <2>2. \A i \in 1 .. Len(a) : i - 1 \in S => i \in S
    BY <1>1, <1>3, <1>4 DEF IsRunOf
  <2>3. Len(a) \in S
    <3> HIDE DEF S
    <3>1. Len(a) \in Nat
      BY <1>1
    <3>2. 0 .. Len(a) \subseteq S
      BY <3>1, <2>1, <2>2, RangeInduction
    <3> QED BY <3>1, <3>2
  <2> QED BY <2>3
<1>7. f[Len(a) + Len(b)] = h[Len(b)]
  <2> DEFINE S == {i \in 0 .. Len(b) : f[Len(a) + i] = h[i]}
  <2>1. 0 \in S
    BY <1>1, <1>4, <1>5, <1>6 DEF IsRunOf
  <2>2. \A i \in 1 .. Len(b) : i - 1 \in S => i \in S
    <3> SUFFICES ASSUME NEW i \in 1 .. Len(b), i - 1 \in S
                 PROVE  i \in S
      OBVIOUS
    <3>1. Len(a) + i \in 1 .. Len(ab) /\ Len(a) + i - 1 = Len(a) + (i - 1)
      BY <1>1
    <3>2. f[Len(a) + i] = ApplyEvent(f[Len(a) + i - 1], ab[Len(a) + i])
      BY <1>3, <3>1 DEF IsRunOf
    <3>3. h[i] = ApplyEvent(h[i - 1], b[i])
      BY <1>5 DEF IsRunOf
    <3>4. f[Len(a) + (i - 1)] = h[i - 1]
      OBVIOUS
    <3>5. i \in 0 .. Len(b)
      BY <1>1
    <3> QED BY <1>1, <3>1, <3>2, <3>3, <3>4, <3>5
  <2>3. Len(b) \in S
    <3> HIDE DEF S
    <3>1. Len(b) \in Nat
      BY <1>1
    <3>2. 0 .. Len(b) \subseteq S
      BY <3>1, <2>1, <2>2, RangeInduction
    <3> QED BY <3>1, <3>2
  <2> QED BY <2>3
<1> QED BY <1>1, <1>3, <1>5, <1>7 DEF ab, mid

(***************************************************************************)
(* One event is one application, and none is none.                         *)
(***************************************************************************)
LEMMA ApplyOne ==
  ASSUME NEW pad \in Pads, NEW e \in ValidEvents
  PROVE  ApplyEvents(pad, <<e>>) = ApplyEvent(pad, e)
<1>1. <<e>> \in Seq(ValidEvents) /\ Len(<<e>>) = 1 /\ <<e>>[1] = e
  OBVIOUS
<1>2. PICK f : IsRunOf(f, pad, <<e>>) /\ ApplyEvents(pad, <<e>>) = f[Len(<<e>>)]
  BY <1>1, ApplyEventsRun
<1>3. f[0] = pad /\ f[1] = ApplyEvent(f[1 - 1], <<e>>[1])
  BY <1>1, <1>2 DEF IsRunOf
<1> QED BY <1>1, <1>2, <1>3

LEMMA ApplyNone ==
  ASSUME NEW pad \in Pads
  PROVE  ApplyEvents(pad, << >>) = pad
<1>1. << >> \in Seq(ValidEvents) /\ Len(<< >>) = 0
  OBVIOUS
<1>2. PICK f : IsRunOf(f, pad, << >>) /\ ApplyEvents(pad, << >>) = f[Len(<< >>)]
  BY <1>1, ApplyEventsRun
<1> QED BY <1>1, <1>2 DEF IsRunOf

LEMMA ApplyEventsAppend ==
  ASSUME NEW pad \in Pads, NEW events \in Seq(ValidEvents), NEW e \in ValidEvents
  PROVE  ApplyEvents(pad, Append(events, e)) = ApplyEvent(ApplyEvents(pad, events), e)
<1> DEFINE last == <<e>>
           mid == ApplyEvents(pad, events)
<1>1. last \in Seq(ValidEvents) /\ Append(events, e) = events \o last
  OBVIOUS
<1>2. mid \in Pads
  BY ApplyEventsType
<1>3. ApplyEvents(mid, last) = ApplyEvent(mid, e)
  <2> HIDE DEF mid
  <2> QED BY <1>2, ApplyOne
<1> HIDE DEF last
<1>4. ApplyEvents(pad, events \o last) = ApplyEvents(mid, last)
  BY <1>1, ApplyEventsConcat
<1> QED BY <1>1, <1>3, <1>4

-----------------------------------------------------------------------------
(***************************************************************************)
(* The reconciliation of one slot: it names the slot, so it can be applied *)
(* wherever the consumer is, and it leaves the slot with the refreshed     *)
(* tracking id, every other slot and BTN_TOUCH as they were.               *)
(***************************************************************************)
LEMMA SlotReconciliationType ==
  ASSUME NEW slot \in Slots, NEW old \in SlotStates, NEW new \in SlotStates, NEW kind
  PROVE  SlotReconciliation(slot, old, new, kind) \in Seq(ValidEvents)
<1>1. /\ Event("SLOT", slot) \in ValidEvents
      /\ Event("ID", Inactive) \in ValidEvents
      /\ Event("ID", new.id) \in ValidEvents
      /\ Event("X", new.x) \in ValidEvents
      /\ Event("Y", new.y) \in ValidEvents
  BY NSlotsAssumption
    DEF Event, ValidEvents, Events, SlotEvents, IdEvents, PositionEvents, KeyEvents,
        Slots, SlotStates, TrackingIds, Inactive
<1> DEFINE a == <<Event("SLOT", slot)>>
           b == <<Event("ID", Inactive)>>
           c == <<Event("ID", new.id)>>
           d == <<Event("X", new.x), Event("Y", new.y)>>
<1>2. /\ << >> \in Seq(ValidEvents) /\ a \in Seq(ValidEvents) /\ b \in Seq(ValidEvents)
      /\ c \in Seq(ValidEvents) /\ d \in Seq(ValidEvents)
  BY <1>1
<1> HIDE DEF a, b, c, d
<1>3. \A p, q, r, s \in Seq(ValidEvents) : p \o q \o r \o s \in Seq(ValidEvents)
  OBVIOUS
<1> QED BY <1>2, <1>3 DEF SlotReconciliation, a, b, c, d

LEMMA PairOfEvents ==
  ASSUME NEW u \in ValidEvents, NEW v \in ValidEvents
  PROVE  <<u, v>> = <<u>> \o <<v>>
<1> DEFINE p == <<u>>
           q == <<v>>
           pair == <<u, v>>
<1>1. /\ p \in Seq(ValidEvents) /\ q \in Seq(ValidEvents) /\ pair \in Seq(ValidEvents)
      /\ Len(p) = 1 /\ p[1] = u
      /\ Len(q) = 1 /\ q[1] = v
      /\ Len(pair) = 2 /\ pair[1] = u /\ pair[2] = v
  OBVIOUS
<1> HIDE DEF p, q, pair
<1> DEFINE r == p \o q
<1>2. r \in Seq(ValidEvents) /\ Len(r) = 2 /\ r[1] = u /\ r[2] = v
  <2>1. /\ r \in Seq(ValidEvents) /\ Len(r) = 1 + 1
        /\ \A i \in 1 .. 1 + 1 : r[i] = IF i <= 1 THEN p[i] ELSE q[i - 1]
    BY <1>1, ConcatProperties
  <2>2. 1 \in 1 .. 2 /\ 2 \in 1 .. 2 /\ 1 + 1 = 2 /\ 2 - 1 = 1
    OBVIOUS
  <2>3. \A i \in 1 .. 2 : r[i] = IF i <= 1 THEN p[i] ELSE q[i - 1]
    BY <2>1, <2>2
  <2> HIDE DEF r
  <2>4. r[1] = p[1] /\ r[2] = q[2 - 1]
    BY <2>2, <2>3
  <2> QED BY <1>1, <2>1, <2>2, <2>4
<1> HIDE DEF r
<1>3. \A i \in 1 .. Len(r) : r[i] = pair[i]
  BY <1>1, <1>2
<1>4. r = pair
  BY <1>1, <1>2, <1>3, SeqEqual
<1> QED BY <1>4 DEF p, q, pair, r

LEMMA SlotReconciliationEffect ==
  ASSUME NEW pad \in Pads, NEW slot \in Slots, NEW old \in SlotStates,
         NEW new \in SlotStates, NEW kind, pad.slots[slot].id = old.id
  PROVE  LET after == ApplyEvents(pad, SlotReconciliation(slot, old, new, kind))
         IN  /\ after \in Pads
             /\ after.touch = pad.touch
             /\ after.slots[slot].id = new.id
             /\ \A s \in Slots \ {slot} : after.slots[s].id = pad.slots[s].id
<1> DEFINE changed == old.id # new.id
           rebuild == new.id # Inactive /\ (changed \/ kind = "LostSynchronization")
           a == IF changed \/ rebuild THEN <<Event("SLOT", slot)>> ELSE << >>
           b == IF changed /\ old.id # Inactive THEN <<Event("ID", Inactive)>> ELSE << >>
           c == IF changed /\ new.id # Inactive THEN <<Event("ID", new.id)>> ELSE << >>
           x == IF rebuild THEN <<Event("X", new.x)>> ELSE << >>
           y == IF rebuild THEN <<Event("Y", new.y)>> ELSE << >>
<1>1. /\ Event("SLOT", slot) \in ValidEvents
      /\ Event("ID", Inactive) \in ValidEvents
      /\ Event("ID", new.id) \in ValidEvents
      /\ Event("X", new.x) \in ValidEvents
      /\ Event("Y", new.y) \in ValidEvents
  BY NSlotsAssumption
    DEF Event, ValidEvents, Events, SlotEvents, IdEvents, PositionEvents, KeyEvents,
        Slots, SlotStates, TrackingIds, Inactive
<1>2. /\ a \in Seq(ValidEvents) /\ b \in Seq(ValidEvents) /\ c \in Seq(ValidEvents)
      /\ x \in Seq(ValidEvents) /\ y \in Seq(ValidEvents)
  BY <1>1
<1>3. SlotReconciliation(slot, old, new, kind) = (((a \o b) \o c) \o x) \o y
  <2> DEFINE xy == IF rebuild THEN <<Event("X", new.x), Event("Y", new.y)>> ELSE << >>
             abc == (a \o b) \o c
  <2>1. xy = x \o y
    <3>1. \A u, v \in ValidEvents : <<u, v>> = <<u>> \o <<v>>
      BY PairOfEvents
    <3>2. << >> \o << >> = << >>
      OBVIOUS
    <3> QED BY <1>1, <3>1, <3>2
  <2>2. SlotReconciliation(slot, old, new, kind) = abc \o xy
    BY DEF SlotReconciliation
  <2> HIDE DEF a, b, c, x, y, xy
  <2>3. abc \in Seq(ValidEvents)
    BY <1>2
  <2> HIDE DEF abc
  <2>4. abc \o (x \o y) = (abc \o x) \o y
    BY <1>2, <2>3
  <2> QED BY <2>1, <2>2, <2>4 DEF abc
<1> DEFINE p1 == ApplyEvents(pad, a)
           p2 == ApplyEvents(p1, b)
           p3 == ApplyEvents(p2, c)
           p4 == ApplyEvents(p3, x)
           p5 == ApplyEvents(p4, y)
<1>4. p1 \in Pads /\ p2 \in Pads /\ p3 \in Pads /\ p4 \in Pads /\ p5 \in Pads
  <2> HIDE DEF a, b, c, x, y
  <2> QED BY <1>2, ApplyEventsType
<1>5. /\ p1 = ApplyEvents(pad, a) /\ p2 = ApplyEvents(p1, b) /\ p3 = ApplyEvents(p2, c)
      /\ p4 = ApplyEvents(p3, x) /\ p5 = ApplyEvents(p4, y)
  OBVIOUS
<1> HIDE DEF p1, p2, p3, p4, p5
<1>6. ApplyEvents(pad, SlotReconciliation(slot, old, new, kind)) = p5
  <2> HIDE DEF a, b, c, x, y
  <2> DEFINE ab == a \o b
             abc == ab \o c
             abcx == abc \o x
  <2>1. ab \in Seq(ValidEvents) /\ abc \in Seq(ValidEvents) /\ abcx \in Seq(ValidEvents)
    BY <1>2
  <2>2. ApplyEvents(pad, ab) = p2
    BY <1>2, <1>5, ApplyEventsConcat
  <2>3. ApplyEvents(pad, abc) = p3
    <3> HIDE DEF ab
    <3> QED BY <1>2, <1>5, <2>1, <2>2, ApplyEventsConcat
  <2>4. ApplyEvents(pad, abcx) = p4
    <3> HIDE DEF abc
    <3> QED BY <1>2, <1>5, <2>1, <2>3, ApplyEventsConcat
  <2>5. ApplyEvents(pad, abcx \o y) = p5
    <3> HIDE DEF abcx
    <3> QED BY <1>2, <1>5, <2>1, <2>4, ApplyEventsConcat
  <2> QED BY <1>3, <2>5
<1> HIDE DEF changed, rebuild
<1>7. /\ p1 = IF changed \/ rebuild THEN ApplyEvent(pad, Event("SLOT", slot)) ELSE pad
      /\ p2 = IF changed /\ old.id # Inactive THEN ApplyEvent(p1, Event("ID", Inactive)) ELSE p1
      /\ p3 = IF changed /\ new.id # Inactive THEN ApplyEvent(p2, Event("ID", new.id)) ELSE p2
      /\ p4 = IF rebuild THEN ApplyEvent(p3, Event("X", new.x)) ELSE p3
      /\ p5 = IF rebuild THEN ApplyEvent(p4, Event("Y", new.y)) ELSE p4
  BY <1>1, <1>4, <1>5, ApplyOne, ApplyNone
<1> HIDE DEF a, b, c, x, y
<1>8. /\ p1.touch = pad.touch /\ p1.slots = pad.slots
      /\ changed => p1.cur = slot
  BY <1>7 DEF ApplyEvent, Event, Pads
<1>9. ASSUME NEW p \in Pads, NEW v, p.cur = slot
      PROVE  LET q == ApplyEvent(p, Event("ID", v))
             IN  /\ q.touch = p.touch /\ q.cur = slot
                 /\ q.slots[slot].id = v
                 /\ \A s \in Slots \ {slot} : q.slots[s] = p.slots[s]
  BY <1>9 DEF ApplyEvent, Event, Pads, SlotStates
<1>10. CASE ~changed
  <2>1. p3 = p1 /\ old.id = new.id
    BY <1>7, <1>10 DEF changed
  <2>2. SameContacts(p5, p3)
    BY <1>4, <1>7, PositionsKeepContacts DEF Event, SameContacts
  <2> QED BY <1>4, <1>6, <1>8, <2>1, <2>2 DEF SameContacts
<1>11. CASE changed
  <2>1. /\ p2.touch = pad.touch /\ p2.cur = slot
        /\ \A s \in Slots \ {slot} : p2.slots[s] = pad.slots[s]
        /\ old.id = Inactive => p2.slots[slot].id = Inactive
    BY <1>4, <1>7, <1>8, <1>9, <1>11
  <2>2. new.id = Inactive => old.id # Inactive
    BY <1>11 DEF changed
  <2>3. p2.slots[slot].id = Inactive
    BY <1>4, <1>7, <1>8, <1>9, <1>11, <2>1
  <2>4. /\ p3.touch = pad.touch
        /\ \A s \in Slots \ {slot} : p3.slots[s] = pad.slots[s]
        /\ p3.slots[slot].id = new.id
    BY <1>4, <1>7, <1>9, <1>11, <2>1, <2>3
  <2>5. SameContacts(p5, p3)
    BY <1>4, <1>7, PositionsKeepContacts DEF Event, SameContacts
  <2> QED BY <1>4, <1>6, <2>4, <2>5 DEF SameContacts
<1> QED BY <1>10, <1>11

(***************************************************************************)
(* What the recursive definition of reconciliation_events comes to.        *)
(***************************************************************************)
WithSlotEvents(events, n, p, q, kind) ==
  events \o SlotReconciliation(n - 1, p.slots[n - 1], q.slots[n - 1], kind)

SlotEventsUpTo(below, p, q, kind) ==
  /\ below \in [0 .. NSlots -> Seq(ValidEvents)]
  /\ below[0] = << >>
  /\ \A n \in 1 .. NSlots :
       below[n] = WithSlotEvents(below[n - 1], n, p, q, kind)

TouchReconciliation(p, q) ==
  IF p.touch = q.touch THEN << >> ELSE <<Event("TOUCH", q.touch)>>

LEMMA ReconciliationRun ==
  ASSUME NEW p \in Pads, NEW q \in Pads, NEW kind
  PROVE  \E below : /\ SlotEventsUpTo(below, p, q, kind)
                    /\ ReconciliationEvents(p, q, kind) =
                         below[NSlots] \o TouchReconciliation(p, q) \o <<Event("SLOT", q.cur)>>
<1> DEFINE step == [x \in (1 .. NSlots) \X Seq(ValidEvents) |->
                 WithSlotEvents(x[2], x[1], p, q, kind)]
<1> DEFINE Rec(g) ==
      g = [n \in 0 .. NSlots |-> IF n = 0 THEN << >> ELSE WithSlotEvents(g[n - 1], n, p, q, kind)]
<1> DEFINE below == CHOOSE g : Rec(g)
<1>1. NSlots \in Nat /\ \A n \in 1 .. NSlots : n - 1 \in Slots
  BY NSlotsAssumption DEF Slots
<1>2. \A n \in 1 .. NSlots, events \in Seq(ValidEvents) :
        WithSlotEvents(events, n, p, q, kind) \in Seq(ValidEvents)
  <2> TAKE n \in 1 .. NSlots, events \in Seq(ValidEvents)
  <2> DEFINE slot == SlotReconciliation(n - 1, p.slots[n - 1], q.slots[n - 1], kind)
  <2>1. slot \in Seq(ValidEvents)
    BY <1>1, SlotReconciliationType DEF Pads
  <2> HIDE DEF slot
  <2>2. events \o slot \in Seq(ValidEvents)
    BY <2>1
  <2> QED BY <2>2 DEF WithSlotEvents, slot
<1>3. step \in [(1 .. NSlots) \X Seq(ValidEvents) -> Seq(ValidEvents)]
  BY <1>2
<1>4. << >> \in Seq(ValidEvents)
  OBVIOUS
<1>5. PICK f \in [0 .. NSlots -> Seq(ValidEvents)] : IsRun(f, NSlots, << >>, step)
  <2> HIDE DEF step
  <2> QED BY <1>1, <1>3, <1>4, RecursionExists
<1>6. f[0] = << >>
  <2> HIDE DEF step
  <2> QED BY <1>5 DEF IsRun
<1>7. ASSUME NEW n \in 1 .. NSlots
      PROVE  f[n] = WithSlotEvents(f[n - 1], n, p, q, kind)
  <2> DEFINE x == <<n, f[n - 1]>>
  <2>1. x \in (1 .. NSlots) \X Seq(ValidEvents)
    <3>1. n - 1 \in 0 .. NSlots
      BY <1>1
    <3> QED BY <3>1
  <2>2. f[n] = step[x]
    <3> HIDE DEF step
    <3> QED BY <1>5 DEF IsRun
  <2>3. step[x] = WithSlotEvents(x[2], x[1], p, q, kind)
    <3> HIDE DEF x
    <3> QED BY <2>1
  <2> QED BY <2>2, <2>3
<1> HIDE DEF step
<1>8. Rec(below)
  <2>1. Rec(f)
    BY <1>1, <1>5, <1>6, <1>7
  <2> HIDE DEF Rec
  <2> QED BY <2>1
<1>9. ReconciliationEvents(p, q, kind) =
        below[NSlots] \o TouchReconciliation(p, q) \o <<Event("SLOT", q.cur)>>
  BY DEF ReconciliationEvents, WithSlotEvents, TouchReconciliation
<1> HIDE DEF below
<1>10. below[0] = << >> /\ \A n \in 1 .. NSlots : below[n] = WithSlotEvents(below[n - 1], n, p, q, kind)
  <2>1. below = [n \in 0 .. NSlots |-> IF n = 0 THEN << >>
                   ELSE WithSlotEvents(below[n - 1], n, p, q, kind)]
    BY <1>8
  <2>2. \A n \in 0 .. NSlots : below[n] = IF n = 0 THEN << >>
                   ELSE WithSlotEvents(below[n - 1], n, p, q, kind)
    BY ONLY <2>1
  <2>3. 0 \in 0 .. NSlots /\ \A n \in 1 .. NSlots : n \in 0 .. NSlots /\ n # 0
    BY <1>1
  <2> QED BY <2>2, <2>3
<1>11. \A n \in 0 .. NSlots : below[n] = f[n]
  <2> DEFINE S == {n \in 0 .. NSlots : below[n] = f[n]}
  <2>1. 0 \in S
    BY <1>1, <1>6, <1>10
  <2>2. \A n \in 1 .. NSlots : n - 1 \in S => n \in S
    <3> SUFFICES ASSUME NEW n \in 1 .. NSlots, below[n - 1] = f[n - 1]
                 PROVE  below[n] = f[n]
      BY <1>1
    <3>1. f[n] = WithSlotEvents(f[n - 1], n, p, q, kind) /\ below[n] = WithSlotEvents(below[n - 1], n, p, q, kind)
      BY <1>7, <1>10
    <3> QED BY <3>1
  <2>3. 0 .. NSlots \subseteq S
    <3> HIDE DEF S
    <3> QED BY <1>1, <2>1, <2>2, RangeInduction
  <2> QED BY <2>3
<1>12. SlotEventsUpTo(f, p, q, kind)
  BY <1>5, <1>6, <1>7 DEF SlotEventsUpTo
<1>13. NSlots \in 0 .. NSlots
  BY <1>1
<1> QED BY <1>9, <1>11, <1>12, <1>13

(***************************************************************************)
(* reconciliation_events (evdev.rs) does what it is for: a consumer that   *)
(* applies it to the previous state holds the refreshed contacts, selected *)
(* slot and BTN_TOUCH, whatever happened in between.                       *)
(***************************************************************************)
LEMMA ReconciliationType ==
  ASSUME NEW p \in Pads, NEW q \in Pads, NEW kind
  PROVE  ReconciliationEvents(p, q, kind) \in Seq(ValidEvents)
<1>1. PICK below : /\ SlotEventsUpTo(below, p, q, kind)
                   /\ ReconciliationEvents(p, q, kind) =
                        below[NSlots] \o TouchReconciliation(p, q) \o <<Event("SLOT", q.cur)>>
  BY ReconciliationRun
<1>2. below[NSlots] \in Seq(ValidEvents)
  <2>1. NSlots \in 0 .. NSlots
    BY NSlotsAssumption
  <2> QED BY <1>1, <2>1 DEF SlotEventsUpTo
<1>3. Event("SLOT", q.cur) \in ValidEvents /\ Event("TOUCH", q.touch) \in ValidEvents
  BY NSlotsAssumption
    DEF Event, ValidEvents, Events, SlotEvents, IdEvents, PositionEvents, KeyEvents, Slots, Pads
<1>4. TouchReconciliation(p, q) \in Seq(ValidEvents) /\ <<Event("SLOT", q.cur)>> \in Seq(ValidEvents)
  BY <1>3 DEF TouchReconciliation
<1> HIDE DEF TouchReconciliation
<1>5. \A a, b, c \in Seq(ValidEvents) : a \o b \o c \in Seq(ValidEvents)
  OBVIOUS
<1> QED BY <1>1, <1>2, <1>4, <1>5

LEMMA ReconciliationEffect ==
  ASSUME NEW p \in Pads, NEW q \in Pads, NEW kind
  PROVE  SameContacts(ApplyEvents(p, ReconciliationEvents(p, q, kind)), q)
<1>1. PICK below : /\ SlotEventsUpTo(below, p, q, kind)
                   /\ ReconciliationEvents(p, q, kind) =
                        below[NSlots] \o TouchReconciliation(p, q) \o <<Event("SLOT", q.cur)>>
  BY ReconciliationRun
<1> DEFINE Done(n) == ApplyEvents(p, below[n])
<1> DEFINE S == {n \in 0 .. NSlots :
                   /\ Done(n) \in Pads
                   /\ Done(n).touch = p.touch
                   /\ \A s \in Slots :
                        Done(n).slots[s].id = IF s < n THEN q.slots[s].id ELSE p.slots[s].id}
<1>2. NSlots \in Nat /\ \A s \in Slots : s \in Nat /\ s < NSlots
  BY NSlotsAssumption DEF Slots
<1>3. 0 \in S
  <2>1. Done(0) = p
    BY <1>1, ApplyNone DEF SlotEventsUpTo
  <2> HIDE DEF Done
  <2> QED BY <1>2, <2>1
<1>4. \A n \in 1 .. NSlots : n - 1 \in S => n \in S
  <2> SUFFICES ASSUME NEW n \in 1 .. NSlots, n - 1 \in S
               PROVE  /\ Done(n) \in Pads
                      /\ Done(n).touch = p.touch
                      /\ \A s \in Slots :
                           Done(n).slots[s].id = IF s < n THEN q.slots[s].id ELSE p.slots[s].id
    BY <1>2
  <2> DEFINE slot == n - 1
             events == SlotReconciliation(slot, p.slots[slot], q.slots[slot], kind)
             d == Done(slot)
  <2>1. slot \in Slots /\ slot \in 0 .. NSlots
    BY <1>2 DEF Slots
  <2>2. /\ d \in Pads /\ d.touch = p.touch
        /\ \A s \in Slots : d.slots[s].id = IF s < slot THEN q.slots[s].id ELSE p.slots[s].id
    OBVIOUS
  <2>3. p.slots[slot] \in SlotStates /\ q.slots[slot] \in SlotStates
    BY <2>1 DEF Pads
  <2>4. events \in Seq(ValidEvents) /\ below[slot] \in Seq(ValidEvents)
    <3>1. events \in Seq(ValidEvents)
      BY <2>1, <2>3, SlotReconciliationType
    <3> QED BY <1>1, <2>1, <3>1 DEF SlotEventsUpTo
  <2>5. below[n] = below[slot] \o events
    BY <1>1 DEF SlotEventsUpTo, WithSlotEvents
  <2>6. Done(n) = ApplyEvents(d, events)
    <3> HIDE DEF events
    <3> QED BY <2>4, <2>5, ApplyEventsConcat
  <2>7. d.slots[slot].id = p.slots[slot].id
    BY <1>2, <2>1, <2>2
  <2> HIDE DEF d, S
  <2>8. /\ Done(n) \in Pads /\ Done(n).touch = d.touch
        /\ Done(n).slots[slot].id = q.slots[slot].id
        /\ \A s \in Slots \ {slot} : Done(n).slots[s].id = d.slots[s].id
    BY <2>1, <2>2, <2>3, <2>6, <2>7, SlotReconciliationEffect
  <2> HIDE DEF Done
  <2>9. \A s \in Slots : (s < n) <=> (s < slot \/ s = slot)
    BY <1>2
  <2> QED BY <1>2, <2>1, <2>2, <2>8, <2>9
<1>5. 0 .. NSlots \subseteq S
  <2> HIDE DEF S
  <2> QED BY <1>2, <1>3, <1>4, RangeInduction
<1> DEFINE d == Done(NSlots)
           touch == TouchReconciliation(p, q)
           select == <<Event("SLOT", q.cur)>>
<1>6. below[NSlots] \in Seq(ValidEvents)
  <2>1. NSlots \in 0 .. NSlots
    BY <1>2
  <2> QED BY <1>1, <2>1 DEF SlotEventsUpTo
<1>7. d \in Pads /\ d.touch = p.touch /\ \A s \in Slots : d.slots[s].id = q.slots[s].id
  <2>1. NSlots \in S
    <3> HIDE DEF S
    <3> QED BY <1>2, <1>5
  <2> QED BY <1>2, <2>1
<1>8. Event("SLOT", q.cur) \in ValidEvents /\ Event("TOUCH", q.touch) \in ValidEvents
  BY NSlotsAssumption
    DEF Event, ValidEvents, Events, SlotEvents, IdEvents, PositionEvents, KeyEvents, Slots, Pads
<1>9. touch \in Seq(ValidEvents) /\ select \in Seq(ValidEvents)
  BY <1>8 DEF TouchReconciliation
<1> DEFINE e == ApplyEvents(d, touch)
           f == ApplyEvents(e, select)
<1>10. ApplyEvents(p, ReconciliationEvents(p, q, kind)) = f
  <2> HIDE DEF touch, select
  <2> DEFINE both == below[NSlots] \o touch
  <2>1. both \in Seq(ValidEvents) /\ ApplyEvents(p, both) = e
    BY <1>6, <1>9, ApplyEventsConcat
  <2>2. ApplyEvents(p, both \o select) = f
    <3> HIDE DEF both
    <3> QED BY <1>9, <2>1, ApplyEventsConcat
  <2> QED BY <1>1, <2>2 DEF touch, select
<1> HIDE DEF d, S, Done
<1>11. e \in Pads /\ e.touch = q.touch /\ \A s \in Slots : e.slots[s].id = q.slots[s].id
  <2>1. CASE p.touch = q.touch
    <3>1. e = d
      BY <1>7, <2>1, ApplyNone DEF TouchReconciliation
    <3> QED BY <1>7, <2>1, <3>1
  <2>2. CASE p.touch # q.touch
    <3>1. e = ApplyEvent(d, Event("TOUCH", q.touch))
      BY <1>7, <1>8, <2>2, ApplyOne DEF TouchReconciliation
    <3>2. e \in Pads
      BY <1>7, <1>8, <3>1, ApplyEventType
    <3>3. e.touch = q.touch /\ e.slots = d.slots
      BY <1>7, <3>1 DEF ApplyEvent, Event, Pads
    <3> QED BY <1>7, <3>2, <3>3
  <2> QED BY <2>1, <2>2
<1> HIDE DEF e
<1>12. f = ApplyEvent(e, Event("SLOT", q.cur))
  BY <1>8, <1>11, ApplyOne
<1> HIDE DEF f
<1>13. f.cur = q.cur /\ f.touch = e.touch /\ f.slots = e.slots
  BY <1>11, <1>12 DEF ApplyEvent, Event, Pads
<1> QED BY <1>10, <1>11, <1>13 DEF SameContacts
=============================================================================
