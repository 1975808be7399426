-------------------------- MODULE FrameProxy_proofs --------------------------
(***************************************************************************)
(* Type correctness of the proxy pipeline, and the agreement of the three  *)
(* copies of the protocol state it keeps, for every number of slots, every *)
(* geometry, every buffer and batch size and every fault the pad shows.    *)
(* PadCopy is implemented, and a capture holds its contact and no other.   *)
(***************************************************************************)
EXTENDS FrameProxy, KernelPad_proofs

(***************************************************************************)
(* Routing: the router's copy of slot and identities and the virtual pad   *)
(* move in lockstep, and the contacts of the virtual pad change as the     *)
(* frame says whatever is suppressed (router.rs route_frame).              *)
(***************************************************************************)
LockStep(routed) == routed.vpad \in Pads /\ routed.router = RouterOf(routed.vpad)
RoutedPads == {[router |-> RouterOf(v), vpad |-> v] : v \in Pads}

LEMMA RoutedPadsType ==
  ASSUME NEW routed \in RoutedPads
  PROVE  routed.vpad \in Pads /\ routed.router = RouterOf(routed.vpad)
BY DEF RoutedPads

LEMMA RouteEventLockStep ==
  ASSUME NEW routed \in RoutedPads, NEW capture, NEW e \in ValidEvents
  PROVE  /\ RouteEvent(routed, capture, e) \in RoutedPads
         /\ SameContacts(RouteEvent(routed, capture, e).vpad, ApplyEvent(routed.vpad, e))
<1> DEFINE v == routed.vpad
           w == ApplyEvent(v, e)
           r == TrackEvent(routed.router, e)
           to == RouteEvent(routed, capture, e)
<1>1. v \in Pads /\ routed.router = RouterOf(v)
  BY DEF RoutedPads
<1>2. w \in Pads
  BY <1>1, ApplyEventType
<1>3. r = RouterOf(w)
  <2>1. CASE e.type = "SLOT"
    <3>1. w.cur = e.value /\ w.slots = v.slots
      BY <1>1, <2>1 DEF ApplyEvent, ValidEvents, Pads
    <3>2. r = [routed.router EXCEPT !.cur = e.value]
      BY <2>1 DEF TrackEvent
    <3> QED BY <1>1, <3>1, <3>2 DEF RouterOf
  <2>2. CASE e.type = "ID"
    <3>1. /\ w.cur = v.cur
          /\ \A s \in Slots : w.slots[s].id = IF s = v.cur THEN e.value ELSE v.slots[s].id
      BY <1>1, <2>2 DEF ApplyEvent, Pads, SlotStates
    <3>2. r = [routed.router EXCEPT !.ids[v.cur] = e.value]
      BY <1>1, <2>2 DEF TrackEvent, RouterOf
    <3>3. r.cur = w.cur /\ r.ids = [s \in Slots |-> w.slots[s].id]
      BY <1>1, <3>1, <3>2 DEF RouterOf, Pads
    <3>4. r = [cur |-> r.cur, ids |-> r.ids]
      BY <1>1, <3>2 DEF RouterOf
    <3> QED BY <3>3, <3>4 DEF RouterOf
  <2>3. CASE e.type \notin {"SLOT", "ID"}
    <3>1. w.cur = v.cur /\ \A s \in Slots : w.slots[s].id = v.slots[s].id
      BY <1>1, <2>3 DEF ApplyEvent, Pads, SlotStates, ValidEvents, Events, SlotEvents,
                        IdEvents, PositionEvents, KeyEvents
    <3>2. r = routed.router
      BY <2>3 DEF TrackEvent
    <3> QED BY <1>1, <3>1, <3>2 DEF RouterOf
  <2> QED BY <2>1, <2>2, <2>3
<1> DEFINE held == SuppressPosition(r, capture, e)
<1>4. to = [router |-> r, vpad |-> IF held THEN v ELSE w]
  BY DEF RouteEvent
<1>5. held => SameContacts(v, w) /\ r = RouterOf(v)
  <2>1. held => e.type \in {"X", "Y"}
    BY DEF SuppressPosition
  <2>2. held => SameContacts(w, v)
    BY <1>1, <2>1, PositionsKeepContacts
  <2> QED BY <1>3, <2>2 DEF SameContacts, RouterOf
<1> HIDE DEF held, r, w, v, to
<1>6. to.vpad = IF held THEN v ELSE w
  BY <1>4
<1>7. to \in RoutedPads
  BY <1>1, <1>2, <1>3, <1>4, <1>5 DEF RoutedPads
<1>8. SameContacts(to.vpad, w)
  BY <1>5, <1>6 DEF SameContacts
<1> QED BY <1>7, <1>8 DEF to, w, v

\* What the recursive definition of RouteFrame comes to.
IsRouting(run, routed, capture, events) ==
  /\ run \in [0 .. Len(events) -> RoutedPads]
  /\ run[0] = routed
  /\ \A i \in 1 .. Len(events) : run[i] = RouteEvent(run[i - 1], capture, events[i])

LEMMA RouteFrameRun ==
  ASSUME NEW v \in Pads, NEW capture, NEW events \in Seq(ValidEvents)
  PROVE  \E run : /\ IsRouting(run, [router |-> RouterOf(v), vpad |-> v], capture, events)
                  /\ RouteFrame(RouterOf(v), v, capture, events) = run[Len(events)]
<1> DEFINE n == Len(events)
           base == [router |-> RouterOf(v), vpad |-> v]
           Rec(g) == g = [i \in 0 .. n |->
                            IF i = 0 THEN base ELSE RouteEvent(g[i - 1], capture, events[i])]
           after == CHOOSE g : Rec(g)
           step == [x \in (1 .. n) \X RoutedPads |-> RouteEvent(x[2], capture, events[x[1]])]
<1>1. n \in Nat /\ \A i \in 1 .. n : events[i] \in ValidEvents
  OBVIOUS
<1>2. base \in RoutedPads
  BY DEF RoutedPads
<1>3. RouteFrame(RouterOf(v), v, capture, events) = after[n]
  BY DEF RouteFrame
<1> HIDE DEF n, base
<1>4. step \in [(1 .. n) \X RoutedPads -> RoutedPads]
  BY <1>1, RouteEventLockStep
<1>5. PICK f \in [0 .. n -> RoutedPads] : IsRun(f, n, base, step)
  <2> HIDE DEF step
  <2> QED BY <1>1, <1>2, <1>4, RecursionExists
<1>6. f[0] = base
  <2> HIDE DEF step
  <2> QED BY <1>5 DEF IsRun
<1>7. ASSUME NEW i \in 1 .. n
      PROVE  f[i] = RouteEvent(f[i - 1], capture, events[i])
  <2> DEFINE x == <<i, f[i - 1]>>
  <2>1. x \in (1 .. n) \X RoutedPads
    <3>1. i - 1 \in 0 .. n
      BY <1>1
    <3> QED BY <3>1
  <2>2. f[i] = step[x]
    <3> HIDE DEF step
    <3> QED BY <1>5 DEF IsRun
  <2>3. step[x] = RouteEvent(x[2], capture, events[x[1]])
    <3> HIDE DEF x
    <3> QED BY <2>1
  <2> QED BY <2>2, <2>3
<1> HIDE DEF step
<1>8. Rec(after)
  <2>1. Rec(f)
    BY <1>1, <1>6, <1>7
  <2> HIDE DEF Rec
  <2> QED BY <2>1
<1> HIDE DEF after
<1>9. \A i \in 0 .. n :
        after[i] = IF i = 0 THEN base ELSE RouteEvent(after[i - 1], capture, events[i])
  <2>1. after = [i \in 0 .. n |->
                   IF i = 0 THEN base ELSE RouteEvent(after[i - 1], capture, events[i])]
    BY <1>8
  <2> QED BY ONLY <2>1
<1>10. \A i \in 0 .. n : after[i] = f[i]
  <2> DEFINE S == {i \in 0 .. n : after[i] = f[i]}
  <2>1. 0 \in S
    <3>1. 0 \in 0 .. n
      BY <1>1
    <3> QED BY <1>6, <1>9, <3>1
  <2>2. \A i \in 1 .. n : i - 1 \in S => i \in S
    <3> SUFFICES ASSUME NEW i \in 1 .. n, after[i - 1] = f[i - 1]
                 PROVE  i \in 0 .. n /\ after[i] = f[i]
      OBVIOUS
    <3>1. i \in 0 .. n /\ i # 0
      BY <1>1
    <3> QED BY <1>7, <1>9, <3>1
  <2>3. 0 .. n \subseteq S
    <3> HIDE DEF S
    <3> QED BY <1>1, <2>1, <2>2, RangeInduction
  <2> QED BY <2>3
<1>11. IsRouting(f, base, capture, events)
  BY <1>5, <1>6, <1>7 DEF IsRouting, n
<1>12. n \in 0 .. n
  BY <1>1
<1> QED BY <1>3, <1>10, <1>11, <1>12 DEF n, base

LEMMA RouteFrameLockStep ==
  ASSUME NEW v \in Pads, NEW capture, NEW events \in Seq(ValidEvents)
  PROVE  LET routed == RouteFrame(RouterOf(v), v, capture, events)
         IN  LockStep(routed) /\ SameContacts(routed.vpad, ApplyEvents(v, events))
<1> DEFINE n == Len(events)
           base == [router |-> RouterOf(v), vpad |-> v]
<1>1. PICK f : /\ IsRouting(f, base, capture, events)
               /\ RouteFrame(RouterOf(v), v, capture, events) = f[n]
  BY RouteFrameRun
<1>2. PICK g : IsRunOf(g, v, events) /\ ApplyEvents(v, events) = g[n]
  BY ApplyEventsRun
<1>3. n \in Nat /\ \A i \in 1 .. n : events[i] \in ValidEvents
  OBVIOUS
<1>4. f \in [0 .. n -> RoutedPads] /\ g \in [0 .. n -> Pads]
  BY <1>1, <1>2 DEF IsRouting, IsRunOf
<1> DEFINE S == {i \in 0 .. n : SameContacts(f[i].vpad, g[i])}
<1>5. 0 \in S
  <2>1. f[0].vpad = v /\ g[0] = v
    BY <1>1, <1>2 DEF IsRouting, IsRunOf
  <2> HIDE DEF n
  <2> QED BY <1>3, <2>1 DEF SameContacts
<1>6. \A i \in 1 .. n : i - 1 \in S => i \in S
  <2> SUFFICES ASSUME NEW i \in 1 .. n, SameContacts(f[i - 1].vpad, g[i - 1])
               PROVE  i \in 0 .. n /\ SameContacts(f[i].vpad, g[i])
    OBVIOUS
  <2>1. i - 1 \in 0 .. n /\ i \in 0 .. n /\ events[i] \in ValidEvents
    BY <1>3
  <2>2. f[i - 1] \in RoutedPads /\ g[i - 1] \in Pads
    BY <1>4, <2>1
  <2>3. f[i - 1].vpad \in Pads
    BY <2>2, RoutedPadsType
  <2>4. /\ f[i] = RouteEvent(f[i - 1], capture, events[i])
        /\ g[i] = ApplyEvent(g[i - 1], events[i])
    BY <1>1, <1>2 DEF IsRouting, IsRunOf
  <2>5. SameContacts(f[i].vpad, ApplyEvent(f[i - 1].vpad, events[i]))
    BY <2>1, <2>2, <2>4, RouteEventLockStep
  <2>6. SameContacts(ApplyEvent(f[i - 1].vpad, events[i]), g[i])
    BY <2>1, <2>2, <2>3, <2>4, ApplyEventAgrees
  <2> QED BY <2>1, <2>5, <2>6 DEF SameContacts
<1>7. 0 .. n \subseteq S
  <2> HIDE DEF S, n
  <2> QED BY <1>3, <1>5, <1>6, RangeInduction
<1>8. n \in 0 .. n
  <2> HIDE DEF n
  <2> QED BY <1>3
<1>9. f[n] \in RoutedPads /\ SameContacts(f[n].vpad, g[n])
  BY <1>4, <1>7, <1>8
<1> QED BY <1>1, <1>2, <1>9, RoutedPadsType DEF LockStep

\* Routing one event more.
Unrouted(v) == [router |-> RouterOf(v), vpad |-> v]
RouteStep(capture) ==
  [x \in RoutedPads \X ValidEvents |-> RouteEvent(x[1], capture, x[2])]

LEMMA RouteStepIsStep ==
  ASSUME NEW capture
  PROVE  IsStep(RouteStep(capture), RoutedPads, ValidEvents)
BY RouteEventLockStep DEF IsStep, RouteStep

LEMMA RouteFrameOutcome ==
  ASSUME NEW v \in Pads, NEW capture, NEW events \in Seq(ValidEvents)
  PROVE  RouteFrame(RouterOf(v), v, capture, events) =
           Outcome(RouteStep(capture), RoutedPads, Unrouted(v), events)
<1> DEFINE n == Len(events)
           base == Unrouted(v)
<1>1. n \in Nat /\ n <= n /\ \A i \in 1 .. n : events[i] \in ValidEvents /\ i - 1 \in 0 .. n
  OBVIOUS
<1>2. base \in RoutedPads
  BY DEF RoutedPads, Unrouted
<1>3. PICK f : /\ IsRouting(f, base, capture, events)
               /\ RouteFrame(RouterOf(v), v, capture, events) = f[n]
  BY RouteFrameRun DEF Unrouted
<1>4. f \in [0 .. n -> RoutedPads] /\ f[0] = base
      /\ \A i \in 1 .. n : f[i] = RouteEvent(f[i - 1], capture, events[i])
  BY <1>3 DEF IsRouting
<1> HIDE DEF base
<1>5. Steps(f, RouteStep(capture), base, events)
  <2>1. ASSUME NEW i \in 1 .. n PROVE f[i] = RouteStep(capture)[<<f[i - 1], events[i]>>]
    <3>1. f[i - 1] \in RoutedPads /\ events[i] \in ValidEvents
      BY <1>1, <1>4
    <3> QED BY <1>4, <3>1 DEF RouteStep
  <2> QED BY <1>4, <2>1 DEF Steps
<1>6. PICK g : Steps(g, RouteStep(capture), base, events)
               /\ Outcome(RouteStep(capture), RoutedPads, base, events) = g[n]
  BY <1>2, RouteStepIsStep, OutcomeSteps
<1>7. f[n] = g[n]
  BY <1>1, <1>5, <1>6, StepsAgree
<1> QED BY <1>3, <1>6, <1>7 DEF base

LEMMA RouteFrameNone ==
  ASSUME NEW v \in Pads, NEW capture
  PROVE  RouteFrame(RouterOf(v), v, capture, << >>) = Unrouted(v)
<1>1. Unrouted(v) \in RoutedPads
  BY DEF RoutedPads, Unrouted
<1>2. Outcome(RouteStep(capture), RoutedPads, Unrouted(v), << >>) = Unrouted(v)
  BY <1>1, RouteStepIsStep, OutcomeNone
<1>3. << >> \in Seq(ValidEvents)
  OBVIOUS
<1> QED BY <1>2, <1>3, RouteFrameOutcome

LEMMA RouteFrameAppend ==
  ASSUME NEW v \in Pads, NEW capture, NEW events \in Seq(ValidEvents), NEW e \in ValidEvents
  PROVE  /\ RouteFrame(RouterOf(v), v, capture, events) \in RoutedPads
         /\ RouteFrame(RouterOf(v), v, capture, Append(events, e)) =
              RouteEvent(RouteFrame(RouterOf(v), v, capture, events), capture, e)
<1> DEFINE base == Unrouted(v)
           more == Append(events, e)
           mid == Outcome(RouteStep(capture), RoutedPads, base, events)
<1>1. base \in RoutedPads /\ more \in Seq(ValidEvents)
  BY DEF RoutedPads, Unrouted
<1>2. /\ RouteFrame(RouterOf(v), v, capture, events) = mid
      /\ RouteFrame(RouterOf(v), v, capture, more) =
           Outcome(RouteStep(capture), RoutedPads, base, more)
  BY <1>1, RouteFrameOutcome
<1> HIDE DEF base
<1>3. /\ mid \in RoutedPads
      /\ Outcome(RouteStep(capture), RoutedPads, base, more) = RouteStep(capture)[<<mid, e>>]
  BY <1>1, RouteStepIsStep, OutcomeType, OutcomeAppend
<1> HIDE DEF mid
<1>4. RouteStep(capture)[<<mid, e>>] = RouteEvent(mid, capture, e)
  BY <1>3 DEF RouteStep
<1> QED BY <1>2, <1>3, <1>4

\* Without a capture the virtual pad takes the frame as it is.
LEMMA RouteFrameFree ==
  ASSUME NEW v \in Pads, NEW events \in Seq(ValidEvents)
  PROVE  RouteFrame(RouterOf(v), v, NoContact, events).vpad = ApplyEvents(v, events)
<1> DEFINE Routed(s) == RouteFrame(RouterOf(v), v, NoContact, s)
           S == {s \in Seq(ValidEvents) : Routed(s).vpad = ApplyEvents(v, s)}
<1>1. << >> \in S
  <2>1. << >> \in Seq(ValidEvents)
    OBVIOUS
  <2>2. Routed(<< >>) = Unrouted(v)
    BY RouteFrameNone
  <2> QED BY <2>1, <2>2, ApplyNone DEF Unrouted
<1>2. ASSUME NEW s \in Seq(ValidEvents), NEW e \in ValidEvents, s \in S
      PROVE  Append(s, e) \in S
  <2>1. Append(s, e) \in Seq(ValidEvents)
    OBVIOUS
  <2>2. Routed(Append(s, e)) = RouteEvent(Routed(s), NoContact, e)
    BY RouteFrameAppend
  <2>3. RouteEvent(Routed(s), NoContact, e).vpad = ApplyEvent(Routed(s).vpad, e)
    BY DEF RouteEvent, SuppressPosition
  <2>4. Routed(s).vpad = ApplyEvents(v, s)
    BY <1>2
  <2> HIDE DEF Routed
  <2>5. Routed(Append(s, e)).vpad = ApplyEvents(v, Append(s, e))
    BY <2>2, <2>3, <2>4, ApplyEventsAppend
  <2> QED BY <2>1, <2>5
<1>3. Seq(ValidEvents) \subseteq S
  <2> HIDE DEF S
  <2> QED BY <1>1, <1>2, SeqInduction
<1> QED BY <1>3

-----------------------------------------------------------------------------
(***************************************************************************)
(* The gesture FSM, shown a well-formed touch frame, stays in its states.  *)
(***************************************************************************)
TouchFrames ==
  {t \in [contact : BOOLEAN, pos : Positions \cup {NoPos}, id : ContactIds \cup {NoContact}] :
     t.contact => t.pos \in Positions /\ t.id \in ContactIds}

LEMMA TouchAtType ==
  ASSUME NEW pad \in Pads, NEW slot \in Slots, IsActive(pad, slot)
  PROVE  TouchAt(pad, slot) \in TouchFrames
<1>1. pad.slots[slot] \in SlotStates
  BY DEF Pads
<1>2. PositionOf(pad, slot) \in Positions /\ ContactOf(pad, slot) \in ContactIds
  BY <1>1 DEF PositionOf, ContactOf, Positions, ContactIds, SlotStates, IsActive, TrackingIds
<1> QED BY <1>2 DEF TouchAt, TouchFrames

LEMMA PrimaryType ==
  ASSUME NEW pad \in Pads
  PROVE  Primary(pad) \in TouchFrames
<1>1. NoTouch \in TouchFrames
  BY DEF NoTouch, TouchFrames
<1>2. CASE pad.touch /\ ActiveSlots(pad) # {}
  <2> DEFINE lowest == CHOOSE s \in ActiveSlots(pad) : \A t \in ActiveSlots(pad) : s <= t
  <2>1. ActiveSlots(pad) \subseteq Nat
    BY NSlotsAssumption DEF ActiveSlots, Slots
  <2>2. \E s \in ActiveSlots(pad) : \A t \in ActiveSlots(pad) : s <= t
    BY <1>2, <2>1, NatMin
  <2>3. lowest \in ActiveSlots(pad)
    BY <2>2
  <2>4. Primary(pad) = TouchAt(pad, lowest)
    BY <1>2 DEF Primary
  <2> HIDE DEF lowest
  <2> QED BY <2>3, <2>4, TouchAtType DEF ActiveSlots
<1> QED BY <1>1, <1>2 DEF Primary

LEMMA ForContactType ==
  ASSUME NEW pad \in Pads, NEW contact \in ContactIds
  PROVE  ForContact(pad, contact) \in TouchFrames
<1>1. contact.slot \in Slots /\ contact.id \in Nat
  BY DEF ContactIds
<1>2. CASE pad.touch /\ pad.slots[contact.slot].id = contact.id
  <2>1. IsActive(pad, contact.slot)
    BY <1>1, <1>2 DEF IsActive, Inactive
  <2> QED BY <1>1, <1>2, <2>1, TouchAtType DEF ForContact
<1>3. CASE ~(pad.touch /\ pad.slots[contact.slot].id = contact.id)
  BY <1>3 DEF ForContact, NoTouch, TouchFrames
<1> QED BY <1>2, <1>3

LEMMA FsmContactType ==
  ASSUME NEW f \in FsmStates
  PROVE  /\ f.contact \in ContactIds \cup {NoContact}
         /\ f.start \in Positions \cup {NoPos}
         /\ f.state \in {"Idle", "Contact", "Moving", "Scrolling", "Debounce"}
         /\ f.contact = NoContact <=> f.state \in {"Idle", "Debounce"}
         /\ f.start = NoPos <=> f.state # "Moving"
BY DEF FsmStates

LEMMA FsmStateTypes ==
  /\ FsmIdle \in FsmStates
  /\ FsmDebounce \in FsmStates
  /\ \A c \in ContactIds : FsmContact(c) \in FsmStates /\ FsmScrolling(c) \in FsmStates
  /\ \A c \in ContactIds, p \in Positions : FsmMoving(c, p) \in FsmStates
<1>1. NoContact \notin ContactIds /\ NoPos \notin Positions
  BY SentinelAssumption
<1> QED
  BY <1>1 DEF FsmStates, FsmIdle, FsmDebounce, FsmContact, FsmScrolling, FsmMoving

LEMMA FsmStepType ==
  ASSUME NEW f \in FsmStates, NEW touch \in TouchFrames
  PROVE  FsmStep(f, touch) \in FsmStates
<1>1. touch.contact => touch.pos \in Positions /\ touch.id \in ContactIds
  BY DEF TouchFrames
<1>2. f.state \notin {"Idle", "Debounce"} => f.contact \in ContactIds
  BY FsmContactType
<1>3. f.state = "Idle" => StepIdle(touch) \in FsmStates
  BY <1>1, FsmStateTypes DEF StepIdle
<1>4. f.state = "Contact" => StepContact(f, touch) \in FsmStates
  BY FsmStateTypes DEF StepContact
<1>5. f.state = "Moving" => StepMoving(f, touch) \in FsmStates
  BY <1>2, FsmStateTypes DEF StepMoving
<1>6. f.state = "Scrolling" => StepScrolling(f, touch) \in FsmStates
  BY FsmStateTypes DEF StepScrolling
<1> QED BY <1>3, <1>4, <1>5, <1>6, FsmContactType, FsmStateTypes DEF FsmStep

LEMMA TouchFrameStep ==
  ASSUME fsm \in FsmStates, NEW contacts \in Pads
  PROVE  FsmStep(fsm, TouchFrame(contacts)) \in FsmStates
<1>1. TouchFrame(contacts) \in TouchFrames
  BY FsmContactType, ForContactType, PrimaryType DEF TouchFrame
<1> QED BY <1>1, FsmStepType

-----------------------------------------------------------------------------
(***************************************************************************)
(* poll_frames: a frame's events are those in front of its SYN_REPORT.     *)
(***************************************************************************)
LEMMA KernelEventTypes ==
  ASSUME NEW e \in KernelEvents, e.type \notin {"SYN", "DROPPED"}
  PROVE  e \in Events
BY DEF KernelEvents, Syn, Dropped

LEMMA FrameEndProperties ==
  ASSUME NEW events \in Seq(KernelEvents), HasFrame(events)
  PROVE  /\ FrameEnd(events) \in 1 .. Len(events)
         /\ events[FrameEnd(events)].type = "SYN"
         /\ \A j \in 1 .. FrameEnd(events) - 1 : events[j].type # "SYN"
<1> DEFINE ends == {i \in 1 .. Len(events) : events[i].type = "SYN"}
<1>1. ends \subseteq Nat /\ ends # {} /\ Len(events) \in Nat
  BY DEF HasFrame
<1>2. PICK i \in ends : \A j \in ends : i <= j
  <2> HIDE DEF ends
  <2> QED BY <1>1, NatMin
<1>3. /\ i \in 1 .. Len(events) /\ events[i].type = "SYN"
      /\ \A j \in 1 .. i - 1 : events[j].type # "SYN"
  BY <1>1, <1>2
<1> QED BY <1>3 DEF FrameEnd

LEMMA HeadType ==
  ASSUME pending \in Seq(KernelEvents), HasFrame(pending), ~HeadIsDropped
  PROVE  HeadEvents \in Seq(Events)
<1>1. /\ HeadEnd \in 1 .. Len(pending)
      /\ \A j \in 1 .. HeadEnd - 1 : pending[j].type # "SYN"
  BY FrameEndProperties DEF HeadEnd
<1>2. \A j \in 1 .. HeadEnd - 1 : pending[j] \in Events
  <2> TAKE j \in 1 .. HeadEnd - 1
  <2>1. j \in 1 .. Len(pending)
    BY <1>1
  <2> QED BY <1>1, <2>1, KernelEventTypes DEF HeadIsDropped
<1> DEFINE n == HeadEnd - 1
<1>3. n \in Nat /\ n <= Len(pending)
  BY <1>1
<1>4. Len(HeadEvents) = n /\ HeadEvents \in Seq(KernelEvents)
      /\ \A j \in 1 .. n : HeadEvents[j] = pending[j]
  <2> HIDE DEF n
  <2> QED BY <1>3 DEF HeadEvents, n
<1> QED BY <1>2, <1>4

LEMMA RestType ==
  ASSUME pending \in Seq(KernelEvents), HasFrame(pending)
  PROVE  RestEvents \in Seq(KernelEvents)
<1>1. HeadEnd \in 1 .. Len(pending)
  BY FrameEndProperties DEF HeadEnd
<1> QED BY <1>1 DEF RestEvents

-----------------------------------------------------------------------------
(***************************************************************************)
(* The inductive invariant behind type correctness: frames carry only      *)
(* events that apply_event accepted or that reconciliation_events built,   *)
(* and a frame is there to be assembled or processed when the loop gets to *)
(* it.                                                                     *)
(***************************************************************************)
FrameRecords == [contacts : Pads, events : Seq(ValidEvents), reconciled : BOOLEAN]

TypeInv ==
  /\ TypeOK
  /\ TouchIsContact(phys)
  /\ frames \in Seq(FrameRecords)
  /\ pc = "assemble" => HasFrame(pending)
  /\ pc = "process" => frames # << >>

LEMMA QuietType ==
  ASSUME NEW place \in {Origin, Leftover}, NEW slot \in Slots
  PROVE  Quiet(place, slot) \in Pads /\ TouchIsContact(Quiet(place, slot))
<1>1. place.x \in Int /\ place.y \in Int
  BY ProxyAssumption DEF Positions
<1> QED
  BY <1>1 DEF Quiet, Pads, SlotStates, TrackingIds, TouchIsContact, IsActive, Inactive

LEMMA QuietPadType == QuietPad \in Pads /\ TouchIsContact(QuietPad)
<1>1. 0 \in Slots
  BY NSlotsAssumption DEF Slots
<1> QED BY <1>1, QuietType DEF QuietPad

LEMMA RouterOfType ==
  ASSUME NEW pad \in Pads
  PROVE  RouterOf(pad) \in Routers
BY DEF RouterOf, Routers, Pads, SlotStates

LEMMA FrameRecordsType ==
  ASSUME NEW s \in Seq(FrameRecords)
  PROVE  s \in Seq([contacts : Pads, events : Seq(Events), reconciled : BOOLEAN])
<1>1. \A e \in Seq(ValidEvents) : e \in Seq(Events)
  <2> TAKE e \in Seq(ValidEvents)
  <2>1. \A i \in 1 .. Len(e) : e[i] \in Events
    BY DEF ValidEvents
  <2> QED BY <2>1
<1>2. FrameRecords \subseteq [contacts : Pads, events : Seq(Events), reconciled : BOOLEAN]
  BY <1>1 DEF FrameRecords
<1> QED BY <1>2, SeqMonotonic

\* AfterAssembly only goes where there is something to do.
LEMMA AfterAssemblyType ==
  ASSUME NEW rest, NEW done
  PROVE  /\ AfterAssembly(rest, done) \in {"poll", "assemble", "process"}
         /\ AfterAssembly(rest, done) = "assemble" => HasFrame(rest)
         /\ AfterAssembly(rest, done) = "process" => done # << >>
BY DEF AfterAssembly

LEMMA TypeInit == Init => TypeInv
<1> SUFFICES ASSUME Init PROVE TypeInv
  OBVIOUS
<1> PICK slot \in Slots : phys = Quiet(Leftover, slot)
  BY DEF Init
<1>1. /\ phys \in Pads /\ TouchIsContact(phys) /\ phys.cur = slot
      /\ SelectMtSlot(slot) \in Pads /\ QuietPad \in Pads
  BY QuietType, QuietPadType DEF SelectMtSlot, Quiet
<1>2. FsmIdle \in FsmStates
  BY FsmStateTypes
<1>3. /\ fs = phys /\ answer = QuietPad /\ router = RouterOf(fs) /\ vpad = SelectMtSlot(fs.cur)
      /\ fsm = FsmIdle /\ queue = << >> /\ pending = << >> /\ frames = << >> /\ next = 0
      /\ reports = 0 /\ kind = NoKind /\ pc = "poll"
  BY DEF Init
<1>4. router \in Routers
  BY <1>1, <1>3, RouterOfType
<1> QED BY <1>1, <1>2, <1>3, <1>4 DEF TypeInv, TypeOK

LEMMA TypeReport == TypeInv /\ Report => TypeInv'
<1> SUFFICES ASSUME TypeInv, Report PROVE TypeInv'
  OBVIOUS
<1>1. PICK r \in Reports(phys, next) :
        phys' = r.pad /\ next' = r.next /\ queue' = PushReport(queue, r.events)
  BY DEF Report
<1>2. r \in KernelReports /\ TouchIsContact(r.pad)
  BY ReportsType DEF TypeInv, TypeOK
<1>3. phys' \in Pads /\ next' \in Nat /\ TouchIsContact(phys') /\ r.events \in Seq(Events)
  BY <1>1, <1>2 DEF KernelReports
<1>4. queue' \in Seq(KernelEvents)
  BY <1>1, <1>3, PushReportType DEF TypeInv, TypeOK
<1>5. reports' \in Nat /\ UNCHANGED <<pc, source, frames, processor>>
  <2>1. reports' = reports + 1 /\ UNCHANGED <<pc, source, frames, processor>>
    BY DEF Report
  <2>2. reports \in Nat
    BY DEF TypeInv, TypeOK
  <2> QED BY ONLY <2>1, <2>2
<1> QED
  BY <1>3, <1>4, <1>5 DEF TypeInv, TypeOK, source, processor

LEMMA TypeFetch == TypeInv /\ Fetch => TypeInv'
<1> SUFFICES ASSUME TypeInv, Fetch PROVE TypeInv'
  OBVIOUS
<1> DEFINE n == IF Len(queue) < FetchMax THEN Len(queue) ELSE FetchMax
<1>1. queue \in Seq(KernelEvents) /\ pending \in Seq(KernelEvents)
  BY DEF TypeInv, TypeOK
<1>2. n \in Nat /\ n <= Len(queue)
  BY <1>1, ProxyAssumption
<1>3. /\ pending' = pending \o SubSeq(queue, 1, n)
      /\ queue' = SubSeq(queue, n + 1, Len(queue))
      /\ pc' = AfterAssembly(pending', frames)
      /\ UNCHANGED <<device, fs, kind, answer, frames, processor>>
  BY DEF Fetch
<1> HIDE DEF n
<1>4. SubSeq(queue, 1, n) \in Seq(KernelEvents) /\ SubSeq(queue, n + 1, Len(queue)) \in Seq(KernelEvents)
  BY <1>1, <1>2
<1>5. pending' \in Seq(KernelEvents) /\ queue' \in Seq(KernelEvents)
  BY <1>1, <1>3, <1>4
<1> QED
  BY <1>3, <1>5, AfterAssemblyType DEF TypeInv, TypeOK, device, processor

LEMMA TypeTimeoutScrolling == TypeInv /\ TimeoutScrolling => TypeInv'
BY DEF TypeInv, TypeOK, TimeoutScrolling, device, processor, Kinds

LEMMA FrameAppended ==
  ASSUME NEW s \in Seq(FrameRecords), NEW contacts \in Pads,
         NEW events \in Seq(ValidEvents), NEW reconciled \in BOOLEAN
  PROVE  LET t == Append(s, Frame(contacts, events, reconciled))
         IN  t \in Seq(FrameRecords) /\ t # << >>
<1> DEFINE f == Frame(contacts, events, reconciled)
<1>1. f \in FrameRecords
  BY DEF Frame, FrameRecords
<1> HIDE DEF f
<1>2. Append(s, f) \in Seq(FrameRecords) /\ Len(Append(s, f)) = Len(s) + 1
  BY <1>1
<1>3. Append(s, f) # << >>
  BY <1>2
<1> QED BY <1>2, <1>3 DEF f

LEMMA TypeAssemble == TypeInv /\ Assemble => TypeInv'
<1> SUFFICES ASSUME TypeInv, Assemble PROVE TypeInv'
  OBVIOUS
<1>1. CASE AssembleFrame
  <2>1. HasFrame(pending) /\ pending \in Seq(KernelEvents)
    BY <1>1 DEF AssembleFrame, TypeInv, TypeOK
  <2>2. HeadEvents \in Seq(ValidEvents)
    BY <1>1, <2>1, HeadType, ValidFrame DEF AssembleFrame
  <2>3. fs' \in Pads
    BY <1>1, <2>2, ApplyEventsType DEF AssembleFrame, TypeInv, TypeOK
  <2>4. frames' \in Seq(FrameRecords)
    BY <1>1, <2>2, <2>3, FrameAppended DEF AssembleFrame, TypeInv
  <2>5. pending' \in Seq(KernelEvents)
    BY <1>1, <2>1, RestType DEF AssembleFrame
  <2>6. pc' = AfterAssembly(pending', frames') /\ UNCHANGED <<device, queue, kind, answer, processor>>
    BY <1>1 DEF AssembleFrame
  <2> QED
    BY <2>3, <2>4, <2>5, <2>6, AfterAssemblyType, FrameRecordsType
      DEF TypeInv, TypeOK, device, processor
<1>2. CASE AssembleInvalid
  BY <1>2 DEF AssembleInvalid, TypeInv, TypeOK, device, source, processor
<1>3. CASE AssembleDropped
  <2>1. pending' \in Seq(KernelEvents)
    BY <1>3, RestType DEF AssembleDropped, TypeInv, TypeOK
  <2> QED
    BY <1>3, <2>1 DEF AssembleDropped, TypeInv, TypeOK, device, processor, Kinds
<1> QED BY <1>1, <1>2, <1>3 DEF Assemble

LEMMA TypeQuery == TypeInv /\ Query => TypeInv'
<1> SUFFICES ASSUME TypeInv, Query PROVE TypeInv'
  OBVIOUS
<1>1. phys \in Pads /\ answer \in Pads
  BY DEF TypeInv, TypeOK
<1>2. CASE QuerySlot
  <2>1. answer' \in Pads
    BY <1>1, <1>2, AnswerTypes DEF QuerySlot
  <2> QED BY <1>2, <2>1 DEF QuerySlot, TypeInv, TypeOK, device, processor
<1>3. CASE QueryKeys
  <2>1. answer' \in Pads
    BY <1>1, <1>3, AnswerTypes DEF QueryKeys
  <2>2. queue' \in Seq(KernelEvents)
    BY <1>3, FlushKeysType DEF QueryKeys, TypeInv, TypeOK
  <2> QED BY <1>3, <2>1, <2>2 DEF QueryKeys, TypeInv, TypeOK, device, processor
<1>4. CASE QueryIds
  <2>1. answer' \in Pads
    BY <1>1, <1>4, AnswerTypes DEF QueryIds
  <2> QED BY <1>4, <2>1 DEF QueryIds, TypeInv, TypeOK, device, processor
<1>5. CASE QueryXs
  <2>1. answer' \in Pads
    BY <1>1, <1>5, AnswerTypes DEF QueryXs
  <2> QED BY <1>5, <2>1 DEF QueryXs, TypeInv, TypeOK, device, processor
<1>6. CASE QueryYs
  <2> DEFINE refreshed == [answer EXCEPT !.slots =
                             [s \in Slots |-> [@[s] EXCEPT !.y = phys.slots[s].y]]]
             events == ReconciliationEvents(fs, refreshed, kind)
  <2>1. refreshed \in Pads
    BY <1>1, AnswerTypes
  <2>2. fs' = refreshed /\ frames' = Append(frames, Frame(refreshed, events, TRUE))
    BY <1>6 DEF QueryYs
  <2> HIDE DEF refreshed
  <2>3. events \in Seq(ValidEvents)
    BY <2>1, ReconciliationType DEF TypeInv, TypeOK
  <2> HIDE DEF events
  <2>4. frames' \in Seq(FrameRecords) /\ frames' # << >>
    <3>1. frames \in Seq(FrameRecords)
      BY DEF TypeInv
    <3> QED BY <2>1, <2>2, <2>3, <3>1, FrameAppended
  <2>5. /\ pc' \in {"poll", "assemble", "process"}
        /\ pc' = "assemble" => HasFrame(pending)
    BY <1>6, AfterAssemblyType DEF QueryYs
  <2>6. /\ answer' = QuietPad /\ kind' = NoKind
        /\ UNCHANGED <<device, queue, pending, processor>>
    BY <1>6 DEF QueryYs
  <2> QED
    BY <2>1, <2>2, <2>4, <2>5, <2>6, QuietPadType, FrameRecordsType
      DEF TypeInv, TypeOK, device, processor
<1> QED BY <1>2, <1>3, <1>4, <1>5, <1>6 DEF Query

(***************************************************************************)
(* What processing a frame does to router and virtual pad.                 *)
(***************************************************************************)
LEMMA ProcessEffect ==
  ASSUME TypeInv, router = RouterOf(vpad), ProcessFrame
  PROVE  LET frame == Head(frames)
         IN  /\ frame \in FrameRecords /\ frame = frames[1]
             /\ vpad' \in Pads
             /\ SameContacts(vpad', ApplyEvents(vpad, frame.events))
             /\ router' = IF frame.reconciled THEN RouterOf(frame.contacts) ELSE RouterOf(vpad')
<1> DEFINE frame == Head(frames)
           after == FsmStep(fsm, TouchFrame(frame.contacts))
           routed == RouteFrame(router, vpad, Capture(fsm, after), frame.events)
<1>1. frames \in Seq(FrameRecords) /\ frames # << >>
  BY DEF TypeInv, ProcessFrame
<1>2. frame \in FrameRecords /\ frame = frames[1]
  BY <1>1
<1>3. /\ vpad' = routed.vpad
      /\ router' = IF frame.reconciled THEN RouterOf(frame.contacts) ELSE routed.router
  BY DEF ProcessFrame
<1>4. vpad \in Pads /\ router = RouterOf(vpad) /\ frame.events \in Seq(ValidEvents)
  BY <1>2 DEF TypeInv, TypeOK, FrameRecords
<1> HIDE DEF frame, after
<1>5. LockStep(routed) /\ SameContacts(routed.vpad, ApplyEvents(vpad, frame.events))
  BY <1>4, RouteFrameLockStep
<1> HIDE DEF routed
<1> QED BY <1>2, <1>3, <1>5 DEF LockStep, frame

-----------------------------------------------------------------------------
(***************************************************************************)
(* The inductive invariant behind ProxyInSync.  Each assembled frame leads *)
(* from the contacts before it (the virtual pad's, for the first) to the   *)
(* contacts of its snapshot, and the last snapshot is InputDevice.state;   *)
(* the router is in lockstep with the virtual pad in the middle of a batch *)
(* too.                                                                    *)
(***************************************************************************)
Before(i) == IF i = 1 THEN vpad ELSE frames[i - 1].contacts

Leads(i) == SameContacts(ApplyEvents(Before(i), frames[i].events), frames[i].contacts)

Chain ==
  /\ router = RouterOf(vpad)
  /\ \A i \in 1 .. Len(frames) : Leads(i)
  /\ frames = << >> => SameContacts(vpad, fs)
  /\ frames # << >> => frames[Len(frames)].contacts = fs

Inv == TypeInv /\ Chain

LEMMA TypeProcess == Inv /\ ProcessFrame => TypeInv'
<1> SUFFICES ASSUME TypeInv, Chain, ProcessFrame PROVE TypeInv'
  BY DEF Inv
<1> DEFINE frame == Head(frames)
<1>1. /\ frame \in FrameRecords /\ vpad' \in Pads
      /\ router' = IF frame.reconciled THEN RouterOf(frame.contacts) ELSE RouterOf(vpad')
  BY ProcessEffect DEF Chain
<1>2. frames \in Seq(FrameRecords) /\ frames # << >>
  BY DEF TypeInv, ProcessFrame
<1>3. frames' \in Seq(FrameRecords)
  BY <1>2 DEF ProcessFrame
<1>4. frame.contacts \in Pads
  BY <1>1 DEF FrameRecords
<1>5. fsm' \in FsmStates
  BY <1>4, TouchFrameStep DEF ProcessFrame, TypeInv, TypeOK
<1>6. /\ pc' \in {"poll", "process"}
      /\ pc' = "process" => frames' # << >>
      /\ UNCHANGED <<device, queue, source>>
  BY DEF ProcessFrame
<1>7. router' \in Routers
  BY <1>1, <1>4, RouterOfType
<1> HIDE DEF frame
<1>8. vpad' \in Pads /\ frames' \in Seq([contacts : Pads, events : Seq(Events), reconciled : BOOLEAN])
  BY <1>1, <1>3, FrameRecordsType
<1>9. TypeOK'
  BY <1>5, <1>6, <1>7, <1>8 DEF TypeInv, TypeOK, device, source
<1>10. TouchIsContact(phys)'
  BY <1>6 DEF TypeInv, device
<1> QED BY <1>3, <1>6, <1>9, <1>10 DEF TypeInv

LEMMA ChainUnchanged ==
  Chain /\ UNCHANGED <<router, vpad, frames, fs>> => Chain'
<1> SUFFICES ASSUME Chain, UNCHANGED <<router, vpad, frames, fs>> PROVE Chain'
  OBVIOUS
<1>1. ASSUME NEW i \in 1 .. Len(frames)
      PROVE  Leads(i)'
  <2>1. Leads(i)
    BY DEF Chain
  <2>2. Before(i)' = Before(i)
    BY DEF Before
  <2> QED BY <2>1, <2>2 DEF Leads
<1> QED BY <1>1 DEF Chain, RouterOf

LEMMA ChainAppend ==
  ASSUME TypeInv, Chain, UNCHANGED <<router, vpad>>, fs' \in Pads,
         NEW events \in Seq(ValidEvents), NEW reconciled \in BOOLEAN,
         frames' = Append(frames, Frame(fs', events, reconciled)),
         SameContacts(ApplyEvents(fs, events), fs')
  PROVE  Chain'
<1> DEFINE f == Frame(fs', events, reconciled)
<1>1. frames \in Seq(FrameRecords) /\ vpad \in Pads /\ fs \in Pads
  BY DEF TypeInv, TypeOK
<1> PICK n \in Nat : n = Len(frames)
  BY <1>1
<1>2. f \in FrameRecords /\ f.contacts = fs' /\ f.events = events
  BY DEF Frame, FrameRecords
<1>3. frames' = Append(frames, f)
  OBVIOUS
<1> HIDE DEF f
<1>4. /\ Len(frames') = n + 1 /\ frames' # << >> /\ frames'[n + 1] = f
      /\ \A i \in 1 .. n : frames'[i] = frames[i]
  BY <1>1, <1>2, <1>3
<1>5. Before(n + 1)' \in Pads /\ SameContacts(Before(n + 1)', fs)
  <2>1. CASE n = 0
    <3>1. frames = << >> /\ n + 1 = 1
      <4>1. Len(frames) = 0
        BY <2>1
      <4>2. frames = << >>
        BY ONLY <1>1, <4>1, EmptySeq
      <4> QED BY <2>1, <4>2
    <3>2. Before(n + 1)' = vpad
      BY <3>1 DEF Before
    <3> QED BY <1>1, <3>1, <3>2 DEF Chain
  <2>2. CASE n # 0
    <3>1. n \in 1 .. n /\ frames # << >> /\ n + 1 - 1 = n /\ n + 1 # 1
      BY <1>1, <2>2
    <3>2. Before(n + 1)' = frames[n].contacts
      BY <1>4, <3>1 DEF Before
    <3>3. frames[n].contacts = fs
      BY <3>1 DEF Chain
    <3> QED BY <1>1, <3>2, <3>3 DEF SameContacts
  <2> QED BY <2>1, <2>2
<1>6. Leads(n + 1)'
  <2>1. SameContacts(ApplyEvents(Before(n + 1)', events), ApplyEvents(fs, events))
    BY <1>1, <1>5, ApplyEventsAgree
  <2>2. SameContacts(ApplyEvents(Before(n + 1)', events), fs')
    BY <2>1 DEF SameContacts
  <2>3. frames'[n + 1].events = events /\ frames'[n + 1].contacts = fs'
    BY <1>2, <1>4
  <2> QED BY <2>2, <2>3 DEF Leads
<1>7. \A i \in 1 .. n : Leads(i)'
  <2> TAKE i \in 1 .. n
  <2>1. Leads(i)
    BY DEF Chain
  <2>2. i = 1 \/ i - 1 \in 1 .. n
    BY <1>1
  <2>3. Before(i)' = Before(i)
    BY <1>4, <2>2 DEF Before
  <2> QED BY <1>4, <2>1, <2>3 DEF Leads
<1>8. \A i \in 1 .. Len(frames') : Leads(i)'
  <2>1. \A i \in 1 .. n + 1 : i \in 1 .. n \/ i = n + 1
    OBVIOUS
  <2> QED BY <1>4, <1>6, <1>7, <2>1
<1>9. frames'[Len(frames')].contacts = fs'
  BY <1>2, <1>4
<1> QED BY <1>4, <1>8, <1>9 DEF Chain, RouterOf

LEMMA ChainAssemble == Inv /\ AssembleFrame => Chain'
<1> SUFFICES ASSUME TypeInv, Chain, AssembleFrame PROVE Chain'
  BY DEF Inv
<1>1. HasFrame(pending) /\ pending \in Seq(KernelEvents) /\ fs \in Pads
  BY DEF AssembleFrame, TypeInv, TypeOK
<1>2. HeadEvents \in Seq(ValidEvents)
  BY <1>1, HeadType, ValidFrame DEF AssembleFrame
<1>3. /\ fs' = ApplyEvents(fs, HeadEvents)
      /\ frames' = Append(frames, Frame(fs', HeadEvents, FALSE))
      /\ UNCHANGED <<router, vpad>>
  BY DEF AssembleFrame, processor
<1>4. fs' \in Pads
  BY <1>1, <1>2, <1>3, ApplyEventsType
<1>5. SameContacts(ApplyEvents(fs, HeadEvents), fs')
  BY <1>3 DEF SameContacts
<1> QED BY <1>2, <1>3, <1>4, <1>5, ChainAppend

LEMMA ChainQueryYs == Inv /\ QueryYs => Chain'
<1> SUFFICES ASSUME TypeInv, Chain, QueryYs PROVE Chain'
  BY DEF Inv
<1> DEFINE refreshed == [answer EXCEPT !.slots =
                           [s \in Slots |-> [@[s] EXCEPT !.y = phys.slots[s].y]]]
           events == ReconciliationEvents(fs, refreshed, kind)
<1>1. refreshed \in Pads /\ fs \in Pads
  BY AnswerTypes DEF TypeInv, TypeOK
<1>2. /\ fs' = refreshed /\ frames' = Append(frames, Frame(refreshed, events, TRUE))
      /\ UNCHANGED <<router, vpad>>
  BY DEF QueryYs, processor
<1> HIDE DEF refreshed
<1>3. events \in Seq(ValidEvents) /\ SameContacts(ApplyEvents(fs, events), fs')
  BY <1>1, <1>2, ReconciliationType, ReconciliationEffect
<1> HIDE DEF events
<1> QED BY <1>1, <1>2, <1>3, ChainAppend

LEMMA ChainProcess == Inv /\ ProcessFrame => Chain'
<1> SUFFICES ASSUME TypeInv, Chain, ProcessFrame PROVE Chain'
  BY DEF Inv
<1> DEFINE n == Len(frames)
           f == frames[1]
<1>1. frames \in Seq(FrameRecords) /\ frames # << >> /\ vpad \in Pads
  BY DEF TypeInv, TypeOK, ProcessFrame
<1>2. /\ f = Head(frames) /\ f \in FrameRecords /\ vpad' \in Pads
      /\ SameContacts(vpad', ApplyEvents(vpad, f.events))
      /\ router' = IF f.reconciled THEN RouterOf(f.contacts) ELSE RouterOf(vpad')
  BY ProcessEffect DEF Chain
<1>3. /\ n \in Nat /\ n >= 1 /\ frames' = Tail(frames) /\ Len(frames') = n - 1
      /\ \A i \in 1 .. n - 1 : frames'[i] = frames[i + 1]
  BY <1>1 DEF ProcessFrame
<1>4. fs' = fs
  BY DEF ProcessFrame, source
<1>5. SameContacts(vpad', f.contacts)
  <2>1. 1 \in 1 .. n
    BY <1>3
  <2>2. Leads(1)
    BY <2>1 DEF Chain
  <2> QED BY <1>2, <2>2 DEF Leads, Before, SameContacts
<1>6. router' = RouterOf(vpad')
  <2>1. RouterOf(f.contacts) = RouterOf(vpad')
    BY <1>5 DEF RouterOf, SameContacts
  <2> QED BY <1>2, <2>1
<1>7. \A i \in 1 .. Len(frames') : Leads(i)'
  <2> TAKE i \in 1 .. Len(frames')
  <2>1. i \in 1 .. n - 1 /\ i + 1 \in 1 .. n /\ i + 1 # 1 /\ i + 1 - 1 = i
    BY <1>3
  <2> DEFINE g == frames[i + 1]
  <2>2. Leads(i + 1) /\ g \in FrameRecords /\ frames'[i] = g
    BY <1>1, <1>3, <2>1 DEF Chain
  <2>3. SameContacts(ApplyEvents(frames[i].contacts, g.events), g.contacts)
    BY <2>1, <2>2 DEF Leads, Before
  <2>4. frames[i].contacts \in Pads /\ g.events \in Seq(ValidEvents)
    <3>1. frames[i] \in FrameRecords
      BY <1>1, <2>1
    <3> QED BY <2>2, <3>1 DEF FrameRecords
  <2>5. Before(i)' \in Pads /\ SameContacts(Before(i)', frames[i].contacts)
    <3>1. CASE i = 1
      BY <1>2, <1>5, <3>1 DEF Before
    <3>2. CASE i # 1
      <4>1. i - 1 \in 1 .. n - 1 /\ i - 1 + 1 = i
        BY <1>3, <2>1, <3>2
      <4>2. Before(i)' = frames[i].contacts
        BY <1>3, <3>2, <4>1 DEF Before
      <4> QED BY <2>4, <4>2 DEF SameContacts
    <3> QED BY <3>1, <3>2
  <2> HIDE DEF g
  <2>6. SameContacts(ApplyEvents(Before(i)', g.events), ApplyEvents(frames[i].contacts, g.events))
    BY <2>4, <2>5, ApplyEventsAgree
  <2> QED BY <2>2, <2>3, <2>6 DEF Leads, SameContacts
<1>8. frames' = << >> => SameContacts(vpad', fs')
  <2>1. frames' = << >> => n = 1
    <3>1. frames' = << >> => Len(frames') = 0
      OBVIOUS
    <3> QED BY <1>3, <3>1
  <2>2. n = 1 => f.contacts = fs
    BY <1>1 DEF Chain
  <2> QED BY <1>4, <1>5, <2>1, <2>2
<1>9. frames' # << >> => frames'[Len(frames')].contacts = fs'
  <2> HAVE frames' # << >>
  <2>1. n - 1 \in 1 .. n - 1 /\ n - 1 + 1 = n
    <3>1. Len(frames') # 0
      BY <1>1, <1>3
    <3> QED BY <1>3, <3>1
  <2>2. frames'[n - 1] = frames[n]
    BY <1>3, <2>1
  <2> QED BY <1>1, <1>3, <1>4, <2>2 DEF Chain
<1> QED BY <1>6, <1>7, <1>8, <1>9 DEF Chain

(***************************************************************************)
(* Every step keeps the invariant.                                         *)
(***************************************************************************)
LEMMA InvInit == Init => Inv
<1> SUFFICES ASSUME Init PROVE Chain
  BY TypeInit DEF Inv
<1> PICK slot \in Slots : phys = Quiet(Leftover, slot)
  BY DEF Init
<1>1. fs = Quiet(Leftover, slot) /\ vpad = Quiet(Origin, slot) /\ frames = << >>
  BY DEF Init, SelectMtSlot, Quiet
<1>2. SameContacts(vpad, fs)
  BY <1>1 DEF SameContacts, Quiet
<1>3. RouterOf(fs) = RouterOf(vpad)
  BY <1>2 DEF SameContacts, RouterOf
<1> QED BY <1>1, <1>2, <1>3 DEF Init, Chain

LEMMA InvNext == Inv /\ [Next]_vars => Inv'
<1> SUFFICES ASSUME Inv, [Next]_vars PROVE Inv'
  OBVIOUS
<1>1. CASE Report
  BY <1>1, TypeReport, ChainUnchanged DEF Inv, Report, source, processor
<1>2. CASE Fetch
  BY <1>2, TypeFetch, ChainUnchanged DEF Inv, Fetch, processor
<1>3. CASE TimeoutScrolling
  BY <1>3, TypeTimeoutScrolling, ChainUnchanged DEF Inv, TimeoutScrolling, processor
<1>4. CASE Assemble
  <2>1. CASE AssembleFrame
    BY <1>4, <2>1, TypeAssemble, ChainAssemble DEF Inv
  <2>2. CASE AssembleInvalid
    BY <1>4, <2>2, TypeAssemble, ChainUnchanged DEF Inv, AssembleInvalid, source, processor
  <2>3. CASE AssembleDropped
    BY <1>4, <2>3, TypeAssemble, ChainUnchanged DEF Inv, AssembleDropped, processor
  <2> QED BY <1>4, <2>1, <2>2, <2>3 DEF Assemble
<1>5. CASE Query
  <2>1. CASE QueryYs
    BY <1>5, <2>1, TypeQuery, ChainQueryYs DEF Inv
  <2>2. CASE QuerySlot \/ QueryKeys \/ QueryIds \/ QueryXs
    <3>1. UNCHANGED <<router, vpad, frames, fs>>
      BY <2>2 DEF QuerySlot, QueryKeys, QueryIds, QueryXs, processor
    <3> QED BY <1>5, <3>1, TypeQuery, ChainUnchanged DEF Inv
  <2> QED BY <1>5, <2>1, <2>2 DEF Query
<1>6. CASE ProcessFrame
  BY <1>6, TypeProcess, ChainProcess DEF Inv
<1>7. CASE LoopEnds
  <2>1. TypeInv'
    BY <1>7 DEF Inv, LoopEnds, TypeInv, TypeOK, device, source, processor
  <2> QED BY <1>7, <2>1, ChainUnchanged DEF Inv, LoopEnds, source, processor
<1>8. CASE UNCHANGED vars
  BY <1>8 DEF vars, Inv, TypeInv, TypeOK, Chain, Leads, Before
<1> QED
  BY <1>1, <1>2, <1>3, <1>4, <1>5, <1>6, <1>7, <1>8 DEF Next, Daemon, TimeoutIdle, Exited

LEMMA InvAlways == Spec => []Inv
BY InvInit, InvNext, PTL DEF Spec

(***************************************************************************)
(* The pipeline's state is what the code's types say, for every number of  *)
(* slots, batch size, buffer and geometry.                                 *)
(***************************************************************************)
THEOREM TypeCorrect == Spec => []TypeOK
<1>1. Inv => TypeOK
  BY DEF Inv, TypeInv
<1> QED BY <1>1, InvAlways, PTL

(***************************************************************************)
(* Whenever all frames are processed, router, virtual pad and device state *)
(* agree on selected slot, contacts and BTN_TOUCH (router.rs, evdev.rs).   *)
(***************************************************************************)
THEOREM InSync == Spec => []ProxyInSync
<1>1. Inv => ProxyInSync
  <2> SUFFICES ASSUME Chain, frames = << >>
               PROVE  router = RouterOf(fs) /\ RouterOf(vpad) = RouterOf(fs) /\ vpad.touch = fs.touch
    BY DEF Inv, ProxyInSync
  <2>1. SameContacts(vpad, fs) /\ router = RouterOf(vpad)
    BY DEF Chain
  <2>2. RouterOf(vpad) = RouterOf(fs)
    BY <2>1 DEF SameContacts, RouterOf
  <2> QED BY <2>1, <2>2 DEF SameContacts
<1> QED BY <1>1, InvAlways, PTL

(***************************************************************************)
(* The tracked contact is tracked for as long as it is on the pad, also    *)
(* when lower slots fill (proxy.rs:39-42, fsm.rs).                         *)
(***************************************************************************)
LEMMA TrackedStep ==
  ASSUME NEW f \in FsmStates, f.contact # NoContact, ScrollEnabled, NEW contacts \in Pads,
         contacts.touch, f.contact = ContactOf(contacts, f.contact.slot)
  PROVE  FsmStep(f, ForContact(contacts, f.contact)).contact = f.contact
<1> DEFINE touch == ForContact(contacts, f.contact)
<1>1. f.state \in {"Contact", "Moving", "Scrolling"}
  BY FsmContactType
<1>2. f.contact.id = contacts.slots[f.contact.slot].id
  <2>1. f.contact = [slot |-> f.contact.slot, id |-> contacts.slots[f.contact.slot].id]
    BY DEF ContactOf
  <2> QED BY ONLY <2>1
<1>3. touch.contact
  BY <1>2 DEF ForContact, TouchAt
<1> HIDE DEF touch
<1>4. FsmStep(f, touch).contact = f.contact
  BY <1>1, <1>3
    DEF FsmStep, StepContact, StepMoving, StepScrolling, FsmContact, FsmScrolling
<1> QED BY <1>4 DEF touch

THEOREM Tracked == Spec => TrackedContactKept
<1> DEFINE Kept ==
      (Processes /\ fsm.contact # NoContact /\ ScrollEnabled
        /\ Head(frames).contacts.touch
        /\ fsm.contact = ContactOf(Head(frames).contacts, fsm.contact.slot)) =>
      fsm'.contact = fsm.contact
<1>1. Inv /\ [Next]_vars => [Kept]_vars
  <2> SUFFICES ASSUME Inv, Next, Processes, fsm.contact # NoContact, ScrollEnabled,
                      Head(frames).contacts.touch,
                      fsm.contact = ContactOf(Head(frames).contacts, fsm.contact.slot)
               PROVE  fsm'.contact = fsm.contact
    OBVIOUS
  <2>1. CASE ProcessFrame
    <3>1. Head(frames).contacts \in Pads /\ fsm \in FsmStates
      BY <2>1, ProcessEffect DEF Inv, Chain, TypeInv, TypeOK, FrameRecords
    <3>2. fsm' = FsmStep(fsm, ForContact(Head(frames).contacts, fsm.contact))
      BY <2>1 DEF ProcessFrame, TouchFrame
    <3> QED BY <3>1, <3>2, TrackedStep
  <2>2. CASE ~ProcessFrame
    <3>1. fsm' = fsm
      BY <2>2 DEF Next, Daemon, Report, Fetch, TimeoutIdle, TimeoutScrolling, Assemble,
           AssembleFrame, AssembleInvalid, AssembleDropped, Query, QuerySlot, QueryKeys,
           QueryIds, QueryXs, QueryYs, LoopEnds, Exited, processor, vars
    <3> QED BY <3>1
  <2> QED BY <2>1, <2>2
<1> QED BY <1>1, InvAlways, PTL DEF Spec, TrackedContactKept

-----------------------------------------------------------------------------
(***************************************************************************)
(* The pipeline implements PadCopy: assembling a frame, from events or by  *)
(* a reconciliation, observes a view, processing one shows the oldest, the *)
(* ends of the loop stop the daemon, and everything else is invisible.     *)
(***************************************************************************)
LEMMA ProcessShows == Inv /\ ProcessFrame => View(vpad') = View(frames[1].contacts)
<1> SUFFICES ASSUME TypeInv, Chain, ProcessFrame
             PROVE  View(vpad') = View(frames[1].contacts)
  BY DEF Inv
<1> DEFINE f == frames[1]
<1>1. f = Head(frames) /\ f \in FrameRecords /\ SameContacts(vpad', ApplyEvents(vpad, f.events))
  BY ProcessEffect DEF Chain, TypeInv, ProcessFrame
<1>2. Leads(1)
  <2>1. 1 \in 1 .. Len(frames)
    BY DEF TypeInv, ProcessFrame
  <2> QED BY <2>1 DEF Chain
<1>3. SameContacts(vpad', f.contacts)
  BY <1>1, <1>2 DEF Leads, Before, SameContacts
<1> HIDE DEF f
<1> QED BY <1>3 DEF View, RouterOf, SameContacts, f

LEMMA ViewType ==
  ASSUME NEW pad \in Pads
  PROVE  View(pad) \in [contacts : Routers, touch : BOOLEAN]
<1>1. RouterOf(pad) \in Routers /\ pad.touch \in BOOLEAN
  BY RouterOfType DEF Pads
<1> QED BY <1>1 DEF View

LEMMA ObservesFrame ==
  ASSUME TypeInv, pc # "exit", pc' # "exit", UNCHANGED vpad,
         NEW f \in FrameRecords, frames' = Append(frames, f)
  PROVE  Copy!Observe
<1>1. frames \in Seq(FrameRecords)
  BY DEF TypeInv
<1>2. f.contacts \in Pads
  BY DEF FrameRecords
<1> PICK n \in Nat : n = Len(frames)
  BY <1>1
<1>3. /\ DOMAIN frames = 1 .. n /\ DOMAIN frames' = 1 .. n + 1
      /\ frames'[n + 1] = f /\ \A i \in 1 .. n : frames'[i] = frames[i]
  BY <1>1
<1>4. /\ Backlog \in Seq([contacts : Routers, touch : BOOLEAN])
      /\ Len(Backlog) = n /\ Backlog = [i \in 1 .. n |-> View(frames[i].contacts)]
  <2>1. \A i \in 1 .. n : View(frames[i].contacts) \in [contacts : Routers, touch : BOOLEAN]
    <3> TAKE i \in 1 .. n
    <3>1. frames[i] \in FrameRecords
      BY <1>1
    <3>2. frames[i].contacts \in Pads
      BY <3>1 DEF FrameRecords
    <3> QED BY <3>2, ViewType
  <2>2. Backlog = [i \in 1 .. n |-> View(frames[i].contacts)]
    BY <1>3 DEF Backlog
  <2> QED BY <2>1, <2>2
<1>5. Backlog' = [i \in 1 .. n + 1 |-> View(frames'[i].contacts)]
  BY <1>3 DEF Backlog, View, RouterOf
<1>6. /\ Len(Backlog') = n + 1 /\ Backlog'[n + 1] = View(f.contacts)
      /\ \A i \in 1 .. n : Backlog'[i] = Backlog[i]
  BY <1>3, <1>4, <1>5
<1>7. Backlog' = Append(Backlog, View(f.contacts))
  <2>1. Append(Backlog, View(f.contacts))
          = [i \in 1 .. n + 1 |-> IF i = n + 1 THEN View(f.contacts) ELSE Backlog[i]]
    BY <1>4
  <2> QED BY <1>4, <1>5, <1>6, <2>1
<1>8. View(vpad)' = View(vpad)
  BY DEF View, RouterOf
<1> QED BY <1>2, <1>4, <1>6, <1>7, <1>8, ViewType DEF Copy!Observe

LEMMA ShowsFrame == Inv /\ ProcessFrame => Copy!Show
<1> SUFFICES ASSUME Inv, ProcessFrame PROVE Copy!Show
  OBVIOUS
<1>1. frames \in Seq(FrameRecords) /\ frames # << >> /\ frames' = Tail(frames)
  BY DEF Inv, TypeInv, ProcessFrame
<1> PICK n \in Nat : n = Len(frames)
  BY <1>1
<1>2. n >= 1 /\ DOMAIN frames = 1 .. n /\ DOMAIN frames' = 1 .. n - 1
      /\ \A i \in 1 .. n - 1 : frames'[i] = frames[i + 1]
  BY <1>1
<1>3. /\ Backlog \in Seq([contacts : Routers, touch : BOOLEAN])
      /\ Backlog = [i \in 1 .. n |-> View(frames[i].contacts)]
  <2>1. \A i \in 1 .. n : View(frames[i].contacts) \in [contacts : Routers, touch : BOOLEAN]
    <3> TAKE i \in 1 .. n
    <3>1. frames[i] \in FrameRecords
      BY <1>1
    <3>2. frames[i].contacts \in Pads
      BY <3>1 DEF FrameRecords
    <3> QED BY <3>2, ViewType
  <2>2. Backlog = [i \in 1 .. n |-> View(frames[i].contacts)]
    BY <1>2 DEF Backlog
  <2> QED BY <2>1, <2>2
<1>4. Backlog' = [i \in 1 .. n - 1 |-> View(frames'[i].contacts)]
  BY <1>2 DEF Backlog, View, RouterOf
<1>5. Backlog' = [i \in 1 .. n - 1 |-> Backlog[i + 1]]
  BY <1>2, <1>3, <1>4
<1>6. Backlog # << >> /\ Len(Backlog) = n /\ Head(Backlog) = View(frames[1].contacts)
  BY <1>2, <1>3
<1>7. Backlog' = Tail(Backlog)
  BY <1>3, <1>5, <1>6
<1>8. View(vpad)' = View(vpad')
  BY DEF View, RouterOf
<1>9. pc # "exit" /\ pc' # "exit"
  BY DEF ProcessFrame
<1> QED BY <1>6, <1>7, <1>8, <1>9, ProcessShows DEF Copy!Show

LEMMA Invisible ==
  UNCHANGED <<frames, vpad>> => UNCHANGED <<Backlog, View(vpad)>>
BY DEF Backlog, View, RouterOf

LEMMA RefinesInit == Init => Copy!Init
<1> SUFFICES ASSUME Init PROVE Copy!Init
  OBVIOUS
<1> PICK slot \in Slots : phys = Quiet(Leftover, slot)
  BY DEF Init
<1>1. vpad = Quiet(Origin, slot) /\ frames = << >> /\ pc = "poll"
  BY DEF Init, SelectMtSlot, Quiet
<1>2. Backlog = << >>
  BY <1>1 DEF Backlog
<1> QED BY <1>1, <1>2 DEF Copy!Init

LEMMA RefinesNext == Inv /\ [Next]_vars => [Copy!Next]_(Copy!vars)
<1> SUFFICES ASSUME Inv, [Next]_vars PROVE [Copy!Next]_(Copy!vars)
  OBVIOUS
<1>1. CASE AssembleFrame
  <2>1. HasFrame(pending) /\ pending \in Seq(KernelEvents) /\ fs \in Pads
    BY <1>1 DEF AssembleFrame, Inv, TypeInv, TypeOK
  <2>2. HeadEvents \in Seq(ValidEvents)
    BY <1>1, <2>1, HeadType, ValidFrame DEF AssembleFrame
  <2>3. Frame(fs', HeadEvents, FALSE) \in FrameRecords
    BY <1>1, <2>1, <2>2, ApplyEventsType DEF AssembleFrame, Frame, FrameRecords
  <2>4. pc # "exit" /\ pc' # "exit" /\ UNCHANGED vpad
    BY <1>1, AfterAssemblyType DEF AssembleFrame, processor
  <2>5. frames' = Append(frames, Frame(fs', HeadEvents, FALSE))
    BY <1>1 DEF AssembleFrame
  <2> QED BY <2>3, <2>4, <2>5, ObservesFrame DEF Inv, Copy!Next
<1>2. CASE QueryYs
  <2> DEFINE refreshed == [answer EXCEPT !.slots =
                             [s \in Slots |-> [@[s] EXCEPT !.y = phys.slots[s].y]]]
             events == ReconciliationEvents(fs, refreshed, kind)
  <2>1. refreshed \in Pads /\ fs \in Pads
    BY AnswerTypes DEF Inv, TypeInv, TypeOK
  <2>2. /\ frames' = Append(frames, Frame(refreshed, events, TRUE))
        /\ pc # "exit" /\ UNCHANGED vpad
    BY <1>2 DEF QueryYs, processor
  <2>3. pc' # "exit"
    BY <1>2, AfterAssemblyType DEF QueryYs
  <2> HIDE DEF refreshed
  <2>4. events \in Seq(ValidEvents)
    BY <2>1, ReconciliationType
  <2> HIDE DEF events
  <2>5. Frame(refreshed, events, TRUE) \in FrameRecords
    BY <2>1, <2>4 DEF Frame, FrameRecords
  <2> QED BY <2>2, <2>3, <2>5, ObservesFrame DEF Inv, Copy!Next
<1>3. CASE ProcessFrame
  BY <1>3, ShowsFrame DEF Copy!Next
<1>4. CASE AssembleInvalid \/ LoopEnds
  <2>1. pc # "exit" /\ pc' = "exit" /\ UNCHANGED <<frames, vpad>>
    BY <1>4 DEF AssembleInvalid, LoopEnds, processor
  <2> QED BY <2>1, Invisible DEF Copy!Next, Copy!Stop
<1>5. CASE \/ Report \/ Fetch \/ TimeoutScrolling \/ AssembleDropped \/ UNCHANGED vars
           \/ QuerySlot \/ QueryKeys \/ QueryIds \/ QueryXs
  <2>1. UNCHANGED <<frames, vpad>>
    BY <1>5 DEF Report, Fetch, TimeoutScrolling, AssembleDropped, QuerySlot, QueryKeys,
         QueryIds, QueryXs, processor, vars
  <2>2. UNCHANGED pc \/ (pc # "exit" /\ pc' # "exit")
    BY <1>5, AfterAssemblyType DEF Report, Fetch, TimeoutScrolling, AssembleDropped, QuerySlot,
         QueryKeys, QueryIds, QueryXs, vars
  <2>3. UNCHANGED (pc # "exit")
    BY <2>2
  <2> QED BY <2>1, <2>3, Invisible DEF Copy!vars
<1> QED
  BY <1>1, <1>2, <1>3, <1>4, <1>5 DEF Next, Daemon, Assemble, Query, TimeoutIdle, Exited

(***************************************************************************)
(* Whatever is lost, reconciled or captured, readers of the virtual pad    *)
(* see the observed contacts in order, none left out (proxy.rs, router.rs).*)
(***************************************************************************)
THEOREM CopiesSound == Spec => CopiesInOrder
<1> QED BY RefinesInit, RefinesNext, InvAlways, PTL DEF Spec, CopiesInOrder, Copy!Spec

-----------------------------------------------------------------------------
(***************************************************************************)
(* Captures.  Where a frame names its contacts before it places them, the  *)
(* captured contact is held where it was, and the rest of the frame is     *)
(* forwarded as if there were no capture (router.rs route_frame,           *)
(* suppress_position).                                                     *)
(***************************************************************************)
Placed(pad, events, slot) == \E i \in 1 .. Len(events) : Places(pad, events, i, slot)

LEMMA SelectedPrefix ==
  ASSUME NEW pad, NEW events \in Seq(ValidEvents), NEW e \in ValidEvents
  PROVE  LET more == Append(events, e)
             n == Len(events)
         IN  /\ \A i \in 1 .. n : /\ SelectedBy(pad, more, i) = SelectedBy(pad, events, i)
                                  /\ more[i] = events[i]
             /\ SelectedBy(pad, more, n + 1) = ApplyEvents(pad, more).cur
             /\ more[n + 1] = e /\ Len(more) = n + 1 /\ n \in Nat
<1> DEFINE more == Append(events, e)
           n == Len(events)
<1>1. /\ more[n + 1] = e /\ Len(more) = n + 1 /\ n \in Nat /\ more \in Seq(ValidEvents)
      /\ \A i \in 1 .. n : more[i] = events[i]
  OBVIOUS
<1>2. SubSeq(more, 1, n + 1) = more
  BY <1>1, SubSeqFull
<1>3. ASSUME NEW i \in 1 .. n PROVE SubSeq(more, 1, i) = SubSeq(events, 1, i)
  <2>1. i \in Nat /\ i <= Len(more) /\ i <= Len(events) /\ 1 <= i
    BY <1>1
  <2> DEFINE a == SubSeq(more, 1, i)
             b == SubSeq(events, 1, i)
  <2>2. /\ a \in Seq(ValidEvents) /\ b \in Seq(ValidEvents) /\ Len(a) = i /\ Len(b) = i
        /\ \A j \in 1 .. i : a[j] = more[j] /\ b[j] = events[j]
    BY <1>1, <2>1
  <2>3. \A j \in 1 .. i : j \in 1 .. n
    BY <1>1
  <2> HIDE DEF a, b
  <2> QED BY <1>1, <2>2, <2>3, SeqEqual
<1> QED BY <1>1, <1>2, <1>3 DEF SelectedBy

LEMMA NamesFirstAppend ==
  ASSUME NEW pad, NEW events \in Seq(ValidEvents), NEW e \in ValidEvents, NEW slot \in Slots
  PROVE  LET more == Append(events, e)
             cur == ApplyEvents(pad, more).cur
         IN  /\ Placed(pad, more, slot) <=>
                  \/ Placed(pad, events, slot)
                  \/ (e.type \in {"X", "Y"} /\ cur = slot)
             /\ NamesFirst(pad, more, slot) <=>
                  /\ NamesFirst(pad, events, slot)
                  /\ (e.type = "ID" /\ cur = slot) => ~Placed(pad, events, slot)
<1> DEFINE more == Append(events, e)
           cur == ApplyEvents(pad, more).cur
<1> PICK n \in Nat : n = Len(events)
  OBVIOUS
<1>1. /\ Len(more) = n + 1
      /\ \A i \in 1 .. n :
           /\ Places(pad, more, i, slot) <=> Places(pad, events, i, slot)
           /\ Names(pad, more, i, slot) <=> Names(pad, events, i, slot)
      /\ Places(pad, more, n + 1, slot) <=> (e.type \in {"X", "Y"} /\ cur = slot)
      /\ Names(pad, more, n + 1, slot) <=> (e.type = "ID" /\ cur = slot)
  BY SelectedPrefix DEF Places, Names
<1>2. \A i : i \in 1 .. n + 1 <=> i \in 1 .. n \/ i = n + 1
  OBVIOUS
<1> HIDE DEF more, cur
<1>3. Placed(pad, more, slot) <=>
        Placed(pad, events, slot) \/ (e.type \in {"X", "Y"} /\ cur = slot)
  <2>1. CASE \E i \in 1 .. n : Places(pad, events, i, slot)
    BY <1>1, <1>2, <2>1 DEF Placed
  <2>2. CASE e.type \in {"X", "Y"} /\ cur = slot
    BY <1>1, <1>2, <2>2 DEF Placed
  <2>3. CASE /\ ~ \E i \in 1 .. n : Places(pad, events, i, slot)
             /\ ~(e.type \in {"X", "Y"} /\ cur = slot)
    BY <1>1, <1>2, <2>3 DEF Placed
  <2> QED BY <2>1, <2>2, <2>3
<1>4. ASSUME NamesFirst(pad, more, slot)
      PROVE  /\ NamesFirst(pad, events, slot)
             /\ (e.type = "ID" /\ cur = slot) => ~Placed(pad, events, slot)
  <2>1. NamesFirst(pad, events, slot)
    BY <1>1, <1>2, <1>4 DEF NamesFirst
  <2>2. ASSUME e.type = "ID", cur = slot, NEW i \in 1 .. n, Places(pad, events, i, slot)
        PROVE  FALSE
    <3>1. Places(pad, more, i, slot) /\ Names(pad, more, n + 1, slot)
      BY <1>1, <2>2
    <3>2. n + 1 < i
      BY <1>1, <1>2, <1>4, <3>1 DEF NamesFirst
    <3> QED BY <3>2
  <2> QED BY <2>1, <2>2 DEF Placed
<1>5. ASSUME NamesFirst(pad, events, slot),
             (e.type = "ID" /\ cur = slot) => ~Placed(pad, events, slot),
             NEW i \in 1 .. n + 1, NEW j \in 1 .. n + 1,
             Places(pad, more, i, slot), Names(pad, more, j, slot)
      PROVE  j < i
  <2>1. CASE i \in 1 .. n /\ j \in 1 .. n
    BY <1>1, <1>5, <2>1 DEF NamesFirst
  <2>2. CASE i \in 1 .. n /\ j = n + 1
    BY <1>1, <1>5, <2>2 DEF Placed
  <2>3. CASE i = n + 1 /\ j \in 1 .. n
    BY <2>3
  <2>4. ~(i = n + 1 /\ j = n + 1)
    BY <1>1, <1>5
  <2> QED BY <1>2, <2>1, <2>2, <2>3, <2>4
<1>6. ASSUME NamesFirst(pad, events, slot),
             (e.type = "ID" /\ cur = slot) => ~Placed(pad, events, slot)
      PROVE  NamesFirst(pad, more, slot)
  BY <1>1, <1>5, <1>6 DEF NamesFirst
<1> QED BY <1>3, <1>4, <1>6 DEF more, cur

\* The slot holds the captured contact.
Holds(pad, slot, capture) ==
  capture # NoContact /\ capture.slot = slot /\ pad.slots[slot].id = capture.id

SamePlace(p, q, slot) ==
  p.slots[slot].x = q.slots[slot].x /\ p.slots[slot].y = q.slots[slot].y

LEMMA RouteEventEffect ==
  ASSUME NEW routed \in RoutedPads, NEW capture, NEW e \in ValidEvents
  PROVE  RouteEvent(routed, capture, e).vpad =
           IF e.type \in {"X", "Y"} /\ Holds(routed.vpad, routed.vpad.cur, capture)
           THEN routed.vpad ELSE ApplyEvent(routed.vpad, e)
<1>1. routed.vpad \in Pads /\ routed.router = RouterOf(routed.vpad)
  BY RoutedPadsType
<1>2. CASE e.type \in {"X", "Y"}
  <2>1. TrackEvent(routed.router, e) = routed.router
    BY <1>2 DEF TrackEvent
  <2>2. SuppressPosition(routed.router, capture, e) <=>
          Holds(routed.vpad, routed.vpad.cur, capture)
    BY <1>1, <1>2 DEF SuppressPosition, Holds, RouterOf, Pads
  <2> QED BY <1>2, <2>1, <2>2 DEF RouteEvent
<1>3. CASE e.type \notin {"X", "Y"}
  BY <1>3 DEF RouteEvent, SuppressPosition
<1> QED BY <1>2, <1>3

\* What routing makes of a frame (r), against the frame itself (a), in the
\* slots the frame names before it places them (first).
HeldBack(v, r, a, capture, placed, first) ==
  /\ SameContacts(r, a) /\ r.btn = a.btn
  /\ \A slot \in first :
       /\ slot \notin placed => SamePlace(r, v, slot) /\ SamePlace(a, v, slot)
       /\ Holds(a, slot, capture) => SamePlace(r, v, slot)
       /\ ~Holds(a, slot, capture) => SamePlace(r, a, slot)

LEMMA HeldBackStep ==
  ASSUME NEW v \in Pads, NEW r \in Pads, NEW a \in Pads, NEW capture, NEW placed,
         NEW first \in SUBSET Slots, HeldBack(v, r, a, capture, placed, first),
         NEW e \in ValidEvents, NEW kept \in SUBSET first,
         NEW more, \A slot \in Slots : slot \in more <=>
                     (slot \in placed \/ (e.type \in {"X", "Y"} /\ a.cur = slot)),
         e.type = "ID" /\ a.cur \in kept => a.cur \notin placed
  PROVE  HeldBack(v,
                  IF e.type \in {"X", "Y"} /\ Holds(r, r.cur, capture) THEN r ELSE ApplyEvent(r, e),
                  ApplyEvent(a, e), capture, more, kept)
<1> DEFINE r1 == ApplyEvent(r, e)
           a1 == ApplyEvent(a, e)
           to == IF e.type \in {"X", "Y"} /\ Holds(r, r.cur, capture) THEN r ELSE r1
<1>1. /\ r.cur = a.cur /\ r.touch = a.touch /\ r.btn = a.btn /\ a.cur \in Slots
      /\ \A slot \in Slots : r.slots[slot].id = a.slots[slot].id
  BY DEF HeldBack, SameContacts, Pads
<1>2. /\ SameContacts(r1, a1) /\ r1.btn = a1.btn
  BY <1>1, ApplyEventEffect DEF SameContacts
<1>3. CASE e.type \in {"X", "Y"}
  <2>1. /\ a1.cur = a.cur /\ a1.touch = a.touch /\ a1.btn = a.btn
        /\ r1.cur = r.cur /\ r1.touch = r.touch /\ r1.btn = r.btn
        /\ \A slot \in Slots : /\ a1.slots[slot].id = a.slots[slot].id
                               /\ r1.slots[slot].id = r.slots[slot].id
                               /\ slot # a.cur => SamePlace(a1, a, slot) /\ SamePlace(r1, r, slot)
                               /\ SamePlace(a, r, slot) => SamePlace(a1, r1, slot)
    BY <1>1, <1>3, ApplyEventEffect DEF SamePlace
  <2>2. SameContacts(to, a1) /\ to.btn = a1.btn
    BY <1>1, <1>2, <2>1 DEF SameContacts
  <2>3. ASSUME NEW slot \in kept
        PROVE  /\ slot \notin more => SamePlace(to, v, slot) /\ SamePlace(a1, v, slot)
               /\ Holds(a1, slot, capture) => SamePlace(to, v, slot)
               /\ ~Holds(a1, slot, capture) => SamePlace(to, a1, slot)
    <3>1. /\ slot \notin placed => SamePlace(r, v, slot) /\ SamePlace(a, v, slot)
          /\ Holds(a, slot, capture) => SamePlace(r, v, slot)
          /\ ~Holds(a, slot, capture) => SamePlace(r, a, slot)
      BY DEF HeldBack
    <3>2. Holds(a1, slot, capture) <=> Holds(a, slot, capture)
      BY <2>1 DEF Holds
    <3>3. Holds(r, slot, capture) <=> Holds(a, slot, capture)
      BY <1>1 DEF Holds
    <3>4. slot \notin more => slot \notin placed /\ slot # a.cur
      BY <1>3
    <3> HIDE DEF r1, a1
    <3>5. CASE slot # a.cur
      BY <1>1, <2>1, <3>1, <3>2, <3>4, <3>5 DEF SamePlace
    <3>6. CASE slot = a.cur /\ Holds(a, slot, capture)
      BY <1>1, <1>3, <3>1, <3>2, <3>3, <3>4, <3>6
    <3>7. CASE slot = a.cur /\ ~Holds(a, slot, capture)
      <4>1. to = r1
        BY <1>1, <3>3, <3>7
      <4>2. SamePlace(a1, r1, slot)
        BY <2>1, <3>1, <3>7 DEF SamePlace
      <4> QED BY <3>2, <3>4, <3>7, <4>1, <4>2 DEF SamePlace
    <3> QED BY <3>5, <3>6, <3>7
  <2> HIDE DEF to, a1, r1
  <2>4. HeldBack(v, to, a1, capture, more, kept)
    BY <2>2, <2>3 DEF HeldBack
  <2> QED BY <2>4 DEF to, a1, r1
<1>4. CASE e.type \notin {"X", "Y"}
  <2>1. /\ to = r1
        /\ \A slot \in Slots : /\ SamePlace(a1, a, slot) /\ SamePlace(r1, r, slot)
                               /\ slot # a.cur => a1.slots[slot].id = a.slots[slot].id
                               /\ e.type # "ID" => a1.slots[slot].id = a.slots[slot].id
    BY <1>4, <1>1, ApplyEventEffect DEF SamePlace
  <2>2. ASSUME NEW slot \in kept
        PROVE  /\ slot \notin more => SamePlace(r1, v, slot) /\ SamePlace(a1, v, slot)
               /\ Holds(a1, slot, capture) => SamePlace(r1, v, slot)
               /\ ~Holds(a1, slot, capture) => SamePlace(r1, a1, slot)
    <3>1. /\ slot \notin placed => SamePlace(r, v, slot) /\ SamePlace(a, v, slot)
          /\ Holds(a, slot, capture) => SamePlace(r, v, slot)
          /\ ~Holds(a, slot, capture) => SamePlace(r, a, slot)
          /\ SamePlace(a1, a, slot) /\ SamePlace(r1, r, slot)
      BY <2>1 DEF HeldBack
    <3>2. slot \notin more <=> slot \notin placed
      BY <1>4
    <3>3. CASE e.type = "ID" /\ slot = a.cur
      <4>1. slot \notin placed
        BY <3>3
      <4> QED BY <3>1, <3>2, <4>1 DEF SamePlace
    <3>4. CASE ~(e.type = "ID" /\ slot = a.cur)
      <4>1. Holds(a1, slot, capture) <=> Holds(a, slot, capture)
        BY <2>1, <3>4 DEF Holds
      <4> QED BY <3>1, <3>2, <4>1 DEF SamePlace
    <3> QED BY <3>3, <3>4
  <2> HIDE DEF a1, r1
  <2>3. HeldBack(v, r1, a1, capture, more, kept)
    BY <1>2, <2>2 DEF HeldBack
  <2> QED BY <2>1, <2>3 DEF to, a1, r1
<1> QED BY <1>3, <1>4

LEMMA RouteFrameHeldBack ==
  ASSUME NEW v \in Pads, NEW capture, NEW events \in Seq(ValidEvents)
  PROVE  HeldBack(v, RouteFrame(RouterOf(v), v, capture, events).vpad,
                  ApplyEvents(v, events), capture,
                  {slot \in Slots : Placed(v, events, slot)},
                  {slot \in Slots : NamesFirst(v, events, slot)})
<1> DEFINE Routed(s) == RouteFrame(RouterOf(v), v, capture, s)
           PlacedIn(s) == {slot \in Slots : Placed(v, s, slot)}
           NamedIn(s) == {slot \in Slots : NamesFirst(v, s, slot)}
           Kept(s) == HeldBack(v, Routed(s).vpad, ApplyEvents(v, s), capture, PlacedIn(s),
                               NamedIn(s))
           S == {s \in Seq(ValidEvents) : Kept(s)}
<1>1. << >> \in S
  <2>1. << >> \in Seq(ValidEvents)
    OBVIOUS
  <2>2. Routed(<< >>).vpad = v /\ ApplyEvents(v, << >>) = v
    BY RouteFrameNone, ApplyNone DEF Unrouted
  <2>3. HeldBack(v, v, v, capture, PlacedIn(<< >>), NamedIn(<< >>))
    BY DEF HeldBack, SameContacts, SamePlace
  <2> HIDE DEF Routed, PlacedIn, NamedIn
  <2>4. Kept(<< >>)
    BY <2>2, <2>3
  <2> HIDE DEF Kept
  <2> QED BY <2>1, <2>4
<1>2. ASSUME NEW s \in Seq(ValidEvents), NEW e \in ValidEvents, s \in S
      PROVE  Append(s, e) \in S
  <2> DEFINE more == Append(s, e)
             a == ApplyEvents(v, s)
             r == Routed(s).vpad
  <2>1. more \in Seq(ValidEvents)
    OBVIOUS
  <2> SUFFICES Kept(more)
    BY <2>1
  <2>2. NamedIn(s) \in SUBSET Slots /\ NamedIn(more) \in SUBSET NamedIn(s)
    BY NamesFirstAppend
  <2>3. HeldBack(v, r, a, capture, PlacedIn(s), NamedIn(s))
    BY <1>2
  <2>4. Routed(s) \in RoutedPads /\ Routed(more) = RouteEvent(Routed(s), capture, e)
    BY RouteFrameAppend
  <2>5. a \in Pads /\ r \in Pads /\ ApplyEvents(v, more) = ApplyEvent(a, e)
    <3>1. r \in Pads
      <4> HIDE DEF Routed
      <4> QED BY <2>4, RoutedPadsType
    <3> QED BY <3>1, ApplyEventsType, ApplyEventsAppend
  <2>6. Routed(more).vpad = IF e.type \in {"X", "Y"} /\ Holds(r, r.cur, capture)
                            THEN r ELSE ApplyEvent(r, e)
    <3> HIDE DEF Routed
    <3> QED BY <2>4, RouteEventEffect
  <2>7. e.type \in {"ID", "X", "Y"} => ApplyEvents(v, more).cur = a.cur
    <3> HIDE DEF a
    <3> QED BY <2>5, ApplyEventEffect
  <2>8. \A slot \in Slots : slot \in PlacedIn(more) <=>
                              (slot \in PlacedIn(s) \/ (e.type \in {"X", "Y"} /\ a.cur = slot))
    <3>1. \A slot \in Slots : Placed(v, more, slot) <=>
            Placed(v, s, slot) \/ (e.type \in {"X", "Y"} /\ ApplyEvents(v, more).cur = slot)
      BY NamesFirstAppend
    <3> HIDE DEF a, more
    <3> QED BY <2>7, <3>1
  <2>9. e.type = "ID" /\ a.cur \in NamedIn(more) => a.cur \notin PlacedIn(s)
    <3>1. \A slot \in Slots : NamesFirst(v, more, slot) =>
            (e.type = "ID" /\ ApplyEvents(v, more).cur = slot => ~Placed(v, s, slot))
      BY NamesFirstAppend
    <3> HIDE DEF a, more
    <3> QED BY <2>7, <3>1
  <2> HIDE DEF a, r, Routed, PlacedIn, NamedIn, more
  <2>10. HeldBack(v, IF e.type \in {"X", "Y"} /\ Holds(r, r.cur, capture)
                     THEN r ELSE ApplyEvent(r, e),
                  ApplyEvent(a, e), capture, PlacedIn(more), NamedIn(more))
    BY <2>2, <2>3, <2>5, <2>8, <2>9, HeldBackStep
  <2> QED BY <2>5, <2>6, <2>10
<1>3. Seq(ValidEvents) \subseteq S
  <2> HIDE DEF S
  <2> QED BY <1>1, <1>2, SeqInduction
<1> QED BY <1>3

(***************************************************************************)
(* What processing a frame does to the virtual pad, capture or not.        *)
(***************************************************************************)
LEMMA CaptureOf ==
  ASSUME fsm \in FsmStates, fsm' \in FsmStates
  PROVE  Capture(fsm, fsm') \in ContactIds \cup {NoContact}
BY FsmContactType DEF Capture

LEMMA ProcessHeldBack ==
  ASSUME Inv, ProcessFrame
  PROVE  LET frame == Head(frames)
             capture == Capture(fsm, fsm')
             free == RouteFrame(router, vpad, NoContact, frame.events).vpad
         IN  /\ frame \in FrameRecords /\ free \in Pads /\ SameContacts(free, frame.contacts)
             /\ vpad'.touch = free.touch /\ vpad'.btn = free.btn
             /\ \A slot \in Slots : NamesFirst(vpad, frame.events, slot) =>
                  /\ Holds(frame.contacts, slot, capture) => SamePlace(vpad', vpad, slot)
                  /\ ~Holds(frame.contacts, slot, capture) => vpad'.slots[slot] = free.slots[slot]
<1> DEFINE frame == Head(frames)
           capture == Capture(fsm, fsm')
           free == RouteFrame(router, vpad, NoContact, frame.events).vpad
<1>1. /\ frame \in FrameRecords /\ frame = frames[1] /\ frames # << >>
      /\ vpad' \in Pads /\ vpad \in Pads /\ router = RouterOf(vpad)
  BY ProcessEffect DEF Inv, Chain, TypeInv, TypeOK, ProcessFrame
<1>2. frame.events \in Seq(ValidEvents)
  BY <1>1 DEF FrameRecords
<1>3. vpad' = RouteFrame(router, vpad, capture, frame.events).vpad
  <2>1. fsm' = FsmStep(fsm, TouchFrame(frame.contacts))
    BY DEF ProcessFrame
  <2> QED BY <2>1 DEF ProcessFrame
<1>4. free = ApplyEvents(vpad, frame.events) /\ free \in Pads
  BY <1>1, <1>2, RouteFrameFree, ApplyEventsType
<1>5. SameContacts(free, frame.contacts)
  <2>1. Leads(1)
    <3>1. 1 \in 1 .. Len(frames)
      BY <1>1 DEF Inv, TypeInv
    <3> QED BY <3>1 DEF Inv, Chain
  <2> QED BY <1>1, <1>4, <2>1 DEF Leads, Before
<1> HIDE DEF frame, capture, free
<1>6. HeldBack(vpad, vpad', free, capture, {slot \in Slots : Placed(vpad, frame.events, slot)},
               {slot \in Slots : NamesFirst(vpad, frame.events, slot)})
  BY <1>1, <1>2, <1>3, <1>4, RouteFrameHeldBack
<1>7. ASSUME NEW slot \in Slots, NamesFirst(vpad, frame.events, slot)
      PROVE  /\ Holds(frame.contacts, slot, capture) => SamePlace(vpad', vpad, slot)
             /\ ~Holds(frame.contacts, slot, capture) => vpad'.slots[slot] = free.slots[slot]
  <2>1. Holds(frame.contacts, slot, capture) <=> Holds(free, slot, capture)
    BY <1>5 DEF Holds, SameContacts
  <2>2. vpad'.slots[slot] \in SlotStates /\ free.slots[slot] \in SlotStates
    BY <1>1, <1>4 DEF Pads
  <2>3. vpad'.slots[slot].id = free.slots[slot].id
    BY <1>6 DEF HeldBack, SameContacts
  <2>4. SamePlace(vpad', free, slot) => vpad'.slots[slot] = free.slots[slot]
    BY <2>2, <2>3 DEF SamePlace, SlotStates
  <2> QED BY <1>6, <1>7, <2>1, <2>4 DEF HeldBack
<1>8. vpad'.touch = free.touch /\ vpad'.btn = free.btn
  BY <1>6 DEF HeldBack, SameContacts
<1> QED BY <1>1, <1>4, <1>5, <1>7, <1>8 DEF frame, capture, free

LEMMA CapturedPresent ==
  ASSUME fsm \in FsmStates, NEW contacts \in Pads, Capturable(fsm), Capturable(fsm'),
         fsm' = FsmStep(fsm, TouchFrame(contacts)), fsm.contact = fsm'.contact
  PROVE  /\ fsm.contact \in ContactIds
         /\ Holds(contacts, fsm.contact.slot, Capture(fsm, fsm'))
<1>1. fsm.contact \in ContactIds /\ fsm.contact # NoContact
  BY FsmContactType DEF Capturable
<1>2. TouchFrame(contacts) = ForContact(contacts, fsm.contact)
  BY <1>1 DEF TouchFrame
<1> DEFINE touch == ForContact(contacts, fsm.contact)
<1>3. touch.contact
  <2> SUFFICES ASSUME ~touch.contact PROVE FALSE
    OBVIOUS
  <2>1. fsm' = FsmStep(fsm, touch)
    BY <1>2
  <2> HIDE DEF touch
  <2>2. FsmStep(fsm, touch) \in {FsmIdle, FsmDebounce}
    BY DEF Capturable, FsmStep, StepMoving, StepScrolling
  <2> QED BY <2>1, <2>2 DEF Capturable, FsmIdle, FsmDebounce
<1>4. contacts.slots[fsm.contact.slot].id = fsm.contact.id
  BY <1>3 DEF ForContact, NoTouch
<1>5. Capture(fsm, fsm') = fsm.contact
  BY DEF Capture, Capturable
<1> QED BY <1>1, <1>4, <1>5 DEF Holds

LEMMA VpadChanges ==
  ASSUME [Next]_vars, ~ProcessFrame
  PROVE  vpad' = vpad
BY DEF Next, Daemon, Report, Fetch, TimeoutIdle, TimeoutScrolling, Assemble, AssembleFrame,
       AssembleInvalid, AssembleDropped, Query, QuerySlot, QueryKeys, QueryIds, QueryXs,
       QueryYs, LoopEnds, Exited, processor, vars
=============================================================================
