------------------------------- MODULE Router -------------------------------
(***************************************************************************)
(* The event router (src/src/router.rs) and the virtual touchpad it feeds  *)
(* (src/src/uinput.rs).  The router keeps its own copy of the selected     *)
(* slot and of the tracking ids, so that it can tell, event by event,      *)
(* which positions belong to a captured contact.                           *)
(*                                                                         *)
(* route_frame collects its output in a vector that is written to the      *)
(* virtual device in one call afterwards; here each event that is routed   *)
(* is applied to the virtual pad at once, which is the same net effect.    *)
(* ABS_X and ABS_Y, the single-touch copy of a position, are suppressed    *)
(* together with the captured contact and are left out.                    *)
(***************************************************************************)
EXTENDS TypeB

Routers == [cur : Slots, ids : [Slots -> TrackingIds]]

\* Router::from_snapshot and Router::reconcile.
RouterOf(pad) ==
  [cur |-> pad.cur, ids |-> [slot \in Slots |-> pad.slots[slot].id]]

\* The part of route_frame that follows the selected slot and its identity.
TrackEvent(router, e) ==
  CASE e.type = "SLOT" -> [router EXCEPT !.cur = e.value]
    [] e.type = "ID"   -> [router EXCEPT !.ids[router.cur] = e.value]
    [] OTHER           -> router

\* Seeded faults: every event in the captured slot is held back; every
\* position is held back, whichever slot is selected.
FaultySuppressSlot(router, capture, e) ==
  capture # NoContact /\ router.cur = capture.slot
FaultySuppressAll(router, capture, e) ==
  capture # NoContact /\ e.type \in {"X", "Y"}

\* Router::suppress_position; capture is a contact, or NoContact to pass all.
SuppressPosition(router, capture, e) ==
  /\ capture # NoContact
  /\ e.type \in {"X", "Y"}
  /\ router.cur = capture.slot
  /\ router.ids[capture.slot] = capture.id

RouteEvent(routed, capture, e) ==
  LET router == TrackEvent(routed.router, e)
  IN  [router |-> router,
       vpad   |-> IF SuppressPosition(router, capture, e)
                  THEN routed.vpad ELSE ApplyEvent(routed.vpad, e)]

\* Router::route_frame, then UinputTouchpad::forward.
RouteFrame(router, vpad, capture, events) ==
  LET after[i \in 0 .. Len(events)] ==
        IF i = 0 THEN [router |-> router, vpad |-> vpad]
        ELSE RouteEvent(after[i - 1], capture, events[i])
  IN  after[Len(events)]
=============================================================================
