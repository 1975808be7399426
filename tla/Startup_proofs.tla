--------------------------- MODULE Startup_proofs ---------------------------
(***************************************************************************)
(* The promises of the take-over, for every number of slots and reports,   *)
(* every buffer and batch size, and failing calls and signals anywhere.    *)
(***************************************************************************)
EXTENDS Startup, KernelPad_proofs

(***************************************************************************)
(* The inductive invariant.  Settled is what readiness stands on; it holds *)
(* from the instant the keys are read under the grab with nothing pressed, *)
(* because BTN_TOUCH is pressed whenever a contact is on the pad: what the *)
(* later ioctls of the query see does not matter.                          *)
(***************************************************************************)
Confirmed == {"initialize", "notify", "run"}

Phases ==
  /\ pc \in {"drain", "inspect", "wait", "grab", "exit"} => ~grabbed
  /\ pc \in {"confirm"} \cup Confirmed => grabbed
  /\ startup.stable => pc \in Confirmed
  /\ ready => pc = "run"

\* Without a race the other readers believe in no contact that is not there.
OthersLag ==
  (~raced /\ ~startup.stable) =>
    \A s \in Slots : others[s] \in {Inactive, phys.slots[s].id}

QuietIsRecorded == (grabbed /\ IsQuiescent(phys)) => quiet

Settled ==
  /\ quiet
  /\ ~raced => \A s \in Slots : others[s] = Inactive

SettledSince ==
  /\ (/\ pc \in {"query ids", "query xs", "query ys"} /\ grabbed
      /\ ~answer.touch /\ ~answer.btn) => Settled
  /\ (pc = "confirm" /\ ~fs.touch /\ ~fs.btn) => Settled
  /\ pc \in Confirmed => Settled

Inv ==
  /\ TypeOK
  /\ TouchIsContact(phys)
  /\ Phases
  /\ OthersLag
  /\ QuietIsRecorded
  /\ SettledSince

LEMMA UntouchedType == Untouched \in Pads /\ TouchIsContact(Untouched)
<1>1. 0 \in Slots
  BY NSlotsAssumption DEF Slots
<1>2. Origin.x \in Int /\ Origin.y \in Int
  BY StartupAssumption DEF Positions
<1> QED
  BY <1>1, <1>2
    DEF Untouched, Pads, SlotStates, TrackingIds, TouchIsContact, IsActive, Inactive

LEMMA InvInit == Init => Inv
<1> SUFFICES ASSUME Init PROVE Inv
  OBVIOUS
<1>1. TypeOK
  <2>1. phys \in Pads /\ fs \in Pads /\ answer \in Pads
    BY UntouchedType DEF Init
  <2>2. others \in [Slots -> TrackingIds]
    BY DEF Init, TrackingIds
  <2>3. queue \in Seq(KernelEvents)
    BY DEF Init
  <2>4. startup \in [stable : BOOLEAN, initialized : BOOLEAN]
    BY DEF Init, NotReady
  <2> QED BY <2>1, <2>2, <2>3, <2>4 DEF Init, TypeOK
<1>2. TouchIsContact(phys)
  BY UntouchedType DEF Init
<1>3. OthersLag
  BY DEF Init, OthersLag
<1> QED
  BY <1>1, <1>2, <1>3
    DEF Init, Inv, Phases, QuietIsRecorded, SettledSince, Confirmed, NotReady

(***************************************************************************)
(* A report keeps it: under the grab the other readers see nothing, and a  *)
(* contact they believe in can only leave as a recorded race.              *)
(***************************************************************************)
LEMMA ReportStep == Inv /\ Report => Inv'
<1> SUFFICES ASSUME Inv, Report PROVE Inv'
  OBVIOUS
<1>1. PICK r \in Reports(phys, next) :
        phys' = r.pad /\ next' = r.next /\ queue' = PushReport(queue, r.events)
  BY DEF Report
<1>2. r \in KernelReports /\ TouchIsContact(r.pad)
  BY ReportsType DEF Inv, TypeOK
<1>3. phys' \in Pads /\ next' \in Nat /\ TouchIsContact(phys)' /\ r.events \in Seq(Events)
  BY <1>1, <1>2 DEF KernelReports, TouchIsContact, IsActive
<1>4. queue' \in Seq(KernelEvents)
  BY <1>1, <1>3, PushReportType DEF Inv, TypeOK
<1>5. /\ reports' = reports + 1
      /\ others' = [s \in Slots |->
                      IF grabbed \/ phys'.slots[s].id = phys.slots[s].id
                      THEN others[s] ELSE phys'.slots[s].id]
      /\ quiet' = (quiet \/ (grabbed /\ IsQuiescent(phys')))
      /\ raced' = \/ raced
                   \/ /\ grabbed /\ ~startup.stable
                      /\ \E s \in Slots : Lifted(phys, phys', s)
      /\ UNCHANGED <<signal, grabbed, pc, fs, answer, startup, ready>>
  BY DEF Report
<1>6. others' \in [Slots -> TrackingIds]
  <2>1. \A s \in Slots : phys'.slots[s].id \in TrackingIds
    BY <1>3 DEF Pads, SlotStates
  <2> QED BY <1>5, <2>1 DEF Inv, TypeOK
<1>7. TypeOK'
  <2>1. reports' \in Nat /\ ready' \in BOOLEAN /\ quiet' \in BOOLEAN /\ raced' \in BOOLEAN
    <3>1. reports \in Nat /\ ready \in BOOLEAN /\ quiet \in BOOLEAN /\ raced \in BOOLEAN
      BY DEF Inv, TypeOK
    <3> QED BY ONLY <1>5, <3>1
  <2> QED BY <1>3, <1>4, <1>5, <1>6, <2>1 DEF Inv, TypeOK
<1>8. Phases'
  BY <1>5 DEF Inv, Phases
<1>9. OthersLag'
  <2> SUFFICES ASSUME ~raced', ~startup.stable, NEW s \in Slots
               PROVE  others'[s] \in {Inactive, phys'.slots[s].id}
    BY <1>5 DEF OthersLag
  <2>1. others[s] \in {Inactive, phys.slots[s].id}
    BY <1>5 DEF Inv, OthersLag
  <2>2. grabbed => phys.slots[s].id = Inactive \/ phys'.slots[s].id = phys.slots[s].id
    BY <1>5 DEF Lifted
  <2> QED BY <1>5, <2>1, <2>2
<1>10. QuietIsRecorded'
  BY <1>5 DEF QuietIsRecorded
<1>11. grabbed /\ Settled => Settled'
  BY <1>5 DEF Settled
<1>12. SettledSince'
  BY <1>5, <1>11 DEF Inv, SettledSince, Phases, Confirmed
<1> QED BY <1>3, <1>7, <1>8, <1>9, <1>10, <1>12 DEF Inv

(***************************************************************************)
(* Steps of the daemon that touch neither the pad nor what others believe. *)
(***************************************************************************)
LEMMA SettledKept ==
  ASSUME UNCHANGED <<phys, others, quiet, raced, startup>>, OthersLag, TouchIsContact(phys)
  PROVE  OthersLag' /\ TouchIsContact(phys)' /\ Settled' = Settled
BY DEF OthersLag, TouchIsContact, IsActive, Settled

LEMMA WaitStep ==
  Inv /\ (Signal \/ DrainBatch \/ DrainEnd \/ ReadShutdown \/ Wake) => Inv'
<1> SUFFICES ASSUME Inv, Signal \/ DrainBatch \/ DrainEnd \/ ReadShutdown \/ Wake
             PROVE  Inv'
  OBVIOUS
<1>1. UNCHANGED <<device, others, grabbed, fs, answer, startup, ready, ghosts>>
  BY DEF Signal, DrainBatch, DrainEnd, ReadShutdown, Wake
<1>2. queue' \in Seq(KernelEvents)
  <2> DEFINE n == IF Len(queue) < FetchMax THEN Len(queue) ELSE FetchMax
  <2>1. queue \in Seq(KernelEvents)
    BY DEF Inv, TypeOK
  <2>2. n \in Nat
    BY <2>1, StartupAssumption
  <2>3. SubSeq(queue, n + 1, Len(queue)) \in Seq(KernelEvents)
    <3> HIDE DEF n
    <3> QED BY <2>1, <2>2
  <2>4. queue' = queue \/ queue' = SubSeq(queue, n + 1, Len(queue))
    BY DEF Signal, DrainBatch, DrainEnd, ReadShutdown, Wake
  <2> QED BY <2>1, <2>3, <2>4
<1>3. /\ pc' = pc \/ (pc' \in {"drain", "exit", "query slot"} /\ ~grabbed)
      /\ pc' # pc => pc \in {"drain", "inspect", "wait", "grab"}
      /\ signal' \in {signal, "pending", "read"}
  <2>1. CASE pc' = pc
    BY <2>1 DEF Signal, DrainBatch, DrainEnd, ReadShutdown, Wake
  <2>2. CASE DrainEnd \/ ReadShutdown \/ Wake
    BY <2>2 DEF Inv, Phases, DrainEnd, ReadShutdown, Wake
  <2> QED BY <2>1, <2>2 DEF Signal, DrainBatch
<1>4. TypeOK'
  <2>1. /\ phys' = phys /\ next' = next /\ reports' = reports /\ others' = others
        /\ grabbed' = grabbed /\ fs' = fs /\ answer' = answer /\ startup' = startup
        /\ ready' = ready /\ quiet' = quiet /\ raced' = raced
    BY <1>1 DEF device, ghosts
  <2>2. signal' \in {"none", "pending", "read"}
    BY <1>3 DEF Inv, TypeOK
  <2>3. pc' \in {"drain", "query slot", "query keys", "query ids", "query xs", "query ys",
                 "inspect", "wait", "grab", "confirm", "initialize", "notify", "run", "exit"}
    BY <1>3 DEF Inv, TypeOK
  <2> QED BY <1>2, <2>1, <2>2, <2>3 DEF Inv, TypeOK
<1>5. OthersLag' /\ TouchIsContact(phys)' /\ Settled' = Settled
  BY <1>1, SettledKept DEF Inv, device, ghosts
<1>6. Phases' /\ QuietIsRecorded'
  BY <1>1, <1>3 DEF Inv, Phases, QuietIsRecorded, device, ghosts, Confirmed
<1>7. SettledSince'
  BY <1>1, <1>3, <1>5 DEF Inv, SettledSince, Confirmed
<1> QED BY <1>4, <1>5, <1>6, <1>7 DEF Inv

(***************************************************************************)
(* The ioctls of a query.  QueryKeys is where an untouched pad is settled. *)
(***************************************************************************)
LEMMA UntouchedSettles ==
  ASSUME Inv, grabbed, ~startup.stable, ~phys.touch, ~phys.btn
  PROVE  Settled
<1>1. \A s \in Slots : phys.slots[s].id = Inactive
  BY DEF Inv, TouchIsContact, IsActive
<1>2. IsQuiescent(phys)
  BY <1>1 DEF IsQuiescent, ActiveSlots, IsActive
<1>3. quiet
  BY <1>2 DEF Inv, QuietIsRecorded
<1>4. ~raced => \A s \in Slots : others[s] = Inactive
  BY <1>1 DEF Inv, OthersLag
<1> QED BY <1>3, <1>4 DEF Settled

LEMMA QueryStep ==
  Inv /\ (QuerySlot \/ QueryKeys \/ QueryIds \/ QueryXs) => Inv'
<1> SUFFICES ASSUME Inv, QuerySlot \/ QueryKeys \/ QueryIds \/ QueryXs PROVE Inv'
  OBVIOUS
<1>1. /\ UNCHANGED <<device, others, signal, grabbed, fs, startup, ready, ghosts>>
      /\ pc \in {"query slot", "query keys", "query ids", "query xs"}
      /\ pc' \in {"query keys", "query ids", "query xs", "query ys"}
      /\ pc = "query slot" <=> pc' = "query keys"
      /\ pc = "query keys" <=> pc' = "query ids"
  BY DEF QuerySlot, QueryKeys, QueryIds, QueryXs, Query
<1>2. phys \in Pads /\ answer \in Pads /\ queue \in Seq(KernelEvents)
  BY DEF Inv, TypeOK
<1>3. answer' \in Pads /\ queue' \in Seq(KernelEvents)
  <2>1. CASE QuerySlot
    BY <1>2, <2>1, AnswerTypes DEF QuerySlot
  <2>2. CASE QueryKeys
    BY <1>2, <2>2, AnswerTypes, FlushKeysType DEF QueryKeys
  <2>3. CASE QueryIds
    BY <1>2, <2>3, AnswerTypes DEF QueryIds
  <2>4. CASE QueryXs
    BY <1>2, <2>4, AnswerTypes DEF QueryXs
  <2> QED BY <2>1, <2>2, <2>3, <2>4
<1>4. TypeOK'
  <2>1. /\ phys' = phys /\ next' = next /\ reports' = reports /\ others' = others
        /\ signal' = signal /\ grabbed' = grabbed /\ fs' = fs /\ startup' = startup
        /\ ready' = ready /\ quiet' = quiet /\ raced' = raced
    BY <1>1 DEF device, ghosts
  <2> QED BY <1>1, <1>3, <2>1 DEF Inv, TypeOK
<1>5. OthersLag' /\ TouchIsContact(phys)' /\ Settled' = Settled
  BY <1>1, SettledKept DEF Inv, device, ghosts
<1>6. Phases' /\ QuietIsRecorded'
  BY <1>1 DEF Inv, Phases, QuietIsRecorded, device, ghosts, Confirmed
<1>7. SettledSince'
  <2>1. CASE QueryKeys
    <3>1. answer'.touch = phys.touch /\ answer'.btn = phys.btn
      BY <1>2, <2>1 DEF QueryKeys, Pads
    <3>2. pc = "query keys" /\ ~startup.stable
      BY <2>1 DEF QueryKeys, Query, Inv, Phases, Confirmed
    <3>3. (grabbed /\ ~answer'.touch /\ ~answer'.btn) => Settled
      BY <3>1, <3>2, UntouchedSettles
    <3> QED BY <1>1, <1>5, <3>3 DEF SettledSince, Confirmed
  <2>2. CASE QueryIds \/ QueryXs
    <3>1. /\ answer'.touch = answer.touch /\ answer'.btn = answer.btn
          /\ pc \in {"query ids", "query xs"}
      BY <1>2, <2>2 DEF QueryIds, QueryXs, Query, Pads
    <3> QED BY <1>1, <1>5, <3>1 DEF Inv, SettledSince, Confirmed
  <2>3. CASE QuerySlot
    BY <1>1, <2>3 DEF QuerySlot, Query, SettledSince, Confirmed
  <2> QED BY <2>1, <2>2, <2>3
<1> QED BY <1>4, <1>5, <1>6, <1>7 DEF Inv

LEMMA QueryEndStep == Inv /\ QueryYs => Inv'
<1> SUFFICES ASSUME Inv, QueryYs PROVE Inv'
  OBVIOUS
<1>1. /\ UNCHANGED <<device, queue, others, signal, grabbed, startup, ready, ghosts>>
      /\ pc = "query ys" /\ pc' = IF grabbed THEN "confirm" ELSE "inspect"
      /\ answer' = Untouched
      /\ fs' = [answer EXCEPT !.slots =
                  [s \in Slots |-> [@[s] EXCEPT !.y = phys.slots[s].y]]]
  BY DEF QueryYs, Query
<1>2. answer \in Pads /\ phys \in Pads
  BY DEF Inv, TypeOK
<1>3. fs' \in Pads /\ fs'.touch = answer.touch /\ fs'.btn = answer.btn
  BY <1>1, <1>2, AnswerTypes DEF Pads
<1>4. TypeOK'
  <2>1. /\ phys' = phys /\ next' = next /\ reports' = reports /\ others' = others
        /\ signal' = signal /\ grabbed' = grabbed /\ startup' = startup /\ queue' = queue
        /\ ready' = ready /\ quiet' = quiet /\ raced' = raced
    BY <1>1 DEF device, ghosts
  <2>2. pc' \in {"confirm", "inspect"} /\ answer' \in Pads
    BY <1>1, UntouchedType
  <2> QED BY <1>3, <2>1, <2>2 DEF Inv, TypeOK
<1>5. OthersLag' /\ TouchIsContact(phys)' /\ Settled' = Settled
  BY <1>1, SettledKept DEF Inv, device, ghosts
<1>6. Phases' /\ QuietIsRecorded'
  BY <1>1 DEF Inv, Phases, QuietIsRecorded, device, ghosts, Confirmed
<1>7. SettledSince'
  BY <1>1, <1>3, <1>5 DEF Inv, SettledSince, Confirmed
<1> QED BY <1>4, <1>5, <1>6, <1>7 DEF Inv

(***************************************************************************)
(* Inspecting, releasing, confirming, starting up.                         *)
(***************************************************************************)
LEMMA LoopStep ==
  Inv /\ (CallFails \/ InspectUngrabbed \/ ReleaseGrab) => Inv'
<1> SUFFICES ASSUME Inv, CallFails \/ InspectUngrabbed \/ ReleaseGrab PROVE Inv'
  OBVIOUS
<1>1. /\ UNCHANGED <<device, queue, others, signal, fs, answer, ready, ghosts>>
      /\ pc \notin {"notify", "run", "exit"}
      /\ pc' \in {"exit", "grab", "wait", "inspect"} /\ grabbed' = FALSE
      /\ startup' = NotReady
  BY DEF CallFails, InspectUngrabbed, ReleaseGrab, Inv, TypeOK, Phases
<1>2. ~startup'.stable /\ startup' \in [stable : BOOLEAN, initialized : BOOLEAN]
  BY <1>1 DEF NotReady
<1>3. TypeOK'
  <2>1. /\ phys' = phys /\ next' = next /\ reports' = reports /\ others' = others
        /\ signal' = signal /\ fs' = fs /\ queue' = queue /\ answer' = answer
        /\ ready' = ready /\ quiet' = quiet /\ raced' = raced
    BY <1>1 DEF device, ghosts
  <2> QED BY <1>1, <1>2, <2>1 DEF Inv, TypeOK
<1>4. OthersLag'
  <2>1. CASE startup.stable
    <3>1. ~raced => \A s \in Slots : others[s] = Inactive
      BY <2>1 DEF Inv, Phases, SettledSince, Settled
    <3> QED BY <1>1, <3>1 DEF OthersLag, ghosts
  <2>2. CASE ~startup.stable
    BY <1>1, <2>2 DEF Inv, OthersLag, device, ghosts
  <2> QED BY <2>1, <2>2
<1>5. TouchIsContact(phys)'
  BY <1>1 DEF Inv, TouchIsContact, IsActive, device
<1>6. Phases' /\ QuietIsRecorded'
  BY <1>1, <1>2 DEF Inv, Phases, QuietIsRecorded, Confirmed
<1>7. SettledSince'
  BY <1>1 DEF SettledSince, Confirmed
<1> QED BY <1>3, <1>4, <1>5, <1>6, <1>7 DEF Inv

LEMMA GrabStep == Inv /\ Grab => Inv'
<1> SUFFICES ASSUME Inv, Grab PROVE Inv'
  OBVIOUS
<1>1. /\ UNCHANGED <<device, queue, others, signal, fs, answer, startup, ready, raced>>
      /\ pc = "grab" /\ pc' = "query slot" /\ grabbed' = TRUE /\ quiet' = IsQuiescent(phys)
  BY DEF Grab
<1>2. TypeOK'
  <2>1. /\ phys' = phys /\ next' = next /\ reports' = reports /\ others' = others
        /\ signal' = signal /\ fs' = fs /\ queue' = queue /\ answer' = answer
        /\ ready' = ready /\ startup' = startup /\ raced' = raced
    BY <1>1 DEF device
  <2>2. quiet' \in BOOLEAN
    BY <1>1 DEF IsQuiescent
  <2> QED BY <1>1, <2>1, <2>2 DEF Inv, TypeOK
<1>3. OthersLag' /\ TouchIsContact(phys)'
  BY <1>1 DEF Inv, OthersLag, TouchIsContact, IsActive, device
<1>4. Phases' /\ SettledSince'
  BY <1>1 DEF Inv, Phases, SettledSince, Confirmed
<1>5. QuietIsRecorded'
  BY <1>1 DEF QuietIsRecorded, device
<1> QED BY <1>2, <1>3, <1>4, <1>5 DEF Inv

LEMMA ReadyStep ==
  Inv /\ (ConfirmGrab \/ InitializeProcessor \/ NotifyReady) => Inv'
<1> SUFFICES ASSUME Inv, ConfirmGrab \/ InitializeProcessor \/ NotifyReady PROVE Inv'
  OBVIOUS
<1>1. /\ UNCHANGED <<device, queue, others, signal, grabbed, fs, answer, ghosts>>
      /\ pc \in {"confirm", "initialize", "notify"}
      /\ pc' \in Confirmed /\ ready' \in BOOLEAN /\ (ready' => pc' = "run")
      /\ startup'.stable
      /\ startup' \in [stable : BOOLEAN, initialized : BOOLEAN]
      /\ pc = "confirm" => ~fs.touch /\ ~fs.btn
  <2>1. startup \in [stable : BOOLEAN, initialized : BOOLEAN] /\ ready \in BOOLEAN
        /\ (ready => pc = "run")
    BY DEF Inv, TypeOK, Phases
  <2>2. CASE ConfirmGrab
    BY <2>1, <2>2 DEF ConfirmGrab, IsQuiescent, Confirmed
  <2>3. CASE InitializeProcessor
    BY <2>1, <2>3 DEF InitializeProcessor, Confirmed
  <2>4. CASE NotifyReady
    BY <2>1, <2>4 DEF NotifyReady, Confirmed
  <2> QED BY <2>2, <2>3, <2>4
<1>2. TypeOK'
  <2>1. /\ phys' = phys /\ next' = next /\ reports' = reports /\ others' = others
        /\ signal' = signal /\ fs' = fs /\ queue' = queue /\ answer' = answer
        /\ grabbed' = grabbed /\ quiet' = quiet /\ raced' = raced
    BY <1>1 DEF device, ghosts
  <2> QED BY <1>1, <2>1 DEF Inv, TypeOK, Confirmed
<1>3. OthersLag' /\ QuietIsRecorded'
  BY <1>1 DEF Inv, OthersLag, QuietIsRecorded, device, ghosts
<1>4. TouchIsContact(phys)'
  BY <1>1 DEF Inv, TouchIsContact, IsActive, device
<1>5. Phases'
  BY <1>1 DEF Inv, Phases, Confirmed
<1>6. Settled'
  <2>1. Settled
    BY <1>1 DEF Inv, SettledSince, Confirmed
  <2> QED BY <1>1, <2>1 DEF Settled, ghosts
<1>7. SettledSince'
  BY <1>1, <1>6 DEF SettledSince, Confirmed
<1> QED BY <1>2, <1>3, <1>4, <1>5, <1>7 DEF Inv

LEMMA StutterStep == Inv /\ UNCHANGED vars => Inv'
<1> SUFFICES ASSUME Inv, UNCHANGED vars PROVE Inv'
  OBVIOUS
<1>1. /\ phys' = phys /\ next' = next /\ reports' = reports /\ others' = others
      /\ signal' = signal /\ fs' = fs /\ queue' = queue /\ answer' = answer
      /\ grabbed' = grabbed /\ quiet' = quiet /\ raced' = raced
      /\ startup' = startup /\ ready' = ready /\ pc' = pc
  BY DEF vars
<1>2. TypeOK'
  BY <1>1 DEF Inv, TypeOK
<1>3. OthersLag' /\ TouchIsContact(phys)' /\ Settled' = Settled
  BY <1>1, SettledKept DEF Inv
<1>4. Phases' /\ QuietIsRecorded' /\ SettledSince'
  BY <1>1, <1>3 DEF Inv, Phases, QuietIsRecorded, SettledSince
<1> QED BY <1>2, <1>3, <1>4 DEF Inv

LEMMA InvAlways == Spec => []Inv
<1>1. Inv /\ [Next]_vars => Inv'
  BY ReportStep, WaitStep, QueryStep, QueryEndStep, LoopStep, GrabStep, ReadyStep, StutterStep
    DEF Next, Daemon, Advance
<1> QED BY <1>1, InvInit, PTL DEF Spec

(***************************************************************************)
(* The state of the take-over is what the code's types say.                *)
(***************************************************************************)
THEOREM TypeCorrect == Spec => []TypeOK
<1>1. Inv => TypeOK
  BY DEF Inv
<1> QED BY <1>1, InvAlways, PTL

(***************************************************************************)
(* READY=1 is sent under the grab, for a pad that really was untouched at  *)
(* some instant since (evdev.rs:362-394, main.rs:187-194).                 *)
(***************************************************************************)
THEOREM ReadySound == Spec => []ReadyMeansUntouched
<1>1. Inv => ReadyMeansUntouched
  BY DEF Inv, Phases, SettledSince, Settled, Confirmed, ReadyMeansUntouched
<1> QED BY <1>1, InvAlways, PTL

(***************************************************************************)
(* Every way out before readiness releases the grab (evdev.rs:369-392).    *)
(***************************************************************************)
THEOREM ExitSound == Spec => []ExitReleases
<1>1. Inv => ExitReleases
  BY DEF Inv, Phases, ExitReleases
<1> QED BY <1>1, InvAlways, PTL

(***************************************************************************)
(* A confirmed grab cuts no contact off from the programs that saw it go   *)
(* down, but for the documented race (main.rs:113-119).                    *)
(***************************************************************************)
THEOREM OthersSound == Spec => []OthersLetGo
<1>1. Inv => OthersLetGo
  BY DEF Inv, Phases, SettledSince, Settled, Confirmed, OthersLetGo
<1> QED BY <1>1, InvAlways, PTL
-----------------------------------------------------------------------------
(***************************************************************************)
(* What the daemon starts from, brought forward by its client buffer.      *)
(* Base is what the query under the grab will have found of the contacts,  *)
(* as far as it is answered; the outlook from it over the buffer is where  *)
(* the first frames will lead.  Both are followed from the last drain on,  *)
(* because nothing is read from the buffer after it: what the refresh that *)
(* precedes a grab saw is still queued when the query that confirms it is  *)
(* answered.                                                               *)
(***************************************************************************)
Base ==
  CASE pc = "query slot"               -> phys
    [] pc = "query keys"               -> [phys EXCEPT !.cur = answer.cur]
    [] pc = "query ids"                -> [phys EXCEPT !.cur = answer.cur, !.touch = answer.touch]
    [] pc \in {"query xs", "query ys"} -> answer
    [] OTHER                           -> fs

Expected == Outlook(Start(Base), phys, queue)

\* A query made now would find no finger that the buffer does not take back.
QueryNowInside ==
  pc \notin {"drain", "exit"} => Inside(Outlook(Start(phys), phys, queue), phys)

\* EVIOCGKEY has thrown away what was queued of BTN_TOUCH.
TouchTold ==
  (grabbed /\ pc \notin {"query slot", "query keys"}) => <<phys, Expected.pad>> \in SameTouch

\* The query under the grab found no contact.
NothingFound ==
  /\ grabbed
  /\ \/ pc \in {"query xs", "query ys"} /\ ActiveSlots(answer) = {}
     \/ pc = "confirm" /\ ActiveSlots(fs) = {}
     \/ pc \in Confirmed

ContactsTold == NothingFound => <<phys, Expected.pad>> \in SameView

Carried ==
  /\ queue \in Seq(SoundEvents)
  /\ QueryNowInside
  /\ grabbed => Inside(Expected, phys)
  /\ TouchTold
  /\ ContactsTold

LEMMA BaseType == Inv => phys \in Pads /\ answer \in Pads /\ fs \in Pads /\ Base \in Pads
BY DEF Inv, TypeOK, Base, Pads

LEMMA StartsInside ==
  ASSUME NEW w \in Pads
  PROVE  Inside(Outlook(Start(w), w, << >>), w)
BY StartType, OutlookNone DEF Inside

LEMMA CarriedInit == Init => Carried
<1> SUFFICES ASSUME Init PROVE Carried
  OBVIOUS
<1>1. queue = << >> /\ pc = "drain" /\ ~grabbed
  BY DEF Init
<1> QED BY <1>1 DEF Carried, QueryNowInside, TouchTold, ContactsTold, NothingFound

(***************************************************************************)
(* Most steps leave the pad and the buffer alone and fill in what Base     *)
(* already says.                                                           *)
(***************************************************************************)
LEMMA CarriedKept ==
  ASSUME Inv, Carried, phys' = phys, queue' = queue,
         pc' \notin {"drain", "exit"} => pc \notin {"drain", "exit"},
         grabbed' =>
           /\ grabbed
           /\ pc' \notin {"query slot", "query keys"} => pc \notin {"query slot", "query keys"}
           /\ Base' \in Pads
           /\ <<Base, Base'>> \in SameView
           /\ <<Base, Base'>> \in SameTouch,
         NothingFound' => NothingFound \/ \A s \in Slots : ~IsActive(phys, s)
  PROVE  Carried'
<1>1. phys \in Pads /\ Base \in Pads /\ queue \in Seq(SoundEvents) /\ queue \in Seq(KernelEvents)
  BY BaseType, SoundSeqs DEF Carried
<1>2. QueryNowInside'
  BY DEF Carried, QueryNowInside
<1>3. CASE ~grabbed'
  <2>1. TouchTold' /\ ContactsTold'
    BY <1>3 DEF TouchTold, ContactsTold, NothingFound
  <2> QED BY <1>1, <1>2, <1>3, <2>1 DEF Carried
<1>4. CASE grabbed'
  <2>1. /\ Start(Base) \in Outlooks /\ Start(Base').mode = "ok" /\ Start(Base).pad = Base
        /\ Start(Base') \in Outlooks /\ Start(Base).mode = "ok" /\ Start(Base').pad = Base'
    BY <1>1, <1>4, StartType
  <2>2. Expected' = Outlook(Start(Base'), phys, queue)
    BY DEF Expected
  <2>3. ASSUME NEW R, Preserved(R), Equality(R), <<Base, Base'>> \in R
        PROVE  Alike(R, Expected, Expected')
    <3>1. Alike(R, Start(Base), Start(Base')) /\ <<phys, phys>> \in R
      BY <1>1, <2>1, <2>3 DEF Alike, Equality
    <3> QED BY <1>1, <2>1, <2>2, <2>3, <3>1, OutlooksAlike DEF Expected
  <2>4. /\ Expected \in Outlooks /\ Expected.mode = "ok" /\ Expected.pad \in Pads
        /\ Expected' \in Outlooks /\ Expected'.mode = "ok" /\ Expected'.pad \in Pads
    <3>1. Expected \in Outlooks /\ Expected.mode = "ok" /\ Expected' \in Outlooks
          /\ Expected'.mode = "ok"
      BY <1>1, <2>1, <2>2, SoundOutlook DEF Expected
    <3> QED BY <3>1 DEF Outlooks
  <2>5. Alike(SameView, Expected, Expected')
    BY <1>4, <2>3, SameViewPreserved, SameEqualities
  <2>6. Alike(SameTouch, Expected, Expected')
    BY <1>4, <2>3, SameTouchPreserved, SameEqualities
  <2>7. Inside(Expected', phys)
    <3>1. Inside(Expected, phys)
      BY <1>4 DEF Carried
    <3> QED BY <2>5, <3>1, InsideAlike
  <2>8. TouchTold'
    <3> SUFFICES ASSUME pc' \notin {"query slot", "query keys"}
                 PROVE  <<phys, Expected'.pad>> \in SameTouch
      BY DEF TouchTold
    <3>1. <<phys, Expected.pad>> \in SameTouch
      BY <1>4 DEF Carried, TouchTold
    <3>2. <<Expected.pad, Expected'.pad>> \in SameTouch
      BY <2>4, <2>6 DEF Alike
    <3> QED BY <1>1, <2>4, <3>1, <3>2, SameEqualities DEF Equality
  <2>9. ContactsTold'
    <3> SUFFICES ASSUME NothingFound'
                 PROVE  <<phys, Expected'.pad>> \in SameView
      BY DEF ContactsTold
    <3>1. CASE NothingFound
      <4>1. <<phys, Expected.pad>> \in SameView
        BY <3>1 DEF Carried, ContactsTold
      <4>2. <<Expected.pad, Expected'.pad>> \in SameView
        BY <2>4, <2>5 DEF Alike
      <4> QED BY <1>1, <2>4, <4>1, <4>2, SameEqualities DEF Equality
    <3>2. CASE \A s \in Slots : ~IsActive(phys, s)
      <4>1. Expected'.pad.cur = phys.cur /\ \A s \in Slots : ~IsActive(Expected'.pad, s)
        BY <2>4, <2>7, <3>2 DEF Inside
      <4> QED BY <1>1, <2>4, <3>2, <4>1 DEF SameView, IsActive
    <3> QED BY <3>1, <3>2
  <2> QED BY <1>1, <1>2, <2>7, <2>8, <2>9 DEF Carried
<1> QED BY <1>3, <1>4

LEMMA CarriedReport ==
  ASSUME ~Overflows, BadSlots = {}, Inv, Carried, Report
  PROVE  Carried'
<1>1. PICK r \in Reports(phys, next) :
        /\ MayPush(queue, r.events)
        /\ phys' = r.pad
        /\ queue' = PushReport(queue, r.events)
  BY DEF Report
<1>2. UNCHANGED <<pc, grabbed, fs, answer>>
  BY DEF Report
<1>3. phys \in Pads /\ answer \in Pads /\ fs \in Pads /\ Base \in Pads /\ next \in Nat
      /\ queue \in Seq(SoundEvents) /\ queue \in EventSeqs
  BY BaseType, SoundSeqs DEF Carried, Inv, TypeOK, EventSeqs
<1>4. phys' \in Pads /\ r.events \in Seq(Events)
  BY <1>1, <1>3, ReportsType DEF Inv, KernelReports
<1>5. /\ r.events \in Seq(ValidEvents)
      /\ ApplyEvents(phys, r.events) = phys'
      /\ phys'.cur # phys.cur => IsActive(phys, phys'.cur) \/ IsActive(phys', phys'.cur)
  <2>1. /\ r.events \in Seq(ValidEvents)
        /\ ApplyEvents(phys, r.events) = r.pad
        /\ Occupies(phys, r)
    BY <1>3, ReportsEffect
  <2> QED BY <1>1, <2>1 DEF Occupies, IsActive
<1>6. Base' \in Pads
  BY <1>2, <1>3, <1>4 DEF Base, Pads
<1> DEFINE full == Append(r.events, Syn)
<1>7. queue' = queue \o full
  BY <1>1, <1>3, <1>4, PushReportEffect DEF MayPush
<1>8. queue' \in Seq(SoundEvents)
  <2>1. r.events \in Seq(SoundEvents) /\ Syn \in SoundEvents
    <3>1. ValidEvents \subseteq SoundEvents /\ Syn \in SoundEvents
      BY DEF SoundEvents
    <3> QED BY <1>5, <3>1, SeqMonotonic
  <2> QED BY <1>3, <1>7, <2>1
<1>9. QueryNowInside'
  <2> SUFFICES ASSUME pc \notin {"drain", "exit"}
               PROVE  Inside(Outlook(Start(phys'), phys', queue \o full), phys')
    BY <1>2, <1>7 DEF QueryNowInside
  <2>1. Inside(Outlook(Start(phys), phys, queue), phys)
    BY DEF Carried, QueryNowInside
  <2> QED BY <1>3, <1>4, <1>5, <2>1, InsideReport DEF StartsFor
<1>10. Expected' = Outlook(Start(Base'), phys', queue \o full)
  BY <1>7 DEF Expected
<1>11. ASSUME grabbed
       PROVE  Inside(Expected', phys')
  <2>1. Inside(Outlook(Start(Base), phys, queue), phys)
    BY <1>11 DEF Carried, Expected
  <2>2. StartsFor(phys, phys', Base, Base')
    <3>1. CASE pc = "query slot"
      BY <1>2, <3>1 DEF StartsFor, Base
    <3>2. CASE pc \in {"query keys", "query ids"}
      BY <1>2, <1>3, <1>4, <3>2 DEF StartsFor, Base, Pads
    <3>3. CASE pc \notin {"query slot", "query keys", "query ids"}
      BY <1>2, <3>3 DEF StartsFor, Base
    <3> QED BY <3>1, <3>2, <3>3
  <2> QED BY <1>3, <1>4, <1>5, <1>6, <1>10, <2>1, <2>2, InsideReport
<1>12. TouchTold'
  <2> SUFFICES ASSUME grabbed, pc \notin {"query slot", "query keys"}
               PROVE  <<phys', Expected'.pad>> \in SameTouch
    BY <1>2 DEF TouchTold
  <2>1. <<phys, Outlook(Start(Base), phys, queue).pad>> \in SameTouch
    BY DEF Carried, TouchTold, Expected
  <2>2. Base'.touch = Base.touch
    <3>1. CASE pc = "query ids"
      BY <1>2, <1>3, <1>4, <3>1 DEF Base, Pads
    <3>2. CASE pc # "query ids"
      BY <1>2, <3>2 DEF Base
    <3> QED BY <3>1, <3>2
  <2>3. <<Base, Base'>> \in SameTouch
    BY <1>3, <1>6, <2>2 DEF SameTouch
  <2> QED BY <1>3, <1>4, <1>5, <1>6, <1>10, <2>1, <2>3, SameTouchPreserved, SameEqualities,
             ReportAgrees
<1>13. ContactsTold'
  <2> SUFFICES ASSUME NothingFound'
               PROVE  <<phys', Expected'.pad>> \in SameView
    BY DEF ContactsTold
  <2>1. NothingFound
    BY <1>2 DEF NothingFound
  <2>2. <<phys, Outlook(Start(Base), phys, queue).pad>> \in SameView
    BY <2>1 DEF Carried, ContactsTold, Expected
  <2>3. Base' = Base
    BY <1>2, <2>1 DEF NothingFound, Base, Confirmed
  <2>4. <<Base, Base'>> \in SameView
    BY <1>3, <2>3, SameViewRefl
  <2> QED BY <1>3, <1>4, <1>5, <1>6, <1>10, <2>2, <2>4, SameViewPreserved, SameEqualities,
             ReportAgrees
<1> QED BY <1>2, <1>8, <1>9, <1>11, <1>12, <1>13 DEF Carried

(***************************************************************************)
(* The ioctls of a query.  EVIOCGKEY takes key events from the buffer; the *)
(* tracking ids, once all are found inactive, are what the buffer leads    *)
(* to, because it leads to no finger the pad does not have.                *)
(***************************************************************************)
LEMMA CarriedKeys == Inv /\ Carried /\ QueryKeys => Carried'
<1> SUFFICES ASSUME Inv, Carried, QueryKeys PROVE Carried'
  OBVIOUS
<1>1. /\ pc = "query keys" /\ pc' = "query ids" /\ phys' = phys /\ grabbed' = grabbed
      /\ answer' = [answer EXCEPT !.touch = phys.touch, !.btn = phys.btn]
      /\ queue' = FlushKeys(queue)
  BY DEF QueryKeys, Query, device
<1>2. phys \in Pads /\ answer \in Pads /\ Base \in Pads
      /\ queue \in Seq(SoundEvents) /\ queue \in EventSeqs
  BY BaseType, SoundSeqs DEF Carried, EventSeqs
<1>3. Base' = Base /\ Base.touch = phys.touch
  <2>1. Base = [phys EXCEPT !.cur = answer.cur]
    BY <1>1 DEF Base
  <2>2. answer'.cur = answer.cur /\ answer'.touch = phys.touch
    BY <1>1, <1>2 DEF Pads
  <2>3. Base' = [phys EXCEPT !.cur = answer.cur, !.touch = phys.touch]
    BY <1>1, <2>2 DEF Base
  <2> QED BY <1>2, <2>1, <2>3 DEF Pads
<1>4. /\ Start(Base) \in Outlooks /\ Start(Base).mode = "ok" /\ Start(Base).pad = Base
      /\ Start(phys) \in Outlooks /\ Start(phys).mode = "ok"
  BY <1>2, StartType
<1>5. queue' \in Seq(SoundEvents)
  BY <1>1, <1>2, <1>4, FlushSound
<1>6. Expected' = Outlook(Start(Base), phys, FlushKeys(queue))
  BY <1>1, <1>3 DEF Expected
<1>7. QueryNowInside'
  <2>1. Inside(Outlook(Start(phys), phys, queue), phys)
    BY <1>1 DEF Carried, QueryNowInside
  <2>2. Inside(Outlook(Start(phys), phys, FlushKeys(queue)), phys)
    BY <1>2, <1>4, <2>1, FlushOutlook, InsideAlike
  <2> QED BY <1>1, <2>2 DEF QueryNowInside
<1>8. grabbed => Inside(Expected', phys)
  <2>1. grabbed => Inside(Outlook(Start(Base), phys, queue), phys)
    BY DEF Carried, Expected
  <2>2. Alike(SameView, Outlook(Start(Base), phys, queue), Expected')
    BY <1>2, <1>4, <1>6, FlushOutlook
  <2> QED BY <2>1, <2>2, InsideAlike
<1>9. <<phys, Expected'.pad>> \in SameTouch
  <2>1. Expected'.pad.touch = phys.touch
    BY <1>2, <1>3, <1>4, <1>6, FlushSound
  <2>2. Expected'.pad \in Pads
    <3>1. Expected' \in Outlooks
      BY <1>1, <1>2, <1>4, <1>5, <1>6, SoundOutlook
    <3> QED BY <3>1 DEF Outlooks
  <2> QED BY <1>2, <2>1, <2>2 DEF SameTouch
<1>10. TouchTold' /\ ContactsTold'
  BY <1>1, <1>9 DEF TouchTold, ContactsTold, NothingFound, Confirmed
<1> QED BY <1>1, <1>5, <1>7, <1>8, <1>10 DEF Carried

LEMMA CarriedSlot == Inv /\ Carried /\ QuerySlot => Carried'
<1> SUFFICES ASSUME Inv, Carried, QuerySlot PROVE Carried'
  OBVIOUS
<1>1. /\ pc = "query slot" /\ pc' = "query keys"
      /\ phys' = phys /\ queue' = queue /\ grabbed' = grabbed
      /\ answer' = [answer EXCEPT !.cur = phys.cur]
  BY DEF QuerySlot, Query, device
<1>2. phys \in Pads /\ answer \in Pads /\ Base \in Pads
  BY BaseType
<1>3. Base' = Base
  <2>1. Base = phys /\ Base' = [phys EXCEPT !.cur = answer'.cur] /\ answer'.cur = phys.cur
    BY <1>1, <1>2 DEF Base, Pads
  <2> QED BY <1>2, <2>1 DEF Pads
<1>4. <<Base, Base'>> \in SameView /\ <<Base, Base'>> \in SameTouch
  BY <1>2, <1>3, SameEqualities DEF Equality
<1>5. ~NothingFound'
  BY <1>1 DEF NothingFound, Confirmed
<1> QED BY <1>1, <1>2, <1>3, <1>4, <1>5, CarriedKept

\* The ids of a state whose slots are rebuilt one field at a time.
LEMMA FieldAnswer ==
  ASSUME NEW p \in Pads, NEW w \in Pads
  PROVE  LET ids == [p EXCEPT !.slots = [s \in Slots |-> [@[s] EXCEPT !.id = w.slots[s].id]]]
             xs  == [p EXCEPT !.slots = [s \in Slots |-> [@[s] EXCEPT !.x = w.slots[s].x]]]
             ys  == [p EXCEPT !.slots = [s \in Slots |-> [@[s] EXCEPT !.y = w.slots[s].y]]]
         IN  /\ ids.cur = p.cur /\ ids.touch = p.touch
             /\ \A s \in Slots : ids.slots[s].id = w.slots[s].id
             /\ xs.cur = p.cur /\ xs.touch = p.touch
             /\ \A s \in Slots : xs.slots[s].id = p.slots[s].id
             /\ ys.cur = p.cur /\ ys.touch = p.touch
             /\ \A s \in Slots : ys.slots[s].id = p.slots[s].id
<1>1. \A r \in SlotStates : \A v : /\ [r EXCEPT !.id = v].id = v
                                   /\ [r EXCEPT !.x = v].id = r.id
                                   /\ [r EXCEPT !.y = v].id = r.id
  BY DEF SlotStates
<1>2. \A s \in Slots : p.slots[s] \in SlotStates
  BY DEF Pads
<1> DEFINE ids == [s \in Slots |-> [p.slots[s] EXCEPT !.id = w.slots[s].id]]
           xs  == [s \in Slots |-> [p.slots[s] EXCEPT !.x = w.slots[s].x]]
           ys  == [s \in Slots |-> [p.slots[s] EXCEPT !.y = w.slots[s].y]]
<1>3. \A s \in Slots : /\ ids[s].id = w.slots[s].id
                       /\ xs[s].id = p.slots[s].id
                       /\ ys[s].id = p.slots[s].id
  <2> TAKE s \in Slots
  <2> DEFINE r == p.slots[s]
             t == w.slots[s]
  <2>1. /\ ids[s] = [r EXCEPT !.id = t.id]
        /\ xs[s] = [r EXCEPT !.x = t.x]
        /\ ys[s] = [r EXCEPT !.y = t.y]
    OBVIOUS
  <2>2. r \in SlotStates
    BY <1>2
  <2> HIDE DEF r, t, ids, xs, ys
  <2>3. ids[s].id = t.id /\ xs[s].id = r.id /\ ys[s].id = r.id
    BY <1>1, <2>1, <2>2
  <2> QED BY <2>3 DEF r, t
<1> HIDE DEF ids, xs, ys
<1>4. \A f : LET q == [p EXCEPT !.slots = f]
             IN  q.cur = p.cur /\ q.touch = p.touch /\ q.slots = f
  BY DEF Pads
<1>5. /\ [p EXCEPT !.slots = ids].cur = p.cur /\ [p EXCEPT !.slots = ids].touch = p.touch
      /\ \A s \in Slots : [p EXCEPT !.slots = ids].slots[s].id = w.slots[s].id
  BY <1>3, <1>4
<1>6. /\ [p EXCEPT !.slots = xs].cur = p.cur /\ [p EXCEPT !.slots = xs].touch = p.touch
      /\ \A s \in Slots : [p EXCEPT !.slots = xs].slots[s].id = p.slots[s].id
  BY <1>3, <1>4
<1>7. /\ [p EXCEPT !.slots = ys].cur = p.cur /\ [p EXCEPT !.slots = ys].touch = p.touch
      /\ \A s \in Slots : [p EXCEPT !.slots = ys].slots[s].id = p.slots[s].id
  BY <1>3, <1>4
<1> QED BY <1>5, <1>6, <1>7 DEF ids, xs, ys

LEMMA CarriedIds == Inv /\ Carried /\ QueryIds => Carried'
<1> SUFFICES ASSUME Inv, Carried, QueryIds PROVE Carried'
  OBVIOUS
<1>1. /\ pc = "query ids" /\ pc' = "query xs"
      /\ phys' = phys /\ queue' = queue /\ grabbed' = grabbed
      /\ answer' = [answer EXCEPT !.slots =
                      [s \in Slots |-> [@[s] EXCEPT !.id = phys.slots[s].id]]]
  BY DEF QueryIds, Query, device
<1>2. phys \in Pads /\ answer \in Pads /\ Base \in Pads
  BY BaseType
<1>3. /\ answer' \in Pads /\ answer'.cur = answer.cur /\ answer'.touch = answer.touch
      /\ \A s \in Slots : answer'.slots[s].id = phys.slots[s].id
  <2>1. answer' \in Pads
    BY <1>1, <1>2, AnswerTypes
  <2>2. /\ answer'.cur = answer.cur /\ answer'.touch = answer.touch
        /\ \A s \in Slots : answer'.slots[s].id = phys.slots[s].id
    BY <1>1, <1>2, FieldAnswer
  <2> QED BY <2>1, <2>2
<1>4. /\ Base' = answer' /\ Base.cur = answer.cur /\ Base.touch = answer.touch
      /\ Base.slots = phys.slots
  BY <1>1, <1>2 DEF Base, Pads
<1>5. Base' \in Pads /\ <<Base, Base'>> \in SameView /\ <<Base, Base'>> \in SameTouch
  BY <1>2, <1>3, <1>4 DEF SameView, SameTouch
<1>6. NothingFound' => \A s \in Slots : ~IsActive(phys, s)
  <2> SUFFICES ASSUME NothingFound', NEW s \in Slots PROVE ~IsActive(phys, s)
    OBVIOUS
  <2>1. ActiveSlots(answer') = {}
    BY <1>1 DEF NothingFound, Confirmed
  <2> QED BY <1>3, <2>1 DEF ActiveSlots, IsActive
<1> QED BY <1>1, <1>5, <1>6, CarriedKept

LEMMA CarriedPositions == Inv /\ Carried /\ (QueryXs \/ QueryYs) => Carried'
<1> SUFFICES ASSUME Inv, Carried, QueryXs \/ QueryYs PROVE Carried'
  OBVIOUS
<1>1. phys \in Pads /\ answer \in Pads /\ Base \in Pads
  BY BaseType
<1>2. PICK found \in {answer', fs'} :
        /\ Base' = found /\ found \in Pads
        /\ found.cur = answer.cur /\ found.touch = answer.touch
        /\ \A s \in Slots : found.slots[s].id = answer.slots[s].id
        /\ NothingFound' => grabbed /\ ActiveSlots(found) = {}
  <2>1. CASE QueryXs
    <3>1. /\ pc' = "query ys" /\ grabbed' = grabbed
          /\ answer' = [answer EXCEPT !.slots =
                          [s \in Slots |-> [@[s] EXCEPT !.x = phys.slots[s].x]]]
      BY <2>1 DEF QueryXs, Query
    <3>2. /\ answer' \in Pads /\ answer'.cur = answer.cur /\ answer'.touch = answer.touch
          /\ \A s \in Slots : answer'.slots[s].id = answer.slots[s].id
      <4>1. answer' \in Pads
        BY <1>1, <3>1, AnswerTypes
      <4>2. /\ answer'.cur = answer.cur /\ answer'.touch = answer.touch
            /\ \A s \in Slots : answer'.slots[s].id = answer.slots[s].id
        BY <1>1, <3>1, FieldAnswer
      <4> QED BY <4>1, <4>2
    <3> QED BY <3>1, <3>2 DEF Base, NothingFound, Confirmed
  <2>2. CASE QueryYs
    <3>1. /\ pc' = (IF grabbed THEN "confirm" ELSE "inspect") /\ grabbed' = grabbed
          /\ fs' = [answer EXCEPT !.slots =
                      [s \in Slots |-> [@[s] EXCEPT !.y = phys.slots[s].y]]]
      BY <2>2 DEF QueryYs, Query
    <3>2. /\ fs' \in Pads /\ fs'.cur = answer.cur /\ fs'.touch = answer.touch
          /\ \A s \in Slots : fs'.slots[s].id = answer.slots[s].id
      <4>1. fs' \in Pads
        BY <1>1, <3>1, AnswerTypes
      <4>2. /\ fs'.cur = answer.cur /\ fs'.touch = answer.touch
            /\ \A s \in Slots : fs'.slots[s].id = answer.slots[s].id
        BY <1>1, <3>1, FieldAnswer
      <4> QED BY <4>1, <4>2
    <3>3. pc' \in {"confirm", "inspect"}
      BY <3>1
    <3> QED BY <3>1, <3>2, <3>3 DEF Base, NothingFound, Confirmed
  <2> QED BY <2>1, <2>2
<1>3. /\ pc \in {"query xs", "query ys"} /\ pc' \notin {"drain", "exit"}
      /\ phys' = phys /\ queue' = queue /\ grabbed' = grabbed
  BY DEF QueryXs, QueryYs, Query, device
<1>4. Base = answer
  BY <1>3 DEF Base
<1>5. <<Base, Base'>> \in SameView /\ <<Base, Base'>> \in SameTouch
  BY <1>1, <1>2, <1>4 DEF SameView, SameTouch
<1>6. NothingFound' => NothingFound
  BY <1>2, <1>3 DEF NothingFound, ActiveSlots, IsActive
<1> QED BY <1>1, <1>2, <1>3, <1>5, <1>6, CarriedKept

(***************************************************************************)
(* The other steps.  A drain may lose anything, but it ends with nothing   *)
(* queued; a grab turns the query that could be made into the one that is. *)
(***************************************************************************)
LEMMA CarriedDrain == Inv /\ Carried /\ (DrainBatch \/ DrainEnd) => Carried'
<1> SUFFICES ASSUME Inv, Carried, DrainBatch \/ DrainEnd PROVE Carried'
  OBVIOUS
<1>1. pc = "drain" /\ ~grabbed' /\ phys' = phys /\ queue \in Seq(SoundEvents) /\ phys \in Pads
  <2>1. pc = "drain" /\ grabbed' = grabbed /\ phys' = phys
    BY DEF DrainBatch, DrainEnd, device
  <2>2. ~grabbed
    BY <2>1 DEF Inv, Phases
  <2>3. queue \in Seq(SoundEvents) /\ phys \in Pads
    BY BaseType DEF Carried
  <2> QED BY <2>1, <2>2, <2>3
<1>2. TouchTold' /\ ContactsTold'
  BY <1>1 DEF TouchTold, ContactsTold, NothingFound
<1>3. CASE DrainBatch
  <2> DEFINE n == IF Len(queue) < FetchMax THEN Len(queue) ELSE FetchMax
  <2>1. n \in Nat
    BY <1>1, StartupAssumption
  <2>2. queue' = SubSeq(queue, n + 1, Len(queue)) /\ pc' = "drain"
    BY <1>1, <1>3 DEF DrainBatch
  <2> HIDE DEF n
  <2>3. queue' \in Seq(SoundEvents)
    BY <1>1, <2>1, <2>2
  <2>4. QueryNowInside'
    BY <2>2 DEF QueryNowInside
  <2> QED BY <1>1, <1>2, <2>3, <2>4 DEF Carried
<1>4. CASE DrainEnd
  <2>1. queue = << >> /\ queue' = queue
    BY <1>4 DEF DrainEnd
  <2>2. QueryNowInside'
    BY <1>1, <2>1, StartsInside DEF QueryNowInside
  <2> QED BY <1>1, <1>2, <2>1, <2>2 DEF Carried
<1> QED BY <1>3, <1>4

LEMMA CarriedGrab == Inv /\ Carried /\ Grab => Carried'
<1> SUFFICES ASSUME Inv, Carried, Grab PROVE Carried'
  OBVIOUS
<1>1. pc = "grab" /\ pc' = "query slot" /\ phys' = phys /\ queue' = queue
  BY DEF Grab, device
<1>2. Inside(Outlook(Start(phys), phys, queue), phys)
  BY <1>1 DEF Carried, QueryNowInside
<1>3. Expected' = Outlook(Start(phys), phys, queue)
  BY <1>1 DEF Expected, Base
<1>4. TouchTold' /\ ContactsTold'
  BY <1>1 DEF TouchTold, ContactsTold, NothingFound, Confirmed
<1> QED BY <1>1, <1>2, <1>3, <1>4 DEF Carried, QueryNowInside

LEMMA CarriedUngrabbed ==
  Inv /\ Carried /\ (ReadShutdown \/ InspectUngrabbed \/ Wake \/ ReleaseGrab \/ CallFails)
    => Carried'
<1> SUFFICES ASSUME Inv, Carried,
                    ReadShutdown \/ InspectUngrabbed \/ Wake \/ ReleaseGrab \/ CallFails
             PROVE  Carried'
  OBVIOUS
<1>1. /\ phys' = phys /\ queue' = queue /\ ~grabbed'
      /\ pc' \notin {"drain", "exit"} => pc \notin {"drain", "exit"}
  BY DEF ReadShutdown, InspectUngrabbed, Wake, ReleaseGrab, CallFails, device, Inv, Phases
<1>2. ~NothingFound'
  BY <1>1 DEF NothingFound
<1> QED BY <1>1, <1>2, CarriedKept

LEMMA CarriedConfirmed ==
  Inv /\ Carried /\ (ConfirmGrab \/ InitializeProcessor \/ NotifyReady) => Carried'
<1> SUFFICES ASSUME Inv, Carried, ConfirmGrab \/ InitializeProcessor \/ NotifyReady
             PROVE  Carried'
  OBVIOUS
<1>1. /\ phys' = phys /\ queue' = queue /\ grabbed' = grabbed /\ fs' = fs
      /\ pc \in {"confirm", "initialize", "notify"} /\ pc' \in Confirmed
      /\ pc = "confirm" => ActiveSlots(fs) = {}
  BY DEF ConfirmGrab, InitializeProcessor, NotifyReady, device, Confirmed, IsQuiescent
<1>2. Base = fs /\ Base' = fs /\ fs \in Pads
  BY <1>1, BaseType DEF Base, Confirmed
<1>3. <<Base, Base'>> \in SameView /\ <<Base, Base'>> \in SameTouch
  BY <1>2, SameEqualities DEF Equality
<1>4. NothingFound' => NothingFound
  BY <1>1 DEF NothingFound, Confirmed
<1> QED BY <1>1, <1>2, <1>3, <1>4, CarriedKept DEF Confirmed

LEMMA CarriedStutter == Inv /\ Carried /\ (Signal \/ UNCHANGED vars) => Carried'
<1> SUFFICES ASSUME Inv, Carried, Signal \/ UNCHANGED vars PROVE Carried'
  OBVIOUS
<1>1. /\ phys' = phys /\ queue' = queue /\ grabbed' = grabbed /\ fs' = fs
      /\ answer' = answer /\ pc' = pc
  BY DEF Signal, vars, device
<1>2. Base' = Base /\ Base \in Pads
  BY <1>1, BaseType DEF Base
<1>3. <<Base, Base'>> \in SameView /\ <<Base, Base'>> \in SameTouch
  BY <1>2, SameEqualities DEF Equality
<1>4. NothingFound' => NothingFound
  BY <1>1 DEF NothingFound
<1> QED BY <1>1, <1>2, <1>3, <1>4, CarriedKept

\* A pad that names only slots it has, and a buffer that never overflows.
SoundPad == ~Overflows /\ BadSlots = {}

LEMMA CarriedAlways == SoundPad => (Spec => [](Inv /\ Carried))
<1> SUFFICES ASSUME SoundPad PROVE Spec => [](Inv /\ Carried)
  OBVIOUS
<1>1. Inv /\ Carried /\ [Next]_vars => Carried'
  BY CarriedReport, CarriedKeys, CarriedSlot, CarriedIds, CarriedPositions, CarriedDrain,
     CarriedGrab, CarriedUngrabbed, CarriedConfirmed, CarriedStutter
    DEF SoundPad, Next, Daemon, Advance
<1> QED BY <1>1, InvAlways, CarriedInit, PTL DEF Spec

-----------------------------------------------------------------------------
(***************************************************************************)
(* The recursive definition of Replayed is the outlook over the buffer.    *)
(***************************************************************************)
LEMMA ReplayedOutlook ==
  ASSUME fs \in Pads, phys \in Pads, queue \in Seq(SoundEvents)
  PROVE  Replayed = Outlook(Start(fs), phys, queue).pad
<1> DEFINE n == Len(queue)
           Rec(g) == g = [i \in 0 .. n |-> IF i = 0 THEN fs ELSE Followed(g[i - 1], queue[i])]
           after == CHOOSE g : Rec(g)
           step == Foresight(phys)
           first == Start(fs)
<1>1. n \in Nat /\ \A i \in 1 .. n : queue[i] \in SoundEvents
  OBVIOUS
<1>2. Replayed = after[n]
  BY DEF Replayed
<1>3. first \in Outlooks /\ first.mode = "ok" /\ first.pad = fs
  BY StartType
<1>4. PICK run \in [0 .. n -> Outlooks] :
        /\ run[0] = first
        /\ \A i \in 1 .. n : run[i] = step[<<run[i - 1], queue[i]>>]
        /\ Outlook(first, phys, queue) = run[n]
  <2>1. queue \in Seq(KernelEvents) /\ IsStep(step, Outlooks, KernelEvents)
    BY SoundSeqs, ForesightIsStep
  <2> HIDE DEF step, first
  <2>2. \E run \in [0 .. Len(queue) -> Outlooks] :
          Steps(run, step, first, queue) /\ Outcome(step, Outlooks, first, queue) = run[Len(queue)]
    BY <1>3, <2>1, OutcomeSteps
  <2>3. Outlook(first, phys, queue) = Outcome(step, Outlooks, first, queue)
    BY DEF Outlook, step
  <2> QED BY <2>2, <2>3 DEF Steps
<1>5. ASSUME NEW i \in 1 .. n, run[i - 1].mode = "ok"
      PROVE  run[i].mode = "ok" /\ run[i].pad = Followed(run[i - 1].pad, queue[i])
  <2> DEFINE o == run[i - 1]
             e == queue[i]
  <2>1. o \in Outlooks /\ e \in KernelEvents
        /\ ((e = Syn /\ e.type = "SYN")
            \/ (e \in ValidEvents /\ e # Syn /\ e.type \notin {"SYN", "DROPPED"}))
    <3>1. i - 1 \in 0 .. n /\ e \in SoundEvents
      BY <1>1
    <3> HIDE DEF e
    <3> QED BY <1>4, <3>1, ValidKernelEvents DEF SoundEvents
  <2>2. run[i] = Foresee(o, phys, e)
    <3>1. run[i] = step[<<o, e>>]
      BY <1>4
    <3> HIDE DEF o, e
    <3> QED BY <2>1, <3>1 DEF Foresight
  <2>3. o.mode = "ok"
    BY <1>5
  <2> SUFFICES run[i].mode = "ok" /\ run[i].pad = Followed(o.pad, e)
    OBVIOUS
  <2> HIDE DEF o, e
  <2>4. CASE e = Syn
    BY <2>1, <2>2, <2>3, <2>4 DEF Foresee, Followed
  <2>5. CASE e \in ValidEvents /\ e # Syn
    BY <2>1, <2>2, <2>3, <2>5, ValidKernelEvents DEF Foresee, Followed, Start
  <2> QED BY <2>1, <2>4, <2>5
<1> HIDE DEF step
<1> DEFINE Ok == {i \in 0 .. n : run[i].mode = "ok"}
<1>6. 0 .. n \subseteq Ok
  <2>1. 0 \in Ok
    BY <1>1, <1>3, <1>4
  <2>2. \A i \in 1 .. n : i - 1 \in Ok => i \in Ok
    BY <1>1, <1>5
  <2> HIDE DEF Ok, n
  <2> QED BY <1>1, <2>1, <2>2, RangeInduction
<1> DEFINE f == [i \in 0 .. n |-> run[i].pad]
<1>7. Rec(f)
  <2>1. \A i \in 0 .. n : f[i] = IF i = 0 THEN fs ELSE Followed(f[i - 1], queue[i])
    <3> TAKE i \in 0 .. n
    <3>1. CASE i = 0
      BY <1>1, <1>3, <1>4, <3>1
    <3>2. CASE i # 0
      <4>1. i \in 1 .. n /\ i - 1 \in 0 .. n
        BY <1>1, <3>2
      <4> QED BY <1>5, <1>6, <3>2, <4>1
    <3> QED BY <3>1, <3>2
  <2>2. f = [i \in 0 .. n |-> f[i]]
    OBVIOUS
  <2> HIDE DEF f, n
  <2> QED BY <2>1, <2>2
<1>8. Rec(after)
  <2> HIDE DEF Rec, f
  <2> QED BY <1>7
<1> HIDE DEF after, f, n
<1>9. \A i \in 0 .. n : after[i] = IF i = 0 THEN fs ELSE Followed(after[i - 1], queue[i])
  <2>1. after = [i \in 0 .. n |-> IF i = 0 THEN fs ELSE Followed(after[i - 1], queue[i])]
    BY <1>8
  <2> QED BY ONLY <2>1
<1>10. \A i \in 0 .. n : f[i] = IF i = 0 THEN fs ELSE Followed(f[i - 1], queue[i])
  <2>1. f = [i \in 0 .. n |-> IF i = 0 THEN fs ELSE Followed(f[i - 1], queue[i])]
    BY <1>7
  <2> QED BY ONLY <2>1
<1> DEFINE P == {i \in 0 .. n : after[i] = f[i]}
<1>11. 0 .. n \subseteq P
  <2>1. 0 \in P
    BY <1>1, <1>9, <1>10
  <2>2. \A i \in 1 .. n : i - 1 \in P => i \in P
    <3> SUFFICES ASSUME NEW i \in 1 .. n, after[i - 1] = f[i - 1]
                 PROVE  i \in 0 .. n /\ after[i] = f[i]
      OBVIOUS
    <3>1. i \in 0 .. n /\ i # 0
      BY <1>1
    <3> QED BY <1>9, <1>10, <3>1
  <2> HIDE DEF P
  <2> QED BY <1>1, <2>1, <2>2, RangeInduction
<1>12. after[n] = run[n].pad
  <2>1. n \in 0 .. n
    BY <1>1
  <2> QED BY <1>11, <2>1 DEF f
<1> QED BY <1>2, <1>4, <1>12

(***************************************************************************)
(* What the daemon starts from, brought forward by what was queued since   *)
(* the last drain, holds the slot, the contacts and the BTN_TOUCH of the   *)
(* physical pad (evdev.rs:366-368): for every pad that names its own slots *)
(* and a buffer that does not overflow, whatever one report changes and    *)
(* however often the grab is tried.                                        *)
(***************************************************************************)
THEOREM QueueSound == SoundPad => (Spec => []QueueCarriesOn)
<1>1. ASSUME Inv, Carried, startup.stable
      PROVE  /\ Replayed.touch = phys.touch
             /\ Replayed.cur = phys.cur
             /\ \A s \in Slots : Replayed.slots[s].id = phys.slots[s].id
  <2>1. pc \in Confirmed /\ grabbed
    BY <1>1 DEF Inv, Phases, Confirmed
  <2>2. phys \in Pads /\ fs \in Pads /\ queue \in Seq(SoundEvents) /\ Base = fs
    BY <1>1, <2>1, BaseType DEF Carried, Base, Confirmed
  <2>3. Replayed = Expected.pad
    BY <2>2, ReplayedOutlook DEF Expected
  <2>4. <<phys, Replayed>> \in SameTouch
    BY <1>1, <2>1, <2>3 DEF Carried, TouchTold, Confirmed
  <2>5. <<phys, Replayed>> \in SameView
    BY <1>1, <2>1, <2>3 DEF Carried, ContactsTold, NothingFound
  <2> QED BY <2>4, <2>5 DEF SameTouch, SameView
<1>2. Inv /\ Carried => QueueCarriesOn
  BY <1>1 DEF QueueCarriesOn
<1> QED BY <1>2, CarriedAlways, PTL
=============================================================================
