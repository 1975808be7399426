---------------------------- MODULE CatchUp_proofs ----------------------------
(***************************************************************************)
(* What the daemon will make of the input it has not read yet.  The events *)
(* queued and pending decide, together with the state they start from,     *)
(* where the next frames lead; the argument that a drained daemon has      *)
(* caught up with its pad follows that outlook through every step.         *)
(* Nothing stuck needs no more than that; what is shown exactly needs a    *)
(* pad whose input is never lost.  What a capture holds back follows from  *)
(* the order of the events within a frame.                                 *)
(***************************************************************************)
EXTENDS FrameProxy_proofs

(***************************************************************************)
(* Input is framed: what is unread ends in a SYN_REPORT, the daemon polls  *)
(* only when no whole frame is pending, and makes no query without need    *)
(* while one is.                                                           *)
(***************************************************************************)
Unread == pending \o queue

Framed ==
  /\ EndsInSyn(Unread)
  /\ EndsInSyn(queue)
  /\ pc \in {"poll", "process"} => ~HasFrame(pending)
  /\ kind = "LivenessCheck" =>
       pc \notin {"poll", "assemble", "process"} /\ ~HasFrame(pending)
  /\ pc = "poll" => frames = << >>

LEMMA ConcatEnd ==
  ASSUME NEW s \in EventSeqs, NEW t \in EventSeqs
  PROVE  /\ s \o t \in EventSeqs
         /\ t # << >> => s \o t # << >> /\ (s \o t)[Len(s \o t)] = t[Len(t)]
         /\ t = << >> => s \o t = s
<1>1. /\ s \o t \in EventSeqs /\ Len(s \o t) = Len(s) + Len(t)
      /\ Len(s) \in Nat /\ Len(t) \in Nat
      /\ \A i \in 1 .. Len(t) : (s \o t)[Len(s) + i] = t[i]
  BY DEF EventSeqs
<1>2. t # << >> => Len(t) \in 1 .. Len(t)
  BY <1>1, EmptySeq DEF EventSeqs
<1>3. t # << >> => (s \o t)[Len(s) + Len(t)] = t[Len(t)] /\ s \o t # << >>
  BY <1>1, <1>2
<1>4. s \o << >> = s
  BY DEF EventSeqs
<1> QED BY <1>1, <1>3, <1>4

LEMMA UnreadType == TypeInv => pending \in EventSeqs /\ queue \in EventSeqs /\ Unread \in EventSeqs
BY ConcatEnd DEF TypeInv, TypeOK, EventSeqs, Unread

\* A sequence is its first m elements and the others.
LEMMA SplitSeq ==
  ASSUME NEW s \in EventSeqs, NEW m \in Nat, m <= Len(s)
  PROVE  /\ SubSeq(s, 1, m) \in EventSeqs
         /\ SubSeq(s, m + 1, Len(s)) \in EventSeqs
         /\ s = SubSeq(s, 1, m) \o SubSeq(s, m + 1, Len(s))
<1>1. s \in Seq(KernelEvents) /\ Len(s) \in Nat
  BY DEF EventSeqs
<1>2. SubSeq(s, 1, m) \in EventSeqs /\ SubSeq(s, m + 1, Len(s)) \in EventSeqs
  BY <1>1 DEF EventSeqs
<1>3. SubSeq(s, 1, Len(s)) = s
  BY <1>1, SubSeqFull
<1>4. 1 \in 1 .. Len(s) + 1 /\ m \in 1 - 1 .. Len(s) /\ Len(s) \in m .. Len(s)
  BY <1>1
<1>5. SubSeq(s, 1, m) \o SubSeq(s, m + 1, Len(s)) = SubSeq(s, 1, Len(s))
  BY <1>1, <1>4, ConcatAdjacentSubSeq
<1> QED BY <1>2, <1>3, <1>5

\* The first frame pending and what follows it.
LEMMA HeadSplit ==
  ASSUME TypeInv, HasFrame(pending)
  PROVE  /\ HeadEvents \in EventSeqs /\ RestEvents \in EventSeqs
         /\ pending = Append(HeadEvents, Syn) \o RestEvents
         /\ Unread = Append(HeadEvents, Syn) \o (RestEvents \o queue)
<1> DEFINE n == HeadEnd - 1
           a == Append(HeadEvents, Syn)
           b == RestEvents
<1>1. pending \in Seq(KernelEvents) /\ queue \in Seq(KernelEvents)
  BY DEF TypeInv, TypeOK
<1>2. HeadEnd \in 1 .. Len(pending) /\ pending[HeadEnd].type = "SYN"
  BY <1>1, FrameEndProperties DEF HeadEnd
<1>3. pending[HeadEnd] = Syn
  <2>1. pending[HeadEnd] \in KernelEvents
    BY <1>1, <1>2
  <2> QED BY <1>2, <2>1, KernelEventKinds, ValidKernelEvents
<1>4. n \in Nat /\ HeadEnd = n + 1 /\ HeadEnd <= Len(pending) /\ HeadEnd \in Nat
  BY <1>1, <1>2
<1>5. HeadEvents \in EventSeqs
  BY <1>1, <1>4, SplitSeq DEF HeadEvents, EventSeqs
<1>6. b \in EventSeqs /\ pending = SubSeq(pending, 1, HeadEnd) \o b
  BY <1>1, <1>4, SplitSeq DEF RestEvents, EventSeqs
<1>7. SubSeq(pending, 1, HeadEnd) = a /\ a \in EventSeqs
  <2>1. 1 \in 1 .. Len(pending) /\ HeadEnd \in 1 .. Len(pending)
    BY <1>1, <1>2, <1>4
  <2>2. SubSeq(pending, 1, HeadEnd) = HeadEvents \o <<Syn>>
    BY <1>1, <1>3, <2>1, SubSeqRecursiveSecond DEF HeadEvents
  <2>3. a = HeadEvents \o <<Syn>> /\ a \in EventSeqs
    BY <1>5, ValidKernelEvents DEF EventSeqs
  <2> QED BY <2>2, <2>3
<1> HIDE DEF a, b
<1>8. (a \o b) \o queue = a \o (b \o queue)
  BY <1>1, <1>6, <1>7 DEF EventSeqs
<1> QED BY <1>5, <1>6, <1>7, <1>8 DEF Unread, a, b

LEMMA FramedInit == Init => Framed
<1> SUFFICES ASSUME Init PROVE Framed
  OBVIOUS
<1>1. pending = << >> /\ queue = << >> /\ frames = << >> /\ kind = NoKind
  BY DEF Init
<1>2. Unread = << >> /\ ~HasFrame(pending)
  BY <1>1 DEF Unread, HasFrame
<1> QED BY <1>1, <1>2, ProxyAssumption DEF Framed, EndsInSyn, Kinds

\* Fetching moves events from the buffer to the pending ones.
LEMMA FetchUnread ==
  ASSUME TypeInv, Fetch
  PROVE  Unread' = Unread /\ (EndsInSyn(queue) => EndsInSyn(queue'))
<1> DEFINE m == IF Len(queue) < FetchMax THEN Len(queue) ELSE FetchMax
           a == SubSeq(queue, 1, m)
           b == SubSeq(queue, m + 1, Len(queue))
<1>1. pending \in Seq(KernelEvents) /\ queue \in Seq(KernelEvents)
  BY DEF TypeInv, TypeOK
<1>2. m \in Nat /\ m <= Len(queue) /\ Len(queue) \in Nat
  BY <1>1, ProxyAssumption
<1>3. pending' = pending \o a /\ queue' = b
  BY DEF Fetch
<1> HIDE DEF m
<1>4. a \in EventSeqs /\ b \in EventSeqs /\ queue = a \o b
  BY <1>1, <1>2, SplitSeq DEF EventSeqs
<1> HIDE DEF a, b
<1>6. (pending \o a) \o b = pending \o (a \o b)
  BY <1>1, <1>4 DEF EventSeqs
<1>7. EndsInSyn(queue) => EndsInSyn(b)
  BY <1>4, ConcatEnd DEF EndsInSyn
<1> QED BY <1>3, <1>4, <1>6, <1>7 DEF Unread

LEMMA FramedNext == TypeInv /\ Framed /\ [Next]_vars => Framed'
<1> SUFFICES ASSUME TypeInv, Framed, [Next]_vars PROVE Framed'
  OBVIOUS
<1>1. pending \in EventSeqs /\ queue \in EventSeqs /\ Unread \in EventSeqs
  BY UnreadType
<1>2. CASE Report
  <2>1. PICK r \in Reports(phys, next) : queue' = PushReport(queue, r.events)
    BY <1>2 DEF Report
  <2>2. UNCHANGED <<pc, pending, kind, frames>>
    BY <1>2 DEF Report, source
  <2>3. r.events \in Seq(Events)
    BY <2>1, ReportsType DEF TypeInv, TypeOK, KernelReports
  <2>4. queue' \in EventSeqs /\ queue' # << >> /\ queue'[Len(queue')] = Syn
    <3>1. PICK lost \in EventSeqs :
            queue' = queue \o Append(r.events, Syn) \/ queue' = Append(lost, Syn)
      <4>1. queue \in EventSeqs
        BY <1>1
      <4> QED BY <2>1, <2>3, <4>1, PushReportEffect
    <3> DEFINE full == Append(r.events, Syn)
               last == Append(lost, Syn)
    <3>2. full \in EventSeqs /\ full # << >> /\ full[Len(full)] = Syn
      <4>1. r.events \in EventSeqs
        BY <2>3, EventSeqsType
      <4> QED BY <4>1, ValidKernelEvents DEF EventSeqs
    <3>3. last \in EventSeqs /\ last # << >> /\ last[Len(last)] = Syn
      BY ValidKernelEvents DEF EventSeqs
    <3> HIDE DEF full, last
    <3>4. queue' = queue \o full \/ queue' = last
      BY <3>1 DEF full, last
    <3>5. LET long == queue \o full
          IN  long \in EventSeqs /\ long # << >> /\ long[Len(long)] = Syn
      <4>1. queue \in EventSeqs
        BY <1>1
      <4> QED BY <3>2, <4>1, ConcatEnd
    <3> DEFINE long == queue \o full
    <3> HIDE DEF long
    <3>6. queue' = long \/ queue' = last
      BY <3>4 DEF long
    <3> QED BY <3>3, <3>5, <3>6 DEF long
  <2>5. EndsInSyn(Unread')
    BY <1>1, <2>2, <2>4, ConcatEnd DEF EndsInSyn, Unread
  <2> QED BY <2>2, <2>4, <2>5 DEF Framed, EndsInSyn, HasFrame
<1>3. CASE Fetch
  <2>1. Unread' = Unread /\ EndsInSyn(queue')
    BY <1>3, FetchUnread DEF Framed
  <2>2. pc = "poll" /\ pc' = AfterAssembly(pending', frames) /\ kind' = kind /\ frames' = frames
    BY <1>3 DEF Fetch
  <2> QED BY <2>1, <2>2 DEF Framed, EndsInSyn, AfterAssembly
<1>4. CASE TimeoutScrolling
  BY <1>4 DEF TimeoutScrolling, Framed, EndsInSyn, Unread, HasFrame
<1>5. CASE Assemble
  <2>1. HasFrame(pending) /\ pc = "assemble"
    BY <1>5 DEF Assemble, AssembleFrame, AssembleInvalid, AssembleDropped, TypeInv
  <2>2. /\ RestEvents \in EventSeqs /\ Append(HeadEvents, Syn) \in EventSeqs
        /\ Unread = Append(HeadEvents, Syn) \o (RestEvents \o queue)
    BY <2>1, HeadSplit, ValidKernelEvents DEF EventSeqs
  <2>3. EndsInSyn(RestEvents \o queue)
    <3> DEFINE rest == RestEvents \o queue
    <3>1. rest \in EventSeqs
      BY <1>1, <2>2, ConcatEnd
    <3> HIDE DEF rest
    <3> QED BY <2>2, <3>1, ConcatEnd DEF Framed, EndsInSyn, rest
  <2>4. CASE AssembleFrame \/ AssembleDropped
    <3>1. pending' = RestEvents /\ queue' = queue
      BY <2>4 DEF AssembleFrame, AssembleDropped
    <3>2. EndsInSyn(Unread') /\ EndsInSyn(queue')
      BY <2>3, <3>1 DEF Unread, Framed
    <3>3. \/ pc' = AfterAssembly(pending', frames') /\ kind' = kind
          \/ pc' = "query slot" /\ kind' = "LostSynchronization"
      BY <2>4 DEF AssembleFrame, AssembleDropped
    <3> QED BY <2>1, <3>2, <3>3 DEF Framed, AfterAssembly
  <2>5. CASE AssembleInvalid
    BY <2>1, <2>5 DEF AssembleInvalid, source, Framed, EndsInSyn, Unread, HasFrame
  <2> QED BY <1>5, <2>4, <2>5 DEF Assemble
<1>6. CASE QueryKeys
  <2>1. queue' = FlushKeys(queue) /\ UNCHANGED <<pending, kind, frames>> /\ pc' = "query ids"
    BY <1>6 DEF QueryKeys
  <2>2. /\ queue' \in EventSeqs /\ EndsInSyn(queue')
        /\ queue # << >> => queue' # << >>
        /\ queue = << >> => queue' = << >>
    BY <1>1, <2>1, FlushEndsInSyn, FlushKeysNone DEF Framed
  <2>3. EndsInSyn(Unread')
    <3>1. CASE queue' # << >>
      BY <1>1, <2>1, <2>2, <3>1, ConcatEnd DEF EndsInSyn, Unread
    <3>2. CASE queue' = << >>
      BY <2>1, <2>2, <3>2 DEF Framed, Unread, EndsInSyn
    <3> QED BY <3>1, <3>2
  <2> QED BY <1>6, <2>1, <2>2, <2>3 DEF Framed, QueryKeys, HasFrame
<1>7. CASE QueryYs
  <2>1. /\ UNCHANGED <<queue, pending>> /\ kind' = NoKind
        /\ pc' = IF kind = "LivenessCheck" THEN "process" ELSE AfterAssembly(pending, frames')
    BY <1>7 DEF QueryYs
  <2>2. NoKind # "LivenessCheck"
    BY ProxyAssumption DEF Kinds
  <2> QED BY <2>1, <2>2 DEF Framed, EndsInSyn, Unread, AfterAssembly, HasFrame
<1>8. CASE QuerySlot \/ QueryIds \/ QueryXs
  BY <1>8 DEF QuerySlot, QueryIds, QueryXs, Framed, EndsInSyn, Unread, HasFrame
<1>9. CASE ProcessFrame
  BY <1>9 DEF ProcessFrame, source, Framed, EndsInSyn, Unread, HasFrame
<1>10. CASE LoopEnds
  BY <1>10 DEF LoopEnds, source, Framed, EndsInSyn, Unread, HasFrame
<1>11. CASE UNCHANGED vars
  BY <1>11 DEF vars, Framed, EndsInSyn, Unread, HasFrame
<1> QED
  BY <1>2, <1>3, <1>4, <1>5, <1>6, <1>7, <1>8, <1>9, <1>10, <1>11
    DEF Next, Daemon, Query, TimeoutIdle, Exited

-----------------------------------------------------------------------------
(***************************************************************************)
(* The outlook of the daemon: from its FrameState, or, while a query is    *)
(* under way, from what the query will have found of the contacts.         *)
(***************************************************************************)
Base ==
  CASE pc = "query slot"                -> phys
    [] pc \in {"query keys", "query ids"} -> [phys EXCEPT !.cur = answer.cur]
    [] pc \in {"query xs", "query ys"}   -> answer
    [] OTHER                              -> fs

Expected == Outlook(Start(Base), phys, Unread)

Foreseen == pc # "exit" => Inside(Expected, phys)

LEMMA BaseType == TypeInv => Base \in Pads
BY DEF TypeInv, TypeOK, Base, Pads

LEMMA BaseCases ==
  /\ pc = "query slot" => Base = phys
  /\ pc \in {"query keys", "query ids"} => Base = [phys EXCEPT !.cur = answer.cur]
  /\ pc \in {"query xs", "query ys"} => Base = answer
  /\ pc \notin {"query slot", "query keys", "query ids", "query xs", "query ys"} => Base = fs
BY DEF Base

LEMMA StartInside ==
  ASSUME NEW w \in Pads
  PROVE  Inside(Start(w), w)
BY DEF Inside, Start

\* A report that names a slot the pad has not got leaves no outlook.
LEMMA BadReportOutlook ==
  ASSUME NEW o \in Outlooks, NEW w \in Pads, NEW bad \in Nat \ Slots
  PROVE  LET after == Outlook(o, w, Append(<<Event("SLOT", bad)>>, Syn))
         IN  after.mode # "ok" \/ (after = Start(w) /\ o.mode = "lost")
<1> DEFINE e == Event("SLOT", bad)
           one == <<e>>
<1>1. e.type = "SLOT" /\ e \in KernelEvents /\ e \notin ValidEvents
  BY DEF Event, KernelEvents, Events, SlotEvents, ValidEvents
<1>2. << >> \in Seq(KernelEvents) /\ one = Append(<< >>, e) /\ one \in Seq(KernelEvents)
  BY <1>1
<1> HIDE DEF e, one
<1>3. Outlook(o, w, one) = Foresee(o, w, e)
  <2>1. Outlook(o, w, Append(<< >>, e)) = Foresee(Outlook(o, w, << >>), w, e)
    BY <1>1, <1>2, OutlookAppend
  <2> QED BY <1>2, <2>1, OutlookNone
<1>4. Outlook(o, w, Append(one, Syn)) = Foresee(Foresee(o, w, e), w, Syn)
  BY <1>2, <1>3, ValidKernelEvents, OutlookAppend
<1>5. Foresee(o, w, e) \in Outlooks /\ Foresee(o, w, e).mode # "ok"
  <2>1. Foresee(o, w, e).mode # "ok"
    BY <1>1 DEF Foresee, Outlooks
  <2> QED BY <1>1, <2>1, ForeseeType
<1>6. o.mode # "lost" => Foresee(o, w, e).mode # "lost"
  BY <1>1 DEF Foresee, Outlooks
<1>7. \/ Foresee(Foresee(o, w, e), w, Syn).mode # "ok"
      \/ Foresee(Foresee(o, w, e), w, Syn) = Start(w) /\ o.mode = "lost"
  BY <1>5, <1>6, ValidKernelEvents DEF Foresee
<1> DEFINE after == Outlook(o, w, Append(one, Syn))
<1>8. after.mode # "ok" \/ (after = Start(w) /\ o.mode = "lost")
  BY <1>4, <1>7
<1>9. one = <<Event("SLOT", bad)>>
  BY DEF one, e
<1> HIDE DEF after
<1>10. after = Outlook(o, w, Append(<<Event("SLOT", bad)>>, Syn))
  BY <1>9 DEF after
<1> QED BY <1>8, <1>10

LEMMA ForeseenInit == Init => Foreseen
<1> SUFFICES ASSUME Init PROVE Inside(Expected, phys)
  BY DEF Foreseen
<1>1. TypeInv
  BY TypeInit
<1>2. fs = phys /\ phys \in Pads /\ Base = phys /\ Unread = << >>
  BY <1>1, BaseCases DEF Init, TypeInv, TypeOK, Unread
<1>3. Expected = Start(phys)
  BY <1>2, StartType, OutlookNone DEF Expected
<1> QED BY <1>2, <1>3, StartInside

LEMMA ForeseenReport == TypeInv /\ Foreseen /\ Report => Foreseen'
<1> SUFFICES ASSUME TypeInv, Foreseen, Report, pc' # "exit"
             PROVE  Inside(Expected, phys)'
  BY DEF Foreseen
<1>1. PICK r \in Reports(phys, next) :
        /\ phys' = r.pad
        /\ queue' = PushReport(queue, r.events)
  BY DEF Report
<1>2. UNCHANGED <<pc, pending, fs, answer>>
  BY DEF Report, source
<1>3. phys' \in Pads /\ Base' \in Pads /\ Base \in Pads /\ phys \in Pads /\ next \in Nat
  <2>1. TypeInv'
    BY TypeReport
  <2>2. Base' \in Pads
    BY <2>1 DEF TypeInv, TypeOK, Base, Pads
  <2> QED BY <2>1, <2>2, BaseType DEF TypeInv, TypeOK
<1>4. pending \in EventSeqs /\ queue \in EventSeqs /\ Unread \in EventSeqs
  BY UnreadType
<1>5. StartsFor(phys, phys', Base, Base')
  <2>1. CASE pc = "query slot"
    BY <1>2, <2>1 DEF StartsFor, Base
  <2>2. CASE pc \in {"query keys", "query ids"}
    BY <1>2, <1>3, <2>2 DEF StartsFor, Base, Pads
  <2>3. CASE pc \notin {"query slot", "query keys", "query ids"}
    BY <1>2, <2>3 DEF StartsFor, Base
  <2> QED BY <2>1, <2>2, <2>3
<1>6. Expected' = Outlook(Start(Base'), phys', Unread')
  BY DEF Expected
<1>7. r.events \in Seq(Events)
  BY ReportsType DEF TypeInv, TypeOK, KernelReports
<1>8. Unread' = pending \o queue'
  BY <1>2 DEF Unread
<1>9. CASE queue' = queue \o Append(r.events, Syn)
  <2>1. Unread' = Unread \o Append(r.events, Syn)
    <3> DEFINE full == Append(r.events, Syn)
    <3>1. full \in EventSeqs
      BY <1>7, EventSeqsType
    <3> HIDE DEF full
    <3>2. pending \o (queue \o full) = (pending \o queue) \o full
      BY <1>4, <3>1 DEF EventSeqs
    <3> QED BY <1>8, <1>9, <3>2 DEF Unread, full
  <2>2. Inside(Outlook(Start(Base), phys, Unread), phys)
    BY <1>2 DEF Foreseen, Expected
  <2>3. CASE /\ r.events \in Seq(ValidEvents)
             /\ ApplyEvents(phys, r.events) = r.pad
             /\ Occupies(phys, r)
    <3>1. ApplyEvents(phys, r.events) = phys'
      BY <1>1, <2>3
    <3>2. phys'.cur # phys.cur => IsActive(phys, phys'.cur) \/ IsActive(phys', phys'.cur)
      BY <1>1, <2>3 DEF Occupies, IsActive
    <3>3. Inside(Outlook(Start(Base'), phys', Unread \o Append(r.events, Syn)), phys')
      BY <1>3, <1>4, <1>5, <2>2, <2>3, <3>1, <3>2, InsideReport
    <3> QED BY <1>6, <2>1, <3>3
  <2>4. CASE /\ r.pad = phys
             /\ \E bad \in Nat \ Slots : r.events = <<Event("SLOT", bad)>>
    <3>1. PICK bad \in Nat \ Slots : r.events = <<Event("SLOT", bad)>>
      BY <2>4
    <3> DEFINE o == Outlook(Start(Base'), phys', Unread)
               full == Append(r.events, Syn)
    <3>2. Start(Base') \in Outlooks
      BY <1>3, StartType
    <3>3. o \in Outlooks
      BY <1>3, <1>4, <3>2, OutlookType DEF EventSeqs
    <3>4. full \in EventSeqs
      BY <1>7, EventSeqsType
    <3>5. Outlook(Start(Base'), phys', Unread \o full) = Outlook(o, phys', full)
      <4> HIDE DEF full
      <4> QED BY <1>3, <1>4, <3>2, <3>4, OutlookConcat DEF EventSeqs
    <3>6. Inside(Outlook(o, phys', full), phys')
      <4> HIDE DEF o
      <4> QED BY <1>3, <3>1, <3>3, BadReportOutlook, StartInside DEF Inside
    <3> QED BY <1>6, <2>1, <3>5, <3>6
  <2> QED BY <1>3, <2>3, <2>4, ReportsEffect
<1>10. CASE \E lost \in EventSeqs : LoseSome(lost) /\ queue' = Append(lost, Syn)
  <2>1. PICK lost \in EventSeqs : LoseSome(lost) /\ queue' = Append(lost, Syn)
    BY <1>10
  <2> DEFINE o == Outlook(Start(Base'), phys', pending)
             last == Append(lost, Syn)
  <2>2. Start(Base') \in Outlooks
    BY <1>3, StartType
  <2>3. o \in Outlooks
    BY <1>3, <1>4, <2>2, OutlookType DEF EventSeqs
  <2>4. last \in EventSeqs
    BY ValidKernelEvents DEF EventSeqs
  <2>5. Outlook(Start(Base'), phys', pending \o last) = Outlook(o, phys', last)
    <3> HIDE DEF last
    <3> QED BY <1>3, <1>4, <2>2, <2>4, OutlookConcat DEF EventSeqs
  <2>6. Outlook(o, phys', last) = Start(phys')
    <3> HIDE DEF o
    <3> QED BY <1>3, <2>1, <2>3, LostOutlook DEF EventSeqs
  <2>7. Expected' = Start(phys')
    <3> HIDE DEF last, o
    <3> QED BY <1>6, <1>8, <2>1, <2>5, <2>6 DEF last
  <2> QED BY <1>3, <2>7, StartInside
<1> QED BY <1>1, <1>4, <1>7, <1>9, <1>10, PushReportEffect

\* The frame at the head of the pending events is played as foreseen.
LEMMA HeadOutlook ==
  ASSUME TypeInv, HasFrame(pending), NEW w \in Pads, NEW o \in Outlooks
  PROVE  /\ Append(HeadEvents, Syn) \in Seq(KernelEvents)
         /\ RestEvents \o queue \in Seq(KernelEvents)
         /\ Outlook(o, w, Unread) =
              Outlook(Outlook(o, w, Append(HeadEvents, Syn)), w, RestEvents \o queue)
<1> DEFINE head == Append(HeadEvents, Syn)
           rest == RestEvents \o queue
<1>1. HeadEvents \in EventSeqs /\ RestEvents \in EventSeqs /\ queue \in EventSeqs
  BY HeadSplit, UnreadType
<1>2. head \in Seq(KernelEvents)
  BY <1>1, ValidKernelEvents DEF EventSeqs
<1>3. rest \in Seq(KernelEvents)
  BY <1>1, ConcatEnd DEF EventSeqs
<1>4. Unread = head \o rest
  BY HeadSplit
<1> HIDE DEF head, rest
<1>5. Outlook(o, w, head \o rest) = Outlook(Outlook(o, w, head), w, rest)
  BY <1>2, <1>3, OutlookConcat
<1> QED BY <1>2, <1>3, <1>4, <1>5 DEF head, rest

LEMMA HeadLosesSome ==
  ASSUME TypeInv, HasFrame(pending), HeadIsDropped
  PROVE  HeadEvents \in Seq(KernelEvents) /\ LoseSome(HeadEvents)
<1> DEFINE n == HeadEnd - 1
<1>1. pending \in Seq(KernelEvents)
  BY DEF TypeInv, TypeOK
<1>2. /\ HeadEnd \in 1 .. Len(pending)
      /\ \A j \in 1 .. HeadEnd - 1 : pending[j].type # "SYN"
  BY <1>1, FrameEndProperties DEF HeadEnd
<1>3. n \in Nat /\ n <= Len(pending)
  BY <1>1, <1>2
<1>4. /\ HeadEvents \in Seq(KernelEvents) /\ Len(HeadEvents) = n
      /\ \A i \in 1 .. n : HeadEvents[i] = pending[i]
  <2> HIDE DEF n
  <2> QED BY <1>1, <1>3 DEF HeadEvents, n
<1> QED BY <1>2, <1>4 DEF LoseSome, HeadIsDropped

LEMMA ViewOutlook ==
  ASSUME NEW b1 \in Pads, NEW b2 \in Pads, <<b1, b2>> \in SameView, NEW w \in Pads,
         NEW events \in EventSeqs
  PROVE  Alike(SameView, Outlook(Start(b1), w, events), Outlook(Start(b2), w, events))
<1>1. /\ Start(b1) \in Outlooks /\ Start(b2) \in Outlooks
      /\ Alike(SameView, Start(b1), Start(b2))
  BY StartType DEF Alike
<1> QED BY <1>1, SameViewPreserved, SameViewRefl, OutlooksAlike DEF EventSeqs

\* The answers of a query, put together while the pad stays as it is.
LEMMA ForeseenByAnswer ==
  ASSUME TypeInv, Foreseen, pc # "exit", phys' = phys, Unread' = Unread,
         Base' \in Pads, <<Base, Base'>> \in SameView
  PROVE  Foreseen'
<1>1. Base \in Pads /\ phys \in Pads /\ Unread \in EventSeqs
  BY BaseType, UnreadType DEF TypeInv, TypeOK
<1>2. Alike(SameView, Expected, Outlook(Start(Base'), phys, Unread))
  BY <1>1, ViewOutlook DEF Expected
<1>3. Inside(Expected, phys)
  BY DEF Foreseen
<1>4. Inside(Outlook(Start(Base'), phys, Unread), phys)
  BY <1>2, <1>3, InsideAlike
<1>5. Expected' = Outlook(Start(Base'), phys, Unread)
  BY DEF Expected
<1> QED BY <1>4, <1>5 DEF Foreseen

LEMMA AssembleExpected ==
  ASSUME TypeInv, AssembleFrame \/ AssembleDropped
  PROVE  Expected' = Expected
<1>1. pc = "assemble" /\ HasFrame(pending)
  BY DEF AssembleFrame, AssembleDropped, TypeInv
<1>2. Base = fs /\ fs \in Pads /\ phys \in Pads
  BY <1>1, BaseCases DEF TypeInv, TypeOK
<1> DEFINE rest == RestEvents \o queue
           mid == Outlook(Start(fs), phys, Append(HeadEvents, Syn))
<1>3. Expected = Outlook(mid, phys, rest)
  BY <1>1, <1>2, StartType, HeadOutlook DEF Expected
<1>4. CASE AssembleFrame
  <2>1. HeadEvents \in Seq(ValidEvents)
    <3>1. pending \in Seq(KernelEvents)
      BY DEF TypeInv, TypeOK
    <3> QED BY <1>1, <1>4, <3>1, HeadType, ValidFrame DEF AssembleFrame
  <2>2. /\ fs' = ApplyEvents(fs, HeadEvents) /\ pending' = RestEvents
        /\ UNCHANGED <<phys, queue>> /\ pc' \in {"poll", "assemble", "process"}
    BY <1>4, AfterAssemblyType DEF AssembleFrame, device
  <2>3. mid = Start(fs')
    BY <1>2, <2>1, <2>2, StartType, ReportOutlook
  <2>4. Base' = fs' /\ Unread' = rest
    BY <2>2 DEF Base, Unread
  <2> QED BY <1>3, <2>2, <2>3, <2>4 DEF Expected
<1>5. CASE AssembleDropped
  <2>1. HeadEvents \in Seq(KernelEvents) /\ LoseSome(HeadEvents)
    BY <1>1, <1>5, HeadLosesSome DEF AssembleDropped
  <2>2. mid = Start(phys)
    BY <1>2, <2>1, StartType, LostOutlook
  <2>3. pending' = RestEvents /\ UNCHANGED <<phys, queue>> /\ pc' = "query slot"
    BY <1>5 DEF AssembleDropped, device
  <2>4. Base' = phys /\ Unread' = rest
    BY <2>3 DEF Base, Unread
  <2> QED BY <1>3, <2>2, <2>3, <2>4 DEF Expected
<1> QED BY <1>4, <1>5

LEMMA FetchExpected ==
  ASSUME TypeInv, Fetch
  PROVE  Expected' = Expected
<1>1. UNCHANGED <<phys, fs>> /\ pc = "poll" /\ pc' \in {"poll", "assemble", "process"}
  BY AfterAssemblyType DEF Fetch, device
<1>2. Unread' = Unread
  BY FetchUnread
<1> QED BY <1>1, <1>2 DEF Expected, Base

LEMMA ForeseenAssemble == TypeInv /\ Foreseen /\ Assemble => Foreseen'
<1> SUFFICES ASSUME TypeInv, Foreseen, Assemble PROVE Foreseen'
  OBVIOUS
<1>1. CASE AssembleFrame \/ AssembleDropped
  <2>1. Expected' = Expected
    BY <1>1, AssembleExpected
  <2>2. pc # "exit" /\ phys' = phys
    BY <1>1 DEF AssembleFrame, AssembleDropped, device
  <2> QED BY <2>1, <2>2 DEF Foreseen
<1>2. CASE AssembleInvalid
  BY <1>2 DEF AssembleInvalid, Foreseen
<1> QED BY <1>1, <1>2 DEF Assemble

LEMMA ForeseenQuery == TypeInv /\ Foreseen /\ Query => Foreseen'
<1> SUFFICES ASSUME TypeInv, Foreseen, Query PROVE Foreseen'
  OBVIOUS
<1>1. phys \in Pads /\ answer \in Pads /\ fs \in Pads /\ Base \in Pads
  BY BaseType DEF TypeInv, TypeOK
<1>2. CASE QuerySlot
  <2>1. /\ pc = "query slot" /\ pc' = "query keys" /\ UNCHANGED <<phys, pending, queue>>
        /\ answer' = [answer EXCEPT !.cur = phys.cur]
    BY <1>2 DEF QuerySlot, device
  <2>2. Base = phys /\ Base' = [phys EXCEPT !.cur = phys.cur]
    BY <1>1, <2>1 DEF Base, Pads
  <2>3. Base' = Base
    BY <1>1, <2>2 DEF Pads
  <2> QED BY <1>1, <2>1, <2>3, SameViewRefl, ForeseenByAnswer DEF Unread
<1>3. CASE QueryKeys
  <2>1. /\ pc = "query keys" /\ pc' = "query ids" /\ UNCHANGED <<phys, pending>>
        /\ answer' = [answer EXCEPT !.touch = phys.touch, !.btn = phys.btn]
        /\ queue' = FlushKeys(queue)
    BY <1>3 DEF QueryKeys, device
  <2>2. Base' = Base
    BY <1>1, <2>1 DEF Base, Pads
  <2>3. pending \in EventSeqs /\ queue \in EventSeqs /\ queue' \in EventSeqs
    BY <2>1, UnreadType, FlushKeysType DEF EventSeqs
  <2> DEFINE o == Outlook(Start(Base), phys, pending)
  <2>4. o \in Outlooks /\ Start(Base) \in Outlooks
    BY <1>1, <2>3, StartType, OutlookType DEF EventSeqs
  <2>5. /\ Expected = Outlook(o, phys, queue)
        /\ Expected' = Outlook(o, phys, queue')
    <3>1. Expected = Outlook(o, phys, queue)
      BY <1>1, <2>3, <2>4, OutlookConcat DEF Expected, Unread, EventSeqs
    <3>2. Outlook(Start(Base), phys, pending \o queue') = Outlook(o, phys, queue')
      BY <1>1, <2>3, <2>4, OutlookConcat DEF EventSeqs
    <3>3. Expected' = Outlook(Start(Base), phys, pending \o queue')
      BY <2>1, <2>2 DEF Expected, Unread
    <3> QED BY <3>1, <3>2, <3>3
  <2> HIDE DEF o
  <2>6. Alike(SameView, Expected, Expected')
    BY <1>1, <2>1, <2>3, <2>4, <2>5, FlushOutlook
  <2>7. Inside(Expected, phys)
    BY <2>1 DEF Foreseen
  <2>8. Inside(Expected', phys)
    BY <2>6, <2>7, InsideAlike
  <2> QED BY <2>1, <2>8 DEF Foreseen
<1>4. CASE QueryIds
  <2>1. /\ pc = "query ids" /\ pc' = "query xs" /\ UNCHANGED <<phys, pending, queue>>
        /\ answer' = [answer EXCEPT !.slots =
                        [s \in Slots |-> [@[s] EXCEPT !.id = phys.slots[s].id]]]
    BY <1>4 DEF QueryIds, device
  <2>2. Base = [phys EXCEPT !.cur = answer.cur] /\ Base' = answer'
    BY <2>1 DEF Base
  <2>3. /\ answer' \in Pads /\ answer'.cur = answer.cur
        /\ \A s \in Slots : answer'.slots[s].id = phys.slots[s].id
    <3>1. answer' \in Pads
      BY <1>1, <2>1, AnswerTypes
    <3>2. answer'.cur = answer.cur /\ \A s \in Slots : answer'.slots[s].id = phys.slots[s].id
      BY <1>1, <2>1 DEF Pads, SlotStates
    <3> QED BY <3>1, <3>2
  <2>4. <<Base, Base'>> \in SameView
    BY <1>1, <2>2, <2>3 DEF SameView, Pads
  <2> QED BY <2>1, <2>2, <2>3, <2>4, ForeseenByAnswer DEF Unread
<1>5. CASE QueryXs
  <2>1. /\ pc = "query xs" /\ pc' = "query ys" /\ UNCHANGED <<phys, pending, queue>>
        /\ answer' = [answer EXCEPT !.slots =
                        [s \in Slots |-> [@[s] EXCEPT !.x = phys.slots[s].x]]]
    BY <1>5 DEF QueryXs, device
  <2>2. Base = answer /\ Base' = answer'
    BY <2>1 DEF Base
  <2>3. /\ answer' \in Pads /\ answer'.cur = answer.cur
        /\ \A s \in Slots : answer'.slots[s].id = answer.slots[s].id
    <3>1. answer' \in Pads
      BY <1>1, <2>1, AnswerTypes
    <3> DEFINE slots == [s \in Slots |-> [answer.slots[s] EXCEPT !.x = phys.slots[s].x]]
    <3>2. \A s \in Slots : slots[s].id = answer.slots[s].id
      <4>1. \A r \in SlotStates : \A v : [r EXCEPT !.x = v].id = r.id
        BY DEF SlotStates
      <4>2. \A s \in Slots : answer.slots[s] \in SlotStates
        BY <1>1 DEF Pads
      <4> QED BY <4>1, <4>2
    <3>3. answer' = [answer EXCEPT !.slots = slots]
      BY <2>1
    <3> HIDE DEF slots
    <3>4. answer'.cur = answer.cur /\ answer'.slots = slots
      BY <1>1, <3>3 DEF Pads
    <3> QED BY <3>1, <3>2, <3>4
  <2>4. <<Base, Base'>> \in SameView
    BY <1>1, <2>2, <2>3 DEF SameView
  <2> QED BY <2>1, <2>2, <2>3, <2>4, ForeseenByAnswer DEF Unread
<1>6. CASE QueryYs
  <2>1. /\ pc = "query ys" /\ pc' \in {"poll", "assemble", "process"}
        /\ UNCHANGED <<phys, pending, queue>>
        /\ fs' = [answer EXCEPT !.slots =
                    [s \in Slots |-> [@[s] EXCEPT !.y = phys.slots[s].y]]]
    BY <1>6, AfterAssemblyType DEF QueryYs, device
  <2>2. Base = answer /\ Base' = fs'
    BY <2>1 DEF Base
  <2>3. /\ fs' \in Pads /\ fs'.cur = answer.cur
        /\ \A s \in Slots : fs'.slots[s].id = answer.slots[s].id
    <3>1. fs' \in Pads
      BY <1>1, <2>1, AnswerTypes
    <3> DEFINE slots == [s \in Slots |-> [answer.slots[s] EXCEPT !.y = phys.slots[s].y]]
    <3>2. \A s \in Slots : slots[s].id = answer.slots[s].id
      <4>1. \A r \in SlotStates : \A v : [r EXCEPT !.y = v].id = r.id
        BY DEF SlotStates
      <4>2. \A s \in Slots : answer.slots[s] \in SlotStates
        BY <1>1 DEF Pads
      <4> QED BY <4>1, <4>2
    <3>3. fs' = [answer EXCEPT !.slots = slots]
      BY <2>1
    <3> HIDE DEF slots
    <3>4. fs'.cur = answer.cur /\ fs'.slots = slots
      BY <1>1, <3>3 DEF Pads
    <3> QED BY <3>1, <3>2, <3>4
  <2>4. <<Base, Base'>> \in SameView
    BY <1>1, <2>2, <2>3 DEF SameView
  <2> QED BY <2>1, <2>2, <2>3, <2>4, ForeseenByAnswer DEF Unread
<1> QED BY <1>2, <1>3, <1>4, <1>5, <1>6 DEF Query

LEMMA ForeseenNext == TypeInv /\ Framed /\ Foreseen /\ [Next]_vars => Foreseen'
<1> SUFFICES ASSUME TypeInv, Framed, Foreseen, [Next]_vars PROVE Foreseen'
  OBVIOUS
<1>1. phys \in Pads
  BY DEF TypeInv, TypeOK
<1>2. CASE Fetch
  BY <1>2, FetchExpected DEF Fetch, device, Foreseen
<1>3. CASE TimeoutScrolling
  <2>1. /\ pc = "poll" /\ queue = << >> /\ pc' = "query slot"
        /\ UNCHANGED <<phys, pending, queue>>
    BY <1>3 DEF TimeoutScrolling, device
  <2>2. pending \in Seq(KernelEvents) /\ Unread = pending
    <3>1. pending \in Seq(KernelEvents)
      BY DEF TypeInv, TypeOK
    <3>2. pending \o << >> = pending
      BY <3>1
    <3> QED BY <2>1, <3>1, <3>2 DEF Unread
  <2>3. pending = << >>
    <3> SUFFICES ASSUME pending # << >> PROVE FALSE
      OBVIOUS
    <3>1. pending[Len(pending)] = Syn
      BY <2>2 DEF Framed, EndsInSyn
    <3>2. Len(pending) \in 1 .. Len(pending)
      BY <2>2, EmptySeq
    <3> QED BY <2>1, <3>1, <3>2, ValidKernelEvents DEF Framed, HasFrame
  <2>4. Base' = phys /\ Unread' = << >> /\ phys' = phys
    BY <2>1, <2>2, <2>3 DEF Base, Unread
  <2>5. Expected' = Start(phys)
    BY <1>1, <2>4, StartType, OutlookNone DEF Expected
  <2> QED BY <1>1, <2>4, <2>5, StartInside DEF Foreseen
<1>4. CASE ProcessFrame
  BY <1>4 DEF ProcessFrame, device, source, Foreseen, Expected, Base, Unread
<1>5. CASE LoopEnds
  BY <1>5 DEF LoopEnds, Foreseen
<1>6. CASE UNCHANGED vars
  BY <1>6 DEF vars, Foreseen, Expected, Base, Unread
<1> QED
  BY <1>2, <1>3, <1>4, <1>5, <1>6, ForeseenReport, ForeseenAssemble, ForeseenQuery
    DEF Next, Daemon, TimeoutIdle, Exited

CatchUpInv == Inv /\ Framed /\ Foreseen

LEMMA CatchUpAlways == Spec => []CatchUpInv
<1>1. Init => CatchUpInv
  BY InvInit, FramedInit, ForeseenInit DEF CatchUpInv
<1>2. CatchUpInv /\ [Next]_vars => CatchUpInv'
  BY InvNext, FramedNext, ForeseenNext DEF CatchUpInv, Inv
<1> QED BY <1>1, <1>2, PTL DEF Spec

(***************************************************************************)
(* No finger is left behind on the virtual pad: a drained daemon shows     *)
(* none once the physical pad holds none, for every number of slots, every *)
(* size of buffer and batch, and whatever the pad's reports were cut into, *)
(* lost, answered late or replayed (evdev.rs poll_frames,                  *)
(* reconcile_frame).                                                       *)
(***************************************************************************)
THEOREM FingersLift == Spec => []NoStuckFinger
<1>1. CatchUpInv => NoStuckFinger
  <2> SUFFICES ASSUME CatchUpInv, Drained, ActiveSlots(phys) = {}, NEW s \in Slots
               PROVE  ~IsActive(vpad, s)
    BY DEF NoStuckFinger, ActiveSlots
  <2>1. pc = "poll" /\ Unread = << >>
    <3>1. << >> \o << >> = << >>
      OBVIOUS
    <3> QED BY <3>1 DEF Drained, Unread
  <2>2. phys \in Pads /\ fs \in Pads
    BY DEF CatchUpInv, Inv, TypeInv, TypeOK
  <2>3. Expected = Start(fs)
    BY <2>1, <2>2, BaseCases, StartType, OutlookNone DEF Expected
  <2>4. ~IsActive(fs, s)
    BY <2>1, <2>2, <2>3, StartType DEF CatchUpInv, Foreseen, Inside, ActiveSlots
  <2>5. SameContacts(vpad, fs)
    BY <2>1 DEF CatchUpInv, Framed, Inv, Chain
  <2> QED BY <2>4, <2>5 DEF SameContacts, IsActive
<1> QED BY <1>1, CatchUpAlways, PTL

-----------------------------------------------------------------------------
(***************************************************************************)
(* A reader that keeps up, with scrolling switched off: nothing is lost    *)
(* and no query is ever made, so the outlook is the physical pad itself.   *)
(***************************************************************************)
KeptEvents == Events \cup {Syn}

KeepingUp ==
  /\ pending \in Seq(KeptEvents) /\ queue \in Seq(KeptEvents)
  /\ fsm = FsmIdle
  /\ pc \in {"poll", "assemble", "process", "exit"}
  /\ pc # "exit" => /\ Expected.mode # "lost"
                    /\ Expected.mode = "ok" => Expected.pad = phys

\* Where nothing is lost, the outlook does not depend on the pad's next state.
LEMMA KeptOutlook ==
  ASSUME NEW o \in Outlooks, o.mode # "lost", NEW w1 \in Pads, NEW w2 \in Pads,
         NEW events \in Seq(KeptEvents)
  PROVE  /\ Outlook(o, w1, events) = Outlook(o, w2, events)
         /\ Outlook(o, w1, events).mode # "lost"
<1> DEFINE S == {s \in Seq(KeptEvents) :
                   /\ Outlook(o, w1, s) = Outlook(o, w2, s)
                   /\ Outlook(o, w1, s).mode # "lost"}
<1>1. << >> \in S
  <2>1. << >> \in Seq(KeptEvents)
    OBVIOUS
  <2> QED BY <2>1, OutlookNone
<1>2. ASSUME NEW s \in Seq(KeptEvents), NEW e \in KeptEvents, s \in S
      PROVE  Append(s, e) \in S
  <2> DEFINE mid == Outlook(o, w1, s)
  <2>1. Append(s, e) \in Seq(KeptEvents)
    OBVIOUS
  <2>2. s \in Seq(KernelEvents) /\ e \in KernelEvents /\ e.type # "DROPPED"
    <3>1. KeptEvents \subseteq KernelEvents
      BY DEF KeptEvents, KernelEvents
    <3>2. e.type # "DROPPED"
      BY ValidKernelEvents
        DEF KeptEvents, Events, SlotEvents, IdEvents, PositionEvents, KeyEvents
    <3> QED BY <3>1, <3>2, SeqMonotonic
  <2>3. mid.mode # "lost" /\ Outlook(o, w2, s) = mid
    BY <1>2
  <2>4. /\ Outlook(o, w1, Append(s, e)) = Foresee(mid, w1, e)
        /\ Outlook(o, w2, Append(s, e)) = Foresee(mid, w2, e)
    BY <2>2, <2>3, OutlookAppend
  <2>5. mid \in Outlooks
    BY <2>2, OutlookType
  <2> HIDE DEF mid
  <2>6. Foresee(mid, w1, e) = Foresee(mid, w2, e) /\ Foresee(mid, w1, e).mode # "lost"
    BY <2>2, <2>3, <2>5 DEF Foresee, Start, Outlooks
  <2> QED BY <2>1, <2>4, <2>6
<1>3. Seq(KeptEvents) \subseteq S
  <2> HIDE DEF S
  <2> QED BY <1>1, <1>2, SeqInduction
<1> QED BY <1>3

LEMMA KeepingUpInit == Init => KeepingUp
<1> SUFFICES ASSUME Init PROVE KeepingUp
  OBVIOUS
<1>1. TypeInv
  BY TypeInit
<1>2. fs = phys /\ phys \in Pads /\ Base = phys /\ Unread = << >>
  BY <1>1, BaseCases DEF Init, TypeInv, TypeOK, Unread
<1>3. Expected = Start(phys)
  BY <1>2, StartType, OutlookNone DEF Expected
<1>4. pending \in Seq(KeptEvents) /\ queue \in Seq(KeptEvents)
  BY DEF Init
<1> QED BY <1>2, <1>3, <1>4, StartType DEF KeepingUp, Init

LEMMA KeepingUpReport ==
  ASSUME ~Overflows, TypeInv, KeepingUp, Report
  PROVE  KeepingUp'
<1>1. PICK r \in Reports(phys, next) :
        /\ MayPush(queue, r.events)
        /\ phys' = r.pad
        /\ queue' = PushReport(queue, r.events)
  BY DEF Report
<1>2. UNCHANGED <<pc, pending, fs, answer, fsm>>
  BY DEF Report, source, processor
<1>3. phys' \in Pads /\ phys \in Pads /\ fs \in Pads /\ next \in Nat
  <2>1. TypeInv'
    BY TypeReport
  <2> QED BY <2>1 DEF TypeInv, TypeOK
<1>4. pending \in EventSeqs /\ queue \in EventSeqs /\ Unread \in EventSeqs
  BY UnreadType
<1>5. r.events \in Seq(Events)
  BY ReportsType DEF TypeInv, TypeOK, KernelReports
<1> DEFINE full == Append(r.events, Syn)
<1>6. full \in Seq(KeptEvents) /\ full \in EventSeqs
  <2>1. r.events \in Seq(KeptEvents) /\ Syn \in KeptEvents
    <3>1. Events \subseteq KeptEvents /\ Syn \in KeptEvents
      BY DEF KeptEvents
    <3> QED BY <1>5, <3>1, SeqMonotonic
  <2> QED BY <1>5, <2>1, EventSeqsType
<1>7. queue' = queue \o full
  BY <1>1, <1>4, <1>5, PushReportEffect DEF MayPush
<1>8. /\ pending \in Seq(KeptEvents) /\ queue \in Seq(KeptEvents) /\ fsm = FsmIdle
      /\ pc \in {"poll", "assemble", "process", "exit"}
  BY DEF KeepingUp
<1> HIDE DEF full
<1>9. queue' \in Seq(KeptEvents) /\ Unread' = Unread \o full /\ Unread \in Seq(KeptEvents)
  <2>1. pending \o (queue \o full) = (pending \o queue) \o full
    BY <1>4, <1>6 DEF EventSeqs
  <2> QED BY <1>2, <1>6, <1>7, <1>8, <2>1 DEF Unread
<1>10. ASSUME pc # "exit"
       PROVE  /\ Expected'.mode # "lost"
              /\ Expected'.mode = "ok" => Expected'.pad = phys'
  <2>1. Base = fs /\ Base' = fs
    BY <1>2, <1>8 DEF Base
  <2> DEFINE o == Outlook(Start(fs), phys', Unread)
  <2>2. Start(fs) \in Outlooks /\ Start(fs).mode # "lost"
    BY <1>3, StartType
  <2>3. o = Expected /\ o \in Outlooks
    BY <1>3, <1>4, <1>9, <2>1, <2>2, KeptOutlook, OutlookType DEF Expected, EventSeqs
  <2>4. o.mode # "lost" /\ (o.mode = "ok" => o.pad = phys)
    BY <1>10, <2>3 DEF KeepingUp
  <2>5. Expected' = Outlook(o, phys', full)
    <3>1. Expected' = Outlook(Start(fs), phys', Unread \o full)
      BY <1>9, <2>1 DEF Expected
    <3> QED BY <1>3, <1>4, <1>6, <2>2, <3>1, OutlookConcat DEF EventSeqs
  <2> HIDE DEF o
  <2>6. CASE r.events \in Seq(ValidEvents) /\ ApplyEvents(phys, r.events) = r.pad
    <3>1. Outlook(o, phys', full) = IF o.mode = "ok" THEN Start(ApplyEvents(o.pad, r.events))
                                    ELSE IF o.mode = "lost" THEN Start(phys') ELSE o
      BY <1>3, <2>3, <2>6, ReportOutlook DEF full
    <3> QED BY <1>1, <2>4, <2>5, <2>6, <3>1 DEF Start
  <2>7. CASE r.pad = phys /\ \E bad \in Nat \ Slots : r.events = <<Event("SLOT", bad)>>
    <3>1. PICK bad \in Nat \ Slots : r.events = <<Event("SLOT", bad)>>
      BY <2>7
    <3>2. full = Append(<<Event("SLOT", bad)>>, Syn)
      BY <3>1 DEF full
    <3>3. Outlook(o, phys', full).mode # "ok"
      BY <1>3, <2>3, <2>4, <3>2, BadReportOutlook
    <3>4. Outlook(o, phys', full).mode # "lost"
      BY <1>3, <1>6, <2>3, <2>4, KeptOutlook
    <3> QED BY <2>5, <3>3, <3>4
  <2> QED BY <1>3, <2>6, <2>7, ReportsEffect
<1> QED BY <1>2, <1>8, <1>9, <1>10 DEF KeepingUp

LEMMA KeepingUpNext ==
  ASSUME ~Overflows, ~ScrollEnabled, TypeInv, KeepingUp, [Next]_vars
  PROVE  KeepingUp'
<1>1. CASE Fetch
  <2>1. Expected' = Expected
    BY <1>1, FetchExpected
  <2>2. /\ pc = "poll" /\ pc' \in {"poll", "assemble", "process"}
        /\ UNCHANGED <<phys, fsm>>
    BY <1>1, AfterAssemblyType DEF Fetch, device, processor
  <2>3. pending' \in Seq(KeptEvents) /\ queue' \in Seq(KeptEvents)
    <3> DEFINE m == IF Len(queue) < FetchMax THEN Len(queue) ELSE FetchMax
    <3>1. pending \in Seq(KeptEvents) /\ queue \in Seq(KeptEvents)
      BY DEF KeepingUp
    <3>2. m \in Nat /\ m <= Len(queue)
      BY <3>1, ProxyAssumption
    <3>3. pending' = pending \o SubSeq(queue, 1, m) /\ queue' = SubSeq(queue, m + 1, Len(queue))
      BY <1>1 DEF Fetch
    <3> HIDE DEF m
    <3>4. SubSeq(queue, 1, m) \in Seq(KeptEvents) /\ SubSeq(queue, m + 1, Len(queue)) \in Seq(KeptEvents)
      BY <3>1, <3>2
    <3> QED BY <3>1, <3>3, <3>4
  <2> QED BY <2>1, <2>2, <2>3 DEF KeepingUp
<1>2. CASE TimeoutScrolling
  BY <1>2 DEF TimeoutScrolling, IsScrolling, KeepingUp, FsmIdle
<1>3. CASE Assemble
  <2>1. HasFrame(pending) /\ pc = "assemble" /\ pending \in Seq(KeptEvents)
    BY <1>3 DEF Assemble, AssembleFrame, AssembleInvalid, AssembleDropped, TypeInv, KeepingUp
  <2>2. CASE AssembleFrame
    <3>1. Expected' = Expected
      BY <2>2, AssembleExpected
    <3>2. /\ pending' = RestEvents /\ UNCHANGED <<phys, queue, fsm>>
          /\ pc' \in {"poll", "assemble", "process"}
      BY <2>2, AfterAssemblyType DEF AssembleFrame, device, processor
    <3>3. RestEvents \in Seq(KeptEvents)
      <4>1. pending \in Seq(KernelEvents)
        BY DEF TypeInv, TypeOK
      <4>2. HeadEnd \in 1 .. Len(pending)
        BY <2>1, <4>1, FrameEndProperties DEF HeadEnd
      <4> QED BY <2>1, <4>2 DEF RestEvents
    <3> QED BY <2>1, <3>1, <3>2, <3>3 DEF KeepingUp
  <2>3. CASE AssembleInvalid
    BY <2>3 DEF AssembleInvalid, KeepingUp, source, processor
  <2>4. ~AssembleDropped
    <3>1. HeadEnd \in 1 .. Len(pending)
      <4>1. pending \in Seq(KernelEvents)
        BY DEF TypeInv, TypeOK
      <4> QED BY <2>1, <4>1, FrameEndProperties DEF HeadEnd
    <3>2. \A i \in 1 .. HeadEnd - 1 : pending[i] \in KeptEvents
      BY <2>1, <3>1
    <3>3. \A e \in KeptEvents : e.type # "DROPPED"
      BY ValidKernelEvents
        DEF KeptEvents, Events, SlotEvents, IdEvents, PositionEvents, KeyEvents
    <3> QED BY <3>2, <3>3 DEF AssembleDropped, HeadIsDropped
  <2> QED BY <1>3, <2>2, <2>3, <2>4 DEF Assemble
<1>4. CASE Query
  BY <1>4 DEF Query, QuerySlot, QueryKeys, QueryIds, QueryXs, QueryYs, KeepingUp
<1>5. CASE ProcessFrame
  <2>1. fsm' = FsmIdle
    BY <1>5 DEF ProcessFrame, FsmStep
  <2>2. /\ pc = "process" /\ pc' \in {"poll", "process"}
        /\ UNCHANGED <<phys, queue, pending, fs>>
    BY <1>5 DEF ProcessFrame, device, source
  <2>3. Expected' = Expected
    BY <2>2 DEF Expected, Base, Unread
  <2> QED BY <2>1, <2>2, <2>3 DEF KeepingUp
<1>6. CASE LoopEnds
  BY <1>6 DEF LoopEnds, KeepingUp, source, processor
<1>7. CASE UNCHANGED vars
  BY <1>7 DEF vars, KeepingUp, Expected, Base, Unread
<1> QED
  BY <1>1, <1>2, <1>3, <1>4, <1>5, <1>6, <1>7, KeepingUpReport
    DEF Next, Daemon, TimeoutIdle, Exited

-----------------------------------------------------------------------------
(***************************************************************************)
(* The virtual pad behind such a reader: it differs from the daemon's view *)
(* at most on an axis that neither has been told anything of since the     *)
(* takeover, and the frames not yet processed make up the difference.      *)
(***************************************************************************)
Trailing ==
  {v \in Pads \X Pads :
     /\ SameContacts(v[1], v[2])
     /\ v[1].btn = v[2].btn
     /\ \A s \in Slots :
          /\ Follows(v[1].slots[s].x, v[2].slots[s].x, Origin.x, Leftover.x)
          /\ Follows(v[1].slots[s].y, v[2].slots[s].y, Origin.y, Leftover.y)}

Trail ==
  /\ frames = << >> => <<vpad, fs>> \in Trailing
  /\ frames # << >> => <<ApplyEvents(vpad, frames[1].events), frames[1].contacts>> \in Trailing
  /\ \A i \in 2 .. Len(frames) :
       frames[i].contacts = ApplyEvents(frames[i - 1].contacts, frames[i].events)

LEMMA TrailingPreserved == Preserved(Trailing)
<1> SUFFICES ASSUME NEW p \in Pads, NEW q \in Pads, NEW e \in ValidEvents, <<p, q>> \in Trailing
             PROVE  <<ApplyEvent(p, e), ApplyEvent(q, e)>> \in Trailing
  BY DEF Preserved
<1> DEFINE p1 == ApplyEvent(p, e)
           q1 == ApplyEvent(q, e)
<1>1. p1 \in Pads /\ q1 \in Pads
  BY ApplyEventType
<1>2. /\ p.cur = q.cur /\ p.touch = q.touch /\ p.btn = q.btn
      /\ \A s \in Slots :
           /\ p.slots[s].id = q.slots[s].id
           /\ Follows(p.slots[s].x, q.slots[s].x, Origin.x, Leftover.x)
           /\ Follows(p.slots[s].y, q.slots[s].y, Origin.y, Leftover.y)
  BY DEF Trailing, SameContacts
<1>3. /\ p1.cur = q1.cur /\ p1.touch = q1.touch /\ p1.btn = q1.btn
      /\ \A s \in Slots :
           /\ p1.slots[s].id = q1.slots[s].id
           /\ Follows(p1.slots[s].x, q1.slots[s].x, Origin.x, Leftover.x)
           /\ Follows(p1.slots[s].y, q1.slots[s].y, Origin.y, Leftover.y)
  BY <1>2, ApplyEventEffect DEF Follows
<1> HIDE DEF p1, q1
<1>4. <<p1, q1>> \in Trailing
  BY <1>1, <1>3 DEF Trailing, SameContacts
<1> QED BY <1>4 DEF p1, q1

LEMMA TrailInit == Init => Trail
<1> SUFFICES ASSUME Init PROVE Trail
  OBVIOUS
<1> PICK slot \in Slots : phys = Quiet(Leftover, slot)
  BY DEF Init
<1>1. fs = Quiet(Leftover, slot) /\ vpad = Quiet(Origin, slot) /\ frames = << >>
  BY DEF Init, SelectMtSlot, Quiet
<1>2. fs \in Pads /\ vpad \in Pads
  BY <1>1, QuietType
<1>3. <<vpad, fs>> \in Trailing
  BY <1>1, <1>2 DEF Trailing, SameContacts, Quiet, Follows
<1> QED BY <1>1, <1>3 DEF Trail

LEMMA TrailNext ==
  ASSUME ~ScrollEnabled, Inv, KeepingUp, Trail, [Next]_vars
  PROVE  Trail'
<1>1. /\ vpad \in Pads /\ fs \in Pads /\ frames \in Seq(FrameRecords) /\ TypeInv
      /\ pc \in {"poll", "assemble", "process", "exit"} /\ fsm = FsmIdle
      /\ router = RouterOf(vpad)
      /\ frames # << >> => frames[Len(frames)].contacts = fs
  BY DEF Inv, TypeInv, TypeOK, Chain, KeepingUp
<1> PICK n \in Nat : n = Len(frames)
  BY <1>1
<1>2. CASE UNCHANGED <<vpad, fs, frames>>
  BY <1>2 DEF Trail
<1>3. CASE AssembleFrame
  <2> DEFINE f == Frame(fs', HeadEvents, FALSE)
  <2>1. HeadEvents \in Seq(ValidEvents)
    <3>1. pending \in Seq(KernelEvents) /\ HasFrame(pending)
      BY <1>1, <1>3 DEF TypeInv, TypeOK, AssembleFrame
    <3> QED BY <1>3, <3>1, HeadType, ValidFrame DEF AssembleFrame
  <2>2. /\ fs' = ApplyEvents(fs, HeadEvents) /\ frames' = Append(frames, f) /\ vpad' = vpad
    BY <1>3 DEF AssembleFrame, processor
  <2>3. fs' \in Pads
    BY <1>1, <2>1, <2>2, ApplyEventsType
  <2>4. f.contacts = fs' /\ f.events = HeadEvents /\ f \in FrameRecords
    BY <2>1, <2>3 DEF Frame, FrameRecords
  <2> HIDE DEF f
  <2>5. /\ Len(frames') = n + 1 /\ frames' # << >> /\ frames'[n + 1] = f
        /\ \A i \in 1 .. n : frames'[i] = frames[i]
    BY <1>1, <2>2, <2>4
  <2>6. CASE n = 0
    <3>1. frames = << >>
      BY <1>1, <2>6, EmptySeq
    <3>2. <<ApplyEvents(vpad, HeadEvents), ApplyEvents(fs, HeadEvents)>> \in Trailing
      BY <1>1, <2>1, <3>1, TrailingPreserved, ApplyEventsPreserved DEF Trail
    <3> QED BY <2>2, <2>4, <2>5, <2>6, <3>2 DEF Trail
  <2>7. CASE n # 0
    <3>1. frames # << >> /\ n \in 1 .. n /\ 1 \in 1 .. n
      BY <1>1, <2>7
    <3>2. frames'[1] = frames[1] /\ frames'[n].contacts = fs
      BY <1>1, <2>5, <3>1
    <3>3. ASSUME NEW i \in 2 .. Len(frames')
          PROVE  frames'[i].contacts = ApplyEvents(frames'[i - 1].contacts, frames'[i].events)
      <4>1. CASE i = n + 1
        <5>1. i - 1 = n
          BY <4>1
        <5> QED BY <2>2, <2>4, <2>5, <3>2, <4>1, <5>1
      <4>2. CASE i # n + 1
        <5>1. i \in 2 .. Len(frames) /\ i \in 1 .. n /\ i - 1 \in 1 .. n
          BY <2>5, <4>2
        <5> QED BY <2>5, <5>1 DEF Trail
      <4> QED BY <4>1, <4>2
    <3> QED BY <2>2, <2>5, <3>1, <3>2, <3>3 DEF Trail
  <2> QED BY <2>6, <2>7
<1>4. CASE ProcessFrame
  <2> DEFINE f == frames[1]
  <2>1. /\ frames # << >> /\ n \in Nat /\ n >= 1 /\ frames' = Tail(frames)
        /\ Len(frames') = n - 1 /\ fs' = fs /\ f = Head(frames) /\ f \in FrameRecords
        /\ \A i \in 1 .. n - 1 : frames'[i] = frames[i + 1]
    BY <1>1, <1>4 DEF ProcessFrame, source, TypeInv
  <2>2. vpad' = ApplyEvents(vpad, f.events) /\ f.events \in Seq(ValidEvents) /\ f.contacts \in Pads
    <3>1. f.events \in Seq(ValidEvents) /\ f.contacts \in Pads
      BY <2>1 DEF FrameRecords
    <3>2. \A after : FsmStep(fsm, after) = FsmIdle
      BY DEF FsmStep
    <3>3. Capture(fsm, FsmIdle) = NoContact
      BY <1>1 DEF Capture, FsmIdle
    <3>4. vpad' = RouteFrame(router, vpad, NoContact, f.events).vpad
      BY <1>4, <2>1, <3>2, <3>3 DEF ProcessFrame
    <3> QED BY <1>1, <3>1, <3>4, RouteFrameFree
  <2>3. <<vpad', f.contacts>> \in Trailing /\ vpad' \in Pads
    BY <1>1, <2>1, <2>2, ApplyEventsType DEF Trail
  <2>4. CASE n = 1
    <3>1. frames' = << >> /\ f.contacts = fs
      <4>1. frames' \in Seq(FrameRecords)
        BY <1>1, <2>1
      <4> QED BY <1>1, <2>1, <2>4, <4>1, EmptySeq
    <3>2. Len(frames') = 0
      BY <2>1, <2>4
    <3> QED BY <2>1, <2>3, <3>1, <3>2 DEF Trail
  <2>5. CASE n # 1
    <3>1. 1 \in 1 .. n - 1 /\ 2 \in 2 .. n /\ n = Len(frames) /\ 2 \in 1 .. n
      BY <2>1, <2>5
    <3> DEFINE g == frames[2]
    <3>2. frames'[1] = g /\ g \in FrameRecords /\ frames' # << >>
      <4>1. frames'[1] = frames[1 + 1]
        BY <2>1, <3>1
      <4>2. Len(frames') # 0
        BY <2>1, <2>5
      <4>3. 1 + 1 = 2
        OBVIOUS
      <4>4. g \in FrameRecords
        BY <1>1, <3>1
      <4>5. frames' # << >>
        BY <4>2
      <4> QED BY <4>1, <4>3, <4>4, <4>5
    <3>3. g.contacts = ApplyEvents(f.contacts, g.events)
      <4>1. frames[2].contacts = ApplyEvents(frames[2 - 1].contacts, frames[2].events)
        BY <3>1 DEF Trail
      <4> QED BY <4>1
    <3>4. g.events \in Seq(ValidEvents)
      BY <3>2 DEF FrameRecords
    <3>5. <<ApplyEvents(vpad', g.events), g.contacts>> \in Trailing
      BY <2>2, <2>3, <3>3, <3>4, TrailingPreserved, ApplyEventsPreserved
    <3>6. ASSUME NEW i \in 2 .. Len(frames')
          PROVE  frames'[i].contacts = ApplyEvents(frames'[i - 1].contacts, frames'[i].events)
      <4>1. /\ i \in 1 .. n - 1 /\ i - 1 \in 1 .. n - 1 /\ i - 1 + 1 = i
            /\ i + 1 \in 2 .. Len(frames) /\ i + 1 - 1 = i
        BY <2>1
      <4>2. frames'[i] = frames[i + 1] /\ frames'[i - 1] = frames[i]
        BY <2>1, <4>1
      <4>3. frames[i + 1].contacts = ApplyEvents(frames[i + 1 - 1].contacts, frames[i + 1].events)
        BY <4>1 DEF Trail
      <4> QED BY <4>1, <4>2, <4>3
    <3> QED BY <3>2, <3>5, <3>6 DEF Trail
  <2> QED BY <2>4, <2>5
<1>5. \/ AssembleFrame \/ ProcessFrame \/ UNCHANGED <<vpad, fs, frames>>
  <2>1. CASE Report
    BY <2>1 DEF Report, source, processor
  <2>2. CASE Fetch \/ TimeoutScrolling \/ AssembleInvalid \/ AssembleDropped \/ LoopEnds
    BY <2>2 DEF Fetch, TimeoutScrolling, AssembleInvalid, AssembleDropped, LoopEnds, source,
                processor
  <2>3. ~Query
    BY <1>1 DEF Query, QuerySlot, QueryKeys, QueryIds, QueryXs, QueryYs
  <2>4. CASE UNCHANGED vars
    BY <2>4 DEF vars
  <2> QED BY <2>1, <2>2, <2>3, <2>4 DEF Next, Daemon, Assemble, TimeoutIdle, Exited
<1> QED BY <1>2, <1>3, <1>4, <1>5

-----------------------------------------------------------------------------
(***************************************************************************)
(* What a reader that keeps up guarantees.  Nothing is lost, and scrolling *)
(* is switched off so that no liveness query cuts into the queue.          *)
(***************************************************************************)
Lossless == ~Overflows /\ ~ScrollEnabled

KeptInv == Inv /\ Framed /\ KeepingUp /\ Trail

LEMMA KeptAlways == Lossless => (Spec => []KeptInv)
<1> SUFFICES ASSUME Lossless PROVE Spec => []KeptInv
  OBVIOUS
<1>1. Init => KeptInv
  BY InvInit, FramedInit, KeepingUpInit, TrailInit DEF KeptInv
<1>2. KeptInv /\ [Next]_vars => KeptInv'
  BY InvNext, FramedNext, KeepingUpNext, TrailNext DEF KeptInv, Inv, Lossless
<1> QED BY <1>1, <1>2, PTL DEF Spec

LEMMA DrainedView ==
  KeptInv /\ Drained => /\ fs = phys
                        /\ frames = << >>
                        /\ SameContacts(vpad, phys)
                        /\ <<vpad, phys>> \in Trailing
<1> SUFFICES ASSUME KeptInv, Drained
             PROVE  /\ fs = phys
                    /\ frames = << >>
                    /\ SameContacts(vpad, phys)
                    /\ <<vpad, phys>> \in Trailing
  OBVIOUS
<1>1. pc = "poll" /\ Unread = << >>
  <2>1. << >> \o << >> = << >>
    OBVIOUS
  <2> QED BY <2>1 DEF Drained, Unread
<1>2. fs \in Pads /\ phys \in Pads
  BY DEF KeptInv, Inv, TypeInv, TypeOK
<1>3. Expected = Start(fs)
  BY <1>1, <1>2, BaseCases, StartType, OutlookNone DEF Expected
<1>4. fs = phys
  BY <1>1, <1>2, <1>3, StartType DEF KeptInv, KeepingUp
<1>5. frames = << >>
  BY <1>1 DEF KeptInv, Framed
<1> QED BY <1>4, <1>5 DEF KeptInv, Inv, Chain, Trail

(***************************************************************************)
(* A daemon that has drained its input knows the pad exactly, for every    *)
(* size of buffer and batch, however the pad's reports were cut into       *)
(* batches (evdev.rs assemble_frames, FrameState::apply_event).            *)
(***************************************************************************)
THEOREM ViewCatchesUp == Lossless => (Spec => []CaughtUp)
<1> SUFFICES ASSUME Lossless PROVE Spec => []CaughtUp
  OBVIOUS
<1>1. KeptInv => CaughtUp
  BY DrainedView DEF CaughtUp
<1> QED BY <1>1, KeptAlways, PTL

(***************************************************************************)
(* ... the virtual pad then holds the fingers of the physical pad, in the  *)
(* same slots, with the same slot selected (router.rs Router).             *)
(***************************************************************************)
THEOREM FingersCatchUp == Lossless => (Spec => []FingersCaughtUp)
<1> SUFFICES ASSUME Lossless PROVE Spec => []FingersCaughtUp
  OBVIOUS
<1>1. KeptInv => FingersCaughtUp
  BY DrainedView DEF FingersCaughtUp, SameContacts, RouterOf
<1> QED BY <1>1, KeptAlways, PTL

(***************************************************************************)
(* ... its button is the physical button, so that no click is left held    *)
(* (uinput.rs VirtualTouchpad, proxy.rs process_frame).                    *)
(***************************************************************************)
THEOREM ButtonsCatchUp == Lossless => (Spec => []ButtonsCaughtUp)
<1> SUFFICES ASSUME Lossless PROVE Spec => []ButtonsCaughtUp
  OBVIOUS
<1>1. KeptInv => ButtonsCaughtUp
  BY DrainedView DEF ButtonsCaughtUp, Trailing
<1> QED BY <1>1, KeptAlways, PTL

(***************************************************************************)
(* ... and each of its fingers is where the physical one is, on every axis *)
(* that either has been told of since the takeover (proxy.rs start,        *)
(* process_frame).                                                         *)
(***************************************************************************)
THEOREM PointerCatchesUp == Lossless => (Spec => []PointerFollows)
<1> SUFFICES ASSUME Lossless PROVE Spec => []PointerFollows
  OBVIOUS
<1>1. KeptInv => PointerFollows
  BY DrainedView DEF PointerFollows, Trailing, ActiveSlots
<1> QED BY <1>1, KeptAlways, PTL

-----------------------------------------------------------------------------
(***************************************************************************)
(* The frame a reconciliation builds (evdev.rs reconciliation_events)      *)
(* selects a slot before it says anything of it, and names its contact     *)
(* before it places it.                                                    *)
(***************************************************************************)
\* Only slots below n have been placed.
PlacedBelow(events, n) ==
  \A p \in Pads : \A slot \in Slots : /\ NamesFirst(p, events, slot)
                                      /\ Placed(p, events, slot) => slot < n

Selecting(events, n) ==
  PlacedBelow(events, n) /\ \A p \in Pads : ApplyEvents(p, events).cur = n

LEMMA PlacedBelowNone == PlacedBelow(<< >>, 0)
BY DEF PlacedBelow, NamesFirst, Placed

LEMMA PlacedBelowAppend ==
  ASSUME NEW n \in Slots, NEW events \in Seq(ValidEvents), NEW e \in ValidEvents
  PROVE  /\ PlacedBelow(events, n) => PlacedBelow(events, n + 1)
         /\ PlacedBelow(events, n) /\ e.type \in {"SLOT", "TOUCH", "BTN"} =>
              PlacedBelow(Append(events, e), n)
         /\ PlacedBelow(events, n) /\ e = Event("SLOT", n) => Selecting(Append(events, e), n)
         /\ Selecting(events, n) /\ e.type = "ID" => Selecting(Append(events, e), n)
         /\ \A f \in ValidEvents :
              Selecting(events, n) /\ e.type = "X" /\ f.type = "Y" =>
                PlacedBelow(Append(Append(events, e), f), n + 1)
<1> DEFINE more == Append(events, e)
<1>1. more \in Seq(ValidEvents) /\ n \in Int /\ \A slot \in Slots : slot \in Int
  BY DEF Slots
<1>2. ASSUME NEW p \in Pads
      PROVE  ApplyEvents(p, events) \in Pads
             /\ ApplyEvents(p, more) = ApplyEvent(ApplyEvents(p, events), e)
  BY <1>2, ApplyEventsType, ApplyEventsAppend
<1>3. ASSUME NEW p \in Pads
      PROVE  ApplyEvents(p, more).cur = IF e.type = "SLOT" THEN e.value
                                        ELSE ApplyEvents(p, events).cur
  BY <1>2, <1>3, ApplyEventEffect
<1>4. PlacedBelow(events, n) => PlacedBelow(events, n + 1)
  BY <1>1 DEF PlacedBelow
<1>5. ASSUME PlacedBelow(events, n), e.type \in {"SLOT", "TOUCH", "BTN"}
      PROVE  PlacedBelow(more, n)
  BY <1>5, NamesFirstAppend DEF PlacedBelow
<1>6. ASSUME PlacedBelow(events, n), e = Event("SLOT", n)
      PROVE  Selecting(more, n)
  BY <1>3, <1>5, <1>6 DEF Selecting, Event
<1>7. ASSUME Selecting(events, n), e.type = "ID"
      PROVE  Selecting(more, n)
  <2>1. PlacedBelow(more, n)
    <3> SUFFICES ASSUME NEW p \in Pads
                 PROVE  \A slot \in Slots : /\ NamesFirst(p, more, slot)
                                            /\ Placed(p, more, slot) => slot < n
      BY DEF PlacedBelow
    <3>1. ApplyEvents(p, more).cur = n
      BY <1>3, <1>7 DEF Selecting
    <3>2. \A slot \in Slots : NamesFirst(p, events, slot) /\ (Placed(p, events, slot) => slot < n)
      BY <1>7 DEF Selecting, PlacedBelow
    <3>3. ~Placed(p, events, n)
      BY <1>1, <3>2
    <3> QED BY <1>7, <3>1, <3>2, <3>3, NamesFirstAppend
  <2> QED BY <1>3, <1>7, <2>1 DEF Selecting
<1>8. ASSUME NEW f \in ValidEvents, Selecting(events, n), e.type = "X", f.type = "Y"
      PROVE  PlacedBelow(Append(more, f), n + 1)
  <2> SUFFICES ASSUME NEW p \in Pads
               PROVE  \A slot \in Slots : /\ NamesFirst(p, Append(more, f), slot)
                                          /\ Placed(p, Append(more, f), slot) => slot < n + 1
    BY DEF PlacedBelow
  <2>1. ApplyEvents(p, more).cur = n
    BY <1>3, <1>8 DEF Selecting
  <2>2. ApplyEvents(p, Append(more, f)).cur = n
    <3>1. ApplyEvents(p, more) \in Pads
      BY <1>1, ApplyEventsType
    <3> HIDE DEF more
    <3>2. ApplyEvents(p, Append(more, f)) = ApplyEvent(ApplyEvents(p, more), f)
      BY <1>1, ApplyEventsAppend
    <3> QED BY <1>8, <2>1, <3>1, <3>2, ApplyEventEffect
  <2>3. \A slot \in Slots : NamesFirst(p, events, slot) /\ (Placed(p, events, slot) => slot < n)
    BY <1>8 DEF Selecting, PlacedBelow
  <2>4. \A slot \in Slots : NamesFirst(p, more, slot) /\ (Placed(p, more, slot) => slot < n + 1)
    BY <1>1, <1>8, <2>1, <2>3, NamesFirstAppend
  <2> HIDE DEF more
  <2> QED BY <1>1, <1>8, <2>2, <2>4, NamesFirstAppend
<1> QED BY <1>4, <1>5, <1>6, <1>7, <1>8 DEF more

LEMMA SlotReconciliationOrder ==
  ASSUME NEW n \in Slots, NEW old \in SlotStates, NEW new \in SlotStates, NEW kind0,
         NEW events \in Seq(ValidEvents), PlacedBelow(events, n)
  PROVE  PlacedBelow(events \o SlotReconciliation(n, old, new, kind0), n + 1)
<1> DEFINE identityChanged == old.id # new.id
           rebuildPosition == /\ new.id # Inactive
                              /\ identityChanged \/ kind0 = "LostSynchronization"
           a == Event("SLOT", n)
           b == Event("ID", Inactive)
           c == Event("ID", new.id)
           x == Event("X", new.x)
           y == Event("Y", new.y)
           A == IF identityChanged \/ rebuildPosition THEN <<a>> ELSE << >>
           B == IF identityChanged /\ old.id # Inactive THEN <<b>> ELSE << >>
           C == IF identityChanged /\ new.id # Inactive THEN <<c>> ELSE << >>
           D == IF rebuildPosition THEN <<x, y>> ELSE << >>
<1>1. /\ a \in ValidEvents /\ b \in ValidEvents /\ c \in ValidEvents /\ x \in ValidEvents
      /\ y \in ValidEvents
      /\ a = Event("SLOT", n) /\ b.type = "ID" /\ c.type = "ID" /\ x.type = "X" /\ y.type = "Y"
  BY NSlotsAssumption
    DEF Event, ValidEvents, Events, SlotEvents, IdEvents, PositionEvents, KeyEvents,
        Slots, SlotStates, TrackingIds, Inactive
<1>2. SlotReconciliation(n, old, new, kind0) = A \o B \o C \o D
  BY DEF SlotReconciliation
<1> HIDE DEF a, b, c, x, y
<1>3. /\ A \in Seq(ValidEvents) /\ B \in Seq(ValidEvents) /\ C \in Seq(ValidEvents)
      /\ D \in Seq(ValidEvents)
  BY <1>1
<1>4. CASE ~identityChanged /\ ~rebuildPosition
  <2>1. A \o B \o C \o D = << >> /\ events \o << >> = events
    BY <1>4
  <2>2. PlacedBelow(events, n + 1)
    BY <1>1, PlacedBelowAppend
  <2> HIDE DEF A, B, C, D
  <2> QED BY <1>2, <2>1, <2>2
<1>5. CASE identityChanged \/ rebuildPosition
  <2> DEFINE s1 == Append(events, a)
             s2 == IF identityChanged /\ old.id # Inactive THEN Append(s1, b) ELSE s1
             s3 == IF identityChanged /\ new.id # Inactive THEN Append(s2, c) ELSE s2
             s4 == IF rebuildPosition THEN Append(Append(s3, x), y) ELSE s3
  <2>1. s1 \in Seq(ValidEvents) /\ Selecting(s1, n)
    BY <1>1, PlacedBelowAppend
  <2> HIDE DEF s1
  <2>2. s2 \in Seq(ValidEvents) /\ Selecting(s2, n)
    BY <1>1, <2>1, PlacedBelowAppend
  <2> HIDE DEF s2
  <2>3. s3 \in Seq(ValidEvents) /\ Selecting(s3, n)
    BY <1>1, <2>2, PlacedBelowAppend
  <2> HIDE DEF s3
  <2>4. PlacedBelow(s4, n + 1)
    <3>1. CASE rebuildPosition
      BY <1>1, <2>3, <3>1, PlacedBelowAppend
    <3>2. CASE ~rebuildPosition
      BY <1>1, <2>3, <3>2, PlacedBelowAppend DEF Selecting
    <3> QED BY <3>1, <3>2
  <2>5. s4 = events \o (A \o B \o C \o D)
    <3>1. s1 = events \o A
      BY <1>5 DEF s1
    <3> HIDE DEF A
    <3>2. s2 = s1 \o B
      BY <1>1, <2>1 DEF s2
    <3> HIDE DEF B
    <3>3. s3 = s2 \o C
      BY <1>1, <2>2 DEF s3
    <3> HIDE DEF C
    <3>4. s4 = s3 \o D
      BY <1>1, <2>3
    <3> HIDE DEF D, s4
    <3>5. (((events \o A) \o B) \o C) \o D = events \o (((A \o B) \o C) \o D)
      <4>1. \A p, q, r \in Seq(ValidEvents) : p \o q \in Seq(ValidEvents)
                                             /\ (p \o q) \o r = p \o (q \o r)
        OBVIOUS
      <4>2. A \o B \in Seq(ValidEvents) /\ (A \o B) \o C \in Seq(ValidEvents)
        BY <1>3, <4>1
      <4>3. (events \o A) \o B = events \o (A \o B)
        BY <1>3, <4>1
      <4>4. (events \o (A \o B)) \o C = events \o ((A \o B) \o C)
        BY <1>3, <4>1, <4>2
      <4>5. (events \o ((A \o B) \o C)) \o D = events \o (((A \o B) \o C) \o D)
        BY <1>3, <4>1, <4>2
      <4> QED BY <4>3, <4>4, <4>5
    <3> QED BY <3>1, <3>2, <3>3, <3>4, <3>5
  <2> HIDE DEF s4
  <2> QED BY <1>2, <2>4, <2>5
<1> QED BY <1>4, <1>5

LEMMA ReconciliationOrder ==
  ASSUME NEW p \in Pads, NEW q \in Pads, NEW kind0, NEW v \in Pads
  PROVE  \A slot \in Slots : NamesFirst(v, ReconciliationEvents(p, q, kind0), slot)
<1>1. PICK below : /\ SlotEventsUpTo(below, p, q, kind0)
                   /\ ReconciliationEvents(p, q, kind0) =
                        below[NSlots] \o TouchReconciliation(p, q) \o <<Event("SLOT", q.cur)>>
  BY ReconciliationRun
<1>2. below \in [0 .. NSlots -> Seq(ValidEvents)] /\ below[0] = << >>
  BY <1>1 DEF SlotEventsUpTo
<1> DEFINE S == {n \in 0 .. NSlots : PlacedBelow(below[n], n)}
<1>3. NSlots \in Nat /\ \A n \in 1 .. NSlots : n - 1 \in Slots /\ n - 1 \in 0 .. NSlots /\ n - 1 + 1 = n
  BY NSlotsAssumption DEF Slots
<1>4. 0 \in S
  BY <1>2, <1>3, PlacedBelowNone
<1>5. \A n \in 1 .. NSlots : n - 1 \in S => n \in S
  <2> SUFFICES ASSUME NEW n \in 1 .. NSlots, PlacedBelow(below[n - 1], n - 1)
               PROVE  PlacedBelow(below[n], n)
    BY <1>3
  <2> DEFINE m == n - 1
  <2>1. m \in Slots /\ below[m] \in Seq(ValidEvents) /\ PlacedBelow(below[m], m) /\ m + 1 = n
    BY <1>2, <1>3
  <2>2. below[n] = below[m] \o SlotReconciliation(m, p.slots[m], q.slots[m], kind0)
    BY <1>1 DEF SlotEventsUpTo, WithSlotEvents
  <2> HIDE DEF m
  <2>3. p.slots[m] \in SlotStates /\ q.slots[m] \in SlotStates
    BY <2>1 DEF Pads
  <2>4. PlacedBelow(below[m] \o SlotReconciliation(m, p.slots[m], q.slots[m], kind0), m + 1)
    BY <2>1, <2>3, SlotReconciliationOrder
  <2> QED BY <2>1, <2>2, <2>4
<1>6. NSlots \in S
  <2>1. 0 .. NSlots \subseteq S
    <3> HIDE DEF S
    <3> QED BY <1>3, <1>4, <1>5, RangeInduction
  <2>2. NSlots \in 0 .. NSlots
    BY <1>3
  <2> QED BY <2>1, <2>2
<1> DEFINE touch == Event("TOUCH", q.touch)
           last == Event("SLOT", q.cur)
           all == below[NSlots]
           named == IF p.touch = q.touch THEN all ELSE Append(all, touch)
<1>7. touch \in ValidEvents /\ last \in ValidEvents /\ touch.type = "TOUCH" /\ last.type = "SLOT"
  BY NSlotsAssumption
    DEF Event, ValidEvents, Events, SlotEvents, IdEvents, PositionEvents, KeyEvents, Slots, Pads
<1>8. all \in Seq(ValidEvents) /\ PlacedBelow(all, NSlots)
      /\ \A slot \in Slots : NamesFirst(v, all, slot)
  BY <1>2, <1>6 DEF PlacedBelow
<1>9. ReconciliationEvents(p, q, kind0) = Append(named, last)
  <2>1. TouchReconciliation(p, q) = IF p.touch = q.touch THEN << >> ELSE <<touch>>
    BY DEF TouchReconciliation
  <2> HIDE DEF touch, last, all
  <2>2. all \o TouchReconciliation(p, q) = named
    BY <1>7, <1>8, <2>1
  <2>3. named \in Seq(ValidEvents)
    BY <1>7, <1>8
  <2>4. named \o <<last>> = Append(named, last)
    BY <1>7, <2>3
  <2> QED BY <1>1, <2>2, <2>4 DEF all, last
<1> HIDE DEF touch, last, all
<1>10. named \in Seq(ValidEvents) /\ \A slot \in Slots : NamesFirst(v, named, slot)
  BY <1>7, <1>8, NamesFirstAppend
<1> HIDE DEF named
<1> QED BY <1>7, <1>9, <1>10, NamesFirstAppend

(***************************************************************************)
(* A frame a reconciliation has built is misplaced in no slot.             *)
(***************************************************************************)
WellPlaced(frame) ==
  frame.reconciled =>
    \A p \in Pads, slot \in Slots : NamesFirst(p, frame.events, slot)

RebuiltPlaced == \A i \in 1 .. Len(frames) : WellPlaced(frames[i])

LEMMA RebuiltPlacedInit == Init => RebuiltPlaced
BY DEF Init, RebuiltPlaced

\* A frame is put together at the end of the list, or taken from its front.
LEMMA AppendPlaced ==
  ASSUME Inv, RebuiltPlaced, NEW f \in FrameRecords, frames' = Append(frames, f), WellPlaced(f)
  PROVE  RebuiltPlaced'
<1>1. frames \in Seq(FrameRecords) /\ Len(frames) \in Nat
  BY DEF Inv, TypeInv
<1>2. /\ Len(frames') = Len(frames) + 1
      /\ \A i \in 1 .. Len(frames') :
           frames'[i] = IF i = Len(frames) + 1 THEN f ELSE frames[i]
  BY <1>1
<1>3. \A i \in 1 .. Len(frames) + 1 : i = Len(frames) + 1 \/ i \in 1 .. Len(frames)
  BY <1>1
<1>4. \A i \in 1 .. Len(frames') : WellPlaced(frames'[i])
  BY <1>2, <1>3 DEF RebuiltPlaced
<1> QED BY <1>4 DEF RebuiltPlaced, WellPlaced

LEMMA RebuiltPlacedNext == Inv /\ RebuiltPlaced /\ [Next]_vars => RebuiltPlaced'
<1> SUFFICES ASSUME Inv, RebuiltPlaced, [Next]_vars PROVE RebuiltPlaced'
  OBVIOUS
<1>1. frames \in Seq(FrameRecords)
  BY DEF Inv, TypeInv
<1>2. CASE AssembleFrame
  <2> DEFINE f == Frame(fs', HeadEvents, FALSE)
  <2>1. frames' = Append(frames, f) /\ ~f.reconciled
    BY <1>2 DEF AssembleFrame, Frame
  <2>2. f \in FrameRecords
    <3>1. frames' \in Seq(FrameRecords)
      BY InvNext DEF Inv, TypeInv
    <3> HIDE DEF f
    <3>2. frames'[Len(frames) + 1] = f /\ Len(frames) + 1 \in 1 .. Len(frames')
      BY <1>1, <2>1
    <3> QED BY <3>1, <3>2
  <2> HIDE DEF f
  <2> QED BY <2>1, <2>2, AppendPlaced DEF WellPlaced
<1>3. CASE QueryYs
  <2> DEFINE refreshed == [answer EXCEPT !.slots =
                             [s \in Slots |-> [@[s] EXCEPT !.y = phys.slots[s].y]]]
             f == Frame(refreshed, ReconciliationEvents(fs, refreshed, kind), TRUE)
  <2>1. frames' = Append(frames, f) /\ fs' = refreshed
    BY <1>3 DEF QueryYs
  <2>2. fs \in Pads /\ refreshed \in Pads
    <3>1. fs' \in Pads
      BY InvNext DEF Inv, TypeInv, TypeOK
    <3> QED BY <2>1, <3>1 DEF Inv, TypeInv, TypeOK
  <2>3. f \in FrameRecords
    <3>1. frames' \in Seq(FrameRecords)
      BY InvNext DEF Inv, TypeInv
    <3> HIDE DEF f
    <3>2. frames'[Len(frames) + 1] = f /\ Len(frames) + 1 \in 1 .. Len(frames')
      BY <1>1, <2>1
    <3> QED BY <3>1, <3>2
  <2> HIDE DEF refreshed
  <2>4. WellPlaced(f)
    BY <2>2, ReconciliationOrder DEF WellPlaced, Frame
  <2> HIDE DEF f
  <2> QED BY <2>1, <2>3, <2>4, AppendPlaced
<1>4. CASE ProcessFrame
  <2>1. frames # << >> /\ frames' = Tail(frames)
    BY <1>4 DEF Inv, TypeInv, ProcessFrame
  <2>2. /\ Len(frames') = Len(frames) - 1
        /\ \A i \in 1 .. Len(frames') : frames'[i] = frames[i + 1] /\ i + 1 \in 1 .. Len(frames)
    BY <1>1, <2>1
  <2>3. \A i \in 1 .. Len(frames') : WellPlaced(frames'[i])
    BY <2>2 DEF RebuiltPlaced
  <2> QED BY <2>3 DEF RebuiltPlaced, WellPlaced
<1>5. CASE ~AssembleFrame /\ ~QueryYs /\ ~ProcessFrame
  <2>1. frames' = frames
    BY <1>5 DEF Next, Daemon, Report, Fetch, TimeoutIdle, TimeoutScrolling, Assemble,
                AssembleInvalid, AssembleDropped, Query, QuerySlot, QueryKeys, QueryIds,
                QueryXs, LoopEnds, Exited, vars
  <2> QED BY <2>1 DEF RebuiltPlaced, WellPlaced
<1> QED BY <1>2, <1>3, <1>4, <1>5

LEMMA RebuiltPlacedAlways == Spec => [](Inv /\ RebuiltPlaced)
<1>1. Init => RebuiltPlaced
  BY RebuiltPlacedInit
<1>2. Inv /\ RebuiltPlaced /\ [Next]_vars => RebuiltPlaced'
  BY RebuiltPlacedNext
<1> QED BY <1>1, <1>2, InvAlways, PTL DEF Spec

\* Where a frame is not misplaced it names first.
LEMMA HeadNamesFirst ==
  ASSUME Inv, RebuiltPlaced, ProcessFrame, NEW slot \in Slots, ~Misplaced(Head(frames), slot)
  PROVE  NamesFirst(vpad, Head(frames).events, slot)
<1>1. frames # << >> /\ frames \in Seq(FrameRecords) /\ vpad \in Pads
  BY DEF Inv, TypeInv, TypeOK, ProcessFrame
<1>2. WellPlaced(Head(frames))
  BY <1>1 DEF RebuiltPlaced
<1> QED BY <1>1, <1>2 DEF Misplaced, WellPlaced

(***************************************************************************)
(* The tracked contact stands still on the virtual pad for as long as it   *)
(* is captured, whatever frames, reconciliations and other contacts come   *)
(* by and however many fingers a report is of, but for frames that are     *)
(* misplaced in its slot (proxy.rs process_frame, router.rs                *)
(* suppress_position).                                                     *)
(***************************************************************************)
THEOREM CaptureHolds == Spec => CaptureFreezes
<1> DEFINE Frozen ==
      Captured => TrackedStays \/ (Processes /\ Misplaced(Head(frames), fsm.contact.slot))
<1>1. Inv /\ RebuiltPlaced /\ [Next]_vars => [Frozen]_vars
  <2> SUFFICES ASSUME Inv, RebuiltPlaced, Next, Captured PROVE Frozen
    OBVIOUS
  <2>1. CASE ProcessFrame
    <3> DEFINE contacts == Head(frames).contacts
    <3>1. contacts \in Pads /\ fsm \in FsmStates
      BY <2>1, ProcessHeldBack DEF FrameRecords, Inv, TypeInv, TypeOK
    <3>2. fsm' = FsmStep(fsm, TouchFrame(contacts)) /\ Processes
      BY <2>1 DEF ProcessFrame, Processes
    <3>3. /\ fsm.contact.slot \in Slots
          /\ Holds(contacts, fsm.contact.slot, Capture(fsm, fsm'))
      <4> HIDE DEF contacts
      <4> QED BY <3>1, <3>2, CapturedPresent DEF ContactIds, Captured
    <3>4. ~Misplaced(Head(frames), fsm.contact.slot) =>
            SamePlace(vpad', vpad, fsm.contact.slot)
      BY <2>1, <3>3, HeadNamesFirst, ProcessHeldBack
    <3> QED BY <3>2, <3>4 DEF SamePlace, PositionOf, TrackedStays
  <2>2. CASE ~ProcessFrame
    BY <2>2, VpadChanges DEF TrackedStays
  <2> QED BY <2>1, <2>2
<1> QED BY <1>1, RebuiltPlacedAlways, PTL DEF Spec, CaptureFreezes

(***************************************************************************)
(* ... and nothing else is held back: every other contact and every button *)
(* of the virtual pad is what it would be without the capture (router.rs   *)
(* route_frame), but for the slots a frame is misplaced in.                *)
(***************************************************************************)
THEOREM CaptureHoldsNothingElse == Spec => CaptureIsLocal
<1> DEFINE Local ==
      Processes =>
        LET frame == Head(frames)
            capture == Capture(fsm, fsm')
            free == RouteFrame(router, vpad, NoContact, frame.events).vpad
        IN  /\ vpad'.touch = free.touch /\ vpad'.btn = free.btn
            /\ \A slot \in Slots :
                 \/ capture = ContactOf(frame.contacts, slot)
                 \/ vpad'.slots[slot] = free.slots[slot]
                 \/ Misplaced(frame, slot)
<1>1. Inv /\ RebuiltPlaced /\ [Next]_vars => [Local]_vars
  <2> SUFFICES ASSUME Inv, RebuiltPlaced, Next, Processes PROVE Local
    OBVIOUS
  <2>1. ProcessFrame
    <3>1. frames # << >> /\ frames' # frames
      <4>1. frames \in Seq(FrameRecords) /\ (pc = "process" => frames # << >>)
        BY DEF Inv, TypeInv
      <4> QED BY <4>1 DEF Processes
    <3>2. ~QueryYs /\ ~AssembleFrame
      BY DEF QueryYs, AssembleFrame, Processes
    <3> QED BY <3>1, <3>2
          DEF Next, Daemon, Report, Fetch, TimeoutIdle, TimeoutScrolling, Assemble,
              AssembleInvalid, AssembleDropped, Query, QuerySlot, QueryKeys, QueryIds, QueryXs,
              LoopEnds, Exited, vars
  <2> DEFINE frame == Head(frames)
             capture == Capture(fsm, fsm')
             free == RouteFrame(router, vpad, NoContact, frame.events).vpad
  <2>2. /\ vpad'.touch = free.touch /\ vpad'.btn = free.btn
        /\ \A slot \in Slots :
             ~Misplaced(frame, slot) /\ ~Holds(frame.contacts, slot, capture) =>
               vpad'.slots[slot] = free.slots[slot]
    BY <2>1, HeadNamesFirst, ProcessHeldBack
  <2>3. capture \in ContactIds \cup {NoContact}
    <3>1. Inv'
      BY InvNext
    <3> QED BY <3>1, CaptureOf DEF Inv, TypeInv, TypeOK
  <2> HIDE DEF capture, free, frame
  <2>4. ASSUME NEW slot \in Slots, capture # ContactOf(frame.contacts, slot)
        PROVE  ~Holds(frame.contacts, slot, capture)
    BY <2>3, <2>4 DEF Holds, ContactOf, ContactIds
  <2> QED BY <2>2, <2>4 DEF capture, free, frame
<1> QED BY <1>1, RebuiltPlacedAlways, PTL DEF Spec, CaptureIsLocal
=============================================================================
