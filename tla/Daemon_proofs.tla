---------------------------- MODULE Daemon_proofs -----------------------------
(***************************************************************************)
(* The safety properties of Daemon hold for every number of daemons, nodes *)
(* and directories, every environment and every sequence of events.        *)
(*                                                                         *)
(* What a process holds follows from the step it is at; what it was asked  *)
(* for is either pending or about to be obeyed; and no two processes hold  *)
(* one lock or grab one plugging of the pad.  These facts, with the types, *)
(* are inductive.                                                          *)
(***************************************************************************)
EXTENDS Daemon, TLAPS

Looping == {"ready", "monitor", "poll", "read signal", "hung up", "frames"}
Clear == {"off", "load", "signals", "select", "lock"}

Locked(p) == p.lock = <<RuntimeDirectory(p.env), p.path>> /\ p.lock \in Locks
NoInput(p) == p.opened = Unplugged /\ ~p.grabbed

\* The holdings of a process at its step.
Holds(p) ==
  /\ p.opened # Virtual
  /\ p.pending => p.masked
  /\ p.pc \in {"off", "load", "signals", "end"} => ~p.masked
  /\ p.pc \in Clear \cup {"drop wheel", "drop vpad", "drop lock", "drop signals", "end"} =>
       NoInput(p)
  /\ p.pc \in Clear \cup {"drop vpad", "drop lock", "drop signals", "end"} => ~p.wheel
  /\ p.pc \in Clear \cup {"drop lock", "drop signals", "end"} => p.vpad = Nothing
  /\ p.pc \in Clear \cup {"drop signals", "end"} => p.lock = Nothing
  /\ p.pc \in PastLock => Locked(p)
  /\ p.grabbed => p.pc \in Looping \cup {"confirm", "drop input", "dying"}
  /\ p.pc \in Looping \cup {"confirm"} => p.grabbed
  /\ (p.pc = "drop input" /\ p.grabbed) => Locked(p)
  /\ p.pc \in PastSelection => p.path \in Nodes

\* What a process remembers of the suspended time s.
Remembers(p, s) ==
  /\ p.late <= 1
  /\ p.pc \in Looping \ {"ready", "monitor"} => p.seen = p.since
  /\ (p.pc = "poll" /\ p.late = 1) => s - p.since >= ResumeThreshold
  /\ p.pc = "frames" => p.late = 0

\* Whether it is wanted (w) and was asked to end (a): a process that was
\* asked is unwanted already, or will end cleanly after READY=1.
Obeys(p, w, a) ==
  /\ (a /\ p.pc \in {"off", "dying"}) => ~w
  /\ (a /\ w /\ p.pc \notin {"off", "dying"}) =>
       p.ready /\ (p.pending \/ (p.why = "shutdown" /\ p.pc \in Ending))

Consistent ==
  \A d \in Daemons :
    /\ Holds(self[d])
    /\ Remembers(self[d], slept)
    /\ Obeys(self[d], wanted[d], asked[d])

LocksApart ==
  \A d, e \in Daemons :
    (d # e /\ self[d].lock # Nothing) => self[d].lock # self[e].lock

GrabsApart ==
  \A d, e \in Daemons :
    (d # e /\ self[d].grabbed /\ self[e].grabbed) => self[d].opened # self[e].opened

Types ==
  /\ pad \in [node : Nodes \cup {Nothing}, plug : Nat \ {0}]
  /\ slept \in Nat
  /\ events \in Nat
  /\ wanted \in [Daemons -> BOOLEAN]
  /\ asked \in [Daemons -> BOOLEAN]
  /\ self \in [Daemons -> Processes]

IInv == Types /\ Consistent /\ LocksApart /\ GrabsApart

-----------------------------------------------------------------------------
(***************************************************************************)
(* What the invariant promises.                                            *)
(***************************************************************************)
LEMMA InvType == IInv => TypeOK
BY DEF IInv, Types, Consistent, Holds, TypeOK

LEMMA InvSiblings == IInv => SiblingsNeverMeet
<1> SUFFICES ASSUME IInv, NEW d \in Daemons, NEW e \in Daemons, d # e,
                    self[d].grabbed, ~At(d, "dying"), self[e].pc \in PastLock
             PROVE  LockOf(d) # LockOf(e)
  BY DEF SiblingsNeverMeet
<1>1. self[d].pc \in PastLock \cup {"drop input"}
  BY DEF IInv, Consistent, Holds, At, PastLock, Looping
<1>2. self[d].lock = LockOf(d) /\ self[d].lock \in Locks
  BY <1>1 DEF IInv, Consistent, Holds, Locked, LockOf
<1>3. self[e].lock = LockOf(e)
  BY DEF IInv, Consistent, Holds, Locked, LockOf
<1>4. Nothing \notin Locks
  BY DaemonAssumption
<1> QED BY <1>2, <1>3, <1>4 DEF IInv, LocksApart

LEMMA InvOneProxy == IInv => OneProxy
BY DEF IInv, Consistent, Holds, GrabsApart, OneProxy, InLoop, Looping

LEMMA InvFeedback == IInv => NoFeedback
BY DEF IInv, Consistent, Holds, NoFeedback

LEMMA InvCleanStart == IInv => RunsStartClean
BY DEF IInv, Consistent, Holds, NoInput, Clear, RunsStartClean, HoldsNothing, At

LEMMA InvLate == IInv => OneLateBatch
BY DEF IInv, Consistent, Remembers, OneLateBatch

LEMMA InvAsked == IInv => AskedStaysOff
BY DEF IInv, Consistent, Obeys, AskedStaysOff, At

-----------------------------------------------------------------------------
LEMMA OffHoldsNothing ==
  /\ Off \in Processes
  /\ Holds(Off)
  /\ \A s \in Nat : Remembers(Off, s)
<1>1. Off \in Processes
  BY DEF Off, Processes, Steps, RunEnvironments, Unplugged
<1> QED BY <1>1 DEF Off, Holds, NoInput, Remembers, Clear, Looping, PastLock,
             PastSelection, Unplugged, Virtual

LEMMA InitInv == Init => IInv
<1> SUFFICES ASSUME Init PROVE IInv
  OBVIOUS
<1>1. Types
  BY OffHoldsNothing DEF Init, Types
<1>2. Consistent
  BY OffHoldsNothing DEF Init, Consistent, Obeys, Off
<1> QED BY <1>1, <1>2 DEF IInv, Init, LocksApart, GrabsApart, Off

(***************************************************************************)
(* A step of one process that leaves the other ones alone.                 *)
(***************************************************************************)
LEMMA OneMoves ==
  ASSUME IInv,
         NEW d \in Daemons, NEW p \in Processes,
         NEW w \in BOOLEAN, NEW a \in BOOLEAN,
         pad' = pad, slept' = slept, events' \in Nat,
         self' = [self EXCEPT ![d] = p],
         wanted' = [wanted EXCEPT ![d] = w],
         asked' = [asked EXCEPT ![d] = a],
         Holds(p), Remembers(p, slept), Obeys(p, w, a),
         p.lock = self[d].lock \/ \A e \in Daemons : self[e].lock # p.lock
           \/ p.lock = Nothing,
         p.grabbed => \A e \in Daemons \ {d} : ~(self[e].grabbed /\ self[e].opened = p.opened)
  PROVE  IInv'
<1>1. Types'
  BY DEF IInv, Types
<1>2. Consistent'
  BY DEF IInv, Types, Consistent
<1>3. LocksApart'
  BY DEF IInv, Types, LocksApart
<1>4. GrabsApart'
  BY DEF IInv, Types, GrabsApart
<1> QED BY <1>1, <1>2, <1>3, <1>4 DEF IInv

\* ... and that keeps whether it is wanted and was asked to end.
LEMMA Becoming ==
  ASSUME IInv,
         NEW d \in Daemons, NEW p \in Processes, Becomes(d, p),
         Holds(p), Remembers(p, slept), Obeys(p, wanted[d], asked[d]),
         p.lock = self[d].lock \/ \A e \in Daemons : self[e].lock # p.lock
           \/ p.lock = Nothing,
         p.grabbed => \A e \in Daemons \ {d} : ~(self[e].grabbed /\ self[e].opened = p.opened)
  PROVE  IInv'
<1>1. wanted[d] \in BOOLEAN /\ asked[d] \in BOOLEAN
  BY DEF IInv, Types
<1>2. wanted' = [wanted EXCEPT ![d] = wanted[d]] /\ asked' = [asked EXCEPT ![d] = asked[d]]
  BY DEF IInv, Types, Becomes
<1>3. pad' = pad /\ slept' = slept /\ events' \in Nat /\ self' = [self EXCEPT ![d] = p]
  BY DEF IInv, Types, Becomes, outside
<1> QED BY <1>1, <1>2, <1>3, OneMoves

\* A process that grabs nothing new shares no grab.
LEMMA GrabKept ==
  ASSUME IInv, NEW d \in Daemons
  PROVE  self[d].grabbed => \A e \in Daemons \ {d} :
           ~(self[e].grabbed /\ self[e].opened = self[d].opened)
BY DEF IInv, GrabsApart

LEMMA AtMostOne == \A n \in Nat : (n <= 1 /\ n # 1) => n = 0
OBVIOUS

LEMMA NoneLate ==
  ASSUME NEW p, NEW s, p.late = 0, p.seen = p.since
  PROVE  Remembers(p, s)
BY DEF Remembers, Looping

LEMMA Plugged == \A n \in Nat : n # Virtual
BY DEF Virtual

LEMMA KnownSelf ==
  ASSUME IInv, NEW d \in Daemons
  PROVE  /\ self[d] \in Processes
         /\ Holds(self[d])
         /\ Remembers(self[d], slept)
         /\ Obeys(self[d], wanted[d], asked[d])
         /\ slept \in Nat
BY DEF IInv, Types, Consistent

(***************************************************************************)
(* The run of d ends at any step before.                                   *)
(***************************************************************************)
LEMMA EndsInv ==
  ASSUME IInv, NEW d \in Daemons, NEW reason \in {"resumed", "error"},
         Ends(d, reason), self[d].pc \notin {"off", "dying"} \cup Ending
  PROVE  IInv'
<1> DEFINE p == [self[d] EXCEPT !.pc = "drop input", !.why = reason]
<1>0. self[d] \in Processes
  BY DEF IInv, Types
<1>1. p \in Processes
  BY <1>0 DEF Processes, Steps
<1>2. Becomes(d, p)
  BY DEF Ends
<1>3. Holds(self[d]) /\ Remembers(self[d], slept) /\ Obeys(self[d], wanted[d], asked[d])
  BY DEF IInv, Consistent
<1>4. Holds(p)
  BY <1>0, <1>3 DEF Processes, Holds, Locked, NoInput, Clear, Looping, PastLock,
     PastSelection, Steps, Ending
<1>5. Remembers(p, slept)
  BY <1>0, <1>3 DEF Processes, Remembers, Looping
<1>6. Obeys(p, wanted[d], asked[d])
  BY <1>0, <1>3 DEF Processes, Obeys, Ending
<1>7. p.lock = self[d].lock /\ p.grabbed = self[d].grabbed /\ p.opened = self[d].opened
  BY <1>0 DEF Processes
<1> QED BY <1>1, <1>2, <1>4, <1>5, <1>6, <1>7, GrabKept, Becoming

(***************************************************************************)
(* The steps of a daemon, one by one.                                      *)
(***************************************************************************)
LEMMA Loaded ==
  ASSUME IInv, NEW d \in Daemons, self[d].pc = "load",
         Becomes(d, [self[d] EXCEPT !.pc = "signals"])
  PROVE  IInv'
<1> DEFINE p == [self[d] EXCEPT !.pc = "signals"]
<1>1. self[d] \in Processes /\ Becomes(d, p)
  BY KnownSelf
<1>2. p \in Processes
  BY <1>1, KnownSelf DEF Processes, Steps
<1>3. Holds(p)
  BY <1>1, KnownSelf DEF Processes, Holds, Locked, NoInput, Clear, Looping,
     PastLock, PastSelection
<1>4. Remembers(p, slept)
  BY <1>1, KnownSelf DEF Processes, Remembers, Looping
<1>5. Obeys(p, wanted[d], asked[d])
  BY <1>1, KnownSelf DEF Processes, Obeys, Ending
<1>6. p.lock \in {self[d].lock, Nothing} /\ (p.grabbed => self[d].grabbed)
        /\ (p.grabbed => p.opened = self[d].opened)
  BY <1>1 DEF Processes
<1> QED BY <1>1, <1>2, <1>3, <1>4, <1>5, <1>6, GrabKept, Becoming

LEMMA Blocked ==
  ASSUME IInv, NEW d \in Daemons, self[d].pc = "signals",
         Becomes(d, [self[d] EXCEPT !.pc = "select", !.masked = TRUE])
  PROVE  IInv'
<1> DEFINE p == [self[d] EXCEPT !.pc = "select", !.masked = TRUE]
<1>1. self[d] \in Processes /\ Becomes(d, p)
  BY KnownSelf
<1>2. p \in Processes
  BY <1>1, KnownSelf DEF Processes, Steps
<1>3. Holds(p)
  BY <1>1, KnownSelf DEF Processes, Holds, Locked, NoInput, Clear, Looping,
     PastLock, PastSelection
<1>4. Remembers(p, slept)
  BY <1>1, KnownSelf DEF Processes, Remembers, Looping
<1>5. Obeys(p, wanted[d], asked[d])
  BY <1>1, KnownSelf DEF Processes, Obeys, Ending
<1>6. p.lock \in {self[d].lock, Nothing} /\ (p.grabbed => self[d].grabbed)
        /\ (p.grabbed => p.opened = self[d].opened)
  BY <1>1 DEF Processes
<1> QED BY <1>1, <1>2, <1>3, <1>4, <1>5, <1>6, GrabKept, Becoming

LEMMA Selected ==
  ASSUME IInv, NEW d \in Daemons, self[d].pc = "select", NEW n \in Nodes,
         Becomes(d, [self[d] EXCEPT !.pc = "lock", !.path = n])
  PROVE  IInv'
<1> DEFINE p == [self[d] EXCEPT !.pc = "lock", !.path = n]
<1>1. self[d] \in Processes /\ Becomes(d, p)
  BY KnownSelf
<1>2. p \in Processes
  BY <1>1, KnownSelf DEF Processes, Steps
<1>3. Holds(p)
  BY <1>1, KnownSelf DEF Processes, Holds, Locked, NoInput, Clear, Looping,
     PastLock, PastSelection
<1>4. Remembers(p, slept)
  BY <1>1, KnownSelf DEF Processes, Remembers, Looping
<1>5. Obeys(p, wanted[d], asked[d])
  BY <1>1, KnownSelf DEF Processes, Obeys, Ending
<1>6. p.lock \in {self[d].lock, Nothing} /\ (p.grabbed => self[d].grabbed)
        /\ (p.grabbed => p.opened = self[d].opened)
  BY <1>1 DEF Processes
<1> QED BY <1>1, <1>2, <1>3, <1>4, <1>5, <1>6, GrabKept, Becoming

LEMMA HasLock ==
  ASSUME IInv, NEW d \in Daemons, self[d].pc = "lock",
         LockOf(d) \in Locks, \A e \in Daemons : self[e].lock # LockOf(d),
         Becomes(d, [self[d] EXCEPT !.pc = "open", !.lock = LockOf(d)])
  PROVE  IInv'
<1> DEFINE p == [self[d] EXCEPT !.pc = "open", !.lock = LockOf(d)]
<1>1. self[d] \in Processes /\ Becomes(d, p)
  BY KnownSelf
<1>2. p \in Processes
  BY <1>1, KnownSelf DEF Processes, Steps
<1>3. Holds(p)
  BY <1>1, KnownSelf DEF Processes, Holds, Locked, NoInput, Clear, Looping,
     PastLock, PastSelection, LockOf
<1>4. Remembers(p, slept)
  BY <1>1, KnownSelf DEF Processes, Remembers, Looping
<1>5. Obeys(p, wanted[d], asked[d])
  BY <1>1, KnownSelf DEF Processes, Obeys, Ending
<1>6. p.lock = LockOf(d) /\ ~p.grabbed
  BY <1>1, KnownSelf DEF Processes, Holds, Clear, NoInput
<1> QED BY <1>1, <1>2, <1>3, <1>4, <1>5, <1>6, Becoming

LEMMA HasOpened ==
  ASSUME IInv, NEW d \in Daemons, self[d].pc = "open", NEW plug \in Nat,
         Becomes(d, [self[d] EXCEPT !.pc = "vpad", !.opened = plug])
  PROVE  IInv'
<1> DEFINE p == [self[d] EXCEPT !.pc = "vpad", !.opened = plug]
<1>1. self[d] \in Processes /\ Becomes(d, p)
  BY KnownSelf
<1>2. p \in Processes
  BY <1>1, KnownSelf DEF Processes, Steps
<1>3. Holds(p)
  BY <1>1, KnownSelf, Plugged DEF Processes, Holds, Locked, NoInput, Clear, Looping,
     PastLock, PastSelection
<1>4. Remembers(p, slept)
  BY <1>1, KnownSelf DEF Processes, Remembers, Looping
<1>5. Obeys(p, wanted[d], asked[d])
  BY <1>1, KnownSelf DEF Processes, Obeys, Ending
<1>6. p.lock = self[d].lock /\ ~p.grabbed
  BY <1>1, KnownSelf DEF Processes, Holds, PastLock, Looping
<1> QED BY <1>1, <1>2, <1>3, <1>4, <1>5, <1>6, Becoming

LEMMA HasTouchpad ==
  ASSUME IInv, NEW d \in Daemons, self[d].pc = "vpad", NEW n \in Nodes,
         Becomes(d, [self[d] EXCEPT !.pc = "wheel", !.vpad = n])
  PROVE  IInv'
<1> DEFINE p == [self[d] EXCEPT !.pc = "wheel", !.vpad = n]
<1>1. self[d] \in Processes /\ Becomes(d, p)
  BY KnownSelf
<1>2. p \in Processes
  BY <1>1, KnownSelf DEF Processes, Steps
<1>3. Holds(p)
  BY <1>1, KnownSelf DEF Processes, Holds, Locked, NoInput, Clear, Looping,
     PastLock, PastSelection
<1>4. Remembers(p, slept)
  BY <1>1, KnownSelf DEF Processes, Remembers, Looping
<1>5. Obeys(p, wanted[d], asked[d])
  BY <1>1, KnownSelf DEF Processes, Obeys, Ending
<1>6. p.lock \in {self[d].lock, Nothing} /\ (p.grabbed => self[d].grabbed)
        /\ (p.grabbed => p.opened = self[d].opened)
  BY <1>1 DEF Processes
<1> QED BY <1>1, <1>2, <1>3, <1>4, <1>5, <1>6, GrabKept, Becoming

LEMMA HasWheel ==
  ASSUME IInv, NEW d \in Daemons, self[d].pc = "wheel",
         Becomes(d, [self[d] EXCEPT !.pc = "takeover", !.wheel = TRUE])
  PROVE  IInv'
<1> DEFINE p == [self[d] EXCEPT !.pc = "takeover", !.wheel = TRUE]
<1>1. self[d] \in Processes /\ Becomes(d, p)
  BY KnownSelf
<1>2. p \in Processes
  BY <1>1, KnownSelf DEF Processes, Steps
<1>3. Holds(p)
  BY <1>1, KnownSelf DEF Processes, Holds, Locked, NoInput, Clear, Looping,
     PastLock, PastSelection
<1>4. Remembers(p, slept)
  BY <1>1, KnownSelf DEF Processes, Remembers, Looping
<1>5. Obeys(p, wanted[d], asked[d])
  BY <1>1, KnownSelf DEF Processes, Obeys, Ending
<1>6. p.lock \in {self[d].lock, Nothing} /\ (p.grabbed => self[d].grabbed)
        /\ (p.grabbed => p.opened = self[d].opened)
  BY <1>1 DEF Processes
<1> QED BY <1>1, <1>2, <1>3, <1>4, <1>5, <1>6, GrabKept, Becoming

LEMMA HasGrab ==
  ASSUME IInv, NEW d \in Daemons, self[d].pc = "takeover", ~IsGrabbedByOther(d),
         Becomes(d, [self[d] EXCEPT !.pc = "confirm", !.grabbed = TRUE])
  PROVE  IInv'
<1> DEFINE p == [self[d] EXCEPT !.pc = "confirm", !.grabbed = TRUE]
<1>1. self[d] \in Processes /\ Becomes(d, p)
  BY KnownSelf
<1>2. p \in Processes
  BY <1>1, KnownSelf DEF Processes, Steps
<1>3. Holds(p)
  BY <1>1, KnownSelf DEF Processes, Holds, Locked, NoInput, Clear, Looping,
     PastLock, PastSelection
<1>4. Remembers(p, slept)
  BY <1>1, KnownSelf DEF Processes, Remembers, Looping
<1>5. Obeys(p, wanted[d], asked[d])
  BY <1>1, KnownSelf DEF Processes, Obeys, Ending
<1>6. p.lock = self[d].lock /\ p.opened = self[d].opened
  BY <1>1 DEF Processes
<1> QED BY <1>1, <1>2, <1>3, <1>4, <1>5, <1>6, Becoming DEF IsGrabbedByOther

LEMMA HasConfirmed ==
  ASSUME IInv, NEW d \in Daemons, self[d].pc = "confirm",
         Becomes(d, [self[d] EXCEPT !.pc = "ready"])
  PROVE  IInv'
<1> DEFINE p == [self[d] EXCEPT !.pc = "ready"]
<1>1. self[d] \in Processes /\ Becomes(d, p)
  BY KnownSelf
<1>2. p \in Processes
  BY <1>1, KnownSelf DEF Processes, Steps
<1>3. Holds(p)
  BY <1>1, KnownSelf DEF Processes, Holds, Locked, NoInput, Clear, Looping,
     PastLock, PastSelection
<1>4. Remembers(p, slept)
  BY <1>1, KnownSelf DEF Processes, Remembers, Looping
<1>5. Obeys(p, wanted[d], asked[d])
  BY <1>1, KnownSelf DEF Processes, Obeys, Ending
<1>6. p.lock \in {self[d].lock, Nothing} /\ (p.grabbed => self[d].grabbed)
        /\ (p.grabbed => p.opened = self[d].opened)
  BY <1>1 DEF Processes
<1> QED BY <1>1, <1>2, <1>3, <1>4, <1>5, <1>6, GrabKept, Becoming

LEMMA HasNotified ==
  ASSUME IInv, NEW d \in Daemons, self[d].pc = "ready",
         Becomes(d, [self[d] EXCEPT !.pc = "monitor", !.ready = TRUE])
  PROVE  IInv'
<1> DEFINE p == [self[d] EXCEPT !.pc = "monitor", !.ready = TRUE]
<1>1. self[d] \in Processes /\ Becomes(d, p)
  BY KnownSelf
<1>2. p \in Processes
  BY <1>1, KnownSelf DEF Processes, Steps
<1>3. Holds(p)
  BY <1>1, KnownSelf DEF Processes, Holds, Locked, NoInput, Clear, Looping,
     PastLock, PastSelection
<1>4. Remembers(p, slept)
  BY <1>1, KnownSelf DEF Processes, Remembers, Looping
<1>5. Obeys(p, wanted[d], asked[d])
  BY <1>1, KnownSelf DEF Processes, Obeys, Ending
<1>6. p.lock \in {self[d].lock, Nothing} /\ (p.grabbed => self[d].grabbed)
        /\ (p.grabbed => p.opened = self[d].opened)
  BY <1>1 DEF Processes
<1> QED BY <1>1, <1>2, <1>3, <1>4, <1>5, <1>6, GrabKept, Becoming

LEMMA HasReleased ==
  ASSUME IInv, NEW d \in Daemons, self[d].pc = "confirm",
         Becomes(d, [self[d] EXCEPT !.pc = "takeover", !.grabbed = FALSE])
  PROVE  IInv'
<1> DEFINE p == [self[d] EXCEPT !.pc = "takeover", !.grabbed = FALSE]
<1>1. self[d] \in Processes /\ Becomes(d, p)
  BY KnownSelf
<1>2. p \in Processes
  BY <1>1, KnownSelf DEF Processes, Steps
<1>3. Holds(p)
  BY <1>1, KnownSelf DEF Processes, Holds, Locked, NoInput, Clear, Looping,
     PastLock, PastSelection
<1>4. Remembers(p, slept)
  BY <1>1, KnownSelf DEF Processes, Remembers, Looping
<1>5. Obeys(p, wanted[d], asked[d])
  BY <1>1, KnownSelf DEF Processes, Obeys, Ending
<1>6. p.lock \in {self[d].lock, Nothing} /\ (p.grabbed => self[d].grabbed)
        /\ (p.grabbed => p.opened = self[d].opened)
  BY <1>1 DEF Processes
<1> QED BY <1>1, <1>2, <1>3, <1>4, <1>5, <1>6, GrabKept, Becoming

LEMMA HasMonitor ==
  ASSUME IInv, NEW d \in Daemons, self[d].pc = "monitor",
         Becomes(d, [self[d] EXCEPT !.pc = "poll", !.seen = slept, !.since = slept, !.late = 0])
  PROVE  IInv'
<1> DEFINE p == [self[d] EXCEPT !.pc = "poll", !.seen = slept, !.since = slept, !.late = 0]
<1>1. self[d] \in Processes /\ Becomes(d, p)
  BY KnownSelf
<1>2. p \in Processes
  BY <1>1, KnownSelf DEF Processes, Steps
<1>3. Holds(p)
  BY <1>1, KnownSelf DEF Processes, Holds, Locked, NoInput, Clear, Looping,
     PastLock, PastSelection
<1>4. Remembers(p, slept)
  <2>1. p.pc = "poll" /\ p.seen = slept /\ p.since = slept /\ p.late = 0
    BY <1>1 DEF Processes
  <2> QED BY <2>1, NoneLate
<1>5. Obeys(p, wanted[d], asked[d])
  BY <1>1, KnownSelf DEF Processes, Obeys, Ending
<1>6. p.lock \in {self[d].lock, Nothing} /\ (p.grabbed => self[d].grabbed)
        /\ (p.grabbed => p.opened = self[d].opened)
  BY <1>1 DEF Processes
<1> QED BY <1>1, <1>2, <1>3, <1>4, <1>5, <1>6, GrabKept, Becoming

LEMMA HasPolled ==
  ASSUME IInv, NEW d \in Daemons, self[d].pc = "poll",
         NEW step \in {"read signal", "hung up", "frames"}, ~HasResumed(d),
         Becomes(d, [self[d] EXCEPT !.seen = self[d].seen, !.pc = step])
  PROVE  IInv'
<1> DEFINE p == [self[d] EXCEPT !.seen = self[d].seen, !.pc = step]
<1>1. self[d] \in Processes /\ Becomes(d, p)
  BY KnownSelf
<1>2. p \in Processes
  BY <1>1, KnownSelf DEF Processes, Steps
<1>3. Holds(p)
  BY <1>1, KnownSelf DEF Processes, Holds, Locked, NoInput, Clear, Looping,
     PastLock, PastSelection
<1>4. Remembers(p, slept)
  <2>1. /\ p.pc = step /\ p.seen = self[d].seen
        /\ p.since = self[d].since /\ p.late = self[d].late
    BY <1>1 DEF Processes
  <2>2. /\ self[d].seen = self[d].since /\ self[d].late <= 1
        /\ self[d].late = 1 => slept - self[d].since >= ResumeThreshold
    BY KnownSelf DEF Remembers, Looping
  <2>3. self[d].late \in Nat /\ self[d].seen \in Nat
    BY <1>1 DEF Processes
  <2>4. self[d].late # 1
    BY <2>2, <2>3, KnownSelf, DaemonAssumption DEF HasResumed
  <2>5. self[d].late <= 1
    BY <2>2
  <2>6. self[d].late = 0
    BY <2>3, <2>4, <2>5, AtMostOne
  <2> QED BY <2>1, <2>2, <2>6, NoneLate
<1>5. Obeys(p, wanted[d], asked[d])
  BY <1>1, KnownSelf DEF Processes, Obeys, Ending
<1>6. p.lock \in {self[d].lock, Nothing} /\ (p.grabbed => self[d].grabbed)
        /\ (p.grabbed => p.opened = self[d].opened)
  BY <1>1 DEF Processes
<1> QED BY <1>1, <1>2, <1>3, <1>4, <1>5, <1>6, GrabKept, Becoming

LEMMA HasProcessed ==
  ASSUME IInv, NEW d \in Daemons, self[d].pc = "frames",
         NEW n \in Nat, n <= 1, n = 1 => slept - self[d].since >= ResumeThreshold,
         Becomes(d, [self[d] EXCEPT !.pc = "poll", !.late = n])
  PROVE  IInv'
<1> DEFINE p == [self[d] EXCEPT !.pc = "poll", !.late = n]
<1>1. self[d] \in Processes /\ Becomes(d, p)
  BY KnownSelf
<1>2. p \in Processes
  BY <1>1, KnownSelf DEF Processes, Steps
<1>3. Holds(p)
  BY <1>1, KnownSelf DEF Processes, Holds, Locked, NoInput, Clear, Looping,
     PastLock, PastSelection
<1>4. Remembers(p, slept)
  <2>1. /\ p.pc = "poll" /\ p.late = n
        /\ p.since = self[d].since /\ p.seen = self[d].seen
    BY <1>1 DEF Processes
  <2>2. self[d].seen = self[d].since
    BY KnownSelf DEF Remembers, Looping
  <2> HIDE DEF p
  <2> QED BY <2>1, <2>2 DEF Remembers, Looping
<1>5. Obeys(p, wanted[d], asked[d])
  BY <1>1, KnownSelf DEF Processes, Obeys, Ending
<1>6. p.lock \in {self[d].lock, Nothing} /\ (p.grabbed => self[d].grabbed)
        /\ (p.grabbed => p.opened = self[d].opened)
  BY <1>1 DEF Processes
<1> QED BY <1>1, <1>2, <1>3, <1>4, <1>5, <1>6, GrabKept, Becoming

LEMMA SignalTaken ==
  ASSUME IInv, NEW d \in Daemons, self[d].pc \in {"takeover", "read signal"},
         Becomes(d, [self[d] EXCEPT !.pc = "drop input", !.why = "shutdown", !.pending = FALSE])
  PROVE  IInv'
<1> DEFINE p == [self[d] EXCEPT !.pc = "drop input", !.why = "shutdown", !.pending = FALSE]
<1>1. self[d] \in Processes /\ Becomes(d, p)
  BY KnownSelf
<1>2. p \in Processes
  BY <1>1, KnownSelf DEF Processes, Steps
<1>3. Holds(p)
  BY <1>1, KnownSelf DEF Processes, Holds, Locked, NoInput, Clear, Looping,
     PastLock, PastSelection
<1>4. Remembers(p, slept)
  BY <1>1, KnownSelf DEF Processes, Remembers, Looping
<1>5. Obeys(p, wanted[d], asked[d])
  BY <1>1, KnownSelf DEF Processes, Obeys, Ending
<1>6. p.lock \in {self[d].lock, Nothing} /\ (p.grabbed => self[d].grabbed)
        /\ (p.grabbed => p.opened = self[d].opened)
  BY <1>1 DEF Processes
<1> QED BY <1>1, <1>2, <1>3, <1>4, <1>5, <1>6, GrabKept, Becoming

LEMMA InputDropped ==
  ASSUME IInv, NEW d \in Daemons, self[d].pc = "drop input",
         Becomes(d, [self[d] EXCEPT !.pc = "drop wheel", !.grabbed = FALSE, !.opened = Unplugged])
  PROVE  IInv'
<1> DEFINE p == [self[d] EXCEPT !.pc = "drop wheel", !.grabbed = FALSE, !.opened = Unplugged]
<1>1. self[d] \in Processes /\ Becomes(d, p)
  BY KnownSelf
<1>2. p \in Processes
  BY <1>1, KnownSelf DEF Processes, Steps, Unplugged
<1>3. Holds(p)
  BY <1>1, KnownSelf, Plugged DEF Processes, Holds, Locked, NoInput, Clear, Looping,
     PastLock, PastSelection, Unplugged
<1>4. Remembers(p, slept)
  BY <1>1, KnownSelf DEF Processes, Remembers, Looping
<1>5. Obeys(p, wanted[d], asked[d])
  BY <1>1, KnownSelf DEF Processes, Obeys, Ending
<1>6. p.lock \in {self[d].lock, Nothing} /\ (p.grabbed => self[d].grabbed)
        /\ (p.grabbed => p.opened = self[d].opened)
  BY <1>1 DEF Processes
<1> QED BY <1>1, <1>2, <1>3, <1>4, <1>5, <1>6, GrabKept, Becoming

LEMMA WheelDropped ==
  ASSUME IInv, NEW d \in Daemons, self[d].pc = "drop wheel",
         Becomes(d, [self[d] EXCEPT !.pc = "drop vpad", !.wheel = FALSE])
  PROVE  IInv'
<1> DEFINE p == [self[d] EXCEPT !.pc = "drop vpad", !.wheel = FALSE]
<1>1. self[d] \in Processes /\ Becomes(d, p)
  BY KnownSelf
<1>2. p \in Processes
  BY <1>1, KnownSelf DEF Processes, Steps
<1>3. Holds(p)
  BY <1>1, KnownSelf DEF Processes, Holds, Locked, NoInput, Clear, Looping,
     PastLock, PastSelection
<1>4. Remembers(p, slept)
  BY <1>1, KnownSelf DEF Processes, Remembers, Looping
<1>5. Obeys(p, wanted[d], asked[d])
  BY <1>1, KnownSelf DEF Processes, Obeys, Ending
<1>6. p.lock \in {self[d].lock, Nothing} /\ (p.grabbed => self[d].grabbed)
        /\ (p.grabbed => p.opened = self[d].opened)
  BY <1>1 DEF Processes
<1> QED BY <1>1, <1>2, <1>3, <1>4, <1>5, <1>6, GrabKept, Becoming

LEMMA TouchpadDropped ==
  ASSUME IInv, NEW d \in Daemons, self[d].pc = "drop vpad",
         Becomes(d, [self[d] EXCEPT !.pc = "drop lock", !.vpad = Nothing])
  PROVE  IInv'
<1> DEFINE p == [self[d] EXCEPT !.pc = "drop lock", !.vpad = Nothing]
<1>1. self[d] \in Processes /\ Becomes(d, p)
  BY KnownSelf
<1>2. p \in Processes
  BY <1>1, KnownSelf DEF Processes, Steps
<1>3. Holds(p)
  BY <1>1, KnownSelf DEF Processes, Holds, Locked, NoInput, Clear, Looping,
     PastLock, PastSelection
<1>4. Remembers(p, slept)
  BY <1>1, KnownSelf DEF Processes, Remembers, Looping
<1>5. Obeys(p, wanted[d], asked[d])
  BY <1>1, KnownSelf DEF Processes, Obeys, Ending
<1>6. p.lock \in {self[d].lock, Nothing} /\ (p.grabbed => self[d].grabbed)
        /\ (p.grabbed => p.opened = self[d].opened)
  BY <1>1 DEF Processes
<1> QED BY <1>1, <1>2, <1>3, <1>4, <1>5, <1>6, GrabKept, Becoming

LEMMA LockDropped ==
  ASSUME IInv, NEW d \in Daemons, self[d].pc = "drop lock",
         Becomes(d, [self[d] EXCEPT !.pc = "drop signals", !.lock = Nothing])
  PROVE  IInv'
<1> DEFINE p == [self[d] EXCEPT !.pc = "drop signals", !.lock = Nothing]
<1>1. self[d] \in Processes /\ Becomes(d, p)
  BY KnownSelf
<1>2. p \in Processes
  BY <1>1, KnownSelf DEF Processes, Steps
<1>3. Holds(p)
  BY <1>1, KnownSelf DEF Processes, Holds, Locked, NoInput, Clear, Looping,
     PastLock, PastSelection
<1>4. Remembers(p, slept)
  BY <1>1, KnownSelf DEF Processes, Remembers, Looping
<1>5. Obeys(p, wanted[d], asked[d])
  BY <1>1, KnownSelf DEF Processes, Obeys, Ending
<1>6. p.lock \in {self[d].lock, Nothing} /\ (p.grabbed => self[d].grabbed)
        /\ (p.grabbed => p.opened = self[d].opened)
  BY <1>1 DEF Processes
<1> QED BY <1>1, <1>2, <1>3, <1>4, <1>5, <1>6, GrabKept, Becoming

LEMMA RunsAgain ==
  ASSUME IInv, NEW d \in Daemons, self[d].pc = "end", self[d].why = "resumed",
         Becomes(d, [self[d] EXCEPT !.pc = "load", !.why = "none"])
  PROVE  IInv'
<1> DEFINE p == [self[d] EXCEPT !.pc = "load", !.why = "none"]
<1>1. self[d] \in Processes /\ Becomes(d, p)
  BY KnownSelf
<1>2. p \in Processes
  BY <1>1, KnownSelf DEF Processes, Steps
<1>3. Holds(p)
  BY <1>1, KnownSelf DEF Processes, Holds, Locked, NoInput, Clear, Looping,
     PastLock, PastSelection
<1>4. Remembers(p, slept)
  BY <1>1, KnownSelf DEF Processes, Remembers, Looping
<1>5. Obeys(p, wanted[d], asked[d])
  BY <1>1, KnownSelf DEF Processes, Obeys, Ending, Holds
<1>6. p.lock \in {self[d].lock, Nothing} /\ (p.grabbed => self[d].grabbed)
        /\ (p.grabbed => p.opened = self[d].opened)
  BY <1>1 DEF Processes
<1> QED BY <1>1, <1>2, <1>3, <1>4, <1>5, <1>6, GrabKept, Becoming

LEMMA InputReaped ==
  ASSUME IInv, NEW d \in Daemons, self[d].pc = "dying",
         Becomes(d, [self[d] EXCEPT !.grabbed = FALSE, !.opened = Unplugged])
  PROVE  IInv'
<1> DEFINE p == [self[d] EXCEPT !.grabbed = FALSE, !.opened = Unplugged]
<1>1. self[d] \in Processes /\ Becomes(d, p)
  BY KnownSelf
<1>2. p \in Processes
  BY <1>1, KnownSelf DEF Processes, Steps, Unplugged
<1>3. Holds(p)
  BY <1>1, KnownSelf, Plugged DEF Processes, Holds, Locked, NoInput, Clear, Looping,
     PastLock, PastSelection, Unplugged
<1>4. Remembers(p, slept)
  BY <1>1, KnownSelf DEF Processes, Remembers, Looping
<1>5. Obeys(p, wanted[d], asked[d])
  BY <1>1, KnownSelf DEF Processes, Obeys, Ending
<1>6. p.lock \in {self[d].lock, Nothing} /\ (p.grabbed => self[d].grabbed)
        /\ (p.grabbed => p.opened = self[d].opened)
  BY <1>1 DEF Processes
<1> QED BY <1>1, <1>2, <1>3, <1>4, <1>5, <1>6, GrabKept, Becoming

LEMMA DevicesReaped ==
  ASSUME IInv, NEW d \in Daemons, self[d].pc = "dying",
         Becomes(d, [self[d] EXCEPT !.wheel = FALSE, !.vpad = Nothing])
  PROVE  IInv'
<1> DEFINE p == [self[d] EXCEPT !.wheel = FALSE, !.vpad = Nothing]
<1>1. self[d] \in Processes /\ Becomes(d, p)
  BY KnownSelf
<1>2. p \in Processes
  BY <1>1, KnownSelf DEF Processes, Steps
<1>3. Holds(p)
  BY <1>1, KnownSelf DEF Processes, Holds, Locked, NoInput, Clear, Looping,
     PastLock, PastSelection
<1>4. Remembers(p, slept)
  BY <1>1, KnownSelf DEF Processes, Remembers, Looping
<1>5. Obeys(p, wanted[d], asked[d])
  BY <1>1, KnownSelf DEF Processes, Obeys, Ending
<1>6. p.lock \in {self[d].lock, Nothing} /\ (p.grabbed => self[d].grabbed)
        /\ (p.grabbed => p.opened = self[d].opened)
  BY <1>1 DEF Processes
<1> QED BY <1>1, <1>2, <1>3, <1>4, <1>5, <1>6, GrabKept, Becoming

LEMMA LockReaped ==
  ASSUME IInv, NEW d \in Daemons, self[d].pc = "dying",
         Becomes(d, [self[d] EXCEPT !.lock = Nothing])
  PROVE  IInv'
<1> DEFINE p == [self[d] EXCEPT !.lock = Nothing]
<1>1. self[d] \in Processes /\ Becomes(d, p)
  BY KnownSelf
<1>2. p \in Processes
  BY <1>1, KnownSelf DEF Processes, Steps
<1>3. Holds(p)
  BY <1>1, KnownSelf DEF Processes, Holds, Locked, NoInput, Clear, Looping,
     PastLock, PastSelection
<1>4. Remembers(p, slept)
  BY <1>1, KnownSelf DEF Processes, Remembers, Looping
<1>5. Obeys(p, wanted[d], asked[d])
  BY <1>1, KnownSelf DEF Processes, Obeys, Ending
<1>6. p.lock \in {self[d].lock, Nothing} /\ (p.grabbed => self[d].grabbed)
        /\ (p.grabbed => p.opened = self[d].opened)
  BY <1>1 DEF Processes
<1> QED BY <1>1, <1>2, <1>3, <1>4, <1>5, <1>6, GrabKept, Becoming

(***************************************************************************)
(* The actions.                                                            *)
(***************************************************************************)
LEMMA LoadConfigInv ==
  ASSUME IInv, NEW d \in Daemons, LoadConfig(d)
  PROVE  IInv'
BY Loaded, EndsInv DEF LoadConfig, At, Ending

LEMMA BlockSignalsInv ==
  ASSUME IInv, NEW d \in Daemons, BlockSignals(d)
  PROVE  IInv'
BY Blocked DEF BlockSignals, At

LEMMA SelectDeviceInv ==
  ASSUME IInv, NEW d \in Daemons, SelectDevice(d)
  PROVE  IInv'
<1>1. self[d].pc = "select"
  BY DEF SelectDevice, At
<1>2. ASSUME NEW n \in Nodes, Becomes(d, [self[d] EXCEPT !.pc = "lock", !.path = n])
      PROVE  IInv'
  BY <1>1, <1>2, Selected
<1>3. CASE Ends(d, "error")
  BY <1>1, <1>3, EndsInv DEF Ending
<1>4. Device[d] \in Nodes \cup {Nothing} /\ Candidates \subseteq Nodes
  BY DaemonAssumption DEF Candidates
<1>5. CASE Device[d] # Nothing
  BY <1>2, <1>4, <1>5 DEF SelectDevice
<1>6. CASE Device[d] = Nothing
  BY <1>2, <1>3, <1>4, <1>6 DEF SelectDevice
<1> QED BY <1>5, <1>6

LEMMA AcquireLockInv ==
  ASSUME IInv, NEW d \in Daemons, AcquireLock(d)
  PROVE  IInv'
<1>1. CASE Ends(d, "error")
  BY <1>1, EndsInv DEF AcquireLock, At, Ending
<1>2. CASE ~Ends(d, "error")
  <2>1. /\ self[d].pc = "lock" /\ RuntimeDirectory(self[d].env) # Nothing
        /\ \A e \in Daemons : self[e].lock # LockOf(d)
        /\ Becomes(d, [self[d] EXCEPT !.pc = "open", !.lock = LockOf(d)])
    BY <1>2 DEF AcquireLock, At
  <2>2. RuntimeDirectory(self[d].env) \in Dirs
    BY <2>1, DaemonAssumption DEF RuntimeDirectory
  <2>3. self[d].path \in Nodes
    BY <2>1, KnownSelf DEF Holds, PastSelection
  <2> QED BY <2>1, <2>2, <2>3, HasLock DEF LockOf, Locks
<1> QED BY <1>1, <1>2

LEMMA SourceType == IInv => \A n \in Nodes : SourceAt(n) \in Nat \cup {Virtual}
BY DEF IInv, Types, SourceAt, Unplugged

LEMMA OpenDeviceInv ==
  ASSUME IInv, NEW d \in Daemons, OpenDevice(d)
  PROVE  IInv'
<1>1. self[d].pc = "open" /\ SourceAt(self[d].path) \in Nat \cup {Virtual}
  BY KnownSelf, SourceType DEF OpenDevice, At, Holds, PastLock, PastSelection
<1>2. CASE SourceAt(self[d].path) \in {Unplugged, Virtual}
  BY <1>1, <1>2, EndsInv DEF OpenDevice, Ending
<1>3. CASE SourceAt(self[d].path) \notin {Unplugged, Virtual}
  BY <1>1, <1>3, HasOpened DEF OpenDevice
<1> QED BY <1>2, <1>3

LEMMA CreateTouchpadInv ==
  ASSUME IInv, NEW d \in Daemons, CreateTouchpad(d)
  PROVE  IInv'
<1>1. FreeNodes \subseteq Nodes
  BY DEF FreeNodes
<1> QED BY <1>1, HasTouchpad, EndsInv DEF CreateTouchpad, At, Ending

LEMMA CreateWheelInv ==
  ASSUME IInv, NEW d \in Daemons, CreateWheel(d)
  PROVE  IInv'
BY HasWheel DEF CreateWheel, At

LEMMA GrabInv ==
  ASSUME IInv, NEW d \in Daemons, Grab(d)
  PROVE  IInv'
BY HasGrab, EndsInv DEF Grab, At, Ending

LEMMA HungUpAtStartupInv ==
  ASSUME IInv, NEW d \in Daemons, HungUpAtStartup(d)
  PROVE  IInv'
BY EndsInv DEF HungUpAtStartup, At, Ending

LEMMA ShutdownAtStartupInv ==
  ASSUME IInv, NEW d \in Daemons, ShutdownAtStartup(d)
  PROVE  IInv'
<1>1. Becomes(d, [self[d] EXCEPT !.pc = "drop input", !.why = "shutdown", !.pending = FALSE])
  BY DEF ShutdownAtStartup, Becomes
<1> QED BY <1>1, SignalTaken DEF ShutdownAtStartup, At

LEMMA ConfirmGrabInv ==
  ASSUME IInv, NEW d \in Daemons, ConfirmGrab(d)
  PROVE  IInv'
BY HasConfirmed, EndsInv DEF ConfirmGrab, At, Ending

LEMMA NotifyReadyInv ==
  ASSUME IInv, NEW d \in Daemons, NotifyReady(d)
  PROVE  IInv'
BY HasNotified DEF NotifyReady, At

LEMMA RetryGrabInv ==
  ASSUME IInv, NEW d \in Daemons, RetryGrab(d)
  PROVE  IInv'
BY HasReleased DEF RetryGrab, At

LEMMA StartMonitorInv ==
  ASSUME IInv, NEW d \in Daemons, StartMonitor(d)
  PROVE  IInv'
BY HasMonitor DEF StartMonitor, At

LEMMA PollInv ==
  ASSUME IInv, NEW d \in Daemons, Poll(d)
  PROVE  IInv'
<1>1. CASE HasResumed(d)
  BY <1>1, EndsInv DEF Poll, At, Ending
<1>2. CASE ~HasResumed(d)
  <2> DEFINE step == IF self[d].pending THEN "read signal"
                     ELSE IF ~IsConnected(d) THEN "hung up" ELSE "frames"
  <2>1. step \in {"read signal", "hung up", "frames"}
    OBVIOUS
  <2>2. self[d].pc = "poll" /\ Becomes(d, [self[d] EXCEPT !.seen = self[d].seen, !.pc = step])
    BY <1>2 DEF Poll, At, Observe
  <2> HIDE DEF step
  <2> QED BY <1>2, <2>1, <2>2, HasPolled
<1> QED BY <1>1, <1>2

LEMMA ReadSignalInv ==
  ASSUME IInv, NEW d \in Daemons, ReadSignal(d)
  PROVE  IInv'
BY SignalTaken DEF ReadSignal, At

LEMMA HungUpInv ==
  ASSUME IInv, NEW d \in Daemons, HungUp(d)
  PROVE  IInv'
BY EndsInv DEF HungUp, At, Ending

LEMMA ProcessBatchInv ==
  ASSUME IInv, NEW d \in Daemons, ProcessBatch(d)
  PROVE  IInv'
<1>1. CASE ~IsConnected(d)
  BY <1>1, EndsInv DEF ProcessBatch, At, Ending
<1>2. CASE IsConnected(d)
  <2> DEFINE n == IF slept - self[d].since >= ResumeThreshold THEN self[d].late + 1
                  ELSE self[d].late
  <2>1. self[d].late = 0
    BY KnownSelf DEF ProcessBatch, At, Remembers
  <2>2. n \in Nat /\ n <= 1 /\ (n = 1 => slept - self[d].since >= ResumeThreshold)
    BY <2>1
  <2>3. self[d].pc = "frames" /\ Becomes(d, [self[d] EXCEPT !.pc = "poll", !.late = n])
    BY <1>2 DEF ProcessBatch, At
  <2> HIDE DEF n
  <2> QED BY <2>2, <2>3, HasProcessed
<1> QED BY <1>1, <1>2

LEMMA DropInputInv ==
  ASSUME IInv, NEW d \in Daemons, DropInput(d)
  PROVE  IInv'
BY InputDropped DEF DropInput, At

LEMMA DropWheelInv ==
  ASSUME IInv, NEW d \in Daemons, DropWheel(d)
  PROVE  IInv'
BY WheelDropped DEF DropWheel, At

LEMMA DropTouchpadInv ==
  ASSUME IInv, NEW d \in Daemons, DropTouchpad(d)
  PROVE  IInv'
BY TouchpadDropped DEF DropTouchpad, At

LEMMA DropLockInv ==
  ASSUME IInv, NEW d \in Daemons, DropLock(d)
  PROVE  IInv'
BY LockDropped DEF DropLock, At

LEMMA RunAgainInv ==
  ASSUME IInv, NEW d \in Daemons, RunAgain(d)
  PROVE  IInv'
BY RunsAgain DEF RunAgain, At

LEMMA ReapInv ==
  ASSUME IInv, NEW d \in Daemons, Reap(d)
  PROVE  IInv'
BY InputReaped, DevicesReaped, LockReaped DEF Reap, At

LEMMA DropSignalsInv ==
  ASSUME IInv, NEW d \in Daemons, DropSignals(d)
  PROVE  IInv'
<1> DEFINE p == [self[d] EXCEPT
                  !.masked = FALSE, !.pending = FALSE,
                  !.pc = IF self[d].pending THEN "dying" ELSE "end"]
           w == IF self[d].pending THEN Restarts(d, TRUE) ELSE wanted[d]
<1>1. self[d] \in Processes
  BY KnownSelf
<1>2. p \in Processes
  <2>1. (IF self[d].pending THEN "dying" ELSE "end") \in Steps
    BY DEF Steps
  <2> QED BY <1>1, <2>1 DEF Processes
<1>3. Holds(p)
  BY <1>1, KnownSelf DEF DropSignals, At, Fallible, Processes, Holds, Locked, NoInput, Clear,
     Looping, PastLock, PastSelection, Ending
<1>4. Remembers(p, slept)
  BY <1>1, KnownSelf DEF DropSignals, At, Fallible, Processes, Remembers, Looping
<1>5. Obeys(p, w, asked[d])
  BY <1>1, KnownSelf DEF DropSignals, At, Restarts, Processes, Obeys, Holds, Ending
<1>6. p.lock = self[d].lock /\ (p.grabbed => self[d].grabbed) /\ p.opened = self[d].opened
  BY <1>1 DEF Processes
<1>7. /\ pad' = pad /\ slept' = slept /\ events' \in Nat /\ self' = [self EXCEPT ![d] = p]
      /\ wanted' = [wanted EXCEPT ![d] = w]
      /\ asked' = [asked EXCEPT ![d] = asked[d]]
  BY <1>1 DEF DropSignals, At, IInv, Types, Happens, outside
<1>8. w \in BOOLEAN /\ asked[d] \in BOOLEAN
  BY <1>1 DEF IInv, Types, Processes, Restarts
<1> HIDE DEF w
<1> QED BY <1>2, <1>3, <1>4, <1>5, <1>6, <1>7, <1>8, GrabKept, OneMoves

LEMMA KillInv ==
  ASSUME IInv, NEW d \in Daemons, Kill(d)
  PROVE  IInv'
<1> DEFINE p == [self[d] EXCEPT !.pc = "dying"]
<1>1. self[d] \in Processes
  BY KnownSelf
<1>2. p \in Processes
  BY <1>1 DEF Processes, Steps
<1>3. Holds(p)
  BY <1>1, KnownSelf DEF Kill, At, Fallible, Processes, Holds, Locked, NoInput, Clear,
     Looping, PastLock, PastSelection, Ending
<1>4. Remembers(p, slept)
  BY <1>1, KnownSelf DEF Kill, At, Fallible, Processes, Remembers, Looping
<1>5. Obeys(p, wanted[d], FALSE)
  BY <1>1, KnownSelf DEF Kill, At, Fallible, Processes, Obeys, Holds, Ending
<1>6. p.lock = self[d].lock /\ (p.grabbed => self[d].grabbed) /\ p.opened = self[d].opened
  BY <1>1 DEF Processes
<1>7. /\ pad' = pad /\ slept' = slept /\ events' \in Nat /\ self' = [self EXCEPT ![d] = p]
      /\ wanted' = [wanted EXCEPT ![d] = wanted[d]] /\ asked' = [asked EXCEPT ![d] = FALSE]
  BY <1>1 DEF Kill, At, IInv, Types, Happens, outside
<1>8. wanted[d] \in BOOLEAN /\ FALSE \in BOOLEAN
  BY <1>1 DEF IInv, Types, Processes
<1> QED BY <1>2, <1>3, <1>4, <1>5, <1>6, <1>7, <1>8, GrabKept, OneMoves

LEMMA CallFailsInv ==
  ASSUME IInv, NEW d \in Daemons, CallFails(d)
  PROVE  IInv'
<1> DEFINE p == [self[d] EXCEPT !.pc = "drop input", !.why = "error"]
<1>1. self[d] \in Processes
  BY KnownSelf
<1>2. p \in Processes
  BY <1>1 DEF Processes, Steps
<1>3. Holds(p)
  BY <1>1, KnownSelf DEF CallFails, At, Fallible, Processes, Holds, Locked, NoInput, Clear,
     Looping, PastLock, PastSelection, Ending
<1>4. Remembers(p, slept)
  BY <1>1, KnownSelf DEF CallFails, At, Fallible, Processes, Remembers, Looping
<1>5. Obeys(p, wanted[d], asked[d])
  BY <1>1, KnownSelf DEF CallFails, At, Fallible, Processes, Obeys, Holds, Ending
<1>6. p.lock = self[d].lock /\ (p.grabbed => self[d].grabbed) /\ p.opened = self[d].opened
  BY <1>1 DEF Processes
<1>7. /\ pad' = pad /\ slept' = slept /\ events' \in Nat /\ self' = [self EXCEPT ![d] = p]
      /\ wanted' = [wanted EXCEPT ![d] = wanted[d]] /\ asked' = [asked EXCEPT ![d] = asked[d]]
  BY <1>1 DEF CallFails, At, IInv, Types, Happens, outside
<1>8. wanted[d] \in BOOLEAN /\ asked[d] \in BOOLEAN
  BY <1>1 DEF IInv, Types, Processes
<1> QED BY <1>2, <1>3, <1>4, <1>5, <1>6, <1>7, <1>8, GrabKept, OneMoves

LEMMA StartRequestInv ==
  ASSUME IInv, NEW d \in Daemons, StartRequest(d)
  PROVE  IInv'
<1> DEFINE p == self[d]
<1>1. self[d] \in Processes
  BY KnownSelf
<1>2. p \in Processes
  BY <1>1 DEF Processes, Steps
<1>3. Holds(p)
  BY <1>1, KnownSelf DEF StartRequest, At, Fallible, Processes, Holds, Locked, NoInput, Clear,
     Looping, PastLock, PastSelection, Ending
<1>4. Remembers(p, slept)
  BY <1>1, KnownSelf DEF StartRequest, At, Fallible, Processes, Remembers, Looping
<1>5. Obeys(p, TRUE, FALSE)
  BY <1>1, KnownSelf DEF StartRequest, At, Fallible, Processes, Obeys, Holds, Ending
<1>6. p.lock = self[d].lock /\ (p.grabbed => self[d].grabbed) /\ p.opened = self[d].opened
  BY <1>1 DEF Processes
<1>7. /\ pad' = pad /\ slept' = slept /\ events' \in Nat /\ self' = [self EXCEPT ![d] = p]
      /\ wanted' = [wanted EXCEPT ![d] = TRUE] /\ asked' = [asked EXCEPT ![d] = FALSE]
  BY <1>1 DEF StartRequest, At, IInv, Types, Happens, outside
<1>8. TRUE \in BOOLEAN /\ FALSE \in BOOLEAN
  BY <1>1 DEF IInv, Types, Processes
<1> QED BY <1>2, <1>3, <1>4, <1>5, <1>6, <1>7, <1>8, GrabKept, OneMoves

LEMMA StartInv ==
  ASSUME IInv, NEW d \in Daemons, Start(d)
  PROVE  IInv'
<1> DEFINE Fresh(e) == [Off EXCEPT !.pc = "load", !.env = e]
<1>1. PICK e \in Environments[d] : Becomes(d, Fresh(e))
  BY DEF Start
<1>2. e \in RunEnvironments
  BY DaemonAssumption
<1>3. Fresh(e) \in Processes
  BY <1>2, OffHoldsNothing DEF Processes, Steps
<1>4. Holds(Fresh(e)) /\ Remembers(Fresh(e), slept)
  BY DEF Off, Holds, NoInput, Remembers, Clear, Looping, PastLock, PastSelection, Unplugged,
     Virtual
<1>5. Obeys(Fresh(e), wanted[d], asked[d])
  BY KnownSelf DEF Start, At, Off, Obeys
<1>6. Fresh(e).lock = Nothing /\ ~Fresh(e).grabbed
  BY DEF Off
<1> HIDE DEF Fresh
<1> QED BY <1>1, <1>3, <1>4, <1>5, <1>6, Becoming

LEMMA ExitInv ==
  ASSUME IInv, NEW d \in Daemons, Exit(d)
  PROVE  IInv'
<1> DEFINE w == Restarts(d, self[d].why = "shutdown")
<1>1. Obeys(Off, w, asked[d])
  BY KnownSelf DEF Exit, At, Off, Obeys, Holds, Ending, Restarts
<1>2. /\ pad' = pad /\ slept' = slept /\ events' \in Nat /\ self' = [self EXCEPT ![d] = Off]
      /\ wanted' = [wanted EXCEPT ![d] = w]
      /\ asked' = [asked EXCEPT ![d] = asked[d]]
  BY DEF Exit, IInv, Types, outside
<1>3. w \in BOOLEAN /\ asked[d] \in BOOLEAN
  BY DEF IInv, Types, Restarts
<1>4. Off.lock = Nothing /\ ~Off.grabbed
  BY DEF Off
<1> HIDE DEF w
<1> QED BY <1>1, <1>2, <1>3, <1>4, OffHoldsNothing, KnownSelf, OneMoves

LEMMA ReapedInv ==
  ASSUME IInv, NEW d \in Daemons, Reaped(d)
  PROVE  IInv'
<1>1. Becomes(d, Off) /\ self[d].pc = "dying"
  BY DEF Reaped, At
<1>2. Obeys(Off, wanted[d], asked[d])
  BY <1>1, KnownSelf DEF Off, Obeys
<1>3. Off.lock = Nothing /\ ~Off.grabbed
  BY DEF Off
<1> QED BY <1>1, <1>2, <1>3, OffHoldsNothing, KnownSelf, Becoming

LEMMA TerminatePends ==
  ASSUME IInv, NEW d \in Daemons, Terminate(d), self[d].masked
  PROVE  IInv'
<1> DEFINE p == [self[d] EXCEPT !.pending = TRUE]
           w == wanted[d]
           a == (asked[d] \/ self[d].ready)
<1>1. self[d] \in Processes
  BY KnownSelf
<1>2. p \in Processes
  BY <1>1 DEF Processes, Steps
<1>3. Holds(p)
  BY <1>1, KnownSelf DEF Terminate, Processes, Holds, Locked, NoInput, Clear,
     Looping, PastLock, PastSelection, Ending
<1>4. Remembers(p, slept)
  BY <1>1, KnownSelf DEF Terminate, Processes, Remembers, Looping
<1>5. Obeys(p, w, a)
  BY <1>1, KnownSelf DEF Terminate, Processes, Obeys, Holds, Ending, Restarts
<1>6. p.lock = self[d].lock /\ (p.grabbed => self[d].grabbed) /\ p.opened = self[d].opened
  BY <1>1 DEF Processes
<1>7. /\ pad' = pad /\ slept' = slept /\ events' \in Nat /\ self' = [self EXCEPT ![d] = p]
      /\ wanted' = [wanted EXCEPT ![d] = w] /\ asked' = [asked EXCEPT ![d] = a]
  BY <1>1 DEF Terminate, Signalled, IInv, Types, Happens
<1>8. w \in BOOLEAN /\ a \in BOOLEAN
  BY <1>1 DEF IInv, Types, Processes, Restarts
<1> HIDE DEF w, a
<1> QED BY <1>2, <1>3, <1>4, <1>5, <1>6, <1>7, <1>8, GrabKept, OneMoves

LEMMA TerminateKills ==
  ASSUME IInv, NEW d \in Daemons, Terminate(d), ~self[d].masked
  PROVE  IInv'
<1> DEFINE p == [self[d] EXCEPT !.pc = "dying"]
           w == Restarts(d, TRUE)
           a == (asked[d] \/ self[d].ready)
<1>1. self[d] \in Processes
  BY KnownSelf
<1>2. p \in Processes
  BY <1>1 DEF Processes, Steps
<1>3. Holds(p)
  BY <1>1, KnownSelf DEF Terminate, Processes, Holds, Locked, NoInput, Clear,
     Looping, PastLock, PastSelection, Ending
<1>4. Remembers(p, slept)
  BY <1>1, KnownSelf DEF Terminate, Processes, Remembers, Looping
<1>5. Obeys(p, w, a)
  BY <1>1, KnownSelf DEF Terminate, Processes, Obeys, Holds, Ending, Restarts
<1>6. p.lock = self[d].lock /\ (p.grabbed => self[d].grabbed) /\ p.opened = self[d].opened
  BY <1>1 DEF Processes
<1>7. /\ pad' = pad /\ slept' = slept /\ events' \in Nat /\ self' = [self EXCEPT ![d] = p]
      /\ wanted' = [wanted EXCEPT ![d] = w] /\ asked' = [asked EXCEPT ![d] = a]
  BY <1>1 DEF Terminate, Signalled, IInv, Types, Happens
<1>8. w \in BOOLEAN /\ a \in BOOLEAN
  BY <1>1 DEF IInv, Types, Processes, Restarts
<1> HIDE DEF w, a
<1> QED BY <1>2, <1>3, <1>4, <1>5, <1>6, <1>7, <1>8, GrabKept, OneMoves

LEMMA StopPends ==
  ASSUME IInv, NEW d \in Daemons, StopRequest(d), self[d].pc \notin {"off", "dying"}, self[d].masked
  PROVE  IInv'
<1> DEFINE p == [self[d] EXCEPT !.pending = TRUE]
           w == FALSE
           a == TRUE
<1>1. self[d] \in Processes
  BY KnownSelf
<1>2. p \in Processes
  BY <1>1 DEF Processes, Steps
<1>3. Holds(p)
  BY <1>1, KnownSelf DEF StopRequest, Processes, Holds, Locked, NoInput, Clear,
     Looping, PastLock, PastSelection, Ending
<1>4. Remembers(p, slept)
  BY <1>1, KnownSelf DEF StopRequest, Processes, Remembers, Looping
<1>5. Obeys(p, w, a)
  BY <1>1, KnownSelf DEF StopRequest, Processes, Obeys, Holds, Ending, Restarts
<1>6. p.lock = self[d].lock /\ (p.grabbed => self[d].grabbed) /\ p.opened = self[d].opened
  BY <1>1 DEF Processes
<1>7. /\ pad' = pad /\ slept' = slept /\ events' \in Nat /\ self' = [self EXCEPT ![d] = p]
      /\ wanted' = [wanted EXCEPT ![d] = w] /\ asked' = [asked EXCEPT ![d] = a]
  BY <1>1 DEF StopRequest, Signalled, IInv, Types, Happens
<1>8. w \in BOOLEAN /\ a \in BOOLEAN
  BY <1>1 DEF IInv, Types, Processes, Restarts
<1> HIDE DEF w, a
<1> QED BY <1>2, <1>3, <1>4, <1>5, <1>6, <1>7, <1>8, GrabKept, OneMoves

LEMMA StopKills ==
  ASSUME IInv, NEW d \in Daemons, StopRequest(d), self[d].pc \notin {"off", "dying"}, ~self[d].masked
  PROVE  IInv'
<1> DEFINE p == [self[d] EXCEPT !.pc = "dying"]
           w == FALSE
           a == TRUE
<1>1. self[d] \in Processes
  BY KnownSelf
<1>2. p \in Processes
  BY <1>1 DEF Processes, Steps
<1>3. Holds(p)
  BY <1>1, KnownSelf DEF StopRequest, Processes, Holds, Locked, NoInput, Clear,
     Looping, PastLock, PastSelection, Ending
<1>4. Remembers(p, slept)
  BY <1>1, KnownSelf DEF StopRequest, Processes, Remembers, Looping
<1>5. Obeys(p, w, a)
  BY <1>1, KnownSelf DEF StopRequest, Processes, Obeys, Holds, Ending, Restarts
<1>6. p.lock = self[d].lock /\ (p.grabbed => self[d].grabbed) /\ p.opened = self[d].opened
  BY <1>1 DEF Processes
<1>7. /\ pad' = pad /\ slept' = slept /\ events' \in Nat /\ self' = [self EXCEPT ![d] = p]
      /\ wanted' = [wanted EXCEPT ![d] = w] /\ asked' = [asked EXCEPT ![d] = a]
  BY <1>1 DEF StopRequest, Signalled, IInv, Types, Happens
<1>8. w \in BOOLEAN /\ a \in BOOLEAN
  BY <1>1 DEF IInv, Types, Processes, Restarts
<1> HIDE DEF w, a
<1> QED BY <1>2, <1>3, <1>4, <1>5, <1>6, <1>7, <1>8, GrabKept, OneMoves

LEMMA StopKeepsOff ==
  ASSUME IInv, NEW d \in Daemons, StopRequest(d), self[d].pc \in {"off", "dying"}
  PROVE  IInv'
<1> DEFINE p == self[d]
           w == FALSE
           a == TRUE
<1>1. self[d] \in Processes
  BY KnownSelf
<1>2. p \in Processes
  BY <1>1 DEF Processes, Steps
<1>3. Holds(p)
  BY <1>1, KnownSelf DEF StopRequest, Processes, Holds, Locked, NoInput, Clear,
     Looping, PastLock, PastSelection, Ending
<1>4. Remembers(p, slept)
  BY <1>1, KnownSelf DEF StopRequest, Processes, Remembers, Looping
<1>5. Obeys(p, w, a)
  BY <1>1, KnownSelf DEF StopRequest, Processes, Obeys, Holds, Ending, Restarts
<1>6. p.lock = self[d].lock /\ (p.grabbed => self[d].grabbed) /\ p.opened = self[d].opened
  BY <1>1 DEF Processes
<1>7. /\ pad' = pad /\ slept' = slept /\ events' \in Nat /\ self' = [self EXCEPT ![d] = p]
      /\ wanted' = [wanted EXCEPT ![d] = w] /\ asked' = [asked EXCEPT ![d] = a]
  BY <1>1 DEF StopRequest, Signalled, IInv, Types, Happens
<1>8. w \in BOOLEAN /\ a \in BOOLEAN
  BY <1>1 DEF IInv, Types, Processes, Restarts
<1> HIDE DEF w, a
<1> QED BY <1>2, <1>3, <1>4, <1>5, <1>6, <1>7, <1>8, GrabKept, OneMoves

LEMMA OutsideInv ==
  ASSUME IInv, Unplug \/ PlugIn \/ Suspend
  PROVE  IInv'
<1>1. self' = self /\ wanted' = wanted /\ asked' = asked
  BY DEF Unplug, PlugIn, Suspend
<1>2. Types'
  BY <1>1, DaemonAssumption DEF IInv, Types, Unplug, PlugIn, Suspend, Happens, FreeNodes
<1>3. slept' \in Nat /\ slept' >= slept
  BY DaemonAssumption DEF IInv, Types, Unplug, PlugIn, Suspend
<1>4. ASSUME NEW d \in Daemons PROVE Remembers(self[d], slept')
  <2>1. self[d].since \in Nat /\ slept \in Nat
    BY KnownSelf DEF Processes
  <2> QED BY <1>3, <2>1, KnownSelf, DaemonAssumption DEF Remembers
<1>5. Consistent'
  BY <1>1, <1>4 DEF IInv, Consistent
<1>6. LocksApart' /\ GrabsApart'
  BY <1>1 DEF IInv, LocksApart, GrabsApart
<1> QED BY <1>2, <1>5, <1>6 DEF IInv

LEMMA RunInv ==
  ASSUME IInv, NEW d \in Daemons, Run(d)
  PROVE  IInv'
BY StartInv, LoadConfigInv, BlockSignalsInv, SelectDeviceInv, AcquireLockInv,
   OpenDeviceInv, CreateTouchpadInv, CreateWheelInv, ShutdownAtStartupInv,
   HungUpAtStartupInv, ConfirmGrabInv, RetryGrabInv, NotifyReadyInv, StartMonitorInv, PollInv,
   ReadSignalInv, HungUpInv, ProcessBatchInv, DropInputInv, DropWheelInv,
   DropTouchpadInv, DropLockInv, DropSignalsInv, RunAgainInv, ExitInv, ReapInv,
   ReapedInv
   DEF Run

LEMMA NextInv == IInv /\ [Next]_vars => IInv'
<1> SUFFICES ASSUME IInv, [Next]_vars PROVE IInv'
  OBVIOUS
<1>1. CASE Unplug \/ PlugIn \/ Suspend
  BY <1>1, OutsideInv
<1>2. ASSUME NEW d \in Daemons,
             Terminate(d) \/ StopRequest(d) \/ Kill(d) \/ StartRequest(d)
      PROVE  IInv'
  BY <1>2, TerminatePends, TerminateKills, StopPends, StopKills, StopKeepsOff, KillInv,
     StartRequestInv
<1>3. ASSUME NEW d \in Daemons, Run(d) \/ Grab(d) \/ CallFails(d) PROVE IInv'
  BY <1>3, RunInv, GrabInv, CallFailsInv
<1>4. CASE UNCHANGED vars
  BY <1>4 DEF vars, outside, IInv, Types, Consistent, LocksApart, GrabsApart
<1> QED BY <1>1, <1>2, <1>3, <1>4 DEF Next, Outside

-----------------------------------------------------------------------------
THEOREM Invariance == Spec => []IInv
BY InitInv, NextInv, PTL DEF Spec

(***************************************************************************)
(* Every variable keeps its type, and a daemon past the selection of its   *)
(* device knows a node (main.rs:83-96).                                    *)
(***************************************************************************)
THEOREM TypeCorrect == Spec => []TypeOK
BY Invariance, InvType, PTL

(***************************************************************************)
(* Daemons with the same lock never meet on the pad (runtime.rs:112-158).  *)
(***************************************************************************)
THEOREM SiblingsApart == Spec => []SiblingsNeverMeet
BY Invariance, InvSiblings, PTL

(***************************************************************************)
(* One daemon at a time proxies a pad, whatever locks they hold            *)
(* (evdev.rs:362-395).                                                     *)
(***************************************************************************)
THEOREM SingleProxy == Spec => []OneProxy
BY Invariance, InvOneProxy, PTL

(***************************************************************************)
(* No daemon reads a virtual touchpad (evdev.rs:311-334, 776-791).         *)
(***************************************************************************)
THEOREM NeverFeedsBack == Spec => []NoFeedback
BY Invariance, InvFeedback, PTL

(***************************************************************************)
(* Every run starts with nothing held (main.rs:41-55).                     *)
(***************************************************************************)
THEOREM CleanStarts == Spec => []RunsStartClean
BY Invariance, InvCleanStart, PTL

(***************************************************************************)
(* At most one batch is processed between a resume and its discovery,      *)
(* however the suspended time is cut into sleeps (runtime.rs:44-51).       *)
(***************************************************************************)
THEOREM LateOnce == Spec => []OneLateBatch
BY Invariance, InvLate, PTL

(***************************************************************************)
(* A daemon that is asked to end after READY=1, or that systemd is asked   *)
(* to stop, stays off (runtime.rs:82-93, Restart=on-failure).              *)
(***************************************************************************)
THEOREM StaysOff == Spec => []AskedStaysOff
BY Invariance, InvAsked, PTL
=============================================================================
