-------------------------- MODULE Migration_proofs --------------------------
(***************************************************************************)
(* Type correctness and the safety invariants of Migration, for any number *)
(* of user sessions.  The inductive invariant says which markers exist at  *)
(* each command of the helper (Progress), that the staging marker never    *)
(* stands without the user block (BlockFirst), and that whoever's user     *)
(* unit is not stopped while system mode is authorized slipped through the *)
(* window between its conditions and its daemon (OnlyLate).                *)
(***************************************************************************)
EXTENDS Migration, TLAPS

Staged ==
  {"enable trigger", "enable flag instance", "enable start", "enable await",
   "enable flag commit", "enable commit"}
Leaving == {"enable finish", "enable leave", "enable untrap"}

Progress ==
  /\ pc \in Blocking => markers = {}
  /\ pc \in {"enable scan", "enable flag staging", "enable stage"} => markers = {"block"}
  /\ pc \in Staged => markers = {"staging", "block"}
  /\ pc = "enable unstage" => markers = {"persistent", "staging", "block"}
  /\ pc = "enable unblock" => markers = {"persistent", "block"}
  /\ pc \in Leaving => markers = {"persistent"}
  /\ pc \in {"undo stop", "undo check", "undo persistent"} => ~UserAllowed
  /\ pc = "undo staging" => markers \subseteq {"staging", "block"}
  /\ pc = "undo block" => TooLate \/ markers \subseteq {"block"}
  /\ pc = "undo block" /\ TooLate => markers = {"persistent"}
  /\ pc \in {"undo trigger", "undone"} =>
       markers = IF TooLate THEN {"persistent"} ELSE {}
  /\ pc \in Disabling => "block" \in markers
  /\ pc = "disable staging" => "persistent" \notin markers
  /\ pc \in {"disable trigger", "disable unblock"} => markers = {"block"}

(***************************************************************************)
(* The flags run ahead of what they stand for, by one assignment.  A       *)
(* marker that exists has its flag, so the rollback removes all of them;   *)
(* only from "enable leave" on it takes the short way or none.             *)
(***************************************************************************)
Flags ==
  /\ pc = "enable flag block" => undo = {"enable"}
  /\ pc \in {"enable block", "enable scan", "enable flag staging"} =>
       undo = {"enable", "block"}
  /\ pc \in {"enable stage"} \cup Staged \cup {"enable unstage", "enable unblock",
                                             "enable finish"} =>
       {"enable", "block", "staging"} \subseteq undo
  /\ pc \in {"enable stage", "enable trigger", "enable flag instance", "enable start",
            "enable await", "enable flag commit"} => "persistent" \notin undo
  /\ pc \in {"enable commit", "enable unstage", "enable unblock", "enable finish",
            "enable leave", "enable untrap"} => "persistent" \in undo
  /\ pc \in {"enable leave", "enable untrap"} => "staging" \notin undo
  /\ pc = "enable untrap" => "enable" \notin undo
  /\ pc \in {"undo stop", "undo check", "undo persistent", "undo staging"} =>
       {"enable", "block", "staging"} \subseteq undo
  /\ pc \in {"undo stop", "undo check", "undo persistent"} =>
       ("persistent" \in markers => "persistent" \in undo)
  /\ pc = "undo block" => {"enable", "block"} \subseteq undo

BlockFirst == "staging" \in markers => "block" \in markers

OnlyLate ==
  (pc \in {"enable flag staging", "enable stage"} \/ Authorized) =>
    \A u \in Users : user[u] # "stopped" => u \in late

IInv == TypeOK /\ Progress /\ Flags /\ BlockFirst /\ OnlyLate

LEMMA InitIInv == Init => IInv
BY DEF Init, IInv, TypeOK, Progress, Flags, BlockFirst, OnlyLate, MarkerFiles,
  Authorized, UserAllowed, Staged, Leaving, Trapped, Blocking, TooLate, Enabling, Undoing, Disabling

LEMMA EnableStep ==
  ASSUME IInv,
         EnableBegin \/ FlagBlock \/ BlockUser \/ Scan \/ FlagStaging \/ Stage
           \/ EnableTrigger \/ FlagInstance \/ StartInstance \/ VerifyActive
           \/ FlagCommit \/ Commit \/ Unstage \/ Unblock
           \/ Finish \/ LeaveMode \/ RemoveTrap
  PROVE  IInv'
<1> USE DEF IInv, TypeOK, Progress, Flags, BlockFirst, OnlyLate, MarkerFiles,
      Authorized, UserAllowed, Staged, Leaving, Trapped, Blocking, TooLate, Enabling, Undoing, Disabling, Goto, units
<1>1. CASE EnableBegin BY <1>1 DEF EnableBegin
<1>2. CASE FlagBlock BY <1>2 DEF FlagBlock, Raise
<1>3. CASE BlockUser BY <1>3 DEF BlockUser, Create
<1>4. CASE Scan BY <1>4 DEF Scan, DaemonSeen, SysRunning
<1>5. CASE FlagStaging BY <1>5 DEF FlagStaging, Raise
<1>6. CASE Stage BY <1>6 DEF Stage, Create
<1>7. CASE EnableTrigger BY <1>7 DEF EnableTrigger, Trigger
<1>8. CASE FlagInstance BY <1>8 DEF FlagInstance, Raise
<1>9. CASE StartInstance BY <1>9 DEF StartInstance, SysRunning
<1>10. CASE VerifyActive BY <1>10 DEF VerifyActive
<1>11. CASE FlagCommit BY <1>11 DEF FlagCommit, Raise
<1>12. CASE Commit BY <1>12 DEF Commit, Create
<1>13. CASE Unstage BY <1>13 DEF Unstage, Remove
<1>14. CASE Unblock BY <1>14 DEF Unblock, Remove
<1>15. CASE Finish BY <1>15 DEF Finish, Lower
<1>16. CASE LeaveMode BY <1>16 DEF LeaveMode, Lower
<1>17. CASE RemoveTrap BY <1>17 DEF RemoveTrap
<1> QED BY <1>1, <1>2, <1>3, <1>4, <1>5, <1>6, <1>7, <1>8, <1>9,
  <1>10, <1>11, <1>12, <1>13, <1>14, <1>15, <1>16, <1>17

LEMMA UndoStep ==
  ASSUME IInv,
         EnableFails \/ UndoStop \/ UndoChecked \/ UndoGivesUp \/ UndoPersistent
           \/ UndoStaging \/ UndoBlock \/ UndoTrigger \/ Undone
  PROVE  IInv'
<1> USE DEF IInv, TypeOK, Progress, Flags, BlockFirst, OnlyLate, MarkerFiles,
      Authorized, UserAllowed, Staged, Leaving, Trapped, Blocking, TooLate, Enabling, Undoing, Disabling, Goto, units
<1>1. CASE EnableFails
  <2>1. TypeOK' BY <1>1 DEF EnableFails, Cleanup
  <2>2. Progress' BY <1>1 DEF EnableFails, Cleanup
  <2>3. Flags' BY <1>1 DEF EnableFails, Cleanup
  <2>4. BlockFirst' BY <1>1 DEF EnableFails, Cleanup
  <2>5. OnlyLate' BY <1>1 DEF EnableFails, Cleanup
  <2> QED BY <2>1, <2>2, <2>3, <2>4, <2>5
<1>2. CASE UndoStop BY <1>2 DEF UndoStop, Stop
<1>3. CASE UndoChecked BY <1>3 DEF UndoChecked
<1>4. CASE UndoGivesUp BY <1>4 DEF UndoGivesUp
<1>5. CASE UndoPersistent BY <1>5 DEF UndoPersistent, UndoMarker, Remove
<1>6. CASE UndoStaging BY <1>6 DEF UndoStaging, UndoMarker, Remove
<1>7. CASE UndoBlock BY <1>7 DEF UndoBlock, UndoMarker, Remove
<1>8. CASE UndoTrigger BY <1>8 DEF UndoTrigger, Trigger
<1>9. CASE Undone BY <1>9 DEF Undone
<1> QED BY <1>1, <1>2, <1>3, <1>4, <1>5, <1>6, <1>7, <1>8, <1>9

LEMMA DisableStep ==
  ASSUME IInv,
         DisableBegin \/ DisableStop \/ DisableChecked \/ DisableRefused
           \/ DisablePersistent \/ DisableStaging \/ DisableTrigger
           \/ DisableUnblock \/ DisableFails
  PROVE  IInv'
<1> USE DEF IInv, TypeOK, Progress, Flags, BlockFirst, OnlyLate, MarkerFiles,
      Authorized, UserAllowed, Staged, Leaving, Trapped, Blocking, TooLate, Enabling, Undoing, Disabling, Goto, units
<1>1. CASE DisableBegin BY <1>1 DEF DisableBegin
<1>2. CASE DisableStop BY <1>2 DEF DisableStop, Stop
<1>3. CASE DisableChecked BY <1>3 DEF DisableChecked
<1>4. CASE DisableRefused BY <1>4 DEF DisableRefused
<1>5. CASE DisablePersistent BY <1>5 DEF DisablePersistent, Remove
<1>6. CASE DisableStaging BY <1>6 DEF DisableStaging, Remove
<1>7. CASE DisableTrigger BY <1>7 DEF DisableTrigger, Trigger
<1>8. CASE DisableUnblock BY <1>8 DEF DisableUnblock, Remove
<1>9. CASE DisableFails BY <1>9 DEF DisableFails
<1> QED BY <1>1, <1>2, <1>3, <1>4, <1>5, <1>6, <1>7, <1>8, <1>9

\* What the system unit and its device do matters to no part of the invariant.
LEMMA SystemFrame ==
  ASSUME IInv,
         UNCHANGED <<markers, user, pc, undo, late>>,
         sys' \in {"inactive", "starting", "active", "restart", "failed"},
         device' \in {"settled", "wants", "gone"}
  PROVE  IInv'
<1>1. TypeOK' BY DEF IInv, TypeOK
<1>0. markers' = markers /\ pc' = pc /\ undo' = undo OBVIOUS
<1>2. Progress' /\ Flags'
  <2>1. UserAllowed' = UserAllowed /\ TooLate' = TooLate
    BY <1>0 DEF UserAllowed, TooLate
  <2>2. Progress'
    BY <1>0, <2>1 DEF IInv, Progress, Staged, Leaving, Blocking, Disabling
  <2>3. Flags'
    BY <1>0 DEF IInv, Flags, Staged
  <2> QED BY <2>2, <2>3
<1>3. BlockFirst' /\ OnlyLate' BY DEF IInv, BlockFirst, OnlyLate, Authorized
<1> QED BY <1>1, <1>2, <1>3 DEF IInv

LEMMA SystemStep ==
  ASSUME IInv,
         SysWanted \/ SysUnbound \/ SysReady \/ SysFails \/ SysRestarts \/ Replug
  PROVE  IInv'
<1>1. /\ sys \in {"inactive", "starting", "active", "restart", "failed"}
      /\ device \in {"settled", "wants", "gone"}
  BY DEF IInv, TypeOK
<1>2. /\ UNCHANGED <<markers, user, pc, undo, late>>
      /\ sys' \in {"inactive", "starting", "active", "restart", "failed"}
      /\ device' \in {"settled", "wants", "gone"}
  BY <1>1 DEF SysWanted, SysUnbound, SysReady, SysFails, SysRestarts, Replug
<1> QED BY <1>2, SystemFrame

\* A user unit that passes its conditions does so in no authorized state.
LEMMA UserStep ==
  ASSUME IInv, NEW u \in Users, UserStarts(u) \/ UserRuns(u) \/ UserStops(u)
  PROVE  IInv'
<1>1. /\ UNCHANGED <<markers, pc, undo>>
      /\ sys' = sys /\ device' = device
  BY DEF UserStarts, UserRuns, UserStops
<1>2. Progress' /\ Flags' /\ BlockFirst'
  <2>1. UserAllowed' = UserAllowed /\ TooLate' = TooLate
    BY <1>1 DEF UserAllowed, TooLate
  <2>2. Progress'
    BY <1>1, <2>1 DEF IInv, Progress, Staged, Leaving, Blocking, Disabling
  <2>3. Flags' /\ BlockFirst'
    BY <1>1 DEF IInv, Flags, BlockFirst, Staged
  <2> QED BY <2>2, <2>3
<1>3. TypeOK'
  BY <1>1 DEF IInv, TypeOK, UserStarts, UserRuns, UserStops
<1>4. OnlyLate'
  <2>1. CASE UserStarts(u)
    <3>1. ~(pc \in {"enable flag staging", "enable stage"} \/ Authorized)
      BY <2>1 DEF UserStarts, IInv, Progress, BlockFirst, UserAllowed, Authorized
    <3> QED BY <3>1, <1>1 DEF OnlyLate, Authorized
  <2>2. CASE UserRuns(u)
    BY <1>1, <2>2 DEF UserRuns, IInv, TypeOK, OnlyLate, Authorized
  <2>3. CASE UserStops(u)
    BY <1>1, <2>3 DEF UserStops, IInv, TypeOK, OnlyLate, Authorized
  <2> QED BY <2>1, <2>2, <2>3
<1> QED BY <1>2, <1>3, <1>4 DEF IInv

LEMMA EndStep ==
  ASSUME IInv, Kill \/ Reboot
  PROVE  IInv'
<1>1. CASE Kill
  <2>1. pc' = "idle" /\ undo' = {} /\ UNCHANGED <<markers, sys, user, device, late>>
    BY <1>1 DEF Kill, units
  <2>2. TypeOK'
    BY <2>1 DEF IInv, TypeOK, Enabling, Undoing, Disabling
  <2>3. Progress' /\ Flags' /\ BlockFirst'
    BY <2>1 DEF IInv, Progress, Flags, BlockFirst, Staged, Leaving, Blocking, Disabling
  <2>4. OnlyLate'
    BY <2>1 DEF IInv, OnlyLate, Authorized
  <2> QED BY <2>2, <2>3, <2>4 DEF IInv
<1>2. CASE Reboot
  <2>1. pc' = "idle" /\ undo' = {} /\ "staging" \notin markers'
    BY <1>2 DEF Reboot, RuntimeMarkers
  <2>2. TypeOK'
    BY <1>2 DEF Reboot, IInv, TypeOK, RuntimeMarkers, Enabling, Undoing, Disabling
  <2>3. Progress' /\ Flags' /\ BlockFirst'
    BY <2>1 DEF Progress, Flags, BlockFirst, Staged, Leaving, Blocking, Disabling
  <2>4. OnlyLate'
    BY <1>2 DEF Reboot, OnlyLate, IInv, TypeOK
  <2> QED BY <2>2, <2>3, <2>4 DEF IInv
<1> QED BY <1>1, <1>2

LEMMA Inductive == IInv /\ [Next]_vars => IInv'
<1> SUFFICES ASSUME IInv, [Next]_vars PROVE IInv'
  OBVIOUS
<1>1. CASE UNCHANGED vars
  BY <1>1, SystemFrame DEF vars, IInv, TypeOK
<1>2. CASE Next
  BY <1>2, EnableStep, UndoStep, DisableStep, SystemStep, UserStep, EndStep
    DEF Next, Helper
<1> QED BY <1>1, <1>2

\* Every reachable state satisfies the inductive invariant.
THEOREM Invariance == Spec => []IInv
<1>1. Init => IInv BY InitIInv
<1>2. IInv /\ [Next]_vars => IInv' BY Inductive
<1> QED BY <1>1, <1>2, PTL DEF Spec

\* Types, and no flag of cleanup_failure is left set outside enable.
THEOREM TypeCorrect == Spec => []TypeOK
<1>1. IInv => TypeOK BY DEF IInv
<1> QED BY <1>1, Invariance, PTL

\* No user unit starts while a helper works or a staging marker is left.
THEOREM KeptOut == Spec => []UserKeptOut
<1>1. IInv => UserKeptOut
  BY DEF IInv, UserKeptOut, Progress, BlockFirst, UserAllowed, Staged, Leaving, Trapped, Blocking, TooLate, Enabling,
    Disabling
<1> QED BY <1>1, Invariance, PTL

\* The daemons of the two modes do not run together while system mode is
\* authorized, but for the documented window.
THEOREM OneMode == Spec => []NeverBoth
<1>1. IInv => NeverBoth BY DEF IInv, NeverBoth, OnlyLate
<1> QED BY <1>1, Invariance, PTL

\* A rollback that comes to its end leaves no marker.
THEOREM RollbackSound == Spec => []RolledBack
<1>1. IInv => RolledBack BY DEF IInv, RolledBack, Progress
<1> QED BY <1>1, Invariance, PTL
=============================================================================
