------------------------------ MODULE PadCopy -------------------------------
(***************************************************************************)
(* What the proxy of src/src/main.rs and src/src/evdev.rs promises to the  *)
(* readers of the virtual touchpad about contacts, whatever the kernel     *)
(* loses and however the daemon catches up: the virtual pad shows views of *)
(* the pad one after the other, each just as it was observed, in the order *)
(* of observation, none skipped, until the daemon stops and the virtual    *)
(* pad goes away with it.                                                  *)
(***************************************************************************)
EXTENDS Naturals, Sequences

CONSTANTS
  Views,   \* what a pad may show of its contacts
  Blanks   \* the views of a virtual pad that has shown nothing yet

VARIABLES
  backlog, \* views observed and not shown yet
  copy,    \* the view shown
  up       \* the daemon runs

vars == <<backlog, copy, up>>

TypeOK ==
  /\ backlog \in Seq(Views)
  /\ copy \in Views
  /\ up \in BOOLEAN

Init ==
  /\ backlog = << >>
  /\ copy \in Blanks
  /\ up = TRUE

\* Written without a bound view: the views need not be a finite set.
Observe ==
  /\ up
  /\ Len(backlog') = Len(backlog) + 1
  /\ backlog'[Len(backlog')] \in Views
  /\ backlog' = Append(backlog, backlog'[Len(backlog')])
  /\ UNCHANGED <<copy, up>>

Show ==
  /\ up
  /\ backlog # << >>
  /\ copy' = Head(backlog)
  /\ backlog' = Tail(backlog)
  /\ UNCHANGED up

\* What was observed and not shown is lost with the virtual pad.
Stop ==
  /\ up
  /\ up' = FALSE
  /\ UNCHANGED <<backlog, copy>>

Next == Observe \/ Show \/ Stop

Spec == Init /\ [][Next]_vars

\* A daemon that goes on shows what it has observed.
FairSpec == Spec /\ WF_vars(Show)
=============================================================================
