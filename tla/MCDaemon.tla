------------------------------ MODULE MCDaemon ------------------------------
(***************************************************************************)
(* Small instances of Daemon: a daemon that looks for the touchpad by name *)
(* and one that is given a node, as the system unit is.  The second can be *)
(* started in the environment of the first as well.                        *)
(***************************************************************************)
EXTENDS Daemon

CONSTANTS user, system, run, xdg, node1, node2, node3

UserEnvironment == [runtime |-> Nothing, xdg |-> xdg]
SystemEnvironment == [runtime |-> run, xdg |-> Nothing]

MCEnvironments ==
  [d \in {user, system} |-> IF d = user THEN {UserEnvironment}
                            ELSE {UserEnvironment, SystemEnvironment}]
MCDevice == [d \in {user, system} |-> IF d = user THEN Nothing ELSE node1]
=============================================================================
