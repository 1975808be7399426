----------------------------- MODULE MCStartup ------------------------------
(***************************************************************************)
(* Small instances of Startup: a pad with one place to touch.              *)
(***************************************************************************)
EXTENDS Startup

Place(px, py) == [x |-> px, y |-> py]
MCOrigin == Place(0, 0)
OnePoint == {Place(1, 0)}
=============================================================================
