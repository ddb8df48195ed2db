---------------------------- MODULE MCStoneJson ----------------------------
(***************************************************************************)
(* A small instance of StoneJson: room for everything, two messages of two *)
(* pairs at most.                                                          *)
(***************************************************************************)
EXTENDS StoneJson
=============================================================================
