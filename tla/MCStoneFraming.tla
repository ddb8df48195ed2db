--------------------------- MODULE MCStoneFraming ---------------------------
(***************************************************************************)
(* A small instance of StoneFraming: three frames of six or seven bytes,   *)
(* reads of up to eight, so that a read can hold a whole frame, a part of  *)
(* one, or the parts of two.                                               *)
(***************************************************************************)
EXTENDS StoneFraming
=============================================================================
