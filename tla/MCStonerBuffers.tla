-------------------------- MODULE MCStonerBuffers --------------------------
(***************************************************************************)
(* A small instance of StonerBuffers: text frames only, with names of one  *)
(* or three bytes in a room of three, texts shorter and longer than that.  *)
(***************************************************************************)
EXTENDS StonerBuffers
=============================================================================
