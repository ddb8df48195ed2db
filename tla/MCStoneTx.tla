----------------------------- MODULE MCStoneTx -----------------------------
(***************************************************************************)
(* Small instances of StoneTx: two tasks, messages of two lengths, three   *)
(* calls, so that one task can call twice during one call of the other.    *)
(***************************************************************************)
EXTENDS StoneTx
=============================================================================
