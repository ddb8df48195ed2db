-------------------------- MODULE MCResumeDialogue --------------------------
(***************************************************************************)
(* Small instances of ResumeDialogue: modes of two and three seconds, a    *)
(* minute of two, a byte of two minutes.                                   *)
(***************************************************************************)
EXTENDS ResumeDialogue

MCOpenTime == [m \in 1 .. NModes |-> m + 1]

=============================================================================
