----------------------------- MODULE MCHistory -----------------------------
(***************************************************************************)
(* Small instances of the two modules of the log of runs.  A behaviour is  *)
(* one of History (the file, and the tasks that save and push at the same  *)
(* time) or one of HistoryRows (what one push makes of the lines): the two *)
(* share no state, so that nothing is gained by interleaving them.         *)
(*                                                                         *)
(* Two tasks save and one of them pushes; there is room for fewer entries  *)
(* than are saved, and fewer rows.  The modes and times give lines that    *)
(* are plain, lines that fill line[30] (mode 5, 1200 seconds), times that  *)
(* do not fit str4 (1200 and 12000 seconds), a line that does not fit      *)
(* buffer_time (mode 5, 12000 seconds) and a mode that does not fit str3   *)
(* (12).  What the program does after an overrun is undefined: the model   *)
(* stays as it is then.                                                    *)
(***************************************************************************)
EXTENDS History, HistoryRows

VARIABLE active   \* the module whose behaviour this is

MCInit == Init /\ RowsInit /\ active \in {"History", "HistoryRows"}

MCNext ==
  \/ active = "History" /\ Next /\ UNCHANGED <<active, rowsVars>>
  \/ active = "HistoryRows" /\ RowsNext /\ UNCHANGED <<active, vars>>
  \/ active = "HistoryRows" /\ wild /\ UNCHANGED <<active, vars, rowsVars>>

MCSpec == MCInit /\ [][MCNext]_<<active, vars, rowsVars>>

=============================================================================
