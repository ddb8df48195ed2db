--------------------------- MODULE HistoryLimits ---------------------------
(***************************************************************************)
(* The limits that the two modules of the log of runs share.               *)
(***************************************************************************)
CONSTANTS
  LOG_MAX,     \* rows that push_history sends at most (200)
  MaxEntries   \* bound: runs that are saved

=============================================================================
