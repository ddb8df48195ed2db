---------------------------- MODULE MCRelayTimer ----------------------------
(***************************************************************************)
(* A small instance of RelayTimer and RelaySerial: modes of two and three  *)
(* seconds, a queue of two ticks, a word of five that the counters wrap,   *)
(* labels that show nothing and one second.                                *)
(***************************************************************************)
EXTENDS RelaySerial

MCOpenTime == [m \in Modes |-> m + 1]

=============================================================================
