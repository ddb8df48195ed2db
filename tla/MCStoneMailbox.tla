--------------------------- MODULE MCStoneMailbox ---------------------------
(***************************************************************************)
(* Small instances of StoneMailbox: one widget of each kind of handler, in *)
(* the order of the tests in main.c, and one that stone_cmd does not know. *)
(***************************************************************************)
EXTENDS StoneMailbox

MCChain == <<"FREQ1", "P01", "W01", "label_timer_count_down">>
MCOther == {"slider1"}
MCField == [w \in Names |->
  CASE w = "FREQ1" -> "float_value"
    [] w = "W01" -> "widget"
    [] w = "label_timer_count_down" -> "text"
    [] OTHER -> "none"]

=============================================================================
