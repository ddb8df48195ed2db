-------------------------- MODULE MCStoneProtocol --------------------------
(***************************************************************************)
(* Small instances of the modules of the display's protocol.  A behaviour  *)
(* is one of StoneJson (the builder of single pairs), of StoneMessages     *)
(* (the other builders) or of StonerBuffers (the frames that come back):   *)
(* they share no state.                                                    *)
(*                                                                         *)
(* Of STONE_JSON, a buffer of eight pieces and a char of four values, so   *)
(* that both run over within four pairs.  Of the builders, all.  Of the    *)
(* frames, all, with names of one to three bytes in a room of three, and   *)
(* texts shorter and longer than that room.                                *)
(***************************************************************************)
EXTENDS StoneJson, StoneMessages, StonerBuffers

SomeTypes == {"label", "slider", "image_value", "image", "digit_clock", "window"}

AllBuilders ==
  {"set_sys", "set_sleep", "set_buzzer", "set_brightness", "set_touch_cal",
   "clear_touch_cal", "set_touch_test", "set_enable", "set_visible",
   "set_coordinate", "set_state", "set_bg_image", "set_color", "open_win",
   "close_win", "back_win_to", "back_win", "get_displayed_window", "back_home",
   "set_text", "set_value", "get_text", "get_value", "set_max", "show_text",
   "get_percent", "set_min", "set_step", "set_play", "set_pause", "set_stop",
   "set_format", "set_image", "set_interval", "set_loop", "set_range",
   "set_draw_type", "set_scale", "set_rotation", "set_selected", "get_selected",
   "set_date", "get_date", "get_checked", "set_angle", "set_row_height",
   "set_row_number", "set_table_text"}

AllKinds ==
  {"button", "slider", "float", "int", "text", "image", "chart", "window",
   "hscroll", "sys", "edit_float"}

VARIABLE active   \* the module whose behaviour this is

MCInit ==
  /\ JsonInit /\ MessagesInit /\ BuffersInit
  /\ active \in {"StoneJson", "StoneMessages", "StonerBuffers"}

MCNext ==
  \/ /\ active = "StoneJson" /\ STONE_JSON
     /\ UNCHANGED <<active, messagesVars, buffersVars>>
  \/ /\ active = "StoneMessages" /\ MessagesNext
     /\ UNCHANGED <<active, jsonVars, buffersVars>>
  \/ /\ active = "StonerBuffers" /\ BuffersNext
     /\ UNCHANGED <<active, jsonVars, messagesVars>>

MCSpec == MCInit /\ [][MCNext]_<<active, jsonVars, messagesVars, buffersVars>>

=============================================================================
