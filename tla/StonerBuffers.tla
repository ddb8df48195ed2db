--------------------------- MODULE StonerBuffers ---------------------------
(***************************************************************************)
(* How receive_parse (stone_parser/stone_receive_group.c) unpacks a frame  *)
(* into the buffers of STONER, byte by byte.                               *)
(*                                                                         *)
(* The three buffers data, widget and text are allocated anew by each      *)
(* frame that needs them; one widget_last_len is shared by all three and   *)
(* says how much of the old buffer is cleared before it is freed.  Bytes   *)
(* are symbols; what the display means by a frame is kept beside them.     *)
(* A frame is unpacked in one step: what stone_cmd sees of the steps       *)
(* between is in StoneMailbox.                                             *)
(***************************************************************************)
EXTENDS Naturals, Sequences

CONSTANTS
  WidgetRoom,   \* 40, what a text frame reserves for the name
  NameLengths,  \* lengths of the names of widgets, at most WidgetRoom
  TextLengths,  \* lengths of texts
  Kinds,        \* the kinds of frames that come
  Releases      \* what stone_recive_free is called for

ASSUME BuffersConstantsOK ==
  /\ WidgetRoom \in Nat /\ TextLengths \subseteq Nat
  /\ NameLengths \subseteq 1 .. WidgetRoom

VARIABLES
  data, widget, text,  \* the buffers; <<>> is NULL
  widget_last_len,
  value,               \* STONER.value, its bytes
  float_value,         \* STONER.float_value, its bytes in memory
  (* The rest only observes. *)
  frame,               \* the last frame: its kind, its name, what it carries
  handed,              \* it was given to stone_cmd
  shared,              \* a text or a system frame came, whose buffers share the length
  intact               \* nothing was written behind a buffer since the start

buffersVars == <<data, widget, text, widget_last_len, value, float_value,
          frame, handed, shared, intact>>

Null == <<>>
NUL == "0"
Junk == "?"   \* what malloc returns
NoFrame == [kind |-> "none", name |-> <<>>, carries |-> <<>>]

Name(n) == [k \in 1 .. n |-> "n"]
TextBytes(t) == [k \in 1 .. t |-> "t"]
FloatBytes == <<"f1", "f2", "f3", "f4">>
IntBytes   == <<"i1", "i2", "i3", "i4">>

\* malloc(len + 1) and memset of len bytes; then bytes are copied to its start.
Fresh(len) == [k \in 1 .. len + 1 |-> IF k <= len THEN NUL ELSE Junk]
Copied(buf, bytes) ==
  [k \in DOMAIN buf |-> IF k \in DOMAIN bytes THEN bytes[k] ELSE buf[k]]

\* The string that begins a buffer; the whole of it if no byte ends it.
CString(buf) ==
  LET ends == {k \in DOMAIN buf : buf[k] = NUL}
  IN  IF ends = {} THEN buf
      ELSE SubSeq(buf, 1, (CHOOSE k \in ends : \A j \in ends : k <= j) - 1)
Terminated(buf) == \E k \in DOMAIN buf : buf[k] = NUL

\* Clearing len bytes of a buffer stays within it.
Clears(buf, len) == buf = Null \/ len <= Len(buf)

\* What another buffer may hold after len bytes of buf were cleared.  If buf has
\* fewer, the zeros go to whatever the heap has behind it: nothing of STONER's, or
\* the beginning of the other buffer; or to the heap's own data, and sooner or later
\* it stops with a Panic.
Struck(other, buf, len) ==
  IF Clears(buf, len) THEN {other}
  ELSE {[k \in DOMAIN other |-> IF k <= n THEN NUL ELSE other[k]] :
          n \in 0 .. len - Len(buf)}

\* High order first, as sent, into the little-endian union HexFloat.
write_hex_to_float(b) == [k \in 1 .. 4 |-> b[5 - k]]

BuffersInit ==
  /\ data = Null /\ widget = Null /\ text = Null
  /\ widget_last_len = 0
  /\ value = <<>> /\ float_value = <<>>
  /\ frame = NoFrame /\ handed = FALSE /\ shared = FALSE /\ intact = TRUE

\* memset of NULL panics, also after a malloc that fails, and so does the heap when
\* it finds its data overwritten: restart.
Panic ==
  /\ data' = Null /\ widget' = Null /\ text' = Null
  /\ widget_last_len' = 0
  /\ value' = <<>> /\ float_value' = <<>>
  /\ frame' = NoFrame /\ handed' = FALSE /\ shared' = FALSE /\ intact' = TRUE

-----------------------------------------------------------------------------
(* The frames.  d is what follows CMD and LEN in STONE_RX_BUF.             *)

came(kind, name, carries) ==
  /\ kind \in Kinds
  /\ frame' = [kind |-> kind, name |-> name, carries |-> carries]
  /\ handed' = TRUE
  /\ shared' = (shared \/ kind \in {"text", "sys"})

\* widgetinit(len), and memcpy or sscanf of bytes into the new buffer.
widgetinit_Greatest(len, bytes) ==
  /\ widget' = Copied(Fresh(len), bytes)
  /\ widget_last_len' = IF len > widget_last_len THEN len ELSE widget_last_len
  /\ data' \in Struck(data, widget, widget_last_len)
  /\ text' \in Struck(text, widget, widget_last_len)
  /\ intact' = (intact /\ Clears(widget, widget_last_len) /\ Len(bytes) <= len + 1)
widgetinit(len, bytes) ==
  /\ widget' = Copied(Fresh(len), bytes)
  /\ widget_last_len' = len
  /\ data' \in Struck(data, widget, widget_last_len)
  /\ text' \in Struck(text, widget, widget_last_len)
  /\ intact' = (intact /\ Clears(widget, widget_last_len) /\ Len(bytes) <= len + 1)

\* A name and one byte.
case_btn_switch_ckbtn_rdbtn(n) ==
  LET d == Name(n) \o <<"v">> IN LET len == Len(d) IN
  /\ came("button", Name(n), <<"v">>)
  /\ widgetinit(len, SubSeq(d, 1, len - 1))
  /\ value' = <<d[len]>>
  /\ UNCHANGED float_value

\* A name and a float.
case_slider_porgressbar(n) ==
  LET d == Name(n) \o FloatBytes IN LET len == Len(d) IN
  /\ came("slider", Name(n), FloatBytes)
  /\ widgetinit(len - 3, SubSeq(d, 1, len - 4))
  /\ float_value' = write_hex_to_float(SubSeq(d, len - 3, len))
  /\ UNCHANGED value

\* A name and a float, which is looked for behind the name.
case_4_byte_ieee_value(n) ==
  LET d == Name(n) \o FloatBytes IN LET len == Len(d) IN
  /\ came("float", Name(n), FloatBytes)
  /\ widgetinit(len - 3, SubSeq(d, 1, len - 4))
  /\ LET widget_len == Len(CString(widget'))
     IN  float_value' = write_hex_to_float(SubSeq(d, widget_len + 1, len))
  /\ UNCHANGED value

\* A name and an integer.  Each byte is or-ed to long_value << 8, which nothing
\* ever writes, so each replaces the one before.
four_bytes(d, len) ==
  /\ widgetinit(len - 3, SubSeq(d, 1, len - 4))
  /\ value' = <<d[len]>>
  /\ UNCHANGED float_value

case_4_byte_data(n) ==
  /\ came("int", Name(n), IntBytes)
  /\ four_bytes(Name(n) \o IntBytes, n + 4)

\* "name":text.  First the name into a buffer of WidgetRoom, then the text; the old
\* buffer of the text is cleared when the name is already there.
quoted(n, t) == <<"quote">> \o Name(n) \o <<"quote", ":">> \o TextBytes(t)

text_frame(n, t, bytes) ==
  LET len == Len(quoted(n, t)) IN
  /\ came("text", Name(n), TextBytes(t))
  /\ widget' \in Struck(Copied(Fresh(WidgetRoom), Append(Name(n), NUL)), text, WidgetRoom)
  /\ text' = Copied(Fresh(len - n - 3), Append(bytes, NUL))
  /\ data' \in Struck(data, widget, widget_last_len) \union Struck(data, text, WidgetRoom)
  /\ widget_last_len' = len - n - 3
  /\ intact' = (intact /\ Clears(widget, widget_last_len) /\ Clears(text, WidgetRoom))
  /\ UNCHANGED <<value, float_value>>

case_data_text_Late(n, t) ==
  text_frame(n, t, SubSeq(quoted(n, t), n + 3, Len(quoted(n, t)) - 1))
case_data_text(n, t) ==
  text_frame(n, t, SubSeq(quoted(n, t), n + 4, Len(quoted(n, t))))

\* Images: a name and two bytes, with room for all of it.
control_image(n) ==
  LET d == Name(n) \o <<"v1", "v2">> IN LET len == Len(d) IN
  /\ came("image", Name(n), <<"v1", "v2">>)
  /\ widgetinit(len, SubSeq(d, 1, len - 2))
  /\ value' = SubSeq(d, len - 1, len)
  /\ UNCHANGED float_value

\* Charts: a name, two bytes and a float.
control_chart_view_value(n) ==
  LET d == Name(n) \o <<"v1", "v2">> \o FloatBytes IN LET len == Len(d) IN
  /\ came("chart", Name(n), FloatBytes)
  /\ widgetinit(len - 5, SubSeq(d, 1, len - 6))
  /\ value' = SubSeq(d, len - 5, len - 4)
  /\ float_value' = write_hex_to_float(SubSeq(d, len - 3, len))

\* The window on display: a name, and a byte of its own for the end.
displayed_window(n) ==
  /\ came("window", Name(n), <<>>)
  /\ widgetinit(n, Append(Name(n), NUL))
  /\ UNCHANGED <<value, float_value>>

\* A text label that scrolls: its text is unpacked like an integer.
control_hscroll_label(n, t) ==
  LET d == quoted(n, t) IN
  /\ Len(d) >= 4
  /\ came("hscroll", Name(n), TextBytes(t))
  /\ four_bytes(d, Len(d))

\* System frames.  datainit clears, in the place of data, the buffer of widget;
\* sscanf stops at any one of the characters of ">ET", memcpy does not.
sys_frame(t, ends) ==
  LET len == t + 1
      got == IF ends THEN TextBytes(t - 1) \o <<NUL>> ELSE TextBytes(t)
  IN  IF data # Null /\ widget = Null /\ widget_last_len > 0
      THEN "sys" \in Kinds /\ Panic
      ELSE /\ came("sys", <<>>, TextBytes(t))
           /\ data' = Copied(Fresh(len), got)
           /\ widget_last_len' = len
           /\ IF data # Null
              THEN /\ widget' = [k \in DOMAIN widget |->
                                   IF k <= widget_last_len THEN NUL ELSE widget[k]]
                   /\ text' \in Struck(text, widget, widget_last_len)
                   /\ intact' = (intact /\ Clears(widget, widget_last_len))
              ELSE UNCHANGED <<widget, text, intact>>
           /\ UNCHANGED <<value, float_value>>

\* A command that the switch does not know: edit_float.
unknown(n) ==
  /\ "edit_float" \in Kinds
  /\ frame' = [kind |-> "edit_float", name |-> Name(n), carries |-> FloatBytes]
  /\ handed' = FALSE
  /\ UNCHANGED <<data, widget, text, widget_last_len, value, float_value, shared, intact>>

receive_parse ==
  \/ \E n \in NameLengths :
       \/ case_btn_switch_ckbtn_rdbtn(n) \/ case_slider_porgressbar(n)
       \/ case_4_byte_ieee_value(n) \/ case_4_byte_data(n)
       \/ control_image(n) \/ control_chart_view_value(n)
       \/ displayed_window(n) \/ unknown(n)
       \/ \E t \in TextLengths : case_data_text(n, t) \/ control_hscroll_label(n, t)
  \/ \E t \in TextLengths \ {0}, ends \in BOOLEAN : sys_frame(t, ends)

\* stone_recive_free(): of one buffer, which must not be NULL, or of all.  What is
\* left of the others, when one is cleared beyond its end, is in Struck.
_stone_recive_free(what) ==
  LET buffer == [data |-> data, widget |-> widget, text |-> text]
      chosen == {b \in DOMAIN buffer : b = what \/ (what = "all" /\ buffer[b] # Null)}
      left(b) == IF b \in chosen THEN {Null}
                 ELSE {buffer[b]} \union
                      UNION {Struck(buffer[b], buffer[c], widget_last_len) : c \in chosen}
  IN  IF (\E b \in chosen : buffer[b] = Null) /\ widget_last_len > 0 THEN Panic
      ELSE /\ data' \in left("data")
           /\ widget' \in left("widget")
           /\ text' \in left("text")
           /\ intact' = (intact /\ \A b \in chosen : Clears(buffer[b], widget_last_len))
           /\ frame' = NoFrame /\ handed' = FALSE
           /\ UNCHANGED <<widget_last_len, value, float_value, shared>>

BuffersNext ==
  \/ receive_parse
  \/ \E what \in Releases : _stone_recive_free(what)
  \/ Panic

BuffersSpec == BuffersInit /\ [][BuffersNext]_buffersVars

-----------------------------------------------------------------------------
(* Properties.                                                             *)

\* Kinds whose frames are unpacked as they were meant.
Sound == {"button", "slider", "float", "int", "text", "image", "chart", "window"}

\* As long as no clearing has run behind a buffer (which text and system frames can
\* make it do, see ClearsOwnBuffer), the name that stone_cmd compares is the one that
\* was sent and ends within its buffer, and so is a text; and a float is the one
\* that was sent, with its bytes turned round for the ESP32.
FrameAsSent ==
  intact =>
    /\ frame.kind \in Sound => Terminated(widget) /\ CString(widget) = frame.name
    /\ frame.kind = "text" => Terminated(text) /\ CString(text) = frame.carries
    /\ frame.kind \in {"slider", "float", "chart"} =>
         \A k \in 1 .. 4 : float_value[5 - k] = frame.carries[k]

\* As long as no text and no system frame came, widget_last_len is that of
\* widget: however frames and releases follow each other, what is cleared is the
\* buffer and nothing behind it.
ClearsOwnBuffer == ~shared => intact

\* The comment on textinit: "the memory space occupied last time" is released.
\* What is cleared is never more than that.
ClearsWhatWasOccupied == intact

=============================================================================
