--------------------------- MODULE StoneMessages ---------------------------
(***************************************************************************)
(* The message builders of stone_transport.c: what each of them sends for  *)
(* what it is called with.                                                 *)
(*                                                                         *)
(* A message is kept as the sequence of its fields, each a key, a value    *)
(* and the form in which the two are printed; "ended" says whether the     *)
(* part that TX_CNT covers has the end }>ET.  Values are quoted strings or *)
(* printed raw.                                                            *)
(***************************************************************************)
EXTENDS Naturals, Sequences

CONSTANTS
  Names,      \* names of widgets and windows
  WTypes,     \* types of widgets
  Texts,      \* strings given as text, date, format, image, state ...
  Literals,   \* strings that are values without quotes: numbers, true, arrays
  Builders    \* the builders that are called

VARIABLES
  call,     \* the last call: its function and its arguments
  message   \* what that call sent

messagesVars == <<call, message>>

Booleans == {"true", "false"}

ASSUME MessagesConstantsOK == Booleans \subseteq Literals

NoCall == [fn |-> "none", args |-> <<>>]
Nothing == [fields |-> <<>>, ended |-> TRUE]

Str(v) == [quoted |-> TRUE, of |-> v]
Raw(v) == [quoted |-> FALSE, of |-> v]
Field(k, v) == [key |-> k, value |-> v, form |-> "key:value"]
Listed(k, v) == [Field(k, v) EXCEPT !.form = "key,value"]
HalfQuoted(k, v) == [Field(k, v) EXCEPT !.form = "key':value"]

Opened(cmd, type) == <<Field("cmd_code", Str(cmd)), Field("type", Str(type))>>
System(cmd) == Opened(cmd, "system")
Window(cmd) == Opened(cmd, "window")
Widget(cmd, type, name) == Append(Opened(cmd, type), Field("widget", Str(name)))

-----------------------------------------------------------------------------
(* tx_create.                                                              *)

send(fn, args, fields, ended) ==
  /\ fn \in Builders
  /\ call' = [fn |-> fn, args |-> args]
  /\ message' = [fields |-> fields, ended |-> ended]
tx_create(fn, args, fields) == send(fn, args, fields, TRUE)

\* "input error!", or a panic on the way: nothing is sent.
send_nothing(fn, args) ==
  /\ fn \in Builders
  /\ call' = [fn |-> fn, args |-> args]
  /\ message' = Nothing

checked(ok, fn, args, fields) ==
  IF ok THEN tx_create(fn, args, fields) ELSE send_nothing(fn, args)

MessagesInit == call = NoCall /\ message = Nothing

-----------------------------------------------------------------------------
(* System commands.                                                        *)

set_sys(c) ==
  checked(c \in {"sys_reboot", "sys_hello", "sys_version"}, "set_sys", <<c>>,
          System(c))

set_sleep(tf) ==
  checked(tf \in Booleans, "set_sleep", <<tf>>,
          Append(System("set_sleep"), Field("sleep", Raw(tf))))

set_buzzer(time) ==
  tx_create("set_buzzer", <<time>>,
            Append(System("set_buzzer"), Field("time", Raw(time))))

set_brightness_Quiet(value) ==
  tx_create("set_brightness", <<value>>,
            Append(System("set_buzzer"), Field("brightness", Raw(value))))
set_brightness(value) ==
  tx_create("set_brightness", <<value>>,
            Append(System("set_brightness"), Field("brightness", Raw(value))))

set_touch_cal == tx_create("set_touch_cal", <<>>, System("set_touch_cal"))
clear_touch_cal == tx_create("clear_touch_cal", <<>>, System("clear_touch_cal"))
set_touch_test == tx_create("set_touch_test", <<>>, System("set_touch_cal"))

\* Without a third argument the test end == 1 reads whatever is there.
set_enable(fn, name, tf) ==
  \E visible \in IF fn = "set_visible" THEN {TRUE} ELSE BOOLEAN :
    checked(tf \in Booleans, fn, <<name, tf>>,
            Append(System(IF visible THEN "set_visible" ELSE "set_enable"),
                   Field("sleep", Raw(tf))))

-----------------------------------------------------------------------------
(* Widgets and windows.                                                    *)

set_coordinate(name, x, y) ==
  tx_create("set_coordinate", <<name, x, y>>,
            Widget("set_xy", "widget", name)
              \o <<Field("x", Raw(x)), Field("y", Raw(y))>>)

set_state(name, state) ==
  tx_create("set_state", <<name, state>>,
            Append(Widget("set_state", "widget", name), Field("state", Str(state))))

set_bg_image(name, image) ==
  tx_create("set_bg_image", <<name, image>>,
            Append(Widget("set_bg_image", "widget", name),
                   HalfQuoted("bg_image", Str(image))))

set_color(name, object, color) ==
  tx_create("set_color", <<name, object, color>>,
            Widget("set_color", "widget", name)
              \o <<Field("color_object", Str(object)), Field("color", Raw(color))>>)

\* close_win and back_win_to are open_win with a second argument; open_win
\* itself has none, and tests whatever is there.
open_win(fn, name) ==
  \E cmd \in IF fn = "open_win" THEN {"open_win", "close_win", "back_win_to"}
                                ELSE {fn} :
    tx_create(fn, <<name>>, Append(Window(cmd), Field("widget", Str(name))))

back_win == tx_create("back_win", <<>>, Window("back_win"))
get_displayed_window ==
  tx_create("get_displayed_window", <<>>, Window("get_displayed_window"))
back_home == tx_create("back_home", <<>>, Window("back_home"))

set_text(type, name, text, multi) ==
  checked(type \in {"label", "edit", "text_selector", "list_item"},
          "set_text", <<type, name, text>>,
          Append(Widget("set_text", type, name),
                 Field("text", IF multi THEN Raw(text) ELSE Str(text))))

set_get_value_type(type) ==
  type \in {"label", "edit", "progress_bar", "slider", "image_value",
            "text_selector", "switch", "check_button", "radio_button"}

\* Without a format the fourth argument is read all the same: the pointer that
\* is there leads nowhere (the ESP32 panics), to some text or to a format.
set_value(type, name, value, format) ==
  LET plain == Append(Widget("set_value", type, name), Field("value", Raw(value)))
      args  == <<type, name, value>>
  IN  IF format # "none"
      THEN checked(set_get_value_type(type), "set_value", Append(args, format),
                   Append(plain, Field("format", Str(format))))
      ELSE \/ checked(set_get_value_type(type), "set_value", args, plain)
           \/ /\ set_get_value_type(type)
              /\ send_nothing("set_value", args)
           \/ \E f \in Texts :
                checked(set_get_value_type(type), "set_value", args,
                        Append(plain, Field("format", Str(f))))

get_text(type, name) ==
  checked(type \in {"label", "edit", "text_selector"}, "get_text", <<type, name>>,
          Widget("get_text", type, name))

get_value(type, name) ==
  checked(set_get_value_type(type), "get_value", <<type, name>>,
          Widget("get_value", type, name))

-----------------------------------------------------------------------------
(* Bars, sliders, pictures, clocks, tables.                                *)

set_max(type, name, value) ==
  checked(type \in {"progress_bar", "slider", "image_value"},
          "set_max", <<type, name, value>>,
          Append(Widget("set_max", type, name), Listed("max", Raw(value))))

show_text(name, tf) ==
  checked(tf \in Booleans, "show_text", <<name, tf>>,
          Append(Widget("set_show_text", "progress_bar", name),
                 Field("show_text", Raw(tf))))

get_percent(name) ==
  tx_create("get_percent", <<name>>, Widget("get_percent", "progress_bar", name))

set_min(type, name, value) ==
  checked(type \in {"slider", "image_value"}, "set_min", <<type, name, value>>,
          Append(Widget("set_min", type, name), Field("max", Raw(value))))

set_step(name, value) ==
  tx_create("set_step", <<name, value>>,
            Append(Widget("set_step", "slider", name), Field("step", Raw(value))))

\* The rest is printed, but TX_CNT is not moved behind it.  set_pause and
\* set_stop are set_play with a second argument.
set_play(fn, name) == send(fn, <<name>>, <<Field("cmd_code", Raw("set_"))>>, FALSE)

set_format(type, name, format) ==
  checked(type \in {"image_animation", "image_value", "digit_clock"},
          "set_format", <<type, name, format>>,
          Append(Widget("set_format", type, name), Field("format", Str(format))))

set_image(type, name, image) ==
  checked(type \in {"image_animation", "image", "image_value", "gauge",
                    "guage_pointer"},
          "set_image", <<type, name, image>>,
          Append(Widget("set_image", type, name), Field("image", Str(image))))

set_interval(name, interval) ==
  tx_create("set_interval", <<name, interval>>,
            Append(Widget("set_interval", "image_animation", name),
                   Field("interval", Raw(interval))))

set_loop(name, tf) ==
  checked(tf \in Booleans, "set_loop", <<name, tf>>,
          Append(Widget("set_loop", "image_animation", name), Field("loop", Raw(tf))))

set_range(name, start, end) ==
  tx_create("set_range", <<name, start, end>>,
            Widget("set_range", "image_animation", name)
              \o <<Field("start_index", Raw(start)), Field("end_index", Raw(end))>>)

set_draw_type(type, name, draw_type) ==
  checked(type \in {"image", "gauge"}, "set_draw_type", <<type, name, draw_type>>,
          Append(Widget("set_draw_type", type, name),
                 Field("draw_type", Raw(draw_type))))

set_scale(name, x, y) ==
  tx_create("set_scale", <<name, x, y>>,
            Widget("set_scale", "image", name)
              \o <<Field("scale_x", Raw(x)), Field("scale_y", Raw(y))>>)

\* "widget" and the name are printed with a comma between them.
set_rotation(name, rotation) ==
  tx_create("set_rotation", <<name, rotation>>,
            Opened("set_rotation", "image")
              \o <<Listed("widget", Str(name)), Field("rotation", Raw(rotation))>>)

set_selected(name, selected) ==
  tx_create("set_selected", <<name, selected>>,
            Opened("set_selected", "image")
              \o <<Listed("widget", Str(name)), Field("selected_index", Raw(selected))>>)

get_selected(name) ==
  tx_create("get_selected", <<name>>, Widget("get_selected", "image", name))

set_date(name, date) ==
  tx_create("set_date", <<name, date>>,
            Append(Widget("set_date", "digit_clock", name), Field("date", Str(date))))

get_date(name) ==
  tx_create("get_date", <<name>>, Widget("get_date", "digit_clock", name))

get_checked(name) ==
  tx_create("get_checked", <<name>>, Widget("get_checked", "check_button", name))

set_angle(name, angle) ==
  tx_create("set_angle", <<name, angle>>,
            Append(Widget("set_angle", "gauge_pointer", name),
                   Field("angle", Str(angle))))

set_row_height(name, height) ==
  tx_create("set_row_height", <<name, height>>,
            Append(Widget("set_row_height", "table_view", name),
                   Field("height", Raw(height))))

set_row_number(name, number) ==
  tx_create("set_row_number", <<name, number>>,
            Append(Widget("set_row_number", "table_view", name),
                   Field("num", Raw(number))))

set_table_text(name, text, number) ==
  tx_create("set_table_text", <<name, text, number>>,
            Widget("set_table_text", "table_view", name)
              \o <<Field("text", Raw(text)), Field("mode", Str("row")),
                   Field("row", Raw(number))>>)

-----------------------------------------------------------------------------
Numbers == Literals \ Booleans

SystemCall ==
  \/ \E c \in Texts \union {"sys_reboot", "sys_hello", "sys_version"} : set_sys(c)
  \/ \E tf \in Booleans \union Texts : set_sleep(tf)
  \/ \E v \in Numbers : set_buzzer(v) \/ set_brightness(v)
  \/ set_touch_cal \/ clear_touch_cal \/ set_touch_test
  \/ \E fn \in {"set_enable", "set_visible"}, n \in Names,
        tf \in Booleans \union Texts : set_enable(fn, n, tf)

WindowCall ==
  \/ \E fn \in {"open_win", "close_win", "back_win_to"}, n \in Names : open_win(fn, n)
  \/ back_win \/ get_displayed_window \/ back_home

\* Builders of a widget of one type.
NamedCall == \E n \in Names :
  \/ get_percent(n) \/ get_selected(n) \/ get_date(n) \/ get_checked(n)
  \/ \E fn \in {"set_play", "set_pause", "set_stop"} : set_play(fn, n)
  \/ \E t \in Texts : set_state(n, t) \/ set_bg_image(n, t) \/ set_date(n, t)
  \/ \E t, u \in Texts : set_color(n, t, u)
  \/ \E tf \in Booleans \union Texts : show_text(n, tf) \/ set_loop(n, tf)
  \/ \E v \in Numbers :
       \/ set_step(n, v) \/ set_interval(n, v) \/ set_rotation(n, v)
       \/ set_selected(n, v) \/ set_angle(n, v)
       \/ set_row_height(n, v) \/ set_row_number(n, v)
  \/ \E v, w \in Numbers :
       \/ set_coordinate(n, v, w) \/ set_range(n, v, w) \/ set_scale(n, v, w)
       \/ set_table_text(n, v, w)

\* Builders that are given the type.
TypedCall == \E t \in WTypes, n \in Names :
  \/ get_text(t, n) \/ get_value(t, n)
  \/ \E x \in Texts :
       set_text(t, n, x, FALSE) \/ set_format(t, n, x) \/ set_image(t, n, x)
  \/ \E v \in Numbers :
       \/ set_text(t, n, v, TRUE) \/ set_max(t, n, v) \/ set_min(t, n, v)
       \/ set_draw_type(t, n, v)
       \/ \E f \in Texts \union {"none"} : set_value(t, n, v, f)

MessagesNext == SystemCall \/ WindowCall \/ NamedCall \/ TypedCall

MessagesSpec == MessagesInit /\ [][MessagesNext]_messagesVars

-----------------------------------------------------------------------------
(* Properties.                                                             *)

\* What the display can read: every key with its quotes, its colon and a value
\* that needs no quotes or has them, and no key twice.
WellFormed(fields) ==
  /\ \A k \in DOMAIN fields :
       /\ fields[k].form = "key:value"
       /\ fields[k].value.quoted \/ fields[k].value.of \in Literals
  /\ \A j, k \in DOMAIN fields : fields[j].key = fields[k].key => j = k

Sent == message # Nothing
ValuesOf(fields) == {fields[k].value.of : k \in DOMAIN fields}
KeysOf(fields) == {fields[k].key : k \in DOMAIN fields}

\* The command that a function is named for.
Command ==
  CASE call.fn = "set_sys" -> call.args[1]
    [] call.fn = "show_text" -> "set_show_text"
    [] call.fn = "set_coordinate" -> "set_xy"
    [] OTHER -> call.fn

\* The key that a function is named for.
OwnKey == [set_max |-> "max", set_min |-> "min", set_step |-> "step",
           set_sleep |-> "sleep", set_brightness |-> "brightness",
           set_text |-> "text", set_value |-> "value", set_image |-> "image",
           set_format |-> "format", set_date |-> "date", set_angle |-> "angle",
           set_interval |-> "interval", set_loop |-> "loop",
           set_draw_type |-> "draw_type", set_state |-> "state",
           show_text |-> "show_text", set_enable |-> "enable",
           set_visible |-> "visible"]

\* Every message has its end }>ET.
MessagesEnd == message.ended

\* A message that has an end is one the display can read.
MessagesReadable == Sent /\ message.ended => WellFormed(message.fields)

\* The command code of a message is the one its function is named for.
CommandNamed ==
  Sent /\ message.ended => message.fields[1].value = Str(Command)

\* Every argument of the call is in the message.
ArgumentsCarried ==
  Sent /\ message.ended =>
    \A k \in DOMAIN call.args : call.args[k] \in ValuesOf(message.fields)

\* The value is sent under the key that the function is named for.
ValueUnderOwnKey ==
  Sent /\ message.ended /\ call.fn \in DOMAIN OwnKey =>
    OwnKey[call.fn] \in KeysOf(message.fields)

(* The builders for which each of these fails.                             *)
CutShort   == {"set_play", "set_pause", "set_stop"}
Unreadable == {"set_bg_image", "set_color", "set_max", "set_rotation", "set_selected"}
Nameless   == {"set_enable", "set_visible"}
Misnamed   == {"set_touch_test", "open_win", "set_enable"}
WrongKey   == {"set_min", "set_enable", "set_visible"}

\* All builders but the named ones print messages the display can read to their
\* end.
Readable ==
  /\ call.fn \notin CutShort => MessagesEnd
  /\ call.fn \notin Unreadable => MessagesReadable

\* All but the named ones say what was called: the command, every argument, the
\* value under its key.
SaysWhatWasCalled ==
  /\ call.fn \notin Misnamed => CommandNamed
  /\ call.fn \notin Nameless => ArgumentsCarried
  /\ call.fn \notin WrongKey => ValueUnderOwnKey

\* Whatever they are called with, the builders print messages that the display can
\* read and that say what was called.  The exceptions are named above; among the
\* others are all that the firmware calls.
MessagesAsCalled == Readable /\ SaysWhatWasCalled

=============================================================================
