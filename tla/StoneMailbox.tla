---------------------------- MODULE StoneMailbox ----------------------------
(***************************************************************************)
(* How a frame of the display becomes a command of stone_cmd.              *)
(*                                                                         *)
(* uart_task (stone_parser/stone_receive_group.c, receive_parse) unpacks   *)
(* every frame into the one global STONER and sends a pointer to it        *)
(* through the queue Stone_CMD_buf_handle.  stone_cmd (main.c) receives    *)
(* the pointer and compares STONER.widget with one name after the other,   *)
(* while uart_task may already unpack the next frame into the same object. *)
(* Every element of the queue is that same pointer, so the queue only      *)
(* counts; it is a number here.  No lock protects STONER: each access of   *)
(* a buffer that another core may replace is a step.                       *)
(*                                                                         *)
(* A frame is known by its position in the stream of control frames.  The  *)
(* contents of a buffer are the number of the frame they come from.        *)
(***************************************************************************)
EXTENDS Integers, Sequences

CONSTANTS
  Chain,        \* the names that stone_cmd tests, in their order
  OtherNames,   \* names of widgets that it does not know
  Field,        \* Field[w]: what the handler of widget w reads, see below
  QueueLength,  \* length of Stone_CMD_buf_handle (5)
  MaxFrames,    \* bound: control frames the display sends
  MaxSys        \* bound: system frames the display sends

\* "none": P01, P02, B01, B42.  "float_value": FREQ1, FREQ2.  "text": the edit
\* box, the clock, the countdown label.  "widget": W01 and W02, whose handler
\* compares the name a second time.
Fields == {"none", "float_value", "text", "widget"}
Known == {Chain[k] : k \in 1 .. Len(Chain)}
Names == Known \union OtherNames

ASSUME ConstantsOK ==
  /\ Chain \in Seq(Known) \ {<<>>}
  /\ Field \in [Names -> Fields]
  /\ QueueLength \in Nat \ {0} /\ MaxFrames \in Nat /\ MaxSys \in Nat

Null  == 0     \* the pointer is NULL
Blank == -1    \* a buffer with no whole name or text in it
Frames == 1 .. MaxFrames

VARIABLES
  sent,         \* sent[n]: the widget that control frame n names
  sys,          \* number of system frames
  data,         \* STONER.data has been allocated
  widget,       \* STONER.widget: Null, Blank, or a frame
  text,         \* STONER.text: the same
  float_value,  \* STONER.float_value: a frame, or 0
  Stone_CMD,    \* number of elements in the queue
  u_pc,         \* uart_task: next step of receive_parse
  c_pc, c_k,    \* stone_cmd: next step, position in the chain
  c_w,          \* the frame whose name matched
  (* The rest only observes. *)
  count,        \* count[n]: how often frame n was handled
  last,         \* where the last handler took name and value from
  torn,         \* receive_parse wrote since stone_cmd took its element
  paced         \* the last frame came when nothing else was under way

stoner   == <<data, widget, text, float_value>>
cmd      == <<c_pc, c_k, c_w>>
observed == <<count, last, torn, paced>>
vars == <<sent, sys, stoner, Stone_CMD, u_pc, cmd, observed>>

Newest == Len(sent)
Idle == u_pc = "idle" /\ c_pc = "recv" /\ Stone_CMD = 0

Init ==
  /\ sent = <<>> /\ sys = 0
  /\ data = FALSE /\ widget = Null /\ text = Null /\ float_value = 0
  /\ Stone_CMD = 0
  /\ u_pc = "idle"
  /\ c_pc = "recv" /\ c_k = 1 /\ c_w = 0
  /\ count = [n \in Frames |-> 0]
  /\ last = [name |-> 0, value |-> 0, torn |-> FALSE]
  /\ torn = FALSE /\ paced = FALSE

\* A load or store through a NULL pointer panics and the ESP32 restarts; all of
\* RAM is lost, and what the display has sent is not sent again.
Panic ==
  /\ data' = FALSE /\ widget' = Null /\ text' = Null /\ float_value' = 0
  /\ Stone_CMD' = 0
  /\ u_pc' = "idle"
  /\ c_pc' = "recv" /\ c_k' = 1 /\ c_w' = 0
  /\ torn' = FALSE /\ paced' = FALSE
  /\ UNCHANGED <<sent, sys, count, last>>

-----------------------------------------------------------------------------
(* uart_task: receive_parse.                                               *)

\* A control frame: widgetinit clears and frees the buffer of the last name.
receive_parse(w) ==
  /\ u_pc = "idle" /\ Newest < MaxFrames
  /\ sent' = Append(sent, w)
  /\ widget' = IF widget = Null THEN Null ELSE Blank
  /\ u_pc' = "free_widget"
  /\ torn' = TRUE /\ paced' = Idle
  /\ UNCHANGED <<sys, data, text, float_value, Stone_CMD, cmd, count, last>>

widgetinit_free ==
  /\ u_pc = "free_widget"
  /\ widget' = Null
  /\ u_pc' = "malloc_widget"
  /\ torn' = TRUE
  /\ UNCHANGED <<sent, sys, data, text, float_value, Stone_CMD, cmd,
                 count, last, paced>>

widgetinit_malloc_Uncleared ==
  /\ u_pc = "malloc_widget"
  /\ widget' \in 1 .. Newest - 1 \union {Blank}
  /\ u_pc' = "copy_widget"
  /\ torn' = TRUE
  /\ UNCHANGED <<sent, sys, data, text, float_value, Stone_CMD, cmd,
                 count, last, paced>>
\* malloc and memset are one step: a free block begins with the pointers of the
\* heap's list, whose highest byte (0x3F) is the fourth byte of no name, so what
\* malloc returns is Blank to strcmp before it is cleared as well as after.
widgetinit_malloc ==
  /\ u_pc = "malloc_widget"
  /\ widget' = Blank
  /\ u_pc' = "copy_widget"
  /\ torn' = TRUE
  /\ UNCHANGED <<sent, sys, data, text, float_value, Stone_CMD, cmd,
                 count, last, paced>>

\* The name is complete; a value or a text follows it.
copy_widget ==
  /\ u_pc = "copy_widget"
  /\ widget' = Newest
  /\ u_pc' = CASE Field[sent[Newest]] = "float_value" -> "copy_value"
               [] Field[sent[Newest]] = "text" -> "clear_text"
               [] OTHER -> "send"
  /\ torn' = TRUE
  /\ UNCHANGED <<sent, sys, data, text, float_value, Stone_CMD, cmd,
                 count, last, paced>>

copy_value ==
  /\ u_pc = "copy_value"
  /\ float_value' = Newest
  /\ u_pc' = "send"
  /\ torn' = TRUE
  /\ UNCHANGED <<sent, sys, data, widget, text, Stone_CMD, cmd,
                 count, last, paced>>

textinit_clear ==
  /\ u_pc = "clear_text"
  /\ text' = IF text = Null THEN Null ELSE Blank
  /\ u_pc' = "free_text"
  /\ torn' = TRUE
  /\ UNCHANGED <<sent, sys, data, widget, float_value, Stone_CMD, cmd,
                 count, last, paced>>

textinit_free ==
  /\ u_pc = "free_text"
  /\ text' = Null
  /\ u_pc' = "malloc_text"
  /\ torn' = TRUE
  /\ UNCHANGED <<sent, sys, data, widget, float_value, Stone_CMD, cmd,
                 count, last, paced>>

textinit_malloc ==
  /\ u_pc = "malloc_text"
  /\ text' = Blank
  /\ u_pc' = "copy_text"
  /\ torn' = TRUE
  /\ UNCHANGED <<sent, sys, data, widget, float_value, Stone_CMD, cmd,
                 count, last, paced>>

copy_text_Forgotten ==
  /\ u_pc = "copy_text"
  /\ u_pc' = "send"
  /\ torn' = TRUE
  /\ UNCHANGED <<sent, sys, stoner, Stone_CMD, cmd, count, last, paced>>
copy_text ==
  /\ u_pc = "copy_text"
  /\ text' = Newest
  /\ u_pc' = "send"
  /\ torn' = TRUE
  /\ UNCHANGED <<sent, sys, data, widget, float_value, Stone_CMD, cmd,
                 count, last, paced>>

\* sys_state, sys_hello, sys_version: datainit.  From the second one on it
\* clears the buffer of widget, not of data, before it frees data.
receive_parse_sys ==
  /\ u_pc = "idle" /\ sys < MaxSys
  /\ \/ /\ ~data \/ widget # Null
        /\ sys' = sys + 1
        /\ data' = TRUE
        /\ widget' = IF data THEN Blank ELSE widget
        /\ u_pc' = "send"
        /\ torn' = TRUE /\ paced' = FALSE
        /\ UNCHANGED <<sent, text, float_value, Stone_CMD, cmd, count, last>>
     \/ data /\ widget = Null /\ Panic

\* xQueueSend waits for room, but not longer than 100 ticks; nobody looks at
\* its result.
xQueueSend_Lost ==
  /\ u_pc = "send"
  /\ u_pc' = "idle"
  /\ UNCHANGED <<sent, sys, stoner, Stone_CMD, cmd, observed>>
xQueueSend ==
  /\ u_pc = "send"
  /\ Stone_CMD' = IF Stone_CMD < QueueLength THEN Stone_CMD + 1 ELSE Stone_CMD
  /\ u_pc' = "idle"
  /\ UNCHANGED <<sent, sys, stoner, cmd, observed>>

-----------------------------------------------------------------------------
(* stone_cmd.                                                              *)

xQueuePeek ==
  /\ c_pc = "recv" /\ Stone_CMD > 0
  /\ c_pc' = "strcmp"
  /\ torn' = (u_pc \notin {"idle", "send"})
  /\ UNCHANGED <<sent, sys, stoner, Stone_CMD, u_pc, c_k, c_w, count, last,
                 paced>>
xQueueReceive ==
  /\ c_pc = "recv" /\ Stone_CMD > 0
  /\ Stone_CMD' = Stone_CMD - 1
  /\ c_pc' = "strcmp"
  /\ torn' = (u_pc \notin {"idle", "send"})
  /\ UNCHANGED <<sent, sys, stoner, u_pc, c_k, c_w, count, last, paced>>

Matches(w) == w \in Frames /\ sent[w] = Chain[c_k]

\* One strcmp of the chain; each loads STONER.widget again.
strcmp_widget ==
  /\ c_pc = "strcmp"
  /\ IF widget = Null THEN Panic
     ELSE /\ IF Matches(widget)
             THEN c_pc' = "handle" /\ c_w' = widget /\ c_k' = 1
             ELSE /\ c_w' = c_w
                  /\ IF c_k < Len(Chain)
                     THEN c_pc' = "strcmp" /\ c_k' = c_k + 1
                     ELSE c_pc' = "recv" /\ c_k' = 1
          /\ UNCHANGED <<sent, sys, stoner, Stone_CMD, u_pc, observed>>

\* What the handler of the matching name reads from STONER.
Loaded ==
  CASE Field[sent[c_w]] = "none" -> c_w
    [] Field[sent[c_w]] = "float_value" -> float_value
    [] Field[sent[c_w]] = "text" -> text
    [] Field[sent[c_w]] = "widget" -> widget

handle ==
  /\ c_pc = "handle"
  /\ IF Loaded = Null /\ Field[sent[c_w]] \in {"text", "widget"} THEN Panic
     ELSE /\ count' = [count EXCEPT ![c_w] = @ + 1]
          /\ last' = [name |-> c_w, value |-> Loaded, torn |-> torn]
          /\ c_pc' = "recv" /\ c_w' = 0
          /\ UNCHANGED <<sent, sys, stoner, Stone_CMD, u_pc, c_k, torn, paced>>

-----------------------------------------------------------------------------
UartStep ==
  \/ widgetinit_free \/ widgetinit_malloc \/ copy_widget \/ copy_value
  \/ textinit_clear \/ textinit_free \/ textinit_malloc \/ copy_text
  \/ xQueueSend

CmdStep == xQueueReceive \/ strcmp_widget \/ handle

Next ==
  \/ \E w \in Names : receive_parse(w)
  \/ receive_parse_sys
  \/ UartStep
  \/ CmdStep

Spec == Init /\ [][Next]_vars

\* Both tasks are scheduled; the display need not send anything.
FairSpec == Spec /\ WF_vars(UartStep) /\ WF_vars(CmdStep)

-----------------------------------------------------------------------------
(* Properties.                                                             *)

\* A command is carried out with its own value, or the frame was being
\* replaced while stone_cmd looked at it.
OwnValue == last.torn \/ last.value = last.name

\* The commands are carried out in the order of their frames: frames can be
\* lost or repeated, never overtaken.
InOrder == [][last'.name >= last.name]_last

\* A frame is carried out at most once for each element the queue held when it
\* came, one for the element stone_cmd was at, one for its own, and one for
\* every system frame.
RepeatsBounded == \A n \in Frames : count[n] <= QueueLength + 2 + sys

\* A display that waits until a command is carried out before it sends the next
\* has each of its commands carried out exactly once, with its own value.
PacedExactlyOnce ==
  paced /\ Idle /\ sent[Newest] \in Known =>
    count[Newest] = 1 /\ last.name = Newest /\ last.value = Newest

\* The last frame is not lost: if no other frame comes, it is carried out, also
\* when the queue was full and its own element was dropped.
LastFrameHandled ==
  \A n \in Frames :
    (u_pc = "idle" /\ widget = n /\ sent[n] \in Known)
      ~> (count[n] >= 1 \/ widget # n)

=============================================================================
