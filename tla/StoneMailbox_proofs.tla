------------------------ MODULE StoneMailbox_proofs ------------------------
(***************************************************************************)
(* Proofs, for every chain of names, queue length and number of frames, of *)
(* the properties of the hand-over of STONER from uart_task to stone_cmd.  *)
(*                                                                         *)
(* Beside the types the invariant says                                     *)
(*                                                                         *)
(*   UnpackInv  what the buffers of STONER hold at each step of            *)
(*              receive_parse, and whose value it is;                      *)
(*   OrderInv   that the names stone_cmd can meet only get newer;          *)
(*   RepeatInv  how many elements can still lead to the newest frame;      *)
(*   PacedInv   how far a frame has come that met nothing under way.       *)
(***************************************************************************)
EXTENDS StoneMailbox, SequenceTheorems, TLAPS

WidgetSteps == {"free_widget", "malloc_widget", "copy_widget"}
TextSteps == {"clear_text", "free_text", "malloc_text", "copy_text"}
UartSteps == {"idle", "copy_value", "send"} \union WidgetSteps \union TextSteps

StonerOK ==
  /\ sent \in Seq(Names) /\ Newest <= MaxFrames
  /\ sys \in Nat
  /\ widget \in {Null, Blank, Newest} /\ text \in Int /\ float_value \in Nat

TasksOK ==
  /\ Stone_CMD \in 0 .. QueueLength
  /\ u_pc \in UartSteps
  /\ c_pc \in {"recv", "strcmp", "handle"}
  /\ c_k \in 1 .. Len(Chain) /\ c_w \in 0 .. Newest
  /\ c_pc = "handle" => c_w # 0

ObserversOK ==
  /\ count \in [Frames -> Nat]
  /\ last \in [name : Nat, value : Int, torn : BOOLEAN]

FlagsOK == data \in BOOLEAN /\ torn \in BOOLEAN /\ paced \in BOOLEAN

TypeOK == StonerOK /\ TasksOK /\ ObserversOK /\ FlagsOK

\* The value that belongs to the name in STONER.widget is in its own buffer, from
\* the moment receive_parse has unpacked it.
Unpacked ==
  widget \in Frames =>
    /\ Field[sent[widget]] = "float_value" => float_value = widget
    /\ Field[sent[widget]] = "text" => text = widget

UnpackInv ==
  /\ u_pc \in WidgetSteps => Newest # 0 /\ widget \in {Null, Blank}
  /\ u_pc = "copy_value" =>
       Newest # 0 /\ widget = Newest /\ Field[sent[Newest]] = "float_value"
  /\ u_pc \in TextSteps =>
       Newest # 0 /\ widget = Newest /\ Field[sent[Newest]] = "text"
  /\ u_pc \in {"idle", "send"} => Unpacked
  /\ ~torn => u_pc \in {"idle", "send"}
  /\ ~torn /\ c_pc = "handle" => c_w = widget
  /\ OwnValue

OrderInv ==
  /\ last.name <= Newest
  /\ widget \in Frames => last.name <= widget /\ c_w <= widget
  /\ c_pc = "handle" => last.name <= c_w

\* Elements that can still lead stone_cmd to the newest frame: those in the queue,
\* the one it compares, and the one that receive_parse will send.
One(condition) == IF condition THEN 1 ELSE 0
InHand(n) == One(c_pc = "handle" /\ c_w = n)
Ahead == Stone_CMD + One(c_pc = "strcmp") + One(u_pc # "idle")
Limit == QueueLength + 2 + sys

RepeatInv ==
  \A n \in Frames :
    /\ n > Newest => count[n] = 0
    /\ n < Newest => count[n] + InHand(n) <= Limit
    /\ n = Newest => count[n] + InHand(n) + Ahead <= Limit

\* The states of a frame that met nothing under way, from its unpacking to the end
\* of its handler.
Unhandled == count[Newest] = 0
InQueue == u_pc = "idle" /\ c_pc = "recv" /\ Stone_CMD = 1 /\ widget = Newest
Compared ==
  /\ u_pc = "idle" /\ c_pc = "strcmp" /\ Stone_CMD = 0 /\ widget = Newest
  /\ ~torn /\ \A j \in 1 .. c_k - 1 : Chain[j] # sent[Newest]
Handled ==
  u_pc = "idle" /\ c_pc = "handle" /\ Stone_CMD = 0 /\ c_w = Newest /\ ~torn
Over ==
  /\ Idle
  /\ sent[Newest] \in Known =>
       count[Newest] = 1 /\ last.name = Newest /\ last.value = Newest

PacedInv ==
  /\ c_pc # "strcmp" => c_k = 1
  /\ paced =>
       /\ Newest # 0
       /\ \/ /\ u_pc # "idle" /\ c_pc = "recv" /\ Stone_CMD = 0 /\ Unhandled
             /\ u_pc = "send" => widget = Newest
          \/ InQueue /\ Unhandled
          \/ Compared /\ Unhandled
          \/ Handled /\ Unhandled
          \/ Over

IInv == TypeOK /\ UnpackInv /\ OrderInv /\ RepeatInv /\ PacedInv

-----------------------------------------------------------------------------
(* What the operators and the constants give.                              *)

LEMMA ChainFacts ==
  /\ Len(Chain) \in Nat /\ 1 \in 1 .. Len(Chain)
  /\ \A k \in 1 .. Len(Chain) : Chain[k] \in Known
  /\ \A k \in 1 .. Len(Chain) : k < Len(Chain) => k + 1 \in 1 .. Len(Chain)
<1>1. Chain \in Seq(Known) /\ Len(Chain) \in Nat \ {0}
  BY ConstantsOK, EmptySeq
<1> QED
  BY <1>1, ElementOfSeq

LEMMA Bounds ==
  QueueLength \in Nat /\ QueueLength >= 1 /\ MaxFrames \in Nat /\ 0 \in 0 .. QueueLength
BY ConstantsOK

\* The frames that have been sent name widgets.
LEMMA SentFacts ==
  ASSUME TypeOK
  PROVE  /\ Newest \in Nat
         /\ \A n \in 1 .. Newest : n \in Frames /\ sent[n] \in Names
         /\ \A n \in Frames : n \in Nat
<1>1. Newest \in Nat
  BY LenProperties DEF TypeOK, StonerOK, Newest
<1>2. \A n \in 1 .. Newest : sent[n] \in Names
  BY ElementOfSeq DEF TypeOK, StonerOK, Newest
<1> QED
  BY <1>1, <1>2, Bounds DEF TypeOK, StonerOK, Frames

\* A frame more; those before it are what they were.
LEMMA AnotherFrame ==
  ASSUME TypeOK, NEW w \in Names, receive_parse(w)
  PROVE  /\ sent' \in Seq(Names) /\ Newest' = Newest + 1 /\ Newest' <= MaxFrames
         /\ \A n \in 1 .. Newest : sent'[n] = sent[n]
<1>1. sent' = Append(sent, w) /\ Newest < MaxFrames /\ sent \in Seq(Names)
  BY DEF receive_parse, TypeOK, StonerOK
<1>2. sent' \in Seq(Names) /\ Newest' = Newest + 1
      /\ \A n \in 1 .. Newest : sent'[n] = sent[n]
  BY <1>1, AppendProperties DEF Newest
<1> QED
  <2>1. Newest \in Nat /\ MaxFrames \in Nat
    BY SentFacts, Bounds
  <2>2. Newest + 1 <= MaxFrames
    BY <1>1, <2>1
  <2> QED
    BY <1>2, <2>2

\* stone_cmd finds a name in the chain: it is that of the newest frame.
LEMMA OnlyNewestMatches ==
  ASSUME TypeOK, Matches(widget)
  PROVE  widget = Newest /\ Newest # 0 /\ Newest \in Frames
BY Bounds DEF TypeOK, StonerOK, Matches, Frames, Null, Blank

-----------------------------------------------------------------------------
(* Types.                                                                  *)

LEMMA TypeInit == Init => TypeOK
<1> SUFFICES ASSUME Init PROVE TypeOK
  OBVIOUS
<1>1. sent = <<>> /\ sent \in Seq(Names) /\ Newest = 0
  BY EmptySeq DEF Init, Newest
<1>2. StonerOK
  BY <1>1, Bounds DEF Init, StonerOK, Null
<1>3. TasksOK
  BY <1>1, Bounds, ChainFacts DEF Init, TasksOK, UartSteps
<1>4. ObserversOK
  BY DEF Init, ObserversOK
<1>5. FlagsOK
  BY DEF Init, FlagsOK
<1> QED
  BY <1>2, <1>3, <1>4, <1>5 DEF TypeOK

LEMMA TypeStep == TypeOK /\ [Next]_vars => TypeOK'
<1> SUFFICES ASSUME TypeOK, [Next]_vars PROVE TypeOK'
  OBVIOUS
<1> USE SentFacts, ChainFacts, Bounds
    DEF UartSteps, WidgetSteps, TextSteps, stoner, cmd, observed
<1>0. (UNCHANGED sent => UNCHANGED Newest) /\ Null \in Int /\ Blank \in Int
  BY DEF Newest, Null, Blank
<1>1. ASSUME NEW w \in Names, receive_parse(w) PROVE TypeOK'
  <2>1. StonerOK'
    BY <1>1, AnotherFrame DEF receive_parse, TypeOK, StonerOK
  <2>2. TasksOK'
    BY <1>1, AnotherFrame DEF receive_parse, TypeOK, TasksOK
  <2>3. ObserversOK'
    BY <1>1 DEF receive_parse, TypeOK, ObserversOK
  <2>4. FlagsOK'
    BY <1>1 DEF receive_parse, TypeOK, FlagsOK, Idle
  <2> QED
    BY <2>1, <2>2, <2>3, <2>4 DEF TypeOK
<1>2. ASSUME widgetinit_free PROVE TypeOK'
  <2>1. StonerOK'
    BY <1>0, <1>2 DEF widgetinit_free, TypeOK, StonerOK
  <2>2. TasksOK'
    BY <1>0, <1>2 DEF widgetinit_free, TypeOK, TasksOK
  <2>3. ObserversOK'
    BY <1>2 DEF widgetinit_free, TypeOK, ObserversOK
  <2>4. FlagsOK'
    BY <1>2 DEF widgetinit_free, TypeOK, FlagsOK
  <2> QED
    BY <2>1, <2>2, <2>3, <2>4 DEF TypeOK
<1>3. ASSUME widgetinit_malloc PROVE TypeOK'
  <2>1. StonerOK'
    BY <1>0, <1>3 DEF widgetinit_malloc, TypeOK, StonerOK
  <2>2. TasksOK'
    BY <1>0, <1>3 DEF widgetinit_malloc, TypeOK, TasksOK
  <2>3. ObserversOK'
    BY <1>3 DEF widgetinit_malloc, TypeOK, ObserversOK
  <2>4. FlagsOK'
    BY <1>3 DEF widgetinit_malloc, TypeOK, FlagsOK
  <2> QED
    BY <2>1, <2>2, <2>3, <2>4 DEF TypeOK
<1>4. ASSUME copy_widget PROVE TypeOK'
  <2>1. StonerOK'
    BY <1>0, <1>4 DEF copy_widget, TypeOK, StonerOK
  <2>2. TasksOK'
    BY <1>0, <1>4 DEF copy_widget, TypeOK, TasksOK
  <2>3. ObserversOK'
    BY <1>4 DEF copy_widget, TypeOK, ObserversOK
  <2>4. FlagsOK'
    BY <1>4 DEF copy_widget, TypeOK, FlagsOK
  <2> QED
    BY <2>1, <2>2, <2>3, <2>4 DEF TypeOK
<1>5. ASSUME copy_value PROVE TypeOK'
  <2>1. StonerOK'
    BY <1>0, <1>5 DEF copy_value, TypeOK, StonerOK
  <2>2. TasksOK'
    BY <1>0, <1>5 DEF copy_value, TypeOK, TasksOK
  <2>3. ObserversOK'
    BY <1>5 DEF copy_value, TypeOK, ObserversOK
  <2>4. FlagsOK'
    BY <1>5 DEF copy_value, TypeOK, FlagsOK
  <2> QED
    BY <2>1, <2>2, <2>3, <2>4 DEF TypeOK
<1>6. ASSUME textinit_clear PROVE TypeOK'
  <2>1. StonerOK'
    BY <1>0, <1>6 DEF textinit_clear, TypeOK, StonerOK
  <2>2. TasksOK'
    BY <1>0, <1>6 DEF textinit_clear, TypeOK, TasksOK
  <2>3. ObserversOK'
    BY <1>6 DEF textinit_clear, TypeOK, ObserversOK
  <2>4. FlagsOK'
    BY <1>6 DEF textinit_clear, TypeOK, FlagsOK
  <2> QED
    BY <2>1, <2>2, <2>3, <2>4 DEF TypeOK
<1>7. ASSUME textinit_free PROVE TypeOK'
  <2>1. StonerOK'
    BY <1>0, <1>7 DEF textinit_free, TypeOK, StonerOK
  <2>2. TasksOK'
    BY <1>0, <1>7 DEF textinit_free, TypeOK, TasksOK
  <2>3. ObserversOK'
    BY <1>7 DEF textinit_free, TypeOK, ObserversOK
  <2>4. FlagsOK'
    BY <1>7 DEF textinit_free, TypeOK, FlagsOK
  <2> QED
    BY <2>1, <2>2, <2>3, <2>4 DEF TypeOK
<1>8. ASSUME textinit_malloc PROVE TypeOK'
  <2>1. StonerOK'
    BY <1>0, <1>8 DEF textinit_malloc, TypeOK, StonerOK
  <2>2. TasksOK'
    BY <1>0, <1>8 DEF textinit_malloc, TypeOK, TasksOK
  <2>3. ObserversOK'
    BY <1>8 DEF textinit_malloc, TypeOK, ObserversOK
  <2>4. FlagsOK'
    BY <1>8 DEF textinit_malloc, TypeOK, FlagsOK
  <2> QED
    BY <2>1, <2>2, <2>3, <2>4 DEF TypeOK
<1>9. ASSUME copy_text PROVE TypeOK'
  <2>1. StonerOK'
    BY <1>0, <1>9 DEF copy_text, TypeOK, StonerOK
  <2>2. TasksOK'
    BY <1>0, <1>9 DEF copy_text, TypeOK, TasksOK
  <2>3. ObserversOK'
    BY <1>9 DEF copy_text, TypeOK, ObserversOK
  <2>4. FlagsOK'
    BY <1>9 DEF copy_text, TypeOK, FlagsOK
  <2> QED
    BY <2>1, <2>2, <2>3, <2>4 DEF TypeOK
<1>10. ASSUME Panic PROVE TypeOK'
  <2>1. StonerOK'
    BY <1>0, <1>10 DEF Panic, TypeOK, StonerOK
  <2>2. TasksOK'
    BY <1>0, <1>10 DEF Panic, TypeOK, TasksOK
  <2>3. ObserversOK'
    BY <1>10 DEF Panic, TypeOK, ObserversOK
  <2>4. FlagsOK'
    BY <1>10 DEF Panic, TypeOK, FlagsOK
  <2> QED
    BY <2>1, <2>2, <2>3, <2>4 DEF TypeOK
<1>11. ASSUME receive_parse_sys PROVE TypeOK'
  <2>1. CASE ~Panic
    <3>1. StonerOK'
      BY <1>0, <1>11, <2>1 DEF receive_parse_sys, TypeOK, StonerOK
    <3>2. TasksOK'
      BY <1>0, <1>11, <2>1 DEF receive_parse_sys, TypeOK, TasksOK
    <3>3. ObserversOK'
      BY <1>11, <2>1 DEF receive_parse_sys, TypeOK, ObserversOK
    <3>4. FlagsOK'
      BY <1>11, <2>1 DEF receive_parse_sys, TypeOK, FlagsOK
    <3> QED
      BY <3>1, <3>2, <3>3, <3>4 DEF TypeOK
  <2> QED
    BY <1>10, <2>1
<1>12. ASSUME xQueueSend PROVE TypeOK'
  BY <1>0, <1>12 DEF xQueueSend, TypeOK, StonerOK, TasksOK, ObserversOK, FlagsOK
<1>13. ASSUME xQueueReceive PROVE TypeOK'
  BY <1>0, <1>13 DEF xQueueReceive, TypeOK, StonerOK, TasksOK, ObserversOK, FlagsOK
<1>14. ASSUME strcmp_widget PROVE TypeOK'
  <2>1. CASE ~Panic
    <3>1. UNCHANGED <<sent, sys, stoner, Stone_CMD, u_pc, observed>> /\ c_pc = "strcmp"
      BY <1>14, <2>1 DEF strcmp_widget
    <3>2. StonerOK' /\ ObserversOK' /\ FlagsOK'
      BY <1>0, <3>1 DEF TypeOK, StonerOK, ObserversOK, FlagsOK
    <3>3. TasksOK'
      BY <1>0, <1>14, <2>1, <3>1, OnlyNewestMatches DEF strcmp_widget, TypeOK, TasksOK
    <3> QED
      BY <3>2, <3>3 DEF TypeOK
  <2> QED
    BY <1>10, <2>1
<1>15. ASSUME handle PROVE TypeOK'
  <2>1. CASE ~Panic
    <3>1. UNCHANGED <<sent, sys, stoner, Stone_CMD, u_pc, c_k, torn, paced>>
      BY <1>15, <2>1 DEF handle
    <3>2. c_w \in 1 .. Newest /\ c_w \in Frames /\ Field[sent[c_w]] \in Fields
      BY <1>15, ConstantsOK DEF handle, TypeOK, TasksOK
    <3>3. Loaded \in Int
      BY <3>2 DEF Loaded, Fields, TypeOK, StonerOK, Null, Blank
    <3>4. StonerOK' /\ TasksOK' /\ FlagsOK'
      BY <1>0, <1>15, <2>1, <3>1 DEF handle, TypeOK, StonerOK, TasksOK, FlagsOK
    <3>5. ObserversOK'
      <4>1. count' \in [Frames -> Nat]
        BY <1>15, <2>1, <3>2 DEF handle, TypeOK, ObserversOK
      <4>2. torn \in BOOLEAN /\ c_w \in Nat
        BY <3>2 DEF TypeOK, FlagsOK
      <4>3. last' = [name |-> c_w, value |-> Loaded, torn |-> torn]
        BY <1>15, <2>1 DEF handle
      <4>4. last' \in [name : Nat, value : Int, torn : BOOLEAN]
        BY <3>3, <4>2, <4>3
      <4> QED
        BY <4>1, <4>4 DEF ObserversOK
    <3> QED
      BY <3>4, <3>5 DEF TypeOK
  <2> QED
    BY <1>10, <2>1
<1>16. CASE UNCHANGED vars
  BY <1>0, <1>16 DEF vars, TypeOK, StonerOK, TasksOK, ObserversOK, FlagsOK
<1> QED
  BY <1>1, <1>2, <1>3, <1>4, <1>5, <1>6, <1>7, <1>8, <1>9, <1>11, <1>12, <1>13,
     <1>14, <1>15, <1>16 DEF Next, UartStep, CmdStep

-----------------------------------------------------------------------------
(* What the buffers of STONER hold.                                        *)

\* What an undisturbed handler reads is the value that came with the name.
LEMMA OwnLoad ==
  ASSUME TypeOK, UnpackInv, c_pc = "handle", ~torn
  PROVE  Loaded = c_w /\ c_w = widget
<1> USE SentFacts DEF TypeOK, StonerOK, TasksOK
<1>1. c_w = widget /\ c_w \in 1 .. Newest /\ c_w \in Frames /\ Unpacked
  BY DEF UnpackInv
<1>2. Field[sent[c_w]] \in Fields
  BY <1>1, ConstantsOK
<1> QED
  BY <1>1, <1>2 DEF Loaded, Fields, Unpacked

LEMMA UnpackStep == TypeOK /\ UnpackInv /\ [Next]_vars => UnpackInv'
<1> SUFFICES ASSUME TypeOK, UnpackInv, [Next]_vars PROVE UnpackInv'
  OBVIOUS
<1> USE SentFacts, Bounds
    DEF TypeOK, StonerOK, TasksOK, ObserversOK, FlagsOK, Newest, stoner, cmd,
        observed, WidgetSteps, TextSteps, UartSteps, UnpackInv, Unpacked,
        OwnValue, Null, Blank, Frames
<1>1. ASSUME NEW w \in Names, receive_parse(w) PROVE UnpackInv'
  BY <1>1, AnotherFrame DEF receive_parse, Idle
<1>2. ASSUME widgetinit_free PROVE UnpackInv'
  BY <1>2 DEF widgetinit_free
<1>3. ASSUME widgetinit_malloc PROVE UnpackInv'
  BY <1>3 DEF widgetinit_malloc
<1>4. ASSUME copy_widget PROVE UnpackInv'
  BY <1>4 DEF copy_widget
<1>5. ASSUME copy_value PROVE UnpackInv'
  BY <1>5 DEF copy_value
<1>6. ASSUME textinit_clear PROVE UnpackInv'
  BY <1>6 DEF textinit_clear
<1>7. ASSUME textinit_free PROVE UnpackInv'
  BY <1>7 DEF textinit_free
<1>8. ASSUME textinit_malloc PROVE UnpackInv'
  BY <1>8 DEF textinit_malloc
<1>9. ASSUME copy_text PROVE UnpackInv'
  BY <1>9 DEF copy_text
<1>10. ASSUME Panic PROVE UnpackInv'
  BY <1>10 DEF Panic
<1>11. ASSUME receive_parse_sys PROVE UnpackInv'
  <2>1. CASE Panic
    BY <1>10, <2>1
  <2>2. CASE ~Panic
    <3>1. /\ u_pc = "idle" /\ u_pc' = "send" /\ sys' = sys + 1 /\ widget' \in {widget, Blank}
          /\ torn' = TRUE /\ paced' = FALSE
          /\ UNCHANGED <<sent, text, float_value, Stone_CMD, cmd, count, last>>
      BY <1>11, <2>2 DEF receive_parse_sys
    <3> QED
      BY <3>1, SMTT(30)
  <2> QED
    BY <2>1, <2>2
<1>12. ASSUME xQueueSend PROVE UnpackInv'
  BY <1>12 DEF xQueueSend
<1>13. ASSUME xQueueReceive PROVE UnpackInv'
  BY <1>13 DEF xQueueReceive
<1>14. ASSUME strcmp_widget PROVE UnpackInv'
  BY <1>14, <1>10, OnlyNewestMatches DEF strcmp_widget
<1>15. ASSUME handle PROVE UnpackInv'
  <2>1. CASE Panic
    BY <1>10, <2>1
  <2>2. CASE ~Panic
    <3>1. /\ c_pc = "handle" /\ c_pc' = "recv"
          /\ last' = [name |-> c_w, value |-> Loaded, torn |-> torn]
          /\ UNCHANGED <<sent, stoner, u_pc, torn>>
      BY <1>15, <2>2 DEF handle
    <3>2. ~torn => Loaded = c_w
      BY <3>1, OwnLoad
    <3> QED
      BY <3>1, <3>2
  <2> QED
    BY <2>1, <2>2
<1>16. CASE UNCHANGED vars
  BY <1>16 DEF vars
<1> QED
  BY <1>1, <1>2, <1>3, <1>4, <1>5, <1>6, <1>7, <1>8, <1>9, <1>11, <1>12, <1>13,
     <1>14, <1>15, <1>16 DEF Next, UartStep, CmdStep

-----------------------------------------------------------------------------
(* Names and handlers only get newer.                                      *)

LEMMA OrderStep == TypeOK /\ OrderInv /\ [Next]_vars => OrderInv'
<1> SUFFICES ASSUME TypeOK, OrderInv, [Next]_vars PROVE OrderInv'
  OBVIOUS
<1> USE SentFacts, Bounds
    DEF TypeOK, StonerOK, TasksOK, ObserversOK, FlagsOK, Newest, stoner, cmd,
        observed, OrderInv, Null, Blank, Frames
<1>1. ASSUME NEW w \in Names, receive_parse(w) PROVE OrderInv'
  BY <1>1, AnotherFrame DEF receive_parse, Idle
<1>2. ASSUME widgetinit_free PROVE OrderInv'
  BY <1>2 DEF widgetinit_free
<1>3. ASSUME widgetinit_malloc PROVE OrderInv'
  BY <1>3 DEF widgetinit_malloc
<1>4. ASSUME copy_widget PROVE OrderInv'
  BY <1>4 DEF copy_widget
<1>5. ASSUME copy_value PROVE OrderInv'
  BY <1>5 DEF copy_value
<1>6. ASSUME textinit_clear PROVE OrderInv'
  BY <1>6 DEF textinit_clear
<1>7. ASSUME textinit_free PROVE OrderInv'
  BY <1>7 DEF textinit_free
<1>8. ASSUME textinit_malloc PROVE OrderInv'
  BY <1>8 DEF textinit_malloc
<1>9. ASSUME copy_text PROVE OrderInv'
  BY <1>9 DEF copy_text
<1>10. ASSUME Panic PROVE OrderInv'
  BY <1>10 DEF Panic
<1>11. ASSUME receive_parse_sys PROVE OrderInv'
  <2>1. CASE Panic
    BY <1>10, <2>1
  <2>2. CASE ~Panic
    <3>1. /\ u_pc = "idle" /\ u_pc' = "send" /\ sys' = sys + 1 /\ widget' \in {widget, Blank}
          /\ torn' = TRUE /\ paced' = FALSE
          /\ UNCHANGED <<sent, text, float_value, Stone_CMD, cmd, count, last>>
      BY <1>11, <2>2 DEF receive_parse_sys
    <3> QED
      BY <3>1, SMTT(30)
  <2> QED
    BY <2>1, <2>2
<1>12. ASSUME xQueueSend PROVE OrderInv'
  BY <1>12 DEF xQueueSend
<1>13. ASSUME xQueueReceive PROVE OrderInv'
  BY <1>13 DEF xQueueReceive
<1>14. ASSUME strcmp_widget PROVE OrderInv'
  <2>1. CASE Panic
    BY <1>10, <2>1
  <2>2. CASE ~Panic
    <3>1. UNCHANGED <<sent, stoner, observed>>
      BY <1>14, <2>2 DEF strcmp_widget
    <3>2. \/ c_pc' = "handle" /\ c_w' = widget /\ Matches(widget)
          \/ c_pc' \in {"strcmp", "recv"} /\ c_w' = c_w
      BY <1>14, <2>2 DEF strcmp_widget
    <3>3. UNCHANGED <<Newest, widget, last>>
      BY <3>1
    <3>4. CASE c_pc' = "handle" /\ c_w' = widget /\ Matches(widget)
      <4>1. widget = Newest /\ widget \in Frames
        BY <3>4, OnlyNewestMatches
      <4> QED
        BY <3>3, <3>4, <4>1
    <3>5. CASE c_pc' \in {"strcmp", "recv"} /\ c_w' = c_w
      BY <3>3, <3>5
    <3> QED
      BY <3>2, <3>4, <3>5
  <2> QED
    BY <2>1, <2>2
<1>15. ASSUME handle PROVE OrderInv'
  <2>1. CASE Panic
    BY <1>10, <2>1
  <2>2. CASE ~Panic
    <3>1. /\ c_pc = "handle" /\ c_pc' = "recv" /\ c_w' = 0
          /\ last' = [name |-> c_w, value |-> Loaded, torn |-> torn]
          /\ UNCHANGED <<sent, stoner>>
      BY <1>15, <2>2 DEF handle
    <3>2. last'.name = c_w
      BY ONLY <3>1
    <3> QED
      BY <3>1, <3>2
  <2> QED
    BY <2>1, <2>2
<1>16. CASE UNCHANGED vars
  BY <1>16 DEF vars
<1> QED
  BY <1>1, <1>2, <1>3, <1>4, <1>5, <1>6, <1>7, <1>8, <1>9, <1>11, <1>12, <1>13,
     <1>14, <1>15, <1>16 DEF Next, UartStep, CmdStep

-----------------------------------------------------------------------------
(* How many elements can still lead to the newest frame.                   *)

LEMMA Numbers ==
  ASSUME TypeOK
  PROVE  /\ \A n : InHand(n) \in {0, 1}
         /\ \A n \in Frames : count[n] \in Nat
         /\ Ahead \in Nat /\ Limit \in Nat
BY Bounds DEF TypeOK, StonerOK, TasksOK, ObserversOK, InHand, Ahead, Limit, One

\* With the frames as they were, what is ahead may grow as the limit does.
LEMMA RepeatKept ==
  ASSUME TypeOK, RepeatInv, UNCHANGED <<count, Newest>>, \A n : InHand(n)' = InHand(n),
         Limit' \in Nat, Ahead' \in Nat,
         Limit <= Limit', Ahead' + Limit <= Ahead + Limit'
  PROVE  RepeatInv'
<1> SUFFICES ASSUME NEW n \in Frames
             PROVE  /\ n > Newest => count[n] = 0
                    /\ n < Newest => count[n] + InHand(n) <= Limit'
                    /\ n = Newest => count[n] + InHand(n) + Ahead' <= Limit'
  BY DEF RepeatInv
<1>1. /\ n > Newest => count[n] = 0
      /\ n < Newest => count[n] + InHand(n) <= Limit
      /\ n = Newest => count[n] + InHand(n) + Ahead <= Limit
  BY DEF RepeatInv
<1>2. /\ InHand(n) \in Nat /\ count[n] \in Nat /\ Ahead \in Nat /\ Limit \in Nat
      /\ n \in Nat /\ Newest \in Nat
  BY Numbers, SentFacts
<1>3. /\ Limit' \in Nat /\ Ahead' \in Nat /\ Limit <= Limit'
      /\ Ahead' + Limit <= Ahead + Limit'
  OBVIOUS
<1>4. PICK c, i, a, b, l, m : c = count[n] /\ i = InHand(n) /\ a = Ahead /\ b = Ahead'
                              /\ l = Limit /\ m = Limit'
  OBVIOUS
<1>5. /\ c \in Nat /\ i \in Nat /\ a \in Nat /\ b \in Nat /\ l \in Nat /\ m \in Nat
      /\ l <= m /\ b + l <= a + m
  BY ONLY <1>2, <1>3, <1>4
<1>6. CASE n > Newest
  BY ONLY <1>1, <1>2, <1>6
<1>7. CASE n < Newest
  <2>1. c + i <= l
    BY ONLY <1>1, <1>4, <1>7
  <2>2. c + i <= m
    BY ONLY <1>5, <2>1
  <2> QED
    BY ONLY <1>2, <1>4, <1>7, <2>2
<1>8. CASE n = Newest
  <2>1. c + i + a <= l
    BY ONLY <1>1, <1>4, <1>8
  <2>2. c + i + b <= m
    BY ONLY <1>5, <2>1
  <2> QED
    BY ONLY <1>2, <1>4, <1>8, <2>2
<1> QED
  BY ONLY <1>2, <1>6, <1>7, <1>8

LEMMA RepeatStep == TypeOK /\ RepeatInv /\ [Next]_vars => RepeatInv'
<1> SUFFICES ASSUME TypeOK, RepeatInv, [Next]_vars PROVE RepeatInv'
  OBVIOUS
<1> USE SentFacts, Bounds
    DEF TypeOK, StonerOK, TasksOK, ObserversOK, FlagsOK, Newest, stoner, cmd,
        observed, RepeatInv, One, InHand, Ahead, Limit
<1>0. Newest \in Nat /\ \A n \in Frames : n \in Nat
  OBVIOUS
<1>1. ASSUME NEW w \in Names, receive_parse(w) PROVE RepeatInv'
  <2>1. /\ u_pc = "idle" /\ u_pc' = "free_widget"
        /\ UNCHANGED <<sys, Stone_CMD, c_pc, c_w, count>>
    BY <1>1 DEF receive_parse
  <2>2. Newest' = Newest + 1
    BY <1>1, AnotherFrame
  <2>3. UNCHANGED Limit /\ \A n : InHand(n)' = InHand(n)
    BY <2>1
  <2>4. \A n : InHand(n) + Ahead' <= Limit /\ Ahead' \in Nat
    BY <2>1
  <2>5. Limit \in Nat /\ \A n \in Frames : count[n] \in Nat /\ InHand(n) \in Nat
    BY ONLY TypeOK, Numbers
  <2>6. Ahead \in Nat
    BY ONLY TypeOK, Numbers
  <2> HIDE DEF InHand, Ahead, Limit, Newest
  <2> SUFFICES ASSUME NEW n \in Frames
               PROVE  /\ n > Newest' => count[n] = 0
                      /\ n < Newest' => count[n] + InHand(n) <= Limit
                      /\ n = Newest' => count[n] + InHand(n) + Ahead' <= Limit
    BY <2>1, <2>3 DEF RepeatInv
  <2>7. /\ n > Newest => count[n] = 0
        /\ n < Newest => count[n] + InHand(n) <= Limit
        /\ n = Newest => count[n] + InHand(n) + Ahead <= Limit
    BY ONLY RepeatInv DEF RepeatInv
  <2> QED
    BY ONLY <1>0, <2>2, <2>4, <2>5, <2>6, <2>7
<1>2. ASSUME widgetinit_free PROVE RepeatInv'
  BY <1>2 DEF widgetinit_free
<1>3. ASSUME widgetinit_malloc PROVE RepeatInv'
  BY <1>3 DEF widgetinit_malloc
<1>4. ASSUME copy_widget PROVE RepeatInv'
  BY <1>4 DEF copy_widget
<1>5. ASSUME copy_value PROVE RepeatInv'
  BY <1>5 DEF copy_value
<1>6. ASSUME textinit_clear PROVE RepeatInv'
  BY <1>6 DEF textinit_clear
<1>7. ASSUME textinit_free PROVE RepeatInv'
  BY <1>7 DEF textinit_free
<1>8. ASSUME textinit_malloc PROVE RepeatInv'
  BY <1>8 DEF textinit_malloc
<1>9. ASSUME copy_text PROVE RepeatInv'
  BY <1>9 DEF copy_text
<1>10. ASSUME Panic PROVE RepeatInv'
  <2>1. UNCHANGED <<count, sent, sys>> /\ Limit' = Limit /\ Ahead' = 0
        /\ \A n : InHand(n)' = 0
    BY <1>10 DEF Panic
  <2> QED
    BY ONLY RepeatInv, TypeOK, Numbers, <2>1 DEF RepeatInv, Newest
<1>11. ASSUME receive_parse_sys PROVE RepeatInv'
  <2>1. CASE Panic
    BY <1>10, <2>1
  <2>2. CASE ~Panic
    <3>1. /\ u_pc = "idle" /\ u_pc' = "send" /\ sys' = sys + 1 /\ widget' \in {widget, Blank}
          /\ torn' = TRUE /\ paced' = FALSE
          /\ UNCHANGED <<sent, text, float_value, Stone_CMD, cmd, count, last>>
      BY <1>11, <2>2 DEF receive_parse_sys
    <3>2. UNCHANGED <<count, Newest>> /\ \A n : InHand(n)' = InHand(n)
      BY <3>1
    <3>3. Limit' = Limit + 1 /\ Ahead' = Ahead + 1
      BY <3>1
    <3>4. /\ Limit' \in Nat /\ Ahead' \in Nat /\ Limit <= Limit'
          /\ Ahead' + Limit <= Ahead + Limit'
      BY ONLY TypeOK, Numbers, <3>3, SMTT(30)
    <3> QED
      BY ONLY TypeOK, RepeatInv, RepeatKept, <3>2, <3>4
  <2> QED
    BY <2>1, <2>2
<1>12. ASSUME xQueueSend PROVE RepeatInv'
  <2>1. u_pc = "send" /\ u_pc' = "idle" /\ UNCHANGED <<sent, sys, c_pc, c_w, count>>
    BY <1>12 DEF xQueueSend
  <2>2. Stone_CMD' \in Nat /\ Stone_CMD' <= Stone_CMD + 1
    BY <1>12 DEF xQueueSend
  <2>3. UNCHANGED <<count, Newest, Limit>> /\ \A n : InHand(n)' = InHand(n)
    BY <2>1
  <2>4. Ahead' \in Nat /\ Ahead' <= Ahead
    <3>1. One(c_pc = "strcmp") \in Nat /\ Stone_CMD \in Nat
      OBVIOUS
    <3>2. Ahead' = Stone_CMD' + One(c_pc = "strcmp")
      BY ONLY <2>1, <2>2, <3>1 DEF Ahead, One
    <3>3. Ahead = Stone_CMD + One(c_pc = "strcmp") + 1
      BY ONLY <2>1 DEF Ahead, One
    <3> HIDE DEF One, Ahead
    <3> QED
      BY ONLY <2>2, <3>1, <3>2, <3>3
  <2>5. Limit' \in Nat /\ Limit <= Limit' /\ Ahead' + Limit <= Ahead + Limit'
    BY ONLY TypeOK, Numbers, <2>3, <2>4
  <2> QED
    BY ONLY TypeOK, RepeatInv, RepeatKept, <2>3, <2>4, <2>5
<1>13. ASSUME xQueueReceive PROVE RepeatInv'
  BY <1>13 DEF xQueueReceive
<1>14. ASSUME strcmp_widget PROVE RepeatInv'
  <2>1. CASE Panic
    BY <1>10, <2>1
  <2>2. CASE ~Panic
    <3>1. UNCHANGED <<sent, sys, stoner, Stone_CMD, u_pc, observed>> /\ c_pc = "strcmp"
      BY <1>14, <2>2 DEF strcmp_widget
    <3>2. UNCHANGED <<count, Newest, Limit>> /\ \A n : InHand(n) = 0
      BY <3>1
    <3>3. \/ /\ c_pc' = "handle" /\ c_w' = widget /\ Matches(widget)
          \/ c_pc' \in {"strcmp", "recv"}
      BY <1>14, <2>2 DEF strcmp_widget
    <3>4. ASSUME c_pc' = "handle", c_w' = Newest PROVE RepeatInv'
      <4>1. Ahead' = Ahead - 1
        BY <3>1, <3>4, Numbers
      <4>2. \A n : InHand(n)' = IF n = Newest THEN 1 ELSE 0
        BY <3>4
      <4>3. Ahead \in Nat /\ Limit \in Nat /\ \A n \in Frames : count[n] \in Nat
        BY Numbers
      <4> QED
        BY ONLY RepeatInv, <1>0, <3>2, <4>1, <4>2, <4>3 DEF RepeatInv
    <3>5. ASSUME c_pc' \in {"strcmp", "recv"} PROVE RepeatInv'
      <4>1. Ahead' <= Ahead /\ Ahead' \in Nat
        BY <3>1, <3>5, Numbers
      <4>2. \A n : InHand(n)' = 0
        BY <3>5
      <4> QED
        BY ONLY RepeatInv, TypeOK, Numbers, <3>2, <4>1, <4>2 DEF RepeatInv
    <3> QED
      BY <3>3, <3>4, <3>5, OnlyNewestMatches
  <2> QED
    BY <2>1, <2>2
<1>15. ASSUME handle PROVE RepeatInv'
  <2>1. CASE Panic
    BY <1>10, <2>1
  <2>2. CASE ~Panic
    <3>1. /\ c_pc = "handle" /\ c_pc' = "recv" /\ c_w \in 1 .. Newest /\ c_w \in Frames
          /\ count' = [count EXCEPT ![c_w] = @ + 1]
          /\ UNCHANGED <<sent, sys, Stone_CMD, u_pc>>
      BY <1>15, <2>2 DEF handle
    <3>2. UNCHANGED <<Newest, Limit, Ahead>>
      BY <3>1
    <3>3. \A n : InHand(n) = (IF n = c_w THEN 1 ELSE 0) /\ InHand(n)' = 0
      BY <3>1
    <3>4. \A n \in Frames : count'[n] = count[n] + InHand(n)
      BY <3>1, <3>3
    <3>5. \A n \in Frames : n > Newest => InHand(n) = 0
      BY <3>1, <3>3
    <3> QED
      BY ONLY RepeatInv, TypeOK, Numbers, <3>2, <3>3, <3>4, <3>5 DEF RepeatInv
  <2> QED
    BY <2>1, <2>2
<1>16. CASE UNCHANGED vars
  BY <1>16 DEF vars
<1> QED
  BY <1>1, <1>2, <1>3, <1>4, <1>5, <1>6, <1>7, <1>8, <1>9, <1>11, <1>12, <1>13,
     <1>14, <1>15, <1>16 DEF Next, UartStep, CmdStep

-----------------------------------------------------------------------------
(* How far a frame has come that met nothing under way.                    *)

LEMMA PacedStep ==
  TypeOK /\ UnpackInv /\ RepeatInv /\ PacedInv /\ [Next]_vars => PacedInv'
<1> SUFFICES ASSUME TypeOK, UnpackInv, RepeatInv, PacedInv, [Next]_vars
             PROVE  PacedInv'
  OBVIOUS
<1> USE SentFacts, Bounds
    DEF TypeOK, StonerOK, TasksOK, ObserversOK, FlagsOK, Newest, stoner, cmd,
        observed, WidgetSteps, TextSteps, UartSteps, PacedInv, Unhandled, InQueue,
        Compared, Handled, Over, Idle, Null, Blank, Frames
<1>0. /\ u_pc = "copy_value" => widget = Newest
      /\ u_pc \in TextSteps => widget = Newest
  BY DEF UnpackInv
<1>1. ASSUME NEW w \in Names, receive_parse(w) PROVE PacedInv'
  <2>1. count[Newest + 1] = 0 /\ Newest' = Newest + 1
    <3>1. Newest' = Newest + 1
      BY ONLY TypeOK, <1>1, AnotherFrame
    <3>2. Newest < MaxFrames
      BY <1>1 DEF receive_parse
    <3>3. Newest + 1 \in Frames /\ Newest + 1 > Newest
      BY <3>2
    <3> QED
      BY ONLY RepeatInv, <3>1, <3>3 DEF RepeatInv
  <2>2. /\ u_pc' = "free_widget" /\ UNCHANGED <<cmd, Stone_CMD, count>>
        /\ paced' = Idle /\ Newest' # 0
    BY <1>1, <2>1 DEF receive_parse
  <2>3. paced' => c_pc = "recv" /\ Stone_CMD = 0
    BY <2>2
  <2>4. paced' => Unhandled'
    BY <2>1, <2>2
  <2> QED
    BY <2>2, <2>3, <2>4
<1>2. ASSUME widgetinit_free PROVE PacedInv'
  BY <1>2 DEF widgetinit_free
<1>3. ASSUME widgetinit_malloc PROVE PacedInv'
  BY <1>3 DEF widgetinit_malloc
<1>4. ASSUME copy_widget PROVE PacedInv'
  BY <1>4 DEF copy_widget
<1>5. ASSUME copy_value PROVE PacedInv'
  BY <1>0, <1>5 DEF copy_value
<1>6. ASSUME textinit_clear PROVE PacedInv'
  BY <1>6 DEF textinit_clear
<1>7. ASSUME textinit_free PROVE PacedInv'
  BY <1>7 DEF textinit_free
<1>8. ASSUME textinit_malloc PROVE PacedInv'
  BY <1>8 DEF textinit_malloc
<1>9. ASSUME copy_text PROVE PacedInv'
  BY <1>0, <1>9 DEF copy_text
<1>10. ASSUME Panic PROVE PacedInv'
  BY <1>10 DEF Panic
<1>11. ASSUME receive_parse_sys PROVE PacedInv'
  <2>1. CASE Panic
    BY <1>10, <2>1
  <2>2. CASE ~Panic
    <3>1. paced' = FALSE /\ UNCHANGED cmd
      BY <1>11, <2>2 DEF receive_parse_sys
    <3> QED
      BY <3>1, SMTT(30)
  <2> QED
    BY <2>1, <2>2
<1>12. ASSUME xQueueSend PROVE PacedInv'
  BY <1>12 DEF xQueueSend
<1>13. ASSUME xQueueReceive PROVE PacedInv'
  <2>1. /\ c_pc = "recv" /\ c_pc' = "strcmp" /\ Stone_CMD > 0
        /\ Stone_CMD' = Stone_CMD - 1 /\ torn' = (u_pc \notin {"idle", "send"})
        /\ UNCHANGED <<sent, stoner, u_pc, c_k, c_w, count, last, paced>>
    BY <1>13 DEF xQueueReceive
  <2>2. c_k' = 1 /\ 1 .. c_k' - 1 = {}
    BY <2>1
  <2>3. ASSUME paced PROVE PacedInv'
    <3>1. InQueue /\ Unhandled /\ Newest # 0
      BY <2>1, <2>3
    <3>2. Stone_CMD' = 0 /\ u_pc = "idle"
      BY <2>1, <3>1
    <3>3. ~torn'
      BY ONLY <2>1, <3>2
    <3> QED
      BY <2>1, <2>2, <3>1, <3>2, <3>3
  <2> QED
    BY <2>1, <2>3
<1>14. ASSUME strcmp_widget PROVE PacedInv'
  <2>1. CASE Panic
    BY <1>10, <2>1
  <2>2. CASE ~Panic
    <3>1. UNCHANGED <<sent, sys, stoner, Stone_CMD, u_pc, observed>> /\ c_pc = "strcmp"
      BY <1>14, <2>2 DEF strcmp_widget
    <3>2. c_pc' # "strcmp" => c_k' = 1
      BY <1>14, <2>2 DEF strcmp_widget
    <3>3. ASSUME paced PROVE PacedInv'
      <4>1. Compared /\ Unhandled /\ Newest # 0 /\ Newest \in Frames
        BY <3>1, <3>3
      <4>2. CASE Matches(widget)
        <5>1. c_pc' = "handle" /\ c_w' = Newest /\ c_k' = 1
          BY <1>14, <2>2, <4>1, <4>2 DEF strcmp_widget
        <5>2. Handled' /\ Unhandled' /\ Newest' # 0
          BY <3>1, <4>1, <5>1
        <5> QED
          BY <5>1, <5>2
      <4>3. CASE ~Matches(widget)
        <5>1. \A j \in 1 .. c_k : Chain[j] # sent[Newest]
          BY <4>1, <4>3 DEF Matches
        <5>2. CASE c_k < Len(Chain)
          <6>1. c_pc' = "strcmp" /\ c_k' = c_k + 1
            BY <1>14, <2>2, <4>3, <5>2 DEF strcmp_widget
          <6> QED
            BY <3>1, <4>1, <5>1, <6>1
        <5>3. CASE ~(c_k < Len(Chain))
          <6>1. c_pc' = "recv" /\ c_k' = 1
            BY <1>14, <2>2, <4>3, <5>3 DEF strcmp_widget
          <6>2. sent[Newest] \notin Known
            <7>1. \A j \in 1 .. Len(Chain) : j \in 1 .. c_k
              BY <5>3, ChainFacts
            <7> QED
              BY ONLY <5>1, <7>1 DEF Known
          <6> QED
            BY <3>1, <4>1, <6>1, <6>2
        <5> QED
          BY <5>2, <5>3
      <4> QED
        BY <4>2, <4>3
    <3> QED
      BY <3>1, <3>2, <3>3
  <2> QED
    BY <2>1, <2>2
<1>15. ASSUME handle PROVE PacedInv'
  <2>1. CASE Panic
    BY <1>10, <2>1
  <2>2. CASE ~Panic
    <3>1. /\ c_pc = "handle" /\ c_pc' = "recv" /\ c_k' = c_k
          /\ count' = [count EXCEPT ![c_w] = @ + 1]
          /\ last' = [name |-> c_w, value |-> Loaded, torn |-> torn]
          /\ UNCHANGED <<sent, stoner, Stone_CMD, u_pc, torn, paced>>
      BY <1>15, <2>2 DEF handle
    <3>2. ASSUME paced PROVE PacedInv'
      <4>1. Handled /\ Unhandled /\ Newest # 0 /\ Newest \in Frames
        BY <3>1, <3>2
      <4>2. c_w = Newest /\ widget = Newest /\ Loaded = Newest
        BY <4>1, OwnLoad
      <4>3. count'[Newest] = 1 /\ last'.name = Newest /\ last'.value = Newest
        BY <3>1, <4>1, <4>2
      <4>4. Over' /\ Newest' # 0 /\ c_k' = 1
        BY <3>1, <4>1, <4>3
      <4> QED
        BY <4>4
    <3> QED
      BY <3>1, <3>2
  <2> QED
    BY <2>1, <2>2
<1>16. CASE UNCHANGED vars
  BY <1>16 DEF vars
<1> QED
  BY <1>1, <1>2, <1>3, <1>4, <1>5, <1>6, <1>7, <1>8, <1>9, <1>11, <1>12, <1>13,
     <1>14, <1>15, <1>16 DEF Next, UartStep, CmdStep

-----------------------------------------------------------------------------
(* The invariant, and the properties.                                      *)

LEMMA InitInv == Init => IInv
<1> SUFFICES ASSUME Init PROVE IInv
  OBVIOUS
<1>1. TypeOK /\ Newest = 0
  BY TypeInit DEF Init, Newest
<1>2. UnpackInv
  BY DEF Init, UnpackInv, WidgetSteps, TextSteps, Unpacked, Frames, Null, OwnValue
<1>3. OrderInv
  BY <1>1 DEF Init, OrderInv, Frames, Null
<1>4. RepeatInv
  BY <1>1, Bounds
     DEF Init, RepeatInv, InHand, Ahead, Limit, One, Frames
<1>5. PacedInv
  BY DEF Init, PacedInv
<1> QED
  BY <1>1, <1>2, <1>3, <1>4, <1>5 DEF IInv

LEMMA StepInv == IInv /\ [Next]_vars => IInv'
BY TypeStep, UnpackStep, OrderStep, RepeatStep, PacedStep DEF IInv

THEOREM Invariance == Spec => []IInv
BY InitInv, StepInv, PTL DEF Spec

\* What stone_cmd hands to a handler belongs to the name it matched, or
\* receive_parse was replacing the frame meanwhile: main.c, stone_cmd, the chain of
\* strcmp and the handlers behind it.
THEOREM ValueBelongsToName == Spec => []OwnValue
<1>1. IInv => OwnValue
  BY DEF IInv, UnpackInv
<1> QED
  BY <1>1, Invariance, PTL

\* No frame is carried out more often than the elements that can lead to it: the
\* queue is full, one is compared, one is to be sent, and each system frame sends
\* another one.
THEOREM RepeatsAreBounded == Spec => []RepeatsBounded
<1>1. IInv => RepeatsBounded
  <2> SUFFICES ASSUME IInv, NEW n \in Frames PROVE count[n] <= Limit
    BY DEF RepeatsBounded, Limit
  <2>1. /\ InHand(n) \in {0, 1} /\ count[n] \in Nat
        /\ Ahead \in Nat /\ Limit \in Nat
    BY Numbers DEF IInv
  <2>2. /\ n \in Nat /\ Newest \in Nat
        /\ n > Newest => count[n] = 0
        /\ n < Newest => count[n] + InHand(n) <= Limit
        /\ n = Newest => count[n] + InHand(n) + Ahead <= Limit
    BY SentFacts DEF IInv, RepeatInv
  <2> QED
    BY ONLY <2>1, <2>2
<1> QED
  BY <1>1, Invariance, PTL

\* A frame that was sent when nothing was under way is carried out once, with its
\* own value: the way the display is meant to be used.
THEOREM PacedIsExactlyOnce == Spec => []PacedExactlyOnce
<1>1. IInv => PacedExactlyOnce
  BY DEF IInv, PacedInv, PacedExactlyOnce, Idle, InQueue, Compared, Handled, Over
<1> QED
  BY <1>1, Invariance, PTL

\* Frames are lost or repeated, but one that came later is never carried out before
\* one that came earlier, although stone_cmd reads a name that changes under it.
THEOREM HandledInOrder == Spec => InOrder
<1>1. IInv /\ [Next]_vars => [last'.name >= last.name]_last
  <2> SUFFICES ASSUME IInv, [Next]_vars, last' # last
               PROVE  last'.name >= last.name
    OBVIOUS
  <2>1. handle
    BY DEF Next, vars, UartStep, CmdStep, observed, receive_parse, widgetinit_free,
       widgetinit_malloc, copy_widget, copy_value, textinit_clear, textinit_free,
       textinit_malloc, copy_text, receive_parse_sys, xQueueSend, xQueueReceive,
       strcmp_widget, Panic
  <2>2. c_pc = "handle" /\ last'.name = c_w
    BY <2>1 DEF handle, Panic
  <2>3. last.name \in Nat /\ c_w \in Nat /\ last.name <= c_w
    BY <2>2, SentFacts DEF IInv, OrderInv, TypeOK, TasksOK, ObserversOK
  <2> QED
    BY <2>2, <2>3
<1> QED
  BY <1>1, Invariance, PTL DEF Spec, InOrder

=============================================================================
