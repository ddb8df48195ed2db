------------------------ MODULE ResumeDialogue_proofs ------------------------
(***************************************************************************)
(* Proofs about ResumeDialogue, for every number of modes and length of    *)
(* the line: a run is logged under the mode it was started with            *)
(* (LoggedAsStarted), the display is at W02 exactly while the timer runs   *)
(* (WindowAndRunAgree), and a run that a reset interrupts is resumed with  *)
(* what the display shows (RunResumedAsLeft).                              *)
(*                                                                         *)
(* Each rests on what is on the line, in either direction: which frames    *)
(* and messages can wait together, in which order, and what their values   *)
(* say of the state they will meet.  The invariants come first; RunsInv,   *)
(* WindowInv and ResumedInv gather what each theorem needs.                *)
(***************************************************************************)
EXTENDS ResumeDialogue, SequenceTheorems, FiniteSetTheorems, TLAPS

-----------------------------------------------------------------------------
(* Types.                                                                  *)

UpNames == {"FREQ1", "P01", "P02", "digit_clock1", "W01", "W02",
            "label_timer_count_down", "FREQ2"}
DownNames == {"get_date", "get_displayed_window", "get_FREQ1", "get_text",
              "get_FREQ2", "set_date", "set_FREQ2", "set_text", "back_win"}
Times == 0 .. Word

Frames == {f \in [widget : UpNames, value : Nat] :
             f.widget = "label_timer_count_down" => f.value \in Times}
Messages == {m \in [cmd : DownNames, value : Nat] :
               m.cmd = "set_text" => m.value \in Times}

RunOK ==
  /\ mode \in Nat /\ record \in 0 .. Word - 1 /\ run_time \in 0 .. Word - 1
  /\ mode_to_time \in 0 .. HalfWord - 1 /\ mode_to_time < Minute * Byte
  /\ gptimer \in {"null", "stopped", "running"} /\ Timer_queue \in Nat

SystemOK ==
  /\ boot \in {"date", "window", "done"} /\ uart \in BOOLEAN
  /\ win \in {"W01", "W02"} /\ FREQ1_label \in Nat /\ FREQ2_label \in Nat
  /\ countdown \in Times

LineOK == up \in Seq(Frames) /\ down \in Seq(Messages)

ObserversOK ==
  /\ crossed \in BOOLEAN /\ lost \in BOOLEAN /\ known \in BOOLEAN
  /\ began \in Nat /\ left \in [record : Nat, nominal : Nat, behind : Nat]

TypeOK == RunOK /\ SystemOK /\ LineOK /\ ObserversOK

-----------------------------------------------------------------------------
(* The line, and what is known of it.                                      *)

\* Frame k of the line s is w; message k of it is m.  One is on the line.
Frame(s, k, w) == k \in 1 .. Len(s) /\ s[k].widget = w
Message(s, k, m) == k \in 1 .. Len(s) /\ s[k].cmd = m
Waits(s, w) == \E k \in 1 .. Len(s) : Frame(s, k, w)
Comes(s, m) == \E k \in 1 .. Len(s) : Message(s, k, m)

\* The labels behind place k of the line s, and how many they are.
Texts(s, k) == {n \in 1 .. Len(s) : n > k /\ s[n].cmd = "set_text"}
After(s, k) == Cardinality(Texts(s, k))

\* Before uart_task has installed its driver nothing is on the line, and nothing
\* has been started.
SilentInv ==
  ~uart =>
    /\ up = <<>> /\ down = <<>> /\ ~known /\ ~dated /\ began = 0
    /\ gptimer # "running" /\ Timer_queue = 0
    /\ boot = "done" => lost

\* When the frames of s before place k are handled, the mode is v: the last FREQ1
\* among them says so, or there is none and it is the mode the display has told.
Told(s, m, told, k, v) ==
  /\ \A n : Frame(s, n, "FREQ1") /\ n < k
            /\ (\A j : Frame(s, j, "FREQ1") /\ n < j => k <= j) => s[n].value = v
  /\ told /\ (\A j : Frame(s, j, "FREQ1") => k <= j) => m = v

\* It is then the mode with which P01 was pressed, and in the end the one shown.
ModeInv ==
  /\ \A k : Frame(up, k, "P01") => Told(up, mode, known, k, up[k].value)
  /\ Told(up, mode, known, Len(up) + 1, FREQ1_label)

\* A run started at place k of the line s with mode v keeps it until a P02: every
\* FREQ1 in between says v, and without a P02 the display (window w, label f) is
\* still at W02 and shows v.
Governs(s, w, f, k, v) ==
  /\ \A n : Frame(s, n, "FREQ1") /\ k < n =>
       s[n].value = v \/ \E j : Frame(s, j, "P02") /\ k < j /\ j < n
  /\ (w = "W02" /\ f = v) \/ \E j : Frame(s, j, "P02") /\ k < j

\* So it is with the run that has begun, and with those that P01 will start, as long
\* as no button was pressed into a message under way, or no timer can have sent one.
RunInv ==
  began # 0 /\ (gptimer # "running" \/ ~crossed) =>
    mode = began /\ Governs(up, win, FREQ1_label, 0, began)
PressInv ==
  \A k : Frame(up, k, "P01") /\ (gptimer = "null" \/ ~crossed) =>
    Governs(up, win, FREQ1_label, k, up[k].value)

\* back_win is under way only when a run has ended and none is about to start.
BackInv ==
  /\ Comes(down, "back_win") /\ ~crossed => gptimer # "running" /\ ~Waits(up, "P01")
  /\ gptimer = "null" \/ (began # 0 /\ gptimer # "running") =>
       Timer_queue = 0 /\ ~Comes(down, "back_win")

\* The questions and answers by which a run is resumed.
AskFrames == {"W02", "label_timer_count_down", "FREQ2"}
AskMessages == {"get_displayed_window", "get_text", "get_FREQ2"}
AskedUp(s) == {k \in 1 .. Len(s) : s[k].widget \in AskFrames}
AskedDown(s) == {k \in 1 .. Len(s) : s[k].cmd \in AskMessages}
Single(S) == \A i, j \in S : i = j

\* One question or answer of the dialogue is under way at a time.
ChainInv ==
  /\ Single(AskedUp(up)) /\ Single(AskedDown(down))
  /\ AskedUp(up) = {} \/ AskedDown(down) = {}
  /\ boot # "done" => AskedUp(up) = {} /\ AskedDown(down) = {}

\* Until it has ended no run is on, and none is started or stopped, unless a button
\* was pressed into it.
TalkInv ==
  Talking /\ ~crossed =>
    /\ gptimer # "running" /\ Timer_queue = 0
    /\ ~Waits(up, "P01") /\ ~Waits(up, "P02")
    /\ ~Comes(down, "back_win") /\ ~Comes(down, "set_text") /\ ~Comes(down, "set_FREQ2")

\* Everything LoggedUnderItsMode rests on.
RunsInv == TypeOK /\ SilentInv /\ ModeInv /\ ChainInv /\ TalkInv /\ BackInv /\ RunInv /\ PressInv

\* The dialogue goes beyond its first question only at W02; what it has been told
\* is what the display still shows, and what it has read back so far is the run's.
ResumeInv ==
  ~crossed =>
    /\ AskedUp(up) # {} \/ Comes(down, "get_text") \/ Comes(down, "get_FREQ2") => win = "W02"
    /\ \A k : Frame(up, k, "label_timer_count_down") => up[k].value = countdown
    /\ \A k : Frame(up, k, "FREQ2") => up[k].value = FREQ2_label
    /\ Comes(down, "get_FREQ2") \/ Waits(up, "FREQ2") => record = AsRead(countdown)

\* Behind the last P02 the display is back at W01.
StopInv ==
  \A k : Frame(up, k, "P02") /\ (\A j : Frame(up, j, "P01") => j <= k) => win = "W01"

\* WindowMatchesRun before the line is empty.
MatchInv ==
  /\ ~crossed /\ ~lost /\ ~Talking
  /\ ~Waits(up, "P01") /\ ~Waits(up, "P02") /\ ~Comes(down, "back_win")
  => (win = "W02" <=> gptimer = "running")

\* What WindowMatchesRun needs besides.
WindowInv == RunsInv /\ ResumeInv /\ StopInv /\ MatchInv

\* The labels on the line s and the one shown, c, when t seconds of a run are over and
\* r are left: of those sent during the run each says what was left then.
TextsRight(s, r, t, c) ==
  /\ \A k : Message(s, k, "set_text") /\ After(s, k) < t =>
       AsRead(s[k].value) = r + After(s, k)
  /\ After(s, 0) < t => AsRead(c) = r + After(s, 0)

\* The nominal time n that the label FREQ2, now f, will show: it is sent before the
\* first text of the run.
NominalRight(s, t, n, f) ==
  /\ ~Comes(s, "set_FREQ2") => Firmware!Nominal(f) = n
  /\ \A k : Message(s, k, "set_FREQ2") =>
       /\ t <= After(s, k)
       /\ (\A j : Message(s, j, "set_FREQ2") => j <= k) => Firmware!Nominal(s[k].value) = n

\* So it is during a run that was neither crossed nor wrapped.
LabelInv ==
  gptimer = "running" /\ ~crossed =>
    /\ record + run_time = mode_to_time => TextsRight(down, record, run_time, countdown)
    /\ NominalRight(down, run_time, mode_to_time, FREQ2_label)

\* After a reset nothing changes what the display shows of the run that was interrupted.
LeftInv ==
  left # NoRun =>
    /\ gptimer # "running" /\ Timer_queue = 0
    /\ ~Comes(down, "set_text") /\ ~Comes(down, "set_FREQ2")
    /\ AsRead(countdown) \in left.record .. left.record + left.behind
    /\ left.record + left.behind <= left.nominal
    /\ Firmware!Nominal(FREQ2_label) = left.nominal

\* The date is asked and told before the rest.
DateAsked(s) == \E i : Message(s, i, "get_date") /\ \A j \in AskedDown(s) : i < j
DateTold(s) == \E i : Frame(s, i, "digit_clock1") /\ \A j \in AskedUp(s) : i < j
DateInv == dated /\ ~clock => (AskedUp(up) = {} /\ DateAsked(down)) \/ DateTold(up)

\* And ResumedAsLeft.
ResumedInv == WindowInv /\ LabelInv /\ LeftInv /\ DateInv

-----------------------------------------------------------------------------
(* The line.                                                               *)

\* The rest of a sequence.
LEMMA SeqTail ==
  ASSUME NEW S, NEW s \in Seq(S), s # <<>>
  PROVE  /\ Tail(s) \in Seq(S) /\ Len(s) \in Nat /\ Len(s) >= 1
         /\ Len(Tail(s)) = Len(s) - 1
         /\ \A k \in 1 .. Len(s) - 1 : Tail(s)[k] = s[k + 1]
BY HeadTailProperties, EmptySeq, LenProperties

\* A sequence with one element more.
LEMMA SeqAppend ==
  ASSUME NEW S, NEW s \in Seq(S), NEW e \in S
  PROVE  /\ Append(s, e) \in Seq(S) /\ Len(s) \in Nat
         /\ Len(Append(s, e)) = Len(s) + 1
         /\ \A k \in 1 .. Len(s) : Append(s, e)[k] = s[k]
         /\ Append(s, e)[Len(s) + 1] = e
BY AppendProperties, LenProperties

\* The first frame is taken.
FrameDropped(s, t) ==
  /\ t \in Seq(Frames) /\ Len(t) = Len(s) - 1 /\ Len(s) \in Nat
  /\ \A k, w : Frame(t, k, w) =>
       k \in Nat /\ k >= 1 /\ Frame(s, k + 1, w) /\ t[k] = s[k + 1]
  /\ \A k, w : Frame(s, k, w) =>
       \/ k = 1 /\ w = s[1].widget
       \/ k \in Nat /\ k > 1 /\ Frame(t, k - 1, w) /\ t[k - 1] = s[k]
  /\ \A w : Waits(s, w) <=> Waits(t, w) \/ w = s[1].widget
  /\ s[1].value \in Nat /\ s[1].widget \in UpNames /\ Frame(s, 1, s[1].widget)
  /\ s[1].widget = "label_timer_count_down" => s[1].value \in Times

\* Tail drops a frame, and nothing else.
LEMMA FrameTaken ==
  ASSUME NEW s \in Seq(Frames), s # <<>>, NEW t, t = Tail(s)
  PROVE  FrameDropped(s, t)
<1>1. /\ t \in Seq(Frames) /\ Len(t) = Len(s) - 1 /\ Len(s) \in Nat /\ Len(s) >= 1
      /\ \A k \in 1 .. Len(s) - 1 : t[k] = s[k + 1]
  BY SeqTail
<1>2. ASSUME NEW k, NEW w, Frame(t, k, w)
      PROVE  k \in Nat /\ k >= 1 /\ Frame(s, k + 1, w) /\ t[k] = s[k + 1]
  BY <1>1, <1>2 DEF Frame
<1>3. ASSUME NEW k, NEW w, Frame(s, k, w)
      PROVE  \/ k = 1 /\ w = s[1].widget
             \/ k \in Nat /\ k > 1 /\ Frame(t, k - 1, w) /\ t[k - 1] = s[k]
  <2>1. CASE k = 1
    BY <1>3, <2>1 DEF Frame
  <2>2. CASE k # 1
    <3>1. k \in 1 .. Len(s) /\ k > 1 /\ k \in Nat /\ k - 1 \in 1 .. Len(s) - 1
      BY <1>1, <1>3, <2>2 DEF Frame
    <3>2. t[k - 1] = s[(k - 1) + 1] /\ (k - 1) + 1 = k
      BY <1>1, <3>1
    <3> QED
      BY <1>1, <1>3, <3>1, <3>2 DEF Frame
  <2> QED
    BY <2>1, <2>2
<1>4. s[1] \in Frames
  BY <1>1, ElementOfSeq
<1>5. /\ s[1].value \in Nat /\ s[1].widget \in UpNames /\ Frame(s, 1, s[1].widget)
      /\ s[1].widget = "label_timer_count_down" => s[1].value \in Times
  BY <1>1, <1>4 DEF Frames, Frame
<1>6. ASSUME NEW w PROVE Waits(s, w) <=> Waits(t, w) \/ w = s[1].widget
  <2>1. Waits(s, w) => Waits(t, w) \/ w = s[1].widget
    BY <1>3 DEF Waits, Frame
  <2>2. Waits(t, w) => Waits(s, w)
    BY <1>2 DEF Waits, Frame
  <2>3. w = s[1].widget => Waits(s, w)
    BY <1>5 DEF Waits, Frame
  <2> QED
    BY <2>1, <2>2, <2>3
<1> QED
  BY <1>1, <1>2, <1>3, <1>5, <1>6 DEF FrameDropped

\* One more frame.
FrameAppended(s, t, x, v) ==
  /\ t \in Seq(Frames) /\ Len(t) = Len(s) + 1 /\ Len(s) \in Nat
  /\ \A k, w : Frame(s, k, w) => Frame(t, k, w) /\ t[k] = s[k] /\ k \in Nat
  /\ \A k, w : Frame(t, k, w) =>
       \/ k = Len(s) + 1 /\ w = x
       \/ k <= Len(s) /\ k \in Nat /\ Frame(s, k, w) /\ t[k] = s[k]
  /\ \A w : Waits(t, w) <=> Waits(s, w) \/ w = x
  /\ t[Len(s) + 1].value = v /\ Frame(t, Len(s) + 1, x)

\* Append adds a frame, and nothing else.
LEMMA FrameAdded ==
  ASSUME NEW s \in Seq(Frames), NEW x \in UpNames, NEW v \in Nat, NEW t,
         x = "label_timer_count_down" => v \in Times,
         t = Append(s, [widget |-> x, value |-> v])
  PROVE  FrameAppended(s, t, x, v)
<1>1. /\ t \in Seq(Frames) /\ Len(s) \in Nat /\ Len(t) = Len(s) + 1
      /\ \A k \in 1 .. Len(s) : t[k] = s[k]
      /\ t[Len(s) + 1] = [widget |-> x, value |-> v]
  <2>1. PICK e : e = [widget |-> x, value |-> v]
    OBVIOUS
  <2>2. e \in Frames
    BY <2>1 DEF Frames
  <2> QED
    BY <2>1, <2>2, SeqAppend
<1>2. t[Len(s) + 1].value = v /\ t[Len(s) + 1].widget = x /\ Frame(t, Len(s) + 1, x)
  BY <1>1 DEF Frame
<1>3. \A k, w : Frame(s, k, w) => Frame(t, k, w) /\ t[k] = s[k] /\ k \in Nat
  BY <1>1 DEF Frame
<1>4. ASSUME NEW k, NEW w, Frame(t, k, w)
      PROVE  \/ k = Len(s) + 1 /\ w = x
             \/ k <= Len(s) /\ k \in Nat /\ Frame(s, k, w) /\ t[k] = s[k]
  BY <1>1, <1>2, <1>4 DEF Frame
<1>5. ASSUME NEW w PROVE Waits(t, w) <=> Waits(s, w) \/ w = x
  <2>1. Waits(t, w) => Waits(s, w) \/ w = x
    BY <1>4 DEF Waits, Frame
  <2>2. Waits(s, w) => Waits(t, w)
    BY <1>3 DEF Waits, Frame
  <2>3. Waits(t, x)
    BY <1>2 DEF Waits, Frame
  <2> QED
    BY <2>1, <2>2, <2>3
<1> QED
  BY <1>1, <1>2, <1>3, <1>4, <1>5 DEF FrameAppended

\* The first message is taken.
MessageDropped(s, t) ==
  /\ t \in Seq(Messages) /\ Len(t) = Len(s) - 1 /\ Len(s) \in Nat
  /\ \A k, w : Message(t, k, w) =>
       k \in Nat /\ k >= 1 /\ Message(s, k + 1, w) /\ t[k] = s[k + 1]
  /\ \A k, w : Message(s, k, w) =>
       \/ k = 1 /\ w = s[1].cmd
       \/ k \in Nat /\ k > 1 /\ Message(t, k - 1, w) /\ t[k - 1] = s[k]
  /\ \A w : Comes(s, w) <=> Comes(t, w) \/ w = s[1].cmd
  /\ s[1].value \in Nat /\ s[1].cmd \in DownNames /\ Message(s, 1, s[1].cmd)
  /\ s[1].cmd = "set_text" => s[1].value \in Times

\* So with messages.
LEMMA MessageTaken ==
  ASSUME NEW s \in Seq(Messages), s # <<>>, NEW t, t = Tail(s)
  PROVE  MessageDropped(s, t)
<1>1. /\ t \in Seq(Messages) /\ Len(t) = Len(s) - 1 /\ Len(s) \in Nat /\ Len(s) >= 1
      /\ \A k \in 1 .. Len(s) - 1 : t[k] = s[k + 1]
  BY SeqTail
<1>2. ASSUME NEW k, NEW w, Message(t, k, w)
      PROVE  k \in Nat /\ k >= 1 /\ Message(s, k + 1, w) /\ t[k] = s[k + 1]
  BY <1>1, <1>2 DEF Message
<1>3. ASSUME NEW k, NEW w, Message(s, k, w)
      PROVE  \/ k = 1 /\ w = s[1].cmd
             \/ k \in Nat /\ k > 1 /\ Message(t, k - 1, w) /\ t[k - 1] = s[k]
  <2>1. CASE k = 1
    BY <1>3, <2>1 DEF Message
  <2>2. CASE k # 1
    <3>1. k \in 1 .. Len(s) /\ k > 1 /\ k \in Nat /\ k - 1 \in 1 .. Len(s) - 1
      BY <1>1, <1>3, <2>2 DEF Message
    <3>2. t[k - 1] = s[(k - 1) + 1] /\ (k - 1) + 1 = k
      BY <1>1, <3>1
    <3> QED
      BY <1>1, <1>3, <3>1, <3>2 DEF Message
  <2> QED
    BY <2>1, <2>2
<1>4. s[1] \in Messages
  BY <1>1, ElementOfSeq
<1>5. /\ s[1].value \in Nat /\ s[1].cmd \in DownNames /\ Message(s, 1, s[1].cmd)
      /\ s[1].cmd = "set_text" => s[1].value \in Times
  BY <1>1, <1>4 DEF Messages, Message
<1>6. ASSUME NEW w PROVE Comes(s, w) <=> Comes(t, w) \/ w = s[1].cmd
  <2>1. Comes(s, w) => Comes(t, w) \/ w = s[1].cmd
    BY <1>3 DEF Comes, Message
  <2>2. Comes(t, w) => Comes(s, w)
    BY <1>2 DEF Comes, Message
  <2>3. w = s[1].cmd => Comes(s, w)
    BY <1>5 DEF Comes, Message
  <2> QED
    BY <2>1, <2>2, <2>3
<1> QED
  BY <1>1, <1>2, <1>3, <1>5, <1>6 DEF MessageDropped

\* One more message.
MessageAppended(s, t, x, v) ==
  /\ t \in Seq(Messages) /\ Len(t) = Len(s) + 1 /\ Len(s) \in Nat
  /\ \A k, w : Message(s, k, w) => Message(t, k, w) /\ t[k] = s[k] /\ k \in Nat
  /\ \A k, w : Message(t, k, w) =>
       \/ k = Len(s) + 1 /\ w = x
       \/ k <= Len(s) /\ k \in Nat /\ Message(s, k, w) /\ t[k] = s[k]
  /\ \A w : Comes(t, w) <=> Comes(s, w) \/ w = x
  /\ t[Len(s) + 1].value = v /\ Message(t, Len(s) + 1, x)

\* So with messages.
LEMMA MessageAdded ==
  ASSUME NEW s \in Seq(Messages), NEW x \in DownNames, NEW v \in Nat, NEW t,
         x = "set_text" => v \in Times,
         t = Append(s, [cmd |-> x, value |-> v])
  PROVE  MessageAppended(s, t, x, v)
<1>1. /\ t \in Seq(Messages) /\ Len(s) \in Nat /\ Len(t) = Len(s) + 1
      /\ \A k \in 1 .. Len(s) : t[k] = s[k]
      /\ t[Len(s) + 1] = [cmd |-> x, value |-> v]
  <2>1. PICK e : e = [cmd |-> x, value |-> v]
    OBVIOUS
  <2>2. e \in Messages
    BY <2>1 DEF Messages
  <2> QED
    BY <2>1, <2>2, SeqAppend
<1>2. t[Len(s) + 1].value = v /\ t[Len(s) + 1].cmd = x /\ Message(t, Len(s) + 1, x)
  BY <1>1 DEF Message
<1>3. \A k, w : Message(s, k, w) => Message(t, k, w) /\ t[k] = s[k] /\ k \in Nat
  BY <1>1 DEF Message
<1>4. ASSUME NEW k, NEW w, Message(t, k, w)
      PROVE  \/ k = Len(s) + 1 /\ w = x
             \/ k <= Len(s) /\ k \in Nat /\ Message(s, k, w) /\ t[k] = s[k]
  BY <1>1, <1>2, <1>4 DEF Message
<1>5. ASSUME NEW w PROVE Comes(t, w) <=> Comes(s, w) \/ w = x
  <2>1. Comes(t, w) => Comes(s, w) \/ w = x
    BY <1>4 DEF Comes, Message
  <2>2. Comes(s, w) => Comes(t, w)
    BY <1>3 DEF Comes, Message
  <2>3. Comes(t, x)
    BY <1>2 DEF Comes, Message
  <2> QED
    BY <2>1, <2>2, <2>3
<1> QED
  BY <1>1, <1>2, <1>3, <1>4, <1>5 DEF MessageAppended

\* The empty line.
LEMMA NoFrame == \A k, w : ~Frame(<<>>, k, w) /\ ~Waits(<<>>, w)
BY DEF Frame, Waits

\* The empty line.
LEMMA NoMessage == \A k, m : ~Message(<<>>, k, m) /\ ~Comes(<<>>, m)
BY DEF Message, Comes
-----------------------------------------------------------------------------
(* The labels under way.                                                   *)

\* Their number is a number.
LEMMA TextsFinite ==
  ASSUME NEW s \in Seq(Messages), NEW k
  PROVE  IsFiniteSet(Texts(s, k)) /\ After(s, k) \in Nat
<1>1. Len(s) \in Nat
  BY LenProperties
<1>2. IsFiniteSet(1 .. Len(s))
  BY <1>1, FS_Interval
<1>3. IsFiniteSet(Texts(s, k))
  BY <1>2, FS_Subset DEF Texts
<1> QED
  BY <1>3, FS_CardinalityType DEF After

\* There are as many behind the first message as behind the line's beginning, or
\* one less.
LEMMA AfterFirst ==
  ASSUME NEW s \in Seq(Messages), s # <<>>
  PROVE  /\ s[1].cmd # "set_text" => After(s, 1) = After(s, 0)
         /\ \A k \in Nat : After(s, k) <= After(s, 0)
<1>1. Len(s) \in Nat
  BY LenProperties
<1>2. s[1].cmd # "set_text" => Texts(s, 1) = Texts(s, 0)
  BY <1>1 DEF Texts
<1>3. ASSUME NEW k \in Nat PROVE After(s, k) <= After(s, 0)
  <2>1. Texts(s, k) \subseteq Texts(s, 0)
    BY <1>1 DEF Texts
  <2> QED
    BY <2>1, TextsFinite, FS_Subset DEF After
<1> QED
  BY <1>2, <1>3 DEF After

\* When a message is taken the others move by one place.
LEMMA AfterTaken ==
  ASSUME NEW s \in Seq(Messages), s # <<>>, NEW k \in Nat
  PROVE  After(Tail(s), k) = After(s, k + 1)
<1>1. PICK t : t = Tail(s)
  OBVIOUS
<1>2. /\ t \in Seq(Messages) /\ Len(t) = Len(s) - 1 /\ Len(s) \in Nat
      /\ \A n \in 1 .. Len(s) - 1 : t[n] = s[n + 1]
  BY <1>1, SeqTail
<1>3. PICK A : A = Texts(t, k)
  OBVIOUS
<1>4. PICK B : B = Texts(s, k + 1)
  OBVIOUS
<1>5. \A n \in A : n \in Nat /\ n + 1 \in B
  BY <1>2, <1>3, <1>4 DEF Texts
<1>6. \A n \in B : n \in Nat /\ n - 1 \in A /\ (n - 1) + 1 = n
  <2> SUFFICES ASSUME NEW n \in B PROVE n \in Nat /\ n - 1 \in A /\ (n - 1) + 1 = n
    OBVIOUS
  <2>1. n \in 1 .. Len(s) /\ n > k + 1 /\ s[n].cmd = "set_text" /\ n \in Nat
    BY <1>2, <1>4 DEF Texts
  <2>2. n - 1 \in 1 .. Len(s) - 1 /\ (n - 1) + 1 = n /\ n - 1 > k
    BY <1>2, <2>1
  <2>3. t[n - 1] = s[n]
    BY <1>2, <2>2
  <2> QED
    BY <1>2, <1>3, <2>1, <2>2, <2>3 DEF Texts
<1>7. PICK f : f = [n \in A |-> n + 1]
  OBVIOUS
<1>8. f \in Bijection(A, B)
  <2>1. f \in [A -> B] /\ \A n \in A : f[n] = n + 1
    BY <1>5, <1>7
  <2>2. \A m, n \in A : f[m] = f[n] => m = n
    BY <1>5, <2>1
  <2>3. \A n \in B : \E m \in A : f[m] = n
    BY <1>6, <2>1
  <2> QED
    BY <2>1, <2>2, <2>3 DEF Bijection, Injection, Surjection, IsInjective
<1>9. ExistsBijection(A, B)
  BY <1>8 DEF ExistsBijection
<1>10. IsFiniteSet(A)
  BY <1>2, <1>3, TextsFinite
<1> QED
  BY <1>1, <1>3, <1>4, <1>9, <1>10, FS_Bijection DEF After

\* A message more is one behind all others, if it is a set_text.
LEMMA AfterAdded ==
  ASSUME NEW s \in Seq(Messages), NEW m \in DownNames, NEW v \in Nat, NEW t,
         m = "set_text" => v \in Times,
         t = Append(s, [cmd |-> m, value |-> v])
  PROVE  /\ \A k \in 0 .. Len(s) :
               After(t, k) = After(s, k) + IF m = "set_text" THEN 1 ELSE 0
         /\ After(t, Len(s) + 1) = 0
<1>1. /\ t \in Seq(Messages) /\ Len(s) \in Nat /\ Len(t) = Len(s) + 1
      /\ \A k \in 1 .. Len(s) : t[k] = s[k]
      /\ t[Len(s) + 1].cmd = m
  <2>1. PICK e : e = [cmd |-> m, value |-> v]
    OBVIOUS
  <2>2. e \in Messages
    BY <2>1 DEF Messages
  <2> QED
    BY <2>1, <2>2, SeqAppend
<1>2. ASSUME NEW k \in 0 .. Len(s), m # "set_text" PROVE Texts(t, k) = Texts(s, k)
  BY <1>1, <1>2 DEF Texts
<1>3. ASSUME NEW k \in 0 .. Len(s), m = "set_text"
      PROVE  Texts(t, k) = Texts(s, k) \union {Len(s) + 1} /\ Len(s) + 1 \notin Texts(s, k)
  BY <1>1, <1>3 DEF Texts
<1>4. ASSUME NEW k \in 0 .. Len(s), m = "set_text" PROVE After(t, k) = After(s, k) + 1
  BY <1>3, <1>4, TextsFinite, FS_AddElement DEF After
<1>5. Texts(t, Len(s) + 1) = {}
  BY <1>1 DEF Texts
<1>6. After(t, Len(s) + 1) = 0
  BY <1>5, FS_EmptySet DEF After
<1>7. ASSUME NEW k \in 0 .. Len(s), m # "set_text" PROVE After(t, k) = After(s, k) + 0
  BY <1>2, <1>7, TextsFinite DEF After
<1> QED
  BY <1>4, <1>6, <1>7

\* No labels, none behind any place.
LEMMA NoTexts ==
  ASSUME NEW s \in Seq(Messages), ~Comes(s, "set_text"), NEW k
  PROVE  After(s, k) = 0
<1>1. Texts(s, k) = {}
  BY DEF Texts, Comes, Message
<1> QED
  BY <1>1, FS_EmptySet DEF After
-----------------------------------------------------------------------------
(* Times.                                                                  *)

\* What DialogueConstantsOK says, in the forms used below.
LEMMA ConstantFacts ==
  /\ Word \in Nat /\ HalfWord \in Nat /\ HalfWord >= 2 /\ HalfWord <= Word
  /\ Minute \in Nat /\ Minute > 0 /\ Byte \in Nat /\ Byte > 0
  /\ Minute * Byte \in Nat
  /\ NModes \in Nat /\ 1 \in 1 .. NModes /\ QueueLength \in Nat
  /\ \A m \in 1 .. NModes :
       OpenTime[m] \in 1 .. HalfWord - 1 /\ OpenTime[m] < Minute * Byte
<1>1. /\ Word \in Nat /\ HalfWord \in Nat /\ HalfWord <= Word
      /\ Minute \in Nat /\ Minute > 0 /\ Byte \in Nat /\ Byte > 0
      /\ NModes \in Nat /\ 1 \in 1 .. NModes /\ QueueLength \in Nat
  BY DialogueConstantsOK
<1>2. \A m \in 1 .. NModes : OpenTime[m] \in 1 .. HalfWord - 1
  BY DialogueConstantsOK
<1>3. \A m \in 1 .. NModes : OpenTime[m] < Minute * Byte
  BY DialogueConstantsOK
<1>4. HalfWord >= 2
  BY <1>1, <1>2
<1>5. Minute * Byte \in Nat
  BY <1>1
<1> QED
  BY <1>1, <1>2, <1>3, <1>4, <1>5

\* Quotient and remainder.
LEMMA DivFacts ==
  ASSUME NEW s \in Nat, NEW m \in Nat, m > 0
  PROVE  \E q, r \in Nat : /\ q = s \div m /\ r = s % m /\ r < m
                          /\ s = (q * m) + r /\ r <= s
                          /\ s < m => r = s
<1>1. s \div m \in Int
  OBVIOUS
<1>2. s % m \in 0 .. m - 1
  OBVIOUS
<1>3. s % m = s - m * (s \div m)
  OBVIOUS
<1>4. s < m => s % m = s
  OBVIOUS
<1>5. s % m <= s
  BY <1>2, <1>4
<1>6. PICK q \in Int, r \in Nat : q = s \div m /\ r = s % m /\ r < m
  BY <1>1, <1>2
<1>7. s = (q * m) + r
  <2>1. r = s - m * q
    BY <1>3, <1>6
  <2>2. PICK p \in Int : p = m * q
    BY <1>6
  <2> QED
    BY <2>1, <2>2, <1>6
<1>8. q >= 0
  <2>1. ASSUME q <= -1 PROVE q * m <= -m
    BY <2>1, <1>6
  <2> QED
    BY <2>1, <1>6, <1>7
<1> QED
  BY <1>4, <1>5, <1>6, <1>7, <1>8

\* A label is read back as itself if the minutes fit their byte, and never as more.
LEMMA AsReadFacts ==
  ASSUME NEW s \in Nat
  PROVE  AsRead(s) \in Nat /\ AsRead(s) <= s /\ (s < Minute * Byte => AsRead(s) = s)
<1>1. PICK q \in Nat, r \in Nat :
        q = s \div Minute /\ r = s % Minute /\ s = q * Minute + r /\ r < Minute
  BY DivFacts, ConstantFacts
<1>2. PICK p \in Nat : p = q % Byte /\ p <= q /\ (q < Byte => p = q)
  BY DivFacts, ConstantFacts
<1>3. AsRead(s) = (p * Minute) + r
  BY <1>1, <1>2 DEF AsRead
<1>4. p * Minute <= q * Minute /\ p * Minute \in Nat /\ q * Minute \in Nat
  BY <1>2, ConstantFacts
<1>5. ASSUME s < Minute * Byte PROVE q < Byte
  <2>1. q * Minute < Minute * Byte
    BY <1>1, <1>4, <1>5, ConstantFacts
  <2>2. q >= Byte => q * Minute >= Minute * Byte
    BY ConstantFacts
  <2> QED
    BY <2>1, <2>2, <1>4, ConstantFacts
<1> QED
  BY <1>1, <1>2, <1>3, <1>4, <1>5

\* A nominal time is one of the table's.
LEMMA NominalFacts ==
  \A m : /\ Firmware!Nominal(m) \in 0 .. HalfWord - 1
         /\ Firmware!Nominal(m) < Minute * Byte
BY ConstantFacts DEF Firmware!Nominal, Firmware!Modes

\* The difference of two words is a word, and the true one if it is not negative.
LEMMA SubFacts ==
  ASSUME NEW x \in 0 .. Word - 1, NEW y \in 0 .. Word - 1
  PROVE  Firmware!Sub(x, y) \in 0 .. Word - 1 /\ (x >= y => Firmware!Sub(x, y) = x - y)
BY ConstantFacts DEF Firmware!Sub
-----------------------------------------------------------------------------
(* One step's effect on the line.                                          *)

\* A handler takes the first frame.
LEMMA Taken ==
  ASSUME TypeOK, up # <<>>, up' = Tail(up)
  PROVE  FrameDropped(up, up')
<1>1. up \in Seq(Frames)
  BY DEF TypeOK, LineOK
<1> QED
  BY <1>1, FrameTaken

\* The display sends a frame, which is lost without the driver.
LEMMA Pressed ==
  ASSUME TypeOK, NEW x \in UpNames, NEW v \in Nat,
         x = "label_timer_count_down" => v \in Times, up' = press(x, v)
  PROVE  /\ ~uart => up' = up
         /\ uart => FrameAppended(up, up', x, v)
         /\ up' \in Seq(Frames)
<1>1. up \in Seq(Frames) /\ uart \in BOOLEAN
  BY DEF TypeOK, LineOK, SystemOK
<1>2. CASE uart
  <2>1. up' = Append(up, [widget |-> x, value |-> v])
    BY <1>2 DEF press
  <2>2. FrameAppended(up, up', x, v)
    BY <1>1, <2>1, FrameAdded
  <2> QED
    BY <1>2, <2>2 DEF FrameAppended
<1>3. CASE ~uart
  BY <1>1, <1>3 DEF press
<1> QED
  BY <1>2, <1>3

\* The display takes the first message.
LEMMA Shown ==
  ASSUME TypeOK, down # <<>>, down' = Tail(down)
  PROVE  MessageDropped(down, down')
<1>1. down \in Seq(Messages)
  BY DEF TypeOK, LineOK
<1> QED
  BY <1>1, MessageTaken

\* The firmware sends a message, which is lost without the driver.
LEMMA Sent ==
  ASSUME TypeOK, NEW x \in DownNames, NEW v \in Nat, x = "set_text" => v \in Times,
         down' = send(down, x, v)
  PROVE  /\ ~uart => down' = down
         /\ uart => MessageAppended(down, down', x, v)
         /\ down' \in Seq(Messages)
<1>1. down \in Seq(Messages) /\ uart \in BOOLEAN
  BY DEF TypeOK, LineOK, SystemOK
<1>2. CASE uart
  <2>1. down' = Append(down, [cmd |-> x, value |-> v])
    BY <1>2 DEF send
  <2>2. MessageAppended(down, down', x, v)
    BY <1>1, <2>1, MessageAdded
  <2> QED
    BY <1>2, <2>2 DEF MessageAppended
<1>3. CASE ~uart
  BY <1>1, <1>3 DEF send
<1> QED
  BY <1>2, <1>3

\* A tick sends the label, and before it back_win if it ends the run.
LEMMA TickSent ==
  ASSUME TypeOK, Tick
  PROVE  /\ ~uart => down' = down
         /\ uart => \A m : Comes(down', m) <=>
              Comes(down, m) \/ m = "set_text" \/ (m = "back_win" /\ Expires)
         /\ uart => \E d : /\ MessageAppended(d, down', "set_text", record')
                          /\ \/ ~Expires /\ d = down
                             \/ Expires /\ MessageAppended(down, d, "back_win", 0)
         /\ down' \in Seq(Messages)
         /\ record' \in 0 .. Word - 1
         /\ ~Expires => down' = send(down, "set_text", record')
<1>1. record' \in 0 .. Word - 1 /\ record' \in Times /\ record' \in Nat
  BY SubFacts, ConstantFacts DEF TypeOK, RunOK, Tick, Firmware!Tick, Times
<1>2. PICK r : r = record'
  OBVIOUS
<1>3. down \in Seq(Messages) /\ uart \in BOOLEAN
  BY DEF TypeOK, LineOK, SystemOK
<1>4. CASE ~uart
  BY <1>1, <1>3, <1>4 DEF Tick, send
<1>5. CASE uart /\ ~Expires
  <2>1. down' = send(down, "set_text", r)
    BY <1>2, <1>5 DEF Tick
  <2>2. "set_text" \in DownNames
    BY DEF DownNames
  <2>3. MessageAppended(down, down', "set_text", r)
    BY <1>1, <1>2, <1>5, <2>1, <2>2, Sent
  <2>4. /\ down' \in Seq(Messages)
        /\ \A m : Comes(down', m) <=> Comes(down, m) \/ m = "set_text"
    BY ONLY <2>3 DEF MessageAppended
  <2> QED
    BY <1>1, <1>2, <1>5, <2>1, <2>3, <2>4
<1>6. CASE uart /\ Expires
  <2>1. PICK d : d = Append(down, [cmd |-> "back_win", value |-> 0])
    OBVIOUS
  <2>2. down' = Append(d, [cmd |-> "set_text", value |-> r])
    BY <1>2, <1>6, <2>1 DEF Tick, send
  <2>3. "set_text" \in DownNames /\ "back_win" \in DownNames
    BY DEF DownNames
  <2>4. MessageAppended(down, d, "back_win", 0)
    BY <1>3, <2>1, <2>3, MessageAdded
  <2>5. d \in Seq(Messages) /\ \A m : Comes(d, m) <=> Comes(down, m) \/ m = "back_win"
    BY ONLY <2>4 DEF MessageAppended
  <2>6. MessageAppended(d, down', "set_text", r)
    BY <1>1, <1>2, <2>2, <2>3, <2>5, MessageAdded
  <2>7. down' \in Seq(Messages) /\ \A m : Comes(down', m) <=> Comes(d, m) \/ m = "set_text"
    BY ONLY <2>6 DEF MessageAppended
  <2> QED
    BY <1>1, <1>2, <1>6, <2>4, <2>5, <2>6, <2>7
<1> QED
  BY <1>4, <1>5, <1>6

\* What is waiting, in the terms of the specification.
LEMMA LineFacts ==
  ASSUME TypeOK
  PROVE  /\ \A w : InUp(w) <=> Waits(up, w)
         /\ \A m : InDown(m) <=> Comes(down, m)
BY LenProperties DEF TypeOK, LineOK, InUp, InDown, Waits, Comes, Frame, Message

\* The labels on the line, in the terms of the specification.
LEMMA BehindIsAfter == ASSUME TypeOK PROVE Behind = After(down, 0)
<1>1. down \in Seq(Messages) /\ DOMAIN down = 1 .. Len(down) /\ Len(down) \in Nat
  BY LenProperties DEF TypeOK, LineOK
<1>2. {k \in DOMAIN down : down[k].cmd = "set_text"} = Texts(down, 0)
  BY <1>1 DEF Texts
<1> QED
  BY <1>2 DEF Behind, After
-----------------------------------------------------------------------------
(* Types.                                                                  *)

LEMMA TypeInit == Init => TypeOK
<1> SUFFICES ASSUME Init PROVE TypeOK
  OBVIOUS
<1>1. RunOK
  BY ConstantFacts DEF Init, Firmware!Init, Firmware!Loaded, RunOK
<1>2. SystemOK
  <2>1. ModeValues \subseteq Nat
    BY DialogueConstantsOK
  <2>2. FREQ1_label \in Nat
    BY <2>1 DEF Init
  <2>3. countdown \in Times
    BY ConstantFacts DEF Init, NoText, Times
  <2> QED
    BY <2>2, <2>3 DEF Init, SystemOK
<1>3. LineOK
  BY EmptySeq DEF Init, LineOK
<1>4. ObserversOK
  BY DEF Init, ObserversOK, NoRun
<1> QED
  BY <1>1, <1>2, <1>3, <1>4 DEF TypeOK

\* RelayRun's handlers keep the types of the run.
LEMMA RunTypes ==
  ASSUME TypeOK,
         \/ Firmware!P01 \/ Firmware!P02 \/ Firmware!TimerSetup
         \/ Firmware!timer_on_alarm_cb \/ Firmware!Tick \/ Firmware!Reboot
         \/ \E v \in Nat : Firmware!FREQ1(v) \/ Firmware!FREQ2(v)
         \/ \E s \in 0 .. Word - 1 : Firmware!label_timer_count_down(s)
  PROVE  RunOK'
<1> USE ConstantFacts, NominalFacts DEF TypeOK, RunOK, Firmware!counters
<1>1. ASSUME Firmware!P01 PROVE RunOK'
  BY <1>1 DEF Firmware!P01, Firmware!Started
<1>2. ASSUME Firmware!P02 PROVE RunOK'
  BY <1>2 DEF Firmware!P02, Firmware!Stopped
<1>3. ASSUME Firmware!TimerSetup PROVE RunOK'
  BY <1>3 DEF Firmware!TimerSetup
<1>4. ASSUME Firmware!timer_on_alarm_cb PROVE RunOK'
  BY <1>4 DEF Firmware!timer_on_alarm_cb
<1>5. ASSUME Firmware!Tick PROVE RunOK'
  <2>1. record' \in 0 .. Word - 1
    BY <1>5, SubFacts DEF Firmware!Tick
  <2>2. run_time' \in 0 .. Word - 1
    BY <1>5 DEF Firmware!Tick
  <2> QED
    BY <1>5, <2>1, <2>2 DEF Firmware!Tick, Firmware!Stopped
<1>6. ASSUME Firmware!Reboot PROVE RunOK'
  BY <1>6 DEF Firmware!Reboot, Firmware!Loaded
<1>7. ASSUME NEW v \in Nat, Firmware!FREQ1(v) PROVE RunOK'
  BY <1>7 DEF Firmware!FREQ1
<1>8. ASSUME NEW v \in Nat, Firmware!FREQ2(v) PROVE RunOK'
  <2>1. Firmware!Nominal(v) \in 0 .. Word - 1
    OBVIOUS
  <2>2. Firmware!Sub(Firmware!Nominal(v), record) \in 0 .. Word - 1
    BY <2>1, SubFacts
  <2>3. run_time' \in 0 .. Word - 1
    BY <1>8, <2>2 DEF Firmware!FREQ2
  <2> QED
    BY <1>8, <2>3 DEF Firmware!FREQ2, Firmware!Started
<1>9. ASSUME NEW s \in 0 .. Word - 1, Firmware!label_timer_count_down(s) PROVE RunOK'
  BY <1>9 DEF Firmware!label_timer_count_down
<1> QED
  BY <1>1, <1>2, <1>3, <1>4, <1>5, <1>6, <1>7, <1>8, <1>9

LEMMA TypeStep == TypeOK /\ [Next]_vars => TypeOK'
<1> SUFFICES ASSUME TypeOK, [Next]_vars PROVE TypeOK'
  OBVIOUS
<1> USE DEF system, display, observed, firmware
<1>1. RunOK'
  <2> USE DEF TypeOK, RunOK
  <2>1. ASSUME FREQ1 \/ FREQ2 PROVE RunOK'
    <3>1. Value \in Nat
      BY <2>1, Taken DEF FREQ1, FREQ2, Receive, Value, FrameDropped
    <3> QED
      BY <2>1, <3>1, RunTypes DEF FREQ1, FREQ2
  <2>2. ASSUME label_timer_count_down PROVE RunOK'
    <3>1. CASE Value = NoText
      BY <2>2, <3>1 DEF label_timer_count_down
    <3>2. CASE Value # NoText
      <4>1. Value \in 0 .. Word - 1
        BY <2>2, <3>2, Taken, ConstantFacts
           DEF label_timer_count_down, Receive, Value, FrameDropped, NoText, Times
      <4>2. AsRead(Value) \in 0 .. Word - 1
        BY <4>1, AsReadFacts, ConstantFacts
      <4> QED
        BY <2>2, <3>2, <4>2, RunTypes DEF label_timer_count_down
    <3> QED
      BY <3>1, <3>2
  <2>3. ASSUME P01 \/ P02 \/ TimerSetup \/ timer_on_alarm_cb \/ Tick \/ Reboot
        PROVE  RunOK'
    BY <2>3, RunTypes DEF P01, P02, TimerSetup, timer_on_alarm_cb, Tick, Reboot
  <2>4. ASSUME UNCHANGED firmware PROVE RunOK'
    BY <2>4
  <2>5. ASSUME uart_driver_install \/ get_date \/ get_displayed_window
               \/ digit_clock1 \/ W01 \/ W02
        PROVE  RunOK'
    BY <2>5, <2>4 DEF uart_driver_install, get_date, get_displayed_window,
       digit_clock1, W01, W02
  <2>6. ASSUME Display \/ User PROVE RunOK'
    BY <2>6, <2>4 DEF Display, Answer, answer, set_date, set_FREQ2, set_text, back_win,
       User, PressStart, PressStop, SelectMode
  <2>7. ASSUME UNCHANGED vars PROVE RunOK'
    BY <2>7 DEF vars
  <2> QED
    BY <2>1, <2>2, <2>3, <2>5, <2>6, <2>7 DEF Next, StartUp, stone_cmd
<1>2. SystemOK'
  <2> USE DEF TypeOK, SystemOK
  <2>1. ASSUME uart_driver_install \/ TimerSetup \/ get_date \/ get_displayed_window
        PROVE  SystemOK'
    BY <2>1 DEF uart_driver_install, TimerSetup, get_date, get_displayed_window
  <2>2. ASSUME stone_cmd PROVE SystemOK'
    BY <2>2 DEF stone_cmd, FREQ1, P01, P02, digit_clock1, W01, W02,
       label_timer_count_down, FREQ2
  <2>3. ASSUME timer_on_alarm_cb \/ Tick \/ Reboot PROVE SystemOK'
    BY <2>3 DEF timer_on_alarm_cb, Tick, Reboot
  <2>4. ASSUME Answer \/ set_date \/ back_win PROVE SystemOK'
    BY <2>4 DEF Answer, answer, set_date, back_win
  <2>5. ASSUME set_FREQ2 \/ set_text PROVE SystemOK'
    <3>1. MessageDropped(down, down')
      BY <2>5, Shown DEF set_FREQ2, set_text, Show
    <3>2. down[1].value \in Nat /\ (down[1].cmd = "set_text" => down[1].value \in Times)
      BY <3>1 DEF MessageDropped
    <3> QED
      BY <2>5, <3>2 DEF set_FREQ2, set_text, Show
  <2>6. ASSUME User PROVE SystemOK'
    <3>1. ModeValues \subseteq Nat
      BY DialogueConstantsOK
    <3> QED
      BY <2>6, <3>1 DEF User, PressStart, PressStop, SelectMode
  <2>7. ASSUME UNCHANGED vars PROVE SystemOK'
    BY <2>7 DEF vars
  <2> QED
    BY <2>1, <2>2, <2>3, <2>4, <2>5, <2>6, <2>7 DEF Next, StartUp, Display
<1>3. LineOK'
  <2> USE DEF LineOK, UpNames, DownNames
  <2>0. up \in Seq(Frames) /\ down \in Seq(Messages) /\ mode \in Nat
    BY DEF TypeOK, RunOK
  <2>1. ASSUME up # <<>>, up' = Tail(up) PROVE up' \in Seq(Frames)
    BY <2>1, Taken DEF FrameDropped
  <2>2. ASSUME down # <<>>, down' = Tail(down) PROVE down' \in Seq(Messages)
    BY <2>2, Shown DEF MessageDropped
  <2>3. ASSUME NEW m \in DownNames, m # "set_text", NEW v \in Nat, down' = send(down, m, v)
        PROVE  down' \in Seq(Messages)
    BY <2>3, Sent
  <2>4. ASSUME NEW w \in UpNames, w # "label_timer_count_down", NEW v \in Nat,
               up' = press(w, v)
        PROVE  up' \in Seq(Frames)
    BY <2>4, Pressed
  <2>5. ASSUME up' = press("label_timer_count_down", countdown) PROVE up' \in Seq(Frames)
    <3>1. countdown \in Times /\ countdown \in Nat
      BY ConstantFacts DEF TypeOK, SystemOK, Times
    <3> QED
      BY <2>5, <3>1, Pressed
  <2>6. ASSUME uart_driver_install \/ TimerSetup \/ get_date \/ get_displayed_window
        PROVE  LineOK'
    BY <2>0, <2>3, <2>6 DEF uart_driver_install, TimerSetup, get_date, get_displayed_window
  <2>7. ASSUME FREQ1 \/ P01 \/ P02 \/ digit_clock1 PROVE LineOK'
    BY <2>0, <2>1, <2>3, <2>7 DEF FREQ1, P01, P02, digit_clock1, Receive
  <2>8. ASSUME W01 \/ W02 \/ label_timer_count_down \/ FREQ2 PROVE LineOK'
    BY <2>0, <2>1, <2>3, <2>8 DEF W01, W02, label_timer_count_down, FREQ2, Receive
  <2>9. ASSUME timer_on_alarm_cb PROVE LineOK'
    BY <2>0, <2>9 DEF timer_on_alarm_cb
  <2>10. ASSUME Tick PROVE LineOK'
    BY <2>0, <2>10, TickSent DEF Tick
  <2>11. ASSUME set_date \/ set_FREQ2 \/ set_text \/ back_win PROVE LineOK'
    BY <2>0, <2>2, <2>11 DEF set_date, set_FREQ2, set_text, back_win, Show
  <2>12. ASSUME Answer PROVE LineOK'
    BY <2>0, <2>2, <2>4, <2>5, <2>12 DEF Answer, answer, Show, TypeOK, SystemOK
  <2>13. ASSUME User PROVE LineOK'
    <3>1. ModeValues \subseteq Nat
      BY DialogueConstantsOK
    <3> QED
      BY <2>0, <2>4, <2>13, <3>1 DEF User, PressStart, PressStop, SelectMode, TypeOK, SystemOK
  <2>14. ASSUME Reboot PROVE LineOK'
    BY <2>14, EmptySeq DEF Reboot
  <2>15. ASSUME UNCHANGED vars PROVE LineOK'
    BY <2>0, <2>15 DEF vars
  <2> QED
    BY <2>6, <2>7, <2>8, <2>9, <2>10, <2>11, <2>12, <2>13, <2>14, <2>15
       DEF Next, StartUp, stone_cmd, Display
<1>4. ObserversOK'
  <2> USE DEF TypeOK, ObserversOK
  <2>0. NoRun \in [record : Nat, nominal : Nat, behind : Nat]
    BY DEF NoRun
  <2>1. ASSUME P01 PROVE ObserversOK'
    <3>1. Value \in Nat
      BY <2>1, Taken DEF P01, Receive, Value, FrameDropped
    <3> QED
      BY <2>1, <3>1 DEF P01, NoRun
  <2>2. ASSUME FREQ1 \/ P02 \/ digit_clock1 \/ W01 \/ W02 PROVE ObserversOK'
    <3>1. CASE FREQ1
      BY <3>1 DEF FREQ1
    <3>2. CASE P02
      BY <2>0, <3>2 DEF P02
    <3>3. CASE digit_clock1
      BY <3>3 DEF digit_clock1
    <3>4. CASE W01
      BY <3>4 DEF W01
    <3>5. CASE W02
      BY <3>5 DEF W02
    <3> QED
      BY <2>2, <3>1, <3>2, <3>3, <3>4, <3>5
  <2>3. ASSUME label_timer_count_down \/ FREQ2 PROVE ObserversOK'
    <3>1. CASE label_timer_count_down /\ Value = NoText
      BY <3>1 DEF label_timer_count_down
    <3>2. CASE label_timer_count_down /\ Value # NoText
      BY <3>2 DEF label_timer_count_down
    <3>3. CASE FREQ2
      BY <2>0, <3>3 DEF FREQ2
    <3> QED
      BY <2>3, <3>1, <3>2, <3>3
  <2>4. ASSUME uart_driver_install \/ TimerSetup \/ get_date \/ timer_on_alarm_cb
        PROVE  ObserversOK'
    BY <2>4 DEF uart_driver_install, TimerSetup, get_date, timer_on_alarm_cb
  <2>5. ASSUME get_displayed_window PROVE ObserversOK'
    BY <2>5 DEF get_displayed_window
  <2>6. ASSUME Tick PROVE ObserversOK'
    BY <2>6 DEF Tick
  <2>7. ASSUME Display \/ User PROVE ObserversOK'
    BY <2>7 DEF Display, Answer, answer, set_date, set_FREQ2, set_text, back_win,
       User, PressStart, PressStop, SelectMode, Talking, StillCrossed, InDown, InUp
  <2>8. ASSUME Reboot PROVE ObserversOK'
    <3>1. Behind \in Nat
      <4>1. down \in Seq(Messages) /\ DOMAIN down = 1 .. Len(down) /\ Len(down) \in Nat
        BY LenProperties DEF LineOK
      <4>2. Behind = After(down, 0)
        BY BehindIsAfter
      <4> QED
        BY <4>1, <4>2, TextsFinite
    <3>2. record \in Nat /\ mode_to_time \in Nat
      BY ConstantFacts DEF RunOK
    <3> QED
      BY <2>8, <3>1, <3>2 DEF Reboot, NoRun
  <2>9. ASSUME UNCHANGED vars PROVE ObserversOK'
    BY <2>9 DEF vars
  <2> QED
    BY <2>1, <2>2, <2>3, <2>4, <2>5, <2>6, <2>7, <2>8, <2>9 DEF Next, StartUp, stone_cmd
<1> QED
  BY <1>1, <1>2, <1>3, <1>4 DEF TypeOK
-----------------------------------------------------------------------------
(* LoggedUnderItsMode.                                                     *)

\* Nothing is sent or received without the driver.
LEMMA SilentInit == Init => SilentInv
BY DEF Init, Firmware!Init, Firmware!Loaded, SilentInv

LEMMA SilentStep == TypeOK /\ SilentInv /\ [Next]_vars => SilentInv'
<1> SUFFICES ASSUME TypeOK, SilentInv,  [Next]_vars, ~uart' PROVE SilentInv'
  BY DEF SilentInv
<1> USE DEF SilentInv, firmware, system, display, observed
<1>1. CASE Reboot
  BY <1>1 DEF Reboot, Firmware!Reboot, Firmware!Loaded
<1>2. CASE ~Reboot
  <2>1. ~uart
    BY <1>2 DEF Next, StartUp, uart_driver_install, TimerSetup, get_date,
       get_displayed_window, stone_cmd, FREQ1, P01, P02, digit_clock1, W01, W02,
       label_timer_count_down, FREQ2, timer_on_alarm_cb, Tick, Display, Answer, answer,
       set_date, set_FREQ2, set_text, back_win, User, PressStart, PressStop, SelectMode,
       vars
  <2>2. up = <<>> /\ down = <<>>
    BY <2>1
  <2>3. ~stone_cmd /\ ~Display /\ ~Tick /\ ~timer_on_alarm_cb /\ ~uart_driver_install
    BY <2>1, <2>2 DEF stone_cmd, FREQ1, P01, P02, digit_clock1, W01, W02,
       label_timer_count_down, FREQ2, Receive, Display, Answer, answer, set_date, set_FREQ2,
       set_text, back_win, Show, Tick, Firmware!Tick, timer_on_alarm_cb,
       Firmware!timer_on_alarm_cb, uart_driver_install
  <2>4. CASE TimerSetup
    BY <2>1, <2>4 DEF TimerSetup, Firmware!TimerSetup
  <2>5. CASE get_date \/ get_displayed_window
    BY <2>1, <2>5 DEF get_date, get_displayed_window, send
  <2>6. CASE User
    BY <2>1, <2>6 DEF User, PressStart, PressStop, SelectMode, press
  <2>7. CASE UNCHANGED vars
    BY <2>1, <2>7 DEF vars
  <2> QED
    BY <1>2, <2>3, <2>4, <2>5, <2>6, <2>7 DEF Next, StartUp
<1> QED
  BY <1>1, <1>2

\* Places of frames.
LEMMA Places ==
  ASSUME NEW s \in Seq(Frames), NEW k, NEW w, Frame(s, k, w)
  PROVE  k \in Nat /\ 1 <= k /\ k <= Len(s) /\ Len(s) \in Nat
BY LenProperties DEF Frame

\* One frame fewer, that is not a FREQ1.
LEMMA ToldDropped ==
  ASSUME NEW s \in Seq(Frames), s # <<>>, NEW t, t = Tail(s), NEW m, NEW told,
         s[1].widget # "FREQ1", NEW k \in Nat, NEW v, Told(s, m, told, k + 1, v)
  PROVE  Told(t, m, told, k, v)
<1>1. FrameDropped(s, t)
  BY FrameTaken
<1>2. ASSUME NEW n, Frame(t, n, "FREQ1"), n < k,
             \A j : Frame(t, j, "FREQ1") /\ n < j => k <= j
      PROVE  t[n].value = v
  <2>1. n \in Nat /\ n >= 1 /\ Frame(s, n + 1, "FREQ1") /\ t[n] = s[n + 1]
    BY <1>1, <1>2 DEF FrameDropped
  <2>2. ASSUME NEW j, Frame(s, j, "FREQ1"), n + 1 < j PROVE k + 1 <= j
    <3>1. j \in Nat /\ j > 1 /\ Frame(t, j - 1, "FREQ1")
      BY <1>1, <2>2 DEF FrameDropped
    <3>2. n < j - 1
      BY <2>1, <2>2, <3>1
    <3>3. k <= j - 1
      BY <1>2, <3>1, <3>2
    <3> QED
      BY <3>1, <3>3
  <2>3. n + 1 < k + 1
    BY <1>2, <2>1
  <2> QED
    BY <2>1, <2>2, <2>3 DEF Told
<1>3. ASSUME told, \A j : Frame(t, j, "FREQ1") => k <= j PROVE m = v
  <2>1. ASSUME NEW j, Frame(s, j, "FREQ1") PROVE k + 1 <= j
    <3>1. j \in Nat /\ j > 1 /\ Frame(t, j - 1, "FREQ1")
      BY <1>1, <2>1 DEF FrameDropped
    <3>2. k <= j - 1
      BY <1>3, <3>1
    <3> QED
      BY <3>1, <3>2
  <2> QED
    BY <1>3, <2>1 DEF Told
<1> QED
  BY <1>2, <1>3 DEF Told

\* A FREQ1 fewer, which has told its mode.
LEMMA ToldHandled ==
  ASSUME NEW s \in Seq(Frames), s # <<>>, NEW t, t = Tail(s), NEW m, NEW told,
         s[1].widget = "FREQ1", NEW k \in Nat, k >= 1, NEW v, Told(s, m, told, k + 1, v)
  PROVE  Told(t, s[1].value, TRUE, k, v)
<1>1. FrameDropped(s, t)
  BY FrameTaken
<1>2. ASSUME NEW n, Frame(t, n, "FREQ1"), n < k,
             \A j : Frame(t, j, "FREQ1") /\ n < j => k <= j
      PROVE  t[n].value = v
  <2>1. n \in Nat /\ n >= 1 /\ Frame(s, n + 1, "FREQ1") /\ t[n] = s[n + 1]
    BY <1>1, <1>2 DEF FrameDropped
  <2>2. ASSUME NEW j, Frame(s, j, "FREQ1"), n + 1 < j PROVE k + 1 <= j
    <3>1. j \in Nat /\ j > 1 /\ Frame(t, j - 1, "FREQ1")
      BY <1>1, <2>1, <2>2 DEF FrameDropped
    <3>2. n < j - 1
      BY <2>1, <2>2, <3>1
    <3>3. k <= j - 1
      BY <1>2, <3>1, <3>2
    <3> QED
      BY <3>1, <3>3
  <2>3. n + 1 < k + 1
    BY <1>2, <2>1
  <2> QED
    BY <2>1, <2>2, <2>3 DEF Told
<1>3. ASSUME \A j : Frame(t, j, "FREQ1") => k <= j PROVE s[1].value = v
  <2>1. Frame(s, 1, "FREQ1") /\ 1 < k + 1
    BY <1>1 DEF FrameDropped
  <2>2. ASSUME NEW j, Frame(s, j, "FREQ1"), 1 < j PROVE k + 1 <= j
    <3>1. j \in Nat /\ j > 1 /\ Frame(t, j - 1, "FREQ1")
      BY <1>1, <2>2 DEF FrameDropped
    <3>2. k <= j - 1
      BY <1>3, <3>1
    <3> QED
      BY <3>1, <3>2
  <2> QED
    BY <2>1, <2>2 DEF Told
<1> QED
  BY <1>2, <1>3 DEF Told

\* One frame more.
LEMMA ToldAppended ==
  ASSUME NEW s \in Seq(Frames), NEW t, NEW x, NEW y, FrameAppended(s, t, x, y),
         NEW m, NEW told
  PROVE  /\ \A k \in 1 .. Len(s) + 1 : \A v : Told(s, m, told, k, v) => Told(t, m, told, k, v)
         /\ \A v : x # "FREQ1" /\ Told(s, m, told, Len(s) + 1, v) =>
                     Told(t, m, told, Len(t) + 1, v)
         /\ x = "FREQ1" => Told(t, m, told, Len(t) + 1, y)
<1>0. Len(s) \in Nat /\ Len(t) = Len(s) + 1
  BY DEF FrameAppended
<1>1. ASSUME NEW k \in 1 .. Len(s) + 1, NEW v, Told(s, m, told, k, v)
      PROVE  Told(t, m, told, k, v)
  <2>1. ASSUME NEW n, Frame(t, n, "FREQ1"), n < k,
               \A j : Frame(t, j, "FREQ1") /\ n < j => k <= j
        PROVE  t[n].value = v
    <3>1. Frame(s, n, "FREQ1") /\ t[n] = s[n]
      BY <1>0, <2>1 DEF FrameAppended
    <3>2. \A j : Frame(s, j, "FREQ1") => Frame(t, j, "FREQ1")
      BY DEF FrameAppended
    <3> QED
      BY <1>1, <2>1, <3>1, <3>2 DEF Told
  <2>2. ASSUME told, \A j : Frame(t, j, "FREQ1") => k <= j PROVE m = v
    BY <1>1, <2>2 DEF Told, FrameAppended
  <2> QED
    BY <2>1, <2>2 DEF Told
<1>2. ASSUME NEW v, x # "FREQ1", Told(s, m, told, Len(s) + 1, v)
      PROVE  Told(t, m, told, Len(t) + 1, v)
  <2>1. \A j : Frame(t, j, "FREQ1") <=> Frame(s, j, "FREQ1")
    BY <1>2 DEF FrameAppended
  <2>2. \A j : Frame(s, j, "FREQ1") => j \in Nat /\ j <= Len(s) /\ t[j] = s[j]
    BY Places DEF FrameAppended
  <2>3. ASSUME NEW n, Frame(t, n, "FREQ1"), n < Len(t) + 1,
               \A j : Frame(t, j, "FREQ1") /\ n < j => Len(t) + 1 <= j
        PROVE  t[n].value = v
    <3>1. Frame(s, n, "FREQ1") /\ t[n] = s[n] /\ n < Len(s) + 1
      BY <1>0, <2>1, <2>2, <2>3
    <3>2. \A j : Frame(s, j, "FREQ1") /\ n < j => Len(s) + 1 <= j
      BY <1>0, <2>1, <2>2, <2>3
    <3> QED
      BY <1>2, <3>1, <3>2 DEF Told
  <2>4. ASSUME told, \A j : Frame(t, j, "FREQ1") => Len(t) + 1 <= j PROVE m = v
    <3>1. \A j : Frame(s, j, "FREQ1") => Len(s) + 1 <= j
      BY <1>0, <2>1, <2>2, <2>4
    <3> QED
      BY <1>2, <2>4, <3>1 DEF Told
  <2> QED
    BY <2>3, <2>4 DEF Told
<1>3. ASSUME x = "FREQ1" PROVE Told(t, m, told, Len(t) + 1, y)
  <2>1. Frame(t, Len(s) + 1, "FREQ1") /\ t[Len(s) + 1].value = y
    BY <1>3 DEF FrameAppended
  <2>2. \A j : Frame(t, j, "FREQ1") => j \in Nat /\ j <= Len(s) + 1
    BY <1>0, Places DEF FrameAppended
  <2>3. ASSUME NEW n, Frame(t, n, "FREQ1"), n < Len(t) + 1,
               \A j : Frame(t, j, "FREQ1") /\ n < j => Len(t) + 1 <= j
        PROVE  t[n].value = y
    <3>1. ~(n < Len(s) + 1)
      BY <1>0, <2>1, <2>3
    <3>2. n = Len(s) + 1
      BY <1>0, <2>2, <2>3, <3>1
    <3> QED
      BY <2>1, <3>2
  <2>4. ASSUME \A j : Frame(t, j, "FREQ1") => Len(t) + 1 <= j PROVE FALSE
    BY <1>0, <2>1, <2>4
  <2> QED
    BY <2>3, <2>4 DEF Told
<1> QED
  BY <1>1, <1>2, <1>3

\* The mode a P01 will find is the one that was shown when it was pressed.
LEMMA ModeInit == Init => ModeInv
BY NoFrame DEF Init, ModeInv, Told

LEMMA ModeStep == TypeOK /\ SilentInv /\ ModeInv /\ [Next]_vars => ModeInv'
<1> SUFFICES ASSUME TypeOK, SilentInv, ModeInv, [Next]_vars PROVE ModeInv'
  OBVIOUS
<1> USE DEF firmware, system, display, observed
<1>0. up \in Seq(Frames) /\ Len(up) \in Nat /\ FREQ1_label \in Nat
  BY LenProperties DEF TypeOK, LineOK, SystemOK
\* Nothing the invariant speaks of changes.
<1>1. ASSUME UNCHANGED <<up, mode, known, FREQ1_label>> PROVE ModeInv'
  BY <1>1 DEF ModeInv
\* A frame is handled that is not a FREQ1.
<1>2. ASSUME UNCHANGED <<mode, known, FREQ1_label>>, up # <<>>, up' = Tail(up),
             up[1].widget # "FREQ1"
      PROVE  ModeInv'
  <2>1. FrameDropped(up, up')
    BY <1>2, Taken
  <2>2. PICK t : t = up'
    OBVIOUS
  <2>3. ASSUME NEW k, Frame(t, k, "P01") PROVE Told(t, mode, known, k, t[k].value)
    <3>1. k \in Nat /\ Frame(up, k + 1, "P01") /\ t[k] = up[k + 1]
      BY <2>1, <2>2, <2>3 DEF FrameDropped
    <3>2. Told(up, mode, known, k + 1, t[k].value)
      BY <3>1 DEF ModeInv
    <3> QED
      BY <1>0, <1>2, <2>2, <3>1, <3>2, ToldDropped
  <2>4. Told(t, mode, known, Len(t) + 1, FREQ1_label)
    <3>1. Len(t) \in Nat /\ (Len(t) + 1) + 1 = Len(up) + 1 /\ Len(t) + 1 \in Nat
      BY <1>0, <1>2, <2>2, SeqTail
    <3>2. Told(up, mode, known, (Len(t) + 1) + 1, FREQ1_label)
      BY <3>1 DEF ModeInv
    <3> QED
      BY <1>0, <1>2, <2>2, <3>1, <3>2, ToldDropped
  <2> QED
    BY <1>2, <2>2, <2>3, <2>4 DEF ModeInv
<1>3. ASSUME FREQ1 PROVE ModeInv'
  <2>1. /\ up # <<>> /\ up[1].widget = "FREQ1" /\ up' = Tail(up)
        /\ mode' = up[1].value /\ known' = TRUE /\ FREQ1_label' = FREQ1_label
    BY <1>3 DEF FREQ1, Receive, Firmware!FREQ1, Value
  <2>2. FrameDropped(up, up')
    BY <2>1, Taken
  <2>3. PICK t : t = up'
    OBVIOUS
  <2>4. ASSUME NEW k, Frame(t, k, "P01") PROVE Told(t, up[1].value, TRUE, k, t[k].value)
    <3>1. k \in Nat /\ k >= 1 /\ Frame(up, k + 1, "P01") /\ t[k] = up[k + 1]
      BY <2>2, <2>3, <2>4 DEF FrameDropped
    <3>2. Told(up, mode, known, k + 1, t[k].value)
      BY <3>1 DEF ModeInv
    <3> QED
      BY <1>0, <2>1, <2>3, <3>1, <3>2, ToldHandled
  <2>5. Told(t, up[1].value, TRUE, Len(t) + 1, FREQ1_label)
    <3>1. Len(t) \in Nat /\ (Len(t) + 1) + 1 = Len(up) + 1 /\ Len(t) + 1 \in Nat /\ Len(t) + 1 >= 1
      BY <1>0, <2>1, <2>3, SeqTail
    <3>2. Told(up, mode, known, (Len(t) + 1) + 1, FREQ1_label)
      BY <3>1 DEF ModeInv
    <3> QED
      BY <1>0, <2>1, <2>3, <3>1, <3>2, ToldHandled
  <2> QED
    BY <2>1, <2>3, <2>4, <2>5 DEF ModeInv
\* A frame is sent: FREQ1 and P01 say what is shown.
<1>4. ASSUME NEW x \in UpNames, NEW y \in Nat, x = "label_timer_count_down" => y \in Times,
             up' = press(x, y), UNCHANGED <<mode, known>>,
             x \in {"FREQ1", "P01"} => y = FREQ1_label',
             x # "FREQ1" => FREQ1_label' = FREQ1_label
      PROVE  ModeInv'
  <2>1. CASE ~uart
    <3>1. up' = <<>> /\ ~known
      BY <1>4, <2>1 DEF SilentInv, press
    <3> QED
      BY <1>4, <3>1, NoFrame DEF ModeInv, Told
  <2>2. CASE uart
    <3>1. FrameAppended(up, up', x, y)
      BY <1>4, <2>2, Pressed
    <3>2. PICK t : t = up'
      OBVIOUS
    <3>3. FrameAppended(up, t, x, y)
      BY <3>1, <3>2
    <3>4. ASSUME NEW k, Frame(t, k, "P01") PROVE Told(t, mode, known, k, t[k].value)
      <4>1. CASE Frame(up, k, "P01")
        <5>1. t[k] = up[k] /\ k \in 1 .. Len(up) + 1
          BY <1>0, <3>3, <4>1, Places DEF FrameAppended
        <5>2. Told(up, mode, known, k, t[k].value)
          BY <4>1, <5>1 DEF ModeInv
        <5> QED
          BY <1>0, <3>3, <5>1, <5>2, ToldAppended
      <4>2. CASE ~Frame(up, k, "P01")
        <5>1. k = Len(up) + 1 /\ x = "P01" /\ t[k].value = y
          BY <3>3, <3>4, <4>2 DEF FrameAppended
        <5>2. t[k].value = FREQ1_label
          BY <1>4, <5>1
        <5>3. Told(up, mode, known, k, t[k].value) /\ k \in 1 .. Len(up) + 1
          BY <1>0, <5>1, <5>2 DEF ModeInv
        <5> QED
          BY <1>0, <3>3, <5>3, ToldAppended
      <4> QED
        BY <4>1, <4>2
    <3>5. PICK f : f = FREQ1_label'
      OBVIOUS
    <3>6. Told(t, mode, known, Len(t) + 1, f)
      <4>1. CASE x = "FREQ1"
        BY <1>0, <1>4, <3>3, <3>5, <4>1, ToldAppended
      <4>2. CASE x # "FREQ1"
        <5>1. Told(up, mode, known, Len(up) + 1, f)
          BY <1>4, <3>5, <4>2 DEF ModeInv
        <5> QED
          BY <1>0, <3>3, <4>2, <5>1, ToldAppended
      <4> QED
        BY <4>1, <4>2
    <3> QED
      BY <1>4, <3>2, <3>4, <3>5, <3>6 DEF ModeInv
  <2> QED
    BY <2>1, <2>2 DEF TypeOK, SystemOK
<1>5. CASE StartUp \/ timer_on_alarm_cb \/ Tick
  BY <1>1, <1>5 DEF StartUp, uart_driver_install, TimerSetup, Firmware!TimerSetup, get_date,
     get_displayed_window, timer_on_alarm_cb, Firmware!timer_on_alarm_cb, Tick, Firmware!Tick
<1>6. CASE P01 \/ P02 \/ digit_clock1 \/ W01 \/ W02
  BY <1>2, <1>6 DEF P01, Firmware!P01, P02, Firmware!P02, digit_clock1, W01, W02, Receive
<1>7. CASE label_timer_count_down \/ FREQ2
  BY <1>2, <1>7 DEF label_timer_count_down, Firmware!label_timer_count_down, FREQ2,
     Firmware!FREQ2, Receive
<1>8. CASE set_date \/ set_FREQ2 \/ set_text \/ back_win \/ UNCHANGED vars
  BY <1>1, <1>8 DEF set_date, set_FREQ2, set_text, back_win, vars
<1>9. CASE Answer
  <2>1. /\ win \in UpNames \ {"FREQ1", "P01", "label_timer_count_down"}
        /\ {"digit_clock1", "FREQ1", "label_timer_count_down", "FREQ2"} \subseteq UpNames
        /\ countdown \in Times /\ countdown \in Nat /\ FREQ1_label \in Nat /\ FREQ2_label \in Nat
    BY ConstantFacts DEF TypeOK, SystemOK, UpNames, Times
  <2>2. PICK x \in UpNames, y \in Nat :
          /\ up' = press(x, y) /\ UNCHANGED <<mode, known, FREQ1_label>>
          /\ x = "label_timer_count_down" => y \in Times
          /\ x \in {"FREQ1", "P01"} => y = FREQ1_label
    BY <1>9, <2>1 DEF Answer, answer
  <2> QED
    BY <1>4, <2>2
<1>10. CASE User
  <2>1. ModeValues \subseteq Nat /\ {"FREQ1", "P01", "P02"} \subseteq UpNames
    BY DialogueConstantsOK DEF UpNames
  <2> QED
    BY <1>0, <1>4, <1>10, <2>1 DEF User, PressStart, PressStop, SelectMode
<1>11. CASE Reboot
  BY <1>11, NoFrame DEF Reboot, ModeInv, Told
<1> QED
  BY <1>3, <1>5, <1>6, <1>7, <1>8, <1>9, <1>10, <1>11 DEF Next, stone_cmd, Display

\* Talking, in terms of the questions and answers under way.
LEMMA TalkingIs ==
  ASSUME TypeOK
  PROVE  Talking <=> boot # "done" \/ AskedUp(up) # {} \/ AskedDown(down) # {}
<1>1. AskedUp(up) # {} <=> \E w \in AskFrames : Waits(up, w)
  BY DEF AskedUp, Waits, Frame
<1>2. AskedDown(down) # {} <=> \E m \in AskMessages : Comes(down, m)
  BY DEF AskedDown, Comes, Message
<1> QED
  BY <1>1, <1>2, LineFacts DEF Talking, AskFrames, AskMessages

\* A frame fewer.
LEMMA AskedUpDropped ==
  ASSUME NEW s, NEW t, FrameDropped(s, t)
  PROVE  /\ Single(AskedUp(s)) => Single(AskedUp(t))
         /\ AskedUp(s) = {} => AskedUp(t) = {}
         /\ s[1].widget \in AskFrames => AskedUp(s) # {}
         /\ s[1].widget \in AskFrames /\ Single(AskedUp(s)) => AskedUp(t) = {}
<1>1. \A k \in AskedUp(t) : k \in Nat /\ k >= 1 /\ k + 1 \in AskedUp(s)
  BY DEF FrameDropped, AskedUp, Frame
<1>2. s[1].widget \in AskFrames => 1 \in AskedUp(s)
  BY DEF FrameDropped, AskedUp, Frame
<1>3. ASSUME Single(AskedUp(s)) PROVE Single(AskedUp(t))
  <2> SUFFICES ASSUME NEW i \in AskedUp(t), NEW j \in AskedUp(t) PROVE i = j
    BY DEF Single
  <2>1. i + 1 = j + 1 /\ i \in Nat /\ j \in Nat
    BY <1>1, <1>3 DEF Single
  <2> QED
    BY <2>1
<1>4. ASSUME s[1].widget \in AskFrames, Single(AskedUp(s)), NEW k \in AskedUp(t) PROVE FALSE
  <2>1. k + 1 = 1 /\ k \in Nat /\ k >= 1
    BY <1>1, <1>2, <1>4 DEF Single
  <2> QED
    BY <2>1
<1> QED
  BY <1>1, <1>2, <1>3, <1>4

\* A message fewer.
LEMMA AskedDownDropped ==
  ASSUME NEW s, NEW t, MessageDropped(s, t)
  PROVE  /\ Single(AskedDown(s)) => Single(AskedDown(t))
         /\ AskedDown(s) = {} => AskedDown(t) = {}
         /\ s[1].cmd \in AskMessages => AskedDown(s) # {}
         /\ s[1].cmd \in AskMessages /\ Single(AskedDown(s)) => AskedDown(t) = {}
<1>1. \A k \in AskedDown(t) : k \in Nat /\ k >= 1 /\ k + 1 \in AskedDown(s)
  BY DEF MessageDropped, AskedDown, Message
<1>2. s[1].cmd \in AskMessages => 1 \in AskedDown(s)
  BY DEF MessageDropped, AskedDown, Message
<1>3. ASSUME Single(AskedDown(s)) PROVE Single(AskedDown(t))
  <2> SUFFICES ASSUME NEW i \in AskedDown(t), NEW j \in AskedDown(t) PROVE i = j
    BY DEF Single
  <2>1. i + 1 = j + 1 /\ i \in Nat /\ j \in Nat
    BY <1>1, <1>3 DEF Single
  <2> QED
    BY <2>1
<1>4. ASSUME s[1].cmd \in AskMessages, Single(AskedDown(s)), NEW k \in AskedDown(t)
      PROVE  FALSE
  <2>1. k + 1 = 1 /\ k \in Nat /\ k >= 1
    BY <1>1, <1>2, <1>4 DEF Single
  <2> QED
    BY <2>1
<1> QED
  BY <1>1, <1>2, <1>3, <1>4

\* A frame more.
LEMMA AskedUpAppended ==
  ASSUME NEW s, NEW t, NEW x, NEW v, FrameAppended(s, t, x, v)
  PROVE  /\ x \notin AskFrames => AskedUp(t) = AskedUp(s)
         /\ AskedUp(s) = {} => Single(AskedUp(t))
<1>1. \A k \in AskedUp(s) : k \in AskedUp(t)
  BY DEF FrameAppended, AskedUp, Frame
<1>2. \A k \in AskedUp(t) : k \in AskedUp(s) \/ (k = Len(s) + 1 /\ x \in AskFrames)
  BY DEF FrameAppended, AskedUp, Frame
<1> QED
  BY <1>1, <1>2 DEF Single

\* A message more.
LEMMA AskedDownAppended ==
  ASSUME NEW s, NEW t, NEW x, NEW v, MessageAppended(s, t, x, v)
  PROVE  /\ x \notin AskMessages => AskedDown(t) = AskedDown(s)
         /\ AskedDown(s) = {} => Single(AskedDown(t))
<1>1. \A k \in AskedDown(s) : k \in AskedDown(t)
  BY DEF MessageAppended, AskedDown, Message
<1>2. \A k \in AskedDown(t) : k \in AskedDown(s) \/ (k = Len(s) + 1 /\ x \in AskMessages)
  BY DEF MessageAppended, AskedDown, Message
<1> QED
  BY <1>1, <1>2 DEF Single

\* The same for a step of a specification.
LEMMA AskedTaken ==
  ASSUME TypeOK, up # <<>>, up' = Tail(up)
  PROVE  /\ Single(AskedUp(up)) => Single(AskedUp(up)')
         /\ AskedUp(up) = {} => AskedUp(up)' = {}
         /\ up[1].widget \in AskFrames => AskedUp(up) # {}
         /\ up[1].widget \in AskFrames /\ Single(AskedUp(up)) => AskedUp(up)' = {}
<1>1. PICK t : t = up'
  OBVIOUS
<1>2. FrameDropped(up, t)
  BY <1>1, Taken
<1> QED
  BY <1>1, <1>2, AskedUpDropped

LEMMA AskedShown ==
  ASSUME TypeOK, down # <<>>, down' = Tail(down)
  PROVE  /\ Single(AskedDown(down)) => Single(AskedDown(down)')
         /\ AskedDown(down) = {} => AskedDown(down)' = {}
         /\ down[1].cmd \in AskMessages => AskedDown(down) # {}
         /\ down[1].cmd \in AskMessages /\ Single(AskedDown(down)) => AskedDown(down)' = {}
<1>1. PICK t : t = down'
  OBVIOUS
<1>2. MessageDropped(down, t)
  BY <1>1, Shown
<1> QED
  BY <1>1, <1>2, AskedDownDropped

LEMMA AskedPressed ==
  ASSUME TypeOK, NEW x \in UpNames, NEW v \in Nat,
         x = "label_timer_count_down" => v \in Times, up' = press(x, v)
  PROVE  /\ x \notin AskFrames => AskedUp(up)' = AskedUp(up)
         /\ AskedUp(up) = {} => Single(AskedUp(up)')
<1>1. PICK t : t = up'
  OBVIOUS
<1>2. CASE uart
  <2>1. FrameAppended(up, t, x, v)
    BY <1>1, <1>2, Pressed
  <2> QED
    BY <1>1, <2>1, AskedUpAppended
<1>3. CASE ~uart
  BY <1>3 DEF press, Single
<1> QED
  BY <1>2, <1>3

LEMMA AskedSent ==
  ASSUME TypeOK, NEW x \in DownNames, NEW v \in Nat, x = "set_text" => v \in Times,
         down' = send(down, x, v)
  PROVE  /\ x \notin AskMessages => AskedDown(down)' = AskedDown(down)
         /\ AskedDown(down) = {} => Single(AskedDown(down)')
<1>1. PICK t : t = down'
  OBVIOUS
<1>2. CASE uart
  <2>1. MessageAppended(down, t, x, v)
    BY <1>1, <1>2, Sent
  <2> QED
    BY <1>1, <2>1, AskedDownAppended
<1>3. CASE ~uart
  BY <1>3 DEF send, Single
<1> QED
  BY <1>2, <1>3

LEMMA AskedTick ==
  ASSUME TypeOK, Tick
  PROVE  AskedDown(down)' = AskedDown(down)
<1>1. CASE ~uart
  BY <1>1, TickSent
<1>2. CASE uart
  <2>0. PICK t, r : t = down' /\ r = record'
    OBVIOUS
  <2>1. PICK d : /\ MessageAppended(d, t, "set_text", r)
                 /\ d = down \/ MessageAppended(down, d, "back_win", 0)
    <3>1. \E d : /\ MessageAppended(d, down', "set_text", record')
                 /\ \/ ~Expires /\ d = down
                    \/ Expires /\ MessageAppended(down, d, "back_win", 0)
      BY <1>2, TickSent
    <3> QED
      BY <2>0, <3>1
  <2>2. "set_text" \notin AskMessages /\ "back_win" \notin AskMessages
    BY DEF AskMessages
  <2>3. AskedDown(t) = AskedDown(d)
    BY <2>1, <2>2, AskedDownAppended
  <2>4. AskedDown(d) = AskedDown(down)
    BY <2>1, <2>2, AskedDownAppended
  <2> QED
    BY <2>0, <2>3, <2>4
<1> QED
  BY <1>1, <1>2

\* The empty line asks nothing.
LEMMA NoneAsked == AskedUp(<<>>) = {} /\ AskedDown(<<>>) = {} /\ Single({})
BY DEF AskedUp, AskedDown, Single

\* One question or answer leads to the next.
LEMMA ChainInit == Init => ChainInv
BY NoneAsked DEF Init, ChainInv

LEMMA ChainStep == TypeOK /\ ChainInv /\ [Next]_vars => ChainInv'
<1> SUFFICES ASSUME TypeOK, ChainInv, [Next]_vars PROVE ChainInv'
  OBVIOUS
<1> USE DEF firmware, system, display, observed
<1>0. /\ countdown \in Times /\ countdown \in Nat /\ FREQ1_label \in Nat /\ FREQ2_label \in Nat
      /\ win \in {"W01", "W02"} /\ mode \in Nat /\ ModeValues \subseteq Nat
  BY ConstantFacts, DialogueConstantsOK DEF TypeOK, SystemOK, RunOK, Times
\* Nothing of the dialogue moves.
<1>1. ASSUME UNCHANGED <<boot, up, down>> PROVE ChainInv'
  BY <1>1 DEF ChainInv
<1>2. ASSUME boot' = boot, up' = up, down # <<>>, down' = Tail(down) PROVE ChainInv'
  BY <1>2, AskedShown DEF ChainInv
<1>3. ASSUME boot' = boot, up # <<>>, up' = Tail(up), down' = down PROVE ChainInv'
  BY <1>3, AskedTaken DEF ChainInv
<1>4. ASSUME NEW x \in DownNames \ AskMessages, x # "set_text", NEW v \in Nat, boot' = boot,
             up # <<>>, up' = Tail(up), down' = send(down, x, v)
      PROVE  ChainInv'
  <2>1. AskedDown(down)' = AskedDown(down)
    BY <1>4, AskedSent
  <2> QED
    BY <1>4, <2>1, AskedTaken DEF ChainInv
<1>5. ASSUME NEW x \in UpNames \ AskFrames, x # "label_timer_count_down", NEW v \in Nat,
             boot' = boot, down # <<>>, down' = Tail(down), up' = press(x, v)
      PROVE  ChainInv'
  <2>1. AskedUp(up)' = AskedUp(up)
    BY <1>5, AskedPressed
  <2> QED
    BY <1>5, <2>1, AskedShown DEF ChainInv
\* A question is answered, an answer leads to the next question.
<1>6. ASSUME NEW x \in UpNames, NEW v \in Nat, x = "label_timer_count_down" => v \in Times,
             boot' = boot, down # <<>>, down[1].cmd \in AskMessages, down' = Tail(down),
             up' = press(x, v)
      PROVE  ChainInv'
  <2>1. AskedUp(up) = {} /\ AskedDown(down)' = {}
    BY <1>6, AskedShown DEF ChainInv
  <2>2. Single(AskedUp(up)')
    BY <1>6, <2>1, AskedPressed
  <2>3. boot = "done"
    BY <1>6, AskedShown DEF ChainInv
  <2> QED
    BY <1>6, <2>1, <2>2, <2>3 DEF ChainInv, Single
<1>7. ASSUME NEW x \in DownNames, x # "set_text", NEW v \in Nat, boot' = boot, up # <<>>,
             up[1].widget \in AskFrames, up' = Tail(up), down' = send(down, x, v)
      PROVE  ChainInv'
  <2>1. AskedDown(down) = {} /\ AskedUp(up)' = {}
    BY <1>7, AskedTaken DEF ChainInv
  <2>2. Single(AskedDown(down)')
    BY <1>7, <2>1, AskedSent
  <2>3. boot = "done"
    BY <1>7, AskedTaken DEF ChainInv
  <2> QED
    BY <1>7, <2>1, <2>2, <2>3 DEF ChainInv, Single
<1>8. ASSUME NEW x \in UpNames \ AskFrames, x # "label_timer_count_down", NEW v \in Nat,
             boot' = boot, down' = down, up' = press(x, v)
      PROVE  ChainInv'
  <2>1. AskedUp(up)' = AskedUp(up)
    BY <1>8, AskedPressed
  <2> QED
    BY <1>8, <2>1 DEF ChainInv
<1>9. CASE uart_driver_install \/ TimerSetup \/ timer_on_alarm_cb \/ UNCHANGED vars
  BY <1>1, <1>9 DEF uart_driver_install, TimerSetup, timer_on_alarm_cb, vars
<1>10. CASE get_date
  <2>1. "get_date" \in DownNames /\ "get_date" \notin AskMessages
    BY DEF DownNames, AskMessages
  <2>2. down' = send(down, "get_date", 0) /\ up' = up /\ boot = "date"
    BY <1>10 DEF get_date
  <2>3. AskedDown(down)' = AskedDown(down)
    BY <2>1, <2>2, AskedSent
  <2> QED
    BY <2>2, <2>3 DEF ChainInv
<1>11. CASE get_displayed_window
  <2>1. "get_displayed_window" \in DownNames
    BY DEF DownNames
  <2>2. down' = send(down, "get_displayed_window", 0) /\ up' = up /\ boot = "window"
        /\ boot' = "done"
    BY <1>11 DEF get_displayed_window
  <2>3. AskedDown(down) = {} /\ AskedUp(up) = {}
    BY <2>2 DEF ChainInv
  <2>4. Single(AskedDown(down)')
    BY <2>1, <2>2, <2>3, AskedSent
  <2> QED
    BY <2>2, <2>3, <2>4 DEF ChainInv, Single
<1>12. CASE FREQ1 \/ P02 \/ FREQ2
  BY <1>3, <1>12 DEF FREQ1, P02, FREQ2, Receive
<1>13. CASE P01 \/ digit_clock1 \/ W01
  <2>1. {"set_FREQ2", "set_date", "get_FREQ1"} \subseteq DownNames \ AskMessages
    BY DEF DownNames, AskMessages
  <2> QED
    BY <1>0, <1>4, <1>13, <2>1 DEF P01, digit_clock1, W01, Receive
<1>14. CASE W02
  <2>1. "get_text" \in DownNames /\ "W02" \in AskFrames
    BY DEF DownNames, AskFrames
  <2> QED
    BY <1>7, <1>14, <2>1 DEF W02, Receive
<1>15. CASE label_timer_count_down
  <2>1. "get_FREQ2" \in DownNames /\ "label_timer_count_down" \in AskFrames
    BY DEF DownNames, AskFrames
  <2> QED
    BY <1>3, <1>7, <1>15, <2>1 DEF label_timer_count_down, Receive
<1>16. CASE Tick
  BY <1>16, AskedTick DEF ChainInv, Tick
<1>17. CASE set_date \/ set_FREQ2 \/ set_text \/ back_win
  BY <1>2, <1>17 DEF set_date, set_FREQ2, set_text, back_win, Show
<1>18. CASE Answer
  <2>1. /\ {"digit_clock1", "FREQ1"} \subseteq UpNames \ AskFrames
        /\ {"W01", "W02", "label_timer_count_down", "FREQ2"} \subseteq UpNames
        /\ AskMessages = {"get_displayed_window", "get_text", "get_FREQ2"}
    BY DEF UpNames, AskFrames, AskMessages
  <2>2. CASE answer("get_date", "digit_clock1", 0) \/ answer("get_FREQ1", "FREQ1", FREQ1_label)
    BY <1>0, <1>5, <2>1, <2>2 DEF answer, Show
  <2>3. CASE \/ answer("get_displayed_window", win, 0)
             \/ answer("get_text", "label_timer_count_down", countdown)
             \/ answer("get_FREQ2", "FREQ2", FREQ2_label)
    BY <1>0, <1>6, <2>1, <2>3 DEF answer, Show
  <2> QED
    BY <1>18, <2>2, <2>3 DEF Answer
<1>19. CASE User
  <2>1. {"FREQ1", "P01", "P02"} \subseteq UpNames \ AskFrames
    BY DEF UpNames, AskFrames
  <2> QED
    BY <1>0, <1>8, <1>19, <2>1 DEF User, PressStart, PressStop, SelectMode
<1>20. CASE Reboot
  BY <1>20, NoneAsked DEF Reboot, ChainInv
<1> QED
  BY <1>9, <1>10, <1>11, <1>12, <1>13, <1>14, <1>15, <1>16, <1>17, <1>18, <1>19, <1>20
     DEF Next, StartUp, stone_cmd, Display

LEMMA TalkInit == Init => TalkInv
BY NoFrame, NoMessage DEF Init, Firmware!Init, Firmware!Loaded, TalkInv

\* The same of the next state.
LEMMA TalkingThen ==
  ASSUME TypeOK'
  PROVE  Talking' <=> boot' # "done" \/ AskedUp(up') # {} \/ AskedDown(down') # {}
<1>1. AskedUp(up') # {} <=> \E w \in AskFrames : Waits(up', w)
  BY DEF AskedUp, Waits, Frame
<1>2. AskedDown(down') # {} <=> \E m \in AskMessages : Comes(down', m)
  BY DEF AskedDown, Comes, Message
<1>3. /\ \A w : InUp(w)' <=> Waits(up', w)
      /\ \A m : InDown(m)' <=> Comes(down', m)
  BY LenProperties DEF TypeOK, LineOK, InUp, InDown, Waits, Comes, Frame, Message
<1> QED
  BY <1>1, <1>2, <1>3 DEF Talking, AskFrames, AskMessages

\* The dialogue begins with a reset and ends with FREQ2.
LEMMA TalkingBefore ==
  ASSUME TypeOK, ChainInv, [Next]_vars, ~Reboot, Talking'
  PROVE  Talking /\ ~FREQ2
<1> USE DEF firmware, system, display, observed
<1>0. /\ countdown \in Times /\ countdown \in Nat /\ FREQ1_label \in Nat /\ FREQ2_label \in Nat
      /\ win \in {"W01", "W02"} /\ mode \in Nat /\ ModeValues \subseteq Nat
  BY ConstantFacts, DialogueConstantsOK DEF TypeOK, SystemOK, RunOK, Times
<1>1. Talking <=> boot # "done" \/ AskedUp(up) # {} \/ AskedDown(down) # {}
  BY TalkingIs
<1>2. boot' # "done" \/ AskedUp(up)' # {} \/ AskedDown(down)' # {}
  <2>1. TypeOK'
    BY TypeStep
  <2> QED
    BY <2>1, TalkingThen
<1>3. ~FREQ2
  <2> SUFFICES ASSUME FREQ2 PROVE FALSE
    OBVIOUS
  <2>1. up # <<>> /\ up[1].widget \in AskFrames /\ up' = Tail(up) /\ UNCHANGED <<boot, down>>
    BY DEF FREQ2, Receive, AskFrames
  <2> QED
    BY <1>2, <2>1, AskedTaken DEF ChainInv
<1>4. ASSUME boot = "done", AskedUp(up) = {}, AskedDown(down) = {} PROVE FALSE
  <2>1. ASSUME up' = up \/ (up # <<>> /\ up' = Tail(up)) PROVE AskedUp(up)' = {}
    BY <1>4, <2>1, AskedTaken
  <2>2. ASSUME down' = down \/ (down # <<>> /\ down' = Tail(down)) PROVE AskedDown(down)' = {}
    BY <1>4, <2>2, AskedShown
  <2>3. ASSUME NEW x \in {"FREQ1", "P01", "P02", "digit_clock1"}, NEW v \in Nat,
               up' = press(x, v)
        PROVE  AskedUp(up)' = {}
    <3>1. x \in UpNames /\ x \notin AskFrames /\ x # "label_timer_count_down"
      BY DEF UpNames, AskFrames
    <3> QED
      BY <1>4, <2>3, <3>1, AskedPressed
  <2>4. ASSUME NEW x \in {"set_FREQ2", "set_date", "get_FREQ1"}, NEW v \in Nat,
               down' = send(down, x, v)
        PROVE  AskedDown(down)' = {}
    <3>1. x \in DownNames /\ x \notin AskMessages /\ x # "set_text"
      BY DEF DownNames, AskMessages
    <3> QED
      BY <1>4, <2>4, <3>1, AskedSent
  <2>5. CASE StartUp \/ timer_on_alarm_cb \/ UNCHANGED vars
    BY <1>2, <1>4, <2>1, <2>2, <2>5 DEF StartUp, uart_driver_install, TimerSetup,
       get_date, get_displayed_window, timer_on_alarm_cb, vars
  <2>6. ~W02 /\ ~label_timer_count_down
    BY <1>4, AskedTaken DEF W02, label_timer_count_down, Receive, AskFrames
  <2>7. CASE FREQ1 \/ P02
    BY <1>2, <1>4, <2>1, <2>2, <2>7 DEF FREQ1, P02, Receive
  <2>8. CASE P01 \/ digit_clock1 \/ W01
    BY <1>0, <1>2, <1>4, <2>1, <2>4, <2>8 DEF P01, digit_clock1, W01, Receive
  <2>9. CASE Tick
    <3>1. AskedDown(down)' = {}
      BY <1>4, <2>9, AskedTick
    <3> QED
      BY <1>2, <1>4, <3>1, <2>9 DEF Tick
  <2>10. CASE set_date \/ set_FREQ2 \/ set_text \/ back_win
    BY <1>2, <1>4, <2>1, <2>2, <2>10 DEF set_date, set_FREQ2, set_text, back_win, Show
  <2>11. CASE Answer
    <3>1. /\ ~answer("get_displayed_window", win, 0)
          /\ ~answer("get_text", "label_timer_count_down", countdown)
          /\ ~answer("get_FREQ2", "FREQ2", FREQ2_label)
      BY <1>4, AskedShown DEF answer, Show, AskMessages
    <3> QED
      BY <1>0, <1>2, <1>4, <2>2, <2>3, <2>11, <3>1 DEF Answer, answer, Show
  <2>12. CASE User
    BY <1>0, <1>2, <1>4, <2>2, <2>3, <2>12 DEF User, PressStart, PressStop, SelectMode
  <2> QED
    BY <1>3, <2>5, <2>6, <2>7, <2>8, <2>9, <2>10, <2>11, <2>12 DEF Next, stone_cmd, Display
<1> QED
  BY <1>1, <1>3, <1>4

\* Only a press of a button or a reset ends the doubt about a run.
LEMMA Uncrossed ==
  ASSUME TypeOK, [Next]_vars, ~crossed'
  PROVE  ~crossed \/ PressStart \/ PressStop \/ Reboot
<1> USE DEF observed, TypeOK, ObserversOK
<1>1. CASE StartUp \/ timer_on_alarm_cb \/ UNCHANGED vars
  BY <1>1 DEF StartUp, uart_driver_install, TimerSetup, get_date, get_displayed_window,
     timer_on_alarm_cb, vars
<1>2. CASE FREQ1 \/ P01 \/ P02 \/ digit_clock1
  BY <1>2 DEF FREQ1, P01, P02, digit_clock1
<1>3. CASE W01 \/ W02 \/ label_timer_count_down \/ FREQ2
  BY <1>3 DEF W01, W02, label_timer_count_down, FREQ2
<1>4. CASE Tick
  BY <1>4 DEF Tick
<1>5. CASE Display
  BY <1>5 DEF Display, Answer, answer, set_date, set_FREQ2, set_text, back_win
<1>6. CASE \E v \in ModeValues : SelectMode(v)
  BY <1>6 DEF SelectMode
<1> QED
  BY <1>1, <1>2, <1>3, <1>4, <1>5, <1>6 DEF Next, stone_cmd, User

\* Nothing but the dialogue happens to a run while it goes on.
LEMMA TalkStep == TypeOK /\ ChainInv /\ TalkInv /\ [Next]_vars => TalkInv'
<1> SUFFICES ASSUME TypeOK, ChainInv, TalkInv, [Next]_vars, Talking', ~crossed'
             PROVE  /\ gptimer' # "running" /\ Timer_queue' = 0
                    /\ ~Waits(up', "P01") /\ ~Waits(up', "P02")
                    /\ ~Comes(down', "back_win") /\ ~Comes(down', "set_text")
                    /\ ~Comes(down', "set_FREQ2")
  BY DEF TalkInv
<1> USE DEF firmware, system, display, observed
<1>1. CASE Reboot
  BY <1>1, NoFrame, NoMessage DEF Reboot, Firmware!Reboot, Firmware!Loaded
<1>2. CASE ~Reboot
  <2>1. Talking /\ ~FREQ2
    BY <1>2, TalkingBefore
  <2>2. ~crossed
    BY <1>2, <2>1, Uncrossed DEF PressStart, PressStop
  <2>3. /\ gptimer # "running" /\ Timer_queue = 0
        /\ ~Waits(up, "P01") /\ ~Waits(up, "P02")
        /\ ~Comes(down, "back_win") /\ ~Comes(down, "set_text") /\ ~Comes(down, "set_FREQ2")
    BY <2>1, <2>2 DEF TalkInv
  <2>4. /\ countdown \in Times /\ countdown \in Nat /\ FREQ1_label \in Nat
        /\ FREQ2_label \in Nat /\ win \in {"W01", "W02"} /\ ModeValues \subseteq Nat
    BY ConstantFacts, DialogueConstantsOK DEF TypeOK, SystemOK, Times
  <2>5. ~P01 /\ ~P02 /\ ~Tick /\ ~timer_on_alarm_cb
    BY <2>3, Taken DEF P01, P02, Tick, Firmware!Tick, timer_on_alarm_cb,
       Firmware!timer_on_alarm_cb, Receive, FrameDropped
  <2>6. ~PressStart /\ ~PressStop
    BY <2>1 DEF PressStart, PressStop
  <2>7. ASSUME up # <<>>, up' = Tail(up) PROVE ~Waits(up', "P01") /\ ~Waits(up', "P02")
    BY <2>3, <2>7, Taken DEF FrameDropped
  <2>8. ASSUME down # <<>>, down' = Tail(down)
        PROVE  ~Comes(down', "back_win") /\ ~Comes(down', "set_text") /\ ~Comes(down', "set_FREQ2")
    BY <2>3, <2>8, Shown DEF MessageDropped
  <2>9. ASSUME NEW x \in UpNames \ {"P01", "P02"}, NEW v \in Nat,
               x = "label_timer_count_down" => v \in Times, up' = press(x, v)
        PROVE  ~Waits(up', "P01") /\ ~Waits(up', "P02")
    BY <2>3, <2>9, Pressed DEF FrameAppended, TypeOK, SystemOK
  <2>10. ASSUME NEW x \in DownNames \ {"back_win", "set_text", "set_FREQ2"}, NEW v \in Nat,
                down' = send(down, x, v)
         PROVE  ~Comes(down', "back_win") /\ ~Comes(down', "set_text") /\ ~Comes(down', "set_FREQ2")
    BY <2>3, <2>10, Sent DEF MessageAppended, TypeOK, SystemOK
  <2>11. {"get_date", "get_displayed_window", "set_date", "get_FREQ1", "get_text",
          "get_FREQ2"} \subseteq DownNames \ {"back_win", "set_text", "set_FREQ2"}
    BY DEF DownNames
  <2>12. {"digit_clock1", "W01", "W02", "FREQ1", "label_timer_count_down", "FREQ2"}
           \subseteq UpNames \ {"P01", "P02"}
    BY DEF UpNames
  <2>13. CASE \/ uart_driver_install \/ TimerSetup \/ get_date \/ get_displayed_window
              \/ UNCHANGED vars
    BY <2>3, <2>10, <2>11, <2>13 DEF uart_driver_install, TimerSetup, Firmware!TimerSetup,
       get_date, get_displayed_window, vars
  <2>14. CASE FREQ1 \/ digit_clock1
    BY <2>3, <2>7, <2>10, <2>11, <2>14 DEF FREQ1, Firmware!FREQ1, digit_clock1, Receive
  <2>15. CASE W01 \/ W02
    BY <2>3, <2>7, <2>10, <2>11, <2>15 DEF W01, W02, Receive
  <2>16. CASE label_timer_count_down
    BY <2>3, <2>7, <2>10, <2>11, <2>16 DEF label_timer_count_down,
       Firmware!label_timer_count_down, Receive
  <2>17. CASE set_date \/ set_FREQ2 \/ set_text \/ back_win
    BY <2>3, <2>8, <2>17 DEF set_date, set_FREQ2, set_text, back_win, Show
  <2>18. CASE Answer
    BY <2>3, <2>4, <2>8, <2>9, <2>12, <2>18 DEF Answer, answer, Show
  <2>19. CASE User
    BY <2>3, <2>4, <2>6, <2>9, <2>12, <2>19 DEF User, SelectMode
  <2> QED
    BY <1>2, <2>1, <2>5, <2>13, <2>14, <2>15, <2>16, <2>17, <2>18, <2>19
       DEF Next, StartUp, stone_cmd, Display
<1> QED
  BY <1>1, <1>2

LEMMA BackInit == Init => BackInv
BY NoFrame, NoMessage DEF Init, Firmware!Init, Firmware!Loaded, BackInv

\* Neither back_win nor P01 comes onto the line.
LEMMA BackKept ==
  ASSUME BackInv, \A m \in {"back_win"} : Comes(down', m) => Comes(down, m),
         \A w \in {"P01"} : Waits(up', w) => Waits(up, w),
         ~crossed' => ~crossed, UNCHANGED <<gptimer, Timer_queue, began>>
  PROVE  BackInv'
BY DEF BackInv

LEMMA BackStep == TypeOK /\ TalkInv /\ BackInv /\ [Next]_vars => BackInv'
<1> SUFFICES ASSUME TypeOK, TalkInv, BackInv, [Next]_vars PROVE BackInv'
  OBVIOUS
<1> USE DEF firmware, system, display, observed
<1>0. /\ countdown \in Times /\ countdown \in Nat /\ FREQ1_label \in Nat /\ FREQ2_label \in Nat
      /\ win \in {"W01", "W02"} /\ mode \in Nat /\ ModeValues \subseteq Nat
  BY ConstantFacts, DialogueConstantsOK DEF TypeOK, SystemOK, RunOK, Times
<1>1. ASSUME up # <<>>, up' = Tail(up) PROVE Waits(up', "P01") => Waits(up, "P01")
  BY <1>1, Taken DEF FrameDropped
<1>2. ASSUME down # <<>>, down' = Tail(down)
      PROVE  Comes(down', "back_win") => Comes(down, "back_win")
  BY <1>2, Shown DEF MessageDropped
<1>3. ASSUME NEW x \in UpNames \ {"P01"}, NEW v \in Nat,
             x = "label_timer_count_down" => v \in Times, up' = press(x, v)
      PROVE  Waits(up', "P01") => Waits(up, "P01")
  BY <1>3, Pressed DEF FrameAppended, TypeOK, SystemOK
<1>4. ASSUME NEW x \in DownNames \ {"back_win", "set_text"}, NEW v \in Nat,
             down' = send(down, x, v)
      PROVE  Comes(down', "back_win") => Comes(down, "back_win")
  BY <1>4, Sent DEF MessageAppended, TypeOK, SystemOK
<1>5. {"get_date", "get_displayed_window", "set_date", "get_FREQ1", "get_text", "set_FREQ2",
       "get_FREQ2"} \subseteq DownNames \ {"back_win", "set_text"}
  BY DEF DownNames
<1>6. {"digit_clock1", "W01", "W02", "FREQ1", "label_timer_count_down", "FREQ2", "P02"}
        \subseteq UpNames \ {"P01"}
  BY DEF UpNames
<1>7. CASE uart_driver_install \/ get_date \/ get_displayed_window \/ UNCHANGED vars
  BY <1>4, <1>5, <1>7, BackKept DEF uart_driver_install, get_date, get_displayed_window, vars
<1>8. CASE TimerSetup
  BY <1>8 DEF TimerSetup, Firmware!TimerSetup, BackInv
<1>9. CASE timer_on_alarm_cb
  BY <1>9 DEF timer_on_alarm_cb, Firmware!timer_on_alarm_cb, BackInv
<1>10. CASE FREQ1 \/ digit_clock1
  BY <1>1, <1>4, <1>5, <1>10, BackKept DEF FREQ1, Firmware!FREQ1, digit_clock1, Receive
<1>11. CASE W01 \/ W02
  BY <1>1, <1>4, <1>5, <1>11, BackKept DEF W01, W02, Receive
<1>12. CASE label_timer_count_down
  BY <1>1, <1>4, <1>5, <1>12, BackKept DEF label_timer_count_down,
     Firmware!label_timer_count_down, Receive
<1>13. CASE P01
  <2>1. /\ Waits(up, "P01") /\ up # <<>> /\ up' = Tail(up)
        /\ down' = send(down, "set_FREQ2", mode)
        /\ gptimer' = Firmware!Started /\ UNCHANGED <<Timer_queue, crossed>>
    BY <1>13, Taken DEF P01, Firmware!P01, Receive, FrameDropped
  <2>2. Comes(down', "back_win") => Comes(down, "back_win")
    BY <1>0, <1>4, <1>5, <2>1
  <2> QED
    BY <1>1, <2>1, <2>2 DEF BackInv, Firmware!Started
<1>14. CASE P02
  <2>1. /\ up # <<>> /\ up' = Tail(up) /\ UNCHANGED <<Timer_queue, down, crossed>>
        /\ gptimer' = Firmware!Stopped /\ began' = 0
    BY <1>14 DEF P02, Firmware!P02, Receive
  <2> QED
    BY <1>1, <2>1 DEF BackInv, Firmware!Stopped
<1>15. CASE FREQ2
  <2>1. /\ Waits(up, "FREQ2") /\ up # <<>> /\ up' = Tail(up)
        /\ UNCHANGED <<Timer_queue, down, crossed>>
        /\ gptimer' = Firmware!Started /\ began' = 0
    BY <1>15, Taken DEF FREQ2, Firmware!FREQ2, Receive, FrameDropped
  <2>2. ~crossed => ~Comes(down, "back_win")
    BY <2>1, LineFacts DEF TalkInv, Talking
  <2> QED
    BY <1>1, <2>1, <2>2 DEF BackInv, Firmware!Started
<1>16. CASE Tick
  <2>1. /\ gptimer # "null" /\ Timer_queue > 0 /\ up' = up
        /\ crossed' = (crossed \/ (Expires /\ InUp("P01")))
        /\ began' = IF Expires THEN 0 ELSE began
        /\ gptimer' = IF Expires THEN Firmware!Stopped ELSE gptimer
    BY <1>16 DEF Tick, Firmware!Tick, Expires
  <2>2. Comes(down', "back_win") => Comes(down, "back_win") \/ Expires
    BY <1>16, TickSent DEF TypeOK, SystemOK
  <2>3. began # 0 => gptimer = "running"
    BY <2>1 DEF BackInv, TypeOK, RunOK
  <2>4. CASE Expires
    BY <2>1, <2>4, LineFacts DEF BackInv, Firmware!Stopped
  <2>5. CASE ~Expires
    BY <2>1, <2>2, <2>3, <2>5 DEF BackInv
  <2> QED
    BY <2>4, <2>5
<1>17. CASE set_date \/ set_FREQ2 \/ set_text \/ back_win
  BY <1>2, <1>17, BackKept DEF set_date, set_FREQ2, set_text, back_win, Show
<1>18. CASE Answer
  BY <1>0, <1>2, <1>3, <1>6, <1>18, BackKept DEF Answer, answer, Show
<1>19. CASE \E v \in ModeValues : SelectMode(v)
  BY <1>0, <1>3, <1>6, <1>19, BackKept DEF SelectMode
<1>20. CASE PressStop
  <2>1. Waits(up', "P01") => Waits(up, "P01")
    BY <1>0, <1>3, <1>6, <1>20 DEF PressStop
  <2>2. ~crossed' => ~crossed \/ (gptimer # "running" /\ ~Waits(up, "P01"))
    BY <1>20, LineFacts DEF PressStop, StillCrossed
  <2> QED
    BY <1>20, <2>1, <2>2 DEF BackInv, PressStop
<1>21. CASE PressStart
  <2>1. ~crossed' => ~Comes(down, "back_win")
    BY <1>21, LineFacts DEF PressStart
  <2> QED
    BY <1>21, <2>1 DEF BackInv, PressStart
<1>22. CASE Reboot
  BY <1>22, NoFrame, NoMessage DEF Reboot, Firmware!Reboot, Firmware!Loaded, BackInv
<1> QED
  BY <1>7, <1>8, <1>9, <1>10, <1>11, <1>12, <1>13, <1>14, <1>15, <1>16, <1>17, <1>18, <1>19,
     <1>20, <1>21, <1>22 DEF Next, StartUp, stone_cmd, Display, User

\* What governs from place k + 1 governs from k when a frame has been taken.
LEMMA GovernsDropped ==
  ASSUME NEW s, NEW t, FrameDropped(s, t), NEW w, NEW f, NEW k \in Nat, NEW v,
         Governs(s, w, f, k + 1, v)
  PROVE  Governs(t, w, f, k, v)
<1>1. ASSUME NEW n, Frame(t, n, "FREQ1"), k < n
      PROVE  t[n].value = v \/ \E j : Frame(t, j, "P02") /\ k < j /\ j < n
  <2>1. n \in Nat /\ Frame(s, n + 1, "FREQ1") /\ t[n] = s[n + 1] /\ k + 1 < n + 1
    BY <1>1 DEF FrameDropped
  <2>2. CASE s[n + 1].value = v
    BY <2>1, <2>2
  <2>3. CASE \E j : Frame(s, j, "P02") /\ k + 1 < j /\ j < n + 1
    <3>1. PICK j : Frame(s, j, "P02") /\ k + 1 < j /\ j < n + 1
      BY <2>3
    <3>2. j \in Nat /\ Frame(t, j - 1, "P02")
      BY <3>1 DEF FrameDropped
    <3>3. k < j - 1 /\ j - 1 < n
      BY <2>1, <3>1, <3>2
    <3> QED
      BY <3>2, <3>3
  <2> QED
    BY <2>1, <2>2, <2>3 DEF Governs
<1>2. ASSUME NEW j, Frame(s, j, "P02"), k + 1 < j PROVE \E i : Frame(t, i, "P02") /\ k < i
  <2>1. j \in Nat /\ Frame(t, j - 1, "P02")
    BY <1>2 DEF FrameDropped
  <2>2. k < j - 1
    BY <1>2, <2>1
  <2> QED
    BY <2>1, <2>2
<1> QED
  BY <1>1, <1>2 DEF Governs

\* From the line's beginning it governs beyond a first frame that is not P02, and
\* that says so if it is a FREQ1.
LEMMA GovernsFirst ==
  ASSUME NEW s, NEW t, FrameDropped(s, t), NEW w, NEW f, NEW v, Governs(s, w, f, 0, v),
         s[1].widget # "P02"
  PROVE  /\ Governs(s, w, f, 1, v)
         /\ s[1].widget = "FREQ1" => s[1].value = v
<1>1. \A j : Frame(s, j, "P02") => j \in Nat /\ j > 1
  BY DEF FrameDropped
<1>2. \A j : Frame(s, j, "FREQ1") => j \in Nat
  BY DEF FrameDropped
<1>3. Governs(s, w, f, 1, v)
  BY <1>1, <1>2 DEF Governs
<1>4. ASSUME s[1].widget = "FREQ1" PROVE s[1].value = v
  <2>1. Frame(s, 1, "FREQ1")
    BY <1>4 DEF FrameDropped
  <2>2. ~ \E j : Frame(s, j, "P02") /\ 0 < j /\ j < 1
    BY <1>1
  <2> QED
    BY <2>1, <2>2 DEF Governs
<1> QED
  BY <1>3, <1>4

\* Another frame: at W02 the display says what it shows, and W02 is left with P02.
LEMMA GovernsAppended ==
  ASSUME NEW s \in Seq(Frames), NEW t, NEW x, NEW y, FrameAppended(s, t, x, y),
         NEW w, NEW f, NEW w2, NEW f2, NEW k \in 0 .. Len(s), NEW v,
         w = "W02" /\ x # "P02" => w2 = w /\ f2 = f,
         w = "W02" /\ x = "FREQ1" => y = f,
         Governs(s, w, f, k, v)
  PROVE  Governs(t, w2, f2, k, v)
<1>0. Len(s) \in Nat /\ k < Len(s) + 1
  BY LenProperties
<1>1. \A j : Frame(s, j, "P02") => Frame(t, j, "P02") /\ j < Len(s) + 1
  BY <1>0, Places DEF FrameAppended
<1>2. ASSUME NEW n, Frame(t, n, "FREQ1"), k < n
      PROVE  t[n].value = v \/ \E j : Frame(t, j, "P02") /\ k < j /\ j < n
  <2>1. CASE Frame(s, n, "FREQ1")
    <3>1. t[n] = s[n]
      BY <2>1 DEF FrameAppended
    <3> QED
      BY <1>1, <1>2, <2>1, <3>1 DEF Governs
  <2>2. CASE ~Frame(s, n, "FREQ1")
    <3>1. n = Len(s) + 1 /\ x = "FREQ1" /\ t[n].value = y
      BY <1>2, <2>2 DEF FrameAppended
    <3>2. CASE w = "W02" /\ f = v
      BY <3>1, <3>2
    <3>3. CASE \E j : Frame(s, j, "P02") /\ k < j
      BY <1>1, <3>1, <3>3
    <3> QED
      BY <3>2, <3>3 DEF Governs
  <2> QED
    BY <2>1, <2>2
<1>3. (w2 = "W02" /\ f2 = v) \/ \E j : Frame(t, j, "P02") /\ k < j
  <2>1. CASE \E j : Frame(s, j, "P02") /\ k < j
    BY <1>1, <2>1
  <2>2. CASE w = "W02" /\ f = v /\ x # "P02"
    BY <2>2
  <2>3. CASE x = "P02"
    <3>1. Frame(t, Len(s) + 1, "P02")
      BY <2>3 DEF FrameAppended
    <3> QED
      BY <1>0, <3>1
  <2> QED
    BY <2>1, <2>2, <2>3 DEF Governs
<1> QED
  BY <1>2, <1>3 DEF Governs

LEMMA RunInit == Init => RunInv /\ PressInv
BY NoFrame DEF Init, RunInv, PressInv

\* A run keeps the mode it was started with.
LEMMA RunStep ==
  TypeOK /\ SilentInv /\ ModeInv /\ BackInv /\ RunInv /\ PressInv /\ [Next]_vars
    => RunInv' /\ PressInv'
<1> SUFFICES ASSUME TypeOK, SilentInv, ModeInv, BackInv, RunInv, PressInv, [Next]_vars
             PROVE  RunInv' /\ PressInv'
  OBVIOUS
<1> USE DEF firmware, system, display, observed
<1>0. /\ countdown \in Times /\ countdown \in Nat /\ FREQ1_label \in Nat /\ FREQ2_label \in Nat
      /\ win \in {"W01", "W02"} /\ mode \in Nat /\ ModeValues \subseteq Nat
      /\ up \in Seq(Frames) /\ uart \in BOOLEAN /\ Len(up) \in Nat
  BY ConstantFacts, DialogueConstantsOK, LenProperties
     DEF TypeOK, SystemOK, RunOK, LineOK, Times
\* The line and the display stay as they are, and no doubt ends.
<1>1. ASSUME UNCHANGED <<up, win, FREQ1_label, mode>>, ~crossed' => ~crossed,
             gptimer' = "null" => gptimer = "null",
             began' # 0 => began' = began /\ (gptimer' # "running" => gptimer # "running")
      PROVE  RunInv' /\ PressInv'
  BY <1>1 DEF RunInv, PressInv
\* A frame is taken; PressInv speaks of the others.
<1>2. ASSUME up # <<>>, up' = Tail(up), UNCHANGED <<win, FREQ1_label, crossed>>,
             gptimer' = "null" => gptimer = "null"
      PROVE  PressInv'
  <2>1. PICK t : t = up'
    OBVIOUS
  <2>2. FrameDropped(up, t)
    BY <1>2, <2>1, Taken
  <2>3. ASSUME NEW k, Frame(t, k, "P01"), gptimer = "null" \/ ~crossed
        PROVE  Governs(t, win, FREQ1_label, k, t[k].value)
    <3>1. k \in Nat /\ Frame(up, k + 1, "P01") /\ t[k] = up[k + 1]
      BY <2>2, <2>3 DEF FrameDropped
    <3>2. Governs(up, win, FREQ1_label, k + 1, t[k].value)
      BY <2>3, <3>1 DEF PressInv
    <3> QED
      BY <2>2, <3>1, <3>2, GovernsDropped
  <2> QED
    BY <1>2, <2>1, <2>3 DEF PressInv
<1>3. ASSUME up # <<>>, up' = Tail(up), UNCHANGED <<win, FREQ1_label, crossed, gptimer, began>>,
             up[1].widget # "P02",
             mode' = IF up[1].widget = "FREQ1" THEN up[1].value ELSE mode
      PROVE  RunInv'
  <2>1. PICK t : t = up'
    OBVIOUS
  <2>2. FrameDropped(up, t)
    BY <1>3, <2>1, Taken
  <2>3. ASSUME began # 0, gptimer # "running" \/ ~crossed
        PROVE  /\ Governs(t, win, FREQ1_label, 0, began)
               /\ mode' = began
    <3>1. mode = began /\ Governs(up, win, FREQ1_label, 0, began)
      BY <2>3 DEF RunInv
    <3>2. /\ Governs(up, win, FREQ1_label, 0 + 1, began)
          /\ up[1].widget = "FREQ1" => up[1].value = began
      BY <1>3, <2>2, <3>1, GovernsFirst
    <3> QED
      BY <1>3, <2>2, <3>1, <3>2, GovernsDropped
  <2> QED
    BY <1>3, <2>1, <2>3 DEF RunInv
\* A frame is sent.
<1>4. ASSUME NEW x \in UpNames, NEW y \in Nat, x = "label_timer_count_down" => y \in Times,
             up' = press(x, y), UNCHANGED <<mode, gptimer, began>>,
             win = "W02" /\ x # "P02" => UNCHANGED <<win, FREQ1_label>>,
             win = "W02" /\ x = "FREQ1" => y = FREQ1_label,
             ~crossed' => ~crossed \/ (gptimer # "running" /\ ~Waits(up, "P01")),
             x = "P01" => win' = "W02" /\ FREQ1_label' = y
      PROVE  RunInv' /\ PressInv'
  <2>1. CASE ~uart
    <3>1. up' = <<>> /\ began = 0
      BY <1>4, <2>1 DEF press, SilentInv
    <3> QED
      BY <1>4, <3>1, NoFrame DEF RunInv, PressInv
  <2>2. CASE uart
    <3>1. PICK t, w, f : t = up' /\ w = win' /\ f = FREQ1_label'
      OBVIOUS
    <3>2. FrameAppended(up, t, x, y)
      BY <1>4, <2>2, <3>1, Pressed
    <3>3. ASSUME NEW k \in 0 .. Len(up), NEW v, Governs(up, win, FREQ1_label, k, v)
          PROVE  Governs(t, w, f, k, v)
      <4>1. /\ win = "W02" /\ x # "P02" => w = win /\ f = FREQ1_label
            /\ win = "W02" /\ x = "FREQ1" => y = FREQ1_label
        BY <1>4, <3>1
      <4> QED
        BY <1>0, <3>2, <3>3, <4>1, GovernsAppended
    <3>4. ASSUME began # 0, gptimer # "running" \/ ~crossed'
          PROVE  mode = began /\ Governs(t, w, f, 0, began)
      <4>1. gptimer # "running" \/ ~crossed
        BY <1>4, <3>4
      <4> QED
        BY <1>0, <3>3, <3>4, <4>1 DEF RunInv
    <3>5. ASSUME NEW k, Frame(t, k, "P01"), gptimer = "null" \/ ~crossed'
          PROVE  Governs(t, w, f, k, t[k].value)
      <4>1. CASE Frame(up, k, "P01")
        <5>1. Waits(up, "P01")
          BY <4>1 DEF Waits, Frame
        <5>2. gptimer = "null" \/ ~crossed
          BY <1>4, <3>5, <5>1
        <5>3. k \in 0 .. Len(up) /\ t[k] = up[k]
          BY <1>0, <3>2, <4>1, Places DEF FrameAppended
        <5>4. Governs(up, win, FREQ1_label, k, t[k].value)
          BY <4>1, <5>2, <5>3 DEF PressInv
        <5> QED
          BY <3>3, <5>3, <5>4
      <4>2. CASE ~Frame(up, k, "P01")
        <5>1. k = Len(up) + 1 /\ x = "P01" /\ t[k].value = y /\ w = "W02" /\ f = y
          BY <1>4, <3>1, <3>2, <3>5, <4>2 DEF FrameAppended
        <5>2. \A n : Frame(t, n, "FREQ1") => ~(k < n)
          <6>1. ASSUME NEW n, Frame(t, n, "FREQ1") PROVE n \in Nat /\ n <= Len(up) + 1
            BY <1>0, <3>2, <6>1, Places DEF FrameAppended
          <6> QED
            BY <1>0, <5>1, <6>1
        <5> QED
          BY <5>1, <5>2 DEF Governs
      <4> QED
        BY <4>1, <4>2
    <3> QED
      BY <1>4, <3>1, <3>4, <3>5 DEF RunInv, PressInv
  <2> QED
    BY <1>0, <2>1, <2>2
<1>5. CASE uart_driver_install \/ get_date \/ get_displayed_window \/ UNCHANGED vars
  BY <1>1, <1>5 DEF uart_driver_install, get_date, get_displayed_window, vars
<1>6. CASE TimerSetup
  BY <1>1, <1>6 DEF TimerSetup, Firmware!TimerSetup
<1>7. CASE timer_on_alarm_cb
  BY <1>1, <1>7 DEF timer_on_alarm_cb, Firmware!timer_on_alarm_cb
<1>8. CASE Tick
  BY <1>1, <1>8 DEF Tick, Firmware!Tick, Firmware!Stopped, Expires, TypeOK, ObserversOK
<1>9. CASE FREQ1
  BY <1>2, <1>3, <1>9 DEF FREQ1, Firmware!FREQ1, Receive, Value
<1>10. CASE P01
  <2>1. /\ up # <<>> /\ up[1].widget = "P01" /\ up' = Tail(up)
        /\ UNCHANGED <<win, FREQ1_label, mode, crossed>>
        /\ gptimer' = Firmware!Started /\ began' = IF known THEN up[1].value ELSE 0
    BY <1>10 DEF P01, Firmware!P01, Receive, Value
  <2>2. PressInv'
    BY <1>2, <2>1 DEF Firmware!Started
  <2>3. PICK t : t = up'
    OBVIOUS
  <2>4. FrameDropped(up, t)
    BY <2>1, <2>3, Taken
  <2>5. Frame(up, 1, "P01")
    BY <2>1, <2>4 DEF FrameDropped
  <2>6. ASSUME known PROVE mode = up[1].value
    <3>1. Told(up, mode, known, 1, up[1].value)
      BY <2>5 DEF ModeInv
    <3>2. \A j : Frame(up, j, "FREQ1") => 1 <= j
      BY <1>0, Places
    <3> QED
      BY <2>6, <3>1, <3>2 DEF Told
  <2>7. ASSUME gptimer = "null" \/ ~crossed
        PROVE  Governs(t, win, FREQ1_label, 0, up[1].value)
    <3>1. Governs(up, win, FREQ1_label, 0 + 1, up[1].value)
      BY <2>5, <2>7 DEF PressInv
    <3> QED
      BY <2>4, <3>1, GovernsDropped
  <2>8. RunInv'
    BY <2>1, <2>3, <2>6, <2>7 DEF RunInv, Firmware!Started
  <2> QED
    BY <2>2, <2>8
<1>11. CASE P02 \/ FREQ2
  <2>1. /\ up # <<>> /\ up' = Tail(up) /\ UNCHANGED <<win, FREQ1_label, crossed>>
        /\ gptimer' = "null" => gptimer = "null"
        /\ began' = 0
    BY <1>11 DEF P02, FREQ2, Firmware!P02, Firmware!FREQ2, Receive, Firmware!Stopped,
       Firmware!Started
  <2>2. RunInv'
    BY <2>1 DEF RunInv
  <2> QED
    BY <1>2, <2>1, <2>2
<1>12. CASE digit_clock1 \/ W01 \/ W02
  BY <1>2, <1>3, <1>12 DEF digit_clock1, W01, W02, Receive
<1>13. CASE label_timer_count_down
  BY <1>2, <1>3, <1>13 DEF label_timer_count_down, Firmware!label_timer_count_down, Receive
<1>14. CASE set_date \/ set_FREQ2 \/ set_text
  BY <1>1, <1>14 DEF set_date, set_FREQ2, set_text
\* back_win is shown when there is no run, or one in doubt.
<1>15. CASE back_win
  <2>1. Comes(down, "back_win") /\ UNCHANGED <<up, mode, crossed, gptimer, began, FREQ1_label>>
    BY <1>15, Shown DEF back_win, Show, MessageDropped
  <2>2. ~(began # 0 /\ (gptimer # "running" \/ ~crossed))
    BY <2>1 DEF BackInv
  <2>3. ~(Waits(up, "P01") /\ (gptimer = "null" \/ ~crossed))
    BY <2>1 DEF BackInv
  <2>4. \A k : Frame(up, k, "P01") => Waits(up, "P01")
    BY DEF Waits, Frame
  <2> QED
    BY <2>1, <2>2, <2>3, <2>4 DEF RunInv, PressInv
<1>16. CASE Answer
  <2>1. {"W01", "W02", "digit_clock1", "FREQ1", "label_timer_count_down", "FREQ2"}
          \subseteq UpNames
    BY DEF UpNames
  <2>2. PICK x \in UpNames, y \in Nat :
          /\ x = "label_timer_count_down" => y \in Times
          /\ up' = press(x, y) /\ UNCHANGED <<mode, gptimer, began, win, FREQ1_label, crossed>>
          /\ x \notin {"P01", "P02"}
          /\ x = "FREQ1" => y = FREQ1_label
    BY <1>0, <1>16, <2>1 DEF Answer, answer
  <2> QED
    BY <1>4, <2>2
<1>17. CASE User
  <2>1. {"FREQ1", "P01", "P02"} \subseteq UpNames
    BY DEF UpNames
  <2>2. CASE \E v \in ModeValues : SelectMode(v)
    BY <1>0, <1>4, <2>1, <2>2 DEF SelectMode
  <2>3. CASE PressStart
    <3>1. ~crossed' => ~crossed \/ (gptimer # "running" /\ ~Waits(up, "P01"))
      BY <2>3, LineFacts DEF PressStart, StillCrossed
    <3> QED
      BY <1>0, <1>4, <2>1, <2>3, <3>1 DEF PressStart
  <2>4. CASE PressStop
    <3>1. ~crossed' => ~crossed \/ (gptimer # "running" /\ ~Waits(up, "P01"))
      BY <2>4, LineFacts DEF PressStop, StillCrossed
    <3> QED
      BY <1>0, <1>4, <2>1, <2>4, <3>1 DEF PressStop
  <2> QED
    BY <1>17, <2>2, <2>3, <2>4 DEF User
<1>18. CASE Reboot
  BY <1>18, NoFrame DEF Reboot, RunInv, PressInv
<1> QED
  BY <1>5, <1>6, <1>7, <1>8, <1>9, <1>10, <1>11, <1>12, <1>13, <1>14, <1>15, <1>16, <1>17,
     <1>18 DEF Next, StartUp, stone_cmd, Display

LEMMA Runs == Spec => []RunsInv
<1>1. Init => RunsInv
  BY TypeInit, SilentInit, ModeInit, ChainInit, TalkInit, BackInit, RunInit DEF RunsInv
<1>2. RunsInv /\ [Next]_vars => RunsInv'
  BY TypeStep, SilentStep, ModeStep, ChainStep, TalkStep, BackStep, RunStep DEF RunsInv
<1> QED
  BY <1>1, <1>2, PTL DEF Spec

\* A run is logged under the mode the display showed when it was started, whatever
\* resets, lost frames and late answers came before, unless it was resumed, was
\* started before the display had told its FREQ1 since the reset, or is crossed.
THEOREM LoggedAsStarted == Spec => LoggedUnderItsMode
<1>1. RunsInv /\ [Next]_vars =>
        [P02 \/ (Tick /\ Expires) =>
           (began # 0 /\ ~crossed => entry'.mode = began)]_vars
  <2> SUFFICES ASSUME RunsInv, P02 \/ (Tick /\ Expires), began # 0, ~crossed
               PROVE  entry'.mode = began
    OBVIOUS
  <2>1. mode = began
    BY DEF RunsInv, RunInv
  <2>2. entry'.mode = mode
    <3>1. \E time : entry' = Firmware!Entry(mode, time)
      BY DEF P02, Firmware!P02, Tick, Firmware!Tick, Expires
    <3> QED
      BY <3>1 DEF Firmware!Entry
  <2> QED
    BY <2>1, <2>2
<1> QED
  BY <1>1, Runs, PTL DEF Spec, LoggedUnderItsMode
-----------------------------------------------------------------------------
(* WindowMatchesRun.                                                       *)

\* While the dialogue goes on nobody else speaks.
LEMMA Quiet ==
  ASSUME TypeOK, ChainInv, TalkInv, [Next]_vars, ~Reboot, Talking', ~crossed'
  PROVE  /\ Talking /\ ~crossed
         /\ UNCHANGED <<win, FREQ2_label, countdown>>
         /\ \/ StartUp \/ FREQ1 \/ digit_clock1 \/ W01 \/ W02 \/ label_timer_count_down
            \/ Answer \/ set_date \/ (\E v \in ModeValues : SelectMode(v)) \/ UNCHANGED vars
<1>1. Talking /\ ~FREQ2
  BY TalkingBefore
<1>2. ~PressStart /\ ~PressStop
  BY <1>1 DEF PressStart, PressStop
<1>3. ~crossed
  BY <1>2, Uncrossed
<1>4. /\ gptimer # "running" /\ Timer_queue = 0
      /\ ~Waits(up, "P01") /\ ~Waits(up, "P02")
      /\ ~Comes(down, "back_win") /\ ~Comes(down, "set_text") /\ ~Comes(down, "set_FREQ2")
  BY <1>1, <1>3 DEF TalkInv
<1>5. ~P01 /\ ~P02 /\ ~Tick /\ ~timer_on_alarm_cb
  BY <1>4, Taken DEF P01, P02, Tick, Firmware!Tick, timer_on_alarm_cb,
     Firmware!timer_on_alarm_cb, Receive, FrameDropped
<1>6. ~back_win /\ ~set_text /\ ~set_FREQ2
  BY <1>4, Shown DEF back_win, set_text, set_FREQ2, Show, MessageDropped
<1>7. \/ StartUp \/ FREQ1 \/ digit_clock1 \/ W01 \/ W02 \/ label_timer_count_down
      \/ Answer \/ set_date \/ (\E v \in ModeValues : SelectMode(v)) \/ UNCHANGED vars
  BY <1>1, <1>2, <1>5, <1>6 DEF Next, stone_cmd, Display, User
<1>8. UNCHANGED <<win, FREQ2_label, countdown>>
  BY <1>7 DEF StartUp, uart_driver_install, TimerSetup, get_date, get_displayed_window, FREQ1,
     digit_clock1, W01, W02, label_timer_count_down, Answer, answer, set_date, SelectMode, vars,
     display
<1> QED
  BY <1>1, <1>3, <1>7, <1>8

LEMMA ResumeInit == Init => ResumeInv
BY NoFrame, NoMessage, NoneAsked DEF Init, ResumeInv

\* What the dialogue has been told stays true.
LEMMA ResumeStep ==
  TypeOK /\ ChainInv /\ TalkInv /\ ResumeInv /\ [Next]_vars => ResumeInv'
<1> SUFFICES ASSUME TypeOK, ChainInv, TalkInv, ResumeInv, [Next]_vars, ~crossed'
             PROVE  ResumeInv'
  BY DEF ResumeInv
<1> USE DEF firmware, system, observed
<1>0. /\ countdown \in Times /\ countdown \in Nat /\ FREQ1_label \in Nat /\ FREQ2_label \in Nat
      /\ win \in {"W01", "W02"} /\ ModeValues \subseteq Nat /\ uart \in BOOLEAN
  BY ConstantFacts, DialogueConstantsOK DEF TypeOK, SystemOK, Times
<1>1. CASE Reboot
  BY <1>1, NoFrame, NoMessage, NoneAsked DEF Reboot, ResumeInv
<1>2. CASE ~Talking'
  <2>1. TypeOK'
    BY TypeStep
  <2>2. AskedUp(up') = {} /\ AskedDown(down') = {}
    BY <1>2, <2>1, TalkingThen
  <2>3. /\ \A k : ~Frame(up', k, "label_timer_count_down") /\ ~Frame(up', k, "FREQ2")
        /\ ~Waits(up', "FREQ2") /\ ~Comes(down', "get_text") /\ ~Comes(down', "get_FREQ2")
    BY <2>2 DEF AskedUp, AskedDown, AskFrames, AskMessages, Frame, Waits, Message, Comes
  <2> QED
    BY <2>2, <2>3 DEF ResumeInv
<1>3. CASE Talking' /\ ~Reboot
  <2>1. /\ Talking /\ ~crossed
        /\ UNCHANGED <<win, FREQ2_label, countdown>>
        /\ \/ StartUp \/ FREQ1 \/ digit_clock1 \/ W01 \/ W02 \/ label_timer_count_down
           \/ Answer \/ set_date \/ (\E v \in ModeValues : SelectMode(v)) \/ UNCHANGED vars
    BY <1>3, Quiet
  <2>2. PICK t, d : t = up' /\ d = down'
    OBVIOUS
  <2> DEFINE UpOK == \A k : /\ Frame(t, k, "label_timer_count_down") => t[k].value = countdown
                            /\ Frame(t, k, "FREQ2") => t[k].value = FREQ2_label
             Asking == AskedUp(up) # {} \/ Comes(down, "get_text") \/ Comes(down, "get_FREQ2")
             AskingOn == AskedUp(t) # {} \/ Comes(d, "get_text") \/ Comes(d, "get_FREQ2")
             Reading == Comes(down, "get_FREQ2") \/ Waits(up, "FREQ2")
             ReadingOn == Comes(d, "get_FREQ2") \/ Waits(t, "FREQ2")
  <2>3. ASSUME UpOK, AskingOn => win = "W02", ReadingOn => record' = AsRead(countdown)
        PROVE  ResumeInv'
    BY <2>1, <2>2, <2>3 DEF ResumeInv
  \* What a step of either end does to its line.
  <2>4. ASSUME up # <<>>, up' = Tail(up)
        PROVE  /\ UpOK /\ (AskedUp(up) = {} => AskedUp(t) = {})
               /\ Waits(t, "FREQ2") => Waits(up, "FREQ2")
    <3>1. FrameDropped(up, t)
      BY <2>2, <2>4, Taken
    <3>2. UpOK
      BY <2>1, <3>1 DEF FrameDropped, ResumeInv
    <3> QED
      BY <3>1, <3>2, AskedUpDropped DEF FrameDropped
  <2>5. ASSUME NEW x \in UpNames, NEW v \in Nat, up' = press(x, v),
               x = "label_timer_count_down" => v \in Times /\ v = countdown,
               x = "FREQ2" => v = FREQ2_label
        PROVE  /\ UpOK /\ (x \notin AskFrames => AskedUp(t) = AskedUp(up))
               /\ Waits(t, "FREQ2") => Waits(up, "FREQ2") \/ x = "FREQ2"
    <3>1. CASE ~uart
      BY <2>1, <2>2, <2>5, <3>1, Pressed DEF ResumeInv
    <3>2. CASE uart
      <4>1. FrameAppended(up, t, x, v)
        BY <2>2, <2>5, <3>2, Pressed
      <4>2. UpOK
        BY <2>1, <2>5, <4>1 DEF FrameAppended, ResumeInv
      <4> QED
        BY <4>1, <4>2, AskedUpAppended DEF FrameAppended
    <3> QED
      BY <1>0, <3>1, <3>2
  <2>6. ASSUME up' = up PROVE UpOK
    BY <2>1, <2>2, <2>6 DEF ResumeInv
  <2>7. ASSUME down # <<>>, down' = Tail(down)
        PROVE  \A m : Comes(d, m) => Comes(down, m)
    BY <2>2, <2>7, Shown DEF MessageDropped
  <2>8. ASSUME NEW x \in DownNames, NEW v \in Nat, x # "set_text", down' = send(down, x, v)
        PROVE  \A m : Comes(d, m) => Comes(down, m) \/ m = x
    <3>1. CASE ~uart
      BY <2>2, <2>8, <3>1, Sent
    <3>2. CASE uart
      <4>1. MessageAppended(down, d, x, v)
        BY <2>2, <2>8, <3>2, Sent
      <4> QED
        BY <4>1 DEF MessageAppended
    <3> QED
      BY <1>0, <3>1, <3>2
  <2>9. ASSUME Asking PROVE win = "W02"
    BY <2>1, <2>9 DEF ResumeInv
  <2>10. ASSUME Reading PROVE record = AsRead(countdown)
    BY <2>1, <2>10 DEF ResumeInv
  <2>11. ASSUME up # <<>>, up[1].widget \in AskFrames, up' = Tail(up) PROVE Asking
    BY <2>11, AskedTaken
  <2>12. DownNames = {"get_date", "get_displayed_window", "get_FREQ1", "get_text",
                      "get_FREQ2", "set_date", "set_FREQ2", "set_text", "back_win"}
    BY DEF DownNames
  <2>13. CASE uart_driver_install \/ TimerSetup \/ UNCHANGED vars
    <3>1. UNCHANGED <<up, down, record>>
      BY <2>13 DEF uart_driver_install, TimerSetup, Firmware!TimerSetup, Firmware!counters, vars
    <3> QED
      BY <2>2, <2>3, <2>6, <2>9, <2>10, <3>1
  <2>14. CASE get_date \/ get_displayed_window
    <3>1. PICK x \in {"get_date", "get_displayed_window"} :
            UNCHANGED <<up, record>> /\ down' = send(down, x, 0)
      BY <2>14 DEF get_date, get_displayed_window
    <3>2. \A m : Comes(d, m) => Comes(down, m) \/ m = x
      BY <2>8, <2>12, <3>1
    <3> QED
      BY <2>2, <2>3, <2>6, <2>9, <2>10, <3>1, <3>2
  <2>15. CASE FREQ1 \/ digit_clock1 \/ W01
    <3>1. up # <<>> /\ up' = Tail(up) /\ record' = record
      BY <2>15 DEF FREQ1, Firmware!FREQ1, Firmware!counters, digit_clock1, W01, Receive
    <3>2. Comes(d, "get_text") => Comes(down, "get_text")
      BY <2>2, <2>8, <2>12, <2>15 DEF FREQ1, digit_clock1, W01
    <3>3. Comes(d, "get_FREQ2") => Comes(down, "get_FREQ2")
      BY <2>2, <2>8, <2>12, <2>15 DEF FREQ1, digit_clock1, W01
    <3> QED
      BY <2>3, <2>4, <2>9, <2>10, <3>1, <3>2, <3>3
  <2>16. CASE W02
    <3>1. /\ up # <<>> /\ up[1].widget \in AskFrames /\ up' = Tail(up) /\ record' = record
          /\ down' = send(down, "get_text", 0)
      BY <2>16 DEF W02, Receive, AskFrames
    <3>2. \A m : Comes(d, m) => Comes(down, m) \/ m = "get_text"
      BY <2>8, <2>12, <3>1
    <3> QED
      BY <2>3, <2>4, <2>9, <2>10, <2>11, <3>1, <3>2
  <2>17. CASE label_timer_count_down
    <3>1. /\ up # <<>> /\ up[1].widget = "label_timer_count_down" /\ up' = Tail(up)
          /\ up[1].widget \in AskFrames
      BY <2>17 DEF label_timer_count_down, Receive, AskFrames
    <3>2. up[1].value = countdown
      <4>1. Frame(up, 1, "label_timer_count_down")
        BY <3>1, Taken DEF FrameDropped
      <4> QED
        BY <2>1, <4>1 DEF ResumeInv
    <3>3. AskedUp(t) = {} /\ AskedDown(down) = {}
      BY <2>2, <3>1, AskedTaken DEF ChainInv
    <3>4. ~Waits(t, "FREQ2") /\ ~Comes(down, "get_FREQ2")
      BY <3>3 DEF AskedUp, AskedDown, AskFrames, AskMessages, Waits, Frame, Comes, Message
    <3>5. CASE Value = NoText
      <4>1. down' = down
        BY <2>17, <3>5 DEF label_timer_count_down
      <4> QED
        BY <2>2, <2>3, <2>4, <2>9, <2>11, <3>1, <3>4, <4>1
    <3>6. CASE Value # NoText
      <4>1. record' = AsRead(countdown)
        BY <2>17, <3>2, <3>6 DEF label_timer_count_down, Firmware!label_timer_count_down, Value
      <4> QED
        BY <2>3, <2>4, <2>9, <2>11, <3>1, <4>1
    <3> QED
      BY <3>5, <3>6
  <2>18. CASE set_date
    <3>1. UNCHANGED <<up, record>> /\ down # <<>> /\ down' = Tail(down)
      BY <2>18 DEF set_date, Show
    <3> QED
      BY <2>2, <2>3, <2>6, <2>7, <2>9, <2>10, <3>1
  <2>19. CASE \E v \in ModeValues : SelectMode(v)
    <3>1. PICK v \in Nat : up' = press("FREQ1", v) /\ UNCHANGED <<down, record>>
      BY <1>0, <2>19 DEF SelectMode
    <3>2. "FREQ1" \in UpNames /\ "FREQ1" \notin AskFrames
      BY DEF UpNames, AskFrames
    <3> QED
      BY <2>2, <2>3, <2>5, <2>9, <2>10, <3>1, <3>2
  <2>20. CASE Answer
    <3>1. /\ {"W01", "W02", "digit_clock1", "FREQ1", "label_timer_count_down", "FREQ2"}
               \subseteq UpNames
          /\ {"W01", "digit_clock1", "FREQ1"} \cap AskFrames = {}
      BY DEF UpNames, AskFrames
    <3>2. record' = record /\ down # <<>> /\ down' = Tail(down)
      BY <2>20 DEF Answer, answer, Show
    <3>3. \A m : Comes(d, m) => Comes(down, m)
      BY <2>7, <3>2
    <3>4. Comes(down, down[1].cmd)
      BY <3>2, Shown DEF MessageDropped
    <3>5. CASE answer("get_date", "digit_clock1", 0) \/ answer("get_FREQ1", "FREQ1", FREQ1_label)
      <4>1. PICK x \in {"digit_clock1", "FREQ1"}, v \in Nat : up' = press(x, v)
        BY <1>0, <3>5 DEF answer
      <4> QED
        BY <2>3, <2>5, <2>9, <2>10, <3>1, <3>2, <3>3, <4>1
    <3>6. CASE answer("get_displayed_window", win, 0)
      <4>1. up' = press(win, 0)
        BY <3>6 DEF answer
      <4> QED
        BY <1>0, <2>3, <2>5, <2>9, <2>10, <3>1, <3>2, <3>3, <4>1
    <3>7. CASE answer("get_text", "label_timer_count_down", countdown)
      <4>1. up' = press("label_timer_count_down", countdown) /\ Asking
        BY <3>4, <3>7 DEF answer, Show
      <4> QED
        BY <1>0, <2>3, <2>5, <2>9, <2>10, <3>1, <3>2, <3>3, <4>1
    <3>8. CASE answer("get_FREQ2", "FREQ2", FREQ2_label)
      <4>1. up' = press("FREQ2", FREQ2_label) /\ Asking /\ Reading
        BY <3>4, <3>8 DEF answer, Show
      <4> QED
        BY <1>0, <2>3, <2>5, <2>9, <2>10, <3>1, <3>2, <3>3, <4>1
    <3> QED
      BY <2>20, <3>5, <3>6, <3>7, <3>8 DEF Answer
  <2> QED
    BY <2>1, <2>13, <2>14, <2>15, <2>16, <2>17, <2>18, <2>19, <2>20 DEF StartUp
<1> QED
  BY <1>1, <1>2, <1>3

LEMMA StopInit == Init => StopInv
BY NoFrame DEF Init, StopInv

\* After P02 the display stays at W01 until P01.
LEMMA StopStep == TypeOK /\ SilentInv /\ StopInv /\ [Next]_vars => StopInv'
<1> SUFFICES ASSUME TypeOK, SilentInv, StopInv, [Next]_vars PROVE StopInv'
  OBVIOUS
<1> USE DEF firmware, system, display, observed
<1>0. /\ countdown \in Times /\ countdown \in Nat /\ FREQ1_label \in Nat /\ FREQ2_label \in Nat
      /\ win \in {"W01", "W02"} /\ ModeValues \subseteq Nat
      /\ up \in Seq(Frames) /\ uart \in BOOLEAN /\ Len(up) \in Nat
  BY ConstantFacts, DialogueConstantsOK, LenProperties
     DEF TypeOK, SystemOK, LineOK, Times
<1>1. ASSUME UNCHANGED <<up, win>> PROVE StopInv'
  BY <1>1 DEF StopInv
<1>2. ASSUME up # <<>>, up' = Tail(up), win' = win PROVE StopInv'
  <2>1. PICK t : t = up'
    OBVIOUS
  <2>2. FrameDropped(up, t)
    BY <1>2, <2>1, Taken
  <2>3. ASSUME NEW k, Frame(t, k, "P02"), \A j : Frame(t, j, "P01") => j <= k
        PROVE  win = "W01"
    <3>1. k \in Nat /\ k >= 1 /\ Frame(up, k + 1, "P02")
      BY <2>2, <2>3 DEF FrameDropped
    <3>2. ASSUME NEW j, Frame(up, j, "P01") PROVE j <= k + 1
      <4>1. j = 1 \/ (j \in Nat /\ Frame(t, j - 1, "P01"))
        BY <2>2, <3>2 DEF FrameDropped
      <4> QED
        BY <2>3, <3>1, <4>1
    <3> QED
      BY <3>1, <3>2 DEF StopInv
  <2> QED
    BY <1>2, <2>1, <2>3 DEF StopInv
<1>3. ASSUME NEW x \in UpNames, NEW v \in Nat, x = "label_timer_count_down" => v \in Times,
             up' = press(x, v), win' = win \/ x = "P01", x # "P02"
      PROVE  StopInv'
  <2>1. CASE ~uart
    BY <2>1, <1>3, NoFrame DEF SilentInv, StopInv, press
  <2>2. CASE uart
    <3>1. PICK t, w : t = up' /\ w = win'
      OBVIOUS
    <3>2. FrameAppended(up, t, x, v)
      BY <1>3, <2>2, <3>1, Pressed
    <3>3. ASSUME NEW k, Frame(t, k, "P02"), \A j : Frame(t, j, "P01") => j <= k
          PROVE  w = "W01"
      <4>1. Frame(up, k, "P02") /\ k \in Nat /\ k <= Len(up)
        BY <1>3, <3>2, <3>3 DEF FrameAppended
      <4>2. x # "P01"
        <5>1. x = "P01" => Len(up) + 1 <= k
          BY <3>2, <3>3 DEF FrameAppended
        <5> QED
          BY <1>0, <4>1, <5>1
      <4>3. \A j : Frame(up, j, "P01") => Frame(t, j, "P01")
        BY <3>2 DEF FrameAppended
      <4>4. win = "W01"
        BY <3>3, <4>1, <4>3 DEF StopInv
      <4> QED
        BY <1>3, <3>1, <4>2, <4>4
    <3> QED
      BY <3>1, <3>3 DEF StopInv
  <2> QED
    BY <1>0, <2>1, <2>2
<1>4. CASE StartUp \/ timer_on_alarm_cb \/ Tick \/ UNCHANGED vars
  BY <1>1, <1>4 DEF StartUp, uart_driver_install, TimerSetup, get_date, get_displayed_window,
     timer_on_alarm_cb, Tick, vars
<1>5. CASE stone_cmd
  BY <1>2, <1>5 DEF stone_cmd, FREQ1, P01, P02, digit_clock1, W01, W02,
     label_timer_count_down, FREQ2, Receive
<1>6. CASE set_date \/ set_FREQ2 \/ set_text
  BY <1>1, <1>6 DEF set_date, set_FREQ2, set_text
<1>7. CASE back_win \/ PressStop
  BY <1>7 DEF back_win, PressStop, StopInv
<1>8. CASE Answer
  <2>1. {"W01", "W02", "digit_clock1", "FREQ1", "label_timer_count_down", "FREQ2"}
          \subseteq UpNames
    BY DEF UpNames
  <2> QED
    BY <1>0, <1>3, <1>8, <2>1 DEF Answer, answer
<1>9. CASE PressStart \/ \E v \in ModeValues : SelectMode(v)
  <2>1. {"FREQ1", "P01"} \subseteq UpNames
    BY DEF UpNames
  <2> QED
    BY <1>0, <1>3, <1>9, <2>1 DEF PressStart, SelectMode
<1>10. CASE Reboot
  BY <1>10, NoFrame DEF Reboot, StopInv
<1> QED
  BY <1>4, <1>5, <1>6, <1>7, <1>8, <1>9, <1>10 DEF Next, Display, User

LEMMA MatchInit == Init => MatchInv
BY DEF Init, MatchInv, Talking

\* Display and timer agree again when a press has been handled.
LEMMA MatchStep ==
  /\ TypeOK /\ SilentInv /\ ChainInv /\ TalkInv /\ BackInv /\ PressInv
  /\ ResumeInv /\ StopInv /\ MatchInv /\ [Next]_vars
  => MatchInv'
<1> SUFFICES ASSUME TypeOK, SilentInv, ChainInv, TalkInv, BackInv, PressInv, ResumeInv,
                    StopInv, MatchInv, [Next]_vars,
                    ~crossed', ~lost', ~Talking',
                    ~Waits(up', "P01"), ~Waits(up', "P02"), ~Comes(down', "back_win")
             PROVE  win' = "W02" <=> gptimer' = "running"
  BY DEF MatchInv
<1> USE DEF firmware, system, display, observed
<1>0. /\ countdown \in Times /\ countdown \in Nat /\ FREQ1_label \in Nat /\ FREQ2_label \in Nat
      /\ win \in {"W01", "W02"} /\ mode \in Nat /\ ModeValues \subseteq Nat
      /\ up \in Seq(Frames) /\ uart \in BOOLEAN /\ Len(up) \in Nat
      /\ lost \in BOOLEAN /\ crossed \in BOOLEAN
  BY ConstantFacts, DialogueConstantsOK, LenProperties
     DEF TypeOK, SystemOK, RunOK, LineOK, ObserversOK, Times
<1>1. /\ boot' = "done" /\ AskedUp(up') = {} /\ AskedDown(down') = {}
  <2>1. TypeOK'
    BY TypeStep
  <2> QED
    BY <2>1, TalkingThen
<1>2. Talking <=> boot # "done" \/ AskedUp(up) # {} \/ AskedDown(down) # {}
  BY TalkingIs
<1>3. ASSUME ~crossed, ~lost, boot = "done", AskedUp(up) = {}, AskedDown(down) = {},
             ~Waits(up, "P01"), ~Waits(up, "P02"), ~Comes(down, "back_win")
      PROVE  win = "W02" <=> gptimer = "running"
  BY <1>2, <1>3 DEF MatchInv
\* A button that was pressed has still to be handled, or was lost with a question.
<1>4. ~PressStart /\ ~PressStop
  <2> SUFFICES ASSUME NEW x \in {"P01", "P02"}, NEW v \in Nat, up' = press(x, v),
                      UNCHANGED <<boot, uart, lost>>
               PROVE  FALSE
    BY <1>0 DEF PressStart, PressStop
  <2>1. x \in UpNames /\ x # "label_timer_count_down"
    BY DEF UpNames
  <2>2. uart
    BY <1>1 DEF SilentInv
  <2>3. FrameAppended(up, up', x, v)
    BY <2>1, <2>2, Pressed
  <2> QED
    BY <2>3 DEF FrameAppended
<1>5. ~Reboot
  BY <1>1 DEF Reboot
<1>6. ~crossed
  BY <1>4, <1>5, Uncrossed
\* A frame is handled: what it leaves behind was there before.
<1>7. ASSUME up # <<>>, up' = Tail(up)
      PROVE  /\ up[1].widget # "P01" => ~Waits(up, "P01")
             /\ up[1].widget # "P02" => ~Waits(up, "P02")
             /\ up[1].widget \notin AskFrames => AskedUp(up) = {}
             /\ uart
  <2>1. PICK t : t = up'
    OBVIOUS
  <2>2. FrameDropped(up, t)
    BY <1>7, <2>1, Taken
  <2>3. ASSUME NEW k \in AskedUp(up), up[1].widget \notin AskFrames PROVE FALSE
    <3>1. PICK w \in AskFrames : Frame(up, k, w)
      BY <2>3 DEF AskedUp, Frame
    <3>2. Frame(t, k - 1, w)
      BY <2>2, <2>3, <3>1 DEF FrameDropped
    <3> QED
      BY <1>1, <2>1, <3>1, <3>2 DEF AskedUp, Frame
  <2> QED
    BY <1>7, <2>1, <2>2, <2>3 DEF FrameDropped, SilentInv
<1>8. ASSUME down # <<>>, down' = Tail(down)
      PROVE  /\ down[1].cmd # "back_win" => ~Comes(down, "back_win")
             /\ down[1].cmd \notin AskMessages => AskedDown(down) = {}
             /\ uart
  <2>1. PICK d : d = down'
    OBVIOUS
  <2>2. MessageDropped(down, d)
    BY <1>8, <2>1, Shown
  <2>3. ASSUME NEW k \in AskedDown(down), down[1].cmd \notin AskMessages PROVE FALSE
    <3>1. PICK m \in AskMessages : Message(down, k, m)
      BY <2>3 DEF AskedDown, Message
    <3>2. Message(d, k - 1, m)
      BY <2>2, <2>3, <3>1 DEF MessageDropped
    <3> QED
      BY <1>1, <2>1, <3>1, <3>2 DEF AskedDown, Message
  <2> QED
    BY <1>8, <2>1, <2>2, <2>3 DEF MessageDropped, SilentInv
<1>9. ASSUME NEW x \in DownNames, NEW v \in Nat, x # "set_text", down' = send(down, x, v)
      PROVE  /\ ~Comes(down, "back_win") /\ AskedDown(down) = {}
             /\ uart => x \notin AskMessages
  <2>1. CASE ~uart
    BY <1>1, <1>9, <2>1, Sent
  <2>2. CASE uart
    <3>1. PICK d : d = down'
      OBVIOUS
    <3>2. MessageAppended(down, d, x, v)
      BY <1>9, <2>2, <3>1, Sent
    <3>3. AskedDown(d) = {} /\ ~Comes(d, "back_win")
      BY <1>1, <3>1
    <3>4. AskedDown(down) = {}
      BY <3>2, <3>3 DEF MessageAppended, AskedDown, Message
    <3>5. x \notin AskMessages
      BY <3>2, <3>3 DEF MessageAppended, AskedDown, Message
    <3>6. ~Comes(down, "back_win")
      BY <3>2, <3>3 DEF MessageAppended
    <3> QED
      BY <3>4, <3>5, <3>6
  <2> QED
    BY <1>0, <2>1, <2>2
<1>10. ASSUME NEW x \in UpNames, NEW v \in Nat, x = "label_timer_count_down" => v \in Times,
              up' = press(x, v)
       PROVE  /\ ~Waits(up, "P01") /\ ~Waits(up, "P02") /\ AskedUp(up) = {}
              /\ uart => x \notin AskFrames
  <2>1. CASE ~uart
    BY <1>1, <1>10, <2>1, Pressed
  <2>2. CASE uart
    <3>1. PICK t : t = up'
      OBVIOUS
    <3>2. FrameAppended(up, t, x, v)
      BY <1>10, <2>2, <3>1, Pressed
    <3>3. AskedUp(t) = {} /\ ~Waits(t, "P01") /\ ~Waits(t, "P02")
      BY <1>1, <3>1
    <3>4. AskedUp(up) = {}
      BY <3>2, <3>3 DEF FrameAppended, AskedUp, Frame
    <3>5. x \notin AskFrames
      BY <3>2, <3>3 DEF FrameAppended, AskedUp, Frame
    <3>6. ~Waits(up, "P01") /\ ~Waits(up, "P02")
      BY <3>2, <3>3 DEF FrameAppended
    <3> QED
      BY <3>4, <3>5, <3>6
  <2> QED
    BY <1>0, <2>1, <2>2
<1>11. CASE uart_driver_install \/ UNCHANGED vars
  BY <1>1, <1>3, <1>6, <1>11 DEF uart_driver_install, vars
<1>12. CASE TimerSetup \/ timer_on_alarm_cb
  BY <1>1, <1>3, <1>6, <1>12 DEF TimerSetup, Firmware!TimerSetup, timer_on_alarm_cb,
     Firmware!timer_on_alarm_cb
<1>13. CASE get_date
  BY <1>1, <1>13 DEF get_date
\* The question for the window got through, so that the dialogue goes on.
<1>14. CASE get_displayed_window
  <2>1. "get_displayed_window" \in DownNames /\ "get_displayed_window" \in AskMessages
    BY DEF DownNames, AskMessages
  <2> QED
    BY <1>0, <1>9, <1>14, <2>1 DEF get_displayed_window
<1>15. CASE FREQ1
  <2>1. up # <<>> /\ up' = Tail(up) /\ up[1].widget = "FREQ1"
        /\ UNCHANGED <<boot, down, win, gptimer, lost>>
    BY <1>15 DEF FREQ1, Receive, Firmware!FREQ1
  <2> QED
    BY <1>1, <1>3, <1>6, <1>7, <2>1 DEF AskFrames
<1>16. CASE digit_clock1 \/ W01
  <2>1. PICK x \in {"set_date", "get_FREQ1"} :
          /\ up # <<>> /\ up' = Tail(up) /\ up[1].widget \in {"digit_clock1", "W01"}
          /\ down' = send(down, x, 0) /\ UNCHANGED <<boot, win, gptimer, lost>>
    BY <1>16 DEF digit_clock1, W01, Receive
  <2>2. x \in DownNames /\ x # "set_text"
    BY DEF DownNames
  <2> QED
    BY <1>1, <1>3, <1>6, <1>7, <1>9, <2>1, <2>2 DEF AskFrames
<1>17. ~W02
  <2>1. "get_text" \in DownNames /\ "get_text" \in AskMessages
    BY DEF DownNames, AskMessages
  <2> QED
    BY <1>7, <1>9, <2>1 DEF W02, Receive
<1>18. ~label_timer_count_down
  <2>1. "get_FREQ2" \in DownNames /\ "get_FREQ2" \in AskMessages
    BY DEF DownNames, AskMessages
  <2> QED
    BY <1>7, <1>9, <2>1 DEF label_timer_count_down, Receive
\* A run is started: the display has not left W02 since, or a P02 were waiting.
<1>19. CASE P01
  <2>1. /\ up # <<>> /\ up' = Tail(up) /\ up[1].widget = "P01" /\ win' = win
        /\ gptimer # "null" /\ gptimer' = "running"
    BY <1>19 DEF P01, Receive, Firmware!P01, Firmware!Started
  <2>2. Frame(up, 1, "P01")
    BY <2>1, Taken DEF FrameDropped
  <2>3. ~Waits(up, "P02")
    BY <1>7, <2>1
  <2>4. win = "W02"
    <3>1. Governs(up, win, FREQ1_label, 1, up[1].value)
      BY <1>6, <2>2 DEF PressInv
    <3> QED
      BY <2>3, <3>1 DEF Governs, Waits, Frame
  <2> QED
    BY <2>1, <2>4
\* A run is stopped: the display has not left W01 since, or a P01 were waiting.
<1>20. CASE P02
  <2>1. /\ up # <<>> /\ up' = Tail(up) /\ up[1].widget = "P02" /\ win' = win
        /\ gptimer' # "running"
    BY <1>20 DEF P02, Receive, Firmware!P02, Firmware!Stopped
  <2>2. Frame(up, 1, "P02")
    BY <2>1, Taken DEF FrameDropped
  <2>3. ~Waits(up, "P01")
    BY <1>7, <2>1
  <2>4. win = "W01"
    BY <2>2, <2>3 DEF StopInv, Waits, Frame
  <2> QED
    BY <2>1, <2>4
\* A run is resumed: the dialogue came that far only at W02.
<1>21. CASE FREQ2
  <2>1. /\ up # <<>> /\ up' = Tail(up) /\ up[1].widget \in AskFrames /\ win' = win
        /\ gptimer' = "running"
    BY <1>21 DEF FREQ2, Receive, Firmware!FREQ2, Firmware!Started, AskFrames
  <2>2. win = "W02"
    BY <1>6, <2>1, AskedTaken DEF ResumeInv
  <2> QED
    BY <2>1, <2>2
\* The tick that ends a run sends back_win.
<1>22. CASE Tick
  <2>1. /\ gptimer # "null" /\ Timer_queue > 0 /\ UNCHANGED <<up, win, boot, lost>>
        /\ gptimer' = IF Expires THEN Firmware!Stopped ELSE gptimer
    BY <1>22 DEF Tick, Firmware!Tick, Expires
  <2>2. uart
    BY <2>1 DEF SilentInv
  <2>3. /\ ~Comes(down, "back_win") /\ ~Expires
    BY <1>22, <2>2, TickSent
  <2>4. AskedDown(down) = {}
    BY <1>1, <1>22, AskedTick
  <2> QED
    BY <1>1, <1>3, <1>6, <2>1, <2>3, <2>4
<1>23. CASE set_date \/ set_FREQ2 \/ set_text
  <2>1. /\ down # <<>> /\ down' = Tail(down)
        /\ down[1].cmd \in {"set_date", "set_FREQ2", "set_text"}
        /\ UNCHANGED <<boot, up, win, gptimer, lost>>
    BY <1>23 DEF set_date, set_FREQ2, set_text, Show
  <2> QED
    BY <1>1, <1>3, <1>6, <1>8, <2>1 DEF AskMessages
<1>24. CASE back_win
  <2>1. Comes(down, "back_win") /\ win' = "W01" /\ gptimer' = gptimer
    BY <1>24, Shown DEF back_win, Show, MessageDropped
  <2> QED
    BY <1>6, <2>1 DEF BackInv
<1>25. CASE Answer
  <2>0. {"W01", "W02", "digit_clock1", "FREQ1", "label_timer_count_down", "FREQ2"}
          \subseteq UpNames
    BY DEF UpNames
  <2>1. CASE answer("get_date", "digit_clock1", 0) \/ answer("get_FREQ1", "FREQ1", FREQ1_label)
    <3>1. PICK x \in {"digit_clock1", "FREQ1"}, v \in Nat : up' = press(x, v)
      BY <1>0, <2>1 DEF answer
    <3>2. /\ down # <<>> /\ down' = Tail(down) /\ down[1].cmd \in {"get_date", "get_FREQ1"}
          /\ UNCHANGED <<boot, win, gptimer, lost>>
      BY <2>1 DEF answer, Show
    <3> QED
      BY <1>1, <1>3, <1>6, <1>8, <1>10, <2>0, <3>1, <3>2 DEF AskMessages
  \* The answer W01 ends the dialogue, and no run is on.
  <2>2. CASE answer("get_displayed_window", win, 0)
    <3>1. /\ down # <<>> /\ down' = Tail(down) /\ down[1].cmd \in AskMessages
          /\ up' = press(win, 0) /\ UNCHANGED <<win, gptimer>>
      BY <2>2 DEF answer, Show, AskMessages
    <3>2. win # "W02"
      BY <1>0, <1>8, <1>10, <2>0, <3>1 DEF AskFrames
    <3>3. gptimer # "running"
      BY <1>2, <1>6, <3>1, AskedShown DEF TalkInv
    <3> QED
      BY <3>1, <3>2, <3>3
  <2>3. CASE \/ answer("get_text", "label_timer_count_down", countdown)
             \/ answer("get_FREQ2", "FREQ2", FREQ2_label)
    BY <1>0, <1>8, <1>10, <2>0, <2>3 DEF answer, Show, AskFrames
  <2> QED
    BY <1>25, <2>1, <2>2, <2>3 DEF Answer
<1>26. CASE \E v \in ModeValues : SelectMode(v)
  <2>1. PICK v \in Nat : up' = press("FREQ1", v) /\ UNCHANGED <<boot, down, win, gptimer, lost>>
    BY <1>0, <1>26 DEF SelectMode
  <2>2. "FREQ1" \in UpNames
    BY DEF UpNames
  <2> QED
    BY <1>1, <1>3, <1>6, <1>10, <2>1, <2>2
<1> QED
  BY <1>4, <1>5, <1>11, <1>12, <1>13, <1>14, <1>15, <1>16, <1>17, <1>18, <1>19, <1>20, <1>21,
     <1>22, <1>23, <1>24, <1>25, <1>26 DEF Next, StartUp, stone_cmd, Display, User

LEMMA Windows == Spec => []WindowInv
<1>1. Init => WindowInv
  BY TypeInit, SilentInit, ModeInit, ChainInit, TalkInit, BackInit, RunInit, ResumeInit,
     StopInit, MatchInit DEF WindowInv, RunsInv
<1>2. WindowInv /\ [Next]_vars => WindowInv'
  BY TypeStep, SilentStep, ModeStep, ChainStep, TalkStep, BackStep, RunStep, ResumeStep,
     StopStep, MatchStep DEF WindowInv, RunsInv
<1> QED
  BY <1>1, <1>2, PTL DEF Spec

\* When nothing is under way the display is at W02 exactly while the timer runs, but
\* for a button pressed into a message under way and a start or question that is lost.
THEOREM WindowAndRunAgree == Spec => []WindowMatchesRun
<1>1. WindowInv => WindowMatchesRun
  <2> SUFFICES ASSUME WindowInv, up = <<>>, down = <<>>, boot = "done", ~crossed, ~lost
               PROVE  win = "W02" <=> gptimer = "running"
    BY DEF WindowMatchesRun
  <2>1. ~Talking
    BY TalkingIs, NoneAsked DEF WindowInv, RunsInv
  <2> QED
    BY <2>1, NoFrame, NoMessage DEF WindowInv, MatchInv
<1> QED
  BY <1>1, Windows, PTL
-----------------------------------------------------------------------------
(* ResumedAsLeft.                                                          *)

\* Places of messages.
LEMMA MessagePlaces ==
  ASSUME NEW s \in Seq(Messages), NEW k, NEW m, Message(s, k, m)
  PROVE  k \in Nat /\ 1 <= k /\ k <= Len(s) /\ Len(s) \in Nat
BY LenProperties DEF Message

\* The message m with v is put on the line, or its first message is shown.
Puts(s, t, m, v) == t = Append(s, [cmd |-> m, value |-> v])
Shows(s, t) == s # <<>> /\ t = Tail(s)

\* A label that m sets, c before.
Label(s, m, c) == IF s[1].cmd = m THEN s[1].value ELSE c

\* The display takes a message: the label on the line becomes the one shown.
LEMMA TextsShown ==
  ASSUME NEW s \in Seq(Messages), NEW t, Shows(s, t), NEW r, NEW x, NEW c,
         TextsRight(s, r, x, c)
  PROVE  TextsRight(t, r, x, Label(s, "set_text", c))
<1>0. s # <<>> /\ t = Tail(s)
  BY DEF Shows
<1>1. MessageDropped(s, t)
  BY <1>0, MessageTaken
<1>c. PICK c2 : c2 = Label(s, "set_text", c)
  OBVIOUS
<1>d. c2 = IF s[1].cmd = "set_text" THEN s[1].value ELSE c
  BY <1>c DEF Label
<1>2. \A k \in Nat : After(t, k) = After(s, k + 1)
  BY <1>0, AfterTaken
<1>3. ASSUME NEW k, Message(t, k, "set_text"), After(t, k) < x
      PROVE  AsRead(t[k].value) = r + After(t, k)
  <2>1. k \in Nat /\ Message(s, k + 1, "set_text") /\ t[k] = s[k + 1]
    BY <1>1, <1>3 DEF MessageDropped
  <2>2. After(t, k) = After(s, k + 1)
    BY <1>2, <2>1
  <2> QED
    BY <1>3, <2>1, <2>2 DEF TextsRight
<1>4. ASSUME After(t, 0) < x PROVE AsRead(c2) = r + After(t, 0)
  <2>1. After(t, 0) = After(s, 1)
    BY <1>2
  <2>2. CASE s[1].cmd = "set_text"
    <3>1. Message(s, 1, "set_text")
      BY <1>1, <2>2 DEF MessageDropped
    <3> QED
      BY <1>4, <1>d, <2>1, <2>2, <3>1 DEF TextsRight
  <2>3. CASE s[1].cmd # "set_text"
    <3>1. After(s, 1) = After(s, 0)
      BY <1>0, <2>3, AfterFirst
    <3> QED
      BY <1>4, <1>d, <2>1, <2>3, <3>1 DEF TextsRight
  <2> QED
    BY <2>2, <2>3
<1> QED
  BY <1>3, <1>4, <1>c DEF TextsRight

\* So with the nominal time.
LEMMA NominalShown ==
  ASSUME NEW s \in Seq(Messages), NEW t, Shows(s, t), NEW x, NEW n, NEW f,
         NominalRight(s, x, n, f)
  PROVE  NominalRight(t, x, n, Label(s, "set_FREQ2", f))
<1>0. s # <<>> /\ t = Tail(s)
  BY DEF Shows
<1>1. MessageDropped(s, t)
  BY <1>0, MessageTaken
<1>c. PICK f2 : f2 = Label(s, "set_FREQ2", f)
  OBVIOUS
<1>d. f2 = IF s[1].cmd = "set_FREQ2" THEN s[1].value ELSE f
  BY <1>c DEF Label
<1>2. \A k \in Nat : After(t, k) = After(s, k + 1)
  BY <1>0, AfterTaken
<1>3. ASSUME ~Comes(t, "set_FREQ2") PROVE Firmware!Nominal(f2) = n
  <2>1. CASE s[1].cmd = "set_FREQ2"
    <3>1. Message(s, 1, "set_FREQ2")
      BY <1>1, <2>1 DEF MessageDropped
    <3>2. ASSUME NEW j, Message(s, j, "set_FREQ2") PROVE j <= 1
      <4>1. j = 1 \/ Message(t, j - 1, "set_FREQ2")
        BY <1>1, <3>2 DEF MessageDropped
      <4> QED
        BY <1>3, <4>1 DEF Comes, Message
    <3> QED
      BY <1>d, <2>1, <3>1, <3>2 DEF NominalRight
  <2>2. CASE s[1].cmd # "set_FREQ2"
    <3>1. ~Comes(s, "set_FREQ2")
      BY <1>1, <1>3, <2>2 DEF MessageDropped
    <3> QED
      BY <1>d, <2>2, <3>1 DEF NominalRight
  <2> QED
    BY <2>1, <2>2
<1>4. ASSUME NEW k, Message(t, k, "set_FREQ2")
      PROVE  /\ x <= After(t, k)
             /\ (\A j : Message(t, j, "set_FREQ2") => j <= k) => Firmware!Nominal(t[k].value) = n
  <2>1. k \in Nat /\ Message(s, k + 1, "set_FREQ2") /\ t[k] = s[k + 1] /\ k >= 1
    BY <1>1, <1>4 DEF MessageDropped
  <2>2. After(t, k) = After(s, k + 1)
    BY <1>2, <2>1
  <2>3. ASSUME \A j : Message(t, j, "set_FREQ2") => j <= k,
               NEW j, Message(s, j, "set_FREQ2")
        PROVE  j <= k + 1
    <3>1. j = 1 \/ (j \in Nat /\ Message(t, j - 1, "set_FREQ2"))
      BY <1>1, <2>3 DEF MessageDropped
    <3> QED
      BY <2>1, <2>3, <3>1
  <2> QED
    BY <2>1, <2>2, <2>3 DEF NominalRight
<1> QED
  BY <1>3, <1>4, <1>c DEF NominalRight

\* A message that is neither of both.
LEMMA LabelsSent ==
  ASSUME NEW s \in Seq(Messages), NEW m \in DownNames, NEW v \in Nat, m # "set_text",
         m # "set_FREQ2", NEW t, Puts(s, t, m, v)
  PROVE  /\ \A r, x, c : TextsRight(s, r, x, c) => TextsRight(t, r, x, c)
         /\ \A x, n, f : NominalRight(s, x, n, f) => NominalRight(t, x, n, f)
<1>0. t = Append(s, [cmd |-> m, value |-> v])
  BY DEF Puts
<1>1. MessageAppended(s, t, m, v)
  BY <1>0, MessageAdded
<1>2. \A k \in 0 .. Len(s) : After(t, k) = After(s, k)
  <2>1. \A k \in 0 .. Len(s) : After(t, k) = After(s, k) + 0
    BY <1>0, AfterAdded
  <2>2. \A k : After(s, k) \in Nat
    BY TextsFinite
  <2> QED
    BY <2>1, <2>2
<1>3. ASSUME NEW k, NEW w \in {"set_text", "set_FREQ2"}
      PROVE  /\ Message(t, k, w) <=> Message(s, k, w)
             /\ Message(s, k, w) => t[k] = s[k] /\ After(t, k) = After(s, k)
  <2>1. Message(t, k, w) <=> Message(s, k, w)
    BY <1>1 DEF MessageAppended
  <2>2. ASSUME Message(s, k, w) PROVE t[k] = s[k] /\ After(t, k) = After(s, k)
    <3>1. t[k] = s[k]
      BY <1>1, <2>2 DEF MessageAppended
    <3>2. k \in 0 .. Len(s)
      BY <2>2, MessagePlaces
    <3> QED
      BY <1>2, <3>1, <3>2
  <2> QED
    BY <2>1, <2>2
<1>4. After(t, 0) = After(s, 0)
  BY <1>2, LenProperties
<1>5. Comes(t, "set_FREQ2") <=> Comes(s, "set_FREQ2")
  BY <1>1 DEF MessageAppended
<1>6. ASSUME NEW r, NEW x, NEW c, TextsRight(s, r, x, c) PROVE TextsRight(t, r, x, c)
  BY <1>3, <1>4, <1>6 DEF TextsRight
<1>7. ASSUME NEW x, NEW n, NEW f, NominalRight(s, x, n, f) PROVE NominalRight(t, x, n, f)
  BY <1>3, <1>5, <1>7 DEF NominalRight
<1> QED
  BY <1>6, <1>7

\* A tick: a second more, and the label that says so.
LEMMA LabelsTicked ==
  ASSUME NEW s \in Seq(Messages), NEW r \in Nat, r \in Times, AsRead(r) = r,
         NEW t, Puts(s, t, "set_text", r),
         NEW x \in Nat, NEW c
  PROVE  TextsRight(s, r + 1, x, c) => TextsRight(t, r, x + 1, c)
<1>0. "set_text" \in DownNames /\ t = Append(s, [cmd |-> "set_text", value |-> r])
  BY DEF DownNames, Puts
<1>1. MessageAppended(s, t, "set_text", r)
  BY <1>0, MessageAdded
<1>2. \A k : After(s, k) \in Nat
  BY TextsFinite
<1>3. \A k \in 0 .. Len(s) : After(t, k) = After(s, k) + 1
  BY <1>0, AfterAdded
<1>4. After(t, Len(s) + 1) = 0 /\ Len(s) \in Nat
  BY <1>0, AfterAdded, LenProperties
<1>5. ASSUME TextsRight(s, r + 1, x, c), NEW k, Message(t, k, "set_text"), After(t, k) < x + 1
      PROVE  AsRead(t[k].value) = r + After(t, k)
  <2>1. CASE k = Len(s) + 1
    BY <1>1, <1>4, <2>1 DEF MessageAppended
  <2>2. CASE k # Len(s) + 1
    <3>1. Message(s, k, "set_text") /\ t[k] = s[k] /\ k \in 0 .. Len(s)
      <4>1. Message(s, k, "set_text") /\ t[k] = s[k]
        BY <1>1, <1>5, <2>2 DEF MessageAppended
      <4> QED
        BY <4>1, MessagePlaces
    <3>2. After(t, k) = After(s, k) + 1 /\ After(s, k) \in Nat
      BY <1>2, <1>3, <3>1
    <3>3. After(s, k) < x
      BY <1>5, <3>2
    <3>4. AsRead(s[k].value) = (r + 1) + After(s, k)
      BY <1>5, <3>1, <3>3 DEF TextsRight
    <3>5. PICK a \in Nat : a = After(s, k)
      BY <3>2
    <3>6. After(t, k) = a + 1 /\ AsRead(t[k].value) = (r + 1) + a
      BY <3>1, <3>2, <3>4, <3>5
    <3>7. (r + 1) + a = r + (a + 1)
      OBVIOUS
    <3> QED
      BY <3>6, <3>7
  <2> QED
    BY <2>1, <2>2
<1>6. ASSUME TextsRight(s, r + 1, x, c), After(t, 0) < x + 1 PROVE AsRead(c) = r + After(t, 0)
  <2>1. After(t, 0) = After(s, 0) + 1 /\ After(s, 0) \in Nat
    BY <1>2, <1>3, <1>4
  <2>2. AsRead(c) = (r + 1) + After(s, 0)
    BY <1>6, <2>1 DEF TextsRight
  <2> QED
    BY <2>1, <2>2
<1> QED
  BY <1>5, <1>6 DEF TextsRight

\* The nominal time was sent before.
LEMMA NominalTicked ==
  ASSUME NEW s \in Seq(Messages), NEW r \in Nat, r \in Times,
         NEW t, Puts(s, t, "set_text", r),
         NEW x \in Nat, NEW y \in 0 .. x + 1, NEW n, NEW f, NominalRight(s, x, n, f)
  PROVE  NominalRight(t, y, n, f)
<1>0. "set_text" \in DownNames /\ t = Append(s, [cmd |-> "set_text", value |-> r])
  BY DEF DownNames, Puts
<1>1. MessageAppended(s, t, "set_text", r)
  BY <1>0, MessageAdded
<1>2. \A k : After(s, k) \in Nat
  BY TextsFinite
<1>3. \A k \in 0 .. Len(s) : After(t, k) = After(s, k) + 1
  BY <1>0, AfterAdded
<1>4. Comes(t, "set_FREQ2") <=> Comes(s, "set_FREQ2")
  BY <1>1 DEF MessageAppended
<1>5. \A k : Message(t, k, "set_FREQ2") <=> Message(s, k, "set_FREQ2")
  BY <1>1 DEF MessageAppended
<1>6. ASSUME NEW k, Message(t, k, "set_FREQ2") PROVE t[k] = s[k] /\ y <= After(t, k)
  <2>1. Message(s, k, "set_FREQ2")
    BY <1>5, <1>6
  <2>2. t[k] = s[k] /\ k \in 0 .. Len(s)
    <3>1. t[k] = s[k]
      BY <1>1, <2>1 DEF MessageAppended
    <3> QED
      BY <2>1, <3>1, MessagePlaces
  <2>3. After(t, k) = After(s, k) + 1 /\ After(s, k) \in Nat
    BY <1>2, <1>3, <2>2
  <2>4. x <= After(s, k)
    BY <2>1 DEF NominalRight
  <2>5. PICK a \in Nat : a = After(s, k)
    BY <2>3
  <2>6. y <= a + 1
    BY <2>4, <2>5
  <2> QED
    BY <2>2, <2>3, <2>5, <2>6
<1> QED
  BY <1>4, <1>5, <1>6 DEF NominalRight

\* A start: the nominal time is told, and no second is over.
LEMMA LabelsStarted ==
  ASSUME NEW s \in Seq(Messages), NEW v \in Nat,
         NEW t, Puts(s, t, "set_FREQ2", v), NEW r, NEW c, NEW f
  PROVE  TextsRight(t, r, 0, c) /\ NominalRight(t, 0, Firmware!Nominal(v), f)
<1>0. "set_FREQ2" \in DownNames /\ t = Append(s, [cmd |-> "set_FREQ2", value |-> v])
  BY DEF DownNames, Puts
<1>1. MessageAppended(s, t, "set_FREQ2", v)
  BY <1>0, MessageAdded
<1>2. \A k : After(t, k) \in Nat
  BY <1>1, TextsFinite DEF MessageAppended
<1>3. TextsRight(t, r, 0, c)
  BY <1>2 DEF TextsRight
<1>4. Comes(t, "set_FREQ2") /\ Message(t, Len(s) + 1, "set_FREQ2") /\ t[Len(s) + 1].value = v
  BY <1>1 DEF MessageAppended
<1>5. ASSUME NEW k, Message(t, k, "set_FREQ2"), \A j : Message(t, j, "set_FREQ2") => j <= k
      PROVE  Firmware!Nominal(t[k].value) = Firmware!Nominal(v)
  <2>1. Len(s) + 1 <= k
    BY <1>4, <1>5
  <2>2. k = Len(s) + 1 \/ (k <= Len(s) /\ k \in Nat /\ Len(s) \in Nat)
    BY <1>1, <1>5 DEF MessageAppended
  <2>3. k = Len(s) + 1
    BY <2>1, <2>2
  <2> QED
    BY <1>4, <2>3
<1>6. \A k : 0 <= After(t, k)
  BY <1>2
<1>7. NominalRight(t, 0, Firmware!Nominal(v), f)
  BY <1>4, <1>5, <1>6 DEF NominalRight
<1> QED
  BY <1>3, <1>7

LEMMA LabelInit == Init => LabelInv /\ LeftInv /\ DateInv
BY DEF Init, Firmware!Init, Firmware!Loaded, LabelInv, LeftInv, DateInv

\* The labels of a run say what is left of it.
LEMMA LabelStep ==
  /\ TypeOK /\ SilentInv /\ ChainInv /\ TalkInv /\ ResumeInv /\ LabelInv /\ [Next]_vars
  => LabelInv'
<1> SUFFICES ASSUME TypeOK, SilentInv, ChainInv, TalkInv, ResumeInv, LabelInv, [Next]_vars,
                    gptimer' = "running", ~crossed'
             PROVE  LabelInv'
  BY DEF LabelInv
<1> USE DEF firmware, system, observed
<1>0. /\ countdown \in Times /\ countdown \in Nat /\ FREQ1_label \in Nat /\ FREQ2_label \in Nat
      /\ win \in {"W01", "W02"} /\ mode \in Nat /\ ModeValues \subseteq Nat
      /\ down \in Seq(Messages) /\ uart \in BOOLEAN
      /\ record \in Nat /\ run_time \in Nat /\ mode_to_time \in Nat
      /\ record < Word /\ run_time < Word /\ mode_to_time < HalfWord
      /\ mode_to_time < Minute * Byte
  BY ConstantFacts, DialogueConstantsOK DEF TypeOK, SystemOK, RunOK, LineOK, Times
<1>1. ASSUME gptimer = "running" PROVE ~crossed
  BY <1>1, Uncrossed DEF PressStart, PressStop, StillCrossed, Reboot, Firmware!Reboot,
     Firmware!Loaded
<1>2. ASSUME gptimer = "running"
      PROVE  /\ record + run_time = mode_to_time => TextsRight(down, record, run_time, countdown)
             /\ NominalRight(down, run_time, mode_to_time, FREQ2_label)
  BY <1>1, <1>2 DEF LabelInv
\* The run, the display and the line stay as they are.
<1>3. ASSUME UNCHANGED <<record, run_time, mode_to_time, gptimer, countdown, FREQ2_label, down>>
      PROVE  LabelInv'
  BY <1>2, <1>3 DEF LabelInv
\* A message is sent that has nothing to do with the run.
<1>4. ASSUME UNCHANGED <<record, run_time, mode_to_time, gptimer, countdown, FREQ2_label>>,
             NEW m \in DownNames \ {"set_text", "set_FREQ2"}, NEW v \in Nat,
             down' = send(down, m, v)
      PROVE  LabelInv'
  <2>1. CASE ~uart
    BY <1>3, <1>4, <2>1 DEF send
  <2>2. CASE uart
    <3>1. PICK d : d = down'
      OBVIOUS
    <3>2. Puts(down, d, m, v)
      BY <1>4, <2>2, <3>1 DEF send, Puts
    <3>3. down \in Seq(Messages) /\ m \in DownNames /\ m # "set_text" /\ m # "set_FREQ2"
      BY <1>0, <1>4
    <3>4. /\ TextsRight(down, record, run_time, countdown) =>
               TextsRight(d, record, run_time, countdown)
          /\ NominalRight(down, run_time, mode_to_time, FREQ2_label) =>
               NominalRight(d, run_time, mode_to_time, FREQ2_label)
      BY ONLY <3>2, <3>3, v \in Nat, LabelsSent
    <3> QED
      BY <1>2, <1>4, <3>1, <3>4 DEF LabelInv
  <2> QED
    BY <1>0, <2>1, <2>2
\* The display takes a message.
<1>5. ASSUME UNCHANGED <<record, run_time, mode_to_time, gptimer>>,
             down # <<>>, down' = Tail(down),
             countdown' = IF down[1].cmd = "set_text" THEN down[1].value ELSE countdown,
             FREQ2_label' = IF down[1].cmd = "set_FREQ2" THEN down[1].value ELSE FREQ2_label
      PROVE  LabelInv'
  <2>1. PICK d, c, f : d = down' /\ c = countdown' /\ f = FREQ2_label'
    OBVIOUS
  <2>2. /\ down \in Seq(Messages) /\ Shows(down, d)
        /\ c = Label(down, "set_text", countdown)
        /\ f = Label(down, "set_FREQ2", FREQ2_label)
    BY <1>0, <1>5, <2>1 DEF Shows, Label
  <2>3. TextsRight(down, record, run_time, countdown) => TextsRight(d, record, run_time, c)
    BY ONLY <2>2, TextsShown
  <2>4. NominalRight(down, run_time, mode_to_time, FREQ2_label) =>
          NominalRight(d, run_time, mode_to_time, f)
    BY ONLY <2>2, NominalShown
  <2> QED
    BY <1>2, <1>5, <2>1, <2>3, <2>4 DEF LabelInv
<1>6. DownNames = {"get_date", "get_displayed_window", "get_FREQ1", "get_text",
                   "get_FREQ2", "set_date", "set_FREQ2", "set_text", "back_win"}
  BY DEF DownNames
<1>7. CASE uart_driver_install \/ UNCHANGED vars
  BY <1>3, <1>7 DEF uart_driver_install, display, vars
<1>8. ~TimerSetup /\ ~P02 /\ ~Reboot
  BY DEF TimerSetup, Firmware!TimerSetup, P02, Firmware!P02, Firmware!Stopped, Reboot,
     Firmware!Reboot, Firmware!Loaded
<1>9. CASE get_date
  BY <1>4, <1>6, <1>9 DEF get_date, display
<1>10. CASE get_displayed_window
  BY <1>4, <1>6, <1>10 DEF get_displayed_window, display
<1>11. CASE timer_on_alarm_cb
  BY <1>3, <1>11 DEF timer_on_alarm_cb, Firmware!timer_on_alarm_cb, Firmware!counters, display
<1>12. CASE FREQ1
  BY <1>3, <1>12 DEF FREQ1, Firmware!FREQ1, Firmware!counters, display
<1>13. CASE digit_clock1 \/ W01 \/ W02
  BY <1>4, <1>6, <1>13 DEF digit_clock1, W01, W02, display
<1>14. CASE P01
  <2>1. /\ down' = send(down, "set_FREQ2", mode) /\ UNCHANGED <<countdown, FREQ2_label>>
        /\ mode_to_time' = Firmware!Nominal(mode) /\ run_time' = 0
    BY <1>14 DEF P01, Firmware!P01, display
  <2>2. uart
    BY <1>14 DEF P01, Receive, SilentInv
  <2>3. PICK d, r : d = down' /\ r = record'
    OBVIOUS
  <2>4. Puts(down, d, "set_FREQ2", mode)
    BY <2>1, <2>2, <2>3 DEF send, Puts
  <2>5. TextsRight(d, r, 0, countdown)
        /\ NominalRight(d, 0, Firmware!Nominal(mode), FREQ2_label)
    BY <1>0, <2>4, LabelsStarted
  <2> QED
    BY <2>1, <2>3, <2>5 DEF LabelInv
\* The dialogue goes on, or a button was pressed into it.
<1>15. CASE label_timer_count_down
  <2>1. InUp("label_timer_count_down") /\ UNCHANGED <<gptimer, crossed>>
    <3>1. Waits(up, "label_timer_count_down")
      BY <1>15, Taken DEF label_timer_count_down, Receive, FrameDropped
    <3> QED
      BY <1>15, <3>1, LineFacts DEF label_timer_count_down, Firmware!label_timer_count_down
  <2> QED
    BY <2>1 DEF TalkInv, Talking
<1>16. CASE FREQ2
  <2>1. /\ up # <<>> /\ up' = Tail(up) /\ up[1].widget = "FREQ2"
        /\ UNCHANGED <<down, record, countdown, FREQ2_label, crossed>>
        /\ mode_to_time' = Firmware!Nominal(up[1].value)
    BY <1>16 DEF FREQ2, Firmware!FREQ2, Receive, Value, display
  <2>2. Frame(up, 1, "FREQ2") /\ Waits(up, "FREQ2")
    BY <2>1, Taken DEF FrameDropped
  <2>3. up[1].value = FREQ2_label /\ record = AsRead(countdown)
    BY <2>1, <2>2 DEF ResumeInv
  <2>4. ~Comes(down, "set_text") /\ ~Comes(down, "set_FREQ2")
    BY <2>1, <2>2, LineFacts DEF TalkInv, Talking
  <2>5. After(down, 0) = 0
    BY <1>0, <2>4, NoTexts
  <2>6. PICK t : t = run_time'
    OBVIOUS
  <2>7. TextsRight(down, record, t, countdown)
    BY <1>0, <2>3, <2>4, <2>5 DEF TextsRight, Comes, Message
  <2>8. NominalRight(down, t, Firmware!Nominal(FREQ2_label), FREQ2_label)
    BY <2>4 DEF NominalRight, Comes, Message
  <2> QED
    BY <2>1, <2>3, <2>6, <2>7, <2>8 DEF LabelInv
<1>17. CASE Tick
  <2>1. /\ Timer_queue > 0
        /\ record' = Firmware!Sub(record, 1) /\ run_time' = (run_time + 1) % Word
        /\ gptimer' = IF Expires THEN Firmware!Stopped ELSE gptimer
        /\ UNCHANGED <<mode_to_time, countdown, FREQ2_label>>
    BY <1>17 DEF Tick, Firmware!Tick, Expires, display
  <2>2. ~Expires /\ gptimer = "running"
    BY <2>1 DEF Firmware!Stopped
  <2>3. uart
    BY <2>1 DEF SilentInv
  <2>4. PICK d, r, t : d = down' /\ r = record' /\ t = run_time'
    OBVIOUS
  <2>5. Puts(down, d, "set_text", r)
    BY <1>17, <2>2, <2>3, <2>4, TickSent DEF send, Puts
  <2>6. r \in Nat /\ r \in Times
    BY <1>17, <2>4, TickSent, ConstantFacts DEF Times
  <2>7. t \in Nat /\ t <= run_time + 1 /\ (run_time + 1 < Word => t = run_time + 1)
        /\ (run_time + 1 = Word => t = 0)
    <3>1. run_time + 1 < Word => (run_time + 1) % Word = run_time + 1
      BY <1>0, ConstantFacts
    <3>2. Word % Word = 0
      BY <1>0, ConstantFacts
    <3> QED
      BY <1>0, <2>1, <2>4, <3>1, <3>2, ConstantFacts
  <2>8. NominalRight(d, t, mode_to_time, FREQ2_label)
    <3>1. t \in 0 .. run_time + 1 /\ run_time \in Nat /\ down \in Seq(Messages)
      BY <1>0, <2>7
    <3>2. NominalRight(down, run_time, mode_to_time, FREQ2_label)
      BY <1>2, <2>2
    <3> QED
      BY ONLY <2>5, <2>6, <3>1, <3>2, NominalTicked
  <2>9. ASSUME r + t = mode_to_time PROVE TextsRight(d, r, t, countdown)
    <3>1. CASE t = 0
      <4>1. \A k : After(d, k) \in Nat
        <5>1. "set_text" \in DownNames
          BY <1>6
        <5>2. MessageAppended(down, d, "set_text", r)
          BY <1>0, <2>5, <2>6, <5>1, MessageAdded DEF Puts
        <5> QED
          BY <5>2, TextsFinite DEF MessageAppended
      <4> QED
        BY <3>1, <4>1 DEF TextsRight
    <3>2. CASE t # 0
      <4>1. t = run_time + 1
        BY <1>0, <2>7, <3>2, ConstantFacts
      <4>2. record >= 1 /\ r = record - 1
        <5>1. record = 0 => r = Word - 1
          BY <1>0, <2>1, <2>4, ConstantFacts DEF Firmware!Sub
        <5>2. record # 0 => r = record - 1
          BY <1>0, <2>1, <2>4, ConstantFacts DEF Firmware!Sub
        <5> QED
          BY <1>0, <2>9, <4>1, <5>1, <5>2, ConstantFacts
      <4>3. record + run_time = mode_to_time /\ record = r + 1
        BY <1>0, <2>6, <2>9, <4>1, <4>2
      <4>4. TextsRight(down, r + 1, run_time, countdown)
        BY <1>2, <2>2, <4>3
      <4>5. AsRead(r) = r
        <5>1. r < Minute * Byte
          BY <1>0, <2>6, <2>7, <2>9, ConstantFacts
        <5> QED
          BY <2>6, <5>1, AsReadFacts
      <4>6. TextsRight(d, r, run_time + 1, countdown)
        BY <1>0, <2>5, <2>6, <4>4, <4>5, LabelsTicked
      <4> QED
        BY <4>1, <4>6
    <3> QED
      BY <3>1, <3>2
  <2> QED
    BY <2>1, <2>4, <2>8, <2>9 DEF LabelInv
<1>18. CASE set_date \/ set_FREQ2 \/ set_text \/ back_win
  BY <1>5, <1>18 DEF set_date, set_FREQ2, set_text, back_win, Show, display, Firmware!counters
<1>19. CASE Answer
  BY <1>5, <1>19 DEF Answer, answer, Show, display
<1>20. CASE User
  BY <1>3, <1>20 DEF User, PressStart, PressStop, SelectMode
<1> QED
  BY <1>7, <1>8, <1>9, <1>10, <1>11, <1>12, <1>13, <1>14, <1>15, <1>16, <1>17, <1>18, <1>19,
     <1>20 DEF Next, StartUp, stone_cmd, Display

\* A run that is interrupted shows the labels it was sent, but for those on the line.
LEMMA Interrupted ==
  ASSUME TypeOK, LabelInv, gptimer = "running", ~crossed, run_time > Behind,
         record + run_time = mode_to_time
  PROVE  /\ AsRead(countdown) \in record .. record + Behind
         /\ record + Behind <= mode_to_time
         /\ Firmware!Nominal(FREQ2_label) = mode_to_time
<1>0. /\ down \in Seq(Messages) /\ record \in Nat /\ run_time \in Nat
  BY ConstantFacts DEF TypeOK, LineOK, RunOK
<1>1. PICK b \in Nat : b = Behind /\ b = After(down, 0)
  BY <1>0, BehindIsAfter, TextsFinite
<1>2. /\ TextsRight(down, record, run_time, countdown)
      /\ NominalRight(down, run_time, mode_to_time, FREQ2_label)
  BY DEF LabelInv
<1>3. AsRead(countdown) = record + b
  BY <1>1, <1>2 DEF TextsRight
<1>4. ASSUME NEW k, Message(down, k, "set_FREQ2") PROVE FALSE
  <2>1. k \in Nat /\ down # <<>>
    BY <1>0, <1>4, MessagePlaces, NoMessage
  <2>2. run_time <= After(down, k)
    BY <1>2, <1>4 DEF NominalRight
  <2>3. After(down, k) <= b /\ After(down, k) \in Nat
    BY <1>0, <1>1, <2>1, AfterFirst, TextsFinite
  <2> QED
    BY <1>0, <1>1, <2>2, <2>3
<1>5. Firmware!Nominal(FREQ2_label) = mode_to_time
  BY <1>2, <1>4 DEF NominalRight, Comes
<1>6. b < run_time
  BY <1>1
<1>7. record + b \in record .. record + b /\ record + b <= record + run_time
  BY <1>0, <1>6
<1> QED
  BY <1>1, <1>3, <1>5, <1>7

\* Until it is resumed an interrupted run can be read off the display.
LEMMA LeftStep == TypeOK /\ LabelInv /\ LeftInv /\ [Next]_vars => LeftInv'
<1> SUFFICES ASSUME TypeOK, LabelInv, LeftInv, [Next]_vars, left' # NoRun PROVE LeftInv'
  BY DEF LeftInv
<1> USE DEF firmware, system, observed
<1>0. mode \in Nat /\ uart \in BOOLEAN
  BY DEF TypeOK, RunOK, SystemOK
<1>1. CASE Reboot /\ gptimer = "running"
  <2>1. /\ ~crossed /\ run_time > Behind /\ record + run_time = mode_to_time
        /\ left' = [record |-> record, nominal |-> mode_to_time, behind |-> Behind]
    <3>1. left' = IF gptimer # "running" THEN left
                  ELSE IF ~crossed /\ run_time > Behind /\ record + run_time = mode_to_time
                  THEN [record |-> record, nominal |-> mode_to_time, behind |-> Behind]
                  ELSE NoRun
      BY <1>1 DEF Reboot, LabelShown
    <3>2. Behind \in Nat /\ run_time \in Nat
      BY BehindIsAfter, TextsFinite, ConstantFacts DEF TypeOK, LineOK, RunOK
    <3>3. ~crossed /\ run_time > Behind /\ record + run_time = mode_to_time
      BY <1>1, <3>1
    <3> QED
      BY <1>1, <3>1, <3>2, <3>3
  <2>2. /\ AsRead(countdown) \in record .. record + Behind
        /\ record + Behind <= mode_to_time
        /\ Firmware!Nominal(FREQ2_label) = mode_to_time
    BY <1>1, <2>1, Interrupted
  <2>3. /\ left'.record = record /\ left'.nominal = mode_to_time /\ left'.behind = Behind
    BY <2>1
  <2>4. /\ gptimer' = "null" /\ Timer_queue' = 0 /\ down' = <<>>
        /\ UNCHANGED <<countdown, FREQ2_label>>
    BY <1>1 DEF Reboot, Firmware!Reboot, Firmware!Loaded, display
  <2> QED
    BY <2>2, <2>3, <2>4, NoMessage DEF LeftInv
<1>2. CASE Reboot /\ gptimer # "running"
  BY <1>2, NoMessage DEF Reboot, Firmware!Reboot, Firmware!Loaded, display, LeftInv
<1>3. CASE ~Reboot
  <2>1. ~P01 /\ ~P02 /\ ~FREQ2
    BY DEF P01, P02, FREQ2
  <2>2. left' = left
    BY <1>3, <2>1 DEF Next, StartUp, uart_driver_install, TimerSetup, get_date,
       get_displayed_window, stone_cmd, FREQ1, digit_clock1, W01, W02,
       label_timer_count_down, timer_on_alarm_cb, Tick, Display, Answer, answer,
       set_date, set_FREQ2, set_text, back_win, User, PressStart, PressStop, SelectMode, vars
  <2>3. gptimer # "running" /\ Timer_queue = 0
        /\ ~Comes(down, "set_text") /\ ~Comes(down, "set_FREQ2")
    BY <2>2 DEF LeftInv
  <2>4. ~Tick /\ ~timer_on_alarm_cb
    BY <2>3 DEF Tick, Firmware!Tick, timer_on_alarm_cb, Firmware!timer_on_alarm_cb
  <2>5. ~set_text /\ ~set_FREQ2
    BY <2>3, Shown DEF set_text, set_FREQ2, Show, MessageDropped
  <2>6. ASSUME UNCHANGED <<countdown, FREQ2_label, Timer_queue>>, gptimer' # "running",
               ~Comes(down', "set_text"), ~Comes(down', "set_FREQ2")
        PROVE  LeftInv'
    BY <2>2, <2>6 DEF LeftInv
  <2>7. ASSUME down # <<>>, down' = Tail(down)
        PROVE  ~Comes(down', "set_text") /\ ~Comes(down', "set_FREQ2")
    BY <2>3, <2>7, Shown DEF MessageDropped
  <2>8. ASSUME NEW x \in DownNames \ {"set_text", "set_FREQ2"}, NEW v \in Nat,
               down' = send(down, x, v)
        PROVE  ~Comes(down', "set_text") /\ ~Comes(down', "set_FREQ2")
    BY <1>0, <2>3, <2>8, Sent DEF MessageAppended
  <2>9. {"get_date", "get_displayed_window", "set_date", "get_FREQ1", "get_text",
         "get_FREQ2"} \subseteq DownNames \ {"set_text", "set_FREQ2"}
    BY DEF DownNames
  <2>10. CASE \/ uart_driver_install \/ TimerSetup \/ get_date \/ get_displayed_window
              \/ UNCHANGED vars
    BY <2>3, <2>6, <2>8, <2>9, <2>10 DEF uart_driver_install, TimerSetup, Firmware!TimerSetup,
       get_date, get_displayed_window, vars, display
  <2>11. CASE FREQ1 \/ digit_clock1
    BY <2>3, <2>6, <2>8, <2>9, <2>11 DEF FREQ1, Firmware!FREQ1, digit_clock1, display
  <2>12. CASE W01 \/ W02
    BY <2>3, <2>6, <2>8, <2>9, <2>12 DEF W01, W02, display
  <2>13. CASE label_timer_count_down
    BY <2>3, <2>6, <2>8, <2>9, <2>13 DEF label_timer_count_down,
       Firmware!label_timer_count_down, display
  <2>14. CASE set_date \/ back_win \/ Answer
    BY <2>3, <2>6, <2>7, <2>14 DEF set_date, back_win, Answer, answer, Show, display
  <2>15. CASE User
    BY <2>3, <2>6, <2>15 DEF User, PressStart, PressStop, SelectMode
  <2> QED
    BY <1>3, <2>1, <2>4, <2>5, <2>10, <2>11, <2>12, <2>13, <2>14, <2>15
       DEF Next, StartUp, stone_cmd, Display
<1> QED
  BY <1>1, <1>2, <1>3

\* The date keeps its place before the questions and answers of the dialogue.
LEMMA DateLine ==
  ASSUME NEW s, NEW t
  PROVE  /\ \A x, v : MessageAppended(s, t, x, v) /\ DateAsked(s) => DateAsked(t)
         /\ MessageDropped(s, t) /\ DateAsked(s) =>
              s[1].cmd = "get_date" \/ (DateAsked(t) /\ s[1].cmd \notin AskMessages)
         /\ \A x, v : FrameAppended(s, t, x, v) /\ DateTold(s) => DateTold(t)
         /\ FrameDropped(s, t) /\ DateTold(s) =>
              s[1].widget = "digit_clock1" \/ (DateTold(t) /\ s[1].widget \notin AskFrames)
<1>1. ASSUME NEW x, NEW v, MessageAppended(s, t, x, v), DateAsked(s) PROVE DateAsked(t)
  <2>1. PICK i : Message(s, i, "get_date") /\ \A j \in AskedDown(s) : i < j
    BY <1>1 DEF DateAsked
  <2>2. Message(t, i, "get_date") /\ i \in Nat /\ i < Len(s) + 1
    BY <1>1, <2>1 DEF MessageAppended, Message
  <2>3. \A j \in AskedDown(t) : j \in AskedDown(s) \/ j = Len(s) + 1
    BY <1>1 DEF MessageAppended, AskedDown, Message
  <2> QED
    BY <2>1, <2>2, <2>3 DEF DateAsked
<1>2. ASSUME MessageDropped(s, t), DateAsked(s), s[1].cmd # "get_date"
      PROVE  DateAsked(t) /\ s[1].cmd \notin AskMessages
  <2>1. PICK i : Message(s, i, "get_date") /\ \A j \in AskedDown(s) : i < j
    BY <1>2 DEF DateAsked
  <2>2. i \in Nat /\ i > 1 /\ Message(t, i - 1, "get_date")
    BY <1>2, <2>1 DEF MessageDropped
  <2>3. \A j \in AskedDown(t) : j \in Nat /\ j + 1 \in AskedDown(s)
    BY <1>2 DEF MessageDropped, AskedDown, Message
  <2>4. \A j \in AskedDown(t) : i - 1 < j
    BY <2>1, <2>2, <2>3
  <2>5. s[1].cmd \notin AskMessages
    <3>1. s[1].cmd \in AskMessages => 1 \in AskedDown(s)
      BY <1>2 DEF MessageDropped, AskedDown, Message
    <3> QED
      BY <2>1, <2>2, <3>1
  <2> QED
    BY <2>2, <2>4, <2>5 DEF DateAsked
<1>3. ASSUME NEW x, NEW v, FrameAppended(s, t, x, v), DateTold(s) PROVE DateTold(t)
  <2>1. PICK i : Frame(s, i, "digit_clock1") /\ \A j \in AskedUp(s) : i < j
    BY <1>3 DEF DateTold
  <2>2. Frame(t, i, "digit_clock1") /\ i \in Nat /\ i < Len(s) + 1
    BY <1>3, <2>1 DEF FrameAppended, Frame
  <2>3. \A j \in AskedUp(t) : j \in AskedUp(s) \/ j = Len(s) + 1
    BY <1>3 DEF FrameAppended, AskedUp, Frame
  <2> QED
    BY <2>1, <2>2, <2>3 DEF DateTold
<1>4. ASSUME FrameDropped(s, t), DateTold(s), s[1].widget # "digit_clock1"
      PROVE  DateTold(t) /\ s[1].widget \notin AskFrames
  <2>1. PICK i : Frame(s, i, "digit_clock1") /\ \A j \in AskedUp(s) : i < j
    BY <1>4 DEF DateTold
  <2>2. i \in Nat /\ i > 1 /\ Frame(t, i - 1, "digit_clock1")
    BY <1>4, <2>1 DEF FrameDropped
  <2>3. \A j \in AskedUp(t) : j \in Nat /\ j + 1 \in AskedUp(s)
    BY <1>4 DEF FrameDropped, AskedUp, Frame
  <2>4. \A j \in AskedUp(t) : i - 1 < j
    BY <2>1, <2>2, <2>3
  <2>5. s[1].widget \notin AskFrames
    <3>1. s[1].widget \in AskFrames => 1 \in AskedUp(s)
      BY <1>4 DEF FrameDropped, AskedUp, Frame
    <3> QED
      BY <2>1, <2>2, <3>1
  <2> QED
    BY <2>2, <2>4, <2>5 DEF DateTold
<1> QED
  BY <1>1, <1>2, <1>3, <1>4

\* The clock is set first.
LEMMA DateStep == TypeOK /\ SilentInv /\ ChainInv /\ DateInv /\ [Next]_vars => DateInv'
<1> SUFFICES ASSUME TypeOK, SilentInv, ChainInv, DateInv, [Next]_vars, dated', ~clock'
             PROVE  (AskedUp(up') = {} /\ DateAsked(down')) \/ DateTold(up')
  BY DEF DateInv
<1> USE DEF firmware, system, display, observed
<1>0. /\ countdown \in Times /\ countdown \in Nat /\ FREQ1_label \in Nat /\ FREQ2_label \in Nat
      /\ win \in {"W01", "W02"} /\ mode \in Nat /\ ModeValues \subseteq Nat
      /\ uart \in BOOLEAN
  BY ConstantFacts, DialogueConstantsOK DEF TypeOK, SystemOK, RunOK, Times
<1>1. PICK t, d : t = up' /\ d = down'
  OBVIOUS
<1> SUFFICES (AskedUp(t) = {} /\ DateAsked(d)) \/ DateTold(t)
  BY <1>1
\* What becomes of a question for the date, or of the answer.
<1>2. ASSUME NEW x \in DownNames, NEW v \in Nat, x = "set_text" => v \in Times,
             down' = send(down, x, v), DateAsked(down)
      PROVE  DateAsked(d)
  <2>1. CASE uart
    <3>1. MessageAppended(down, d, x, v)
      BY <1>1, <1>2, <2>1, Sent
    <3> QED
      BY <1>2, <3>1, DateLine
  <2> QED
    BY <1>0, <1>1, <1>2, <2>1 DEF send
<1>3. ASSUME down # <<>>, down' = Tail(down), DateAsked(down)
      PROVE  \/ down[1].cmd = "get_date"
             \/ DateAsked(d) /\ down[1].cmd \notin AskMessages
  <2>1. MessageDropped(down, d)
    BY <1>1, <1>3, Shown
  <2> QED
    BY <1>3, <2>1, DateLine
<1>4. ASSUME NEW x \in UpNames, NEW v \in Nat, x = "label_timer_count_down" => v \in Times,
             up' = press(x, v)
      PROVE  /\ DateTold(up) => DateTold(t)
             /\ x \notin AskFrames => AskedUp(t) = AskedUp(up)
  <2>1. CASE uart
    <3>1. FrameAppended(up, t, x, v)
      BY <1>1, <1>4, <2>1, Pressed
    <3> QED
      BY <3>1, DateLine, AskedUpAppended
  <2> QED
    BY <1>0, <1>1, <1>4, <2>1 DEF press
<1>5. ASSUME up # <<>>, up' = Tail(up)
      PROVE  /\ DateTold(up) => \/ up[1].widget = "digit_clock1"
                                \/ DateTold(t) /\ up[1].widget \notin AskFrames
             /\ AskedUp(up) = {} => AskedUp(t) = {} /\ up[1].widget \notin AskFrames
  <2>1. FrameDropped(up, t)
    BY <1>1, <1>5, Taken
  <2> QED
    BY <2>1, DateLine, AskedUpDropped
<1>6. ASSUME dated, ~clock PROVE (AskedUp(up) = {} /\ DateAsked(down)) \/ DateTold(up)
  BY <1>6 DEF DateInv
<1>7. DownNames = {"get_date", "get_displayed_window", "get_FREQ1", "get_text",
                   "get_FREQ2", "set_date", "set_FREQ2", "set_text", "back_win"}
  BY DEF DownNames
<1>8. UpNames = {"FREQ1", "P01", "P02", "digit_clock1", "W01", "W02",
                 "label_timer_count_down", "FREQ2"}
      /\ AskFrames = {"W02", "label_timer_count_down", "FREQ2"}
      /\ AskMessages = {"get_displayed_window", "get_text", "get_FREQ2"}
  BY DEF UpNames, AskFrames, AskMessages
<1>9. CASE uart_driver_install \/ TimerSetup \/ timer_on_alarm_cb \/ UNCHANGED vars
  <2>1. UNCHANGED <<up, down, dated, clock>>
    BY <1>9 DEF uart_driver_install, TimerSetup, timer_on_alarm_cb, vars
  <2> QED
    BY <1>1, <1>6, <2>1
<1>10. CASE get_date
  <2>1. /\ uart /\ boot = "date" /\ down' = send(down, "get_date", 0) /\ up' = up
    BY <1>10 DEF get_date
  <2>2. MessageAppended(down, d, "get_date", 0)
    BY <1>1, <1>7, <2>1, Sent
  <2>3. AskedUp(t) = {} /\ AskedDown(d) = {}
    BY <1>1, <1>8, <2>1, <2>2, AskedDownAppended DEF ChainInv
  <2> QED
    BY <2>2, <2>3 DEF MessageAppended, DateAsked
<1>11. CASE get_displayed_window
  BY <1>1, <1>2, <1>6, <1>7, <1>11 DEF get_displayed_window
<1>12. ~digit_clock1
  BY DEF digit_clock1
<1>13. CASE FREQ1 \/ P02
  <2>1. /\ up # <<>> /\ up' = Tail(up) /\ up[1].widget # "digit_clock1"
        /\ UNCHANGED <<down, dated, clock>>
    BY <1>13 DEF FREQ1, P02, Receive
  <2> QED
    BY <1>1, <1>5, <1>6, <2>1
<1>14. CASE P01 \/ W01
  <2>1. PICK x \in {"set_FREQ2", "get_FREQ1"}, v \in Nat :
          /\ up # <<>> /\ up' = Tail(up) /\ up[1].widget # "digit_clock1"
          /\ down' = send(down, x, v) /\ UNCHANGED <<dated, clock>>
    BY <1>0, <1>14 DEF P01, W01, Receive
  <2> QED
    BY <1>2, <1>5, <1>6, <1>7, <2>1
<1>15. ~W02 /\ ~label_timer_count_down /\ ~FREQ2
  <2> SUFFICES ASSUME up # <<>>, up' = Tail(up), up[1].widget \in AskFrames,
                      UNCHANGED <<dated, clock>>
               PROVE  FALSE
    BY <1>8 DEF W02, label_timer_count_down, FREQ2, Receive
  <2> QED
    BY <1>5, <1>6, <1>8
<1>16. CASE Tick
  <2>1. UNCHANGED <<up, dated, clock>>
    BY <1>16 DEF Tick
  <2>2. ASSUME DateAsked(down) PROVE DateAsked(d)
    <3>1. CASE ~uart
      BY <1>1, <1>16, <2>2, <3>1, TickSent
    <3>2. CASE uart
      <4>1. PICK r : r = record'
        OBVIOUS
      <4>2. PICK e : /\ MessageAppended(e, d, "set_text", r)
                     /\ e = down \/ MessageAppended(down, e, "back_win", 0)
        BY <1>1, <1>16, <3>2, <4>1, TickSent
      <4>3. DateAsked(e)
        BY <2>2, <4>2, DateLine
      <4> QED
        BY <4>2, <4>3, DateLine
    <3> QED
      BY <1>0, <3>1, <3>2
  <2> QED
    BY <1>1, <1>6, <2>1, <2>2
<1>17. CASE set_date \/ set_FREQ2 \/ set_text \/ back_win
  <2>1. /\ down # <<>> /\ down' = Tail(down) /\ down[1].cmd # "get_date"
        /\ UNCHANGED <<up, dated, clock>>
    BY <1>17 DEF set_date, set_FREQ2, set_text, back_win, Show
  <2> QED
    BY <1>1, <1>3, <1>6, <2>1
<1>18. CASE answer("get_date", "digit_clock1", 0)
  <2>1. /\ down # <<>> /\ up' = press("digit_clock1", 0) /\ UNCHANGED <<dated, clock>>
    BY <1>18 DEF answer, Show
  <2>2. uart
    BY <2>1 DEF SilentInv
  <2>3. FrameAppended(up, t, "digit_clock1", 0)
    BY <1>1, <1>8, <2>1, <2>2, Pressed
  <2>4. CASE AskedUp(up) = {}
    <3>1. AskedUp(t) = {}
      BY <1>8, <2>3, <2>4, AskedUpAppended
    <3> QED
      BY <2>3, <3>1 DEF FrameAppended, DateTold
  <2>5. CASE DateTold(up)
    BY <2>3, <2>5, DateLine
  <2> QED
    BY <1>6, <2>1, <2>4, <2>5
<1>19. CASE answer("get_FREQ1", "FREQ1", FREQ1_label)
  BY <1>0, <1>1, <1>3, <1>4, <1>6, <1>8, <1>19 DEF answer, Show
<1>20. CASE \/ answer("get_displayed_window", win, 0)
            \/ answer("get_text", "label_timer_count_down", countdown)
            \/ answer("get_FREQ2", "FREQ2", FREQ2_label)
  <2>1. /\ down # <<>> /\ down' = Tail(down) /\ down[1].cmd \in AskMessages
        /\ down[1].cmd # "get_date" /\ UNCHANGED <<dated, clock>>
    BY <1>8, <1>20 DEF answer, Show
  <2>2. DateTold(up)
    BY <1>3, <1>6, <2>1
  <2> QED
    BY <1>0, <1>4, <1>8, <1>20, <2>2 DEF answer
<1>21. CASE User
  <2>1. PICK x \in {"FREQ1", "P01", "P02"}, v \in Nat :
          up' = press(x, v) /\ UNCHANGED <<down, dated, clock>>
    BY <1>0, <1>21 DEF User, PressStart, PressStop, SelectMode
  <2> QED
    BY <1>1, <1>4, <1>6, <1>8, <2>1
<1>22. ~Reboot
  BY DEF Reboot
<1> QED
  BY <1>9, <1>10, <1>11, <1>12, <1>13, <1>14, <1>15, <1>16, <1>17, <1>18, <1>19, <1>20, <1>21,
     <1>22 DEF Next, StartUp, stone_cmd, Display, Answer

LEMMA Resumed == Spec => []ResumedInv
<1>1. Init => ResumedInv
  BY TypeInit, SilentInit, ModeInit, ChainInit, TalkInit, BackInit, RunInit, ResumeInit,
     StopInit, MatchInit, LabelInit DEF ResumedInv, WindowInv, RunsInv
<1>2. ResumedInv /\ [Next]_vars => ResumedInv'
  <2> SUFFICES ASSUME ResumedInv, [Next]_vars PROVE ResumedInv'
    OBVIOUS
  <2>1. WindowInv'
    BY TypeStep, SilentStep, ModeStep, ChainStep, TalkStep, BackStep, RunStep, ResumeStep,
       StopStep, MatchStep DEF ResumedInv, WindowInv, RunsInv
  <2>2. LabelInv' /\ LeftInv' /\ DateInv'
    BY LabelStep, LeftStep, DateStep DEF ResumedInv, WindowInv, RunsInv
  <2> QED
    BY <2>1, <2>2 DEF ResumedInv
<1> QED
  BY <1>1, <1>2, PTL DEF Spec

\* What is resumed is what the labels show; for an interrupted run of which a label
\* was shown that is the time it had left and its own nominal time; and, if the
\* question for the date got through, it is not resumed before the clock is set.
THEOREM RunResumedAsLeft == Spec => ResumedAsLeft
<1> DEFINE Resuming == FREQ2 =>
        /\ ~crossed =>
             /\ record = AsRead(countdown)
             /\ mode_to_time' = Firmware!Nominal(FREQ2_label)
        /\ left # NoRun /\ ~crossed =>
             /\ record \in left.record .. left.record + left.behind
             /\ mode_to_time' = left.nominal
             /\ record + run_time' = left.nominal
        /\ dated => clock
<1>1. ResumedInv /\ [Next]_vars => [Resuming]_vars
  <2> SUFFICES ASSUME ResumedInv, FREQ2
               PROVE  /\ ~crossed =>
                           /\ record = AsRead(countdown)
                           /\ mode_to_time' = Firmware!Nominal(FREQ2_label)
                      /\ left # NoRun /\ ~crossed =>
                           /\ record \in left.record .. left.record + left.behind
                           /\ mode_to_time' = left.nominal
                           /\ record + run_time' = left.nominal
                      /\ dated => clock
    OBVIOUS
  <2> USE DEF ResumedInv, WindowInv, RunsInv
  <2>1. /\ up # <<>> /\ up[1].widget = "FREQ2" /\ up' = Tail(up)
        /\ run_time' = Firmware!Sub(Firmware!Nominal(up[1].value), record)
        /\ mode_to_time' = Firmware!Nominal(up[1].value)
    BY DEF FREQ2, Receive, Firmware!FREQ2, Value
  <2>2. Frame(up, 1, "FREQ2") /\ Waits(up, "FREQ2")
    BY <2>1, Taken DEF FrameDropped
  <2>5. ASSUME ~crossed
        PROVE  up[1].value = FREQ2_label /\ record = AsRead(countdown)
    BY <2>2, <2>5 DEF ResumeInv
  <2>3. ASSUME left # NoRun, ~crossed
        PROVE  /\ record \in left.record .. left.record + left.behind
               /\ mode_to_time' = left.nominal
               /\ record + run_time' = left.nominal
    <3>1. up[1].value = FREQ2_label /\ record = AsRead(countdown)
      BY <2>3, <2>5
    <3>2. /\ record \in left.record .. left.record + left.behind
          /\ left.record + left.behind <= left.nominal
          /\ Firmware!Nominal(FREQ2_label) = left.nominal
      BY <2>3, <3>1 DEF LeftInv
    <3>3. /\ left.record \in Nat /\ left.behind \in Nat /\ left.nominal \in Nat
          /\ record \in 0 .. Word - 1
      BY DEF TypeOK, ObserversOK, RunOK
    <3>4. Firmware!Nominal(FREQ2_label) \in 0 .. Word - 1
      BY NominalFacts, ConstantFacts
    <3>5. record <= left.nominal
      BY <3>2, <3>3
    <3>6. run_time' = left.nominal - record
      BY <2>1, <3>1, <3>2, <3>3, <3>4, <3>5, SubFacts
    <3> QED
      BY <2>1, <3>1, <3>2, <3>3, <3>6
  <2>4. ASSUME dated, ~clock PROVE FALSE
    <3>1. 1 \in AskedUp(up)
      BY <2>2 DEF Frame, AskedUp, AskFrames
    <3>2. DateTold(up)
      BY <2>4, <3>1 DEF DateInv
    <3>3. PICK i : Frame(up, i, "digit_clock1") /\ i < 1
      BY <3>1, <3>2 DEF DateTold
    <3>4. up \in Seq(Frames)
      BY DEF TypeOK, LineOK
    <3> QED
      BY <3>3, <3>4, Places
  <2> QED
    BY <2>1, <2>3, <2>4, <2>5
<1> QED
  BY <1>1, Resumed, PTL DEF Spec, ResumedAsLeft

=============================================================================
