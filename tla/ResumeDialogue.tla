--------------------------- MODULE ResumeDialogue ---------------------------
(***************************************************************************)
(* The firmware and its display: the handlers of RelayRun with the         *)
(* messages they send, the questions app_main asks after a restart, and    *)
(* the answers by which a run that a reset interrupted is resumed.         *)
(*                                                                         *)
(* The display is external and modelled from what main.c expects of it:    *)
(* window W01 has the mode FREQ1 and the button P01, window W02, which P01 *)
(* opens, the countdown label and the button P02, which goes back; it      *)
(* answers every get_ message; and it keeps its windows and labels when    *)
(* the ESP32 starts again.  Each direction of the line is a queue.  What   *)
(* StoneFraming, StoneMailbox and StoneTx say can be lost on it is left    *)
(* out here, what a reset loses is not.                                    *)
(***************************************************************************)
EXTENDS Naturals, Sequences, FiniteSets

CONSTANTS
  NModes, OpenTime, Word, HalfWord, QueueLength,  \* as in RelayRun
  ModeValues,   \* modes that the user can select
  LabelValues,  \* the seconds that the countdown label can be read as
  Minute,       \* 60
  Byte,         \* 256, the range of the uint8_t that sscanf stores
  MaxUp,        \* bound: frames waiting when the user touches the display
  MaxDown       \* bound: messages waiting then, or when a tick is executed

ASSUME DialogueConstantsOK ==
  /\ NModes \in Nat \ {0} /\ QueueLength \in Nat \ {0}
  /\ Word \in Nat /\ HalfWord \in Nat /\ HalfWord <= Word
  /\ OpenTime \in [1 .. NModes -> 1 .. HalfWord - 1]
  /\ ModeValues \subseteq Nat /\ LabelValues \subseteq 0 .. Word - 1
  /\ Minute \in Nat \ {0} /\ Byte \in Nat \ {0}
  /\ \A m \in 1 .. NModes : OpenTime[m] < Minute * Byte
  /\ MaxUp \in Nat /\ MaxDown \in Nat

VARIABLES
  mode, record, run_time, mode_to_time, on, gptimer, Timer_queue, entry,
  boot,    \* what app_main does next: "date", "window" or "done"
  uart,    \* uart_task has installed the driver
  clock,   \* the time of day has been set
  win, FREQ1_label, FREQ2_label, countdown,  \* the display
  up,      \* frames of the display to the firmware
  down,    \* messages of the firmware to the display
  (* The rest only observes. *)
  dated,   \* the question for the date got through
  crossed, \* the last button was pressed into a message under way
  lost,    \* a start or a question did not get through
  known,   \* the display has told its FREQ1 since the last reset
  began,   \* the mode shown when the run was started, 0 if resumed or ~known
  left     \* the run a reset interrupted after a label of it was shown, or NoRun

Firmware == INSTANCE RelayRun
firmware == <<mode, record, run_time, mode_to_time, on, gptimer, Timer_queue, entry>>
system   == <<boot, uart, clock>>
display  == <<win, FREQ1_label, FREQ2_label, countdown>>
observed == <<dated, crossed, lost, known, began, left>>
vars == <<firmware, system, display, up, down, observed>>

NoText == Word  \* what the countdown label shows before its first text
NoRun == [record |-> 0, nominal |-> 0, behind |-> 0]

\* "%lu:%02lu" as read back with "%hhu:%hhu".
AsRead_SecondsOnly(s) == s % Minute
AsRead(s) == (((s \div Minute) % Byte) * Minute) + (s % Minute)

InUp(w) == \E k \in DOMAIN up : up[k].widget = w
InDown(m) == \E k \in DOMAIN down : down[k].cmd = m

\* Without the driver uart_write_bytes fails, and what the display sends is lost.
send(line, m, v) == IF uart THEN Append(line, [cmd |-> m, value |-> v]) ELSE line
press(w, v) == IF uart THEN Append(up, [widget |-> w, value |-> v]) ELSE up

\* The questions after a restart have not all been asked and answered.
Talking ==
  \/ boot # "done"
  \/ InDown("get_displayed_window") \/ InDown("get_text") \/ InDown("get_FREQ2")
  \/ InUp("W02") \/ InUp("label_timer_count_down") \/ InUp("FREQ2")

Init ==
  /\ Firmware!Init
  /\ boot = "date" /\ uart = FALSE /\ clock = FALSE
  /\ win = "W01" /\ FREQ1_label \in ModeValues /\ FREQ2_label = 1
  /\ countdown = NoText
  /\ up = <<>> /\ down = <<>>
  /\ dated = FALSE /\ crossed = FALSE /\ lost = FALSE /\ known = FALSE
  /\ began = 0 /\ left = NoRun

-----------------------------------------------------------------------------
(* Start-up: uart_task, timer_handle, and check_status_afer_seset.         *)

uart_driver_install ==
  /\ ~uart /\ uart' = TRUE
  /\ UNCHANGED <<firmware, boot, clock, display, up, down, observed>>

TimerSetup ==
  /\ Firmware!TimerSetup
  /\ UNCHANGED <<system, display, up, down, observed>>

get_date ==
  /\ boot = "date" /\ boot' = "window"
  /\ down' = send(down, "get_date", 0)
  /\ dated' = uart
  /\ UNCHANGED <<firmware, uart, clock, display, up, crossed, lost, known, began,
                 left>>

get_displayed_window ==
  /\ boot = "window" /\ boot' = "done"
  /\ down' = send(down, "get_displayed_window", 0)
  /\ lost' = (lost \/ ~uart)
  /\ UNCHANGED <<firmware, uart, clock, display, up, dated, crossed, known,
                 began, left>>

-----------------------------------------------------------------------------
(* stone_cmd.                                                              *)

Receive(w) == up # <<>> /\ up[1].widget = w /\ up' = Tail(up)
Value == up[1].value

FREQ1 ==
  /\ Receive("FREQ1")
  /\ Firmware!FREQ1(Value)
  /\ known' = TRUE
  /\ UNCHANGED <<system, display, down, dated, crossed, lost, began, left>>

P01 ==
  /\ Receive("P01")
  /\ Firmware!P01
  /\ down' = send(down, "set_FREQ2", mode)
  /\ lost' = (gptimer = "null")
  /\ began' = IF known THEN Value ELSE 0
  /\ left' = NoRun
  /\ UNCHANGED <<system, display, dated, crossed, known>>

P02 ==
  /\ Receive("P02")
  /\ Firmware!P02
  /\ lost' = FALSE
  /\ began' = 0 /\ left' = NoRun
  /\ UNCHANGED <<system, display, down, dated, crossed, known>>

\* set_time_epoch_string: settimeofday and set_date.
digit_clock1 ==
  /\ Receive("digit_clock1")
  /\ clock' = TRUE
  /\ down' = send(down, "set_date", 0)
  /\ UNCHANGED <<firmware, boot, uart, display, observed>>

W01 ==
  /\ Receive("W01")
  /\ down' = send(down, "get_FREQ1", 0)
  /\ UNCHANGED <<firmware, system, display, observed>>

W02 ==
  /\ Receive("W02")
  /\ down' = send(down, "get_text", 0)
  /\ UNCHANGED <<firmware, system, display, observed>>

\* A text that is no time ends the dialogue.
label_timer_count_down ==
  /\ Receive("label_timer_count_down")
  /\ IF Value = NoText
     THEN lost' = TRUE /\ UNCHANGED <<firmware, down>>
     ELSE /\ Firmware!label_timer_count_down(AsRead(Value))
          /\ down' = send(down, "get_FREQ2", 0)
          /\ UNCHANGED lost
  /\ UNCHANGED <<system, display, dated, crossed, known, began, left>>

FREQ2 ==
  /\ Receive("FREQ2")
  /\ Firmware!FREQ2(Value)
  /\ lost' = (gptimer = "null")
  /\ began' = 0 /\ left' = NoRun
  /\ UNCHANGED <<system, display, down, dated, crossed, known>>

-----------------------------------------------------------------------------
(* timer_handle.                                                           *)

timer_on_alarm_cb ==
  /\ Firmware!timer_on_alarm_cb
  /\ UNCHANGED <<system, display, up, down, observed>>

\* The tick that ends the run sends back_win; every tick sends the label.
Expires == record' = 0
Tick_NoReturn ==
  /\ Len(down) < MaxDown
  /\ Firmware!Tick
  /\ down' = send(down, "set_text", record')
  /\ crossed' = (crossed \/ (Expires /\ InUp("P01")))
  /\ began' = IF Expires THEN 0 ELSE began
  /\ UNCHANGED <<system, display, up, dated, lost, known, left>>
Tick ==
  /\ Len(down) < MaxDown
  /\ Firmware!Tick
  /\ down' = send(IF Expires THEN send(down, "back_win", 0) ELSE down,
                  "set_text", record')
  /\ crossed' = (crossed \/ (Expires /\ InUp("P01")))
  /\ began' = IF Expires THEN 0 ELSE began
  /\ UNCHANGED <<system, display, up, dated, lost, known, left>>

-----------------------------------------------------------------------------
(* A reset of the ESP32 loses its memory and what is on the line.          *)

Behind == Cardinality({k \in DOMAIN down : down[k].cmd = "set_text"})

\* The label on the display is one of this run, which sends one a second.  Before,
\* it is that of an earlier run, and a reset would resume this one from it.
LabelShown == run_time > Behind

Reboot ==
  /\ Firmware!Reboot
  /\ boot' = "date" /\ uart' = FALSE /\ clock' = FALSE
  /\ up' = <<>> /\ down' = <<>>
  /\ dated' = FALSE /\ crossed' = FALSE /\ lost' = FALSE /\ known' = FALSE
  /\ began' = 0
  /\ left' = IF gptimer # "running" THEN left
             ELSE IF ~crossed /\ LabelShown /\ record + run_time = mode_to_time
             THEN [record |-> record, nominal |-> mode_to_time, behind |-> Behind]
             ELSE NoRun
  /\ UNCHANGED display

-----------------------------------------------------------------------------
(* The display and its user.                                               *)

Show(m) == down # <<>> /\ down[1].cmd = m /\ down' = Tail(down)

answer(m, w, v) ==
  /\ Show(m)
  /\ up' = press(w, v)
  /\ UNCHANGED <<firmware, system, display, observed>>

Answer ==
  \/ answer("get_date", "digit_clock1", 0)
  \/ answer("get_displayed_window", win, 0)
  \/ answer("get_FREQ1", "FREQ1", FREQ1_label)
  \/ answer("get_text", "label_timer_count_down", countdown)
  \/ answer("get_FREQ2", "FREQ2", FREQ2_label)

set_date ==
  /\ Show("set_date")
  /\ UNCHANGED <<firmware, system, display, up, observed>>

set_FREQ2 ==
  /\ Show("set_FREQ2")
  /\ FREQ2_label' = down[1].value
  /\ UNCHANGED <<firmware, system, win, FREQ1_label, countdown, up, observed>>

set_text ==
  /\ Show("set_text")
  /\ countdown' = down[1].value
  /\ UNCHANGED <<firmware, system, win, FREQ1_label, FREQ2_label, up, observed>>

back_win ==
  /\ Show("back_win")
  /\ win' = "W01"
  /\ UNCHANGED <<firmware, system, FREQ1_label, FREQ2_label, countdown, up, observed>>

Free == Len(up) < MaxUp /\ Len(down) <= MaxDown

SelectMode(v) ==
  /\ win = "W01" /\ Free
  /\ FREQ1_label' = v
  /\ up' = press("FREQ1", v)
  /\ UNCHANGED <<firmware, system, win, FREQ2_label, countdown, down, observed>>

\* A run that was started into a message under way is still on.
StillCrossed == crossed /\ (gptimer = "running" \/ InUp("P01"))

PressStart ==
  /\ win = "W01" /\ Free
  /\ win' = "W02"
  /\ up' = press("P01", FREQ1_label)
  /\ crossed' = (Talking \/ InDown("back_win") \/ StillCrossed)
  /\ UNCHANGED <<firmware, system, FREQ1_label, FREQ2_label, countdown, down,
                 dated, lost, known, began, left>>

PressStop ==
  /\ win = "W02" /\ Free
  /\ win' = "W01"
  /\ up' = press("P02", 0)
  /\ crossed' = (Talking \/ StillCrossed)
  /\ UNCHANGED <<firmware, system, FREQ1_label, FREQ2_label, countdown, down,
                 dated, lost, known, began, left>>

User == PressStart \/ PressStop \/ \E v \in ModeValues : SelectMode(v)

StartUp == uart_driver_install \/ TimerSetup \/ get_date \/ get_displayed_window
stone_cmd ==
  \/ FREQ1 \/ P01 \/ P02 \/ digit_clock1 \/ W01 \/ W02
  \/ label_timer_count_down \/ FREQ2
Display == Answer \/ set_date \/ set_FREQ2 \/ set_text \/ back_win

Next == StartUp \/ stone_cmd \/ timer_on_alarm_cb \/ Tick \/ Display \/ User \/ Reboot

Spec == Init /\ [][Next]_vars

\* Every task runs, the display answers, a running timer raises its alarm.
\* Neither the user nor a reset has to come.
Fairness ==
  /\ WF_vars(uart_driver_install) /\ WF_vars(TimerSetup)
  /\ WF_vars(get_date \/ get_displayed_window)
  /\ WF_vars(stone_cmd) /\ WF_vars(timer_on_alarm_cb) /\ WF_vars(Tick)
  /\ WF_vars(Display)

FairSpec == Spec /\ Fairness

-----------------------------------------------------------------------------
(* Properties.                                                             *)

\* When nothing is under way the display shows window W02 exactly while the
\* timer runs, whatever resets came before: an interrupted run goes on, and so
\* does one that ended with its back_win lost in a reset, which comes back and is
\* logged again.  Not so after a button pressed into a message under way, or a
\* start or question that met a driver not yet installed.
WindowMatchesRun ==
  up = <<>> /\ down = <<>> /\ boot = "done" /\ ~crossed /\ ~lost =>
    (win = "W02" <=> gptimer = "running")

\* What is resumed is what the two labels show when the last answer is handled.  If
\* the run that the reset interrupted had shown a label of its own, that is the time
\* it had left, up to the labels lost on the line, and its own nominal time.  If not,
\* or if it had itself been resumed with more than its mode's time, it is whatever
\* an earlier run left on the display: 0:00, say, which wraps.  And if the question
\* for the date got through, no run is resumed before the clock is set.
ResumedAsLeft ==
  [][ FREQ2 =>
        /\ ~crossed =>
             /\ record = AsRead(countdown)
             /\ mode_to_time' = Firmware!Nominal(FREQ2_label)
        /\ left # NoRun /\ ~crossed =>
             /\ record \in left.record .. left.record + left.behind
             /\ mode_to_time' = left.nominal
             /\ record + run_time' = left.nominal
        /\ dated => clock ]_vars

\* The entry that a stop or an expiry writes has the mode the display showed when the
\* run was started.  Not so for a resumed run, nor for one started after a reset
\* before the display has told its FREQ1 again, which it does when it is asked at W01
\* or the user selects: both are logged under mode 1.
LoggedUnderItsMode ==
  [][ P02 \/ (Tick /\ Expires) =>
        (began # 0 /\ ~crossed => entry'.mode = began) ]_vars

\* When nobody touches the display and no reset comes any more, every run ends
\* and the display is back at W01, if what started or resumed it got through and
\* the last button was not pressed into a message under way.
DisplayReturns ==
  <>[][~User /\ ~Reboot]_vars =>
    <>[](lost \/ crossed \/ (win = "W01" /\ gptimer # "running" /\ ~on))

=============================================================================
