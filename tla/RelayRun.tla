------------------------------ MODULE RelayRun ------------------------------
(***************************************************************************)
(* What main/main.c does to a run when its handlers do not overlap: each   *)
(* command of stone_cmd and each tick of timer_handle is one step.         *)
(* RelayTimer is the same program with every load and store a step of its  *)
(* own, RelaySerial shows that it implements this module, and              *)
(* ResumeDialogue puts a display in front of it.                           *)
(***************************************************************************)
EXTENDS Naturals

CONSTANTS
  NModes,       \* number of modes with an OPEN_TIME of their own (5)
  OpenTime,     \* OPEN_TIME_m * 60
  Word,         \* 2^32
  HalfWord,     \* 2^16
  QueueLength,  \* length of Timer_queue (10)
  ModeValues,   \* the bytes that FREQ1 and FREQ2 can carry
  LabelValues   \* the seconds that the countdown label can be read as

Modes == 1 .. NModes
Counter == 0 .. Word - 1

VARIABLES
  mode, record, run_time, mode_to_time,
  on,           \* the relays are on
  gptimer,      \* "null", "stopped" or "running"
  Timer_queue,  \* ticks waiting
  entry         \* the last entry handed to save_history

counters == <<record, run_time, mode_to_time>>
run == <<mode, counters, on, gptimer, Timer_queue, entry>>

Nominal(m) == IF m \in Modes THEN OpenTime[m] ELSE OpenTime[1]
Sub(x, y) == IF x >= y THEN x - y ELSE (x + Word) - y
Started == IF gptimer = "null" THEN "null" ELSE "running"
Stopped == IF gptimer = "null" THEN "null" ELSE "stopped"
Entry_Swapped(m, time) == [mode |-> time, time |-> m % HalfWord]
Entry(m, time) == [mode |-> m, time |-> time % HalfWord]

\* The static initialisers, and the relays switched off by app_main.
Loaded(m, r, t, n, o, g, q) ==
  m = 1 /\ r = OpenTime[1] /\ t = 0 /\ n = 0 /\ o = FALSE /\ g = "null" /\ q = 0

Init ==
  /\ Loaded(mode, record, run_time, mode_to_time, on, gptimer, Timer_queue)
  /\ entry = [mode |-> 0, time |-> 0]

-----------------------------------------------------------------------------
FREQ1(v) ==
  /\ mode' = v
  /\ UNCHANGED <<counters, on, gptimer, Timer_queue, entry>>

P01 ==
  /\ on' = TRUE
  /\ record' = Nominal(mode) /\ mode_to_time' = Nominal(mode)
  /\ run_time' = 0
  /\ gptimer' = Started
  /\ UNCHANGED <<mode, Timer_queue, entry>>

P02 ==
  /\ on' = FALSE
  /\ gptimer' = Stopped
  /\ entry' = Entry(mode, run_time)
  /\ UNCHANGED <<mode, counters, Timer_queue>>

label_timer_count_down(s) ==
  /\ record' = s
  /\ UNCHANGED <<mode, run_time, mode_to_time, on, gptimer, Timer_queue, entry>>

FREQ2(v) ==
  /\ run_time' = Sub(Nominal(v), record)
  /\ mode_to_time' = Nominal(v)
  /\ gptimer' = Started
  /\ UNCHANGED <<mode, record, on, Timer_queue, entry>>

TimerSetup ==
  /\ gptimer = "null"
  /\ gptimer' = "stopped"
  /\ UNCHANGED <<mode, counters, on, Timer_queue, entry>>

timer_on_alarm_cb ==
  /\ gptimer = "running"
  /\ Timer_queue < QueueLength
  /\ Timer_queue' = Timer_queue + 1
  /\ UNCHANGED <<mode, counters, on, gptimer, entry>>

\* A tick: count, and when no time is left end the run and log it in full.
Tick ==
  /\ gptimer # "null" /\ Timer_queue > 0
  /\ Timer_queue' = Timer_queue - 1
  /\ record' = Sub(record, 1)
  /\ run_time' = (run_time + 1) % Word
  /\ IF record' = 0
     THEN on' = FALSE /\ gptimer' = Stopped /\ entry' = Entry(mode, mode_to_time)
     ELSE UNCHANGED <<on, gptimer, entry>>
  /\ UNCHANGED <<mode, mode_to_time>>

\* The ESP32 starts again; only the log is kept.
Reboot ==
  /\ Loaded(mode', record', run_time', mode_to_time', on', gptimer', Timer_queue')
  /\ UNCHANGED entry

Next ==
  \/ \E v \in ModeValues : FREQ1(v) \/ FREQ2(v)
  \/ P01 \/ P02
  \/ \E s \in LabelValues : label_timer_count_down(s)
  \/ TimerSetup \/ timer_on_alarm_cb \/ Tick
  \/ Reboot

Spec == Init /\ [][Next]_run
=============================================================================
