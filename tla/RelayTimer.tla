----------------------------- MODULE RelayTimer -----------------------------
(***************************************************************************)
(* The relay countdown of main/main.c.                                     *)
(*                                                                         *)
(* Two FreeRTOS tasks of equal priority run on the two cores of the ESP32  *)
(* and share, without a lock, the counters record, run_time and            *)
(* mode_to_time, the byte mode, the four relay outputs and the gptimer:    *)
(*                                                                         *)
(*   stone_cmd     executes the commands the display sends;                *)
(*   timer_handle  executes one tick per element of Timer_queue, which the *)
(*                 alarm interrupt of the gptimer fills once a second.     *)
(*                                                                         *)
(* Each load and each store of a shared variable, and each call of a       *)
(* driver, is a step of its own, so the tasks interleave between any two.  *)
(* Which command arrives is left open: any widget, any value, at any time. *)
(***************************************************************************)
EXTENDS Naturals

CONSTANTS
  NModes,       \* number of modes with an OPEN_TIME of their own (5)
  OpenTime,     \* OPEN_TIME_m * 60, the length in seconds of a run of mode m
  Word,         \* 2^32, the range of the uint32_t record and run_time
  HalfWord,     \* 2^16, the range of the uint16_t parameter of save_history
  NRelays,      \* number of relay outputs (4)
  QueueLength,  \* length of Timer_queue (10)
  ModeValues,   \* the bytes that a FREQ1 or FREQ2 message can carry
  LabelValues   \* the seconds that the countdown label of the display can show

Modes == 1 .. NModes
Relays == 1 .. NRelays
Counter == 0 .. Word - 1

ASSUME ConstantsOK ==
  /\ NModes \in Nat /\ NModes >= 1
  /\ NRelays \in Nat /\ NRelays >= 1
  /\ QueueLength \in Nat /\ QueueLength >= 1
  /\ HalfWord \in Nat /\ Word \in Nat /\ HalfWord <= Word
  /\ OpenTime \in [Modes -> 1 .. HalfWord - 1]
  /\ ModeValues \subseteq Nat
  /\ LabelValues \subseteq Counter

VARIABLES
  mode,          \* selected mode
  record,        \* seconds left of the run
  run_time,      \* seconds run so far
  mode_to_time,  \* nominal length of the run
  relay,         \* output level of each relay
  gptimer,       \* "null" before timer_handle has created it
  Timer_queue,   \* number of ticks waiting (their payload is never read)
  entry,         \* the last entry handed to save_history
  c_pc, c_i, c_reg, c_nom,  \* stone_cmd: next step, relay index, registers
  t_pc, t_i, t_reg, t_run,  \* timer_handle: the same
  (* The next four only observe. *)
  clean,         \* the last P01 or P02 handler overlapped no tick
  book,          \* what the counters were last set by, see below
  owed,          \* a run was started and has not been logged yet
  lit            \* seconds of that run counted with all relays on, see below

counters == <<record, run_time, mode_to_time>>
cmd      == <<c_pc, c_i, c_reg, c_nom>>
tick     == <<t_pc, t_i, t_reg, t_run>>
observed == <<clean, book, owed, lit>>
vars == <<mode, counters, relay, gptimer, Timer_queue, entry,
          cmd, tick, observed>>

StartSteps  == {"on", "arm", "nominal", "zero", "start"}
StopSteps   == {"off", "stop", "save"}
ResumeSteps == {"r_store", "r_nominal", "r_start"}
TickSteps   == {"dec", "load", "inc", "test", "off", "stop", "save"}

TimerBusy == t_pc # "recv"
AllOn  == \A r \in Relays : relay[r] = 1
AllOff == \A r \in Relays : relay[r] = 0

-----------------------------------------------------------------------------
(* Arithmetic of the C types, and the calls of the ESP-IDF timer driver.   *)

Dec_NoWrap(x) == x - 1
Dec(x) == IF x = 0 THEN Word - 1 ELSE x - 1
Inc(x) == IF x = Word - 1 THEN 0 ELSE x + 1
Sub(x, y) == IF x >= y THEN x - y ELSE (x + Word) - y

\* The if-ladders of P01 and FREQ2: a mode without a time of its own runs as 1.
Nominal(m) == IF m \in Modes THEN OpenTime[m] ELSE OpenTime[1]

\* gptimer_start and gptimer_stop fail on a NULL handle and change nothing
\* when the timer already runs, or already stands.
gptimer_start_Lost(g) == g
gptimer_start(g) == IF g = "null" THEN g ELSE "running"
gptimer_stop(g)  == IF g = "null" THEN g ELSE "stopped"

save_history(m, time) == [mode |-> m, time |-> time % HalfWord]

-----------------------------------------------------------------------------
(* Initial values: the static initialisers, and app_main's gpio calls.     *)

Init ==
  /\ mode = 1
  /\ record = OpenTime[1]
  /\ run_time = 0
  /\ mode_to_time = 0
  /\ relay = [r \in Relays |-> 0]
  /\ gptimer = "null"
  /\ Timer_queue = 0
  /\ entry = [mode |-> 0, time |-> 0]
  /\ c_pc = "recv" /\ c_i = 1 /\ c_reg = 0 /\ c_nom = 0
  /\ t_pc = "setup" /\ t_i = 1 /\ t_reg = 0 /\ t_run = 0
  /\ clean = TRUE
  /\ book = "none"
  /\ owed = FALSE
  /\ lit = 0

-----------------------------------------------------------------------------
(* stone_cmd.  book says what the counters stand for: "started" after a    *)
(* P01 and "resumed" after a FREQ2 that no tick overlapped, else "none".   *)
(* lit is counted from that P01 to the log entry.                          *)

\* FREQ1: the display reports the selected mode.
FREQ1(v) ==
  /\ c_pc = "recv"
  /\ mode' = v
  /\ UNCHANGED <<counters, relay, gptimer, Timer_queue, entry, cmd, tick,
                 observed>>

\* P01: switch the relays on, reload the counters, start the timer.
P01 ==
  /\ c_pc = "recv"
  /\ c_pc' = "on" /\ c_i' = 1
  /\ clean' = ~TimerBusy
  /\ book' = IF TimerBusy THEN "none" ELSE "started"
  /\ owed' = TRUE
  /\ lit' = 0
  /\ UNCHANGED <<mode, counters, relay, gptimer, Timer_queue, entry,
                 c_reg, c_nom, tick>>

P01_on ==
  /\ c_pc = "on"
  /\ relay' = [relay EXCEPT ![c_i] = 1]
  /\ IF c_i < NRelays THEN c_pc' = "on" /\ c_i' = c_i + 1
                      ELSE c_pc' = "arm" /\ c_i' = 1
  /\ UNCHANGED <<mode, counters, gptimer, Timer_queue, entry, c_reg, c_nom,
                 tick, observed>>

P01_arm ==
  /\ c_pc = "arm"
  /\ record' = Nominal(mode)
  /\ c_pc' = "nominal"
  /\ UNCHANGED <<mode, run_time, mode_to_time, relay, gptimer, Timer_queue,
                 entry, c_i, c_reg, c_nom, tick, observed>>

P01_nominal ==
  /\ c_pc = "nominal"
  /\ mode_to_time' = Nominal(mode)
  /\ c_pc' = "zero"
  /\ UNCHANGED <<mode, record, run_time, relay, gptimer, Timer_queue,
                 entry, c_i, c_reg, c_nom, tick, observed>>

P01_zero_Kept ==
  /\ c_pc = "zero"
  /\ c_pc' = "start"
  /\ UNCHANGED <<mode, counters, relay, gptimer, Timer_queue,
                 entry, c_i, c_reg, c_nom, tick, observed>>
P01_zero ==
  /\ c_pc = "zero"
  /\ run_time' = 0
  /\ c_pc' = "start"
  /\ UNCHANGED <<mode, record, mode_to_time, relay, gptimer, Timer_queue,
                 entry, c_i, c_reg, c_nom, tick, observed>>

P01_start ==
  /\ c_pc = "start"
  /\ gptimer' = gptimer_start(gptimer)
  /\ c_pc' = "recv"
  /\ UNCHANGED <<mode, counters, relay, Timer_queue, entry,
                 c_i, c_reg, c_nom, tick, observed>>

\* P02: switch the relays off, stop the timer, log the seconds run.
P02 ==
  /\ c_pc = "recv"
  /\ c_pc' = "off" /\ c_i' = 1
  /\ clean' = ~TimerBusy
  /\ UNCHANGED <<mode, counters, relay, gptimer, Timer_queue, entry,
                 c_reg, c_nom, tick, book, owed, lit>>

P02_off ==
  /\ c_pc = "off"
  /\ relay' = [relay EXCEPT ![c_i] = 0]
  /\ IF c_i < NRelays THEN c_pc' = "off" /\ c_i' = c_i + 1
                      ELSE c_pc' = "stop" /\ c_i' = 1
  /\ UNCHANGED <<mode, counters, gptimer, Timer_queue, entry, c_reg, c_nom,
                 tick, observed>>

P02_stop ==
  /\ c_pc = "stop"
  /\ gptimer' = gptimer_stop(gptimer)
  /\ c_pc' = "save"
  /\ UNCHANGED <<mode, counters, relay, Timer_queue, entry,
                 c_i, c_reg, c_nom, tick, observed>>

P02_save ==
  /\ c_pc = "save"
  /\ entry' = save_history(mode, run_time)
  /\ owed' = FALSE /\ lit' = 0
  /\ c_pc' = "recv"
  /\ UNCHANGED <<mode, counters, relay, gptimer, Timer_queue,
                 c_i, c_reg, c_nom, tick, clean, book>>

\* label_timer_count_down: after a restart the display returns the seconds
\* that its countdown label still shows.
label_timer_count_down(s) ==
  /\ c_pc = "recv"
  /\ record' = s
  /\ book' = "none" /\ lit' = 0
  /\ UNCHANGED <<mode, run_time, mode_to_time, relay, gptimer, Timer_queue,
                 entry, cmd, tick, clean, owed>>

\* FREQ2: and then the mode of the run, from which the rest is recomputed.
FREQ2(v) ==
  /\ c_pc = "recv"
  /\ c_reg' = Sub(Nominal(v), record)
  /\ c_nom' = Nominal(v)
  /\ c_pc' = "r_store"
  /\ book' = IF TimerBusy THEN "none" ELSE "resumed"
  /\ lit' = 0
  /\ UNCHANGED <<mode, counters, relay, gptimer, Timer_queue, entry,
                 c_i, tick, clean, owed>>

FREQ2_store ==
  /\ c_pc = "r_store"
  /\ run_time' = c_reg
  /\ c_reg' = 0
  /\ c_pc' = "r_nominal"
  /\ UNCHANGED <<mode, record, mode_to_time, relay, gptimer, Timer_queue,
                 entry, c_i, c_nom, tick, observed>>

FREQ2_nominal ==
  /\ c_pc = "r_nominal"
  /\ mode_to_time' = c_nom
  /\ c_nom' = 0
  /\ c_pc' = "r_start"
  /\ UNCHANGED <<mode, record, run_time, relay, gptimer, Timer_queue,
                 entry, c_i, c_reg, tick, observed>>

FREQ2_start ==
  /\ c_pc = "r_start"
  /\ gptimer' = gptimer_start(gptimer)
  /\ c_pc' = "recv"
  /\ UNCHANGED <<mode, counters, relay, Timer_queue, entry,
                 c_i, c_reg, c_nom, tick, observed>>

Command ==
  \/ \E v \in ModeValues : FREQ1(v)
  \/ P01 \/ P02
  \/ \E s \in LabelValues : label_timer_count_down(s)
  \/ \E v \in ModeValues : FREQ2(v)

CommandStep ==
  \/ P01_on \/ P01_arm \/ P01_nominal \/ P01_zero \/ P01_start
  \/ P02_off \/ P02_stop \/ P02_save
  \/ FREQ2_store \/ FREQ2_nominal \/ FREQ2_start

-----------------------------------------------------------------------------
(* timer_handle and the alarm interrupt.                                   *)

\* The set-up before the loop: create, register, enable, set the alarm.
TimerSetup ==
  /\ t_pc = "setup"
  /\ gptimer' = "stopped"
  /\ t_pc' = "recv"
  /\ UNCHANGED <<mode, counters, relay, Timer_queue, entry, cmd,
                 t_i, t_reg, t_run, observed>>

\* timer_on_alarm_cb: a full queue loses the tick.
timer_on_alarm_cb ==
  /\ gptimer = "running"
  /\ Timer_queue < QueueLength
  /\ Timer_queue' = Timer_queue + 1
  /\ UNCHANGED <<mode, counters, relay, gptimer, entry, cmd, tick, observed>>

\* xQueueReceive, and the load of record--.
Tick ==
  /\ t_pc = "recv"
  /\ Timer_queue > 0
  /\ Timer_queue' = Timer_queue - 1
  /\ t_reg' = record
  /\ t_pc' = "dec"
  /\ clean' = (clean /\ c_pc \notin StartSteps \union StopSteps)
  /\ book' = IF c_pc \in StartSteps \union ResumeSteps THEN "none" ELSE book
  /\ lit' = IF book' = "none" THEN 0 ELSE lit
  /\ UNCHANGED <<mode, counters, relay, gptimer, entry, cmd, t_i, t_run, owed>>

Tick_dec ==
  /\ t_pc = "dec"
  /\ record' = Dec(t_reg)
  /\ t_reg' = Dec(t_reg)
  /\ t_pc' = "load"
  /\ UNCHANGED <<mode, run_time, mode_to_time, relay, gptimer, Timer_queue,
                 entry, cmd, t_i, t_run, observed>>

Tick_load ==
  /\ t_pc = "load"
  /\ t_run' = run_time
  /\ t_pc' = "inc"
  /\ UNCHANGED <<mode, counters, relay, gptimer, Timer_queue, entry, cmd,
                 t_i, t_reg, observed>>

Tick_inc ==
  /\ t_pc = "inc"
  /\ run_time' = Inc(t_run)
  /\ t_run' = 0
  /\ t_pc' = "test"
  /\ lit' = IF AllOn /\ clean /\ book = "started" /\ owed THEN lit + 1 ELSE lit
  /\ UNCHANGED <<mode, record, mode_to_time, relay, gptimer, Timer_queue,
                 entry, cmd, t_i, t_reg, clean, book, owed>>

\* if(record == 0): the compiler may test the register or load record again.
Expired_Early(left) == left <= 1
Expired(left) == left = 0
Tick_test ==
  /\ t_pc = "test"
  /\ \E left \in {t_reg, record} :
       t_pc' = IF Expired(left) THEN "off" ELSE "recv"
  /\ t_reg' = 0
  /\ UNCHANGED <<mode, counters, relay, gptimer, Timer_queue, entry, cmd,
                 t_i, t_run, observed>>

Tick_off ==
  /\ t_pc = "off"
  /\ relay' = [relay EXCEPT ![t_i] = 0]
  /\ IF t_i < NRelays THEN t_pc' = "off" /\ t_i' = t_i + 1
                      ELSE t_pc' = "stop" /\ t_i' = 1
  /\ UNCHANGED <<mode, counters, gptimer, Timer_queue, entry, cmd,
                 t_reg, t_run, observed>>

Tick_stop ==
  /\ t_pc = "stop"
  /\ gptimer' = gptimer_stop(gptimer)
  /\ t_pc' = "save"
  /\ UNCHANGED <<mode, counters, relay, Timer_queue, entry, cmd,
                 t_i, t_reg, t_run, observed>>

Tick_save_Skipped ==
  /\ t_pc = "save"
  /\ t_pc' = "recv"
  /\ UNCHANGED <<mode, counters, relay, gptimer, Timer_queue, entry, cmd,
                 t_i, t_reg, t_run, observed>>
Tick_save ==
  /\ t_pc = "save"
  /\ entry' = save_history(mode, mode_to_time)
  /\ owed' = FALSE /\ lit' = 0
  /\ t_pc' = "recv"
  /\ UNCHANGED <<mode, counters, relay, gptimer, Timer_queue, cmd,
                 t_i, t_reg, t_run, clean, book>>

TickStep ==
  \/ Tick \/ Tick_dec \/ Tick_load \/ Tick_inc \/ Tick_test
  \/ Tick_off \/ Tick_stop \/ Tick_save

-----------------------------------------------------------------------------
\* A reset (power, panic, watchdog) loses all of RAM; app_main starts again.
Reboot ==
  /\ mode' = 1
  /\ record' = OpenTime[1]
  /\ run_time' = 0
  /\ mode_to_time' = 0
  /\ relay' = [r \in Relays |-> 0]
  /\ gptimer' = "null"
  /\ Timer_queue' = 0
  /\ c_pc' = "recv" /\ c_i' = 1 /\ c_reg' = 0 /\ c_nom' = 0
  /\ t_pc' = "setup" /\ t_i' = 1 /\ t_reg' = 0 /\ t_run' = 0
  /\ clean' = TRUE /\ book' = "none" /\ owed' = FALSE /\ lit' = 0
  /\ UNCHANGED entry

Next ==
  \/ Command \/ CommandStep
  \/ TimerSetup \/ timer_on_alarm_cb \/ TickStep
  \/ Reboot

Spec == Init /\ [][Next]_vars

\* The scheduler runs both tasks, and a running timer keeps raising its alarm.
\* Nothing makes the user send a command.
Fairness ==
  /\ WF_vars(CommandStep)
  /\ WF_vars(TimerSetup)
  /\ WF_vars(TickStep)
  /\ WF_vars(timer_on_alarm_cb)

FairSpec == Spec /\ Fairness

-----------------------------------------------------------------------------
(* Properties.                                                             *)

CountersOK ==
  /\ mode \in ModeValues \union {1}
  /\ record \in Counter /\ run_time \in Counter
  /\ mode_to_time \in 0 .. HalfWord - 1

DevicesOK ==
  /\ relay \in [Relays -> {0, 1}]
  /\ gptimer \in {"null", "stopped", "running"}
  /\ (gptimer = "null") <=> (t_pc = "setup")
  /\ Timer_queue \in 0 .. QueueLength
  /\ entry \in [mode : ModeValues \union {0, 1}, time : 0 .. HalfWord - 1]

TasksOK ==
  /\ c_pc \in {"recv"} \union StartSteps \union StopSteps \union ResumeSteps
  /\ t_pc \in {"setup", "recv"} \union TickSteps
  /\ c_i \in Relays /\ c_reg \in Counter /\ c_nom \in 0 .. HalfWord - 1
  /\ t_i \in Relays /\ t_reg \in Counter /\ t_run \in Counter

ObserversOK ==
  /\ clean \in BOOLEAN
  /\ owed \in BOOLEAN /\ lit \in Nat
  /\ book \in {"none", "started", "resumed"}

TypeOK == CountersOK /\ DevicesOK /\ TasksOK /\ ObserversOK

\* Both tasks are between two handlers.
Quiet == c_pc = "recv" /\ t_pc = "recv"

\* A relay never stays on unattended: after a P01 or P02 that overlapped no
\* tick, and whatever came before it, the relays agree with each other and are
\* on only while the timer runs that will switch them off.
NoUnattendedRelay ==
  clean /\ Quiet => AllOff \/ (AllOn /\ gptimer = "running")

\* The seconds left and the seconds run add up to the nominal length of the
\* run (modulo the word: a tick left over from an expired run underflows
\* record); and while a run lasts they do so exactly, with time left.
CountersAddUp ==
  book # "none" /\ Quiet =>
    /\ record + run_time \in {mode_to_time, mode_to_time + Word}
    /\ book = "started" /\ owed =>
         record >= 1 /\ record + run_time = mode_to_time

\* No run ends without a log entry: when the relays are off and both tasks
\* quiet, nothing is owed to the log.
EndedRunIsLogged == clean /\ Quiet /\ AllOff => ~owed

\* A run that P01 started is logged with the seconds that were counted while all
\* its relays were on: mode_to_time is just that when timer_handle ends the run,
\* and run_time, untruncated and short of mode_to_time, when P02 does.  This is
\* said of a run of which no tick overlapped the P01 or the P02, and no label or
\* FREQ2 came during it.  A run that FREQ2 resumed, with the relays off, is logged
\* by timer_handle with its nominal time, which run_time then equals.
LoggedTimeIsElapsed ==
  [][ /\ clean /\ book = "started" /\ owed =>
           /\ Tick_save => entry'.time = lit
           /\ P02_save => entry'.time = lit /\ lit < mode_to_time
      /\ Tick_save /\ book = "resumed" =>
           entry'.time = mode_to_time /\ mode_to_time = run_time ]_vars

\* Runs end: when the user sends nothing any more, the relays go off for good
\* and the last run is logged, whatever was sent before, if the last P01 or P02
\* overlapped no tick.
RunEnds ==
  <>[][~Command]_vars => <>[](clean => AllOff /\ ~owed)

=============================================================================
