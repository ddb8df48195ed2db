-------------------------- MODULE RelayTimer_proofs --------------------------
(***************************************************************************)
(* Proofs, for every value of the constants, of the safety properties of   *)
(* RelayTimer, and of the refinement that RelaySerial states.  The         *)
(* inductive invariant has four parts, each proved with the help of the    *)
(* ones before it:                                                         *)
(*                                                                         *)
(*   TypeOK     the values of the variables;                               *)
(*   RelayInv   what the relays, the timer and the log entry that is owed  *)
(*              are while a handler or a tick is half done;                *)
(*   CountInv   what record, run_time and mode_to_time are then;           *)
(*   LitInv     how many seconds the relays have been on.                  *)
(*                                                                         *)
(* The refinement needs SerialInv beside the first two: what the handler   *)
(* under way has written so far is what the mapping already shows.         *)
(***************************************************************************)
EXTENDS RelaySerial, TLAPS

EndSteps == {"off", "stop", "save"}

\* While the last P01 or P02 has met no tick: its own half-done work while it
\* lasts, and afterwards that of timer_handle.
RelayInv ==
  /\ t_pc # "off" => t_i = 1
  /\ clean =>
       /\ c_pc \in StartSteps \union StopSteps => t_pc = "recv"
       /\ c_pc = "on" => \A r \in Relays : r < c_i => relay[r] = 1
       /\ c_pc \in {"arm", "nominal", "zero", "start"} => AllOn
       /\ c_pc = "off" => \A r \in Relays : r < c_i => relay[r] = 0
       /\ c_pc \in {"stop", "save"} => AllOff
       /\ c_pc \notin StartSteps \union StopSteps =>
            /\ t_pc = "off" => \A r \in Relays : r < t_i => relay[r] = 0
            /\ t_pc \in {"stop", "save"} => AllOff
            /\ t_pc \notin EndSteps =>
                 /\ AllOff \/ (AllOn /\ gptimer = "running")
                 /\ AllOff => ~owed

\* The two sums that the nominal length of a run can be equal to.
AddsUp(sum) == sum = mode_to_time \/ sum = mode_to_time + Word

\* Only what no tick overlapped is accounted for.
BookInv ==
  /\ book # "none" => t_pc # "setup"
  /\ book # "none" /\ c_pc \in StartSteps \union ResumeSteps => t_pc = "recv"
  /\ book # "none" /\ c_pc \in StartSteps => book = "started"
  /\ book # "none" /\ c_pc \in ResumeSteps => book = "resumed"

\* P01 and FREQ2 half done.
ReloadInv ==
  book # "none" =>
    /\ c_pc \in {"nominal", "zero", "start"} => record = Nominal(mode)
    /\ c_pc \in {"zero", "start"} => mode_to_time = Nominal(mode)
    /\ c_pc = "start" => run_time = 0
    /\ c_pc = "r_store" => c_reg = Sub(c_nom, record)
    /\ c_pc = "r_nominal" => run_time = Sub(c_nom, record)
    /\ c_pc = "r_start" => AddsUp(record + run_time)

\* A tick half done.
TickInv ==
  book # "none" /\ c_pc \notin StartSteps \union ResumeSteps =>
    /\ t_pc \in {"dec", "load", "inc", "test"} => t_reg = record
    /\ t_pc = "inc" => t_run = run_time
    /\ t_pc \in {"load", "inc"} => AddsUp(record + 1 + run_time)
    /\ t_pc \notin {"load", "inc"} => AddsUp(record + run_time)
    /\ t_pc \in EndSteps => record = 0

\* The same while a run lasts: exact, and with time left.
RunInv ==
  book = "started" /\ owed /\ c_pc \notin StartSteps =>
    /\ t_pc \in {"recv", "dec"} => record >= 1
    /\ t_pc \in {"load", "inc"} => record + 1 + run_time = mode_to_time
    /\ t_pc \notin {"load", "inc"} => record + run_time = mode_to_time

CountInv == BookInv /\ ReloadInv /\ TickInv /\ RunInv

\* A run that P01 started and no tick disturbed, until it is logged.
LitInv ==
  book = "started" /\ owed =>
    /\ c_pc \notin StopSteps => clean
    /\ clean => lit = IF c_pc \in StartSteps THEN 0 ELSE run_time

\* Inductive: implies every safety property of RelayTimer.
IInv == TypeOK /\ RelayInv /\ CountInv /\ LitInv

-----------------------------------------------------------------------------
(* What the operators and the constants give.                              *)

\* The constants name values of the right type, and a next relay.
LEMMA ConstantFacts ==
  /\ 0 \in Counter /\ 0 \in 0 .. HalfWord - 1 /\ 0 \in 0 .. QueueLength
  /\ 1 \in Relays /\ \A i \in Relays : i < NRelays => i + 1 \in Relays
  /\ OpenTime[1] \in 1 .. HalfWord - 1 /\ OpenTime[1] \in Counter
  /\ 0 .. HalfWord - 1 \subseteq Counter
BY ConstantsOK DEF Counter, Modes, Relays

\* The counters stay in their word, and P01 loads a time that is not zero.
LEMMA CounterArithmetic ==
  /\ \A x \in Counter : Dec(x) \in Counter /\ Inc(x) \in Counter
  /\ \A x, y \in Counter : Sub(x, y) \in Counter
  /\ \A m : Nominal(m) \in 1 .. HalfWord - 1
  /\ \A m : Nominal(m) \in 0 .. HalfWord - 1
  /\ \A m : Nominal(m) \in Counter
<1>1. \A m : Nominal(m) \in 1 .. HalfWord - 1
  BY ConstantsOK DEF Nominal, Modes
<1>2. QED
  BY <1>1, ConstantsOK DEF Counter, Dec, Inc, Sub

\* Each half of a tick restores the sum that the other half has disturbed.
LEMMA TickSum ==
  ASSUME NEW left \in Counter, NEW run \in Counter,
         NEW nominal \in 0 .. HalfWord - 1
  PROVE  /\ left + run \in {nominal, nominal + Word} =>
              Dec(left) + 1 + run \in {nominal, nominal + Word}
         /\ left >= 1 => Dec(left) + 1 = left
         /\ left + 1 + run \in {nominal, nominal + Word} =>
              left + Inc(run) \in {nominal, nominal + Word}
         /\ left + 1 + run = nominal => left + Inc(run) = nominal
BY ConstantsOK DEF Counter, Dec, Inc

\* save_history keeps the low bits of the time: all of it when it fits them.
LEMMA LogEntry ==
  ASSUME NEW m, NEW n \in Nat
  PROVE  /\ save_history(m, n) = [mode |-> m, time |-> n % HalfWord]
         /\ n % HalfWord \in 0 .. HalfWord - 1
         /\ n < HalfWord => n % HalfWord = n
<1>1. HalfWord \in Nat /\ HalfWord >= 1
  BY ConstantsOK DEF Modes
<1>2. QED
  BY <1>1 DEF save_history

-----------------------------------------------------------------------------
(* Types.                                                                  *)

\* The static initialisers and app_main (main.c, 34-41 and 235-260) give every
\* variable a value of its type.
LEMMA TypeInit == Init => TypeOK
<1> SUFFICES ASSUME Init PROVE TypeOK
  OBVIOUS
<1> USE ConstantFacts
<1>1. CountersOK
  BY DEF Init, CountersOK
<1>2. DevicesOK
  BY DEF Init, DevicesOK
<1>3. TasksOK
  BY DEF Init, TasksOK
<1>4. ObserversOK
  BY DEF Init, ObserversOK
<1>5. QED
  BY <1>1, <1>2, <1>3, <1>4 DEF TypeOK

\* No step takes an observer out of its type.
LEMMA ObserversStep == ObserversOK /\ [Next]_vars => ObserversOK'
<1> SUFFICES ASSUME ObserversOK, [Next]_vars PROVE ObserversOK'
  OBVIOUS
<1>1. lit' \in {lit, lit + 1, 0}
  BY DEF counters, cmd, tick, observed, Next, Command, CommandStep, TickStep, vars, FREQ1,
     P01, P02, label_timer_count_down, FREQ2, P01_on, P01_arm, P01_nominal, P01_zero,
     P01_start, P02_off, P02_stop, P02_save, FREQ2_store, FREQ2_nominal, FREQ2_start,
     TimerSetup, timer_on_alarm_cb, Tick, Tick_dec, Tick_load, Tick_inc, Tick_test,
     Tick_off, Tick_stop, Tick_save, Reboot
<1>2. clean' \in BOOLEAN
  BY DEF ObserversOK,
     counters, cmd, tick, observed, Next, Command, CommandStep, TickStep, vars, FREQ1,
     P01, P02, label_timer_count_down, FREQ2, P01_on, P01_arm, P01_nominal, P01_zero,
     P01_start, P02_off, P02_stop, P02_save, FREQ2_store, FREQ2_nominal, FREQ2_start,
     TimerSetup, timer_on_alarm_cb, Tick, Tick_dec, Tick_load, Tick_inc, Tick_test,
     Tick_off, Tick_stop, Tick_save, Reboot
<1>3. owed' \in BOOLEAN
  BY DEF ObserversOK,
     counters, cmd, tick, observed, Next, Command, CommandStep, TickStep, vars, FREQ1,
     P01, P02, label_timer_count_down, FREQ2, P01_on, P01_arm, P01_nominal, P01_zero,
     P01_start, P02_off, P02_stop, P02_save, FREQ2_store, FREQ2_nominal, FREQ2_start,
     TimerSetup, timer_on_alarm_cb, Tick, Tick_dec, Tick_load, Tick_inc, Tick_test,
     Tick_off, Tick_stop, Tick_save, Reboot
<1>4. book' \in {"none", "started", "resumed"}
  BY DEF ObserversOK,
     counters, cmd, tick, observed, Next, Command, CommandStep, TickStep, vars, FREQ1,
     P01, P02, label_timer_count_down, FREQ2, P01_on, P01_arm, P01_nominal, P01_zero,
     P01_start, P02_off, P02_stop, P02_save, FREQ2_store, FREQ2_nominal, FREQ2_start,
     TimerSetup, timer_on_alarm_cb, Tick, Tick_dec, Tick_load, Tick_inc, Tick_test,
     Tick_off, Tick_stop, Tick_save, Reboot
<1> QED
  BY <1>1, <1>2, <1>3, <1>4 DEF ObserversOK

\* No handler, tick or reset takes a variable out of its type.
LEMMA TypeStep == TypeOK /\ [Next]_vars => TypeOK'
<1> SUFFICES ASSUME TypeOK, [Next]_vars PROVE TypeOK'
  OBVIOUS
<1> DEFINE DataOK == CountersOK /\ DevicesOK /\ TasksOK
<1> USE ConstantFacts, CounterArithmetic
    DEF StartSteps, StopSteps, ResumeSteps, TickSteps, counters, cmd, tick,
        observed, TypeOK, CountersOK, DevicesOK, TasksOK
<1>0. ObserversOK'
  BY ObserversStep
<1>1. ASSUME UNCHANGED vars PROVE DataOK'
  BY <1>1 DEF vars
<1>2. ASSUME NEW v \in ModeValues, FREQ1(v) PROVE DataOK'
  BY <1>2 DEF FREQ1
<1>3. ASSUME P01 PROVE DataOK'
  BY <1>3 DEF P01
<1>4. ASSUME P02 PROVE DataOK'
  BY <1>4 DEF P02
<1>5. ASSUME NEW s \in LabelValues, label_timer_count_down(s) PROVE DataOK'
  BY <1>5, ConstantsOK DEF label_timer_count_down
<1>6. ASSUME NEW v \in ModeValues, FREQ2(v) PROVE DataOK'
  BY <1>6 DEF FREQ2, TimerBusy
<1>7. ASSUME P01_on PROVE DataOK'
  BY <1>7 DEF P01_on
<1>8. ASSUME P01_arm PROVE DataOK'
  BY <1>8 DEF P01_arm
<1>9. ASSUME P01_nominal PROVE DataOK'
  BY <1>9 DEF P01_nominal
<1>10. ASSUME P01_zero PROVE DataOK'
  BY <1>10 DEF P01_zero
<1>11. ASSUME P01_start PROVE DataOK'
  BY <1>11 DEF P01_start, gptimer_start
<1>12. ASSUME P02_off PROVE DataOK'
  BY <1>12 DEF P02_off
<1>13. ASSUME P02_stop PROVE DataOK'
  BY <1>13 DEF P02_stop, gptimer_stop
<1>14. ASSUME P02_save PROVE DataOK'
  <2>1. entry' \in [mode : ModeValues \union {0, 1}, time : 0 .. HalfWord - 1]
    BY <1>14, LogEntry DEF P02_save, Counter
  <2>2. QED
    BY <1>14, <2>1 DEF P02_save
<1>15. ASSUME FREQ2_store PROVE DataOK'
  BY <1>15 DEF FREQ2_store
<1>16. ASSUME FREQ2_nominal PROVE DataOK'
  BY <1>16 DEF FREQ2_nominal
<1>17. ASSUME FREQ2_start PROVE DataOK'
  BY <1>17 DEF FREQ2_start, gptimer_start
<1>18. ASSUME TimerSetup PROVE DataOK'
  BY <1>18 DEF TimerSetup
<1>19. ASSUME timer_on_alarm_cb PROVE DataOK'
  BY <1>19, ConstantsOK DEF timer_on_alarm_cb
<1>20. ASSUME Tick PROVE DataOK'
  BY <1>20, ConstantsOK DEF Tick
<1>21. ASSUME Tick_dec PROVE DataOK'
  BY <1>21 DEF Tick_dec
<1>22. ASSUME Tick_load PROVE DataOK'
  BY <1>22 DEF Tick_load
<1>23. ASSUME Tick_inc PROVE DataOK'
  BY <1>23 DEF Tick_inc
<1>24. ASSUME Tick_test PROVE DataOK'
  BY <1>24 DEF Tick_test
<1>25. ASSUME Tick_off PROVE DataOK'
  BY <1>25 DEF Tick_off
<1>26. ASSUME Tick_stop PROVE DataOK'
  BY <1>26 DEF Tick_stop, gptimer_stop
<1>27. ASSUME Tick_save PROVE DataOK'
  <2>1. entry' \in [mode : ModeValues \union {0, 1}, time : 0 .. HalfWord - 1]
    BY <1>27, LogEntry DEF Tick_save, Counter
  <2>2. QED
    BY <1>27, <2>1 DEF Tick_save
<1>28. ASSUME Reboot PROVE DataOK'
  BY <1>28 DEF Reboot
<1>29. QED
  BY <1>0, <1>1, <1>2, <1>3, <1>4, <1>5, <1>6, <1>7, <1>8, <1>9,
     <1>10, <1>11, <1>12, <1>13, <1>14, <1>15, <1>16, <1>17, <1>18,
     <1>19, <1>20, <1>21, <1>22, <1>23, <1>24, <1>25, <1>26, <1>27,
     <1>28
  DEF Next, Command, CommandStep, TickStep

-----------------------------------------------------------------------------
(* Relays, timer and log.                                                  *)

\* At start the relays are off and nothing is owed to the log.
LEMMA RelayInit == Init => RelayInv
BY DEF Init, RelayInv, AllOff, StartSteps, StopSteps, EndSteps

\* Every step keeps what RelayInv says of the relays, the timer and the log,
\* half-done handlers (main.c, 73-108 and 212-223) included.
LEMMA RelayStep == TypeOK /\ RelayInv /\ [Next]_vars => RelayInv'
<1> SUFFICES ASSUME TypeOK, RelayInv, [Next]_vars PROVE RelayInv'
  OBVIOUS
<1> USE ConstantFacts, ConstantsOK
    DEF StartSteps, StopSteps, ResumeSteps, EndSteps, TickSteps, counters,
        cmd, tick, observed, TypeOK, CountersOK, DevicesOK, TasksOK, Relays,
        RelayInv, AllOn, AllOff, TimerBusy
<1>1. ASSUME UNCHANGED vars PROVE RelayInv'
  BY <1>1 DEF vars
<1>2. ASSUME NEW v \in ModeValues, FREQ1(v) PROVE RelayInv'
  BY <1>2 DEF FREQ1
<1>3. ASSUME P01 PROVE RelayInv'
  <2>1. clean' => t_pc' = "recv"
    BY <1>3 DEF P01
  <2>2. c_pc' = "on" /\ c_i' = 1 /\ UNCHANGED <<t_pc, t_i>>
    BY <1>3 DEF P01
  <2>3. \A r \in Relays : ~(r < c_i')
    BY <2>2
  <2>4. QED
    BY <2>1, <2>2, <2>3
<1>4. ASSUME P02 PROVE RelayInv'
  <2>1. clean' => t_pc' = "recv"
    BY <1>4 DEF P02
  <2>2. c_pc' = "off" /\ c_i' = 1 /\ UNCHANGED <<t_pc, t_i>>
    BY <1>4 DEF P02
  <2>3. \A r \in Relays : ~(r < c_i')
    BY <2>2
  <2>4. QED
    BY <2>1, <2>2, <2>3
<1>5. ASSUME NEW s \in LabelValues, label_timer_count_down(s) PROVE RelayInv'
  BY <1>5 DEF label_timer_count_down
<1>6. ASSUME NEW v \in ModeValues, FREQ2(v) PROVE RelayInv'
  BY <1>6 DEF FREQ2
<1>7. ASSUME P01_on PROVE RelayInv'
  BY <1>7 DEF P01_on
<1>8. ASSUME P01_arm PROVE RelayInv'
  BY <1>8 DEF P01_arm
<1>9. ASSUME P01_nominal PROVE RelayInv'
  BY <1>9 DEF P01_nominal
<1>10. ASSUME P01_zero PROVE RelayInv'
  BY <1>10 DEF P01_zero
<1>11. ASSUME P01_start PROVE RelayInv'
  BY <1>11 DEF P01_start, gptimer_start
<1>12. ASSUME P02_off PROVE RelayInv'
  BY <1>12 DEF P02_off
<1>13. ASSUME P02_stop PROVE RelayInv'
  BY <1>13 DEF P02_stop, gptimer_stop
<1>14. ASSUME P02_save PROVE RelayInv'
  BY <1>14 DEF P02_save
<1>15. ASSUME FREQ2_store PROVE RelayInv'
  BY <1>15 DEF FREQ2_store
<1>16. ASSUME FREQ2_nominal PROVE RelayInv'
  BY <1>16 DEF FREQ2_nominal
<1>17. ASSUME FREQ2_start PROVE RelayInv'
  BY <1>17 DEF FREQ2_start, gptimer_start
<1>18. ASSUME TimerSetup PROVE RelayInv'
  BY <1>18 DEF TimerSetup
<1>19. ASSUME timer_on_alarm_cb PROVE RelayInv'
  BY <1>19 DEF timer_on_alarm_cb
<1>20. ASSUME Tick PROVE RelayInv'
  BY <1>20 DEF Tick
<1>21. ASSUME Tick_dec PROVE RelayInv'
  BY <1>21 DEF Tick_dec
<1>22. ASSUME Tick_load PROVE RelayInv'
  BY <1>22 DEF Tick_load
<1>23. ASSUME Tick_inc PROVE RelayInv'
  BY <1>23 DEF Tick_inc
<1>24. ASSUME Tick_test PROVE RelayInv'
  BY <1>24 DEF Tick_test
<1>25. ASSUME Tick_off PROVE RelayInv'
  BY <1>25 DEF Tick_off
<1>26. ASSUME Tick_stop PROVE RelayInv'
  BY <1>26 DEF Tick_stop, gptimer_stop
<1>27. ASSUME Tick_save PROVE RelayInv'
  BY <1>27 DEF Tick_save
<1>28. ASSUME Reboot PROVE RelayInv'
  BY <1>28 DEF Reboot
<1>29. QED
  BY <1>1, <1>2, <1>3, <1>4, <1>5, <1>6, <1>7, <1>8, <1>9, <1>10,
     <1>11, <1>12, <1>13, <1>14, <1>15, <1>16, <1>17, <1>18, <1>19,
     <1>20, <1>21, <1>22, <1>23, <1>24, <1>25, <1>26, <1>27, <1>28
  DEF Next, Command, CommandStep, TickStep

-----------------------------------------------------------------------------
(* Counters.                                                               *)

\* At start the counters are not accounted for.
LEMMA CountInit == Init => CountInv
BY DEF Init, CountInv, BookInv, ReloadInv, TickInv, RunInv

\* Every step keeps the sums of the counters, half-done handlers included
\* (main.c, 78-96, 131-149 and 212-215).
LEMMA CountStep == TypeOK /\ CountInv /\ [Next]_vars => CountInv'
<1> SUFFICES ASSUME TypeOK, CountInv, [Next]_vars PROVE CountInv'
  OBVIOUS
<1> USE ConstantFacts, CounterArithmetic, ConstantsOK
    DEF StartSteps, StopSteps, ResumeSteps, EndSteps, TickSteps, counters,
        cmd, tick, observed, TypeOK, CountersOK, DevicesOK, TasksOK,
        CountInv, BookInv, ReloadInv, TickInv, RunInv, AddsUp, TimerBusy,
        Counter
<1>1. ASSUME UNCHANGED vars PROVE CountInv'
  BY <1>1 DEF vars
<1>2. ASSUME NEW v \in ModeValues, FREQ1(v) PROVE CountInv'
  BY <1>2 DEF FREQ1
<1>3. ASSUME P01 PROVE CountInv'
  BY <1>3 DEF P01
<1>4. ASSUME P02 PROVE CountInv'
  BY <1>4 DEF P02
<1>5. ASSUME NEW s \in LabelValues, label_timer_count_down(s) PROVE CountInv'
  BY <1>5 DEF label_timer_count_down
<1>6. ASSUME NEW v \in ModeValues, FREQ2(v) PROVE CountInv'
  BY <1>6 DEF FREQ2
<1>7. ASSUME P01_on PROVE CountInv'
  BY <1>7 DEF P01_on
<1>8. ASSUME P01_arm PROVE CountInv'
  BY <1>8 DEF P01_arm
<1>9. ASSUME P01_nominal PROVE CountInv'
  BY <1>9 DEF P01_nominal
<1>10. ASSUME P01_zero PROVE CountInv'
  BY <1>10 DEF P01_zero
<1>11. ASSUME P01_start PROVE CountInv'
  <2>1. UNCHANGED <<record, run_time, mode_to_time, mode, book, owed, t_pc>>
    BY <1>11 DEF P01_start
  <2>2. c_pc = "start" /\ c_pc' = "recv"
    BY <1>11 DEF P01_start
  <2>3. book # "none" =>
          /\ t_pc = "recv" /\ book = "started"
          /\ record >= 1 /\ record + run_time = mode_to_time
    BY <2>2
  <2>4. QED
    BY <2>1, <2>2, <2>3
<1>12. ASSUME P02_off PROVE CountInv'
  BY <1>12 DEF P02_off
<1>13. ASSUME P02_stop PROVE CountInv'
  BY <1>13 DEF P02_stop, gptimer_stop
<1>14. ASSUME P02_save PROVE CountInv'
  BY <1>14 DEF P02_save
<1>15. ASSUME FREQ2_store PROVE CountInv'
  BY <1>15 DEF FREQ2_store, Sub
<1>16. ASSUME FREQ2_nominal PROVE CountInv'
  BY <1>16 DEF FREQ2_nominal, Sub
<1>17. ASSUME FREQ2_start PROVE CountInv'
  BY <1>17 DEF FREQ2_start, gptimer_start
<1>18. ASSUME TimerSetup PROVE CountInv'
  BY <1>18 DEF TimerSetup
<1>19. ASSUME timer_on_alarm_cb PROVE CountInv'
  BY <1>19 DEF timer_on_alarm_cb
<1>20. ASSUME Tick PROVE CountInv'
  BY <1>20 DEF Tick
<1>21. ASSUME Tick_dec PROVE CountInv'
  <2>1. UNCHANGED <<run_time, mode_to_time, mode, book, owed, c_pc, c_reg,
                    c_nom>>
    BY <1>21 DEF Tick_dec
  <2>2. t_pc = "dec" /\ t_pc' = "load" /\ t_reg' = record'
    BY <1>21 DEF Tick_dec
  <2>3. ASSUME book # "none"
        PROVE  /\ c_pc \notin StartSteps \union ResumeSteps
               /\ record' = Dec(record) /\ AddsUp(record + run_time)
    BY <1>21, <2>2, <2>3 DEF Tick_dec
  <2>4. ASSUME book # "none"
        PROVE  /\ AddsUp(record' + 1 + run_time)
               /\ record >= 1 => record' + 1 = record
    <3>1. /\ record \in Counter /\ run_time \in Counter
          /\ mode_to_time \in 0 .. HalfWord - 1
      OBVIOUS
    <3>2. record + run_time \in {mode_to_time, mode_to_time + Word}
      BY <2>3, <2>4
    <3>3. record' = Dec(record)
      BY <2>3, <2>4
    <3>4. Dec(record) + 1 + run_time \in {mode_to_time, mode_to_time + Word}
      BY ONLY <3>1, <3>2, TickSum
    <3>5. record >= 1 => Dec(record) + 1 = record
      BY ONLY <3>1, TickSum
    <3>6. QED
      BY <3>3, <3>4, <3>5
  <2>5. QED
    BY <2>1, <2>2, <2>3, <2>4
<1>22. ASSUME Tick_load PROVE CountInv'
  BY <1>22 DEF Tick_load
<1>23. ASSUME Tick_inc PROVE CountInv'
  <2>1. UNCHANGED <<record, mode_to_time, mode, book, owed, c_pc, c_reg,
                    c_nom, t_reg>>
    BY <1>23 DEF Tick_inc
  <2>2. t_pc = "inc" /\ t_pc' = "test"
    BY <1>23 DEF Tick_inc
  <2>3. ASSUME book # "none"
        PROVE  /\ c_pc \notin StartSteps \union ResumeSteps
               /\ run_time' = Inc(run_time)
               /\ AddsUp(record + 1 + run_time)
    BY <1>23, <2>2, <2>3 DEF Tick_inc
  <2>4. ASSUME book # "none"
        PROVE  /\ AddsUp(record + run_time')
               /\ record + 1 + run_time = mode_to_time =>
                    record + run_time' = mode_to_time
    BY <2>3, <2>4, TickSum
  <2>5. QED
    BY <2>1, <2>2, <2>3, <2>4
<1>24. ASSUME Tick_test PROVE CountInv'
  <2>1. UNCHANGED <<record, run_time, mode_to_time, mode, book, owed, c_pc,
                    c_reg, c_nom>>
    BY <1>24 DEF Tick_test
  <2>2. /\ t_pc = "test" /\ t_pc' \in {"off", "recv"}
        /\ t_reg = record => \/ t_pc' = "off" /\ record = 0
                             \/ t_pc' = "recv" /\ record >= 1
    <3>1. PICK left \in {t_reg, record} :
            t_pc' = IF Expired(left) THEN "off" ELSE "recv"
      BY <1>24 DEF Tick_test
    <3>2. QED
      BY <1>24, <3>1 DEF Tick_test, Expired
  <2>3. book # "none" => c_pc \notin StartSteps \union ResumeSteps
    BY <2>2
  <2>4. book # "none" => t_reg = record /\ AddsUp(record + run_time)
    BY <2>2, <2>3
  <2>5. QED
    BY <2>1, <2>2, <2>3, <2>4
<1>25. ASSUME Tick_off PROVE CountInv'
  BY <1>25 DEF Tick_off
<1>26. ASSUME Tick_stop PROVE CountInv'
  BY <1>26 DEF Tick_stop, gptimer_stop
<1>27. ASSUME Tick_save PROVE CountInv'
  BY <1>27 DEF Tick_save
<1>28. ASSUME Reboot PROVE CountInv'
  BY <1>28 DEF Reboot
<1>29. QED
  BY <1>1, <1>2, <1>3, <1>4, <1>5, <1>6, <1>7, <1>8, <1>9, <1>10,
     <1>11, <1>12, <1>13, <1>14, <1>15, <1>16, <1>17, <1>18, <1>19,
     <1>20, <1>21, <1>22, <1>23, <1>24, <1>25, <1>26, <1>27, <1>28
  DEF Next, Command, CommandStep, TickStep

-----------------------------------------------------------------------------
(* The seconds counted with the relays on.                                 *)

\* At start no run is owed to the log.
LEMMA LitInit == Init => LitInv
BY DEF Init, LitInv

\* Every step keeps lit the run_time of a run that P01 started: a tick counts both
\* (main.c, 214), with the relays on while the run is owed to the log.
LEMMA LitStep ==
  TypeOK /\ RelayInv /\ CountInv /\ LitInv /\ [Next]_vars => LitInv'
<1> SUFFICES ASSUME TypeOK, RelayInv, CountInv, LitInv, [Next]_vars PROVE LitInv'
  OBVIOUS
<1> USE DEF StartSteps, StopSteps, ResumeSteps, TickSteps, counters, cmd, tick,
            observed, LitInv, TimerBusy
<1>0. /\ book # "none" /\ c_pc \in StartSteps \union ResumeSteps => t_pc = "recv"
      /\ book # "none" /\ c_pc \in ResumeSteps => book = "resumed"
      /\ book # "none" /\ c_pc = "start" => run_time = 0
      /\ clean /\ c_pc \in StopSteps => t_pc = "recv"
  BY DEF CountInv, BookInv, ReloadInv, RelayInv
<1>1. ASSUME UNCHANGED vars PROVE LitInv'
  BY <1>1 DEF vars
<1>2. ASSUME NEW v \in ModeValues, FREQ1(v) PROVE LitInv'
  BY <1>0, <1>2 DEF FREQ1
<1>3. ASSUME P01 PROVE LitInv'
  BY <1>0, <1>3 DEF P01
<1>4. ASSUME P02 PROVE LitInv'
  BY <1>0, <1>4 DEF P02
<1>5. ASSUME NEW s \in LabelValues, label_timer_count_down(s) PROVE LitInv'
  BY <1>0, <1>5 DEF label_timer_count_down
<1>6. ASSUME NEW v \in ModeValues, FREQ2(v) PROVE LitInv'
  BY <1>0, <1>6 DEF FREQ2
<1>7. ASSUME P01_on PROVE LitInv'
  BY <1>0, <1>7 DEF P01_on
<1>8. ASSUME P01_arm PROVE LitInv'
  BY <1>0, <1>8 DEF P01_arm
<1>9. ASSUME P01_nominal PROVE LitInv'
  BY <1>0, <1>9 DEF P01_nominal
<1>10. ASSUME P01_zero PROVE LitInv'
  BY <1>0, <1>10 DEF P01_zero
<1>11. ASSUME P01_start PROVE LitInv'
  BY <1>0, <1>11 DEF P01_start
<1>12. ASSUME P02_off PROVE LitInv'
  BY <1>0, <1>12 DEF P02_off
<1>13. ASSUME P02_stop PROVE LitInv'
  BY <1>0, <1>13 DEF P02_stop
<1>14. ASSUME P02_save PROVE LitInv'
  BY <1>0, <1>14 DEF P02_save
<1>15. ASSUME FREQ2_store PROVE LitInv'
  BY <1>0, <1>15 DEF FREQ2_store
<1>16. ASSUME FREQ2_nominal PROVE LitInv'
  BY <1>0, <1>16 DEF FREQ2_nominal
<1>17. ASSUME FREQ2_start PROVE LitInv'
  BY <1>0, <1>17 DEF FREQ2_start
<1>18. ASSUME TimerSetup PROVE LitInv'
  BY <1>0, <1>18 DEF TimerSetup
<1>19. ASSUME timer_on_alarm_cb PROVE LitInv'
  BY <1>0, <1>19 DEF timer_on_alarm_cb
<1>20. ASSUME Tick PROVE LitInv'
  BY <1>0, <1>20 DEF Tick
<1>21. ASSUME Tick_dec PROVE LitInv'
  BY <1>0, <1>21 DEF Tick_dec
<1>22. ASSUME Tick_load PROVE LitInv'
  BY <1>0, <1>22 DEF Tick_load
<1>23. ASSUME Tick_inc PROVE LitInv'
  <2>1. /\ UNCHANGED <<clean, book, owed, c_pc>> /\ t_pc = "inc"
        /\ run_time' = Inc(t_run)
        /\ lit' = IF AllOn /\ clean /\ book = "started" /\ owed THEN lit + 1 ELSE lit
    BY <1>23 DEF Tick_inc
  <2>2. ASSUME clean, book = "started", owed
        PROVE  c_pc \notin StartSteps /\ lit = run_time /\ lit' = run_time'
    <3>1. c_pc \notin StartSteps \union StopSteps \union ResumeSteps
      BY <1>0, <2>1, <2>2
    <3>2. AllOn
      BY <2>1, <2>2, <3>1 DEF RelayInv, EndSteps
    <3>3. t_run = run_time
      BY <2>1, <2>2, <3>1 DEF CountInv, TickInv
    <3>4. run_time + 1 = Inc(run_time)
      <4>1. record + 1 + run_time = mode_to_time
        BY <2>1, <2>2, <3>1 DEF CountInv, RunInv
      <4>2. record \in Nat /\ run_time \in Nat /\ mode_to_time \in 0 .. HalfWord - 1
        BY DEF TypeOK, CountersOK, Counter
      <4>3. run_time # Word - 1
        BY <4>1, <4>2, ConstantsOK
      <4> QED
        BY <4>2, <4>3 DEF Inc
    <3> QED
      BY <2>1, <2>2, <3>1, <3>2, <3>3, <3>4
  <2> QED
    BY <2>1, <2>2
<1>24. ASSUME Tick_test PROVE LitInv'
  BY <1>0, <1>24 DEF Tick_test
<1>25. ASSUME Tick_off PROVE LitInv'
  BY <1>0, <1>25 DEF Tick_off
<1>26. ASSUME Tick_stop PROVE LitInv'
  BY <1>0, <1>26 DEF Tick_stop
<1>27. ASSUME Tick_save PROVE LitInv'
  BY <1>0, <1>27 DEF Tick_save
<1>28. ASSUME Reboot PROVE LitInv'
  BY <1>0, <1>28 DEF Reboot
<1> QED
  BY <1>1, <1>2, <1>3, <1>4, <1>5, <1>6, <1>7, <1>8, <1>9, <1>10, <1>11,
     <1>12, <1>13, <1>14, <1>15, <1>16, <1>17, <1>18, <1>19, <1>20, <1>21,
     <1>22, <1>23, <1>24, <1>25, <1>26, <1>27, <1>28
  DEF Next, Command, CommandStep, TickStep

-----------------------------------------------------------------------------
(* Theorems.                                                               *)

\* The strengthening of the invariants is one: what is true of main.c between
\* any two loads, stores and driver calls.
THEOREM Invariance == Spec => []IInv
<1>1. Init => IInv
  BY TypeInit, RelayInit, CountInit, LitInit DEF IInv
<1>2. IInv /\ [Next]_vars => IInv'
  BY TypeStep, RelayStep, CountStep, LitStep DEF IInv
<1>3. QED
  BY <1>1, <1>2, PTL DEF Spec

\* Every variable keeps its type, the counters their C word included.
THEOREM TypeCorrect == Spec => []TypeOK
BY Invariance, PTL DEF IInv

\* After a P01 or P02 that overlapped no tick (main.c, 72-108), and any number
\* of ticks, the relays agree and are on only while the timer runs.
THEOREM RelaysAttended == Spec => []NoUnattendedRelay
<1>1. IInv => NoUnattendedRelay
  BY DEF IInv, RelayInv, NoUnattendedRelay, Quiet, StartSteps, StopSteps,
     EndSteps
<1>2. QED
  BY <1>1, Invariance, PTL

\* The time left and the time run (main.c, 96, 132-149, 213-214) add up to the
\* nominal time, exactly so while a run lasts.
THEOREM CountersConsistent == Spec => []CountersAddUp
<1>1. IInv => CountersAddUp
  <2> SUFFICES ASSUME IInv, book # "none", Quiet PROVE
        /\ record + run_time \in {mode_to_time, mode_to_time + Word}
        /\ book = "started" /\ owed =>
             record >= 1 /\ record + run_time = mode_to_time
    BY DEF CountersAddUp
  <2>1. c_pc = "recv" /\ t_pc = "recv"
    BY DEF Quiet
  <2>2. QED
    BY <2>1 DEF IInv, CountInv, TickInv, RunInv, AddsUp, StartSteps,
       ResumeSteps, EndSteps
<1>2. QED
  BY <1>1, Invariance, PTL

\* No run ends unlogged (main.c, 108 and 223).
THEOREM RunsLogged == Spec => []EndedRunIsLogged
<1>1. IInv => EndedRunIsLogged
  BY DEF IInv, RelayInv, EndedRunIsLogged, Quiet, StartSteps, StopSteps,
     EndSteps
<1>2. QED
  BY <1>1, Invariance, PTL

\* The time that save_history is handed (main.c, 108 and 223) for a run that P01
\* started is the seconds counted with all relays on, if no tick overlapped the P01
\* or the P02.
THEOREM LogIsTrue == Spec => LoggedTimeIsElapsed
<1>1. ASSUME IInv, Tick_save, book # "none"
      PROVE  entry'.time = mode_to_time /\ mode_to_time = run_time
  <2>1. run_time = mode_to_time
    <3>1. record = 0 /\ AddsUp(record + run_time)
      BY <1>1 DEF Tick_save, IInv, CountInv, BookInv, TickInv, StartSteps,
         ResumeSteps, EndSteps
    <3>2. QED
      BY <1>1, <3>1, ConstantsOK
      DEF AddsUp, IInv, TypeOK, CountersOK, Counter
  <2>2. mode_to_time \in Nat /\ mode_to_time < HalfWord
    BY <1>1, ConstantsOK DEF IInv, TypeOK, CountersOK
  <2>3. QED
    BY <1>1, <2>1, <2>2, LogEntry DEF Tick_save
<1>2. ASSUME IInv, Tick_save, clean, book = "started", owed PROVE lit = run_time
  <2>1. c_pc \notin StartSteps
    BY <1>2 DEF Tick_save, IInv, CountInv, BookInv
  <2> QED
    BY <1>2, <2>1 DEF IInv, LitInv
<1>3. ASSUME IInv, P02_save, clean, book = "started", owed
      PROVE  entry'.time = lit /\ lit < mode_to_time
  <2>1. c_pc = "save" /\ t_pc = "recv" /\ lit = run_time
    BY <1>3 DEF P02_save, IInv, RelayInv, LitInv, StopSteps, StartSteps
  <2>2. record >= 1 /\ record + run_time = mode_to_time
    BY <1>3, <2>1 DEF IInv, CountInv, RunInv, StartSteps
  <2>3. record \in Nat /\ run_time \in Nat /\ mode_to_time < HalfWord
    BY <1>3, ConstantsOK DEF IInv, TypeOK, CountersOK, Counter
  <2>4. run_time < mode_to_time /\ run_time < HalfWord
    BY <2>2, <2>3, ConstantsOK
  <2>5. QED
    BY <1>3, <2>1, <2>3, <2>4, LogEntry DEF P02_save
<1> DEFINE True ==
      /\ clean /\ book = "started" /\ owed =>
           /\ Tick_save => entry'.time = lit
           /\ P02_save => entry'.time = lit /\ lit < mode_to_time
      /\ Tick_save /\ book = "resumed" =>
           entry'.time = mode_to_time /\ mode_to_time = run_time
<1>4. IInv => True
  BY <1>1, <1>2, <1>3
<1>5. IInv /\ [Next]_vars => [True]_vars
  BY <1>4
<1>6. QED
  BY <1>5, Invariance, PTL DEF Spec, LoggedTimeIsElapsed

-----------------------------------------------------------------------------
(* RelayRun.                                                               *)


\* While no two handlers have overlapped: only one task is in one, and what a
\* half-done handler has already written agrees with what it will write.
Apart ==
  /\ c_pc # "recv" => t_pc \in {"setup", "recv"}
  /\ t_pc = "dec" \/ Counted => t_reg = record
  /\ Ending => record = 0
  /\ t_pc = "inc" => t_run = run_time
  /\ c_pc = "start" => run_time = 0

FirstRelay ==
  /\ c_pc = "on" /\ c_i > 1 => relay[1] = 1
  /\ c_pc \in {"arm", "nominal", "zero", "start"} => relay[1] = 1
  /\ c_pc = "off" /\ c_i > 1 => relay[1] = 0
  /\ c_pc \in {"stop", "save"} => relay[1] = 0
  /\ t_pc = "off" /\ t_i > 1 => relay[1] = 0
  /\ t_pc \in {"stop", "save"} => relay[1] = 0

\* The timer of the run that is about to be logged.
TimerBefore ==
  Logging => IF c_pc = "save" \/ t_pc = "save" THEN gptimer = gptimer_stop(was.gptimer)
             ELSE gptimer = was.gptimer

SerialInv == ~overlapped => Apart /\ FirstRelay /\ TimerBefore

\* How the observer of the run to be logged goes on.
WasNext ==
  was' = IF ~Logging' THEN Untold
         ELSE IF Logging THEN was ELSE [on |-> relay[1] = 1, gptimer |-> gptimer]

\* At start no handler is under way.
LEMMA SerialStart == SerialInit => SerialInv
BY DEF SerialInit, Init, SerialInv, Apart, FirstRelay, TimerBefore, Logging, Stopping,
       Last, Counted, Ending, StopSteps

\* The timer of the run that is about to be logged is the one that P02 or the tick
\* found, up to gptimer_stop (main.c, 107 and 221).
LEMMA TimerStep ==
  ASSUME TypeOK, t_pc # "off" => t_i = 1, Apart, FirstRelay, TimerBefore,
         Next, Serial, WasNext
  PROVE  TimerBefore'
<1> USE ConstantFacts, ConstantsOK
    DEF StartSteps, StopSteps, ResumeSteps, EndSteps, TickSteps, counters, cmd, tick,
        observed, TypeOK, DevicesOK, Apart, Counted, Ending,
        TimerBefore, Logging, Stopping, Last, WasNext, Untold
<1>0. TRUE
  OBVIOUS
<1>1. ASSUME NEW v \in ModeValues, FREQ1(v), Serial, WasNext PROVE TimerBefore'
  BY <1>0, <1>1 DEF FREQ1, Serial, Command
<1>2. ASSUME P01, Serial, WasNext PROVE TimerBefore'
  BY <1>0, <1>2 DEF P01, Serial, Command
<1>3. ASSUME P02, Serial, WasNext PROVE TimerBefore'
  BY <1>0, <1>3 DEF P02, Serial, Command
<1>4. ASSUME NEW s \in LabelValues, label_timer_count_down(s), Serial, WasNext
      PROVE  TimerBefore'
  BY <1>0, <1>4 DEF label_timer_count_down, Serial, Command
<1>5. ASSUME NEW v \in ModeValues, FREQ2(v), Serial, WasNext PROVE TimerBefore'
  BY <1>0, <1>5 DEF FREQ2, Serial, Command
<1>6. ASSUME P01_on, WasNext PROVE TimerBefore'
  BY <1>0, <1>6 DEF P01_on
<1>7. ASSUME P01_arm, WasNext PROVE TimerBefore'
  BY <1>0, <1>7 DEF P01_arm
<1>8. ASSUME P01_nominal, WasNext PROVE TimerBefore'
  BY <1>0, <1>8 DEF P01_nominal
<1>9. ASSUME P01_zero, WasNext PROVE TimerBefore'
  BY <1>0, <1>9 DEF P01_zero
<1>10. ASSUME P01_start, WasNext PROVE TimerBefore'
  BY <1>0, <1>10 DEF P01_start, gptimer_start
<1>11. ASSUME P02_off, WasNext PROVE TimerBefore'
  BY <1>0, <1>11 DEF P02_off
<1>12. ASSUME P02_stop, WasNext PROVE TimerBefore'
  BY <1>0, <1>12 DEF P02_stop, gptimer_stop
<1>13. ASSUME P02_save, WasNext PROVE TimerBefore'
  BY <1>0, <1>13 DEF P02_save
<1>14. ASSUME FREQ2_store, WasNext PROVE TimerBefore'
  BY <1>0, <1>14 DEF FREQ2_store
<1>15. ASSUME FREQ2_nominal, WasNext PROVE TimerBefore'
  BY <1>0, <1>15 DEF FREQ2_nominal
<1>16. ASSUME FREQ2_start, WasNext PROVE TimerBefore'
  BY <1>0, <1>16 DEF FREQ2_start, gptimer_start
<1>17. ASSUME TimerSetup, Serial, WasNext PROVE TimerBefore'
  BY <1>0, <1>17 DEF TimerSetup, Serial
<1>18. ASSUME timer_on_alarm_cb, WasNext PROVE TimerBefore'
  BY <1>0, <1>18 DEF timer_on_alarm_cb
<1>19. ASSUME Tick, Serial, WasNext PROVE TimerBefore'
  BY <1>0, <1>19 DEF Tick, Serial
<1>20. ASSUME Tick_dec, WasNext PROVE TimerBefore'
  BY <1>0, <1>20 DEF Tick_dec
<1>21. ASSUME Tick_load, WasNext PROVE TimerBefore'
  BY <1>0, <1>21 DEF Tick_load
<1>22. ASSUME Tick_inc, WasNext PROVE TimerBefore'
  BY <1>0, <1>22 DEF Tick_inc
<1>23. ASSUME Tick_test, WasNext PROVE TimerBefore'
  BY <1>0, <1>23 DEF Tick_test, Expired
<1>24. ASSUME Tick_off, WasNext PROVE TimerBefore'
  BY <1>0, <1>24 DEF Tick_off
<1>25. ASSUME Tick_stop, WasNext PROVE TimerBefore'
  BY <1>0, <1>25 DEF Tick_stop, gptimer_stop
<1>26. ASSUME Tick_save, WasNext PROVE TimerBefore'
  BY <1>0, <1>26 DEF Tick_save
<1>27. ASSUME Reboot, WasNext PROVE TimerBefore'
  BY <1>0, <1>27 DEF Reboot
<1>28. QED
  BY <1>1, <1>2, <1>3, <1>4, <1>5, <1>6, <1>7, <1>8, <1>9, <1>10, <1>11, <1>12,
     <1>13, <1>14, <1>15, <1>16, <1>17, <1>18, <1>19, <1>20, <1>21, <1>22, <1>23,
     <1>24, <1>25, <1>26, <1>27
     DEF Next, Command, CommandStep, TickStep

\* Every step that keeps the handlers apart keeps what a half-done one has written.
LEMMA SerialStep ==
  TypeOK /\ RelayInv /\ SerialInv /\ [SerialNext]_serialVars => SerialInv'
<1> SUFFICES ASSUME TypeOK, RelayInv, SerialInv, [SerialNext]_serialVars, ~overlapped'
             PROVE  SerialInv'
  BY DEF SerialInv
<1> USE ConstantFacts, ConstantsOK
    DEF StartSteps, StopSteps, ResumeSteps, EndSteps, TickSteps, counters, cmd, tick,
        observed, TypeOK, CountersOK, DevicesOK, TasksOK, Relays, SerialInv, Apart,
        FirstRelay, Counted, Ending
<1>0. ~overlapped /\ (t_pc # "off" => t_i = 1)
  <2>1. ASSUME SerialNext PROVE ~overlapped
    BY ONLY <2>1, ~overlapped', Zenon DEF SerialNext
  <2>2. ASSUME UNCHANGED serialVars PROVE ~overlapped
    <3>1. overlapped' = overlapped
      BY <2>2 DEF serialVars
    <3> QED
      BY ONLY <3>1, ~overlapped', Zenon
  <2>3. ~overlapped
    BY ONLY <2>1, <2>2, [SerialNext]_serialVars
  <2> QED
    BY <2>3 DEF RelayInv
<1>1. ASSUME NEW v \in ModeValues, FREQ1(v), Serial PROVE (Apart /\ FirstRelay)'
  BY <1>0, <1>1 DEF FREQ1, Serial, Command
<1>2. ASSUME P01, Serial PROVE (Apart /\ FirstRelay)'
  BY <1>0, <1>2 DEF P01, Serial, Command
<1>3. ASSUME P02, Serial PROVE (Apart /\ FirstRelay)'
  BY <1>0, <1>3 DEF P02, Serial, Command
<1>4. ASSUME NEW s \in LabelValues, label_timer_count_down(s), Serial
      PROVE  (Apart /\ FirstRelay)'
  BY <1>0, <1>4 DEF label_timer_count_down, Serial, Command
<1>5. ASSUME NEW v \in ModeValues, FREQ2(v), Serial PROVE (Apart /\ FirstRelay)'
  BY <1>0, <1>5 DEF FREQ2, Serial, Command
<1>6. ASSUME P01_on PROVE (Apart /\ FirstRelay)'
  BY <1>0, <1>6 DEF P01_on
<1>7. ASSUME P01_arm PROVE (Apart /\ FirstRelay)'
  BY <1>0, <1>7 DEF P01_arm
<1>8. ASSUME P01_nominal PROVE (Apart /\ FirstRelay)'
  BY <1>0, <1>8 DEF P01_nominal
<1>9. ASSUME P01_zero PROVE (Apart /\ FirstRelay)'
  BY <1>0, <1>9 DEF P01_zero
<1>10. ASSUME P01_start PROVE (Apart /\ FirstRelay)'
  BY <1>0, <1>10 DEF P01_start, gptimer_start
<1>11. ASSUME P02_off PROVE (Apart /\ FirstRelay)'
  BY <1>0, <1>11 DEF P02_off
<1>12. ASSUME P02_stop PROVE (Apart /\ FirstRelay)'
  BY <1>0, <1>12 DEF P02_stop, gptimer_stop
<1>13. ASSUME P02_save PROVE (Apart /\ FirstRelay)'
  BY <1>0, <1>13 DEF P02_save
<1>14. ASSUME FREQ2_store PROVE (Apart /\ FirstRelay)'
  BY <1>0, <1>14 DEF FREQ2_store
<1>15. ASSUME FREQ2_nominal PROVE (Apart /\ FirstRelay)'
  BY <1>0, <1>15 DEF FREQ2_nominal
<1>16. ASSUME FREQ2_start PROVE (Apart /\ FirstRelay)'
  BY <1>0, <1>16 DEF FREQ2_start, gptimer_start
<1>17. ASSUME TimerSetup, Serial PROVE (Apart /\ FirstRelay)'
  BY <1>0, <1>17 DEF TimerSetup, Serial
<1>18. ASSUME timer_on_alarm_cb PROVE (Apart /\ FirstRelay)'
  BY <1>0, <1>18 DEF timer_on_alarm_cb
<1>19. ASSUME Tick, Serial PROVE (Apart /\ FirstRelay)'
  BY <1>0, <1>19 DEF Tick, Serial
<1>20. ASSUME Tick_dec PROVE (Apart /\ FirstRelay)'
  BY <1>0, <1>20 DEF Tick_dec
<1>21. ASSUME Tick_load PROVE (Apart /\ FirstRelay)'
  BY <1>0, <1>21 DEF Tick_load
<1>22. ASSUME Tick_inc PROVE (Apart /\ FirstRelay)'
  BY <1>0, <1>22 DEF Tick_inc
<1>23. ASSUME Tick_test PROVE (Apart /\ FirstRelay)'
  BY <1>0, <1>23 DEF Tick_test, Expired
<1>24. ASSUME Tick_off PROVE (Apart /\ FirstRelay)'
  BY <1>0, <1>24 DEF Tick_off
<1>25. ASSUME Tick_stop PROVE (Apart /\ FirstRelay)'
  BY <1>0, <1>25 DEF Tick_stop, gptimer_stop
<1>26. ASSUME Tick_save PROVE (Apart /\ FirstRelay)'
  BY <1>0, <1>26 DEF Tick_save
<1>27. ASSUME Reboot PROVE (Apart /\ FirstRelay)'
  BY <1>0, <1>27 DEF Reboot
<1>28. ASSUME Next, Serial PROVE (Apart /\ FirstRelay)'
  BY <1>28, <1>1, <1>2, <1>3, <1>4, <1>5, <1>6, <1>7, <1>8, <1>9, <1>10, <1>11,
     <1>12, <1>13, <1>14, <1>15, <1>16, <1>17, <1>18, <1>19, <1>20, <1>21, <1>22,
     <1>23, <1>24, <1>25, <1>26, <1>27
     DEF Next, Command, CommandStep, TickStep
<1>29. CASE UNCHANGED serialVars
  BY <1>0, <1>29
     DEF serialVars, vars, TimerBefore, Logging, Stopping, Last, gptimer_stop
<1>30. CASE SerialNext
  <2>1. Next /\ Serial /\ WasNext
    BY ONLY <1>30, ~overlapped', Zenon DEF SerialNext, WasNext
  <2>2. (Apart /\ FirstRelay)'
    BY <2>1, <1>28
  <2>3. TimerBefore'
    BY <1>0, <2>1, TimerStep
  <2> QED
    BY <2>2, <2>3
<1> QED
  BY <1>29, <1>30

-----------------------------------------------------------------------------
(* The mapping, step by step.                                              *)

\* What RelayRun computes with operators of its own is what RelayTimer computes.
LEMMA SameArithmetic ==
  /\ \A m : Run!Nominal(m) = Nominal(m)
  /\ \A x, y : Run!Sub(x, y) = Sub(x, y)
  /\ \A m, n : Run!Entry(m, n) = save_history(m, n)
  /\ \A x \in Counter : Run!Sub(x, 1) = Dec(x) /\ (x + 1) % Word = Inc(x)
<1>1. \A x \in Counter : x # Word - 1 => (x + 1) % Word = x + 1
  BY ConstantsOK DEF Counter
<1>2. Word \in Nat /\ Word >= 1 => Word % Word = 0
  OBVIOUS
<1>3. Word \in Nat /\ Word >= 1 
  BY ConstantsOK DEF Modes
<1>4. \A x \in Counter : (x + 1) % Word = Inc(x)
  BY <1>1, <1>2, <1>3 DEF Inc, Counter
<1>5. \A x \in Counter : Run!Sub(x, 1) = Dec(x)
  BY <1>3 DEF Run!Sub, Dec, Counter
<1>6. \A m : Run!Nominal(m) = Nominal(m)
  BY DEF Run!Nominal, Run!Modes, Nominal, Modes
<1>7. \A x, y : Run!Sub(x, y) = Sub(x, y)
  BY DEF Run!Sub, Sub
<1>8. \A m, n : Run!Entry(m, n) = save_history(m, n)
  BY DEF Run!Entry, save_history
<1> QED
  BY <1>4, <1>5, <1>6, <1>7, <1>8

\* The initial values are those of RelayRun.
LEMMA MapInit == SerialInit => Run!Init
BY ConstantFacts
   DEF SerialInit, Init, Run!Init, Run!Loaded, AbsRecord, AbsRunTime, AbsNominal,
       AbsOn, AbsTimer, AbsQueue, Starting, Stopping, Resuming, Logging, Last, Counted,
       Ending, StartSteps, StopSteps, ResumeSteps

\* A step of a handler is the step of RelayRun of that name, or a stutter.
LEMMA MapStep ==
  ASSUME TypeOK, RelayInv, SerialInv, ~overlapped, Next, Serial, WasNext
  PROVE  Run!Next \/ UNCHANGED RunVars
<1> USE ConstantFacts, ConstantsOK, SameArithmetic
    DEF StartSteps, StopSteps, ResumeSteps, EndSteps, TickSteps, counters, cmd, tick,
        observed, TypeOK, CountersOK, DevicesOK, TasksOK, Relays, SerialInv, Apart,
        FirstRelay, TimerBefore, WasNext, Starting, Stopping, Resuming, Logging, Last,
        Counted, Ending, AbsRecord, AbsRunTime, AbsNominal, AbsOn, AbsTimer, AbsQueue,
        gptimer_start, gptimer_stop, RunVars, Run!run, Run!counters
<1>0. t_pc # "off" => t_i = 1
  BY DEF RelayInv
<1>1. ASSUME NEW v \in ModeValues, FREQ1(v) PROVE Run!FREQ1(v)
  BY <1>0, <1>1 DEF FREQ1, Serial, Command, Run!FREQ1
<1>2. ASSUME P01 PROVE Run!P01
  BY <1>0, <1>2 DEF P01, Serial, Command, Run!P01, Run!Started
<1>3. ASSUME P02 PROVE UNCHANGED RunVars
  BY <1>0, <1>3 DEF P02, Serial, Command
<1>4. ASSUME NEW s \in LabelValues, label_timer_count_down(s)
      PROVE  Run!label_timer_count_down(s)
  BY <1>0, <1>4 DEF label_timer_count_down, Serial, Command, Run!label_timer_count_down
<1>5. ASSUME NEW v \in ModeValues, FREQ2(v) PROVE Run!FREQ2(v)
  BY <1>0, <1>5 DEF FREQ2, Serial, Command, Run!FREQ2, Run!Started
<1>6. ASSUME P01_on PROVE UNCHANGED RunVars
  BY <1>0, <1>6 DEF P01_on
<1>7. ASSUME P01_arm PROVE UNCHANGED RunVars
  BY <1>0, <1>7 DEF P01_arm
<1>8. ASSUME P01_nominal PROVE UNCHANGED RunVars
  BY <1>0, <1>8 DEF P01_nominal
<1>9. ASSUME P01_zero PROVE UNCHANGED RunVars
  BY <1>0, <1>9 DEF P01_zero
<1>10. ASSUME P01_start PROVE UNCHANGED RunVars
  BY <1>0, <1>10 DEF P01_start
<1>11. ASSUME P02_off PROVE UNCHANGED RunVars
  BY <1>0, <1>11 DEF P02_off
<1>12. ASSUME P02_stop PROVE UNCHANGED RunVars
  BY <1>0, <1>12 DEF P02_stop
<1>13. ASSUME P02_save PROVE Run!P02
  <2>1. UNCHANGED <<mode, AbsRecord, AbsRunTime, AbsNominal, AbsQueue>>
    BY <1>0, <1>13 DEF P02_save
  <2>2. AbsOn' = FALSE
    BY <1>0, <1>13 DEF P02_save
  <2>3. AbsTimer' = IF AbsTimer = "null" THEN "null" ELSE "stopped"
    <3>1. AbsTimer = was.gptimer /\ AbsTimer' = gptimer
      BY <1>0, <1>13 DEF P02_save
    <3>2. gptimer = gptimer_stop(was.gptimer)
      BY <1>0, <1>13 DEF P02_save
    <3> QED
      BY ONLY <3>1, <3>2 DEF gptimer_stop
  <2>4. entry' = save_history(mode, AbsRunTime)
    BY <1>0, <1>13 DEF P02_save
  <2> QED
    BY ONLY <2>1, <2>2, <2>3, <2>4, SameArithmetic
       DEF Run!P02, Run!Stopped, Run!counters
<1>14. ASSUME FREQ2_store PROVE UNCHANGED RunVars
  BY <1>0, <1>14 DEF FREQ2_store
<1>15. ASSUME FREQ2_nominal PROVE UNCHANGED RunVars
  BY <1>0, <1>15 DEF FREQ2_nominal
<1>16. ASSUME FREQ2_start PROVE UNCHANGED RunVars
  BY <1>0, <1>16 DEF FREQ2_start
<1>17. ASSUME TimerSetup PROVE Run!TimerSetup
  BY <1>0, <1>17 DEF TimerSetup, Serial, Run!TimerSetup
<1>18. ASSUME timer_on_alarm_cb PROVE Run!timer_on_alarm_cb
  <2>1. AbsTimer = "running"
    BY <1>0, <1>18 DEF timer_on_alarm_cb
  <2>2. AbsQueue < QueueLength + 1 /\ AbsQueue' = AbsQueue + 1
    BY <1>0, <1>18 DEF timer_on_alarm_cb
  <2>3. UNCHANGED <<mode, AbsRecord, AbsRunTime, AbsNominal, entry>>
    BY <1>0, <1>18 DEF timer_on_alarm_cb
  <2>4. UNCHANGED <<AbsOn, AbsTimer>>
    BY <1>0, <1>18 DEF timer_on_alarm_cb
  <2> QED
    BY ONLY <2>1, <2>2, <2>3, <2>4 DEF Run!timer_on_alarm_cb, Run!counters
<1>19. ASSUME Tick PROVE Run!Tick \/ UNCHANGED RunVars
  <2>1. /\ c_pc = "recv" /\ c_pc' = "recv" /\ t_pc = "recv" /\ t_pc' = "dec"
        /\ Timer_queue \in Nat /\ Timer_queue > 0 /\ Timer_queue' = Timer_queue - 1
        /\ t_reg' = record /\ gptimer # "null"
        /\ UNCHANGED <<mode, counters, relay, gptimer, entry>>
    BY <1>0, <1>19 DEF Tick, Serial
  <2>2. ~Last /\ ~Logging /\ ~Starting /\ ~Resuming /\ (Logging' <=> Last')
        /\ ~Starting' /\ ~Resuming'
    BY ONLY <2>1
       DEF Last, Logging, Stopping, Counted, Ending, Starting, Resuming, StartSteps,
           StopSteps, ResumeSteps
  <2>3. /\ AbsRecord = record /\ AbsRunTime = run_time /\ AbsNominal = mode_to_time
        /\ AbsOn = (relay[1] = 1) /\ AbsTimer = gptimer /\ AbsQueue = Timer_queue
    BY ONLY <2>1, <2>2 DEF AbsRecord, AbsRunTime, AbsNominal, AbsOn, AbsTimer, AbsQueue
  <2>4. AbsNominal' = mode_to_time
    BY ONLY <2>1, <2>2 DEF AbsNominal, counters
  <2>5. record \in Counter /\ run_time \in Counter
    OBVIOUS
  <2>6. CASE Dec(record) = 0
    <3>1. Last'
      BY ONLY <2>1, <2>6 DEF Last, Dec
    <3>2. record = 1
      BY ONLY <2>5, <2>6, ConstantsOK, ConstantFacts DEF Dec, Counter
    <3>3. AbsRecord' = 1 /\ AbsRunTime' = run_time /\ AbsQueue' = Timer_queue
      BY ONLY <2>1, <3>1 DEF AbsRecord, AbsRunTime, AbsQueue, counters, Starting, StartSteps
    <3>4. was' = [on |-> relay[1] = 1, gptimer |-> gptimer]
      BY ONLY <2>2, <3>1, WasNext DEF WasNext
    <3>5. AbsOn' = (relay[1] = 1) /\ AbsTimer' = gptimer
      BY ONLY <2>2, <3>1, <3>4 DEF AbsOn, AbsTimer
    <3> QED
      BY ONLY <2>1, <2>3, <2>4, <3>2, <3>3, <3>5 DEF RunVars, Run!run, Run!counters
  <2>7. CASE Dec(record) # 0
    <3>1. ~Last'
      BY ONLY <2>1, <2>7 DEF Last, Dec, Counted, Ending
    <3>2. AbsRecord' = Dec(record) /\ AbsRunTime' = Inc(run_time)
          /\ AbsQueue' = Timer_queue - 1
      BY ONLY <2>1, <3>1
         DEF AbsRecord, AbsRunTime, AbsQueue, counters, Starting, StartSteps, Dec, Inc
    <3>3. AbsOn' = (relay[1] = 1) /\ AbsTimer' = gptimer
      BY ONLY <2>1, <2>2, <3>1 DEF AbsOn, AbsTimer
    <3>4. Run!Sub(record, 1) = Dec(record) /\ (run_time + 1) % Word = Inc(run_time)
      BY ONLY <2>5, SameArithmetic
    <3> QED
      BY ONLY <2>1, <2>3, <2>4, <2>7, <3>2, <3>3, <3>4 DEF Run!Tick
  <2> QED
    BY ONLY <2>6, <2>7
<1>20. ASSUME Tick_dec PROVE UNCHANGED RunVars
  BY <1>0, <1>20 DEF Tick_dec
<1>21. ASSUME Tick_load PROVE UNCHANGED RunVars
  BY <1>0, <1>21 DEF Tick_load
<1>22. ASSUME Tick_inc PROVE UNCHANGED RunVars
  <2>1. UNCHANGED <<mode, AbsRecord, AbsNominal, AbsQueue, entry>>
    BY <1>0, <1>22 DEF Tick_inc
  <2>2. UNCHANGED AbsRunTime
    <3>1. /\ t_pc = "inc" /\ t_pc' = "test" /\ c_pc \in {"recv"} /\ c_pc' = c_pc
          /\ run_time' = Inc(run_time) /\ (Last' <=> Last) /\ run_time \in Counter
      BY <1>0, <1>22 DEF Tick_inc
    <3>2. Dec(Inc(run_time)) = run_time
      BY ONLY <3>1, ConstantsOK DEF Dec, Inc, Counter
    <3>3. Dec(run_time') = run_time
      BY ONLY <3>1, <3>2
    <3> QED
      BY ONLY <3>1, <3>3 DEF AbsRunTime, Starting, StartSteps
  <2>3. UNCHANGED <<AbsOn, AbsTimer>>
    BY <1>0, <1>22 DEF Tick_inc
  <2> QED
    BY ONLY <2>1, <2>2, <2>3 DEF RunVars, Run!run, Run!counters
<1>23. ASSUME Tick_test PROVE UNCHANGED RunVars
  BY <1>0, <1>23 DEF Tick_test, Expired
<1>24. ASSUME Tick_off PROVE UNCHANGED RunVars
  BY <1>0, <1>24 DEF Tick_off
<1>25. ASSUME Tick_stop PROVE UNCHANGED RunVars
  BY <1>0, <1>25 DEF Tick_stop
<1>26. ASSUME Tick_save PROVE Run!Tick
  <2>1. /\ c_pc = "recv" /\ c_pc' = "recv" /\ t_pc = "save" /\ t_pc' = "recv"
        /\ record = 0 /\ relay[1] = 0 /\ gptimer # "null"
        /\ gptimer = gptimer_stop(was.gptimer)
        /\ Timer_queue \in Nat /\ run_time \in Counter
        /\ entry' = save_history(mode, mode_to_time)
        /\ UNCHANGED <<mode, counters, relay, gptimer, Timer_queue>>
    BY <1>0, <1>26 DEF Tick_save
  <2>2. Last /\ Logging /\ ~Starting /\ ~Resuming
        /\ ~Last' /\ ~Logging' /\ ~Starting' /\ ~Resuming'
    BY ONLY <2>1
       DEF Last, Logging, Stopping, Counted, Ending, Starting, Resuming, StartSteps,
           StopSteps, ResumeSteps
  <2>3. /\ AbsRecord = 1 /\ AbsRunTime = Dec(run_time) /\ AbsNominal = mode_to_time
        /\ AbsTimer = was.gptimer /\ AbsQueue = Timer_queue + 1
    BY ONLY <2>1, <2>2 DEF AbsRecord, AbsRunTime, AbsNominal, AbsTimer, AbsQueue
  <2>4. AbsNominal' = mode_to_time /\ AbsRecord' = 0 /\ AbsRunTime' = run_time
        /\ AbsTimer' = gptimer /\ AbsQueue' = Timer_queue /\ AbsOn' = FALSE
    BY ONLY <2>1, <2>2
       DEF AbsNominal, AbsRecord, AbsRunTime, AbsTimer, AbsQueue, AbsOn, counters
  <2>5. was.gptimer # "null" /\ gptimer = "stopped"
    BY ONLY <2>1 DEF gptimer_stop
  <2>6. Dec(run_time) \in Counter /\ Inc(Dec(run_time)) = run_time
    BY ONLY <2>1, ConstantsOK DEF Dec, Inc, Counter, Modes
  <2>7. (AbsRunTime + 1) % Word = run_time
    BY ONLY <2>3, <2>6, SameArithmetic
  <2>8. Run!Sub(1, 1) = 0
    BY DEF Run!Sub
  <2>9. Timer_queue + 1 > 0 /\ (Timer_queue + 1) - 1 = Timer_queue
    BY ONLY <2>1
  <2>10. entry' = Run!Entry(mode, mode_to_time)
    BY ONLY <2>1, SameArithmetic
  <2> QED
    BY ONLY <2>1, <2>3, <2>4, <2>5, <2>7, <2>8, <2>9, <2>10 DEF Run!Tick, Run!Stopped
<1>27. ASSUME Reboot PROVE Run!Reboot
  BY <1>0, <1>27 DEF Reboot, Run!Reboot, Run!Loaded
<1> QED
  BY <1>1, <1>2, <1>3, <1>4, <1>5, <1>6, <1>7, <1>8, <1>9, <1>10, <1>11, <1>12,
     <1>13, <1>14, <1>15, <1>16, <1>17, <1>18, <1>19, <1>20, <1>21, <1>22, <1>23,
     <1>24, <1>25, <1>26, <1>27
     DEF Next, Command, CommandStep, TickStep, Run!Next

\* As long as no handler of one task has begun within one of the other, or within the
\* set-up of timer_handle, each has the effect of one step of RelayRun, whenever the
\* alarm and resets come: stone_cmd and timer_handle (main.c, 60-150 and 195-226) can
\* then be reasoned about a command and a tick at a time.
THEOREM HandlersImplementSteps == SerialSpec => HandlersAreSteps
<1> DEFINE SInv == TypeOK /\ RelayInv /\ SerialInv
<1>1. SerialInit => SInv /\ Run!Init
  BY TypeInit, RelayInit, SerialStart, MapInit DEF SerialInit
<1>2. [SerialNext]_serialVars => [Next]_vars
  BY DEF SerialNext, serialVars
<1>3. SInv /\ [SerialNext]_serialVars => SInv'
  BY <1>2, TypeStep, RelayStep, SerialStep
<1>4. SInv /\ [SerialNext]_serialVars => [overlapped' \/ Run!Next]_RunVars
  <2> SUFFICES ASSUME SInv, [SerialNext]_serialVars, ~overlapped'
               PROVE  Run!Next \/ UNCHANGED RunVars
    OBVIOUS
  <2>1. CASE SerialNext
    <3>1. Next /\ Serial /\ ~overlapped /\ WasNext
      BY ONLY <2>1, ~overlapped', Zenon DEF SerialNext, WasNext
    <3> QED
      BY <3>1, MapStep
  <2>2. CASE UNCHANGED serialVars
    BY <2>2
       DEF serialVars, vars, counters, cmd, tick, RunVars, Run!run, Run!counters,
           AbsRecord,
       AbsRunTime, AbsNominal, AbsOn, AbsTimer, AbsQueue, Starting, Stopping, Resuming,
       Logging, Last, Counted, Ending
  <2> QED
    BY <2>1, <2>2
<1> HIDE DEF SInv
<1> QED
  BY <1>1, <1>3, <1>4, PTL DEF SerialSpec, HandlersAreSteps

=============================================================================
