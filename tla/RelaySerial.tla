---------------------------- MODULE RelaySerial ----------------------------
(***************************************************************************)
(* The claim that RelayTimer, as long as no handler of stone_cmd has       *)
(* overlapped a tick or the set-up of timer_handle, implements RelayRun,   *)
(* where a handler is one step.  The alarm and a reset may come at any     *)
(* moment of a handler.                                                    *)
(*                                                                         *)
(* Nothing in the code keeps the handlers apart; one lasts microseconds to *)
(* milliseconds and ticks are a second apart, so it is the normal case.    *)
(* What holds without it is said in RelayTimer.                            *)
(***************************************************************************)
EXTENDS RelayTimer

(* What the handler under way is doing. *)
Starting == c_pc \in StartSteps
Stopping == c_pc \in StopSteps
Resuming == c_pc \in ResumeSteps
Counted  == t_pc \in {"load", "inc", "test"}
Ending   == t_pc \in {"off", "stop", "save"}

\* The tick under way will end the run.
Last == (t_pc = "dec" /\ Dec(t_reg) = 0) \/ (Counted /\ t_reg = 0) \/ Ending

\* The handler under way logs a run: P02, or such a tick.
Logging == Stopping \/ Last

\* A handler begins only while the other task is between two of its own; the
\* set-up of timer_handle counts as one.
Serial ==
  /\ Command => t_pc \in {"setup", "recv"}
  /\ Tick \/ TimerSetup => c_pc = "recv"

VARIABLES
  overlapped,  \* observes: a step so far was not Serial
  was          \* relays and timer when the handler that logs a run began

serialVars == <<vars, overlapped, was>>

Untold == [on |-> FALSE, gptimer |-> "null"]

SerialInit == Init /\ overlapped = FALSE /\ was = Untold
SerialNext ==
  /\ Next
  /\ overlapped' = (overlapped \/ ~Serial)
  /\ was' = IF overlapped' \/ ~Logging' THEN Untold
            ELSE IF Logging THEN was
            ELSE [on |-> relay[1] = 1, gptimer |-> gptimer]

SerialSpec == SerialInit /\ [][SerialNext]_serialVars /\ Fairness

-----------------------------------------------------------------------------
(* The mapping.  P01, FREQ2 and a tick that does not end the run have      *)
(* their effect when they begin, so what they have not written yet is      *)
(* shown already.  P02 and a tick that ends the run have theirs with the   *)
(* log entry, their last step: until then the run is shown as it was when  *)
(* they began, and a reset that comes before it finds nothing done.  The   *)
(* tick that is under way is then still to be taken from the queue, which  *)
(* so has a place more than Timer_queue.                                   *)

AbsRecord ==
  CASE c_pc \in {"on", "arm"} -> Nominal(mode)
    [] Last -> 1
    [] t_pc = "dec" /\ ~Last -> Dec(t_reg)
    [] OTHER -> record

AbsRunTime ==
  CASE Starting -> 0
    [] c_pc = "r_store" -> c_reg
    [] Last /\ t_pc \notin {"dec", "load", "inc"} -> Dec(run_time)
    [] t_pc \in {"dec", "load", "inc"} /\ ~Last -> Inc(run_time)
    [] OTHER -> run_time

AbsNominal ==
  CASE c_pc \in {"on", "arm", "nominal"} -> Nominal(mode)
    [] c_pc \in {"r_store", "r_nominal"} -> c_nom
    [] OTHER -> mode_to_time

AbsOn == Starting \/ IF Logging THEN was.on ELSE relay[1] = 1

AbsTimer ==
  IF Logging THEN was.gptimer
  ELSE IF Starting \/ Resuming THEN gptimer_start(gptimer) ELSE gptimer

AbsQueue == IF Last THEN Timer_queue + 1 ELSE Timer_queue

Run == INSTANCE RelayRun WITH
  QueueLength <- QueueLength + 1,
  record <- AbsRecord, run_time <- AbsRunTime, mode_to_time <- AbsNominal,
  on <- AbsOn, gptimer <- AbsTimer, Timer_queue <- AbsQueue

\* Until a handler of one task first begins within one of the other, every handler
\* has the effect of one step of RelayRun, and its further steps have none; the
\* alarm and a reset are steps of RelayRun wherever they come.
RunVars == Run!run
HandlersAreSteps == Run!Init /\ [][overlapped' \/ Run!Next]_RunVars

=============================================================================
