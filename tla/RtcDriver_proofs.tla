------------------------- MODULE RtcDriver_proofs -------------------------
(***************************************************************************)
(* Proofs, for every number of tasks and of devices and all configurations,*)
(* that the I2C layer keeps its port in order and leaves nothing held, and *)
(* that the driver implements RtcRegisters: a call is one change; and, for *)
(* every date, alarm and temperature, that RtcTime reads what it wrote.    *)
(*                                                                         *)
(* The invariant says who holds what at which step: the lock of the port   *)
(* belongs to the one task that sets it up or drives the bus, and a mutex  *)
(* to a task between taking and giving it, for the device of its call.  As *)
(* nobody else changes the port then, its configuration is still the one   *)
(* of that device when the bus is driven.                                  *)
(*                                                                         *)
(* For the refinement a second invariant, CallInv, says what remains of a  *)
(* call at each step: a byte that a task has read is still what the        *)
(* register holds, but for the bits of the clock, as long as the task has  *)
(* the mutex, and its change is not made before it writes the register.    *)
(***************************************************************************)
EXTENDS RtcDriver, RtcTime, TLAPS, FiniteSetTheorems, FunctionTheorems

Steps == {"idle", "mutex", "lock", "setup", "bus", "give"}

TypeOK ==
  /\ mutex \in [Devices -> Tasks \union {None}]
  /\ pc \in [Tasks -> Steps]
  /\ call = [t \in Tasks |-> call[t]]
  /\ installed \in BOOLEAN /\ refused \in BOOLEAN

LockInv == \A t \in Tasks : lock = t <=> pc[t] \in {"setup", "bus"}

MutexInv ==
  \A t \in Tasks, d \in Devices :
    mutex[d] = t => d = Mine(t) /\ pc[t] \in {"lock", "setup", "bus", "give"}

DriverInv ==
  /\ installed => driver = config
  /\ driver # None /\ ~installed => refused

BusInv == \A t \in Tasks : pc[t] = "bus" => installed /\ config = Cfg[Mine(t)]

IInv == TypeOK /\ LockInv /\ MutexInv /\ DriverInv /\ BusInv

LEMMA NoneIsNoTask == \A t \in Tasks : t # None
BY ConstantsOK

-----------------------------------------------------------------------------

LEMMA InitInv == Init => IInv
<1> SUFFICES ASSUME Init PROVE IInv
  OBVIOUS
<1>1. TypeOK
  BY DEF Init, TypeOK, Steps
<1>2. LockInv /\ MutexInv
  BY NoneIsNoTask DEF Init, LockInv, MutexInv
<1>3. DriverInv /\ BusInv
  BY DEF Init, DriverInv, BusInv
<1> QED
  BY <1>1, <1>2, <1>3 DEF IInv

\* A task starts a call: it holds nothing then, so the device of its last call does
\* not matter.
LEMMA EnteredInv ==
  ASSUME IInv, NEW t \in Tasks, NEW d, NEW mode, NEW reg, NEW bits, NEW steps,
         Entered(t, d, mode, reg, bits, steps)
  PROVE  IInv'
<1>1. /\ pc[t] = "idle" /\ pc' = [pc EXCEPT ![t] = "mutex"]
      /\ \A u \in Tasks \ {t} : call'[u] = call[u] /\ pc'[u] = pc[u]
      /\ UNCHANGED <<mutex, lock, installed, config, driver, refused>>
  BY DEF Entered, Goto, port, IInv, TypeOK
<1>2. TypeOK'
  BY <1>1 DEF Entered, IInv, TypeOK, Steps
<1>3. pc'[t] = "mutex"
  BY <1>1 DEF IInv, TypeOK
<1>4. LockInv'
  BY <1>1, <1>3 DEF IInv, LockInv
<1>5. MutexInv'
  BY <1>1, <1>3 DEF IInv, MutexInv, Mine
<1>6. DriverInv' /\ BusInv'
  BY <1>1, <1>3 DEF IInv, DriverInv, BusInv, Mine
<1> QED
  BY <1>2, <1>4, <1>5, <1>6 DEF IInv

LEMMA EnterInv == ASSUME IInv, NEW t \in Tasks, Enter(t) PROVE IInv'
<1>1. PICK d \in Devices :
        \E mode, reg, bits, steps : Entered(t, d, mode, reg, bits, steps)
  BY DEF Enter, ds3231_set_flag, ds3231_get_flag,
         ds3231_get_oscillator_stop_flag, ds3231_clear_oscillator_stop_flag,
         ds3231_get_alarm_flags, ds3231_clear_alarm_flags,
         ds3231_enable_alarm_ints, ds3231_disable_alarm_ints,
         ds3231_enable_32khz, ds3231_disable_32khz,
         ds3231_enable_squarewave, ds3231_disable_squarewave,
         ds3231_set_squarewave_freq, ds3231_get_squarewave_freq,
         ds3231_set_aging_offset, ds3231_other
<1> QED
  BY <1>1, EnteredInv

\* A call ends: nobody is left with what it held.
LEMMA TakeMutexInv == ASSUME IInv, NEW t \in Tasks, i2c_dev_take_mutex(t) PROVE IInv'
<1>1. pc[t] = "mutex" /\ UNCHANGED <<lock, installed, config, driver, refused>>
  BY DEF i2c_dev_take_mutex, port
<1>2. /\ \A u \in Tasks \ {t} : call'[u] = call[u] /\ pc'[u] = pc[u]
      /\ pc'[t] \in {"lock", "idle"}
  BY <1>1 DEF i2c_dev_take_mutex, Goto, IInv, TypeOK
<1>3. TypeOK'
  BY <1>1 DEF i2c_dev_take_mutex, Goto, IInv, TypeOK, Steps
<1>4. LockInv'
  BY <1>1, <1>2 DEF IInv, LockInv
<1>5. MutexInv'
  <2>1. CASE mutex[Mine(t)] = None
    <3>1. /\ mutex' = [mutex EXCEPT ![Mine(t)] = t] /\ pc'[t] = "lock"
          /\ UNCHANGED call
      BY <1>1, <2>1 DEF i2c_dev_take_mutex, Goto, IInv, TypeOK
    <3> QED
      BY <1>1, <1>2, <3>1 DEF IInv, TypeOK, MutexInv, Mine
  <2>2. CASE mutex[Mine(t)] # None
    BY <1>1, <1>2, <2>2 DEF i2c_dev_take_mutex, IInv, MutexInv, Mine
  <2> QED
    BY <2>1, <2>2
<1>6. DriverInv' /\ BusInv'
  BY <1>1, <1>2 DEF IInv, DriverInv, BusInv, Mine
<1> QED
  BY <1>3, <1>4, <1>5, <1>6 DEF IInv

LEMMA TakeLockInv == ASSUME IInv, NEW t \in Tasks, SEMAPHORE_TAKE(t) PROVE IInv'
<1>1. pc[t] = "lock" /\ UNCHANGED <<mutex, installed, config, driver, refused, call>>
  BY DEF SEMAPHORE_TAKE
<1>2. /\ \A u \in Tasks \ {t} : pc'[u] = pc[u]
      /\ pc' \in [Tasks -> Steps]
      /\ \/ lock = None /\ lock' = t /\ pc'[t] = "setup"
         \/ UNCHANGED lock /\ pc'[t] = "give"
  BY DEF SEMAPHORE_TAKE, Failed, Goto, IInv, TypeOK, Steps
<1>3. TypeOK'
  BY <1>1, <1>2 DEF IInv, TypeOK
<1>4. LockInv'
  BY <1>1, <1>2, NoneIsNoTask DEF IInv, LockInv
<1>5. MutexInv'
  BY <1>1, <1>2 DEF IInv, MutexInv, Mine
<1>6. DriverInv' /\ BusInv'
  BY <1>1, <1>2 DEF IInv, DriverInv, BusInv, Mine
<1> QED
  BY <1>3, <1>4, <1>5, <1>6 DEF IInv

\* Whatever fails in between, the driver is the one that states[port] tells of.
LEMMA ReinstallInv ==
  ASSUME DriverInv, installed \in BOOLEAN, refused \in BOOLEAN, NEW cfg, Reinstall(cfg)
  PROVE  /\ DriverInv'
         /\ installed' \in BOOLEAN /\ refused' \in BOOLEAN
         /\ installed' => config' = cfg
BY DEF Reinstall, DriverInv

LEMMA SetupPortInv == ASSUME IInv, NEW t \in Tasks, i2c_setup_port(t) PROVE IInv'
<1>1. pc[t] = "setup" /\ UNCHANGED <<mutex, call>>
  BY DEF i2c_setup_port
<1>2. /\ \A u \in Tasks \ {t} : pc'[u] = pc[u]
      /\ pc' \in [Tasks -> Steps]
      /\ \/ installed' /\ pc'[t] = "bus" /\ UNCHANGED lock
         \/ pc'[t] = "give" /\ lock' = None
  BY DEF i2c_setup_port, Failed, Goto, IInv, TypeOK, Steps
<1>3. /\ DriverInv' /\ installed' \in BOOLEAN /\ refused' \in BOOLEAN
      /\ installed' => config' = Cfg[Mine(t)]
  <2>1. CASE ~cfg_equal(Cfg[Mine(t)], config) \/ ~installed
    <3>1. Reinstall(Cfg[Mine(t)])
      BY <2>1 DEF i2c_setup_port
    <3> QED
      BY <3>1, ReinstallInv DEF IInv, TypeOK
  <2>2. CASE cfg_equal(Cfg[Mine(t)], config) /\ installed
    BY <2>2 DEF i2c_setup_port, cfg_equal, IInv, TypeOK, DriverInv
  <2> QED
    BY <2>1, <2>2
<1>4. lock = t /\ \A u \in Tasks \ {t} : pc[u] \notin {"setup", "bus"}
  BY <1>1 DEF IInv, LockInv
<1>5. TypeOK'
  BY <1>1, <1>2, <1>3 DEF IInv, TypeOK
<1>6. LockInv'
  BY <1>2, <1>4, NoneIsNoTask DEF IInv, LockInv
<1>7. MutexInv'
  BY <1>1, <1>2 DEF IInv, MutexInv, Mine
<1>8. BusInv'
  BY <1>1, <1>2, <1>3, <1>4 DEF BusInv, Mine
<1> QED
  BY <1>3, <1>5, <1>6, <1>7, <1>8 DEF IInv

LEMMA BusStepInv == ASSUME IInv, NEW t \in Tasks, i2c_master_cmd_begin(t) PROVE IInv'
<1>1. /\ pc[t] = "bus" /\ lock' = None
      /\ UNCHANGED <<mutex, installed, config, driver, refused, call>>
  BY DEF i2c_master_cmd_begin
<1>2. /\ \A u \in Tasks \ {t} : pc'[u] = pc[u]
      /\ pc' \in [Tasks -> Steps]
      /\ pc'[t] \in {"lock", "give"}
  BY DEF i2c_master_cmd_begin, Failed, Goto, IInv, TypeOK, Steps
<1>3. TypeOK'
  BY <1>1, <1>2 DEF IInv, TypeOK
<1>4. LockInv'
  BY <1>1, <1>2, NoneIsNoTask DEF IInv, LockInv
<1>5. MutexInv'
  BY <1>1, <1>2 DEF IInv, MutexInv, Mine
<1>6. DriverInv' /\ BusInv'
  BY <1>1, <1>2 DEF IInv, DriverInv, BusInv, Mine
<1> QED
  BY <1>3, <1>4, <1>5, <1>6 DEF IInv

LEMMA GiveMutexInv == ASSUME IInv, NEW t \in Tasks, i2c_dev_give_mutex(t) PROVE IInv'
<1>1. /\ pc[t] = "give" /\ mutex' = [mutex EXCEPT ![Mine(t)] = None]
      /\ UNCHANGED <<lock, installed, config, driver, refused>>
  BY DEF i2c_dev_give_mutex, port
<1>2. /\ \A u \in Tasks \ {t} : call'[u] = call[u] /\ pc'[u] = pc[u]
      /\ pc' \in [Tasks -> Steps]
      /\ pc'[t] = "idle"
      /\ call' = [u \in Tasks |-> call'[u]]
  BY DEF i2c_dev_give_mutex, Goto, IInv, TypeOK, Steps
<1>3. TypeOK'
  BY <1>1, <1>2 DEF IInv, TypeOK
<1>4. LockInv'
  BY <1>1, <1>2 DEF IInv, LockInv
<1>5. MutexInv'
  BY <1>1, <1>2, NoneIsNoTask DEF IInv, TypeOK, MutexInv, Mine
<1>6. DriverInv' /\ BusInv'
  BY <1>1, <1>2 DEF IInv, DriverInv, BusInv, Mine
<1> QED
  BY <1>3, <1>4, <1>5, <1>6 DEF IInv

LEMMA NextInv == IInv /\ [Next]_vars => IInv'
<1> SUFFICES ASSUME IInv, [Next]_vars PROVE IInv'
  OBVIOUS
<1>1. ASSUME NEW t \in Tasks, Enter(t) PROVE IInv'
  BY <1>1, EnterInv
<1>2. ASSUME NEW t \in Tasks, Step(t) PROVE IInv'
  BY <1>2, TakeMutexInv, TakeLockInv, SetupPortInv, BusStepInv, GiveMutexInv
     DEF Step
<1>3. CASE UNCHANGED <<mutex, port, pc, call>>
  BY <1>3 DEF port, IInv, TypeOK, LockInv, MutexInv, DriverInv, BusInv, Mine
<1>4. ASSUME NEW d \in Devices, Rings(d) \/ Converted(d) PROVE IInv'
  BY <1>3, <1>4 DEF Rings, Converted
<1>5. CASE UNCHANGED vars
  BY <1>3, <1>5 DEF vars
<1> QED
  BY <1>1, <1>2, <1>4, <1>5 DEF Next

LEMMA Invariance == Spec => []IInv
BY InitInv, NextInv, PTL DEF Spec

-----------------------------------------------------------------------------
(* A call is one change of its register.                                   *)

RegisterNames == {"control", "status", "other"}
Requests == [dev : Devices, mode : {"get", "set", "clear", "freq"},
             reg : RegisterNames, bits : SUBSET (ControlBits \union StatusBits)]

\* What the functions of DS3231.c ask.
Request(c) ==
  /\ c \in Requests
  /\ c.reg = "other" => c.mode = "get"
  /\ c.reg = "status" => c.mode # "freq"
  /\ c.reg = "status" /\ c.mode = "set" => c.bits = {"32KHZ"}

\* By which transactions.
Program(c, steps) ==
  \/ c.mode = "get" /\ steps = <<Read(c.reg)>>
  \/ c.reg = "other" /\ steps = <<Write(c.reg)>>
  \/ c.mode \in {"set", "clear"} /\ steps = <<Read(c.reg), Write(c.reg)>>
  \/ /\ c.mode = "freq" /\ c.reg = "control"
     /\ steps = <<Read("control"), Read("ignored"), Write("control")>>
  \/ /\ c.mode = "set" /\ c.reg = "control"
     /\ steps = <<Write("aging"), Read("control"), Write("control")>>

\* The byte that a task has read is still what its register holds, but for the bits
\* of the clock: between its read and its write nobody else writes.
Fresh(t) ==
  /\ mutex[Mine(t)] = t
  /\ data[t] \ ClockBits = Contents(Mine(t), call[t].reg) \ ClockBits

\* The transactions that remain of a call.
Remaining(t) ==
  \/ Program(call[t], todo[t])
  \/ /\ Fresh(t) /\ call[t].mode # "get"
     /\ \/ todo[t] = <<Write(call[t].reg)>>
        \/ /\ call[t].mode = "freq" /\ call[t].reg = "control"
           /\ todo[t] = <<Read("ignored"), Write("control")>>

TaskInv(t) ==
  /\ pc[t] = "idle" => call[t] = NoCall /\ ~made[t]
  /\ pc[t] # "idle" => Request(call[t])
  /\ pc[t] \in {"mutex", "lock", "setup", "bus"} => ~made[t] /\ Remaining(t)
  /\ pc[t] \in {"lock", "setup", "bus", "give"} => mutex[Mine(t)] = t
  /\ pc[t] = "give" =>
       \/ result[t] = "error"
       \/ result[t] = "ok" /\ (made[t] \/ call[t].mode = "get")

FunctionsOK ==
  /\ made \in [Tasks -> BOOLEAN]
  /\ todo = [t \in Tasks |-> todo[t]] /\ data = [t \in Tasks |-> data[t]]
  /\ result = [t \in Tasks |-> result[t]]
  /\ control = [d \in Devices |-> control[d]] /\ status = [d \in Devices |-> status[d]]

CallInv == FunctionsOK /\ \A t \in Tasks : TaskInv(t)

\* NoCall stands for no call.
LEMMA NoCallIsNoRequest == \A c : Request(c) => c # NoCall
BY ConstantsOK DEF Request, Requests, RegisterNames

\* What a call asks, in the terms of RtcRegisters.
LEMMA AskedIsRequest ==
  ASSUME NEW t \in Tasks, Request(call[t])
  PROVE  /\ Asked(t) = [call[t] EXCEPT !.bits = @ \ ClockBits]
         /\ Asked(t) # NoCall
<1>1. Asked(t) = [call[t] EXCEPT !.bits = @ \ ClockBits]
  BY NoCallIsNoRequest DEF Asked
<1>2. Asked(t) \in Requests
  BY <1>1 DEF Request, Requests
<1> QED
  BY <1>1, <1>2, ConstantsOK DEF Requests, RegisterNames

\* The steps of one task leave the invariant of the others alone: none of them writes
\* to a register while another holds the mutex of its device.
LEMMA OthersKept ==
  ASSUME IInv, CallInv, NEW t \in Tasks, NEW u \in Tasks \ {t},
         pc'[u] = pc[u], call'[u] = call[u], todo'[u] = todo[u], data'[u] = data[u],
         result'[u] = result[u], made'[u] = made[u],
         \A d \in Devices : mutex[d] = u => mutex'[d] = u,
         \A d \in Devices, reg \in RegisterNames : mutex[d] = u =>
           Contents(d, reg)' \ ClockBits = Contents(d, reg) \ ClockBits
  PROVE  TaskInv(u)'
<1>1. TaskInv(u)
  BY DEF CallInv
<1>2. pc[u] # "idle" => call[u].dev \in Devices /\ call[u].reg \in RegisterNames
  BY <1>1 DEF TaskInv, Request, Requests
<1>3. pc[u] # "idle" /\ Fresh(u) => Fresh(u)'
  BY <1>2 DEF Fresh, Mine
<1>4. pc[u] # "idle" /\ Remaining(u) => Remaining(u)'
  BY <1>3 DEF Remaining
<1> QED
  BY <1>1, <1>2, <1>4 DEF TaskInv, Mine

\* Entering a function is the call of RtcRegisters.
LEMMA EnteredCall ==
  ASSUME IInv, CallInv, NEW t \in Tasks, NEW d, NEW mode, NEW reg, NEW bits, NEW steps,
         Request([dev |-> d, mode |-> mode, reg |-> reg, bits |-> bits]),
         Program([dev |-> d, mode |-> mode, reg |-> reg, bits |-> bits], steps),
         Entered(t, d, mode, reg, bits, steps)
  PROVE  CallInv' /\ Registers!Call(t)
<1> DEFINE c == [dev |-> d, mode |-> mode, reg |-> reg, bits |-> bits]
<1>1. /\ pc[t] = "idle" /\ pc' = [pc EXCEPT ![t] = "mutex"]
      /\ call' = [call EXCEPT ![t] = c] /\ todo' = [todo EXCEPT ![t] = steps]
      /\ result' = [result EXCEPT ![t] = "none"]
      /\ UNCHANGED <<mutex, control, status, made, data>>
  BY DEF Entered, Goto, registers
<1>2. call[t] = NoCall /\ ~made[t] /\ call'[t] = c /\ pc'[t] = "mutex" /\ todo'[t] = steps
  BY <1>1 DEF CallInv, FunctionsOK, TaskInv, IInv, TypeOK
<1>3. FunctionsOK'
  BY <1>1 DEF CallInv, FunctionsOK
<1>4. TaskInv(t)'
  BY <1>1, <1>2 DEF TaskInv, Remaining
<1>5. ASSUME NEW u \in Tasks \ {t} PROVE TaskInv(u)'
  <2>1. /\ pc'[u] = pc[u] /\ call'[u] = call[u] /\ todo'[u] = todo[u]
        /\ data'[u] = data[u] /\ result'[u] = result[u] /\ made'[u] = made[u]
    BY <1>1 DEF CallInv, FunctionsOK, IInv, TypeOK
  <2>2. \A e, r : Contents(e, r)' = Contents(e, r)
    BY <1>1 DEF Contents
  <2> QED
    BY <1>1, <2>1, <2>2, OthersKept
<1>6. Registers!Call(t)
  <2>1. c # NoCall
    BY NoCallIsNoRequest
  <2>2. Asked(t) = NoCall /\ Asked(t)' = [c EXCEPT !.bits = @ \ ClockBits]
    BY <1>2, <2>1 DEF Asked
  <2>3. Asked(t)' \in Registers!Effects
    BY <2>2 DEF Request, Requests, RegisterNames, Registers!Effects
  <2>4. Asking' = [Asking EXCEPT ![t] = Asked(t)'] /\ Asking'[t] = Asked(t)'
    BY <1>1 DEF Asking, Asked, IInv, TypeOK
  <2>5. Asking[t] = NoCall
    BY <2>2 DEF Asking
  <2>6. Answered' = [Answered EXCEPT ![t] = "none"]
    BY <1>1, <1>2, <2>1 DEF Answered, CallInv, FunctionsOK, IInv, TypeOK
  <2>7. UNCHANGED <<RegBits, made>>
    BY <1>1 DEF RegBits, Contents
  <2> QED
    BY <2>3, <2>4, <2>5, <2>6, <2>7, Zenon DEF Registers!Call
<1> QED
  BY <1>3, <1>4, <1>5, <1>6 DEF CallInv

\* What each function asks is a request, and its transactions are a program for it.
LEMMA EnterCall ==
  ASSUME IInv, CallInv, NEW t \in Tasks, Enter(t)
  PROVE  CallInv' /\ Registers!Call(t)
<1> USE DEF Request, Requests, RegisterNames, ControlBits, StatusBits, FreqBits, Program
<1>1. ASSUME NEW d \in Devices, NEW reg \in {"control", "status"},
             ds3231_get_flag(t, d, reg)
      PROVE  CallInv' /\ Registers!Call(t)
  <2> DEFINE c == [dev |-> d, mode |-> "get", reg |-> reg, bits |-> {}]
  <2>1. Request(c) /\ Program(c, <<Read(reg)>>)
    OBVIOUS
  <2> QED
    BY <1>1, <2>1, EnteredCall DEF ds3231_get_flag
<1>2. ASSUME NEW d \in Devices, NEW reg \in {"control", "status"},
             NEW mode \in {"set", "clear"},
             NEW bits \in SUBSET (ControlBits \union StatusBits),
             reg = "status" /\ mode = "set" => bits = {"32KHZ"},
             ds3231_set_flag(t, d, reg, bits, mode)
      PROVE  CallInv' /\ Registers!Call(t)
  <2> DEFINE c == [dev |-> d, mode |-> mode, reg |-> reg, bits |-> bits]
  <2>1. Request(c) /\ Program(c, <<Read(reg), Write(reg)>>)
    BY <1>2
  <2> QED
    BY <1>2, <2>1, EnteredCall DEF ds3231_set_flag
<1>3. ASSUME NEW d \in Devices, NEW freq \in SUBSET FreqBits,
             ds3231_set_squarewave_freq(t, d, freq)
      PROVE  CallInv' /\ Registers!Call(t)
  <2> DEFINE c == [dev |-> d, mode |-> "freq", reg |-> "control", bits |-> freq]
  <2>1. Request(c) /\ Program(c, <<Read("control"), Read("ignored"), Write("control")>>)
    OBVIOUS
  <2> QED
    BY <1>3, <2>1, EnteredCall DEF ds3231_set_squarewave_freq
<1>4. ASSUME NEW d \in Devices, ds3231_set_aging_offset(t, d)
      PROVE  CallInv' /\ Registers!Call(t)
  <2> DEFINE c == [dev |-> d, mode |-> "set", reg |-> "control", bits |-> {"TEMPCONV"}]
  <2>1. Request(c) /\ Program(c, <<Write("aging"), Read("control"), Write("control")>>)
    OBVIOUS
  <2> QED
    BY <1>4, <2>1, EnteredCall DEF ds3231_set_aging_offset
<1>5. ASSUME NEW d \in Devices, NEW op \in {"read", "write"}, ds3231_other(t, d, op)
      PROVE  CallInv' /\ Registers!Call(t)
  <2> DEFINE c == [dev |-> d, mode |-> "get", reg |-> "other", bits |-> {}]
  <2>1. Request(c) /\ Program(c, <<[op |-> op, reg |-> "other"]>>)
    BY DEF Read, Write
  <2> QED
    BY <1>5, <2>1, EnteredCall DEF ds3231_other
<1>6. PICK d \in Devices :
        \/ \E reg \in {"control", "status"} : ds3231_get_flag(t, d, reg)
        \/ \E reg \in {"control", "status"}, mode \in {"set", "clear"},
              bits \in SUBSET (ControlBits \union StatusBits) :
             /\ reg = "status" /\ mode = "set" => bits = {"32KHZ"}
             /\ ds3231_set_flag(t, d, reg, bits, mode)
        \/ \E freq \in SUBSET FreqBits : ds3231_set_squarewave_freq(t, d, freq)
        \/ ds3231_set_aging_offset(t, d)
        \/ \E op \in {"read", "write"} : ds3231_other(t, d, op)
  BY DEF Enter, ds3231_get_oscillator_stop_flag,
     ds3231_clear_oscillator_stop_flag,
         ds3231_get_alarm_flags, ds3231_clear_alarm_flags, ds3231_enable_alarm_ints,
         ds3231_disable_alarm_ints, ds3231_enable_32khz, ds3231_disable_32khz,
         ds3231_enable_squarewave, ds3231_disable_squarewave, ds3231_get_squarewave_freq
<1> QED
  BY <1>1, <1>2, <1>3, <1>4, <1>5, <1>6

\* A wait that ends without the mutex ends the call with an error; with the mutex,
\* nothing has happened yet.
LEMMA TakeMutexCall ==
  ASSUME IInv, CallInv, NEW t \in Tasks, i2c_dev_take_mutex(t)
  PROVE  CallInv' /\ (Registers!Return(t) \/ UNCHANGED Registers!vars)
<1>1. pc[t] = "mutex" /\ UNCHANGED <<control, status, made, data>>
  BY DEF i2c_dev_take_mutex, registers
<1>2. /\ Request(call[t]) /\ call[t] # NoCall /\ ~made[t] /\ Remaining(t)
      /\ Mine(t) \in Devices
  BY <1>1, NoCallIsNoRequest DEF CallInv, TaskInv, Request, Requests, Mine
<1>3. \A e, r : Contents(e, r)' = Contents(e, r)
  BY <1>1 DEF Contents
<1>4. FunctionsOK'
  BY <1>1 DEF i2c_dev_take_mutex, CallInv, FunctionsOK
<1>5. \A e \in Devices : \A u \in Tasks \ {t} : mutex[e] = u => mutex'[e] = u
  BY NoneIsNoTask DEF i2c_dev_take_mutex, IInv, TypeOK
<1>6. ASSUME NEW u \in Tasks \ {t} PROVE TaskInv(u)'
  <2>1. /\ pc'[u] = pc[u] /\ call'[u] = call[u] /\ todo'[u] = todo[u]
        /\ data'[u] = data[u] /\ result'[u] = result[u] /\ made'[u] = made[u]
    BY <1>1 DEF i2c_dev_take_mutex, Goto, CallInv, FunctionsOK, IInv, TypeOK
  <2> QED
    BY <1>3, <1>5, <2>1, OthersKept
<1>7. UNCHANGED <<RegBits, made>>
  BY <1>1 DEF RegBits, Contents
<1>8. CASE mutex[Mine(t)] = None
  <2>1. /\ mutex'[Mine(t)] = t /\ pc'[t] = "lock" /\ UNCHANGED <<call, todo, result>>
    BY <1>2, <1>8 DEF i2c_dev_take_mutex, Goto, IInv, TypeOK
  <2>2. ~Fresh(t)
    BY <1>8, NoneIsNoTask DEF Fresh
  <2>3. TaskInv(t)'
    BY <1>1, <1>2, <2>1, <2>2 DEF TaskInv, Remaining, Mine
  <2>4. UNCHANGED Registers!vars
    BY <1>7, <2>1 DEF Registers!vars, Asking, Asked, Answered
  <2> QED
    BY <1>4, <1>6, <2>3, <2>4 DEF CallInv
<1>9. CASE mutex[Mine(t)] # None
  <2>1. /\ call' = [call EXCEPT ![t] = NoCall] /\ result' = [result EXCEPT ![t] = "error"]
        /\ pc'[t] = "idle" /\ call'[t] = NoCall
    BY <1>9 DEF i2c_dev_take_mutex, Goto, IInv, TypeOK
  <2>2. TaskInv(t)'
    BY <1>1, <1>2, <2>1 DEF TaskInv
  <2>3. /\ Asking[t] # NoCall /\ Asking' = [Asking EXCEPT ![t] = NoCall]
        /\ Answered' = [Answered EXCEPT ![t] = "error"]
        /\ made' = [made EXCEPT ![t] = FALSE]
    <3>1. Asked(t) # NoCall
      BY <1>2, AskedIsRequest
    <3>2. Asking' = [Asking EXCEPT ![t] = NoCall]
      BY <2>1 DEF Asking, Asked, IInv, TypeOK
    <3>3. Answered' = [Answered EXCEPT ![t] = "error"]
      BY <2>1 DEF Answered, CallInv, FunctionsOK, IInv, TypeOK
    <3>4. made' = [made EXCEPT ![t] = FALSE]
      BY <1>1, <1>2 DEF CallInv, FunctionsOK
    <3> QED
      BY <3>1, <3>2, <3>3, <3>4 DEF Asking
  <2>4. Registers!Return(t)
    BY <1>7, <2>3 DEF Registers!Return
  <2> QED
    BY <1>4, <1>6, <2>2, <2>4 DEF CallInv
<1> QED
  BY <1>8, <1>9

\* Locking and setting up the port does not touch a register.
LEMMA PortCall ==
  ASSUME IInv, CallInv, NEW t \in Tasks, SEMAPHORE_TAKE(t) \/ i2c_setup_port(t)
  PROVE  CallInv' /\ UNCHANGED Registers!vars
<1>1. /\ pc[t] \in {"lock", "setup"}
      /\ UNCHANGED <<mutex, control, status, made, data, call, todo>>
      /\ \/ pc'[t] \in {"setup", "bus"} /\ UNCHANGED result
         \/ pc'[t] = "give" /\ result' = [result EXCEPT ![t] = "error"]
      /\ \A u \in Tasks \ {t} : pc'[u] = pc[u]
  BY DEF SEMAPHORE_TAKE, i2c_setup_port, Failed, Goto, registers, IInv, TypeOK
<1>2. Request(call[t]) /\ call[t] # NoCall
  BY <1>1, NoCallIsNoRequest DEF CallInv, TaskInv
<1>3. \A e, r : Contents(e, r)' = Contents(e, r)
  BY <1>1 DEF Contents
<1>4. FunctionsOK'
  BY <1>1 DEF CallInv, FunctionsOK
<1>5. ASSUME NEW u \in Tasks \ {t} PROVE TaskInv(u)'
  <2>1. result'[u] = result[u]
    BY <1>1 DEF CallInv, FunctionsOK
  <2> QED
    BY <1>1, <1>3, <2>1, OthersKept
<1>6. TaskInv(t)'
  <2>1. Fresh(t) => Fresh(t)'
    BY <1>1, <1>3 DEF Fresh, Mine
  <2>2. Remaining(t) => Remaining(t)'
    BY <1>1, <2>1 DEF Remaining
  <2>3. pc'[t] = "give" => result'[t] = "error"
    BY <1>1 DEF CallInv, FunctionsOK
  <2>4. ~made[t] /\ Remaining(t) /\ mutex[Mine(t)] = t
    BY <1>1 DEF CallInv, TaskInv
  <2>5. pc'[t] \in {"setup", "bus", "give"} /\ Mine(t)' = Mine(t)
    BY <1>1 DEF Mine
  <2> QED
    BY <1>1, <1>2, <2>2, <2>3, <2>4, <2>5 DEF TaskInv
<1>7. UNCHANGED Registers!vars
  <2>1. UNCHANGED Answered
    BY <1>1, <1>2 DEF Answered, CallInv, FunctionsOK
  <2> QED
    BY <1>1, <2>1 DEF Registers!vars, RegBits, Contents, Asking, Asked
<1> QED
  BY <1>4, <1>5, <1>6, <1>7 DEF CallInv

\* Lists of one, two and three transactions, and what tells transactions apart.
LEMMA ShortLists ==
  /\ \A a : Head(<<a>>) = a /\ Len(<<a>>) = 1
  /\ \A a, b : Head(<<a, b>>) = a /\ Tail(<<a, b>>) = <<b>> /\ Len(<<a, b>>) = 2
  /\ \A a, b, c : /\ Head(<<a, b, c>>) = a /\ Tail(<<a, b, c>>) = <<b, c>>
                  /\ Len(<<a, b, c>>) = 3
OBVIOUS

LEMMA Transactions ==
  /\ \A r : Read(r).op = "read" /\ Read(r).reg = r
  /\ \A r : Write(r).op = "write" /\ Write(r).reg = r
  /\ \A r, s : Read(r) # Write(s)
  /\ \A r, s : Read(r) = Read(s) => r = s
  /\ \A r, s : Write(r) = Write(s) => r = s
BY DEF Read, Write

\* The transactions of a call one after the other: the first one and the rest.
LEMMA NextTransaction ==
  ASSUME NEW t \in Tasks, Request(call[t]), Remaining(t)
  PROVE  LET c == call[t]
             next == Head(todo[t])
             rest == Tail(todo[t])
         IN  \/ c.mode = "get" /\ next = Read(c.reg) /\ Len(todo[t]) = 1
             \/ c.reg = "other" /\ next = Write(c.reg) /\ Len(todo[t]) = 1
             \/ /\ c.mode \in {"set", "clear"} /\ next = Read(c.reg)
                /\ Len(todo[t]) > 1 /\ rest = <<Write(c.reg)>>
             \/ /\ c.mode = "freq" /\ c.reg = "control" /\ next = Read("control")
                /\ Len(todo[t]) > 1 /\ rest = <<Read("ignored"), Write("control")>>
             \/ /\ c.mode = "freq" /\ c.reg = "control" /\ next = Read("ignored")
                /\ Len(todo[t]) > 1 /\ rest = <<Write("control")>> /\ Fresh(t)
             \/ /\ c.mode = "set" /\ c.reg = "control" /\ next = Write("aging")
                /\ Len(todo[t]) > 1 /\ rest = <<Read("control"), Write("control")>>
             \/ /\ c.mode # "get" /\ next = Write(c.reg) /\ Fresh(t) /\ Len(todo[t]) = 1
<1>1. ASSUME NEW a, todo[t] = <<a>>
      PROVE  Head(todo[t]) = a /\ Len(todo[t]) = 1
  BY <1>1, ShortLists
<1>2. ASSUME NEW a, NEW b, todo[t] = <<a, b>>
      PROVE  Head(todo[t]) = a /\ Tail(todo[t]) = <<b>> /\ Len(todo[t]) > 1
  BY <1>2, ShortLists
<1>3. ASSUME NEW a, NEW b, NEW c, todo[t] = <<a, b, c>>
      PROVE  Head(todo[t]) = a /\ Tail(todo[t]) = <<b, c>> /\ Len(todo[t]) > 1
  BY <1>3, ShortLists
<1>4. CASE Program(call[t], todo[t])
  BY <1>1, <1>2, <1>3, <1>4 DEF Program
<1>5. CASE ~Program(call[t], todo[t])
  BY <1>1, <1>2, <1>5 DEF Remaining
<1> QED
  BY <1>4, <1>5

\* A write of the call's own register is its change; another write is none.
LEMMA StoreChange ==
  ASSUME IInv, CallInv, NEW t \in Tasks, pc[t] = "bus", NEW reg, Store(t, reg),
         Head(todo[t]) = Write(reg)
  PROVE  /\ made' \in [Tasks -> BOOLEAN]
         /\ \A u \in Tasks \ {t} : made'[u] = made[u]
         /\ control' = [d \in Devices |-> control'[d]]
         /\ status' = [d \in Devices |-> status'[d]]
         /\ \A d \in Devices, r \in RegisterNames :
              d # Mine(t) => Contents(d, r)' = Contents(d, r)
         /\ IF reg = "aging"
            THEN UNCHANGED <<control, status, made>>
            ELSE /\ made' = [made EXCEPT ![t] = TRUE]
                 /\ RegBits' = [RegBits EXCEPT ![<<Mine(t), call[t].reg>>] =
                                  Registers!Effect(Asked(t), @)]
<1>1. Request(call[t]) /\ ~made[t] /\ Remaining(t)
  BY DEF CallInv, TaskInv
<1>2. PICK d, r, mode, bits :
        /\ d \in Devices /\ r \in RegisterNames /\ mode \in {"get", "set", "clear", "freq"}
        /\ call[t].dev = d /\ Mine(t) = d /\ call[t].reg = r
        /\ call[t].mode = mode /\ call[t].bits = bits
        /\ r = "status" => mode # "freq" /\ (mode = "set" => bits = {"32KHZ"})
  BY <1>1 DEF Request, Requests, Mine
<1>3. \/ reg = "aging" /\ r = "control"
      \/ reg = "other" /\ r = "other" /\ mode = "get"
      \/ reg = r /\ reg \in {"control", "status"} /\ Fresh(t) /\ mode # "get"
  <2>1. \/ r = "other" /\ Write(reg) = Write(r)
        \/ r = "control" /\ Write(reg) = Write("aging")
        \/ mode # "get" /\ Write(reg) = Write(r) /\ Fresh(t)
    BY <1>1, <1>2, NextTransaction, Transactions
  <2> QED
    BY <1>1, <1>2, <2>1, Transactions DEF Request, RegisterNames
<1>4. made' = [made EXCEPT ![t] = (reg = r)]
  BY <1>1, <1>2 DEF Store, CallInv, FunctionsOK
<1>5. /\ reg = "control" => /\ control' = [control EXCEPT ![d] = changed(t)]
                            /\ UNCHANGED status
      /\ reg = "status" => /\ status' = [status EXCEPT ![d] =
                                          changed(t) \intersect (@ \union {"32KHZ"})]
                           /\ UNCHANGED control
      /\ reg \notin {"control", "status"} => UNCHANGED <<control, status>>
  BY <1>1, <1>2 DEF Store
<1>6. /\ made' \in [Tasks -> BOOLEAN] /\ \A u \in Tasks \ {t} : made'[u] = made[u]
      /\ control' = [e \in Devices |-> control'[e]]
      /\ status' = [e \in Devices |-> status'[e]]
  BY <1>3, <1>4, <1>5 DEF CallInv, FunctionsOK
<1>7. \A e \in Devices, s \in RegisterNames : e # d => Contents(e, s)' = Contents(e, s)
  BY <1>3, <1>5 DEF Contents, CallInv, FunctionsOK, RegisterNames
<1>8. ASSUME reg # "aging"
      PROVE  RegBits' = [RegBits EXCEPT ![<<d, r>>] = Registers!Effect(Asked(t), @)]
  <2> DEFINE Old == Contents(d, r) \ ClockBits
             New == Contents(d, r)' \ ClockBits
  <2>1. Asked(t).mode = mode /\ Asked(t).bits = bits \ ClockBits
    BY <1>1, <1>2, AskedIsRequest DEF Request, Requests
  <2>2. New = Registers!Effect(Asked(t), Old)
    <3>1. CASE r = "other"
      BY <1>3, <1>8, <2>1, <3>1 DEF Registers!Effect, Contents
    <3>2. CASE r = "control"
      <4>1. New = changed(t) \ ClockBits /\ Old = data[t] \ ClockBits /\ mode # "get"
        BY <1>3, <1>1, <1>2, <1>5, <1>8, <3>2
           DEF Contents, Fresh, CallInv, FunctionsOK
      <4> QED
        BY <1>1, <1>2, <2>1, <4>1 DEF Registers!Effect, changed
    <3>3. CASE r = "status"
      <4>1. /\ New = (changed(t) \intersect (status[d] \union {"32KHZ"})) \ ClockBits
            /\ Old = data[t] \ ClockBits /\ Old = status[d] \ ClockBits
            /\ mode \in {"set", "clear"} /\ (mode = "set" => bits = {"32KHZ"})
        BY <1>3, <1>1, <1>2, <1>5, <1>8, <3>3
           DEF Contents, Fresh, CallInv, FunctionsOK, Request
      <4>2. CASE mode = "set"
        <5>1. changed(t) = data[t] \union {"32KHZ"} /\ "32KHZ" \notin ClockBits
          BY <1>2, <4>1, <4>2 DEF changed, ClockBits
        <5>2. Registers!Effect(Asked(t), Old) = Old \union {"32KHZ"}
          BY <2>1, <4>1, <4>2, <5>1 DEF Registers!Effect
        <5> QED
          BY <4>1, <5>1, <5>2
      <4>3. CASE mode = "clear"
        <5>1. changed(t) = data[t] \ bits
          BY <1>2, <4>3 DEF changed
        <5>2. Registers!Effect(Asked(t), Old) = Old \ bits
          BY <2>1, <4>1, <4>3 DEF Registers!Effect
        <5> QED
          BY <4>1, <5>1, <5>2
      <4> QED
        BY <4>1, <4>2, <4>3
    <3> QED
      BY <1>1, <1>2, <3>1, <3>2, <3>3 DEF RegisterNames
  <2>3. \A s \in RegisterNames : s # r => Contents(d, s)' = Contents(d, s)
    BY <1>3, <1>5, <1>8 DEF Contents, RegisterNames, CallInv, FunctionsOK
  <2>4. \A at \in Devices \X RegisterNames :
          RegBits'[at] = IF at = <<d, r>> THEN New ELSE RegBits[at]
    BY <1>7, <2>3 DEF RegBits, RegisterNames
  <2>5. RegBits[<<d, r>>] = Old
    BY <1>1, <1>2 DEF RegBits, RegisterNames
  <2> QED
    BY <1>1, <1>2, <2>2, <2>4, <2>5 DEF RegBits, RegisterNames
<1>9. reg = "aging" => UNCHANGED <<control, status, made>>
  BY <1>3, <1>1, <1>2, <1>4, <1>5 DEF CallInv, FunctionsOK
<1> QED
  BY <1>3, <1>1, <1>2, <1>4, <1>6, <1>7, <1>8, <1>9

\* The bus step of a call: its change is the write of its own register, also when the
\* transaction fails after the clock has taken it.
LEMMA BusStepCall ==
  ASSUME IInv, CallInv, NEW t \in Tasks, i2c_master_cmd_begin(t)
  PROVE  CallInv' /\ (Registers!Change(t) \/ UNCHANGED Registers!vars)
<1> DEFINE next == Head(todo[t])
<1>1. /\ pc[t] = "bus" /\ UNCHANGED <<mutex, call>>
      /\ \A u \in Tasks \ {t} : pc'[u] = pc[u]
  BY DEF i2c_master_cmd_begin, Goto, Failed, IInv, TypeOK
<1>2. PICK d \in Devices, r \in RegisterNames :
        d = Mine(t) /\ d = call[t].dev /\ r = call[t].reg
  BY <1>1 DEF CallInv, TaskInv, Request, Requests, Mine
<1>3. /\ Request(call[t]) /\ call[t] # NoCall /\ ~made[t] /\ Remaining(t) /\ mutex[d] = t
  BY <1>1, <1>2, NoCallIsNoRequest DEF CallInv, TaskInv
<1>4. \A u \in Tasks \ {t}, e \in Devices : mutex[e] = u => e # d
  BY <1>3
<1>5. ASSUME made' \in [Tasks -> BOOLEAN], \A u \in Tasks \ {t} : made'[u] = made[u],
             control' = [e \in Devices |-> control'[e]],
             status' = [e \in Devices |-> status'[e]],
             \A e \in Devices, s \in RegisterNames :
               e # d => Contents(e, s)' = Contents(e, s),
             TaskInv(t)'
      PROVE  CallInv'
  <2>1. /\ todo' = [u \in Tasks |-> todo'[u]] /\ data' = [u \in Tasks |-> data'[u]]
        /\ result' = [u \in Tasks |-> result'[u]]
        /\ \A u \in Tasks \ {t} :
             todo'[u] = todo[u] /\ data'[u] = data[u] /\ result'[u] = result[u]
    BY DEF i2c_master_cmd_begin, Failed, Fetch, CallInv, FunctionsOK
  <2>2. FunctionsOK'
    BY <1>5, <2>1 DEF FunctionsOK
  <2>3. ASSUME NEW u \in Tasks \ {t} PROVE TaskInv(u)'
    BY <1>1, <1>4, <1>5, <2>1, OthersKept
  <2> QED
    BY <1>5, <2>2, <2>3 DEF CallInv
<1>6. UNCHANGED <<Asking, Answered>>
  <2>1. \A u \in Tasks \ {t} : result'[u] = result[u]
    BY DEF i2c_master_cmd_begin, Failed, CallInv, FunctionsOK
  <2> QED
    BY <1>1, <1>3, <2>1 DEF Asking, Asked, Answered
<1>7. \/ call[t].mode = "get" /\ next = Read(r) /\ Len(todo[t]) = 1
      \/ r = "other" /\ call[t].mode = "get" /\ next = Write(r) /\ Len(todo[t]) = 1
      \/ /\ call[t].mode \in {"set", "clear"} /\ r # "other" /\ next = Read(r)
         /\ Len(todo[t]) > 1 /\ Tail(todo[t]) = <<Write(r)>>
      \/ /\ call[t].mode = "freq" /\ r = "control" /\ next = Read(r)
         /\ Len(todo[t]) > 1 /\ Tail(todo[t]) = <<Read("ignored"), Write("control")>>
      \/ /\ call[t].mode = "freq" /\ r = "control" /\ next = Read("ignored")
         /\ Len(todo[t]) > 1 /\ Tail(todo[t]) = <<Write("control")>> /\ Fresh(t)
      \/ /\ call[t].mode = "set" /\ r = "control" /\ next = Write("aging")
         /\ Len(todo[t]) > 1 /\ Tail(todo[t]) = <<Read("control"), Write("control")>>
      \/ call[t].mode # "get" /\ next = Write(r) /\ Fresh(t) /\ Len(todo[t]) = 1
  <2>1. r = "other" => call[t].mode = "get"
    BY <1>2, <1>3 DEF Request
  <2> QED
    BY <1>2, <1>3, <2>1, NextTransaction
<1> HIDE DEF next
<1>8. next.op = "write" => next = Write(next.reg)
  BY <1>7, Transactions
<1>9. next.op \in {"read", "write"}
  BY <1>7, Transactions
\* How the call goes on, once the transaction has been made.
<1>10. ASSUME todo'[t] = Tail(todo[t]),
             IF Len(todo[t]) > 1 THEN pc'[t] = "lock"
                                 ELSE pc'[t] = "give" /\ result'[t] = "ok",
             Len(todo[t]) > 1 => ~made'[t] /\ Remaining(t)',
             Len(todo[t]) = 1 => made'[t] \/ call[t].mode = "get"
      PROVE  TaskInv(t)'
  <2>1. Len(todo[t]) = 1 \/ Len(todo[t]) > 1
    BY <1>7
  <2> QED
    BY <1>1, <1>2, <1>3, <1>10, <2>1 DEF TaskInv, Mine
<1>11. ASSUME Failed(t) PROVE TaskInv(t)'
  <2>1. pc'[t] = "give" /\ result'[t] = "error"
    BY <1>11 DEF Failed, Goto, IInv, TypeOK, CallInv, FunctionsOK
  <2> QED
    BY <1>1, <1>2, <1>3, <2>1 DEF TaskInv, Mine
<1>12. ASSUME UNCHANGED registers, TaskInv(t)'
       PROVE  CallInv' /\ UNCHANGED Registers!vars
  <2>1. /\ UNCHANGED <<control, status, made>>
        /\ \A e, s : Contents(e, s)' = Contents(e, s)
    BY <1>12 DEF registers, Contents
  <2>2. CallInv'
    BY <1>5, <1>12, <2>1 DEF CallInv, FunctionsOK
  <2> QED
    BY <1>6, <2>1, <2>2 DEF Registers!vars, RegBits
<1>13. ASSUME Store(t, next.reg), next.op = "write", TaskInv(t)'
       PROVE  CallInv' /\ (Registers!Change(t) \/ UNCHANGED Registers!vars)
  <2>1. CASE next.reg = "aging"
    <3>1. UNCHANGED registers
      BY <1>1, <1>13, <1>8, <2>1, StoreChange DEF registers, next
    <3> QED
      BY <1>12, <1>13, <3>1
  <2>2. CASE next.reg # "aging"
    <3>0. Head(todo[t]) = Write(next.reg)
      BY <1>8, <1>13 DEF next
    <3>1. /\ made' \in [Tasks -> BOOLEAN] /\ \A u \in Tasks \ {t} : made'[u] = made[u]
          /\ control' = [e \in Devices |-> control'[e]]
          /\ status' = [e \in Devices |-> status'[e]]
          /\ \A e \in Devices, s \in RegisterNames : e # d => Contents(e, s)' = Contents(e, s)
          /\ made' = [made EXCEPT ![t] = TRUE]
          /\ RegBits' = [RegBits EXCEPT ![<<d, r>>] = Registers!Effect(Asked(t), @)]
      <4>1. /\ made' \in [Tasks -> BOOLEAN] /\ \A u \in Tasks \ {t} : made'[u] = made[u]
            /\ control' = [e \in Devices |-> control'[e]]
            /\ status' = [e \in Devices |-> status'[e]]
            /\ \A e \in Devices, s \in RegisterNames :
                 e # Mine(t) => Contents(e, s)' = Contents(e, s)
        BY <1>1, <1>13, <3>0, StoreChange
      <4>2. /\ made' = [made EXCEPT ![t] = TRUE]
            /\ RegBits' = [RegBits EXCEPT ![<<Mine(t), call[t].reg>>] =
                             Registers!Effect(Asked(t), @)]
        BY <1>1, <1>13, <2>2, <3>0, StoreChange
      <4> QED
        BY <1>2, <4>1, <4>2
    <3>2. Asking[t] = Asked(t) /\ Asked(t) # NoCall /\ Asked(t).dev = d /\ Asked(t).reg = r
      BY <1>2, <1>3, AskedIsRequest DEF Asking, Request, Requests
    <3>3. Registers!Change(t)
      BY <1>3, <1>6, <3>1, <3>2 DEF Registers!Change
    <3> QED
      BY <1>5, <1>13, <3>1, <3>3
  <2> QED
    BY <2>1, <2>2
<1>14. ASSUME todo' = [todo EXCEPT ![t] = Tail(@)],
              IF Len(todo[t]) > 1
              THEN Goto(t, "lock") /\ UNCHANGED result
              ELSE Goto(t, "give") /\ result' = [result EXCEPT ![t] = "ok"]
       PROVE  /\ todo'[t] = Tail(todo[t])
              /\ IF Len(todo[t]) > 1 THEN pc'[t] = "lock"
                                     ELSE pc'[t] = "give" /\ result'[t] = "ok"
  BY <1>14 DEF Goto, IInv, TypeOK, CallInv, FunctionsOK
<1>15. CASE Failed(t) /\ (UNCHANGED registers \/ (next.op = "write" /\ Store(t, next.reg)))
  BY <1>11, <1>12, <1>13, <1>15
<1>16. CASE /\ todo' = [todo EXCEPT ![t] = Tail(@)]
            /\ next.op = "read" /\ Fetch(t, next.reg) /\ UNCHANGED registers
            /\ IF Len(todo[t]) > 1
               THEN Goto(t, "lock") /\ UNCHANGED result
               ELSE Goto(t, "give") /\ result' = [result EXCEPT ![t] = "ok"]
  <2>1. todo'[t] = Tail(todo[t]) /\ made'[t] = made[t]
    BY <1>14, <1>16 DEF registers
  <2>2. ASSUME next = Read(r), r # "other" PROVE Fresh(t)'
    <3>1. data'[t] = Contents(d, r)
      <4>1. next.reg = r /\ r \in {"control", "status"}
        BY <1>2, <2>2, Transactions DEF RegisterNames
      <4> QED
        BY <1>2, <1>16, <4>1 DEF Fetch, Contents, CallInv, FunctionsOK
    <3>2. Contents(d, r)' = Contents(d, r)
      BY <1>16 DEF registers, Contents
    <3> QED
      BY <1>1, <1>2, <1>3, <3>1, <3>2 DEF Fresh, Mine
  <2>3. ASSUME next = Read("ignored"), Fresh(t) PROVE Fresh(t)'
    <3>1. data'[t] = data[t]
      <4>1. next.reg = "ignored"
        BY <2>3, Transactions
      <4> QED
        BY <1>16, <4>1 DEF Fetch, CallInv, FunctionsOK
    <3>2. Contents(d, r)' = Contents(d, r)
      BY <1>16 DEF registers, Contents
    <3> QED
      BY <1>1, <1>2, <2>3, <3>1, <3>2 DEF Fresh, Mine
  <2>4. Len(todo[t]) > 1 => Remaining(t)'
    <3>1. next.op = "read" /\ next # Write(r) /\ next # Write("aging")
      BY <1>16, Transactions
    <3>2. Len(todo[t]) > 1 =>
            /\ call[t].mode # "get"
            /\ \/ next = Read(r) /\ r # "other"
               \/ next = Read("ignored") /\ Fresh(t)
            /\ \/ todo'[t] = <<Write(r)>>
               \/ /\ call[t].mode = "freq" /\ r = "control"
                  /\ todo'[t] = <<Read("ignored"), Write("control")>>
      <4>1. Len(todo[t]) = 1 => ~(Len(todo[t]) > 1)
        OBVIOUS
      <4> QED
        BY ONLY <1>7, <2>1, <3>1, <4>1, Zenon
    <3>3. Len(todo[t]) > 1 => Fresh(t)'
      BY <2>2, <2>3, <3>2
    <3> QED
      BY <1>1, <1>2, <3>2, <3>3 DEF Remaining
  <2>5. Len(todo[t]) = 1 => call[t].mode = "get"
    BY <1>7, <1>16, Transactions
  <2>6. TaskInv(t)'
    BY <1>3, <1>10, <1>14, <1>16, <2>1, <2>4, <2>5
  <2> QED
    BY <1>12, <1>16, <2>6
<1>17. CASE /\ todo' = [todo EXCEPT ![t] = Tail(@)]
            /\ next.op = "write" /\ Store(t, next.reg)
            /\ IF Len(todo[t]) > 1
               THEN Goto(t, "lock") /\ UNCHANGED result
               ELSE Goto(t, "give") /\ result' = [result EXCEPT ![t] = "ok"]
  <2>1. todo'[t] = Tail(todo[t])
    BY <1>14, <1>17
  <2>2. IF next.reg = "aging" THEN UNCHANGED made ELSE made' = [made EXCEPT ![t] = TRUE]
    BY <1>1, <1>17, <1>8, StoreChange DEF next
  <2>3. Len(todo[t]) > 1 => ~made'[t] /\ Remaining(t)'
    <3>1. Len(todo[t]) > 1 =>
            /\ next = Write("aging") /\ call[t].mode = "set" /\ r = "control"
            /\ todo'[t] = <<Read("control"), Write("control")>>
      <4>1. next.op = "write" /\ next # Read(r) /\ next # Read("ignored")
        BY <1>17, Transactions
      <4>2. Len(todo[t]) = 1 => ~(Len(todo[t]) > 1)
        OBVIOUS
      <4> QED
        BY ONLY <1>7, <2>1, <4>1, <4>2, Zenon
    <3>2. Len(todo[t]) > 1 => ~made'[t]
      BY <1>3, <2>2, <3>1, Transactions
    <3> QED
      BY <1>1, <1>2, <3>1, <3>2 DEF Remaining, Program
  <2>4. Len(todo[t]) = 1 => made'[t]
    <3>1. Len(todo[t]) = 1 => next = Write(r)
      BY <1>7, <1>17, Transactions
    <3> QED
      BY <1>2, <2>2, <3>1, Transactions
         DEF RegisterNames, CallInv, FunctionsOK
  <2>5. TaskInv(t)'
    BY <1>10, <1>14, <1>17, <2>1, <2>3, <2>4
  <2> QED
    BY <1>13, <1>17, <2>5
<1> QED
  BY <1>15, <1>16, <1>17, <1>9 DEF i2c_master_cmd_begin, next

\* A function returns: ESP_OK only when its change is made.
LEMMA GiveMutexCall ==
  ASSUME IInv, CallInv, NEW t \in Tasks, i2c_dev_give_mutex(t)
  PROVE  CallInv' /\ Registers!Return(t)
<1>1. /\ pc[t] = "give" /\ mutex' = [mutex EXCEPT ![Mine(t)] = None]
      /\ pc' = [pc EXCEPT ![t] = "idle"] /\ call' = [call EXCEPT ![t] = NoCall]
      /\ todo' = [todo EXCEPT ![t] = <<>>] /\ data' = [data EXCEPT ![t] = {}]
      /\ made' = [made EXCEPT ![t] = FALSE]
      /\ UNCHANGED <<control, status, result>>
  BY DEF i2c_dev_give_mutex, Goto
<1>2. /\ Request(call[t]) /\ call[t] # NoCall /\ mutex[Mine(t)] = t
      /\ \/ result[t] = "error"
         \/ result[t] = "ok" /\ (made[t] \/ call[t].mode = "get")
  BY <1>1, NoCallIsNoRequest DEF CallInv, TaskInv
<1>3. \A e, r : Contents(e, r)' = Contents(e, r)
  BY <1>1 DEF Contents
<1>4. FunctionsOK'
  BY <1>1 DEF CallInv, FunctionsOK
<1>5. TaskInv(t)'
  BY <1>1 DEF TaskInv, IInv, TypeOK, CallInv, FunctionsOK
<1>6. ASSUME NEW u \in Tasks \ {t} PROVE TaskInv(u)'
  <2>1. /\ pc'[u] = pc[u] /\ call'[u] = call[u] /\ todo'[u] = todo[u]
        /\ data'[u] = data[u] /\ result'[u] = result[u] /\ made'[u] = made[u]
    BY <1>1 DEF CallInv, FunctionsOK, IInv, TypeOK
  <2>2. \A e \in Devices : mutex[e] = u => mutex'[e] = u
    BY <1>1, <1>2 DEF IInv, TypeOK
  <2> QED
    BY <1>3, <2>1, <2>2, OthersKept
<1>7. Registers!Return(t)
  <2>1. Asked(t) # NoCall /\ Asked(t).mode = call[t].mode
    BY <1>2, AskedIsRequest DEF Request, Requests
  <2>2. Asking[t] = Asked(t) /\ Asking' = [Asking EXCEPT ![t] = NoCall]
    BY <1>1 DEF Asking, Asked, IInv, TypeOK
  <2>3. Answered' = [Answered EXCEPT ![t] = result[t]]
    BY <1>1 DEF Answered, IInv, TypeOK
  <2>4. UNCHANGED RegBits
    BY <1>1 DEF RegBits, Contents
  <2> QED
    BY <1>1, <1>2, <2>1, <2>2, <2>3, <2>4 DEF Registers!Return
<1> QED
  BY <1>4, <1>5, <1>6, <1>7 DEF CallInv

\* What the clock changes is none of the bits that are asked for.
LEMMA ClockKeepsRegisters ==
  ASSUME IInv, CallInv, NEW d \in Devices, Rings(d) \/ Converted(d)
  PROVE  CallInv' /\ UNCHANGED Registers!vars
<1>1. /\ UNCHANGED <<mutex, made, pc, call, todo, data, result>>
      /\ control' \in {control, [control EXCEPT ![d] = @ \ {"TEMPCONV"}]}
      /\ status' \in {status, [status EXCEPT ![d] = @ \union {"ALARM_1"}]}
  BY DEF Rings, Converted
<1>2. FunctionsOK'
  BY <1>1 DEF CallInv, FunctionsOK
<1>3. \A e \in Devices, r \in RegisterNames :
        Contents(e, r)' \ ClockBits = Contents(e, r) \ ClockBits
  <2>1. \A e \in Devices : control'[e] \ ClockBits = control[e] \ ClockBits
    BY <1>1 DEF ClockBits, CallInv, FunctionsOK
  <2>2. \A e \in Devices : status'[e] \ ClockBits = status[e] \ ClockBits
    BY <1>1 DEF ClockBits, CallInv, FunctionsOK
  <2> QED
    BY <2>1, <2>2 DEF Contents, RegisterNames
<1>4. ASSUME NEW t \in Tasks PROVE TaskInv(t)'
  <2>1. TaskInv(t)
    BY DEF CallInv
  <2>2. pc[t] # "idle" => call[t].dev \in Devices /\ call[t].reg \in RegisterNames
    BY <2>1 DEF TaskInv, Request, Requests
  <2>3. pc[t] # "idle" /\ Remaining(t) => Remaining(t)'
    BY <1>1, <1>3, <2>2 DEF Remaining, Fresh, Mine
  <2> QED
    BY <1>1, <2>1, <2>3 DEF TaskInv, Mine
<1>5. UNCHANGED RegBits
  BY <1>3 DEF RegBits, RegisterNames
<1> QED
  BY <1>1, <1>2, <1>4, <1>5
     DEF CallInv, Registers!vars, Asking, Asked, Answered

\* The clocks start with bits of the registers, and nothing is asked.
LEMMA InitCall == Init => CallInv /\ Registers!Init
<1> SUFFICES ASSUME Init PROVE CallInv /\ Registers!Init
  OBVIOUS
<1>1. CallInv
  BY DEF Init, CallInv, FunctionsOK, TaskInv
<1>2. RegBits \in [Devices \X {"control", "status", "other"} ->
                    SUBSET ((ControlBits \union StatusBits) \ ClockBits)]
  <2>1. ASSUME NEW d \in Devices, NEW r \in RegisterNames
        PROVE  Contents(d, r) \in SUBSET (ControlBits \union StatusBits)
    BY <2>1 DEF Init, Contents, RegisterNames, ControlBits, StatusBits
  <2> QED
    BY <2>1 DEF RegBits, RegisterNames
<1>3. Asking = [t \in Tasks |-> NoCall] /\ Answered = [t \in Tasks |-> "none"]
  BY DEF Init, Asking, Asked, Answered
<1>4. Registers!Init
  BY <1>2, <1>3 DEF Init, Registers!Init
<1> QED
  BY <1>1, <1>4

\* Every step of the driver is a call, a change or a return of RtcRegisters, or none.
LEMMA StepIsRegisters ==
  IInv /\ CallInv /\ [Next]_vars => CallInv' /\ [Registers!Next]_(Registers!vars)
<1> SUFFICES ASSUME IInv, CallInv, [Next]_vars
             PROVE  CallInv' /\ [Registers!Next]_(Registers!vars)
  OBVIOUS
<1>1. ASSUME NEW t \in Tasks, Enter(t) \/ Step(t)
      PROVE  /\ CallInv'
             /\ \/ Registers!Call(t) \/ Registers!Change(t) \/ Registers!Return(t)
                \/ UNCHANGED Registers!vars
  BY <1>1, EnterCall, TakeMutexCall, PortCall, BusStepCall, GiveMutexCall
     DEF Step
<1>2. ASSUME NEW d \in Devices, Rings(d) \/ Converted(d)
      PROVE  CallInv' /\ UNCHANGED Registers!vars
  BY <1>2, ClockKeepsRegisters
<1>3. CASE UNCHANGED vars
  <2>1. UNCHANGED <<mutex, control, status, made, pc, call, todo, data, result>>
    BY <1>3 DEF vars, registers
  <2>2. CallInv'
    <3>1. FunctionsOK'
      BY <2>1 DEF CallInv, FunctionsOK
    <3>2. \A e, s : Contents(e, s)' = Contents(e, s)
      BY <2>1 DEF Contents
    <3>3. ASSUME NEW t \in Tasks PROVE TaskInv(t)'
      <4>1. Remaining(t)' = Remaining(t) /\ Fresh(t)' = Fresh(t) /\ Mine(t)' = Mine(t)
        BY <2>1, <3>2 DEF Remaining, Fresh, Mine
      <4> QED
        BY <2>1, <4>1 DEF CallInv, TaskInv
    <3> QED
      BY <3>1, <3>3 DEF CallInv
  <2>3. UNCHANGED <<RegBits, Asking, Answered>>
    BY <2>1 DEF Contents, RegBits, Asking, Asked, Answered
  <2> QED
    BY <2>1, <2>2, <2>3 DEF Registers!vars
<1> QED
  BY <1>1, <1>2, <1>3 DEF Next, Registers!Next

-----------------------------------------------------------------------------
(* RtcTime: what is written to the clock and read back.                    *)

\* Two decimal digits survive the registers, and small ones leave the flags alone.
LEMMA Bcd ==
  ASSUME NEW v \in 0 .. 99
  PROVE  /\ dec2bcd(v) \in 0 .. 153 /\ bcd2dec(dec2bcd(v)) = v
         /\ v < 80 => dec2bcd(v) < 128
         /\ v < 40 => dec2bcd(v) < 64
         /\ v < 20 => dec2bcd(v) < 32
BY DEF dec2bcd, bcd2dec

\* The first of these by itself.
LEMMA BcdBack == \A v \in 0 .. 99 : bcd2dec(dec2bcd(v)) = v
BY Bcd

\* The flags of a byte.
LEMMA SmallBytes ==
  ASSUME NEW byte \in Nat
  PROVE  /\ byte < 128 => And(byte, 128) = 0
         /\ byte < 64 => And(byte, 64) = 0
         /\ byte < 32 => byte % 32 = byte
         /\ And(128, 128) = 128
BY DEF And

\* A field that is given matches its value, one that is not matches all.
LEMMA FieldMatches ==
  ASSUME NEW rate \in Nat, NEW from \in Nat, NEW val \in 0 .. 59, NEW now \in 0 .. 59
  PROVE  Masked(Field(rate >= from, val)) \/ Field(rate >= from, val) = dec2bcd(now)
           <=> (rate >= from => now = val)
<1> DEFINE given == rate >= from
<1>1. CASE given
  <2>1. Field(given, val) = dec2bcd(val) /\ dec2bcd(val) \in Nat /\ dec2bcd(val) < 128
    <3>1. val \in 0 .. 99 /\ val < 80
      OBVIOUS
    <3>2. dec2bcd(val) \in 0 .. 153 /\ dec2bcd(val) < 128
      BY <3>1, Bcd
    <3> QED
      BY <1>1, <3>2 DEF Field
  <2>2. ~Masked(Field(given, val))
    BY <2>1, SmallBytes DEF Masked
  <2>3. dec2bcd(val) = dec2bcd(now) => val = now
    <3>0. val \in 0 .. 99 /\ now \in 0 .. 99
      OBVIOUS
    <3>1. bcd2dec(dec2bcd(val)) = val /\ bcd2dec(dec2bcd(now)) = now
      BY ONLY <3>0, BcdBack, Zenon
    <3> QED
      BY <3>1
  <2> QED
    BY <1>1, <2>1, <2>2, <2>3
<1>2. CASE ~given
  BY <1>2, SmallBytes DEF Field, NotSet, Masked
<1> QED
  BY <1>1, <1>2

\* A day that is given matches on that day of the month, one that is not on all.
LEMMA DayMatched ==
  ASSUME NEW at \in Struct, NEW now \in Struct, NEW rate, NEW monthly,
         NEW day, day = IF rate = monthly THEN dec2bcd(at.mday) ELSE NotSet
  PROVE  DayMatches(day, now) <=> (rate = monthly => now.mday = at.mday)
<1>0. at.mday \in 1 .. 31 /\ now.mday \in 1 .. 31
  BY DEF Struct
<1>1. CASE rate = monthly
  <2>1. day = dec2bcd(at.mday) /\ dec2bcd(at.mday) \in Nat /\ dec2bcd(at.mday) < 64
    <3>1. at.mday \in 0 .. 99 /\ at.mday < 40
      BY <1>0
    <3>2. dec2bcd(at.mday) \in 0 .. 153 /\ dec2bcd(at.mday) < 64
      BY <3>1, Bcd
    <3> QED
      BY <1>1, <3>2
  <2>2. And(dec2bcd(at.mday), 128) = 0 /\ And(dec2bcd(at.mday), 64) = 0
    BY <2>1, SmallBytes
  <2>3. dec2bcd(at.mday) = dec2bcd(now.mday) => at.mday = now.mday
    <3>0. at.mday \in 0 .. 99 /\ now.mday \in 0 .. 99
      BY ONLY <1>0
    <3>1. bcd2dec(dec2bcd(at.mday)) = at.mday /\ bcd2dec(dec2bcd(now.mday)) = now.mday
      BY ONLY <3>0, BcdBack, Zenon
    <3> QED
      BY <3>1
  <2> QED
    BY <1>1, <2>1, <2>2, <2>3 DEF DayMatches, Masked
<1>2. CASE rate # monthly
  BY <1>2, SmallBytes DEF NotSet, DayMatches, Masked
<1> QED
  BY <1>1, <1>2

\* The registers of an alarm are those of the last one that was set.
AlarmInv ==
  /\ asked1 # Nothing =>
       /\ asked1.time \in AlarmTimes /\ asked1.option \in Options1
       /\ alarm1 = alarm1_data(asked1.time, asked1.option)
  /\ asked2 # Nothing =>
       /\ asked2.time \in AlarmTimes /\ asked2.option \in Options2
       /\ alarm2 = alarm2_data(asked2.time, asked2.option)

\* Neither alarm disturbs the registers of the other.
LEMMA AlarmNext == AlarmInv /\ [TimeNext]_timeVars => AlarmInv'
<1> SUFFICES ASSUME AlarmInv, [TimeNext]_timeVars PROVE AlarmInv'
  OBVIOUS
<1>1. CASE UNCHANGED <<alarm1, alarm2, asked1, asked2>>
  BY <1>1 DEF AlarmInv
<1>2. CASE Alarms
  <2>1. ASSUME NEW alarms, NEW time1, NEW option1, NEW time2, NEW option2,
               ds3231_set_alarm(alarms, time1, option1, time2, option2),
               "ALARM_1" \in alarms => time1 \in AlarmTimes /\ option1 \in Options1,
               "ALARM_2" \in alarms => time2 \in AlarmTimes /\ option2 \in Options2
        PROVE  AlarmInv'
    BY <2>1 DEF ds3231_set_alarm, AlarmInv
  <2> QED
    BY <1>2, <2>1 DEF Alarms
<1> QED
  BY <1>1, <1>2
     DEF TimeNext, Clock, Sensor, ds3231_set_time, ds3231_get_time, Measure,
                    ds3231_get_raw_temp, timeVars

\* Field by field, the registers match the times that the rate means.
LEMMA AlarmInvImplies == AlarmInv => AlarmsAsSet
<1> SUFFICES ASSUME AlarmInv, NEW now \in AlarmTimes
             PROVE  /\ asked1 # Nothing /\ asked1.option # 4 =>
                         (Fires1(now) <=> Meant1(now))
                    /\ asked2 # Nothing /\ asked2.option # 3 =>
                         (Fires2(now) <=> Meant2(now))
  BY DEF AlarmsAsSet
<1>1. now \in Struct /\ now.sec \in 0 .. 59 /\ now.min \in 0 .. 59 /\ now.hour \in 0 .. 59
  BY TimesOK DEF Struct
<1>2. ASSUME asked1 # Nothing, asked1.option # 4 PROVE Fires1(now) <=> Meant1(now)
  <2>0. asked1.time \in Struct /\ asked1.option \in 0 .. 5
    <3>1. asked1.time \in AlarmTimes /\ asked1.option \in Options1
      BY <1>2 DEF AlarmInv
    <3>2. AlarmTimes \subseteq Struct /\ Options1 \subseteq 0 .. 5
      BY TimesOK
    <3> QED
      BY ONLY <3>1, <3>2
  <2>1. PICK at \in Struct, rate \in 0 .. 5 : asked1.time = at /\ asked1.option = rate
    BY ONLY <2>0
  <2>2. at.sec \in 0 .. 59 /\ at.min \in 0 .. 59 /\ at.hour \in 0 .. 59
    BY DEF Struct
  <2>n. rate \in Nat /\ 1 \in Nat /\ 2 \in Nat /\ 3 \in Nat
    OBVIOUS
  <2>3. /\ alarm1[1] = Field(rate >= 1, at.sec) /\ alarm1[2] = Field(rate >= 2, at.min)
        /\ alarm1[3] = Field(rate >= 3, at.hour) /\ alarm1[4] = Day(at, rate = 4, rate = 5)
    BY <1>2, <2>1 DEF AlarmInv, alarm1_data
  <2>4. rate # 4
    BY <1>2, <2>1
  <2>5. Masked(alarm1[1]) \/ alarm1[1] = dec2bcd(now.sec)
          <=> (rate >= 1 => now.sec = at.sec)
    <3>1. Masked(Field(rate >= 1, at.sec)) \/ Field(rate >= 1, at.sec) = dec2bcd(now.sec)
            <=> (rate >= 1 => now.sec = at.sec)
      BY ONLY <1>1, <2>2, <2>n, FieldMatches
    <3> QED
      BY ONLY <2>3, <3>1
  <2>6. Masked(alarm1[2]) \/ alarm1[2] = dec2bcd(now.min)
          <=> (rate >= 2 => now.min = at.min)
    <3>1. Masked(Field(rate >= 2, at.min)) \/ Field(rate >= 2, at.min) = dec2bcd(now.min)
            <=> (rate >= 2 => now.min = at.min)
      BY ONLY <1>1, <2>2, <2>n, FieldMatches
    <3> QED
      BY ONLY <2>3, <3>1
  <2>7. Masked(alarm1[3]) \/ alarm1[3] = dec2bcd(now.hour)
          <=> (rate >= 3 => now.hour = at.hour)
    <3>1. Masked(Field(rate >= 3, at.hour)) \/ Field(rate >= 3, at.hour) = dec2bcd(now.hour)
            <=> (rate >= 3 => now.hour = at.hour)
      BY ONLY <1>1, <2>2, <2>n, FieldMatches
    <3> QED
      BY ONLY <2>3, <3>1
  <2>8. DayMatches(alarm1[4], now) <=> (rate = 5 => now.mday = at.mday)
    <3>1. alarm1[4] = IF rate = 5 THEN dec2bcd(at.mday) ELSE NotSet
      BY <2>3, <2>4 DEF Day
    <3> QED
      BY <1>1, <3>1, DayMatched
  <2> QED
    BY <2>1, <2>4, <2>5, <2>6, <2>7, <2>8 DEF Fires1, Meant1
<1>3. ASSUME asked2 # Nothing, asked2.option # 3 PROVE Fires2(now) <=> Meant2(now)
  <2>0. asked2.time \in Struct /\ asked2.option \in 0 .. 4
    <3>1. asked2.time \in AlarmTimes /\ asked2.option \in Options2
      BY <1>3 DEF AlarmInv
    <3>2. AlarmTimes \subseteq Struct /\ Options2 \subseteq 0 .. 4
      BY TimesOK
    <3> QED
      BY ONLY <3>1, <3>2
  <2>1. PICK at \in Struct, rate \in 0 .. 4 : asked2.time = at /\ asked2.option = rate
    BY ONLY <2>0
  <2>2. at.min \in 0 .. 59 /\ at.hour \in 0 .. 59
    BY DEF Struct
  <2>n. rate \in Nat /\ 1 \in Nat /\ 2 \in Nat
    OBVIOUS
  <2>3. /\ alarm2[1] = Field(rate >= 1, at.min) /\ alarm2[2] = Field(rate >= 2, at.hour)
        /\ alarm2[3] = Day(at, rate = 3, rate = 4)
    BY <1>3, <2>1 DEF AlarmInv, alarm2_data
  <2>4. rate # 3
    BY <1>3, <2>1
  <2>5. Masked(alarm2[1]) \/ alarm2[1] = dec2bcd(now.min)
          <=> (rate >= 1 => now.min = at.min)
    <3>1. Masked(Field(rate >= 1, at.min)) \/ Field(rate >= 1, at.min) = dec2bcd(now.min)
            <=> (rate >= 1 => now.min = at.min)
      BY ONLY <1>1, <2>2, <2>n, FieldMatches
    <3> QED
      BY ONLY <2>3, <3>1
  <2>6. Masked(alarm2[2]) \/ alarm2[2] = dec2bcd(now.hour)
          <=> (rate >= 2 => now.hour = at.hour)
    <3>1. Masked(Field(rate >= 2, at.hour)) \/ Field(rate >= 2, at.hour) = dec2bcd(now.hour)
            <=> (rate >= 2 => now.hour = at.hour)
      BY ONLY <1>1, <2>2, <2>n, FieldMatches
    <3> QED
      BY ONLY <2>3, <3>1
  <2>7. DayMatches(alarm2[3], now) <=> (rate = 4 => now.mday = at.mday)
    <3>1. alarm2[3] = IF rate = 4 THEN dec2bcd(at.mday) ELSE NotSet
      BY <2>3, <2>4 DEF Day
    <3> QED
      BY <1>1, <3>1, DayMatched
  <2> QED
    BY <2>1, <2>4, <2>5, <2>6, <2>7 DEF Fires2, Meant2
<1> QED
  BY <1>2, <1>3

\* The days before the first of each month.
Passed(leap, m) ==
  (IF leap THEN <<0, 31, 60, 91, 121, 152, 182, 213, 244, 274, 305, 335>>
           ELSE <<0, 31, 59, 90, 120, 151, 181, 212, 243, 273, 304, 334>>)[m]

DaysIn(leap, m) == DaysPerMonth(leap)[m]

\* The next month begins when this one is over.
LEMMA MonthsAdd ==
  ASSUME NEW leap \in BOOLEAN, NEW i \in 1 .. 11
  PROVE  /\ DaysIn(leap, i) \in 28 .. 31
         /\ Passed(leap, i) \in Nat
         /\ Passed(leap, i + 1) = Passed(leap, i) + DaysIn(leap, i)
<1>1. i \in {1, 2, 3, 4, 5, 6, 7, 8, 9, 10, 11}
  OBVIOUS
<1> QED
  BY <1>1 DEF Passed, DaysIn, DaysPerMonth

\* The loop of days_since_january_1st adds up to that.
LEMMA DaysSince ==
  ASSUME NEW year \in Nat, NEW month \in 0 .. 11, NEW day \in Int
  PROVE  days_since_january_1st(year, month, day) = day - 1 + Passed(Leap(year), month + 1)
<1> DEFINE leap == Leap(year)
           D == DaysPerMonth(leap)
           P(m) == Passed(leap, m)
           before[i \in 0 .. month] == IF i = 0 THEN 0 ELSE before[i - 1] + D[i]
<1>1. leap \in BOOLEAN
  BY DEF Leap
<1>2. \A i \in 0 .. month : i # 0 =>
        i \in 1 .. 11 /\ i - 1 \in 0 .. month /\ P(i + 1) = P(i) + D[i]
  BY <1>1, MonthsAdd DEF DaysIn
<1>3. P(1) = 0
  BY DEF Passed
<1> HIDE DEF D, P
<1>4. \E f : f = [i \in 0 .. month |-> IF i = 0 THEN 0 ELSE f[i - 1] + D[i]]
  <2> DEFINE f == [i \in 0 .. month |-> P(i + 1)]
  <2>1. f = [i \in 0 .. month |-> IF i = 0 THEN 0 ELSE f[i - 1] + D[i]]
    <3>1. ASSUME NEW i \in 0 .. month
          PROVE  P(i + 1) = IF i = 0 THEN 0 ELSE f[i - 1] + D[i]
      BY <1>2, <1>3
    <3> QED
      BY <3>1
  <2> QED
    BY <2>1
<1>5. before = [i \in 0 .. month |-> IF i = 0 THEN 0 ELSE before[i - 1] + D[i]]
  BY <1>4
<1> HIDE DEF before
<1>6. before[0] = 0 /\ \A i \in 1 .. month : before[i] = before[i - 1] + D[i]
  <2>1. before[0] = 0
    BY <1>5
  <2>2. ASSUME NEW i \in 1 .. month PROVE before[i] = before[i - 1] + D[i]
    BY <1>5
  <2> QED
    BY <2>1, <2>2
<1>7. before[month] = P(month + 1)
  <2>1. \A i \in 1 .. month : before[i - 1] = P(i) => before[i] = P(i + 1)
    BY <1>2, <1>6
  <2>2. before[0] = P(1)
    BY <1>3, <1>6
  <2>3. /\ 1 <= month => before[1] = P(2)
        /\ 2 <= month => before[2] = P(3)
        /\ 3 <= month => before[3] = P(4)
        /\ 4 <= month => before[4] = P(5)
    BY <2>1, <2>2
  <2>4. /\ 5 <= month => before[5] = P(6)
        /\ 6 <= month => before[6] = P(7)
        /\ 7 <= month => before[7] = P(8)
        /\ 8 <= month => before[8] = P(9)
    BY <2>1, <2>3
  <2>5. /\ 9 <= month => before[9] = P(10)
        /\ 10 <= month => before[10] = P(11)
        /\ 11 <= month => before[11] = P(12)
    BY <2>1, <2>4
  <2>6. month \in {0, 1, 2, 3, 4, 5, 6, 7, 8, 9, 10, 11}
    OBVIOUS
  <2> QED
    BY <2>2, <2>3, <2>4, <2>5, <2>6
<1> QED
  BY <1>7 DEF before, D, P, days_since_january_1st

\* Days of one month, and of the months before it.
Days == (1 .. 12) \X (1 .. 31)
OfMonth(m, n) == {x \in Days : x[1] = m /\ x[2] <= n}
Until(leap, m) == {x \in Days : x[1] < m /\ x[2] <= DaysIn(leap, x[1])}

\* They are so many.
LEMMA OfMonthCounts ==
  ASSUME NEW m \in 1 .. 12, NEW n \in 0 .. 31
  PROVE  IsFiniteSet(OfMonth(m, n)) /\ Cardinality(OfMonth(m, n)) = n
<1> DEFINE f == [d \in 1 .. n |-> <<m, d>>]
<1>1. IsFiniteSet(1 .. n) /\ Cardinality(1 .. n) = n
  <2>1. 1 \in Int /\ n \in Int
    OBVIOUS
  <2>2. IsFiniteSet(1 .. n) /\ Cardinality(1 .. n) = IF 1 > n THEN 0 ELSE n - 1 + 1
    BY <2>1, FS_Interval
  <2> QED
    BY <2>2
<1>2. f \in Bijection(1 .. n, OfMonth(m, n))
  <2>1. f \in [1 .. n -> OfMonth(m, n)]
    BY DEF OfMonth, Days
  <2>2. \A a, b \in 1 .. n : f[a] = f[b] => a = b
    OBVIOUS
  <2>3. ASSUME NEW x \in OfMonth(m, n) PROVE x[2] \in 1 .. n /\ f[x[2]] = x
    <3>1. x = <<m, x[2]>> /\ x[2] \in 1 .. n
      BY DEF OfMonth, Days
    <3> QED
      BY <3>1
  <2> QED
    BY <2>1, <2>2, <2>3, Fun_IsBij
<1> QED
  BY <1>1, <1>2, FS_Bijection DEF ExistsBijection

\* Counting month by month.
LEMMA UntilCounts ==
  ASSUME NEW leap \in BOOLEAN, NEW m \in 1 .. 12
  PROVE  IsFiniteSet(Until(leap, m)) /\ Cardinality(Until(leap, m)) = Passed(leap, m)
<1> DEFINE Counted(k) == /\ IsFiniteSet(Until(leap, k))
                         /\ Cardinality(Until(leap, k)) = Passed(leap, k)
<1>1. Counted(1)
  <2>1. Until(leap, 1) = {}
    BY DEF Until, Days
  <2> QED
    BY <2>1, FS_EmptySet DEF Passed
<1>2. ASSUME NEW k \in 1 .. 11, Counted(k) PROVE Counted(k + 1)
  <2> DEFINE n == DaysIn(leap, k)
  <2>1. n \in 28 .. 31 /\ Passed(leap, k + 1) = Passed(leap, k) + n /\ Passed(leap, k) \in Nat
    BY MonthsAdd
  <2>2. IsFiniteSet(OfMonth(k, n)) /\ Cardinality(OfMonth(k, n)) = n
    <3>1. k \in 1 .. 12 /\ n \in 0 .. 31
      BY <2>1
    <3> QED
      BY ONLY <3>1, OfMonthCounts, Zenon
  <2> HIDE DEF n
  <2>3. /\ Until(leap, k + 1) = Until(leap, k) \union OfMonth(k, n)
        /\ Until(leap, k) \intersect OfMonth(k, n) = {}
    BY DEF Until, OfMonth, Days, n
  <2>4. Cardinality(Until(leap, k + 1)) = Passed(leap, k) + n - 0
    BY <1>2, <2>2, <2>3, FS_Union, FS_EmptySet
  <2>5. IsFiniteSet(Until(leap, k + 1))
    <3>1. IsFiniteSet(Until(leap, k)) /\ IsFiniteSet(OfMonth(k, n))
      BY <1>2, <2>2
    <3>2. IsFiniteSet(Until(leap, k) \union OfMonth(k, n))
      BY ONLY <3>1, FS_Union
    <3> QED
      BY ONLY <2>3, <3>2
  <2> QED
    BY <2>1, <2>4, <2>5
<1> HIDE DEF Counted
<1>3. Counted(1) /\ Counted(2) /\ Counted(3) /\ Counted(4)
  BY <1>1, <1>2
<1>4. Counted(5) /\ Counted(6) /\ Counted(7) /\ Counted(8)
  BY <1>2, <1>3
<1>5. Counted(9) /\ Counted(10) /\ Counted(11) /\ Counted(12)
  BY <1>2, <1>4
<1>6. m \in {1, 2, 3, 4, 5, 6, 7, 8, 9, 10, 11, 12}
  OBVIOUS
<1> QED
  BY <1>3, <1>4, <1>5, <1>6 DEF Counted

\* The table counts the days.
LEMMA BeforeCounts ==
  ASSUME NEW mon \in 0 .. 11, NEW mday \in 1 .. 31, NEW year \in Nat,
         mday <= DaysIn(Leap(1900 + year), mon + 1)
  PROVE  Before(mon, mday, year) = mday - 1 + Passed(Leap(1900 + year), mon + 1)
<1> DEFINE leap == Leap(1900 + year)
           months == Until(leap, mon + 1)
           days == OfMonth(mon + 1, mday - 1)
           both == {x \in (1 .. 12) \X (1 .. 31) :
                     /\ x[2] <= DaysPerMonth(leap)[x[1]]
                     /\ x[1] < mon + 1 \/ (x[1] = mon + 1 /\ x[2] < mday)}
<1>1. leap \in BOOLEAN
  BY DEF Leap
<1>2. IsFiniteSet(months) /\ Cardinality(months) = Passed(leap, mon + 1)
  BY <1>1, UntilCounts
<1>3. IsFiniteSet(days) /\ Cardinality(days) = mday - 1
  <2>1. mon + 1 \in 1 .. 12 /\ mday - 1 \in 0 .. 31
    OBVIOUS
  <2> QED
    BY ONLY <2>1, OfMonthCounts, Zenon
<1>4. both = months \union days /\ months \intersect days = {}
  <2>1. \A d \in 1 .. 31 : d < mday <=> d <= mday - 1
    OBVIOUS
  <2>2. DaysIn(leap, mon + 1) \in Nat
    <3>1. mon + 1 \in {1, 2, 3, 4, 5, 6, 7, 8, 9, 10, 11, 12}
      OBVIOUS
    <3> QED
      BY <3>1 DEF DaysIn, DaysPerMonth
  <2> QED
    BY <2>1, <2>2 DEF Until, OfMonth, Days, DaysIn
<1>5. Passed(leap, mon + 1) \in Nat
  <2>1. mon + 1 \in {1, 2, 3, 4, 5, 6, 7, 8, 9, 10, 11, 12}
    OBVIOUS
  <2> QED
    BY <2>1 DEF Passed
<1> HIDE DEF months, days, both
<1>6. Cardinality(both) = Passed(leap, mon + 1) + (mday - 1) - 0
  BY <1>2, <1>3, <1>4, FS_Union, FS_EmptySet
<1>7. Before(mon, mday, year) = Cardinality(both)
  BY DEF Before, both
<1> QED
  BY <1>5, <1>6, <1>7

\* What is read of the clock is what its registers hold now; these are the time that
\* was set, and what the sensor gives.
ReadInv ==
  /\ set # Nothing =>
       /\ set \in ClockTimes
       /\ clock = <<dec2bcd(set.sec), dec2bcd(set.min), dec2bcd(set.hour),
                    dec2bcd(set.wday + 1), dec2bcd(set.mday), dec2bcd(set.mon + 1),
                    dec2bcd(set.year - 100)>>
  /\ tm # Nothing =>
       LET mon == bcd2dec(clock[6] % 32) - 1
           mday == bcd2dec(clock[5])
           year == bcd2dec(clock[7]) + 100
       IN  tm = [sec |-> bcd2dec(clock[1]), min |-> bcd2dec(clock[2]),
                 hour |-> Hour(clock[3]), wday |-> bcd2dec(clock[4]) - 1,
                 mday |-> mday, mon |-> mon, year |-> year,
                 yday |-> days_since_january_1st(year, mon, mday)]
  /\ \E whole \in 0 .. 255, quarters \in 0 .. 3 :
       /\ temp = <<whole, quarters * 64>>
       /\ t_int # Nothing => t_int = Signed(whole) * 4 + quarters

LEMMA ReadStart == TimeInit => ReadInv
<1> SUFFICES ASSUME TimeInit PROVE ReadInv
  OBVIOUS
<1>1. 0 \in 0 .. 255 /\ 0 \in 0 .. 3 /\ temp = <<0, 0 * 64>>
  BY DEF TimeInit
<1> QED
  BY <1>1 DEF TimeInit, ReadInv

LEMMA ReadNext == ReadInv /\ [TimeNext]_timeVars => ReadInv'
<1> SUFFICES ASSUME ReadInv, [TimeNext]_timeVars PROVE ReadInv'
  OBVIOUS
<1>1. CASE UNCHANGED <<clock, temp, tm, t_int, set>>
  BY <1>1 DEF ReadInv
<1>2. ASSUME NEW time \in ClockTimes, ds3231_set_time(time) PROVE ReadInv'
  BY <1>2 DEF ds3231_set_time, ReadInv
<1>3. CASE ds3231_get_time
  BY <1>3 DEF ds3231_get_time, ReadInv
<1>4. ASSUME NEW quarters \in Celsius, Measure(quarters) PROVE ReadInv'
  <2>1. quarters \in Int
    BY TimesOK
  <2>2. (quarters \div 4) % 256 \in 0 .. 255 /\ quarters % 4 \in 0 .. 3
    BY <2>1
  <2> QED
    BY <1>4, <2>2 DEF Measure, ReadInv
<1>5. CASE ds3231_get_raw_temp
  <2>1. PICK whole \in 0 .. 255, quarters \in 0 .. 3 : temp = <<whole, quarters * 64>>
    BY DEF ReadInv
  <2>2. temp[1] = whole /\ temp[2] = quarters * 64 /\ (quarters * 64) \div 64 = quarters
    BY <2>1
  <2>3. t_int' = Signed(whole) * 4 + quarters /\ temp' = <<whole, quarters * 64>>
    BY <1>5, <2>1, <2>2 DEF ds3231_get_raw_temp
  <2> QED
    BY <1>5, <2>3 DEF ds3231_get_raw_temp, ReadInv
<1>6. CASE Alarms
  BY <1>1, <1>6 DEF Alarms, ds3231_set_alarm
<1> QED
  BY <1>1, <1>2, <1>3, <1>4, <1>5, <1>6 DEF TimeNext, Clock, Sensor, timeVars

LEMMA ReadInvImplies == ReadInv => ReadAsWritten
<1> SUFFICES ASSUME ReadInv PROVE ReadAsWritten
  OBVIOUS
<1>1. ASSUME tm # Nothing, set # Nothing
      PROVE  /\ \A f \in DOMAIN set : tm[f] = set[f]
             /\ set.year # 100 => tm.yday = Before(set.mon, set.mday, set.year)
  <2>1. set \in Struct /\ set \in ClockTimes
    BY <1>1, TimesOK DEF ReadInv
  <2>2. PICK sec \in 0 .. 59, min \in 0 .. 59, hour \in 0 .. 23, wday \in 0 .. 6,
             mday \in 1 .. 31, mon \in 0 .. 11, year \in 100 .. 199 :
          set = [sec |-> sec, min |-> min, hour |-> hour, wday |-> wday,
                 mday |-> mday, mon |-> mon, year |-> year]
    BY <2>1 DEF Struct
  <2>3. /\ bcd2dec(clock[1]) = sec /\ bcd2dec(clock[2]) = min
        /\ bcd2dec(clock[5]) = mday
    <3>1. clock[1] = dec2bcd(sec) /\ clock[2] = dec2bcd(min) /\ clock[5] = dec2bcd(mday)
      BY <1>1, <2>2 DEF ReadInv
    <3>2. sec \in 0 .. 99 /\ min \in 0 .. 99 /\ mday \in 0 .. 99
      OBVIOUS
    <3>3. bcd2dec(dec2bcd(sec)) = sec /\ bcd2dec(dec2bcd(min)) = min
      BY ONLY <3>2, BcdBack
    <3>4. bcd2dec(dec2bcd(mday)) = mday
      BY ONLY <3>2, BcdBack
    <3> QED
      BY ONLY <3>1, <3>3, <3>4
  <2>4. bcd2dec(clock[4]) - 1 = wday /\ bcd2dec(clock[7]) + 100 = year
    <3>1. wday + 1 \in 0 .. 99 /\ year - 100 \in 0 .. 99
      OBVIOUS
    <3>2. bcd2dec(dec2bcd(wday + 1)) = wday + 1 /\ bcd2dec(dec2bcd(year - 100)) = year - 100
      BY ONLY <3>1, BcdBack
    <3>3. clock[4] = dec2bcd(wday + 1) /\ clock[7] = dec2bcd(year - 100)
      BY <1>1, <2>2 DEF ReadInv
    <3> QED
      BY <3>2, <3>3
  <2>5. Hour(clock[3]) = hour
    <3>1. clock[3] = dec2bcd(hour)
      BY <1>1, <2>2 DEF ReadInv
    <3>2. hour \in 0 .. 99 /\ hour < 40
      OBVIOUS
    <3>3. dec2bcd(hour) \in 0 .. 153 /\ dec2bcd(hour) < 64 /\ bcd2dec(dec2bcd(hour)) = hour
      BY <3>2, Bcd
    <3> QED
      BY <3>1, <3>3, SmallBytes DEF Hour
  <2>6. bcd2dec(clock[6] % 32) - 1 = mon
    <3>1. clock[6] = dec2bcd(mon + 1)
      BY <1>1, <2>2 DEF ReadInv
    <3>2. mon + 1 \in 0 .. 99 /\ mon + 1 < 20
      OBVIOUS
    <3>3. /\ dec2bcd(mon + 1) \in 0 .. 153 /\ dec2bcd(mon + 1) < 32
          /\ bcd2dec(dec2bcd(mon + 1)) = mon + 1
      BY <3>2, Bcd
    <3>4. dec2bcd(mon + 1) % 32 = dec2bcd(mon + 1)
      BY <3>3, SmallBytes
    <3> QED
      BY <3>1, <3>3, <3>4
  <2>7. tm = [sec |-> sec, min |-> min, hour |-> hour, wday |-> wday,
              mday |-> mday, mon |-> mon, year |-> year,
              yday |-> days_since_january_1st(year, mon, mday)]
    BY <1>1, <2>3, <2>4, <2>5, <2>6 DEF ReadInv
  <2>8. \A f \in DOMAIN set : tm[f] = set[f]
    BY <2>2, <2>7
  <2>9. ASSUME year # 100
        PROVE  days_since_january_1st(year, mon, mday) = Before(mon, mday, year)
    <3>1. Leap(year) = Leap(1900 + year)
      <4>1. year \in 101 .. 199 /\ year \in Int
        BY <2>9
      <4>2. /\ (1900 + year) % 4 = year % 4
            /\ year % 100 # 0 /\ (1900 + year) % 100 # 0
            /\ year % 400 # 0 /\ (1900 + year) % 400 # 0
        BY <4>1
      <4> QED
        BY <4>2 DEF Leap
    <3>2. mday <= DaysIn(Leap(1900 + year), mon + 1)
      BY <2>1, <2>2, DatesOK DEF DaysIn
    <3>3. year \in Nat /\ mday \in Int
      OBVIOUS
    <3>4. days_since_january_1st(year, mon, mday) = mday - 1 + Passed(Leap(year), mon + 1)
      BY <3>3, DaysSince
    <3>5. Before(mon, mday, year) = mday - 1 + Passed(Leap(1900 + year), mon + 1)
      BY <3>2, <3>3, BeforeCounts, SMTT(30)
    <3> QED
      BY <3>1, <3>4, <3>5
  <2> QED
    BY <2>2, <2>7, <2>8, <2>9
<1>2. ASSUME t_int # Nothing PROVE ds3231_get_temp_integer = Signed(temp[1])
  <2>1. PICK whole \in 0 .. 255, quarters \in 0 .. 3 :
          temp[1] = whole /\ t_int = Signed(whole) * 4 + quarters
    BY <1>2 DEF ReadInv
  <2>2. Signed(whole) \in Int
    BY DEF Signed
  <2>3. (Signed(whole) * 4 + quarters) \div 4 = Signed(whole)
    BY <2>2
  <2> QED
    BY <2>1, <2>3 DEF ds3231_get_temp_integer
<1> QED
  BY <1>1, <1>2 DEF ReadAsWritten

-----------------------------------------------------------------------------
(* The theorems.                                                           *)

\* Every transaction of i2c_dev_read and i2c_dev_write (i2cdev.c:248-304) runs alone
\* and with the configuration of its device.  As long as i2c_param_config has refused
\* no configuration, i2c_setup_port (i2cdev.c:165-222) loses sight of no driver; once
\* it has (line 186), the theorem says no more than the first.
THEOREM PortStaysInOrder == Spec => []PortInOrder
<1>1. IInv => PortInOrder
  BY DEF IInv, LockInv, DriverInv, BusInv, PortInOrder, OwnConfiguration,
     DriverKnown
<1> QED
  BY <1>1, Invariance, PTL

\* A function of DS3231.c that has returned, by whichever of its error paths, has
\* given back the mutex of its device and the lock of the port.
THEOREM CallsLeaveNothingHeld == Spec => []NothingHeld
<1>1. IInv => NothingHeld
  BY DEF IInv, LockInv, MutexInv, NothingHeld
<1> QED
  BY <1>1, Invariance, PTL

\* A function of DS3231.c that changes bits of a register makes one change of what the
\* register holds at that moment, whatever other tasks call meanwhile (ds3231_set_flag,
\* DS3231.c:190-207, between I2C_DEV_TAKE_MUTEX and I2C_DEV_GIVE_MUTEX of its callers),
\* and returns ESP_OK only when it is made: the driver implements RtcRegisters.
THEOREM CallsAreWholeChanges == Spec => ChangesAreWhole
<1>1. Spec => Registers!Init /\ [][Registers!Next]_(Registers!vars)
  BY InitCall, StepIsRegisters, Invariance, PTL DEF Spec
<1> QED
  BY <1>1 DEF ChangesAreWhole, Registers!Spec

\* An alarm that ds3231_set_alarm (DS3231.c:127-161) set by second, minute, hour or day
\* of the month fires at the times that are meant and at no other, for every time and
\* each of these rates and whatever is set later to the other alarm.  Of alarms by
\* the day of the week it says nothing.
THEOREM AlarmsFireAsSet == TimeSpec => []AlarmsAsSet
<1>1. TimeInit => AlarmInv
  BY DEF TimeInit, AlarmInv
<1> QED
  BY <1>1, AlarmNext, AlarmInvImplies, PTL DEF TimeSpec

\* ds3231_get_time (DS3231.c:401-434) reads each field as ds3231_set_time wrote it, and
\* the day of the year that the calendar gives, for every date from 2001 to 2099;
\* ds3231_get_raw_temp and the shift of ds3231_get_temp_integer give the whole degrees.
THEOREM ReadsWhatWasWritten == TimeSpec => []ReadAsWritten
BY ReadStart, ReadNext, ReadInvImplies, PTL DEF TimeSpec

=============================================================================
