----------------------------- MODULE RtcDriver -----------------------------
(***************************************************************************)
(* The driver of the real-time clock, DS3231/DS3231.c, over the I2C layer  *)
(* DS3231/i2cdev.c, as tasks call it at the same time.                     *)
(*                                                                         *)
(* A function takes the mutex of its device, makes one to three            *)
(* transactions and gives the mutex back.  A transaction takes the lock of *)
(* the port, sets the port up for the device if another one used it last,  *)
(* drives the bus and gives the lock back.  Each wait and each transaction *)
(* may fail, and the function then returns what failed.                    *)
(*                                                                         *)
(* One port is modelled: ports share nothing.  A register is the set of    *)
(* its bits that are 1.  The hardware of the port and the clock are        *)
(* external.                                                               *)
(***************************************************************************)
EXTENDS FiniteSets, Sequences, Naturals

CONSTANTS
  Tasks, Devices,
  Cfg,        \* the i2c_config_t of each device, [pins, clk_speed]
  Bad,        \* those that i2c_param_config refuses
  Programs,   \* each a set of <<device, register>> whose functions are called
  None, NoCall

ControlBits == {"ALARM_INTS", "ALARM1_INT", "SQWAVE", "TEMPCONV"}
StatusBits  == {"OSCILLATOR", "32KHZ", "ALARM_1"}
FreqBits    == {"SQWAVE"}

ASSUME ConstantsOK ==
  /\ DOMAIN Cfg = Devices
  /\ None \notin Tasks
  /\ NoCall \notin [dev : Devices, mode : {"get", "set", "clear", "freq"},
                    reg : {"control", "status", "other"},
                    bits : SUBSET (ControlBits \union StatusBits)]

VARIABLES
  called,     \* the program of these tasks
  mutex,      \* who holds the mutex of each device
  lock,       \* who holds states[port].lock
  installed, config,   \* the rest of states[port]
  driver,     \* the driver that is installed: its configuration, or none
  control, status,     \* registers of the clocks
  pc,         \* next step of each task
  call,       \* the function it is in
  todo,       \* the transactions that remain, first one first
  data,       \* the byte it has read
  result,     \* what its last call returned
  (* The rest only observes. *)
  made,       \* it has written the control register
  refused     \* i2c_param_config has refused a configuration

port == <<called, lock, installed, config, driver, refused>>
registers == <<control, status, made>>
vars == <<mutex, port, registers, pc, call, todo, data, result>>

Unset == [pins |-> "none", clk_speed |-> "none"]

\* The clock as it is when it gets power.
Init ==
  /\ called \in Programs
  /\ mutex = [d \in Devices |-> None] /\ lock = None
  /\ installed = FALSE /\ config = Unset /\ driver = None
  /\ control = [d \in Devices |-> {"ALARM_INTS", "SQWAVE"}]
  /\ status = [d \in Devices |-> {"OSCILLATOR", "32KHZ"}]
  /\ pc = [t \in Tasks |-> "idle"]
  /\ call = [t \in Tasks |-> NoCall]
  /\ todo = [t \in Tasks |-> <<>>]
  /\ data = [t \in Tasks |-> {}]
  /\ result = [t \in Tasks |-> "none"]
  /\ made = [t \in Tasks |-> FALSE] /\ refused = FALSE

Goto(t, step) == pc' = [pc EXCEPT ![t] = step]

-----------------------------------------------------------------------------
(* DS3231.c: what each function asks, and by which transactions.           *)

Read(reg) == [op |-> "read", reg |-> reg]
Write(reg) == [op |-> "write", reg |-> reg]

Entered(t, d, mode, reg, bits, steps) ==
  /\ pc[t] = "idle" /\ <<d, reg>> \in called
  /\ call' = [call EXCEPT ![t] = [dev |-> d, mode |-> mode, reg |-> reg, bits |-> bits]]
  /\ todo' = [todo EXCEPT ![t] = steps]
  /\ result' = [result EXCEPT ![t] = "none"]
  /\ Goto(t, "mutex")
  /\ UNCHANGED <<mutex, port, registers, data>>

ds3231_set_flag(t, d, reg, bits, mode) ==
  Entered(t, d, mode, reg, bits, <<Read(reg), Write(reg)>>)
ds3231_get_flag(t, d, reg) == Entered(t, d, "get", reg, {}, <<Read(reg)>>)

ds3231_get_oscillator_stop_flag(t, d) == ds3231_get_flag(t, d, "status")
ds3231_clear_oscillator_stop_flag(t, d) ==
  ds3231_set_flag(t, d, "status", {"OSCILLATOR"}, "clear")
ds3231_get_alarm_flags(t, d) == ds3231_get_flag(t, d, "status")
ds3231_clear_alarm_flags(t, d) == ds3231_set_flag(t, d, "status", {"ALARM_1"}, "clear")
ds3231_enable_alarm_ints(t, d) ==
  ds3231_set_flag(t, d, "control", {"ALARM_INTS", "ALARM1_INT"}, "set")
ds3231_disable_alarm_ints(t, d) == ds3231_set_flag(t, d, "control", {"ALARM1_INT"}, "clear")
ds3231_enable_32khz(t, d) == ds3231_set_flag(t, d, "status", {"32KHZ"}, "set")
ds3231_disable_32khz(t, d) == ds3231_set_flag(t, d, "status", {"32KHZ"}, "clear")
ds3231_enable_squarewave(t, d) == ds3231_set_flag(t, d, "control", {"ALARM_INTS"}, "clear")
ds3231_disable_squarewave(t, d) == ds3231_set_flag(t, d, "control", {"ALARM_INTS"}, "set")

\* The register is read for the new value, and again by ds3231_set_flag, which
\* has no use for what it reads.
ds3231_set_squarewave_freq(t, d, freq) ==
  Entered(t, d, "freq", "control", freq, <<Read("control"), Read("ignored"), Write("control")>>)
ds3231_get_squarewave_freq(t, d) == ds3231_get_flag(t, d, "control")

\* The offset, and then a conversion.
ds3231_set_aging_offset(t, d) ==
  Entered(t, d, "set", "control", {"TEMPCONV"},
          <<Write("aging"), Read("control"), Write("control")>>)

\* The functions of one transaction with other registers: ds3231_set_time,
\* ds3231_set_alarm, ds3231_get_time, ds3231_get_raw_temp,
\* ds3231_get_aging_offset.
ds3231_other(t, d, op) == Entered(t, d, "get", "other", {}, <<[op |-> op, reg |-> "other"]>>)

Enter(t) == \E d \in Devices :
  \/ ds3231_get_oscillator_stop_flag(t, d) \/ ds3231_clear_oscillator_stop_flag(t, d)
  \/ ds3231_get_alarm_flags(t, d) \/ ds3231_clear_alarm_flags(t, d)
  \/ ds3231_enable_alarm_ints(t, d) \/ ds3231_disable_alarm_ints(t, d)
  \/ ds3231_enable_32khz(t, d) \/ ds3231_disable_32khz(t, d)
  \/ ds3231_enable_squarewave(t, d) \/ ds3231_disable_squarewave(t, d)
  \/ \E freq \in SUBSET FreqBits : ds3231_set_squarewave_freq(t, d, freq)
  \/ ds3231_get_squarewave_freq(t, d) \/ ds3231_set_aging_offset(t, d)
  \/ \E op \in {"read", "write"} : ds3231_other(t, d, op)

-----------------------------------------------------------------------------
(* i2cdev.c.                                                               *)

Mine(t) == call[t].dev

i2c_dev_take_mutex_None(t) ==
  /\ pc[t] = "mutex"
  /\ mutex' = [mutex EXCEPT ![Mine(t)] = t]
  /\ Goto(t, "lock")
  /\ UNCHANGED <<port, registers, call, todo, data, result>>
i2c_dev_take_mutex_Forever(t) ==
  /\ pc[t] = "mutex" /\ mutex[Mine(t)] = None
  /\ mutex' = [mutex EXCEPT ![Mine(t)] = t]
  /\ Goto(t, "lock")
  /\ UNCHANGED <<port, registers, call, todo, data, result>>
\* The wait ends with the mutex or, if another task holds it, when it has lasted.
i2c_dev_take_mutex(t) ==
  /\ pc[t] = "mutex"
  /\ IF mutex[Mine(t)] = None
     THEN /\ mutex' = [mutex EXCEPT ![Mine(t)] = t]
          /\ Goto(t, "lock")
          /\ UNCHANGED <<call, todo, result>>
     ELSE /\ Goto(t, "idle")
          /\ call' = [call EXCEPT ![t] = NoCall]
          /\ todo' = [todo EXCEPT ![t] = <<>>]
          /\ result' = [result EXCEPT ![t] = "error"]
          /\ UNCHANGED mutex
  /\ UNCHANGED <<port, registers, data>>

\* The error of a transaction is what the function returns (I2C_DEV_CHECK).
Failed(t) == Goto(t, "give") /\ result' = [result EXCEPT ![t] = "error"]

SEMAPHORE_TAKE(t) ==
  /\ pc[t] = "lock"
  /\ IF lock = None
     THEN lock' = t /\ Goto(t, "setup") /\ UNCHANGED result
     ELSE Failed(t) /\ UNCHANGED lock
  /\ UNCHANGED <<called, mutex, installed, config, driver, refused, registers, call, todo, data>>

cfg_equal_Pins(a, b) == a.pins = b.pins
cfg_equal(a, b) == a = b

\* The driver is installed first and given its configuration then (ESP-IDF 5.1).
\* It cannot be installed twice, and may find no memory.
Reinstall(cfg) ==
  LET left == IF installed THEN None ELSE driver
  IN  \/ driver' = left /\ installed' = FALSE /\ UNCHANGED <<config, refused>>
      \/ /\ left = None /\ cfg \in Bad
         /\ driver' = Unset /\ installed' = FALSE /\ refused' = TRUE
         /\ UNCHANGED config
      \/ /\ left = None /\ cfg \notin Bad
         /\ driver' = cfg /\ installed' = TRUE /\ config' = cfg
         /\ UNCHANGED refused

\* i2c_get_timeout and i2c_set_timeout may fail as well.  On an error the lock is
\* given back at once.
i2c_setup_port(t) ==
  LET cfg == Cfg[Mine(t)]
  IN  /\ pc[t] = "setup"
      /\ IF ~cfg_equal(cfg, config) \/ ~installed
         THEN Reinstall(cfg)
         ELSE UNCHANGED <<installed, config, driver, refused>>
      /\ \/ installed' /\ Goto(t, "bus") /\ UNCHANGED <<lock, result>>
         \/ Failed(t) /\ lock' = None
      /\ UNCHANGED <<called, mutex, registers, call, todo, data>>

\* The byte that goes back to the register.
changed(t) ==
  LET c == call[t]
  IN  CASE c.mode = "set"   -> data[t] \union c.bits
        [] c.mode = "clear" -> data[t] \ c.bits
        [] c.mode = "freq"  -> (data[t] \ FreqBits) \union c.bits

\* The clock keeps a flag of its own that is 0 at 0.
Store(t, reg) ==
  /\ CASE reg = "control" -> control' = [control EXCEPT ![Mine(t)] = changed(t)]
                             /\ UNCHANGED status
       [] reg = "status"  -> status' = [status EXCEPT ![Mine(t)] =
                               changed(t) \intersect (@ \union {"32KHZ"})]
                             /\ UNCHANGED control
       [] OTHER -> UNCHANGED <<control, status>>
  /\ made' = [made EXCEPT ![t] = made[t] \/ reg = call[t].reg]

\* The byte that i2c_dev_read reads.
Fetch(t, reg) ==
  data' = [data EXCEPT ![t] = CASE reg = "control" -> control[Mine(t)]
                                [] reg = "status"  -> status[Mine(t)]
                                [] OTHER -> @]

\* i2c_dev_read and i2c_dev_write once the port is set up: the transaction, which
\* may fail, a write also after the clock has taken it; and SEMAPHORE_GIVE.
i2c_master_cmd_begin(t) ==
  LET next == Head(todo[t])
  IN  /\ pc[t] = "bus"
      /\ lock' = None
      /\ \/ /\ todo' = [todo EXCEPT ![t] = Tail(@)]
            /\ IF next.op = "read" THEN Fetch(t, next.reg) /\ UNCHANGED registers
                                   ELSE Store(t, next.reg) /\ UNCHANGED data
            /\ IF Len(todo[t]) > 1
               THEN Goto(t, "lock") /\ UNCHANGED result
               ELSE Goto(t, "give") /\ result' = [result EXCEPT ![t] = "ok"]
         \/ /\ Failed(t)
            /\ \/ UNCHANGED registers
               \/ next.op = "write" /\ Store(t, next.reg)
            /\ UNCHANGED <<todo, data>>
      /\ UNCHANGED <<called, mutex, installed, config, driver, refused, call>>

\* I2C_DEV_GIVE_MUTEX, after the last transaction or the one that failed.
i2c_dev_give_mutex_OnSuccess(t) ==
  /\ pc[t] = "give"
  /\ mutex' = IF result[t] = "ok" THEN [mutex EXCEPT ![Mine(t)] = None] ELSE mutex
  /\ Goto(t, "idle")
  /\ call' = [call EXCEPT ![t] = NoCall]
  /\ todo' = [todo EXCEPT ![t] = <<>>]
  /\ data' = [data EXCEPT ![t] = {}]
  /\ made' = [made EXCEPT ![t] = FALSE]
  /\ UNCHANGED <<port, control, status, result>>
i2c_dev_give_mutex(t) ==
  /\ pc[t] = "give"
  /\ mutex' = [mutex EXCEPT ![Mine(t)] = None]
  /\ Goto(t, "idle")
  /\ call' = [call EXCEPT ![t] = NoCall]
  /\ todo' = [todo EXCEPT ![t] = <<>>]
  /\ data' = [data EXCEPT ![t] = {}]
  /\ made' = [made EXCEPT ![t] = FALSE]
  /\ UNCHANGED <<port, control, status, result>>

-----------------------------------------------------------------------------
(* The clock: the time of an alarm comes, a conversion ends.               *)

Rings(d) ==
  /\ <<d, "status">> \in called
  /\ status' = [status EXCEPT ![d] = @ \union {"ALARM_1"}]
  /\ UNCHANGED <<mutex, port, control, made, pc, call, todo, data, result>>

Converted(d) ==
  /\ control' = [control EXCEPT ![d] = @ \ {"TEMPCONV"}]
  /\ UNCHANGED <<mutex, port, status, made, pc, call, todo, data, result>>

Step(t) ==
  \/ i2c_dev_take_mutex(t) \/ SEMAPHORE_TAKE(t) \/ i2c_setup_port(t)
  \/ i2c_master_cmd_begin(t) \/ i2c_dev_give_mutex(t)

Next ==
  \/ \E t \in Tasks : Enter(t) \/ Step(t)
  \/ \E d \in Devices : Rings(d) \/ Converted(d)

Spec == Init /\ [][Next]_vars

\* A task that is inside a function is given the processor now and then, and its
\* waits have an end (I2CDEV_TIMEOUT).
Fairness == \A t \in Tasks : WF_vars(Step(t))
FairSpec == Spec /\ Fairness

-----------------------------------------------------------------------------
(* Properties.                                                             *)

\* A transaction runs alone on the bus, with a driver that is installed and has
\* the configuration of the device it is for.
OwnConfiguration ==
  \A t \in Tasks : pc[t] = "bus" =>
    /\ driver = Cfg[Mine(t)]
    /\ \A u \in Tasks \ {t} : pc[u] # "bus"

\* A task that has returned, whatever failed, holds neither a mutex nor the lock.
NothingHeld ==
  \A t \in Tasks : pc[t] = "idle" => lock # t /\ \A d \in Devices : mutex[d] # t

\* i2cdev.c loses sight of an installed driver, which no later call can replace,
\* only after a configuration that i2c_param_config refused.
DriverKnown == lock = None /\ driver # None /\ ~installed => refused

\* The port serves each device with its own configuration, and stays usable.
PortInOrder == OwnConfiguration /\ DriverKnown

\* Every call returns: no wait is for ever, whatever the other tasks do.
Returns == \A t \in Tasks : pc[t] # "idle" ~> pc[t] = "idle"

\* Reading a register, changing a bit and writing it back are one change, however
\* the calls of other tasks come in between: the driver implements RtcRegisters.
\* The bits that the clock changes are left out.
ClockBits == {"TEMPCONV", "ALARM_1"}
Contents(d, reg) == CASE reg = "control" -> control[d]
                      [] reg = "status"  -> status[d]
                      [] reg = "other"   -> {}
Asked(t) ==
  IF call[t] = NoCall THEN NoCall ELSE [call[t] EXCEPT !.bits = @ \ ClockBits]
RegBits == [at \in Devices \X {"control", "status", "other"} |->
              Contents(at[1], at[2]) \ ClockBits]
Asking == [t \in Tasks |-> Asked(t)]
Answered == [t \in Tasks |-> IF call[t] = NoCall THEN result[t] ELSE "none"]

Registers == INSTANCE RtcRegisters WITH
  Registers <- {"control", "status", "other"},
  Bits <- (ControlBits \union StatusBits) \ ClockBits,
  regs <- RegBits, call <- Asking, result <- Answered
ChangesAreWhole == Registers!Spec

=============================================================================
