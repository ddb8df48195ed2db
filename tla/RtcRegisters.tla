---------------------------- MODULE RtcRegisters ----------------------------
(***************************************************************************)
(* What DS3231.h promises of the registers of real-time clocks to tasks    *)
(* that call its functions at the same time: a call makes one change of    *)
(* its own, to what its register holds at that moment; a call that returns *)
(* ESP_OK has made it, and one that fails may have.                        *)
(***************************************************************************)
CONSTANTS
  Tasks, Devices, Registers,
  Bits,         \* the bits of the registers
  FreqBits,     \* those of the squarewave frequency
  NoCall

\* What a call asks of its register: nothing but to be read, bits to set, bits to
\* clear, or a frequency in the place of the old one.
Effects == [dev : Devices, reg : Registers,
            mode : {"get", "set", "clear", "freq"}, bits : SUBSET Bits]
Effect(e, old) ==
  CASE e.mode = "get"   -> old
    [] e.mode = "set"   -> old \union e.bits
    [] e.mode = "clear" -> old \ e.bits
    [] e.mode = "freq"  -> (old \ FreqBits) \union e.bits

VARIABLES
  regs,     \* the bits that are 1, by device and register
  call,     \* what each task has asked for and not been answered
  made,     \* the change has been made
  result    \* of the last call: ESP_OK or not

vars == <<regs, call, made, result>>

Init ==
  /\ regs \in [Devices \X Registers -> SUBSET Bits]
  /\ call = [t \in Tasks |-> NoCall]
  /\ made = [t \in Tasks |-> FALSE]
  /\ result = [t \in Tasks |-> "none"]

Call(t) ==
  /\ call[t] = NoCall
  /\ call'[t] \in Effects /\ call' = [call EXCEPT ![t] = call'[t]]
  /\ result' = [result EXCEPT ![t] = "none"]
  /\ UNCHANGED <<regs, made>>

Change(t) ==
  /\ call[t] # NoCall /\ ~made[t]
  /\ LET at == <<call[t].dev, call[t].reg>>
     IN  regs' = [regs EXCEPT ![at] = Effect(call[t], @)]
  /\ made' = [made EXCEPT ![t] = TRUE]
  /\ UNCHANGED <<call, result>>

Return(t) ==
  /\ call[t] # NoCall
  /\ call' = [call EXCEPT ![t] = NoCall]
  /\ \E r \in {"ok", "error"} :
       /\ r = "ok" => made[t] \/ call[t].mode = "get"
       /\ result' = [result EXCEPT ![t] = r]
  /\ made' = [made EXCEPT ![t] = FALSE]
  /\ UNCHANGED regs

Next == \E t \in Tasks : Call(t) \/ Change(t) \/ Return(t)

Spec == Init /\ [][Next]_vars

=============================================================================
