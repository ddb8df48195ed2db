------------------------------ MODULE StoneTx ------------------------------
(***************************************************************************)
(* How the tasks send messages to the display, stone_transport.c.          *)
(*                                                                         *)
(* The builders main.c and spiffs.c call (set_text, get_value, get_text,   *)
(* set_date, get_date, back_win, get_displayed_window) print their message *)
(* into the one STONE_TX_BUF with sprintf, store the length in the one     *)
(* TX_CNT and call tx_create, which hands both to uart_write_bytes.  The   *)
(* driver has no transmit buffer, so it copies byte after byte from        *)
(* STONE_TX_BUF while the line has room, and returns when all are sent; a  *)
(* mutex of its own keeps two calls apart.  The builders have no lock: a   *)
(* task can print over the message that another is building or sending.    *)
(*                                                                         *)
(* The contents of STONE_TX_BUF are cells, each known by the call that     *)
(* printed it and its place: places 1 to n of a message of length n are    *)
(* its characters, place n + 1 is the NUL that sprintf stores behind them. *)
(***************************************************************************)
EXTENDS Naturals, Sequences, FiniteSets

CONSTANTS
  Tasks,    \* stone_cmd, timer_handle, pressure_read, main
  TX_LEN,   \* cells of STONE_TX_BUF
  Lengths,  \* possible lengths of a message, which fits with its NUL
  MaxCalls  \* bound: calls of builders

ASSUME ConstantsOK ==
  /\ TX_LEN \in Nat /\ MaxCalls \in Nat
  /\ Lengths \subseteq 1 .. TX_LEN - 1

Calls == 1 .. MaxCalls

VARIABLES
  STONE_TX_BUF,  \* cell -> <<call, place>>, or <<0, 0>>
  TX_CNT,
  pc,            \* next step of each task
  call,          \* number of each task's current call, 0 if none
  left,          \* cells each task has still to print, or to send
  size,          \* the length that uart_write_bytes was given
  tx_mux,        \* the tasks that hold the driver's mutex
  (* The rest only observes. *)
  length,        \* length[c]: length of the message of call c
  wire,          \* wire[c]: what call c has put on the line
  alone          \* calls that have overlapped no other

vars == <<STONE_TX_BUF, TX_CNT, pc, call, left, size, tx_mux,
          length, wire, alone>>

Empty == <<0, 0>>
Active == {t \in Tasks : pc[t] # "idle"}

Init ==
  /\ STONE_TX_BUF = [k \in 1 .. TX_LEN |-> Empty]
  /\ TX_CNT = 0
  /\ pc = [t \in Tasks |-> "idle"]
  /\ call = [t \in Tasks |-> 0]
  /\ left = [t \in Tasks |-> 0] /\ size = [t \in Tasks |-> 0]
  /\ tx_mux = {}
  /\ length = <<>>
  /\ wire = [c \in Calls |-> <<>>]
  /\ alone = {}

-----------------------------------------------------------------------------
\* A builder is called.
build(t) ==
  /\ pc[t] = "idle" /\ Len(length) < MaxCalls
  /\ \E n \in Lengths :
       /\ length' = Append(length, n)
       /\ left' = [left EXCEPT ![t] = n + 1]
  /\ call' = [call EXCEPT ![t] = Len(length')]
  /\ pc' = [pc EXCEPT ![t] = "print"]
  /\ alone' = IF Active = {} THEN alone \union {Len(length')}
                             ELSE alone \ {call[u] : u \in Active}
  /\ UNCHANGED <<STONE_TX_BUF, TX_CNT, size, tx_mux, wire>>

\* sprintf stores the next character, and last the NUL.
print(t) ==
  /\ pc[t] = "print" /\ left[t] > 0
  /\ LET k == (length[call[t]] + 1) - left[t] + 1
     IN  STONE_TX_BUF' = [STONE_TX_BUF EXCEPT ![k] = <<call[t], k>>]
  /\ left' = [left EXCEPT ![t] = @ - 1]
  /\ UNCHANGED <<TX_CNT, pc, call, size, tx_mux, length, wire, alone>>

\* TX_CNT = sprintf(...).
printed_Early(t) ==
  /\ pc[t] = "print"
  /\ TX_CNT' = length[call[t]]
  /\ left' = [left EXCEPT ![t] = 0]
  /\ pc' = [pc EXCEPT ![t] = "create"]
  /\ UNCHANGED <<STONE_TX_BUF, call, size, tx_mux, length, wire, alone>>
printed(t) ==
  /\ pc[t] = "print" /\ left[t] = 0
  /\ TX_CNT' = length[call[t]]
  /\ pc' = [pc EXCEPT ![t] = "create"]
  /\ UNCHANGED <<STONE_TX_BUF, call, left, size, tx_mux, length, wire, alone>>

\* tx_create loads TX_CNT.
tx_create_WholeBuffer(t) ==
  /\ pc[t] = "create"
  /\ size' = [size EXCEPT ![t] = TX_LEN]
  /\ pc' = [pc EXCEPT ![t] = "lock"]
  /\ UNCHANGED <<STONE_TX_BUF, TX_CNT, call, left, tx_mux, length, wire, alone>>
tx_create(t) ==
  /\ pc[t] = "create"
  /\ size' = [size EXCEPT ![t] = TX_CNT]
  /\ pc' = [pc EXCEPT ![t] = "lock"]
  /\ UNCHANGED <<STONE_TX_BUF, TX_CNT, call, left, tx_mux, length, wire, alone>>

\* uart_write_bytes: lock, copy, unlock.
uart_lock(t) ==
  /\ pc[t] = "lock" /\ tx_mux = {}
  /\ tx_mux' = {t}
  /\ left' = [left EXCEPT ![t] = size[t]]
  /\ pc' = [pc EXCEPT ![t] = "send"]
  /\ UNCHANGED <<STONE_TX_BUF, TX_CNT, call, size, length, wire, alone>>

uart_send(t) ==
  /\ pc[t] = "send" /\ left[t] > 0
  /\ wire' = [wire EXCEPT
       ![call[t]] = Append(@, STONE_TX_BUF[size[t] - left[t] + 1])]
  /\ left' = [left EXCEPT ![t] = @ - 1]
  /\ UNCHANGED <<STONE_TX_BUF, TX_CNT, pc, call, size, tx_mux, length, alone>>

uart_unlock(t) ==
  /\ pc[t] = "send" /\ left[t] = 0
  /\ tx_mux' = {}
  /\ pc' = [pc EXCEPT ![t] = "idle"]
  /\ call' = [call EXCEPT ![t] = 0]
  /\ size' = [size EXCEPT ![t] = 0]
  /\ UNCHANGED <<STONE_TX_BUF, TX_CNT, left, length, wire, alone>>

Step(t) ==
  \/ print(t) \/ printed(t) \/ tx_create(t)
  \/ uart_lock(t) \/ uart_send(t) \/ uart_unlock(t)

Next == \E t \in Tasks : build(t) \/ Step(t)

Spec == Init /\ [][Next]_vars

-----------------------------------------------------------------------------
(* Properties.                                                             *)

Message(c) == [k \in 1 .. length[c] |-> <<c, k>>]
Sent(c) == c <= Len(length) /\ \A t \in Tasks : call[t] # c

\* A message that no other task overlapped reaches the line whole.
IntactWhenAlone == \A c \in alone : Sent(c) => wire[c] = Message(c)

\* A cell of the buffer holds what sprintf stores at place k of some message: its
\* character there, or the NUL behind its last.
PrintedAt(cell, k) ==
  /\ cell[1] \in 1 .. Len(length)
  /\ cell[2] = k /\ k <= length[cell[1]] + 1

\* However the tasks interleave, what is sent at place k is what sprintf stored at
\* place k for some message: a character of it, or, where the other task's length
\* is used, its NUL; never what the buffer held before any message.  And always as
\* many as one of the messages has.
OnlyPrinted ==
  \A c \in Calls :
    /\ \A k \in DOMAIN wire[c] : PrintedAt(wire[c][k], k)
    /\ Sent(c) => \E d \in 1 .. Len(length) : Len(wire[c]) = length[d]

=============================================================================
