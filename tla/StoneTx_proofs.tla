-------------------------- MODULE StoneTx_proofs --------------------------
(***************************************************************************)
(* Proofs, for any number of tasks, calls and lengths, of what reaches the *)
(* line when tasks print into one STONE_TX_BUF without a lock.             *)
(*                                                                         *)
(* The invariant has two parts beside the types and the driver's mutex:    *)
(*                                                                         *)
(*   AloneInv  as long as a call has overlapped no other, what it has      *)
(*             printed, stored in TX_CNT and sent is its own message;      *)
(*   FullInv   in any case the cells below TX_CNT, and below the length a  *)
(*             task sends with, have been printed by somebody.             *)
(***************************************************************************)
EXTENDS StoneTx, SequenceTheorems, TLAPS

Cells == (0 .. MaxCalls) \X (0 .. TX_LEN)
Sizes == 0 .. TX_LEN
Steps == {"idle", "print", "create", "lock", "send"}

TypeOK ==
  /\ STONE_TX_BUF \in [1 .. TX_LEN -> Cells]
  /\ TX_CNT \in Sizes
  /\ pc \in [Tasks -> Steps]
  /\ call \in [Tasks -> 0 .. MaxCalls]
  /\ left \in [Tasks -> Sizes] /\ size \in [Tasks -> Sizes]
  /\ length \in Seq(Lengths) /\ Len(length) <= MaxCalls
  /\ wire \in [Calls -> Seq(Cells)]
  /\ alone \subseteq 1 .. Len(length)

\* Every call belongs to one task, the driver's mutex to the one that sends.
CallInv ==
  /\ \A t \in Tasks :
       /\ pc[t] = "idle" <=> call[t] = 0
       /\ call[t] <= Len(length)
       /\ pc[t] = "print" => left[t] <= length[call[t]] + 1
       /\ pc[t] = "send" => left[t] <= size[t]
       /\ pc[t] \in {"print", "create", "lock"} => wire[call[t]] = <<>>
       /\ t \in tx_mux <=> pc[t] = "send"
  /\ \A t, u \in Tasks :
       /\ pc[t] # "idle" /\ call[t] = call[u] => t = u
       /\ pc[t] = "send" /\ pc[u] = "send" => t = u
  /\ \A c \in Calls : c > Len(length) => wire[c] = <<>>

\* The first n cells of the message of call c, and that they are in the buffer.
Beginning(c, n) == [k \in 1 .. n |-> <<c, k>>]
Printed(c, n) == \A k \in 1 .. n : STONE_TX_BUF[k] = <<c, k>>

AloneInv ==
  /\ \A c \in alone : Sent(c) => wire[c] = Message(c)
  /\ \A t \in Tasks : call[t] \in alone =>
       LET c == call[t]  n == length[c]
       IN  /\ \A u \in Tasks : pc[u] # "idle" => u = t
           /\ pc[t] = "print" => Printed(c, (n + 1) - left[t])
           /\ pc[t] # "print" => Printed(c, n)
           /\ pc[t] = "create" => TX_CNT = n
           /\ pc[t] \in {"lock", "send"} => size[t] = n
           /\ pc[t] = "send" => wire[c] = Beginning(c, n - left[t])

\* The first n cells of the buffer have been printed.
Full(n) == \A k \in 1 .. n : STONE_TX_BUF[k] # Empty
SomeLength(n) == \E d \in 1 .. Len(length) : n = length[d]

FullInv ==
  /\ \A k \in 1 .. TX_LEN : STONE_TX_BUF[k] # Empty => PrintedAt(STONE_TX_BUF[k], k)
  /\ Full(TX_CNT) /\ (TX_CNT # 0 => SomeLength(TX_CNT))
  /\ \A t \in Tasks :
       /\ pc[t] = "print" => Full((length[call[t]] + 1) - left[t])
       /\ pc[t] = "create" => TX_CNT # 0
       /\ pc[t] \in {"lock", "send"} => Full(size[t]) /\ SomeLength(size[t])
       /\ pc[t] = "send" => Len(wire[call[t]]) = size[t] - left[t]
  /\ OnlyPrinted

IInv == TypeOK /\ CallInv /\ AloneInv /\ FullInv

-----------------------------------------------------------------------------
(* What the operators and the constants give.                              *)

LEMMA LengthFacts ==
  ASSUME TypeOK
  PROVE  /\ Len(length) \in Nat
         /\ \A c \in 1 .. Len(length) : length[c] \in 1 .. TX_LEN - 1
         /\ \A c \in 1 .. Len(length) : length[c] \in Nat
<1>1. length \in Seq(1 .. TX_LEN - 1)
  BY ConstantsOK, SeqMonotonic DEF TypeOK
<1> QED
  BY <1>1, ElementOfSeq, LenProperties, ConstantsOK

\* The call of a task that is inside a builder.
LEMMA ActiveCall ==
  ASSUME TypeOK, CallInv, NEW t \in Tasks, pc[t] # "idle"
  PROVE  /\ call[t] \in 1 .. Len(length) /\ call[t] \in Calls
         /\ length[call[t]] \in 1 .. TX_LEN - 1
         /\ ~Sent(call[t])
<1>1. call[t] \in 1 .. Len(length)
  BY LengthFacts DEF TypeOK, CallInv
<1> QED
  BY <1>1, LengthFacts, ConstantsOK DEF TypeOK, Calls, Sent

\* Only one message is empty.
LEMMA BeginningFacts ==
  ASSUME NEW c, NEW n \in Nat
  PROVE  /\ Beginning(c, 0) = <<>>
         /\ Append(Beginning(c, n), <<c, n + 1>>) = Beginning(c, n + 1)
BY DEF Beginning

LEMMA InitInv == Init => IInv
<1> SUFFICES ASSUME Init PROVE IInv
  OBVIOUS
<1>1. TypeOK
  BY ConstantsOK DEF Init, TypeOK, Cells, Sizes, Steps, Empty, Calls
<1>2. CallInv
  BY <1>1 DEF Init, CallInv, Calls
<1>3. AloneInv
  BY DEF Init, AloneInv
<1>4. FullInv
  BY ConstantsOK DEF Init, FullInv, Full, OnlyPrinted, Sent, Empty, Calls
<1> QED
  BY <1>1, <1>2, <1>3, <1>4 DEF IInv

-----------------------------------------------------------------------------
(* The steps.                                                              *)

LEMMA BuildInv == ASSUME IInv, NEW t \in Tasks, build(t) PROVE IInv'
<1> USE DEF IInv
<1>1. /\ pc[t] = "idle" /\ Len(length) < MaxCalls /\ call[t] = 0
      /\ UNCHANGED <<STONE_TX_BUF, TX_CNT, size, tx_mux, wire>>
  BY DEF build, CallInv
<1>2. PICK n \in Lengths :
        length' = Append(length, n) /\ left' = [left EXCEPT ![t] = n + 1]
  BY DEF build
<1> DEFINE c == Len(length) + 1
<1>3. /\ length' \in Seq(Lengths) /\ Len(length') = c
      /\ length'[c] = n /\ \A d \in 1 .. Len(length) : length'[d] = length[d]
      /\ n \in 1 .. TX_LEN - 1 /\ n + 1 \in Sizes
      /\ Len(length) \in Nat /\ c \in 1 .. MaxCalls /\ c \in Calls
  BY <1>1, <1>2, AppendProperties, LenProperties, ConstantsOK DEF TypeOK, Calls, Sizes
<1>4. /\ call' = [call EXCEPT ![t] = c] /\ pc' = [pc EXCEPT ![t] = "print"]
      /\ call'[t] = c /\ pc'[t] = "print" /\ left'[t] = n + 1
      /\ \A u \in Tasks \ {t} :
           call'[u] = call[u] /\ pc'[u] = pc[u] /\ left'[u] = left[u]
  BY <1>2, <1>3 DEF build, TypeOK
<1>5. alone' = IF Active = {} THEN alone \union {c}
                              ELSE alone \ {call[u] : u \in Active}
  BY <1>3 DEF build
<1>6. TypeOK'
  <2>1. alone' \subseteq 1 .. Len(length')
    <3>1. alone' \subseteq alone \union {c}
      BY <1>5
    <3> QED
      BY <1>3, <3>1 DEF TypeOK
  <2>2. call' \in [Tasks -> 0 .. MaxCalls] /\ left' \in [Tasks -> Sizes]
    BY <1>2, <1>3, <1>4 DEF TypeOK
  <2> QED
    BY <1>1, <1>3, <1>4, <2>1, <2>2 DEF TypeOK, Steps
<1>7. CallInv'
  <2>1. \A u \in Tasks : pc[u] # "idle" =>
          call[u] \in 1 .. Len(length) /\ call[u] # c /\ call[u] # 0
    BY ActiveCall, <1>3
  <2>2. wire[c] = <<>>
    BY <1>3 DEF CallInv
  <2>3. \A u \in Tasks \ {t} : pc[u] # "idle" => length'[call'[u]] = length[call[u]]
    BY <1>3, <1>4, <2>1
  <2>4. \A d \in Calls : d > Len(length') => wire'[d] = <<>>
    BY <1>1, <1>3 DEF CallInv, Calls
  <2>5. \A u, v \in Tasks :
          /\ pc'[u] # "idle" /\ call'[u] = call'[v] => u = v
          /\ pc'[u] = "send" /\ pc'[v] = "send" => u = v
    BY <1>1, <1>3, <1>4, <2>1 DEF CallInv
  <2>6. /\ pc'[t] # "idle" /\ call'[t] # 0 /\ call'[t] <= Len(length')
        /\ left'[t] <= length'[call'[t]] + 1 /\ wire'[call'[t]] = <<>> /\ t \notin tx_mux'
    BY <1>1, <1>3, <1>4, <2>2 DEF CallInv
  <2>7. ASSUME NEW u \in Tasks \ {t}
        PROVE  /\ pc'[u] = "idle" <=> call'[u] = 0
               /\ call'[u] <= Len(length')
               /\ pc'[u] = "print" => left'[u] <= length'[call'[u]] + 1
               /\ pc'[u] = "send" => left'[u] <= size'[u]
               /\ pc'[u] \in {"print", "create", "lock"} => wire'[call'[u]] = <<>>
               /\ u \in tx_mux' <=> pc'[u] = "send"
    <3>1. call[u] \in Nat /\ Len(length) \in Nat
      BY <1>3 DEF TypeOK
    <3>2. pc[u] # "idle" => length'[call'[u]] = length[call[u]]
      BY <2>3
    <3> QED
      BY <1>1, <1>3, <1>4, <3>1, <3>2 DEF CallInv
  <2> QED
    BY <1>4, <2>4, <2>5, <2>6, <2>7 DEF CallInv
<1>8. AloneInv'
  <2>1. \A d \in alone : d \in 1 .. Len(length) /\ d # c /\ length'[d] = length[d]
    BY <1>3 DEF TypeOK
  <2>2. ASSUME NEW d \in alone', Sent(d)'
        PROVE  (wire[d] = Message(d))'
    <3>1. d # c
      BY <1>4, <2>2 DEF Sent
    <3>2. d \in alone /\ Sent(d)
      BY <1>1, <1>3, <1>4, <1>5, <2>1, <2>2, <3>1 DEF Sent, TypeOK
    <3> QED
      BY <1>1, <2>1, <3>2 DEF AloneInv, Message
  <2>3. ASSUME NEW u \in Tasks, call'[u] \in alone'
        PROVE  u = t /\ Active = {}
    <3>1. CASE Active = {}
      BY <1>1, <1>4, <1>5, <2>1, <2>3, <3>1 DEF Active, CallInv
    <3>2. CASE Active # {}
      <4>1. call'[u] \in alone /\ call'[u] # c /\ u # t
        BY <1>4, <1>5, <2>1, <2>3, <3>2
      <4> QED
        BY <1>3, <1>4, <1>5, <2>1, <2>3, <3>2, <4>1 DEF Active, CallInv
    <3> QED
      BY <3>1, <3>2
  <2>4. Printed(call[t], (length[call[t]] + 1) - left[t])'
    BY <1>3, <1>4 DEF Printed
  <2>5. Active = {} => \A u \in Tasks : pc'[u] # "idle" => u = t
    BY <1>4 DEF Active
  <2> QED
    BY <1>4, <2>2, <2>3, <2>4, <2>5 DEF AloneInv
<1>9. FullInv'
  <2>1. \A d \in Calls : Sent(d)' => Sent(d)
    BY <1>1, <1>3, <1>4 DEF Sent, TypeOK, Calls
  <2>2. \A m : SomeLength(m) => SomeLength(m)'
    BY <1>3 DEF SomeLength
  <2>7. \A cell, k : PrintedAt(cell, k) => PrintedAt(cell, k)'
    BY <1>3 DEF PrintedAt
  <2>3. OnlyPrinted'
    BY <1>1, <1>3, <2>1, <2>7 DEF FullInv, OnlyPrinted
  <2>4. \A u \in Tasks \ {t} : pc[u] # "idle" => length'[call'[u]] = length[call[u]]
    BY <1>3, <1>4, ActiveCall
  <2>5. \A m : Full(m)' = Full(m)
    BY <1>1 DEF Full
  <2>6. (length'[call'[t]] + 1) - left'[t] = 0 /\ Full(0)
    BY <1>3, <1>4 DEF Full
  <2> QED
    BY <1>1, <1>4, <2>2, <2>3, <2>4, <2>5, <2>6, <2>7 DEF FullInv, CallInv
<1> QED
  BY <1>6, <1>7, <1>8, <1>9

\* The next character is stored behind those of the same message; it may replace one
\* of another, but never uncovers a cell.
LEMMA PrintInv == ASSUME IInv, NEW t \in Tasks, print(t) PROVE IInv'
<1> USE DEF IInv
<1> DEFINE c == call[t]
           k == (length[c] + 1) - left[t] + 1
<1>1. /\ pc[t] = "print" /\ left[t] > 0 /\ left' = [left EXCEPT ![t] = @ - 1]
      /\ STONE_TX_BUF' = [STONE_TX_BUF EXCEPT ![k] = <<c, k>>]
      /\ UNCHANGED <<TX_CNT, pc, call, size, tx_mux, length, wire, alone>>
  BY DEF print
<1>2. /\ c \in 1 .. Len(length) /\ length[c] \in 1 .. TX_LEN - 1 /\ c \in 1 .. MaxCalls
      /\ left[t] \in 1 .. length[c] + 1 /\ k \in 1 .. TX_LEN /\ k \in 1 .. length[c] + 1
      /\ left'[t] = left[t] - 1
      /\ \A u \in Tasks \ {t} : left'[u] = left[u]
      /\ left' \in [Tasks -> Sizes]
  <2>1. c \in 1 .. Len(length) /\ length[c] \in 1 .. TX_LEN - 1 /\ c \in 1 .. MaxCalls
    BY <1>1, ActiveCall DEF Calls
  <2>2. left[t] \in 1 .. length[c] + 1
    BY <1>1, <2>1, ConstantsOK DEF TypeOK, CallInv, Sizes
  <2>3. left[t] - 1 \in Sizes /\ k \in 1 .. TX_LEN /\ k \in 1 .. length[c] + 1
    BY <2>1, <2>2, ConstantsOK DEF Sizes
  <2> QED
    BY <1>1, <2>1, <2>2, <2>3 DEF TypeOK
<1>3. /\ STONE_TX_BUF'[k] = <<c, k>>
      /\ \A j \in 1 .. TX_LEN : j # k => STONE_TX_BUF'[j] = STONE_TX_BUF[j]
      /\ <<c, k>> # Empty /\ PrintedAt(<<c, k>>, k)
  BY <1>1, <1>2 DEF TypeOK, Empty, PrintedAt
<1>4. TypeOK'
  <2>1. <<c, k>> \in Cells
    BY <1>2, ConstantsOK DEF Cells
  <2>2. STONE_TX_BUF' \in [1 .. TX_LEN -> Cells]
    BY <1>1, <2>1 DEF TypeOK
  <2> QED
    BY <1>1, <1>2, <2>2 DEF TypeOK
<1>5. CallInv'
  BY <1>1, <1>2, SMTT(30) DEF CallInv, TypeOK, Sizes
<1>6. AloneInv'
  <2>1. \A u \in Tasks : call[u] \in alone => u = t
    BY <1>1 DEF AloneInv
  <2>2. c \in alone => Printed(call[t], (length[call[t]] + 1) - left[t])'
    <3>1. \A j \in 1 .. (length[c] + 1) - left'[t] : j \in 1 .. TX_LEN /\ (j # k => j \in 1 .. k - 1)
      BY <1>2, ConstantsOK
    <3>2. c \in alone => \A j \in 1 .. k - 1 : STONE_TX_BUF[j] = <<c, j>>
      BY <1>1, <1>2 DEF AloneInv, Printed
    <3>3. ASSUME c \in alone, NEW j \in 1 .. (length[c] + 1) - left'[t]
          PROVE  STONE_TX_BUF'[j] = <<c, j>>
      <4> HIDE DEF c, k
      <4>1. CASE j = k
        BY ONLY <1>3, <4>1
      <4>2. CASE j # k
        <5>1. j \in 1 .. TX_LEN /\ j \in 1 .. k - 1
          BY ONLY <3>1, <3>3, <4>2
        <5> QED
          BY ONLY <1>3, <3>2, <3>3, <4>2, <5>1
      <4> QED
        BY ONLY <4>1, <4>2
    <3>4. UNCHANGED <<call, length>>
      BY <1>1
    <3> QED
      BY ONLY <3>3, <3>4 DEF Printed
  <2>3. \A d \in alone : Sent(d)' => Sent(d)
    BY <1>1 DEF Sent
  <2> QED
    BY <1>1, <2>1, <2>2, <2>3 DEF AloneInv, Message
<1>7. FullInv'
  <2>1. \A m \in Sizes : Full(m) => Full(m)'
    <3>1. \A m \in Sizes : \A j \in 1 .. m : j \in 1 .. TX_LEN
      BY ConstantsOK DEF Sizes
    <3> QED
      BY <1>3, <3>1 DEF Full
  <2>2. Full((length[call[t]] + 1) - left[t])'
    <3>1. \A j \in 1 .. (length[c] + 1) - left'[t] : j \in 1 .. TX_LEN /\ (j # k => j \in 1 .. k - 1)
      BY <1>2, ConstantsOK
    <3>2. \A j \in 1 .. k - 1 : STONE_TX_BUF[j] # Empty
      BY <1>1, <1>2 DEF FullInv, Full
    <3> QED
      BY <1>1, <1>3, <3>1, <3>2 DEF Full
  <2>3. ASSUME NEW u \in Tasks, pc[u] = "print"
        PROVE  (length[call[u]] + 1) - left[u] \in Sizes
    <3>1. length[call[u]] \in 1 .. TX_LEN - 1
      BY <2>3, ActiveCall
    <3>2. left[u] \in Sizes /\ left[u] <= length[call[u]] + 1
      BY <2>3 DEF TypeOK, CallInv
    <3> QED
      BY ONLY <3>1, <3>2, ConstantsOK DEF Sizes
  <2>6. \A cell, j : PrintedAt(cell, j)' = PrintedAt(cell, j)
    BY <1>1 DEF PrintedAt
  <2>4. OnlyPrinted' /\ \A m : SomeLength(m)' = SomeLength(m)
    BY <1>1, <2>6 DEF FullInv, OnlyPrinted, Sent, SomeLength
  <2>5. \A u \in Tasks : pc'[u] = "print" => Full((length[call[u]] + 1) - left[u])'
    BY <1>1, <1>2, <2>1, <2>2, <2>3 DEF FullInv, PrintedAt
  <2> QED
    BY <1>1, <1>3, <2>1, <2>4, <2>5, <2>6 DEF FullInv, TypeOK
<1> QED
  BY <1>4, <1>5, <1>6, <1>7

\* A call overlapped by no other finds its own length in TX_CNT: nobody else stores
\* there between its two accesses.
LEMMA PrintedInv == ASSUME IInv, NEW t \in Tasks, printed(t) PROVE IInv'
<1> USE DEF IInv
<1> DEFINE c == call[t]
<1>1. /\ pc[t] = "print" /\ left[t] = 0 /\ TX_CNT' = length[c]
      /\ pc' = [pc EXCEPT ![t] = "create"]
      /\ UNCHANGED <<STONE_TX_BUF, call, left, size, tx_mux, length, wire, alone>>
  BY DEF printed
<1>2. /\ c \in 1 .. Len(length) /\ length[c] \in 1 .. TX_LEN - 1
      /\ pc'[t] = "create" /\ \A u \in Tasks \ {t} : pc'[u] = pc[u]
      /\ pc' \in [Tasks -> Steps]
  BY <1>1, ActiveCall DEF TypeOK, Steps
<1>3. TypeOK'
  BY <1>1, <1>2, ConstantsOK DEF TypeOK, Sizes
<1>4. CallInv'
  BY <1>1, <1>2 DEF CallInv
<1>5. AloneInv'
  <2>1. \A u \in Tasks : call[u] \in alone => u = t
    BY <1>1 DEF AloneInv
  <2>2. c \in alone => Printed(c, length[c])
    <3>1. (length[c] + 1) - 0 = length[c] + 1 /\ length[c] \in Nat
      BY <1>2, ConstantsOK
    <3>2. c \in alone => Printed(c, length[c] + 1)
      BY <1>1, <3>1 DEF AloneInv
    <3> QED
      BY <3>1, <3>2 DEF Printed
  <2>3. \A d, n : Printed(d, n)' = Printed(d, n) /\ Sent(d)' = Sent(d)
    BY <1>1 DEF Printed, Sent
  <2>4. \A u \in Tasks : pc'[u] # "idle" => pc[u] # "idle"
    BY <1>1, <1>2
  <2> QED
    BY <1>1, <1>2, <2>1, <2>2, <2>3, <2>4 DEF AloneInv, Message
<1>6. FullInv'
  <2>1. Full(length[c]) /\ length[c] # 0 /\ SomeLength(length[c])
    <3>1. (length[c] + 1) - 0 = length[c] + 1 /\ length[c] \in Nat /\ length[c] # 0
      BY <1>2, ConstantsOK
    <3>2. Full(length[c] + 1)
      BY <1>1, <3>1 DEF FullInv
    <3> QED
      BY <1>2, <3>1, <3>2 DEF Full, SomeLength
  <2>2. \A m : Full(m)' = Full(m) /\ SomeLength(m)' = SomeLength(m)
    BY <1>1 DEF Full, SomeLength
  <2>3. OnlyPrinted'
    BY <1>1 DEF FullInv, OnlyPrinted, PrintedAt, Sent
  <2> QED
    BY <1>1, <1>2, <2>1, <2>2, <2>3 DEF FullInv, PrintedAt
<1> QED
  BY <1>3, <1>4, <1>5, <1>6

LEMMA CreateInv == ASSUME IInv, NEW t \in Tasks, tx_create(t) PROVE IInv'
<1> USE DEF IInv
<1>1. /\ pc[t] = "create" /\ size' = [size EXCEPT ![t] = TX_CNT]
      /\ pc' = [pc EXCEPT ![t] = "lock"]
      /\ UNCHANGED <<STONE_TX_BUF, TX_CNT, call, left, tx_mux, length, wire, alone>>
  BY DEF tx_create
<1>2. /\ pc'[t] = "lock" /\ \A u \in Tasks \ {t} : pc'[u] = pc[u] /\ size'[u] = size[u]
      /\ size'[t] = TX_CNT
      /\ pc' \in [Tasks -> Steps] /\ size' \in [Tasks -> Sizes]
  BY <1>1 DEF TypeOK, Steps
<1>3. TypeOK'
  BY <1>1, <1>2 DEF TypeOK
<1>4. CallInv'
  BY <1>1, <1>2 DEF CallInv
<1>5. AloneInv'
  <2>1. \A u \in Tasks : call[u] \in alone => u = t
    BY <1>1 DEF AloneInv
  <2>2. \A d, n : Printed(d, n)' = Printed(d, n) /\ Sent(d)' = Sent(d)
    BY <1>1 DEF Printed, Sent
  <2>3. \A u \in Tasks : pc'[u] # "idle" => pc[u] # "idle"
    BY <1>1, <1>2
  <2> QED
    BY <1>1, <1>2, <2>1, <2>2, <2>3 DEF AloneInv, Message
<1>6. FullInv'
  <2>1. \A m : Full(m)' = Full(m) /\ SomeLength(m)' = SomeLength(m)
    BY <1>1 DEF Full, SomeLength
  <2>2. OnlyPrinted'
    BY <1>1 DEF FullInv, OnlyPrinted, PrintedAt, Sent
  <2> QED
    BY <1>1, <1>2, <2>1, <2>2 DEF FullInv, PrintedAt
<1> QED
  BY <1>3, <1>4, <1>5, <1>6

LEMMA LockInv == ASSUME IInv, NEW t \in Tasks, uart_lock(t) PROVE IInv'
<1> USE DEF IInv
<1>1. /\ pc[t] = "lock" /\ tx_mux = {} /\ tx_mux' = {t}
      /\ left' = [left EXCEPT ![t] = size[t]] /\ pc' = [pc EXCEPT ![t] = "send"]
      /\ UNCHANGED <<STONE_TX_BUF, TX_CNT, call, size, length, wire, alone>>
  BY DEF uart_lock
<1>2. /\ pc'[t] = "send" /\ \A u \in Tasks \ {t} : pc'[u] = pc[u] /\ left'[u] = left[u]
      /\ left'[t] = size[t] /\ size[t] \in Sizes /\ size[t] \in Nat
      /\ pc' \in [Tasks -> Steps] /\ left' \in [Tasks -> Sizes]
  BY <1>1 DEF TypeOK, Steps, Sizes
<1>3. call[t] \in Calls /\ wire[call[t]] = <<>> /\ wire[call[t]] = Beginning(call[t], 0)
  BY <1>1, ActiveCall, BeginningFacts DEF CallInv
<1>4. TypeOK'
  BY <1>1, <1>2 DEF TypeOK
<1>5. CallInv'
  BY <1>1, <1>2 DEF CallInv
<1>6. AloneInv'
  <2>1. \A u \in Tasks : call[u] \in alone => u = t
    BY <1>1 DEF AloneInv
  <2>2. \A d, n : Printed(d, n)' = Printed(d, n) /\ Sent(d)' = Sent(d)
    BY <1>1 DEF Printed, Sent
  <2>3. \A u \in Tasks : pc'[u] # "idle" => pc[u] # "idle"
    BY <1>1, <1>2
  <2>4. call[t] \in alone => length[call[t]] - left'[t] = 0
    BY <1>1, <1>2 DEF AloneInv
  <2> QED
    BY <1>1, <1>2, <1>3, <2>1, <2>2, <2>3, <2>4 DEF AloneInv, Message
<1>7. FullInv'
  <2>1. \A m : Full(m)' = Full(m) /\ SomeLength(m)' = SomeLength(m)
    BY <1>1 DEF Full, SomeLength
  <2>2. OnlyPrinted'
    BY <1>1 DEF FullInv, OnlyPrinted, PrintedAt, Sent
  <2>3. Len(wire[call[t]]) = size[t] - left'[t]
    BY <1>2, <1>3
  <2> QED
    BY <1>1, <1>2, <2>1, <2>2, <2>3 DEF FullInv, PrintedAt
<1> QED
  BY <1>4, <1>5, <1>6, <1>7

\* The character that is sent next is the one at the next place of the buffer.
LEMMA SendInv == ASSUME IInv, NEW t \in Tasks, uart_send(t) PROVE IInv'
<1> USE DEF IInv
<1> DEFINE c == call[t]
           k == size[t] - left[t] + 1
           cell == STONE_TX_BUF[k]
<1>1. /\ pc[t] = "send" /\ left[t] > 0 /\ left' = [left EXCEPT ![t] = @ - 1]
      /\ wire' = [wire EXCEPT ![c] = Append(@, cell)]
      /\ UNCHANGED <<STONE_TX_BUF, TX_CNT, pc, call, size, tx_mux, length, alone>>
  BY DEF uart_send
<1>2. c \in Calls /\ c \in 1 .. Len(length) /\ length[c] \in 1 .. TX_LEN - 1
  BY <1>1, ActiveCall
<1>3. /\ size[t] \in Sizes /\ left[t] \in 1 .. size[t]
      /\ k \in 1 .. TX_LEN /\ k \in 1 .. size[t]
  BY <1>1, ConstantsOK DEF TypeOK, CallInv, Sizes
<1>4. /\ left[t] - 1 \in Sizes /\ left'[t] = left[t] - 1
      /\ \A u \in Tasks \ {t} : left'[u] = left[u]
      /\ left' \in [Tasks -> Sizes]
  BY <1>1, <1>3, ConstantsOK DEF TypeOK, Sizes
<1>5. cell \in Cells /\ PrintedAt(cell, k)
  <2>1. cell \in Cells /\ (cell # Empty => PrintedAt(cell, k))
    BY <1>3 DEF TypeOK, FullInv
  <2>2. Full(size[t])
    BY <1>1 DEF FullInv
  <2> QED
    BY <1>3, <2>1, <2>2 DEF Full
<1>6. /\ wire[c] \in Seq(Cells) /\ Len(wire[c]) = k - 1
      /\ wire'[c] = Append(wire[c], cell) /\ wire'[c] \in Seq(Cells)
      /\ Len(wire'[c]) = k /\ DOMAIN wire'[c] = 1 .. k
      /\ \A d \in Calls \ {c} : wire'[d] = wire[d]
      /\ wire' \in [Calls -> Seq(Cells)]
  BY <1>1, <1>2, <1>3, <1>5, AppendProperties, LenProperties DEF TypeOK, FullInv
<1>7. \A u \in Tasks \ {t} : call[u] # c
  BY <1>1 DEF CallInv
<1>8. TypeOK'
  BY <1>1, <1>4, <1>6 DEF TypeOK
<1>9. CallInv'
  <2>1. left'[t] <= size[t]
    BY <1>3, <1>4, ConstantsOK DEF Sizes
  <2>2. \A u \in Tasks : pc[u] \in {"print", "create", "lock"} =>
          call[u] \in Calls /\ call[u] # c
    BY <1>1, <1>7, ActiveCall
  <2>3. \A d \in Calls : d > Len(length) => d # c
    BY <1>2
  <2> QED
    BY <1>1, <1>4, <1>6, <2>1, <2>2, <2>3 DEF CallInv
<1>10. AloneInv'
  <2>1. \A u \in Tasks : call[u] \in alone => u = t
    BY <1>1 DEF AloneInv
  <2>2. \A d, n : Printed(d, n)' = Printed(d, n) /\ Sent(d)' = Sent(d)
    BY <1>1 DEF Printed, Sent
  <2>3. \A d \in alone : Sent(d) => wire'[d] = Message(d)
    <3>1. alone \subseteq Calls
      BY LengthFacts, ConstantsOK DEF TypeOK, Calls
    <3> QED
      BY <1>1, <1>6, <3>1, ActiveCall DEF AloneInv
  <2>4. c \in alone => wire'[c] = Beginning(c, length[c] - left'[t])
    <3>1. c \in alone => /\ size[t] = length[c] /\ cell = <<c, k>>
                         /\ wire[c] = Beginning(c, k - 1)
      <4>1. ASSUME c \in alone PROVE size[t] = length[c] /\ Printed(c, length[c])
                                     /\ wire[c] = Beginning(c, length[c] - left[t])
        BY <1>1, <4>1 DEF AloneInv
      <4>2. size[t] - left[t] = k - 1 /\ k \in 1 .. size[t]
        BY <1>3, ConstantsOK DEF Sizes
      <4> QED
        BY <4>1, <4>2 DEF Printed
    <3>2. Append(Beginning(c, k - 1), <<c, k>>) = Beginning(c, k)
      <4>1. k - 1 \in Nat /\ (k - 1) + 1 = k
        BY <1>3, ConstantsOK
      <4> QED
        BY <4>1, BeginningFacts
    <3>3. size[t] - left'[t] = k
      BY <1>3, <1>4, ConstantsOK DEF Sizes
    <3> QED
      BY <1>6, <3>1, <3>2, <3>3
  <2> QED
    BY <1>1, <2>1, <2>2, <2>3, <2>4 DEF AloneInv, Message
<1>11. FullInv'
  <2>1. \A m : Full(m)' = Full(m) /\ SomeLength(m)' = SomeLength(m)
    BY <1>1 DEF Full, SomeLength
  <2>2. \A d \in Calls : \A j \in DOMAIN wire'[d] : PrintedAt(wire'[d][j], j)
    <3>1. \A j \in 1 .. k - 1 : wire'[c][j] = wire[c][j] /\ j \in DOMAIN wire[c]
      BY <1>5, <1>6, AppendProperties, LenProperties
    <3>2. wire'[c][k] = cell
      BY <1>3, <1>5, <1>6, AppendProperties
    <3>3. \A j \in 1 .. k : j = k \/ j \in 1 .. k - 1
      BY <1>3
    <3>4. ASSUME NEW j \in DOMAIN wire'[c] PROVE PrintedAt(wire'[c][j], j)
      <4>1. CASE j = k
        BY <1>5, <3>2, <4>1
      <4>2. CASE j # k
        <5>1. wire'[c][j] = wire[c][j] /\ j \in DOMAIN wire[c]
          BY <1>6, <3>1, <3>3, <4>2
        <5> QED
          BY <1>2, <5>1 DEF FullInv, OnlyPrinted
      <4> QED
        BY <4>1, <4>2
    <3>5. \A d \in Calls : d # c => \A j \in DOMAIN wire'[d] : PrintedAt(wire'[d][j], j)
      BY <1>6 DEF FullInv, OnlyPrinted
    <3> QED
      BY <3>4, <3>5
  <2>3. \A d \in Calls : Sent(d)' => Sent(d) /\ d # c
    BY <1>1, <1>2, ActiveCall DEF Sent
  <2>4. OnlyPrinted'
    <3>1. ASSUME NEW d \in Calls, Sent(d)'
          PROVE  \E e \in 1 .. Len(length') : Len(wire'[d]) = length'[e]
      <4>1. Sent(d) /\ wire'[d] = wire[d] /\ length' = length
        BY <1>1, <1>6, <2>3, <3>1
      <4> QED
        BY <4>1 DEF FullInv, OnlyPrinted
    <3>2. \A e, j : PrintedAt(e, j)' = PrintedAt(e, j)
      BY <1>1 DEF PrintedAt
    <3> QED
      BY <2>2, <3>1, <3>2 DEF OnlyPrinted
  <2>5. size[t] - left'[t] = k
    BY <1>3, <1>4, ConstantsOK DEF Sizes
  <2>6. \A u \in Tasks : pc[u] = "send" => u = t
    BY <1>1 DEF CallInv
  <2>7. \A u \in Tasks : pc[u] = "print" => left'[u] = left[u]
    BY <1>1, <1>4
  <2>8. \A e, j : PrintedAt(e, j)' = PrintedAt(e, j)
    BY <1>1 DEF PrintedAt
  <2> QED
    BY <1>1, <1>6, <2>1, <2>4, <2>5, <2>6, <2>7, <2>8 DEF FullInv
<1> QED
  BY <1>8, <1>9, <1>10, <1>11

\* uart_write_bytes returns when all is sent.
LEMMA UnlockInv == ASSUME IInv, NEW t \in Tasks, uart_unlock(t) PROVE IInv'
<1> USE DEF IInv
<1> DEFINE c == call[t]
<1>1. /\ pc[t] = "send" /\ left[t] = 0 /\ tx_mux' = {}
      /\ pc' = [pc EXCEPT ![t] = "idle"]
      /\ call' = [call EXCEPT ![t] = 0] /\ size' = [size EXCEPT ![t] = 0]
      /\ UNCHANGED <<STONE_TX_BUF, TX_CNT, left, length, wire, alone>>
  BY DEF uart_unlock
<1>2. /\ pc'[t] = "idle" /\ call'[t] = 0
      /\ \A u \in Tasks \ {t} :
           pc'[u] = pc[u] /\ call'[u] = call[u] /\ size'[u] = size[u]
  BY <1>1 DEF TypeOK
<1>3. c \in Calls /\ c \in 1 .. Len(length) /\ c # 0 /\ length[c] \in 1 .. TX_LEN - 1
  BY <1>1, ActiveCall
<1>4. TypeOK'
  BY <1>1, ConstantsOK DEF TypeOK, Steps, Sizes
<1>5. CallInv'
  <2>1. \A u \in Tasks : call[u] = 0 => pc[u] = "idle"
    BY DEF CallInv
  <2>2. 0 <= Len(length)
    BY LengthFacts
  <2> QED
    BY <1>1, <1>2, <2>1, <2>2 DEF CallInv
<1>6. \A d : Sent(d)' => Sent(d) \/ d = c
  BY <1>1, <1>2 DEF Sent
<1>7. AloneInv'
  <2>1. \A u \in Tasks : call[u] \in alone => u = t
    BY <1>1 DEF AloneInv
  <2>2. c \in alone => wire[c] = Message(c)
    BY <1>1, <1>3, ConstantsOK DEF AloneInv, Beginning, Message
  <2>3. \A u \in Tasks : call'[u] \notin alone
    BY <1>2, <2>1 DEF TypeOK
  <2>4. \A d \in alone : Sent(d)' => wire[d] = Message(d)
    BY <1>6, <2>2 DEF AloneInv
  <2> QED
    BY <1>1, <2>3, <2>4 DEF AloneInv, Message
<1>8. FullInv'
  <2>1. \A m : Full(m)' = Full(m) /\ SomeLength(m)' = SomeLength(m)
    BY <1>1 DEF Full, SomeLength
  <2>2. SomeLength(Len(wire[c]))
    <3>1. Len(wire[c]) = size[t] - 0 /\ SomeLength(size[t])
      BY <1>1 DEF FullInv
    <3>2. size[t] - 0 = size[t]
      BY DEF TypeOK, Sizes
    <3> QED
      BY <3>1, <3>2
  <2>3. OnlyPrinted'
    BY <1>1, <1>6, <2>2 DEF FullInv, OnlyPrinted, PrintedAt, SomeLength
  <2>4. \A u \in Tasks : pc'[u] # "idle" =>
          pc'[u] = pc[u] /\ call'[u] = call[u] /\ size'[u] = size[u]
    BY <1>2
  <2>5. \A e, j : PrintedAt(e, j)' = PrintedAt(e, j)
    BY <1>1 DEF PrintedAt
  <2> QED
    BY <1>1, <2>1, <2>3, <2>4, <2>5 DEF FullInv
<1> QED
  BY <1>4, <1>5, <1>7, <1>8

LEMMA NextInv == IInv /\ [Next]_vars => IInv'
<1> SUFFICES ASSUME IInv, [Next]_vars PROVE IInv'
  OBVIOUS
<1>1. ASSUME NEW t \in Tasks, build(t) PROVE IInv'
  BY <1>1, BuildInv
<1>2. ASSUME NEW t \in Tasks, Step(t) PROVE IInv'
  BY <1>2, PrintInv, PrintedInv, CreateInv, LockInv, SendInv, UnlockInv DEF Step
<1>3. CASE UNCHANGED vars
  BY <1>3 DEF vars, IInv, TypeOK, CallInv, AloneInv, FullInv, Full, SomeLength,
     OnlyPrinted, PrintedAt, Printed, Sent, Message
<1> QED
  BY <1>1, <1>2, <1>3 DEF Next

LEMMA Invariance == Spec => []IInv
BY InitInv, NextInv, PTL DEF Spec

-----------------------------------------------------------------------------
(* The theorems.                                                           *)

\* A message whose call overlapped no other call of a builder reaches the line whole
\* (the builders of stone_transport.c with tx_create, stone_transport.c:51-54).
THEOREM AloneIsIntact == Spec => []IntactWhenAlone
<1>1. IInv => IntactWhenAlone
  BY DEF IInv, AloneInv, IntactWhenAlone
<1> QED
  BY <1>1, Invariance, PTL

\* However the calls overlap, tx_create sends at place k what sprintf stored at place
\* k for some message, a character of it or the NUL behind it, and as many cells as
\* one of the messages has characters.
THEOREM PrintedIsSent == Spec => []OnlyPrinted
<1>1. IInv => OnlyPrinted
  BY DEF IInv, FullInv
<1> QED
  BY <1>1, Invariance, PTL

=============================================================================
