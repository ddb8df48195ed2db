------------------------- MODULE StoneProtocol_proofs -------------------------
(***************************************************************************)
(* Theorems about the protocol between the ESP32 and the display.          *)
(*                                                                         *)
(* StoneFraming: for every number of frames, every length of a frame and   *)
(* of the buffer, and every way in which the reads split the bytes, a      *)
(* frame is closed by its own three bytes, frames reach receive_parse      *)
(* once, in order, all of them but those behind a split trailer, and only  *)
(* split trailers make the buffer grow.  The bytes are a chain, from the   *)
(* first of the first frame to the end.  The scan is at a byte of it       *)
(* (Pos), whether that is in the chunk that was read or still to come;     *)
(* what the buffer holds begins at an earlier byte (Start) and misses none *)
(* in between.  So it is enough to say how the two bytes lie.              *)
(*                                                                         *)
(* StonerBuffers: what a frame brings is in buffers that end; the length   *)
(* they share is that of the one to be cleared.                            *)
(*                                                                         *)
(* StoneMessages: the keys and the values of a message grow with its       *)
(* fields, and that is all that it takes to see that it says what was      *)
(* called.                                                                 *)
(***************************************************************************)
EXTENDS StoneFraming, StoneMessages, StonerBuffers, TLAPS,
        FiniteSetTheorems, SequenceTheorems, WellFoundedInduction

-----------------------------------------------------------------------------
(* The stream and the invariant.                                           *)

Place == Nat \X Nat

\* Byte b of the stream, and the byte behind it.
IsByte(b) == b[1] \in Frames /\ b[2] \in 1 .. head[b[1]] + TrailerLen
Succ(b) ==
  IF b[2] < head[b[1]] + TrailerLen THEN <<b[1], b[2] + 1>> ELSE <<b[1] + 1, 1>>
EndOfStream == <<NFrames + 1, 1>>

Before(b, c) == b[1] < c[1] \/ (b[1] = c[1] /\ b[2] < c[2])

\* The bytes of s follow each other, from byte b up to the one before c.
Chain(s, b, c) ==
  /\ s \in Seq(Place) /\ s # <<>>
  /\ s[1] = b /\ Succ(s[Len(s)]) = c
  /\ \A k \in 1 .. Len(s) : IsByte(s[k])
  /\ \A k \in 1 .. Len(s) - 1 : s[k + 1] = Succ(s[k])

\* The next byte that a read returns, and the next that is scanned; the byte that
\* the frame being collected begins with.
Ahead == IF rest = <<>> THEN EndOfStream ELSE rest[1]
Pos == IF i < len THEN chunk[i] ELSE Ahead
Start == IF STONE_RX_BUF = <<>> THEN Pos ELSE STONE_RX_BUF[1]

FramingTypeOK ==
  /\ head \in [Frames -> 1 .. MaxHead]
  /\ rest \in Seq(Place) /\ chunk \in [0 .. RX_LEN - 1 -> Place]
  /\ len \in 0 .. RX_LEN - 1 /\ i \in Nat
  /\ STONE_RX_BUF \in Seq(Place)
  /\ parsed \in Seq([first : Place, end : Seq(Place)])
  /\ cut \subseteq Frames

\* What is to come is a chain, and the chunk is one that ends before it.
StreamInv ==
  /\ rest # <<>> => Chain(rest, rest[1], EndOfStream)
  /\ \A j \in 0 .. len - 1 :
       /\ IsByte(chunk[j])
       /\ Succ(chunk[j]) = IF j + 1 < len THEN chunk[j + 1] ELSE Ahead
  /\ chunk[len] = NoByte

\* A trailer within which a chunk ends, or of which the scan has passed a byte
\* without closing the frame, was cut.
CutInv ==
  /\ CutBy(rest) \subseteq cut
  /\ Pos[1] \in Frames /\ Pos[2] > head[Pos[1]] + 1 => Pos[1] \in cut

\* The buffer holds what lies between Start and Pos.  It starts with a frame, or
\* behind a trailer that was cut; every frame that it runs past was cut.
BufInv ==
  /\ Start[1] \in 1 .. Pos[1] /\ Start[2] \in Nat
  /\ Start[2] = 1 \/ (Start[1] \in cut /\ Start[2] > head[Start[1]] + 1)
  /\ \A f \in Start[1] .. Pos[1] - 1 : f \in cut
  /\ Start = Pos \/ Before(Start, Pos)
  /\ Len(STONE_RX_BUF) + Start[2] <= MaxFrame * (Pos[1] - Start[1]) + Pos[2]

\* Frames were handed on in order, and all before Pos but those a cut has spoiled.
ParsedInv ==
  /\ \A n \in DOMAIN parsed : Before(parsed[n].first, Start)
  /\ \A m, n \in DOMAIN parsed : m < n => Before(parsed[m].first, parsed[n].first)
  /\ \A f \in Frames : f < Pos[1] /\ f \notin cut /\ (f - 1) \notin cut =>
       \E n \in DOMAIN parsed : parsed[n].first = <<f, 1>>

IInv ==
  /\ FramingTypeOK /\ StreamInv /\ CutInv /\ BufInv /\ ParsedInv /\ NoPhantomEnd

-----------------------------------------------------------------------------
(* The stream is a chain.                                                  *)

LEMMA LeastNat ==
  ASSUME NEW T, T \subseteq Nat, T # {}
  PROVE  \E x \in T : \A y \in T : x <= y
<1>1. PICK R : R = OpToRel(<, Nat)
  OBVIOUS
<1>2. IsWellFoundedOn(R, Nat)
  BY <1>1, NatLessThanWellFounded
<1>3. \E x \in T : \A y \in T : ~ (<<y, x>> \in R)
  BY <1>2, WFMin
<1>4. \A x, y \in Nat : x < y => <<x, y>> \in R
  BY <1>1 DEF OpToRel
<1>5. \A x, y \in Nat : ~(y < x) => x <= y
  OBVIOUS
<1> QED
  BY <1>3, <1>4, <1>5

\* Induction, for a set of numbers.
LEMMA InductiveSet ==
  ASSUME NEW T, 0 \in T, \A n \in Nat : n \in T => n + 1 \in T
  PROVE  Nat \subseteq T
<1> SUFFICES ASSUME Nat \ T # {} PROVE FALSE
  OBVIOUS
<1>1. PICK x \in Nat \ T : \A y \in Nat \ T : x <= y
  BY LeastNat
<1>2. x # 0 /\ x - 1 \in Nat /\ ~(x <= x - 1) /\ (x - 1) + 1 = x
  BY <1>1
<1> QED
  BY <1>1, <1>2

\* A byte and the one behind it.
LEMMA SuccIs ==
  ASSUME head \in [Frames -> 1 .. MaxHead], NEW b \in Place, IsByte(b)
  PROVE  /\ Succ(b) \in Place /\ Before(b, Succ(b))
         /\ IsByte(Succ(b)) \/ Succ(b) = EndOfStream
         /\ head[b[1]] \in 1 .. MaxHead /\ b[1] \in 1 .. NFrames
         /\ b = <<b[1], b[2]>>
         /\ \/ Succ(b) = <<b[1], b[2] + 1>> /\ b[2] < head[b[1]] + TrailerLen
            \/ Succ(b) = <<b[1] + 1, 1>> /\ b[2] = head[b[1]] + TrailerLen
<1>1. /\ head[b[1]] \in 1 .. MaxHead /\ b[1] \in 1 .. NFrames /\ b[2] \in Nat
      /\ b[2] <= head[b[1]] + TrailerLen /\ b = <<b[1], b[2]>>
      /\ MaxHead \in Nat /\ NFrames \in Nat
  BY ConstantsOK DEF IsByte, Frames, Place, TrailerLen
<1>2. CASE b[2] < head[b[1]] + TrailerLen
  <2>1. Succ(b) = <<b[1], b[2] + 1>>
    BY <1>2 DEF Succ
  <2> QED
    BY <1>1, <1>2, <2>1 DEF IsByte, Frames, Place, TrailerLen, Before
<1>3. CASE ~(b[2] < head[b[1]] + TrailerLen)
  <2>1. Succ(b) = <<b[1] + 1, 1>> /\ b[2] = head[b[1]] + TrailerLen
    BY <1>1, <1>3 DEF Succ, TrailerLen
  <2>2. b[1] + 1 \in Frames => head[b[1] + 1] \in 1 .. MaxHead
    OBVIOUS
  <2> QED
    BY <1>1, <2>1, <2>2
       DEF IsByte, Frames, Place, TrailerLen, Before, EndOfStream
<1> QED
  BY <1>2, <1>3

LEMMA FrameIsChain ==
  ASSUME head \in [Frames -> 1 .. MaxHead], NEW f \in Frames
  PROVE  Chain(Bytes(f, head), <<f, 1>>, <<f + 1, 1>>)
<1> DEFINE s == Bytes(f, head)
<1>1. head[f] \in 1 .. MaxHead /\ MaxHead \in Nat /\ f \in Nat
  BY ConstantsOK DEF Frames
<1>2. PICK n \in Nat : n = head[f] + TrailerLen /\ n > 5
  BY <1>1 DEF TrailerLen
<1>3. s \in Seq(Place) /\ Len(s) = n /\ \A k \in 1 .. n : s[k] = <<f, k>>
  <2>1. s = [k \in 1 .. n |-> <<f, k>>]
    BY <1>2 DEF Bytes
  <2>2. \A k \in 1 .. n : <<f, k>> \in Place
    BY <1>1, <1>2 DEF Place
  <2> HIDE DEF s
  <2>3. s \in [1 .. n -> Place]
    BY <2>1, <2>2
  <2>4. s \in Seq(Place) /\ Len(s) = n
    BY <1>2, <2>3
  <2> QED
    BY <2>1, <2>4
<1> HIDE DEF s
<1>4. \A k \in 1 .. n : IsByte(<<f, k>>)
  BY <1>2 DEF IsByte
<1>5. \A k \in 1 .. n - 1 : Succ(<<f, k>>) = <<f, k + 1>>
  BY <1>2 DEF Succ
<1>6. Succ(<<f, n>>) = <<f + 1, 1>>
  BY <1>2 DEF Succ
<1>7. 1 \in 1 .. n /\ n \in 1 .. n /\ s # <<>> /\ \A k \in 1 .. n - 1 : k + 1 \in 1 .. n /\ k \in 1 .. n
  BY <1>2, <1>3
<1>8. Chain(s, <<f, 1>>, <<f + 1, 1>>)
  BY <1>3, <1>4, <1>5, <1>6, <1>7 DEF Chain
<1> QED
  BY <1>8 DEF s

LEMMA ChainJoin ==
  ASSUME NEW s, NEW t, NEW b, NEW c, NEW d, Chain(s, b, c), Chain(t, c, d)
  PROVE  Chain(s \o t, b, d)
<1>1. s \in Seq(Place) /\ s # <<>> /\ t \in Seq(Place) /\ t # <<>>
  BY DEF Chain
<1>2. PICK m, n \in Nat : m = Len(s) /\ n = Len(t) /\ m > 0 /\ n > 0
  BY <1>1, EmptySeq, LenProperties
<1>3. PICK u : u = s \o t
  OBVIOUS
<1>4. /\ u \in Seq(Place) /\ Len(u) = m + n
      /\ \A k \in 1 .. m + n : u[k] = IF k <= m THEN s[k] ELSE t[k - m]
  BY <1>1, <1>2, <1>3, ConcatProperties
<1>5. /\ s[1] = b /\ Succ(s[m]) = c /\ t[1] = c /\ Succ(t[n]) = d
      /\ \A k \in 1 .. m : IsByte(s[k])
      /\ \A k \in 1 .. n : IsByte(t[k])
      /\ \A k \in 1 .. m - 1 : s[k + 1] = Succ(s[k])
      /\ \A k \in 1 .. n - 1 : t[k + 1] = Succ(t[k])
  BY <1>2 DEF Chain
<1>6. u # <<>> /\ u[1] = b /\ u[m + n] = t[n]
  BY <1>2, <1>4, <1>5
<1>7. ASSUME NEW k \in 1 .. m + n PROVE IsByte(u[k])
  <2>1. k <= m => k \in 1 .. m /\ u[k] = s[k]
    BY <1>2, <1>4
  <2>2. ~(k <= m) => k - m \in 1 .. n /\ u[k] = t[k - m]
    BY <1>2, <1>4
  <2> QED
    BY <1>5, <2>1, <2>2
<1>8. ASSUME NEW k \in 1 .. m + n - 1 PROVE u[k + 1] = Succ(u[k])
  <2>1. CASE k < m
    <3>1. k \in 1 .. m - 1 /\ u[k] = s[k] /\ u[k + 1] = s[k + 1]
      BY <1>2, <1>4, <2>1
    <3> QED
      BY <1>5, <3>1
  <2>2. CASE k = m
    <3>1. u[k] = s[m] /\ u[k + 1] = t[1]
      BY <1>2, <1>4, <2>2
    <3> QED
      BY <1>5, <3>1
  <2>3. CASE k > m
    <3>1. k - m \in 1 .. n - 1 /\ u[k] = t[k - m] /\ u[k + 1] = t[(k - m) + 1]
      BY <1>2, <1>4, <2>3
    <3> QED
      BY <1>5, <3>1
  <2> QED
    BY <1>2, <2>1, <2>2, <2>3
<1>9. Chain(u, b, d)
  BY <1>4, <1>5, <1>6, <1>7, <1>8 DEF Chain
<1> QED
  BY <1>3, <1>9

\* What is left of a chain when its first k bytes are gone.
LEMMA ChainRest ==
  ASSUME NEW s, NEW b, NEW c, Chain(s, b, c), NEW k \in 1 .. Len(s)
  PROVE  \/ k = Len(s) /\ SubSeq(s, k + 1, Len(s)) = <<>> /\ Succ(s[k]) = c
         \/ /\ k < Len(s) /\ SubSeq(s, k + 1, Len(s)) # <<>>
            /\ SubSeq(s, k + 1, Len(s))[1] = Succ(s[k])
            /\ Chain(SubSeq(s, k + 1, Len(s)), Succ(s[k]), c)
<1>1. s \in Seq(Place)
  BY DEF Chain
<1>2. PICK n \in Nat : n = Len(s) /\ k \in 1 .. n
  BY <1>1, LenProperties
<1>3. PICK u : u = SubSeq(s, k + 1, n)
  OBVIOUS
<1>4. /\ Succ(s[n]) = c
      /\ \A j \in 1 .. n : IsByte(s[j]) /\ s[j] \in Place
      /\ \A j \in 1 .. n - 1 : s[j + 1] = Succ(s[j])
  BY <1>1, <1>2, ElementOfSeq DEF Chain
<1>5. CASE k = n
  <2>1. u = <<>>
    BY <1>2, <1>3, <1>5, SubSeqEmpty
  <2> QED
    BY <1>2, <1>3, <1>4, <1>5, <2>1
<1>6. CASE k < n
  <2>1. \A j \in k + 1 .. n : s[j] \in Place
    BY <1>2, <1>4
  <2>2. /\ u \in Seq(Place) /\ Len(u) = n - k
        /\ \A j \in 1 .. n - k : u[j] = s[k + j]
    <3>1. /\ u \in Seq(Place) /\ Len(u) = IF k + 1 <= n THEN n - (k + 1) + 1 ELSE 0
          /\ \A j \in 1 .. n - (k + 1) + 1 : u[j] = s[k + 1 + j - 1]
      BY <1>2, <1>3, <2>1, SubSeqProperties
    <3> QED
      BY <1>2, <1>6, <3>1
  <2>3. u # <<>> /\ u[1] = Succ(s[k]) /\ u[n - k] = s[n]
    BY <1>2, <1>4, <1>6, <2>2
  <2>4. \A j \in 1 .. n - k : IsByte(u[j])
    BY <1>2, <1>4, <2>2
  <2>5. ASSUME NEW j \in 1 .. n - k - 1 PROVE u[j + 1] = Succ(u[j])
    <3>1. k + j \in 1 .. n - 1 /\ u[j] = s[k + j] /\ u[j + 1] = s[(k + j) + 1]
      <4>1. /\ k + j \in 1 .. n - 1 /\ j \in 1 .. n - k /\ j + 1 \in 1 .. n - k
            /\ k + (j + 1) = (k + j) + 1
        BY <1>2
      <4>2. u[j] = s[k + j] /\ u[j + 1] = s[k + (j + 1)]
        BY <2>2, <4>1
      <4> QED
        BY <4>1, <4>2
    <3> QED
      BY <1>4, <3>1
  <2>6. Chain(u, Succ(s[k]), c)
    BY <1>4, <2>2, <2>3, <2>4, <2>5 DEF Chain
  <2> QED
    BY <1>2, <1>3, <1>6, <2>3, <2>6
<1> QED
  BY <1>2, <1>5, <1>6

\* The bytes of the frames, joined by the recursive function of FlattenSeq.
LEMMA StreamIsChain ==
  ASSUME head \in [Frames -> 1 .. MaxHead]
  PROVE  IF NFrames = 0 THEN Stream(head) = <<>>
         ELSE Chain(Stream(head), <<1, 1>>, EndOfStream)
<1> DEFINE q == [f \in Frames |-> Bytes(f, head)]
           flatten[n \in 1 .. Len(q)] == IF n = 1 THEN q[n] ELSE flatten[n - 1] \o q[n]
<1>1. NFrames \in Nat
  BY ConstantsOK
<1>2. Len(q) = NFrames /\ Frames = 1 .. NFrames
  BY <1>1 DEF Frames
<1>3. \A f \in 1 .. NFrames : Chain(q[f], <<f, 1>>, <<f + 1, 1>>)
  BY <1>2, FrameIsChain
<1>4. CASE NFrames = 0
  <2>1. q = <<>>
    BY <1>2, <1>4
  <2> QED
    BY <1>2, <1>4, <2>1 DEF Stream, FlattenSeq
<1>5. CASE NFrames # 0
  <2> HIDE DEF q
  <2> DEFINE Solves(f, n) == f = [k \in 1 .. n |-> IF k = 1 THEN q[k] ELSE f[k - 1] \o q[k]]
             T == {n \in Nat : \E f : Solves(f, n)}
  <2>1. 0 \in T
    <3>1. Solves([k \in 1 .. 0 |-> 0], 0)
      OBVIOUS
    <3> QED
      BY <3>1
  <2>2. ASSUME NEW n \in Nat, n \in T PROVE n + 1 \in T
    <3>1. PICK f : Solves(f, n)
      BY <2>2
    <3> DEFINE last == IF n = 0 THEN q[1] ELSE f[n] \o q[n + 1]
               g == [k \in 1 .. n + 1 |-> IF k = n + 1 THEN last ELSE f[k]]
    <3>2. ASSUME NEW k \in 1 .. n + 1
          PROVE  g[k] = IF k = 1 THEN q[k] ELSE g[k - 1] \o q[k]
      <4>1. CASE k = n + 1
        <5>1. k = 1 <=> n = 0
          BY <4>1
        <5>2. n # 0 => k - 1 \in 1 .. n + 1 /\ k - 1 = n /\ n # n + 1
          BY <4>1
        <5> QED
          BY <4>1, <5>1, <5>2
      <4>2. CASE k # n + 1
        <5>1. k \in 1 .. n /\ (k # 1 => k - 1 \in 1 .. n + 1 /\ k - 1 # n + 1)
          BY <4>2
        <5>2. f[k] = IF k = 1 THEN q[k] ELSE f[k - 1] \o q[k]
          BY <3>1, <5>1
        <5> QED
          BY <4>2, <5>1, <5>2
      <4> QED
        BY <4>1, <4>2
    <3>3. Solves(g, n + 1)
      <4>1. g = [k \in 1 .. n + 1 |-> g[k]]
        OBVIOUS
      <4> HIDE DEF g
      <4> QED
        BY <3>2, <4>1
    <3> HIDE DEF g, Solves
    <3> QED
      BY <3>3
  <2>3. \E f : Solves(f, NFrames)
    <3> HIDE DEF Solves
    <3>1. Nat \subseteq T
      <4> HIDE DEF T
      <4> QED
        BY <2>1, <2>2, InductiveSet
    <3> QED
      BY <1>1, <3>1
  <2>4. Solves(flatten, NFrames)
    BY <1>2, <2>3
  <2>5. Stream(head) = flatten[NFrames]
    BY <1>2, <1>5 DEF Stream, FlattenSeq, q
  <2> HIDE DEF flatten, T
  <2>6. \A k \in 1 .. NFrames :
           flatten[k] = IF k = 1 THEN q[k] ELSE flatten[k - 1] \o q[k]
    BY <2>4
  <2> DEFINE U == {n \in Nat : n \in 1 .. NFrames => Chain(flatten[n], <<1, 1>>, <<n + 1, 1>>)}
  <2>7. ASSUME NEW n \in Nat, n \in U PROVE n + 1 \in U
    <3> SUFFICES ASSUME n + 1 \in 1 .. NFrames
                 PROVE  Chain(flatten[n + 1], <<1, 1>>, <<(n + 1) + 1, 1>>)
      OBVIOUS
    <3>1. CASE n = 0
      BY <1>3, <2>6, <3>1
    <3>2. CASE n # 0
      <4>1. n \in 1 .. NFrames /\ n + 1 # 1 /\ (n + 1) - 1 = n
        BY <1>1, <3>2
      <4>2. Chain(flatten[n], <<1, 1>>, <<n + 1, 1>>)
        BY <2>7, <4>1
      <4>3. flatten[n + 1] = flatten[n] \o q[n + 1]
        BY <2>6, <4>1
      <4> QED
        BY <1>3, <4>2, <4>3, ChainJoin
    <3> QED
      BY <3>1, <3>2
  <2>8. NFrames \in U
    <3>1. 0 \in U
      OBVIOUS
    <3> HIDE DEF U
    <3> QED
      BY <1>1, <2>7, <3>1, InductiveSet
  <2> QED
    BY <1>1, <1>5, <2>5, <2>8 DEF EndOfStream
<1> QED
  BY <1>4, <1>5

-----------------------------------------------------------------------------
(* The invariant.                                                          *)

LEMMA Initially == Init => IInv
<1> SUFFICES ASSUME Init PROVE IInv
  OBVIOUS
<1>1. /\ head \in [Frames -> 1 .. MaxHead] /\ NFrames \in Nat /\ MaxHead \in Nat
      /\ RX_LEN \in Nat /\ RX_LEN >= 2 /\ len = 0 /\ i = 0
      /\ STONE_RX_BUF = <<>> /\ parsed = <<>> /\ cut = {}
      /\ chunk = [j \in 0 .. RX_LEN - 1 |-> NoByte]
  BY ConstantsOK DEF Init
<1>2. IF NFrames = 0 THEN rest = <<>> ELSE Chain(rest, <<1, 1>>, EndOfStream)
  BY <1>1, StreamIsChain DEF Init
<1>3. rest \in Seq(Place) /\ Ahead = <<1, 1>>
  <2>1. CASE NFrames = 0
    BY <1>2, <2>1 DEF Ahead, EndOfStream
  <2>2. CASE NFrames # 0
    BY <1>2, <2>2 DEF Chain, Ahead
  <2> QED
    BY <2>1, <2>2
<1>4. rest # <<>> => Chain(rest, rest[1], EndOfStream)
  BY <1>2 DEF Chain
<1>5. Pos = <<1, 1>> /\ Start = <<1, 1>>
  BY <1>1, <1>3 DEF Pos, Start
<1>6. FramingTypeOK
  BY <1>1, <1>3 DEF FramingTypeOK, Place, NoByte
<1>7. StreamInv
  BY <1>1, <1>4 DEF StreamInv
<1>8. CutBy(rest) = {}
  <2> SUFFICES ASSUME NEW f \in Frames, rest # <<>>, rest[1][1] = f,
                      rest[1][2] > head[f] + 1
               PROVE  FALSE
    BY DEF CutBy
  <2>1. rest[1][2] = 1
    BY <1>3 DEF Ahead
  <2> QED
    BY <1>1, <2>1
<1>9. CutInv
  BY <1>1, <1>5, <1>8 DEF CutInv
<1>10. BufInv
  <2>1. Len(STONE_RX_BUF) = 0 /\ MaxFrame * (1 - 1) = 0
    BY <1>1 DEF MaxFrame, TrailerLen
  <2> QED
    BY <1>5, <2>1 DEF BufInv
<1>11. ParsedInv /\ NoPhantomEnd
  BY <1>1, <1>5 DEF ParsedInv, NoPhantomEnd, Frames
<1> QED
  BY <1>6, <1>7, <1>9, <1>10, <1>11 DEF IInv

\* Where the scan is, and what lies before it.
LEMMA PosIs ==
  ASSUME FramingTypeOK, StreamInv
  PROVE  /\ Ahead \in Place /\ (rest # <<>> => IsByte(Ahead) /\ Ahead = rest[1])
         /\ Pos \in Place /\ Pos = <<Pos[1], Pos[2]>>
         /\ IsByte(Pos) \/ Pos = EndOfStream
         /\ Pos[1] \in 1 .. NFrames + 1 /\ Pos[2] \in Nat \ {0}
         /\ i < len => IsByte(Pos) /\ Pos = chunk[i]
<1>1. NFrames \in Nat /\ RX_LEN \in Nat /\ EndOfStream \in Place
  BY ConstantsOK DEF EndOfStream, Place
<1>2. rest # <<>> => IsByte(rest[1]) /\ rest[1] \in Place
  BY EmptySeq DEF FramingTypeOK, StreamInv, Chain
<1>3. i < len => i \in 0 .. len - 1 /\ chunk[i] \in Place /\ IsByte(chunk[i])
  BY <1>1 DEF FramingTypeOK, StreamInv
<1>4. Ahead \in Place /\ (rest # <<>> => IsByte(Ahead) /\ Ahead = rest[1])
  BY <1>1, <1>2 DEF Ahead
<1>5. Pos \in Place /\ (IsByte(Pos) \/ Pos = EndOfStream)
  BY <1>1, <1>2, <1>3 DEF Pos, Ahead
<1>6. Pos = <<Pos[1], Pos[2]>>
  BY <1>5 DEF Place
<1>7. ASSUME NEW p \in Place, IsByte(p) \/ p = EndOfStream
      PROVE  p[1] \in 1 .. NFrames + 1 /\ p[2] \in Nat \ {0}
  <2>1. CASE IsByte(p)
    BY <1>1, <2>1 DEF IsByte, Frames, Place
  <2>2. CASE p = EndOfStream
    BY <1>1, <2>2 DEF EndOfStream
  <2> QED
    BY <1>7, <2>1, <2>2
<1> QED
  BY <1>3, <1>4, <1>5, <1>6, <1>7 DEF Pos

\* A read brings the chunk that begins with the byte ahead, and moves nothing.
LEMMA Reads ==
  ASSUME IInv, uart_read_bytes
  PROVE  IInv'
<1> USE DEF IInv
<1>1. PICK k \in 1 .. RX_LEN - 1 :
        /\ k <= Len(rest)
        /\ chunk' = [j \in 0 .. RX_LEN - 1 |->
                      IF j < k THEN rest[j + 1]
                      ELSE IF j = k THEN NoByte ELSE chunk[j]]
        /\ len' = k
        /\ rest' = SubSeq(rest, k + 1, Len(rest))
  BY DEF uart_read_bytes
<1>2. /\ i >= len /\ i' = 0 /\ cut' = cut \union CutBy(rest')
      /\ UNCHANGED <<head, STONE_RX_BUF, parsed>>
  BY DEF uart_read_bytes
<1>3. RX_LEN \in Nat /\ RX_LEN >= 2 /\ len \in Nat /\ i \in Nat
  BY ConstantsOK DEF FramingTypeOK
<1>4. PICK n \in Nat : n = Len(rest) /\ k \in 1 .. n /\ rest \in Seq(Place) /\ rest # <<>>
  BY <1>1, <1>3, LenProperties DEF FramingTypeOK
<1>5. Chain(rest, rest[1], EndOfStream)
  BY <1>4 DEF StreamInv
<1>6. PICK left : left = SubSeq(rest, k + 1, n)
  OBVIOUS
<1>7. IF k = n THEN left = <<>> /\ Succ(rest[k]) = EndOfStream
      ELSE left # <<>> /\ left[1] = Succ(rest[k]) /\ Chain(left, left[1], EndOfStream)
  <2>1. \/ k = n /\ left = <<>> /\ Succ(rest[k]) = EndOfStream
        \/ /\ k < n /\ left # <<>> /\ left[1] = Succ(rest[k])
           /\ Chain(left, Succ(rest[k]), EndOfStream)
    BY <1>4, <1>5, <1>6, ChainRest
  <2> QED
    BY <2>1
<1>8. rest' = left /\ left \in Seq(Place)
  BY <1>1, <1>4, <1>6, <1>7 DEF Chain
<1>9. \A j \in 0 .. k - 1 :
        /\ chunk'[j] = rest[j + 1] /\ IsByte(rest[j + 1]) /\ rest[j + 1] \in Place
        /\ j + 1 < k => chunk'[j + 1] = rest[(j + 1) + 1] /\ rest[(j + 1) + 1] = Succ(rest[j + 1])
  <2> TAKE j \in 0 .. k - 1
  <2>1. /\ j \in 0 .. RX_LEN - 1 /\ j < k /\ j + 1 \in 1 .. n
        /\ j + 1 < k => j + 1 \in 0 .. RX_LEN - 1 /\ j + 1 \in 1 .. n - 1
    BY <1>3, <1>4
  <2>2. /\ IsByte(rest[j + 1]) /\ rest[j + 1] \in Place
        /\ j + 1 < k => rest[(j + 1) + 1] = Succ(rest[j + 1])
    BY <1>4, <1>5, <2>1, ElementOfSeq DEF Chain
  <2> QED
    BY <1>1, <2>1, <2>2
<1>10. chunk'[k] = NoByte /\ chunk' \in [0 .. RX_LEN - 1 -> Place]
  <2>1. chunk'[k] = NoByte
    BY <1>1, <1>3
  <2>2. ASSUME NEW j \in 0 .. RX_LEN - 1 PROVE chunk'[j] \in Place
    <3>1. CASE j < k
      BY <1>9, <3>1
    <3>2. CASE ~(j < k)
      BY <1>1, <3>2 DEF FramingTypeOK, Place, NoByte
    <3> QED
      BY <3>1, <3>2
  <2> QED
    BY <1>1, <2>1, <2>2
<1>11. Pos = rest[1] /\ Pos' = Pos /\ Start' = Start
  <2>1. Pos = rest[1]
    BY <1>2, <1>3, <1>4 DEF Pos, Ahead
  <2>2. chunk'[0] = rest[1]
    BY <1>9
  <2>3. Pos' = chunk'[0]
    BY <1>1, <1>2 DEF Pos
  <2>4. Pos' = Pos
    BY <2>1, <2>2, <2>3
  <2> QED
    BY <1>2, <2>1, <2>4 DEF Start
<1>12. \A b : (IsByte(b))' = IsByte(b) /\ (Succ(b))' = Succ(b)
  BY <1>2 DEF IsByte, Succ
<1>13. FramingTypeOK'
  <2>1. CutBy(rest') \subseteq Frames
    BY DEF CutBy
  <2> QED
    BY <1>1, <1>2, <1>3, <1>8, <1>10, <2>1 DEF FramingTypeOK
<1>14. StreamInv'
  <2>1. Ahead' = IF left = <<>> THEN EndOfStream ELSE left[1]
    BY <1>8 DEF Ahead, EndOfStream
  <2>2. left # <<>> => Chain(rest, rest[1], EndOfStream)'
    <3> SUFFICES ASSUME left # <<>> PROVE Chain(rest, rest[1], EndOfStream)'
      OBVIOUS
    <3>1. Chain(left, left[1], EndOfStream)
      BY <1>7
    <3> QED
      BY <1>8, <1>12, <3>1 DEF Chain, EndOfStream
  <2>3. ASSUME NEW j \in 0 .. k - 1
        PROVE  /\ IsByte(chunk'[j])
               /\ Succ(chunk'[j]) = IF j + 1 < k THEN chunk'[j + 1] ELSE Ahead'
    <3>1. CASE j + 1 < k
      BY <1>9, <3>1
    <3>2. CASE ~(j + 1 < k)
      <4>1. j + 1 = k
        BY <3>2
      <4> QED
        BY <1>7, <1>9, <2>1, <4>1
    <3> QED
      BY <3>1, <3>2
  <2> QED
    BY <1>1, <1>8, <1>10, <1>12, <2>2, <2>3 DEF StreamInv
<1>15. CutInv'
  <2>1. (CutBy(rest))' = CutBy(rest')
    BY <1>2 DEF CutBy
  <2> QED
    BY <1>2, <1>11, <2>1 DEF CutInv
<1>16. BufInv'
  BY <1>2, <1>11 DEF BufInv, MaxFrame
<1>17. ParsedInv' /\ NoPhantomEnd'
  BY <1>2, <1>11 DEF ParsedInv, NoPhantomEnd
<1> QED
  BY <1>13, <1>14, <1>15, <1>16, <1>17

\* Facts of the byte that is scanned, and of the one behind it.
LEMMA Scans ==
  ASSUME FramingTypeOK, StreamInv, CutInv, i < len
  PROVE  /\ chunk[i] = Pos /\ IsByte(Pos) /\ i \in 0 .. len - 1
         /\ Succ(Pos) = IF i + 1 < len THEN chunk[i + 1] ELSE Ahead
         /\ Letter(At(i)) = ">" => Pos[2] = head[Pos[1]] + 1
         /\ Pos[2] = head[Pos[1]] + 1 => FrameEnds \/ Pos[1] \in cut
<1>1. /\ RX_LEN \in Nat /\ len \in 0 .. RX_LEN - 1 /\ i \in Nat /\ i \in 0 .. len - 1
      /\ NFrames \in Nat
  BY ConstantsOK DEF FramingTypeOK
<1>2. PICK p \in Place : p = Pos /\ chunk[i] = p /\ IsByte(p)
  BY PosIs
<1>3. PICK f, h : f = p[1] /\ h = head[f]
  OBVIOUS
<1>4. /\ f \in Frames /\ f \in 1 .. NFrames /\ h \in Nat \ {0}
      /\ p = <<f, p[2]>> /\ p[2] \in Nat /\ p # NoByte
  <2>1. f \in Frames /\ h \in 1 .. MaxHead
    BY <1>2, <1>3 DEF IsByte, FramingTypeOK
  <2>2. f \in 1 .. NFrames /\ h \in Nat \ {0}
    BY <2>1, ConstantsOK DEF Frames
  <2> QED
    BY <1>2, <1>3, <2>1, <2>2 DEF Place, NoByte
<1>5. \A j \in 0 .. len - 1 : At(j) = chunk[j] /\ Succ(chunk[j]) = IF j + 1 < len THEN chunk[j + 1] ELSE Ahead
  BY <1>1 DEF At, StreamInv
<1>6. \A k \in 1 .. 4 : k + h < h + 5 => <<f, h + k>> # NoByte /\ Succ(<<f, h + k>>) = <<f, h + k + 1>>
  BY <1>3, <1>4 DEF Succ, TrailerLen, NoByte
<1>7. Letter(p) = ">" => p[2] = h + 1
  BY <1>3, <1>4 DEF Letter
<1>8. ASSUME p[2] = h + 1, ~FrameEnds PROVE f \in cut
  <2>1. p = <<f, h + 1>> /\ Letter(p) = ">" /\ Succ(p) = <<f, h + 2>>
    BY <1>3, <1>4, <1>6, <1>8 DEF Letter
  <2>2. ASSUME NEW k \in {2, 3}, Ahead = <<f, h + k>> PROVE f \in cut
    <3>1. Ahead # EndOfStream
      BY <1>1, <1>4, <2>2 DEF EndOfStream
    <3>2. rest # <<>> /\ rest[1] = <<f, h + k>>
      BY <2>2, <3>1 DEF Ahead
    <3>3. f \in CutBy(rest)
      BY <1>3, <1>4, <3>2 DEF CutBy
    <3> QED
      BY <3>3 DEF CutInv
  <2>3. CASE i + 1 < len
    <3>1. chunk[i + 1] = <<f, h + 2>> /\ i + 1 \in 0 .. len - 1
      BY <1>1, <1>2, <1>5, <2>1, <2>3
    <3>2. Letter(<<f, h + 2>>) = "E" /\ Letter(<<f, h + 3>>) = "T"
      BY <1>3, <1>4 DEF Letter, NoByte
    <3>3. Succ(chunk[i + 1]) = <<f, h + 3>>
      BY <1>4, <1>6, <3>1
    <3>4. ~(i + 2 < len)
      <4> SUFFICES ASSUME i + 2 < len PROVE FALSE
        OBVIOUS
      <4>1. (i + 1) + 1 = i + 2 /\ i + 2 \in 0 .. len - 1
        BY <1>1
      <4>2. chunk[i + 2] = <<f, h + 3>>
        BY <1>5, <3>1, <3>3, <4>1
      <4>3. At(i) = p /\ At(i + 1) = <<f, h + 2>> /\ At(i + 2) = <<f, h + 3>>
        BY <1>1, <1>2, <1>5, <3>1, <4>1, <4>2
      <4> QED
        BY <1>8, <2>1, <3>2, <4>3 DEF FrameEnds
    <3>5. Ahead = <<f, h + 3>>
      BY <1>1, <1>5, <3>1, <3>3, <3>4
    <3> QED
      BY <2>2, <3>5
  <2>4. CASE ~(i + 1 < len)
    <3>1. Ahead = <<f, h + 2>>
      BY <1>1, <1>2, <1>5, <2>1, <2>4
    <3> QED
      BY <2>2, <3>1
  <2> QED
    BY <2>3, <2>4
<1> QED
  BY <1>1, <1>2, <1>3, <1>5, <1>7, <1>8

\* The end of a frame: its three bytes are in the chunk, next to each other; when its
\* CRC is not, it is cut.
LEMMA Ends ==
  ASSUME FramingTypeOK, StreamInv, CutInv, i < len, FrameEnds,
         NEW f, NEW h, f = Pos[1], h = head[f]
  PROVE  /\ Pos = <<f, h + 1>>
         /\ <<At(i), At(i + 1), At(i + 2)>> = [k \in 1 .. 3 |-> <<f, h + k>>]
         /\ LET p == IF i + 5 < len THEN chunk[i + 5] ELSE Ahead
            IN  p = <<f + 1, 1>> \/ (p \in {<<f, h + 4>>, <<f, h + 5>>} /\ f \in cut)
<1>1. /\ RX_LEN \in Nat /\ len \in 0 .. RX_LEN - 1 /\ i \in Nat /\ i \in 0 .. len - 1
      /\ NFrames \in Nat
  BY ConstantsOK DEF FramingTypeOK
<1>2. Pos \in Place /\ chunk[i] = Pos /\ IsByte(Pos) /\ Pos = <<f, Pos[2]>>
  BY PosIs
<1>3. f \in Frames /\ f \in 1 .. NFrames /\ h \in Nat \ {0}
  <2>1. f \in Frames /\ h \in 1 .. MaxHead
    BY <1>2 DEF IsByte, FramingTypeOK
  <2> QED
    BY <2>1, ConstantsOK DEF Frames
<1>4. Pos[2] = h + 1
  BY Scans DEF FrameEnds
<1>5. Letter(At(len)) = ""
  <2>1. At(len) = NoByte
    BY <1>1 DEF At, StreamInv
  <2> QED
    BY <2>1 DEF Letter
<1>6. i + 1 # len /\ i + 2 # len
  BY <1>5 DEF FrameEnds
<1>7. i + 1 \in 0 .. len - 1 /\ i + 2 \in 0 .. len - 1
  BY <1>1, <1>6
<1>8. \A j \in 0 .. len - 1 : At(j) = chunk[j] /\ Succ(chunk[j]) = IF j + 1 < len THEN chunk[j + 1] ELSE Ahead
  BY <1>1 DEF At, StreamInv
<1>9. /\ Succ(<<f, h + 1>>) = <<f, h + 2>> /\ Succ(<<f, h + 2>>) = <<f, h + 3>>
      /\ Succ(<<f, h + 3>>) = <<f, h + 4>> /\ Succ(<<f, h + 4>>) = <<f, h + 5>>
      /\ Succ(<<f, h + 5>>) = <<f + 1, 1>>
  BY <1>3 DEF Succ, TrailerLen
<1>10. chunk[i] = <<f, h + 1>> /\ chunk[i + 1] = <<f, h + 2>> /\ chunk[i + 2] = <<f, h + 3>>
  <2>1. chunk[i] = <<f, h + 1>>
    BY <1>2, <1>4
  <2>2. chunk[i + 1] = <<f, h + 2>>
    BY <1>1, <1>7, <1>8, <1>9, <2>1
  <2>3. (i + 1) + 1 = i + 2 /\ i + 2 < len
    BY <1>1, <1>7
  <2> QED
    BY <1>7, <1>8, <1>9, <2>1, <2>2, <2>3
<1>11. <<At(i), At(i + 1), At(i + 2)>> = [k \in 1 .. 3 |-> <<f, h + k>>]
  <2>1. At(i) = <<f, h + 1>> /\ At(i + 1) = <<f, h + 2>> /\ At(i + 2) = <<f, h + 3>>
    BY <1>1, <1>7, <1>8, <1>10
  <2>2. <<At(i), At(i + 1), At(i + 2)>> = <<<<f, h + 1>>, <<f, h + 2>>, <<f, h + 3>>>>
    BY <2>1, Zenon
  <2>3. <<<<f, h + 1>>, <<f, h + 2>>, <<f, h + 3>>>> = [k \in 1 .. 3 |-> <<f, h + k>>]
    OBVIOUS
  <2> QED
    BY ONLY <2>2, <2>3
<1>12. ASSUME NEW k \in {4, 5}, Ahead = <<f, h + k>> PROVE f \in cut
  <2>1. Ahead # EndOfStream
    BY <1>1, <1>3, <1>12 DEF EndOfStream
  <2>2. rest # <<>> /\ rest[1] = <<f, h + k>>
    BY <1>12, <2>1 DEF Ahead
  <2>3. f \in CutBy(rest)
    BY <1>3, <2>2 DEF CutBy
  <2> QED
    BY <2>3 DEF CutInv
<1>13. CASE ~(i + 3 < len)
  <2>1. Ahead = <<f, h + 4>> /\ ~(i + 5 < len)
    BY <1>1, <1>7, <1>8, <1>9, <1>10, <1>13
  <2> QED
    BY <1>2, <1>4, <1>11, <1>12, <2>1
<1>14. CASE i + 3 < len /\ ~(i + 4 < len)
  <2>1. i + 3 \in 0 .. len - 1 /\ (i + 2) + 1 = i + 3 /\ (i + 3) + 1 = i + 4
    BY <1>1, <1>14
  <2>2. chunk[i + 3] = <<f, h + 4>>
    BY <1>7, <1>8, <1>9, <1>10, <1>14, <2>1
  <2>3. Ahead = <<f, h + 5>> /\ ~(i + 5 < len)
    BY <1>1, <1>8, <1>9, <1>14, <2>1, <2>2
  <2> QED
    BY <1>2, <1>4, <1>11, <1>12, <2>3
<1>15. CASE i + 4 < len
  <2>1. /\ i + 3 \in 0 .. len - 1 /\ (i + 2) + 1 = i + 3 /\ (i + 3) + 1 = i + 4
        /\ i + 4 \in 0 .. len - 1 /\ (i + 4) + 1 = i + 5 /\ i + 3 < len
    BY <1>1, <1>15
  <2>2. chunk[i + 3] = <<f, h + 4>>
    BY <1>7, <1>8, <1>9, <1>10, <2>1
  <2>3. chunk[i + 4] = <<f, h + 5>>
    BY <1>8, <1>9, <1>15, <2>1, <2>2
  <2>4. (IF i + 5 < len THEN chunk[i + 5] ELSE Ahead) = <<f + 1, 1>>
    BY <1>8, <1>9, <2>1, <2>3
  <2> QED
    BY <1>2, <1>4, <1>11, <2>4
<1> QED
  BY <1>13, <1>14, <1>15

-----------------------------------------------------------------------------
(* The steps of the scan.                                                  *)

\* What a scan of the chunk leaves alone.
LEMMA ChunkStays ==
  ASSUME FramingTypeOK, StreamInv, CutInv, i' \in Nat,
         UNCHANGED <<head, rest, chunk, len, cut>>,
         Pos'[1] \in Frames /\ Pos'[2] > head[Pos'[1]] + 1 => Pos'[1] \in cut
  PROVE  StreamInv' /\ CutInv'
<1>1. \A b : (IsByte(b))' = IsByte(b) /\ (Succ(b))' = Succ(b)
  BY DEF IsByte, Succ
<1>2. \A s, b : (Chain(s, b, EndOfStream))' = Chain(s, b, EndOfStream)
  BY <1>1 DEF Chain, EndOfStream
<1>3. Ahead' = Ahead /\ CutBy(rest)' = CutBy(rest)
  BY DEF Ahead, EndOfStream, CutBy
<1>4. StreamInv'
  BY <1>1, <1>2, <1>3 DEF StreamInv
<1>5. CutInv'
  BY <1>3 DEF CutInv
<1> QED
  BY <1>4, <1>5

\* The length of what lies between two bytes.
LEMMA Distance ==
  ASSUME NEW m \in Nat, NEW n \in Nat
  PROVE  MaxFrame \in Nat /\ MaxFrame * n \in Nat
         /\ MaxFrame * (n + 1) = MaxFrame * n + MaxFrame
<1>1. MaxFrame \in Nat
  BY ConstantsOK DEF MaxFrame, TrailerLen
<1> QED
  BY <1>1

\* A byte that does not end a frame joins those in the buffer.
LEMMA Copies ==
  ASSUME IInv, CopyByte
  PROVE  IInv'
<1> USE DEF IInv
<1>1. /\ i < len /\ ~FrameEnds /\ i' = i + 1
      /\ STONE_RX_BUF' = Append(STONE_RX_BUF, chunk[i])
      /\ UNCHANGED <<head, rest, chunk, len, parsed, cut>>
  BY DEF CopyByte
<1>2. /\ RX_LEN \in Nat /\ len \in 0 .. RX_LEN - 1 /\ i \in Nat /\ NFrames \in Nat
      /\ STONE_RX_BUF \in Seq(Place)
  BY ConstantsOK DEF FramingTypeOK
<1>3. PICK p \in Place : p = Pos /\ chunk[i] = p /\ IsByte(p)
  BY <1>1, PosIs
<1>4. PICK n \in Place : n = Succ(p)
  BY <1>3, SuccIs DEF FramingTypeOK
<1>5. PICK st \in Place : st = Start
  <2>1. STONE_RX_BUF # <<>> => STONE_RX_BUF[1] \in Place
    BY <1>2, EmptySeq
  <2> QED
    BY <1>3, <2>1 DEF Start
<1>6. PICK l \in Nat : l = Len(STONE_RX_BUF)
  BY <1>2, LenProperties
<1>7. Pos' = n
  <2>1. n = IF i + 1 < len THEN chunk[i + 1] ELSE Ahead
    BY <1>1, <1>3, <1>4, Scans
  <2> QED
    BY <1>1, <2>1 DEF Pos, Ahead, EndOfStream
<1>8. /\ STONE_RX_BUF' \in Seq(Place) /\ STONE_RX_BUF' # <<>>
      /\ Len(STONE_RX_BUF') = l + 1
      /\ STONE_RX_BUF'[1] = IF STONE_RX_BUF = <<>> THEN p ELSE STONE_RX_BUF[1]
  BY <1>1, <1>2, <1>3, <1>6
<1>9. Start' = st
  BY <1>3, <1>5, <1>8 DEF Start
<1>10. PICK f, h : f = p[1] /\ h = head[f]
  OBVIOUS
<1>11. /\ f \in 1 .. NFrames /\ f \in Frames /\ h \in 1 .. MaxHead /\ p = <<f, p[2]>> /\ p[2] \in Nat
       /\ Before(p, n)
       /\ \/ n = <<f, p[2] + 1>> /\ p[2] < h + TrailerLen
          \/ n = <<f + 1, 1>> /\ p[2] = h + TrailerLen
  BY <1>3, <1>4, <1>10, SuccIs DEF FramingTypeOK, IsByte, Place
<1>12. p[2] >= h + 1 => f \in cut
  <2>1. p[2] = h + 1 => f \in cut
    BY <1>1, <1>3, <1>10, Scans
  <2>2. p[2] > h + 1 => f \in cut
    BY <1>3, <1>10, <1>11 DEF CutInv
  <2> QED
    BY <1>11, <2>1, <2>2
<1>13. n = <<f + 1, 1>> => f \in cut
  BY <1>11, <1>12 DEF TrailerLen
<1>14. FramingTypeOK'
  BY <1>1, <1>2, <1>8 DEF FramingTypeOK
<1>15. StreamInv' /\ CutInv'
  <2>1. n[1] \in Frames /\ n[2] > head[n[1]] + 1 => n[1] \in cut
    <3>1. CASE n = <<f, p[2] + 1>>
      BY <1>10, <1>11, <1>12, <3>1
    <3>2. CASE n = <<f + 1, 1>>
      <4>1. f + 1 \in Frames => head[f + 1] \in 1 .. MaxHead
        BY DEF FramingTypeOK
      <4> QED
        BY <3>2, <4>1, ConstantsOK
    <3> QED
      BY <1>11, <3>1, <3>2
  <2> QED
    BY <1>1, <1>2, <1>7, <2>1, ChunkStays
<1>16. BufInv'
  <2>1. /\ st[1] \in 1 .. f /\ st[2] \in Nat
        /\ st[2] = 1 \/ (st[1] \in cut /\ st[2] > head[st[1]] + 1)
        /\ \A g \in st[1] .. f - 1 : g \in cut
        /\ st = p \/ Before(st, p)
        /\ l + st[2] <= MaxFrame * (f - st[1]) + p[2]
    BY <1>3, <1>5, <1>6, <1>10 DEF BufInv
  <2>2. st[1] \in 1 .. n[1] /\ Before(st, n)
    <3>1. st[1] \in Nat /\ st[2] \in Nat /\ n[1] \in Nat /\ n[2] \in Nat /\ p[1] = f
      BY <1>2, <1>10, <1>11, <2>1
    <3>2. st[1] \in 1 .. n[1]
      BY <1>11, <2>1
    <3> QED
      BY <1>11, <2>1, <3>1, <3>2 DEF Before
  <2>3. \A g \in st[1] .. n[1] - 1 : g \in cut
    <3>1. CASE n[1] = f
      BY <2>1, <3>1
    <3>2. CASE n = <<f + 1, 1>>
      <4>1. \A g \in st[1] .. n[1] - 1 : g = f \/ g \in st[1] .. f - 1
        BY <1>11, <2>1, <3>2
      <4> QED
        BY <1>13, <2>1, <3>2, <4>1
    <3> QED
      BY <1>11, <3>1, <3>2
  <2>4. (l + 1) + st[2] <= MaxFrame * (n[1] - st[1]) + n[2]
    <3>1. CASE n = <<f, p[2] + 1>>
      <4>1. PICK x \in Nat : x = MaxFrame * (f - st[1])
        <5>1. f - st[1] \in Nat
          BY <1>11, <2>1
        <5> QED
          BY <5>1, Distance
      <4> QED
        BY <1>11, <2>1, <3>1, <4>1
    <3>2. CASE n = <<f + 1, 1>> /\ p[2] = h + TrailerLen
      <4>1. PICK d \in Nat : d = f - st[1] /\ d + 1 = n[1] - st[1]
        BY <1>11, <2>1, <3>2
      <4>2. MaxFrame * (d + 1) = MaxFrame * d + MaxFrame /\ MaxFrame * d \in Nat
        BY Distance
      <4>3. p[2] <= MaxFrame /\ MaxFrame \in Nat
        BY <1>11, <3>2, ConstantsOK DEF MaxFrame, TrailerLen
      <4>4. l + st[2] <= MaxFrame * d + p[2]
        BY <2>1, <4>1
      <4> HIDE DEF MaxFrame
      <4>5. PICK x, y \in Nat : x = MaxFrame * d /\ y = MaxFrame * (d + 1) /\ y = x + MaxFrame
        BY <4>2, <4>3
      <4>6. (l + 1) + st[2] <= y + 1
        BY <1>11, <2>1, <4>3, <4>4, <4>5
      <4> QED
        BY <3>2, <4>1, <4>5, <4>6
    <3> QED
      BY <1>11, <3>1, <3>2
  <2> QED
    BY <1>1, <1>7, <1>8, <1>9, <2>1, <2>2, <2>3, <2>4 DEF BufInv, MaxFrame
<1>17. ParsedInv'
  <2>1. ASSUME NEW g \in Frames, g < n[1], g \notin cut, (g - 1) \notin cut
        PROVE  \E k \in DOMAIN parsed : parsed[k].first = <<g, 1>>
    <3>1. g # f \/ n[1] = f
      BY <1>11, <1>13, <2>1
    <3>2. g < f
      BY <1>2, <1>11, <2>1, <3>1 DEF Frames
    <3> QED
      BY <1>3, <1>10, <2>1, <3>2 DEF ParsedInv
  <2> QED
    BY <1>1, <1>5, <1>7, <1>9, <2>1 DEF ParsedInv
<1>18. NoPhantomEnd'
  BY <1>1 DEF NoPhantomEnd
<1> QED
  BY <1>14, <1>15, <1>16, <1>17, <1>18

LEMMA Appended ==
  ASSUME NEW S, NEW s \in Seq(S), NEW e
  PROVE  /\ DOMAIN s = 1 .. Len(s) /\ DOMAIN Append(s, e) = 1 .. Len(s) + 1
         /\ Len(s) \in Nat /\ Append(s, e)[Len(s) + 1] = e
         /\ \A k \in 1 .. Len(s) : Append(s, e)[k] = s[k] /\ s[k] \in S
<1>1. PICK T : S \subseteq T /\ e \in T
  <2>1. S \subseteq S \union {e} /\ e \in S \union {e}
    OBVIOUS
  <2> QED
    BY <2>1
<1>2. s \in Seq(T)
  BY <1>1, SeqMonotonic
<1>3. /\ Append(s, e) \in Seq(T) /\ Len(Append(s, e)) = Len(s) + 1
      /\ \A k \in 1 .. Len(s) : Append(s, e)[k] = s[k]
      /\ Append(s, e)[Len(s) + 1] = e
  BY <1>1, <1>2, AppendProperties
<1>4. DOMAIN s = 1 .. Len(s) /\ Len(s) \in Nat /\ \A k \in 1 .. Len(s) : s[k] \in S
  BY LenProperties, ElementOfSeq
<1>5. DOMAIN Append(s, e) = 1 .. Len(s) + 1
  BY <1>3, LenProperties
<1> QED
  BY <1>3, <1>4, <1>5

\* A frame is handed on, and the buffer starts anew behind it.
LEMMA Closes ==
  ASSUME IInv, CloseFrame
  PROVE  IInv'
<1> USE DEF IInv
<1>1. PICK buf, new :
        /\ buf = STONE_RX_BUF \o [k \in 1 .. TrailerLen |-> At(i + k - 1)]
        /\ new = [first |-> buf[1], end |-> <<At(i), At(i + 1), At(i + 2)>>]
        /\ parsed' = Append(parsed, new)
  BY DEF CloseFrame
<1>2. /\ i < len /\ FrameEnds /\ STONE_RX_BUF' = <<>> /\ i' = i + 5
      /\ UNCHANGED <<head, rest, chunk, len, cut>>
  BY DEF CloseFrame, TrailerLen
<1>3. /\ RX_LEN \in Nat /\ len \in 0 .. RX_LEN - 1 /\ i \in Nat /\ NFrames \in Nat
      /\ STONE_RX_BUF \in Seq(Place) /\ cut \subseteq Frames
      /\ parsed \in Seq([first : Place, end : Seq(Place)])
  BY ConstantsOK DEF FramingTypeOK
<1>4. PICK f, h : f = Pos[1] /\ h = head[f]
  OBVIOUS
<1>5. f \in Frames /\ f \in 1 .. NFrames /\ h \in 1 .. MaxHead /\ MaxHead \in Nat
  BY <1>2, <1>4, PosIs, ConstantsOK DEF IsByte, Frames, FramingTypeOK
<1>6. PICK n : /\ n = IF i + 5 < len THEN chunk[i + 5] ELSE Ahead
               /\ n = <<f + 1, 1>> \/ (n \in {<<f, h + 4>>, <<f, h + 5>>} /\ f \in cut)
  BY <1>2, <1>4, Ends
<1>7. /\ Pos = <<f, h + 1>>
      /\ <<At(i), At(i + 1), At(i + 2)>> = [k \in 1 .. 3 |-> <<f, h + k>>]
  BY <1>2, <1>4, Ends
<1>8. Pos' = n
  BY <1>2, <1>6 DEF Pos, Ahead, EndOfStream
<1>9. Start' = n
  BY <1>2, <1>8 DEF Start
<1>10. PICK st \in Place : st = Start
  <2>1. STONE_RX_BUF # <<>> => STONE_RX_BUF[1] \in Place
    BY <1>3, EmptySeq
  <2> QED
    BY <2>1, PosIs DEF Start
<1>11. /\ st[1] \in 1 .. f /\ st[2] \in Nat
       /\ st[2] = 1 \/ (st[1] \in cut /\ st[2] > head[st[1]] + 1)
       /\ \A g \in st[1] .. f - 1 : g \in cut
       /\ st = <<f, h + 1>> \/ Before(st, <<f, h + 1>>)
  BY <1>4, <1>7, <1>10 DEF BufInv
<1>12. STONE_RX_BUF # <<>>
  <2> SUFFICES ASSUME STONE_RX_BUF = <<>> PROVE FALSE
    OBVIOUS
  <2>1. st = <<f, h + 1>>
    BY <1>7, <1>10 DEF Start
  <2> QED
    BY <1>4, <1>5, <1>11, <2>1
<1>13. new.first = st /\ new.end = [k \in 1 .. 3 |-> <<f, h + k>>]
  <2>1. buf[1] = STONE_RX_BUF[1]
    <3> DEFINE tail == [k \in 1 .. TrailerLen |-> At(i + k - 1)]
    <3>1. PICK V : V = {At(i + k - 1) : k \in 1 .. TrailerLen}
      OBVIOUS
    <3>2. tail \in Seq(V)
      <4>1. \A k \in 1 .. TrailerLen : At(i + k - 1) \in V
        BY <3>1
      <4>2. TrailerLen \in Nat
        BY DEF TrailerLen
      <4> QED
        BY <4>1, <4>2
    <3>3. Len(STONE_RX_BUF) \in Nat /\ Len(STONE_RX_BUF) > 0
      BY <1>3, <1>12, EmptySeq
    <3> HIDE DEF tail
    <3> QED
      <4>1. PICK T : STONE_RX_BUF \in Seq(T) /\ tail \in Seq(T)
        <5>1. Place \subseteq Place \union V /\ V \subseteq Place \union V
          OBVIOUS
        <5> QED
          BY <1>3, <3>2, <5>1, SeqMonotonic
      <4>2. Len(tail) \in Nat /\ 1 \in 1 .. Len(STONE_RX_BUF) + Len(tail)
        BY <3>3, <4>1, LenProperties
      <4>3. (STONE_RX_BUF \o tail)[1] = STONE_RX_BUF[1]
        BY <3>3, <4>1, <4>2, ConcatProperties
      <4> QED
        BY <1>1, <4>3 DEF tail
  <2>2. st = STONE_RX_BUF[1]
    BY <1>10, <1>12 DEF Start
  <2> QED
    BY <1>1, <1>7, <2>1, <2>2
<1>14. /\ n \in Place /\ n[1] \in {f, f + 1} /\ Before(<<f, h + 1>>, n) /\ n[2] \in Nat
       /\ n[2] = 1 \/ (n[1] = f /\ f \in cut /\ n[2] > h + 1)
  BY <1>5, <1>6 DEF Before, Place
<1>15. PICK z \in Nat : /\ z = Len(parsed) /\ DOMAIN parsed = 1 .. z /\ DOMAIN parsed' = 1 .. z + 1
                        /\ \A k \in 1 .. z : parsed'[k] = parsed[k] /\ parsed[k].first \in Place
                        /\ parsed'[z + 1] = new
  <2>1. PICK S : S = [first : Place, end : Seq(Place)] /\ parsed \in Seq(S)
    BY <1>3
  <2>2. /\ DOMAIN parsed = 1 .. Len(parsed) /\ DOMAIN parsed' = 1 .. Len(parsed) + 1
        /\ Len(parsed) \in Nat /\ parsed'[Len(parsed) + 1] = new
        /\ \A k \in 1 .. Len(parsed) : parsed'[k] = parsed[k] /\ parsed[k] \in S
    <3>1. PICK old : old = parsed /\ old \in Seq(S)
      BY <2>1
    <3>2. parsed' = Append(old, new)
      BY <1>1, <3>1
    <3>3. /\ DOMAIN old = 1 .. Len(old) /\ DOMAIN Append(old, new) = 1 .. Len(old) + 1
          /\ Len(old) \in Nat /\ Append(old, new)[Len(old) + 1] = new
          /\ \A k \in 1 .. Len(old) : Append(old, new)[k] = old[k] /\ old[k] \in S
      BY <3>1, Appended
    <3> QED
      BY <3>1, <3>2, <3>3, Zenon
  <2> QED
    BY <2>1, <2>2
<1>16. Before(st, n)
  <2>1. st[1] \in Nat /\ st[2] \in Nat /\ h + 1 \in Nat /\ f \in Nat /\ n[1] \in Nat /\ n[2] \in Nat
    BY <1>5, <1>11, <1>14
  <2> QED
    BY <1>11, <1>14, <2>1 DEF Before
<1>17. FramingTypeOK'
  <2>1. new \in [first : Place, end : Seq(Place)]
    <3>1. \A k \in 1 .. 3 : <<f, h + k>> \in Place
      BY <1>5 DEF Place
    <3>2. new.end \in Seq(Place)
      BY <1>13, <3>1
    <3>3. new = [first |-> new.first, end |-> new.end]
      BY <1>1
    <3> QED
      BY <1>10, <1>13, <3>2, <3>3
  <2>2. parsed' \in Seq([first : Place, end : Seq(Place)])
    <3>1. PICK S : S = [first : Place, end : Seq(Place)] /\ parsed \in Seq(S) /\ new \in S
      BY <1>3, <2>1
    <3>2. parsed' \in Seq(S)
      BY <1>1, <3>1, AppendProperties
    <3> QED
      BY <3>1, <3>2
  <2> QED
    BY <1>2, <1>3, <2>2 DEF FramingTypeOK
<1>18. StreamInv' /\ CutInv'
  <2>1. n[1] \in Frames /\ n[2] > head[n[1]] + 1 => n[1] \in cut
    <3>1. CASE n[2] = 1
      <4>1. n[1] \in Frames => head[n[1]] \in 1 .. MaxHead
        BY DEF FramingTypeOK
      <4> QED
        BY <1>5, <3>1, <4>1
    <3>2. CASE n[2] # 1
      BY <1>14, <3>2
    <3> QED
      BY <3>1, <3>2
  <2> QED
    BY <1>2, <1>3, <1>8, <2>1, ChunkStays
<1>19. BufInv'
  <2>1. n[1] \in 1 .. n[1] /\ n[1] - n[1] = 0 /\ MaxFrame * 0 = 0 /\ n[1] .. n[1] - 1 = {}
    <3>1. n[1] \in Nat /\ n[1] >= 1 /\ MaxFrame \in Nat
      BY <1>5, <1>14, ConstantsOK DEF MaxFrame, TrailerLen
    <3> HIDE DEF MaxFrame
    <3> QED
      BY <3>1
  <2>2. n[2] = 1 \/ (n[1] \in cut /\ n[2] > head[n[1]] + 1)
    BY <1>4, <1>14
  <2>3. Len(STONE_RX_BUF') = 0
    BY <1>2
  <2> QED
    BY <1>2, <1>8, <1>9, <1>14, <2>1, <2>2, <2>3 DEF BufInv, MaxFrame
<1>20. ParsedInv'
  <2>1. ASSUME NEW k \in 1 .. z + 1 PROVE Before(parsed'[k].first, n)
    <3>1. CASE k = z + 1
      BY <1>13, <1>15, <1>16, <3>1
    <3>2. CASE k # z + 1
      <4>1. k \in 1 .. z /\ parsed'[k] = parsed[k]
        BY <1>15, <3>2
      <4>2. PICK b \in Place : b = parsed[k].first
        BY <1>15, <4>1
      <4>3. Before(b, st)
        BY <1>10, <1>15, <4>1, <4>2 DEF ParsedInv
      <4>4. Before(b, n)
        BY <1>10, <1>14, <1>16, <4>3 DEF Before, Place
      <4> QED
        BY <4>1, <4>2, <4>4
    <3> QED
      BY <3>1, <3>2
  <2>2. ASSUME NEW j \in 1 .. z + 1, NEW k \in 1 .. z + 1, j < k
        PROVE  Before(parsed'[j].first, parsed'[k].first)
    <3>1. j \in 1 .. z /\ parsed'[j] = parsed[j]
      BY <1>15, <2>2
    <3>2. CASE k = z + 1
      BY <1>10, <1>13, <1>15, <3>1, <3>2 DEF ParsedInv
    <3>3. CASE k # z + 1
      BY <1>15, <2>2, <3>1, <3>3 DEF ParsedInv
    <3> QED
      BY <3>2, <3>3
  <2>3. ASSUME NEW g \in Frames, g < n[1], g \notin cut, (g - 1) \notin cut
        PROVE  \E k \in 1 .. z + 1 : parsed'[k].first = <<g, 1>>
    <3>1. CASE g < f
      <4>1. PICK k \in 1 .. z : parsed[k].first = <<g, 1>>
        BY <1>4, <1>15, <2>3, <3>1 DEF ParsedInv
      <4> QED
        BY <1>15, <4>1
    <3>2. CASE ~(g < f)
      <4>1. g = f
        BY <1>3, <1>5, <1>14, <2>3, <3>2 DEF Frames
      <4>2. st[1] = f
        <5> SUFFICES ASSUME st[1] # f PROVE FALSE
          OBVIOUS
        <5>1. f - 1 \in st[1] .. f - 1
          BY <1>5, <1>11
        <5> QED
          BY <1>11, <2>3, <4>1, <5>1
      <4>3. st = <<f, 1>>
        BY <1>10, <1>11, <2>3, <4>1, <4>2 DEF Place
      <4> QED
        BY <1>13, <1>15, <4>1, <4>3
    <3> QED
      BY <3>1, <3>2
  <2> QED
    BY <1>2, <1>8, <1>9, <1>15, <2>1, <2>2, <2>3 DEF ParsedInv
<1>21. NoPhantomEnd'
  <2>1. ASSUME NEW k \in 1 .. z + 1
        PROVE  \E g \in Frames : parsed'[k].end = [j \in 1 .. 3 |-> <<g, head[g] + j>>]
    <3>1. CASE k = z + 1
      BY <1>4, <1>5, <1>13, <1>15, <3>1
    <3>2. CASE k # z + 1
      <4>1. k \in DOMAIN parsed /\ parsed'[k] = parsed[k]
        BY <1>15, <3>2
      <4> QED
        BY <4>1 DEF NoPhantomEnd
    <3> QED
      BY <3>1, <3>2
  <2>2. DOMAIN parsed' = 1 .. z + 1 /\ head' = head
    BY <1>2, <1>15
  <2> QED
    BY ONLY <2>1, <2>2, SMT DEF NoPhantomEnd
<1> QED
  BY <1>17, <1>18, <1>19, <1>20, <1>21

\* Every behaviour keeps the invariant.
LEMMA Invariance == Spec => []IInv
<1>1. IInv /\ UNCHANGED vars => IInv'
  <2> SUFFICES ASSUME IInv, UNCHANGED vars PROVE IInv'
    OBVIOUS
  <2> USE DEF IInv
  <2>1. UNCHANGED <<head, rest, chunk, len, i, STONE_RX_BUF, parsed, cut>>
    BY DEF vars, scan
  <2>2. Ahead' = Ahead /\ Pos' = Pos /\ Start' = Start
    BY <2>1 DEF Ahead, Pos, Start, EndOfStream
  <2>3. FramingTypeOK' /\ NoPhantomEnd'
    <3>1. FramingTypeOK'
      BY <2>1 DEF FramingTypeOK
    <3>2. NoPhantomEnd'
      BY <2>1 DEF NoPhantomEnd
    <3> QED
      BY <3>1, <3>2
  <2>4. StreamInv' /\ CutInv'
    BY <2>1, <2>2, ChunkStays DEF FramingTypeOK, CutInv
  <2>5. BufInv'
    BY <2>1, <2>2 DEF BufInv, MaxFrame
  <2>6. ParsedInv'
    BY <2>1, <2>2 DEF ParsedInv
  <2> QED
    BY <2>3, <2>4, <2>5, <2>6
<1>2. IInv /\ [Next]_vars => IInv'
  BY <1>1, Reads, Copies, Closes DEF Next
<1> QED
  BY <1>2, Initially, PTL DEF Spec

-----------------------------------------------------------------------------
(* The theorems.                                                           *)

\* What uart_task (stone_receive.c:39) takes for the end of a frame are the three bytes
\* of one frame, however the reads split it and whatever older chunks have left behind.
THEOREM EndsAreOwn == Spec => []NoPhantomEnd
BY Invariance, PTL DEF IInv

\* Frames reach receive_parse once and in their order, and all of them do but the one
\* behind each trailer that two reads share (stone_receive.c:37-56).
THEOREM FramesDelivered == Spec => []Delivery
<1>1. IInv => DamageIsLocal
  <2> SUFFICES ASSUME IInv, NEW f \in Frames, Seen(f), f \notin cut, (f - 1) \notin cut
               PROVE  f \in Delivered
    BY DEF DamageIsLocal
  <2>1. i >= len /\ i \in Nat /\ len \in Nat /\ f \in 1 .. NFrames /\ NFrames \in Nat
    BY ConstantsOK DEF IInv, FramingTypeOK, Seen, Frames
  <2>2. f < Pos[1]
    BY <2>1 DEF Seen, Pos, Ahead, EndOfStream
  <2>3. PICK n \in DOMAIN parsed : parsed[n].first = <<f, 1>>
    BY <2>2 DEF IInv, ParsedInv
  <2>4. Whole(parsed[n]) /\ parsed[n].first[1] = f
    BY <2>3 DEF Whole
  <2> QED
    BY <2>4 DEF Delivered
<1>2. IInv => OnceInOrder
  BY DEF IInv, ParsedInv, Before, OnceInOrder, Whole
<1> QED
  BY <1>1, <1>2, Invariance, PTL DEF Delivery

\* STONE_RX_BUF, which nothing checks the end of (stone_receive.c:38), holds no more
\* than one frame for each trailer that was cut and one that is being received.
THEOREM BufferGrowsByCuts == Spec => []BufferBounded
<1>1. IInv => BufferBounded
  <2> SUFFICES ASSUME IInv PROVE BufferBounded
    OBVIOUS
  <2> USE DEF IInv
  <2>0. PICK st : st = Start
    OBVIOUS
  <2>1. PICK p \in Place : p = Pos /\ st = Start
    BY <2>0, PosIs
  <2>2. PICK d \in Nat : d = p[1] - st[1] /\ st[1] \in 1 .. p[1] /\ p[1] \in 1 .. NFrames + 1
    <3>1. p[1] \in 1 .. NFrames + 1 /\ st[1] \in 1 .. p[1] /\ NFrames \in Nat
      BY <2>1, PosIs, ConstantsOK DEF BufInv
    <3>2. p[1] - st[1] \in Nat
      BY <3>1
    <3> QED
      BY <3>1, <3>2
  <2>3. d <= Cardinality(cut) /\ Cardinality(cut) \in Nat
    <3>1. NFrames \in Nat /\ cut \subseteq 1 .. NFrames
      BY ConstantsOK DEF FramingTypeOK, Frames
    <3>2. IsFiniteSet(cut)
      <4>1. 1 \in Int /\ NFrames \in Int
        BY <3>1
      <4>2. IsFiniteSet(1 .. NFrames)
        BY ONLY <4>1, FS_Interval, Zenon
      <4> QED
        BY <3>1, <4>2, FS_Subset
    <3>3. st[1] .. p[1] - 1 \subseteq cut
      BY <2>1, <2>2 DEF BufInv
    <3>4. Cardinality(st[1] .. p[1] - 1) = d
      <4>1. st[1] \in Int /\ p[1] - 1 \in Int /\ p[1] \in Int
        BY <2>2, <3>1
      <4>2. Cardinality(st[1] .. p[1] - 1)
              = IF st[1] > p[1] - 1 THEN 0 ELSE (p[1] - 1) - st[1] + 1
        BY ONLY <4>1, FS_Interval, Zenon
      <4> QED
        BY <2>2, <4>1, <4>2
    <3> QED
      BY <3>2, <3>3, <3>4, FS_Subset, FS_CardinalityType
  <2>4. PICK c \in Nat : c = Cardinality(cut) /\ d <= c
    BY <2>3
  <2>5. MaxFrame \in Nat /\ MaxFrame * d <= MaxFrame * c /\ MaxFrame * d \in Nat /\ MaxFrame * c \in Nat
    <3>1. MaxFrame \in Nat
      BY ConstantsOK DEF MaxFrame, TrailerLen
    <3> HIDE DEF MaxFrame
    <3>2. \A x, a, b \in Nat : a <= b => x * a <= x * b
      OBVIOUS
    <3> QED
      BY <2>4, <3>1, <3>2
  <2>6. p[2] <= MaxFrame /\ p[2] \in Nat
    <3>1. CASE IsByte(p)
      BY <3>1, ConstantsOK DEF IsByte, FramingTypeOK, MaxFrame, TrailerLen
    <3>2. CASE p = EndOfStream
      BY <3>2, ConstantsOK DEF EndOfStream, MaxFrame, TrailerLen
    <3> QED
      BY <2>1, <3>1, <3>2, PosIs
  <2>7. /\ Len(STONE_RX_BUF) + st[2] <= MaxFrame * d + p[2]
        /\ st[2] \in Nat /\ Len(STONE_RX_BUF) \in Nat
    BY <2>1, <2>2, LenProperties DEF BufInv, FramingTypeOK
  <2> HIDE DEF MaxFrame
  <2>8. PICK x, y \in Nat : x = MaxFrame * d /\ y = MaxFrame * c
    BY <2>5
  <2>9. Len(STONE_RX_BUF) <= y + MaxFrame
    BY <2>5, <2>6, <2>7, <2>8, SMTT(30)
  <2> QED
    BY <2>4, <2>8, <2>9 DEF BufferBounded
<1> QED
  BY <1>1, Invariance, PTL

-----------------------------------------------------------------------------
(* The buffers of STONER.                                                  *)

\* A buffer holds a string of n characters c.
HoldsString(buf, c, n) ==
  /\ \E l \in Nat : n < l /\ DOMAIN buf = 1 .. l
  /\ buf[n + 1] = NUL
  /\ \A k \in 1 .. n : buf[k] = c

LEMMA StringHeld ==
  ASSUME NEW buf, NEW n \in Nat, NEW c, c # NUL, HoldsString(buf, c, n)
  PROVE  Terminated(buf) /\ CString(buf) = [k \in 1 .. n |-> c]
<1>1. PICK l \in Nat : n < l /\ DOMAIN buf = 1 .. l
  BY DEF HoldsString
<1>2. /\ n + 1 \in DOMAIN buf /\ buf[n + 1] = NUL
      /\ \A k \in 1 .. n : k \in DOMAIN buf /\ buf[k] = c
  BY <1>1 DEF HoldsString
<1> DEFINE ends == {k \in DOMAIN buf : buf[k] = NUL}
           e == CHOOSE k \in ends : \A j \in ends : k <= j
<1>3. n + 1 \in ends /\ \A j \in ends : n + 1 <= j
  <2>1. ASSUME NEW j \in ends PROVE n + 1 <= j
    <3>1. j \in 1 .. l /\ buf[j] = NUL
      BY <1>1
    <3>2. j \notin 1 .. n
      BY <1>2, <3>1
    <3> QED
      BY <3>1, <3>2
  <2> QED
    BY <1>2, <2>1
<1>4. ends \subseteq Nat
  BY <1>1
<1>5. e = n + 1
  <2> HIDE DEF ends
  <2>1. e \in ends /\ \A j \in ends : e <= j
    BY <1>3
  <2>2. e \in Nat /\ e <= n + 1 /\ n + 1 <= e
    BY <1>3, <1>4, <2>1
  <2> HIDE DEF e
  <2> QED
    BY <2>2
<1>6. CString(buf) = SubSeq(buf, 1, e - 1)
  BY <1>3 DEF CString
<1>7. SubSeq(buf, 1, n) = [k \in 1 .. n |-> c]
  <2>1. \A k \in 1 .. n : buf[k] \in {c}
    BY <1>2
  <2>2. /\ SubSeq(buf, 1, n) \in Seq({c}) /\ Len(SubSeq(buf, 1, n)) = n
    <3>1. /\ SubSeq(buf, 1, n) \in Seq({c})
          /\ Len(SubSeq(buf, 1, n)) = IF 1 <= n THEN n - 1 + 1 ELSE 0
      BY <2>1, SubSeqProperties
    <3> QED
      BY <3>1
  <2>3. PICK s : s = SubSeq(buf, 1, n)
    OBVIOUS
  <2>4. s \in [1 .. n -> {c}]
    BY <2>2, <2>3, LenProperties
  <2>5. s = [k \in 1 .. n |-> c]
    BY <2>4
  <2> QED
    BY <2>3, <2>5
<1> HIDE DEF e
<1>8. e - 1 = n
  BY <1>5
<1> QED
  BY <1>2, <1>6, <1>7, <1>8 DEF Terminated

\* malloc and memset of size bytes, and the copy of fewer into them.
LEMMA CopiedIs ==
  ASSUME NEW size \in Nat, NEW m \in Nat, NEW bytes, DOMAIN bytes = 1 .. m, m <= size + 1
  PROVE  LET buf == Copied(Fresh(size), bytes)
         IN  /\ DOMAIN buf = 1 .. size + 1 /\ Len(buf) = size + 1 /\ buf # Null
             /\ \A k \in 1 .. m : buf[k] = bytes[k]
             /\ \A k \in m + 1 .. size : buf[k] = NUL
<1> DEFINE buf == Copied(Fresh(size), bytes)
<1>1. DOMAIN Fresh(size) = 1 .. size + 1 /\ \A k \in 1 .. size : Fresh(size)[k] = NUL
  BY DEF Fresh
<1>2. DOMAIN buf = 1 .. size + 1
  BY <1>1 DEF Copied
<1>3. \A k \in 1 .. m : buf[k] = bytes[k]
  BY <1>1 DEF Copied
<1>4. \A k \in m + 1 .. size : buf[k] = NUL
  BY <1>1 DEF Copied
<1>5. Len(buf) = size + 1 /\ buf # Null
  <2>1. PICK b, V : b = buf /\ V = {b[k] : k \in 1 .. size + 1}
    OBVIOUS
  <2>2. b = [k \in 1 .. size + 1 |-> b[k]]
    BY <1>1, <2>1 DEF Copied
  <2>3. b \in [1 .. size + 1 -> V]
    BY <2>1, <2>2
  <2>4. b \in Seq(V) /\ Len(b) = size + 1
    BY <2>3
  <2>5. b # <<>>
    BY <2>4
  <2> QED
    BY <2>1, <2>4, <2>5 DEF Null
<1> QED
  BY <1>2, <1>3, <1>4, <1>5

Chars(c, n) == [1 .. n -> {c}]

\* A string in a buffer ends with a byte of its own,
LEMMA ClosedHeld ==
  ASSUME NEW c, c # NUL, NEW n \in Nat, NEW size \in Nat, n <= size,
         NEW s \in Chars(c, n), NEW b, b = Copied(Fresh(size), Append(s, NUL))
  PROVE  Terminated(b) /\ CString(b) = s /\ Len(b) = size + 1
<1>1. s \in Seq({c}) /\ Len(s) = n /\ \A k \in 1 .. n : s[k] = c
  BY DEF Chars
<1>2. PICK y : y = Append(s, NUL)
  OBVIOUS
<1>3. DOMAIN y = 1 .. n + 1 /\ y[n + 1] = NUL /\ \A k \in 1 .. n : y[k] = c
  <2>1. s \in Seq({c, NUL})
    BY <1>1, SeqMonotonic
  <2> QED
    BY <1>1, <1>2, <2>1, AppendProperties, LenProperties
<1>4. DOMAIN b = 1 .. size + 1 /\ Len(b) = size + 1 /\ b[n + 1] = NUL /\ \A k \in 1 .. n : b[k] = c
  <2>1. PICK m \in Nat : m = n + 1 /\ m <= size + 1 /\ DOMAIN y = 1 .. m
    BY <1>3
  <2>2. LET buf == Copied(Fresh(size), y)
        IN  /\ DOMAIN buf = 1 .. size + 1 /\ Len(buf) = size + 1
            /\ \A k \in 1 .. m : buf[k] = y[k]
    BY ONLY size \in Nat, <2>1, CopiedIs
  <2> QED
    BY <1>2, <1>3, <2>1, <2>2
<1>5. HoldsString(b, c, n)
  BY <1>4 DEF HoldsString
<1>6. s = [k \in 1 .. n |-> c]
  BY DEF Chars
<1> QED
  BY <1>4, <1>5, <1>6, StringHeld

\* or with one that was cleared.
LEMMA OpenHeld ==
  ASSUME NEW c, c # NUL, NEW n \in Nat, NEW size \in Nat, n < size,
         NEW s \in Chars(c, n), NEW b, b = Copied(Fresh(size), s)
  PROVE  Terminated(b) /\ CString(b) = s /\ Len(b) = size + 1
<1>1. DOMAIN s = 1 .. n /\ \A k \in 1 .. n : s[k] = c
  BY DEF Chars
<1>2. DOMAIN b = 1 .. size + 1 /\ Len(b) = size + 1 /\ b[n + 1] = NUL /\ \A k \in 1 .. n : b[k] = c
  BY <1>1, CopiedIs
<1>3. HoldsString(b, c, n)
  BY <1>2 DEF HoldsString
<1>4. s = [k \in 1 .. n |-> c]
  BY DEF Chars
<1> QED
  BY <1>2, <1>3, <1>4, StringHeld

\* So does a name.
LEMMA NameHeld ==
  ASSUME NEW n \in Nat, NEW size \in Nat, NEW b,
         \/ b = Copied(Fresh(size), Append(Name(n), NUL)) /\ n <= size
         \/ b = Copied(Fresh(size), Name(n)) /\ n < size
  PROVE  Terminated(b) /\ CString(b) = Name(n) /\ Len(b) = size + 1
<1>1. PICK c : c = "n" /\ c # NUL
  BY DEF NUL
<1>2. PICK s : s = Name(n) /\ s \in Chars(c, n)
  <2>1. PICK s : s = Name(n)
    OBVIOUS
  <2>2. s = [k \in 1 .. n |-> "n"]
    BY <2>1 DEF Name
  <2>3. s \in [1 .. n -> {"n"}]
    BY <2>2
  <2> QED
    BY <1>1, <2>1, <2>3 DEF Chars
<1>3. CASE b = Copied(Fresh(size), Append(Name(n), NUL)) /\ n <= size
  BY <1>1, <1>2, <1>3, ClosedHeld
<1>4. CASE b = Copied(Fresh(size), Name(n)) /\ n < size
  BY <1>1, <1>2, <1>4, OpenHeld
<1> QED
  BY <1>3, <1>4

\* A frame is a name and what follows it.
LEMMA NameAndRest ==
  ASSUME NEW S, NEW n \in Nat, NEW t \in Seq(S)
  PROVE  LET d == Name(n) \o t
         IN  /\ Len(d) = n + Len(t) /\ Len(t) \in Nat
             /\ SubSeq(d, 1, n) = Name(n)
             /\ \A k \in 1 .. Len(t) : d[n + k] = t[k]
<1>1. Name(n) \in Seq({"n"}) /\ Len(Name(n)) = n
  BY DEF Name
<1>2. PICK T : T = S \union {"n"}
  OBVIOUS
<1>3. S \subseteq T /\ {"n"} \subseteq T
  BY <1>2
<1>4. t \in Seq(T) /\ Name(n) \in Seq(T) /\ Len(t) \in Nat
  BY <1>1, <1>3, SeqMonotonic, LenProperties
<1>5. PICK d : d = Name(n) \o t
  OBVIOUS
<1>6. /\ d \in Seq(T) /\ Len(d) = n + Len(t)
      /\ \A k \in 1 .. n + Len(t) : d[k] = IF k <= n THEN Name(n)[k] ELSE t[k - n]
  <2>1. PICK u : u = Name(n) /\ u \in Seq(T) /\ Len(u) = n /\ d = u \o t
    BY <1>1, <1>4, <1>5
  <2>2. /\ d \in Seq(T) /\ Len(d) = Len(u) + Len(t)
        /\ \A k \in 1 .. Len(u) + Len(t) :
             d[k] = IF k <= Len(u) THEN u[k] ELSE t[k - Len(u)]
    BY <1>4, <2>1, ConcatProperties
  <2> QED
    BY <2>1, <2>2
<1>7. \A k \in 1 .. Len(t) : d[n + k] = t[k]
  BY <1>4, <1>6
<1>8. SubSeq(d, 1, n) = Name(n)
  <2>1. PICK s : s = SubSeq(d, 1, n)
    OBVIOUS
  <2>2. \A k \in 1 .. n : d[k] = "n" /\ d[k] \in {"n"}
    BY <1>4, <1>6 DEF Name
  <2>3. s \in Seq({"n"}) /\ Len(s) = n
    <3>1. s \in Seq({"n"}) /\ Len(s) = IF 1 <= n THEN n - 1 + 1 ELSE 0
      BY <2>1, <2>2, SubSeqProperties
    <3> QED
      BY <3>1
  <2>4. s \in [1 .. n -> {"n"}]
    BY <2>3, LenProperties
  <2>5. s = [k \in 1 .. n |-> "n"]
    BY <2>4
  <2> QED
    BY <2>1, <2>5 DEF Name
<1> QED
  BY <1>4, <1>5, <1>6, <1>7, <1>8

\* The four bytes at the end of a frame, turned round.
LEMMA FloatTurned ==
  ASSUME NEW d, NEW m \in Nat, \A k \in 1 .. 4 : d[m + k] = FloatBytes[k]
  PROVE  \A k \in 1 .. 4 : write_hex_to_float(SubSeq(d, m + 1, m + 4))[5 - k] = FloatBytes[k]
<1>1. PICK s : s = SubSeq(d, m + 1, m + 4)
  OBVIOUS
<1>2. \A k \in 1 .. 4 : s[k] = d[m + k]
  <2>1. PICK V : V = {d[j] : j \in m + 1 .. m + 4}
    OBVIOUS
  <2>2. \A j \in m + 1 .. m + 4 : d[j] \in V
    BY <2>1
  <2>3. \A k \in 1 .. (m + 4) - (m + 1) + 1 : s[k] = d[m + 1 + k - 1]
    BY <1>1, <2>2, SubSeqProperties
  <2> QED
    BY <2>3
<1>3. \A k \in 1 .. 4 : write_hex_to_float(s)[5 - k] = s[k]
  BY DEF write_hex_to_float
<1> QED
  BY <1>1, <1>2, <1>3

\* Until a text or a system frame has come, the length is that of widget, and the other
\* two buffers do not exist.
OwnInv ==
  /\ widget_last_len \in Nat
  /\ ~shared => /\ intact /\ data = Null /\ text = Null
                /\ widget = Null \/ Len(widget) = widget_last_len + 1

BuffersInv == FrameAsSent /\ OwnInv

\* A new buffer for widget, which the bytes fit, when no other buffer shares the length.
LEMMA LengthIsOwn ==
  ASSUME BuffersInv, NEW size \in Nat, NEW bytes, Len(bytes) <= size + 1,
         NEW kind, kind \notin {"text", "sys"}, NEW name, NEW carries,
         came(kind, name, carries), widgetinit(size, bytes), Len(widget') = size + 1
  PROVE  OwnInv'
<1>1. ~shared' => ~shared
  BY DEF came
<1>2. ~shared => intact'
  <2>1. intact' = (intact /\ Clears(widget, widget_last_len) /\ Len(bytes) <= size + 1)
    BY DEF widgetinit
  <2>2. ~shared => intact /\ Clears(widget, widget_last_len)
    BY DEF BuffersInv, OwnInv, Clears
  <2> QED
    BY <2>1, <2>2
<1>3. widget_last_len' = size
  BY DEF widgetinit
<1>4. ~shared => data' = Null /\ text' = Null
  <2>1. ~shared => data = Null /\ text = Null /\ Clears(widget, widget_last_len)
    BY DEF BuffersInv, OwnInv, Clears
  <2>2. Clears(widget, widget_last_len) => data' = data /\ text' = text
    BY DEF widgetinit, Struck
  <2> QED
    BY <2>1, <2>2
<1> QED
  BY <1>1, <1>2, <1>3, <1>4 DEF OwnInv, Null

\* A frame whose name goes into a new buffer.
LEMMA NameUnpacked ==
  ASSUME BuffersInv, NEW n \in NameLengths, NEW size \in Nat, NEW bytes, NEW kind, NEW carries,
         \/ bytes = Name(n) /\ n < size
         \/ bytes = Append(Name(n), NUL) /\ n <= size,
         kind \notin {"text", "sys"}, came(kind, Name(n), carries), widgetinit(size, bytes)
  PROVE  /\ OwnInv' /\ Terminated(widget') /\ CString(widget') = Name(n)
         /\ frame' = [kind |-> kind, name |-> Name(n), carries |-> carries]
<1>1. n \in Nat /\ n \in 1 .. WidgetRoom
  BY BuffersConstantsOK
<1>2. PICK b : b = Copied(Fresh(size), bytes) /\ widget' = b
  BY DEF widgetinit
<1>3. Terminated(b) /\ CString(b) = Name(n) /\ Len(b) = size + 1
  BY <1>1, <1>2, NameHeld
<1>4. Len(bytes) <= size + 1
  <2>1. Name(n) \in Seq({"n", NUL}) /\ Len(Name(n)) = n
    BY <1>1 DEF Name
  <2>2. Len(Append(Name(n), NUL)) = n + 1
    BY <2>1, AppendProperties
  <2> QED
    BY <1>1, <2>1, <2>2
<1>5. frame' = [kind |-> kind, name |-> Name(n), carries |-> carries]
  BY DEF came
<1>6. OwnInv'
  BY <1>2, <1>3, <1>4, LengthIsOwn
<1> QED
  BY <1>2, <1>3, <1>5, <1>6 DEF Terminated, CString, NUL

Symbols == {"v", "v1", "v2", "f1", "f2", "f3", "f4", "i1", "i2", "i3", "i4"}

\* Each kind of frame with a name and what follows it.
LEMMA Unpacked ==
  ASSUME BuffersInv, NEW n \in NameLengths,
         \/ case_btn_switch_ckbtn_rdbtn(n) \/ case_slider_porgressbar(n)
         \/ case_4_byte_ieee_value(n) \/ case_4_byte_data(n)
         \/ control_image(n) \/ control_chart_view_value(n)
         \/ displayed_window(n)
  PROVE  BuffersInv'
<1>1. n \in Nat /\ n + 1 \in Nat /\ n + 2 \in Nat /\ n < n + 1 /\ n < n + 2 /\ n <= n
  BY BuffersConstantsOK
<1>2. /\ FloatBytes \in Seq(Symbols) /\ Len(FloatBytes) = 4
      /\ IntBytes \in Seq(Symbols) /\ Len(IntBytes) = 4
  BY DEF FloatBytes, IntBytes, Symbols
<1>3. CASE case_btn_switch_ckbtn_rdbtn(n)
  <2>1. PICK d : d = Name(n) \o <<"v">> /\ Len(d) = n + 1 /\ SubSeq(d, 1, n) = Name(n)
    <3>1. <<"v">> \in Seq(Symbols) /\ Len(<<"v">>) = 1
      BY DEF Symbols
    <3> QED
      BY <1>1, <3>1, NameAndRest
  <2>2. (n + 1) - 1 = n
    BY <1>1
  <2>3. came("button", Name(n), <<"v">>) /\ widgetinit(n + 1, Name(n))
    BY <1>3, <2>1, <2>2 DEF case_btn_switch_ckbtn_rdbtn
  <2>4. /\ OwnInv' /\ Terminated(widget') /\ CString(widget') = Name(n)
        /\ frame'.kind = "button"
    <3>1. PICK c : c = <<"v">>
      OBVIOUS
    <3>2. came("button", Name(n), c)
      BY <2>3, <3>1
    <3>3. /\ OwnInv' /\ Terminated(widget') /\ CString(widget') = Name(n)
          /\ frame' = [kind |-> "button", name |-> Name(n), carries |-> c]
      BY <1>1, <2>3, <3>2, NameUnpacked
    <3> QED
      BY <3>3
  <2>5. frame'.name = Name(n)
    BY <2>3 DEF came
  <2> QED
    BY <2>4, <2>5 DEF BuffersInv, FrameAsSent, Terminated, CString, NUL
<1>4. CASE case_slider_porgressbar(n)
  <2>1. PICK d : /\ d = Name(n) \o FloatBytes /\ Len(d) = n + 4 /\ SubSeq(d, 1, n) = Name(n)
                 /\ \A k \in 1 .. 4 : d[n + k] = FloatBytes[k]
    <3>1. PICK f : f = FloatBytes /\ f \in Seq(Symbols) /\ Len(f) = 4
      BY <1>2
    <3>2. LET x == Name(n) \o f
          IN  /\ Len(x) = n + Len(f) /\ SubSeq(x, 1, n) = Name(n)
              /\ \A k \in 1 .. Len(f) : x[n + k] = f[k]
      BY <1>1, <3>1, NameAndRest
    <3> QED
      BY <3>1, <3>2
  <2>2. (n + 4) - 3 = n + 1 /\ (n + 4) - 4 = n
    BY <1>1
  <2>3. /\ came("slider", Name(n), FloatBytes) /\ widgetinit(n + 1, Name(n))
        /\ float_value' = write_hex_to_float(SubSeq(d, n + 1, n + 4))
    BY <1>4, <2>1, <2>2 DEF case_slider_porgressbar
  <2>4. /\ OwnInv' /\ Terminated(widget') /\ CString(widget') = Name(n)
        /\ frame' = [kind |-> "slider", name |-> Name(n), carries |-> FloatBytes]
    BY <1>1, <2>3, NameUnpacked
  <2>5. \A k \in 1 .. 4 : float_value'[5 - k] = FloatBytes[k]
    <3>1. n \in Nat /\ \A k \in 1 .. 4 : d[n + k] = FloatBytes[k]
      BY <1>1, <2>1
    <3>2. \A k \in 1 .. 4 : write_hex_to_float(SubSeq(d, n + 1, n + 4))[5 - k] = FloatBytes[k]
      BY ONLY <3>1, FloatTurned, Zenon
    <3> QED
      BY <2>3, <3>2
  <2> QED
    BY <2>4, <2>5 DEF BuffersInv, FrameAsSent, Terminated, CString, NUL
<1>5. CASE case_4_byte_ieee_value(n)
  <2>1. PICK d : /\ d = Name(n) \o FloatBytes /\ Len(d) = n + 4 /\ SubSeq(d, 1, n) = Name(n)
                 /\ \A k \in 1 .. 4 : d[n + k] = FloatBytes[k]
    <3>1. PICK f : f = FloatBytes /\ f \in Seq(Symbols) /\ Len(f) = 4
      BY <1>2
    <3>2. LET x == Name(n) \o f
          IN  /\ Len(x) = n + Len(f) /\ SubSeq(x, 1, n) = Name(n)
              /\ \A k \in 1 .. Len(f) : x[n + k] = f[k]
      BY <1>1, <3>1, NameAndRest
    <3> QED
      BY <3>1, <3>2
  <2>2. (n + 4) - 3 = n + 1 /\ (n + 4) - 4 = n
    BY <1>1
  <2>3. /\ came("float", Name(n), FloatBytes) /\ widgetinit(n + 1, Name(n))
        /\ float_value' = write_hex_to_float(SubSeq(d, Len(CString(widget')) + 1, n + 4))
    BY <1>5, <2>1, <2>2 DEF case_4_byte_ieee_value
  <2>4. /\ OwnInv' /\ Terminated(widget') /\ CString(widget') = Name(n)
        /\ frame' = [kind |-> "float", name |-> Name(n), carries |-> FloatBytes]
    BY <1>1, <2>3, NameUnpacked
  <2>5. Len(CString(widget')) = n
    BY <1>1, <2>4 DEF Name
  <2>6. \A k \in 1 .. 4 : float_value'[5 - k] = FloatBytes[k]
    <3>1. n \in Nat /\ \A k \in 1 .. 4 : d[n + k] = FloatBytes[k]
      BY <1>1, <2>1
    <3>2. \A k \in 1 .. 4 : write_hex_to_float(SubSeq(d, n + 1, n + 4))[5 - k] = FloatBytes[k]
      BY ONLY <3>1, FloatTurned, Zenon
    <3> QED
      BY <2>3, <2>5, <3>2
  <2> QED
    BY <2>4, <2>6 DEF BuffersInv, FrameAsSent, Terminated, CString, NUL
<1>6. CASE case_4_byte_data(n)
  <2>1. PICK d : /\ d = Name(n) \o IntBytes /\ Len(d) = n + 4 /\ SubSeq(d, 1, n) = Name(n)
    BY <1>1, <1>2, NameAndRest
  <2>2. (n + 4) - 3 = n + 1 /\ (n + 4) - 4 = n
    BY <1>1
  <2>3. came("int", Name(n), IntBytes) /\ widgetinit(n + 1, Name(n))
    BY <1>6, <2>1, <2>2 DEF case_4_byte_data, four_bytes
  <2>4. /\ OwnInv' /\ Terminated(widget') /\ CString(widget') = Name(n)
        /\ frame' = [kind |-> "int", name |-> Name(n), carries |-> IntBytes]
    BY <1>1, <2>3, NameUnpacked
  <2> QED
    BY <2>4 DEF BuffersInv, FrameAsSent, Terminated, CString, NUL
<1>7. CASE control_image(n)
  <2>1. PICK d : d = Name(n) \o <<"v1", "v2">> /\ Len(d) = n + 2 /\ SubSeq(d, 1, n) = Name(n)
    <3>1. <<"v1", "v2">> \in Seq(Symbols) /\ Len(<<"v1", "v2">>) = 2
      BY DEF Symbols
    <3> QED
      BY <1>1, <3>1, NameAndRest
  <2>2. (n + 2) - 2 = n
    BY <1>1
  <2>3. came("image", Name(n), <<"v1", "v2">>) /\ widgetinit(n + 2, Name(n))
    BY <1>7, <2>1, <2>2 DEF control_image
  <2>4. /\ OwnInv' /\ Terminated(widget') /\ CString(widget') = Name(n)
        /\ frame' = [kind |-> "image", name |-> Name(n), carries |-> <<"v1", "v2">>]
    BY <1>1, <2>3, NameUnpacked
  <2> QED
    BY <2>4 DEF BuffersInv, FrameAsSent, Terminated, CString, NUL
<1>8. CASE control_chart_view_value(n)
  <2>1. PICK d : d = Name(n) \o <<"v1", "v2">> \o FloatBytes
    OBVIOUS
  <2>2. PICK S, u, v, w : /\ S = Symbols \union {"n"}
                          /\ u = Name(n) /\ v = <<"v1", "v2">> /\ w = FloatBytes
    OBVIOUS
  <2>3. PICK t : /\ t = v \o w /\ d = Name(n) \o t /\ t \in Seq(S) /\ Len(t) = 6
                 /\ \A k \in 1 .. 4 : t[k + 2] = w[k]
    <3>1. u \in Seq(S) /\ v \in Seq(S) /\ w \in Seq(S) /\ Len(v) = 2 /\ Len(w) = 4
      <4>1. u \in Seq({"n"}) /\ v \in Seq(Symbols) /\ w \in Seq(Symbols) /\ Len(v) = 2
        BY <1>1, <1>2, <2>2 DEF Name, Symbols
      <4> QED
        BY <1>2, <2>2, <4>1, SeqMonotonic
    <3>2. (u \o v) \o w = u \o (v \o w)
      BY ONLY <3>1, ConcatAssociative, SMTT(30)
    <3>3. PICK t : t = v \o w
      OBVIOUS
    <3>4. /\ t \in Seq(S) /\ Len(t) = Len(v) + Len(w)
          /\ \A k \in 1 .. Len(v) + Len(w) : t[k] = IF k <= Len(v) THEN v[k] ELSE w[k - Len(v)]
      BY ONLY <3>1, <3>3, ConcatProperties
    <3>5. Len(t) = 6 /\ \A k \in 1 .. 4 : t[k + 2] = w[k]
      BY <3>1, <3>4
    <3>6. d = Name(n) \o t
      BY <2>1, <2>2, <3>2, <3>3
    <3> QED
      BY <3>3, <3>4, <3>5, <3>6
  <2>4. /\ Len(d) = n + 6 /\ SubSeq(d, 1, n) = Name(n)
        /\ \A k \in 1 .. 6 : d[n + k] = t[k]
    <3>0. n \in Nat
      BY <1>1
    <3>1. LET x == Name(n) \o t
          IN  /\ Len(x) = n + Len(t) /\ Len(t) \in Nat
              /\ SubSeq(x, 1, n) = Name(n)
              /\ \A k \in 1 .. Len(t) : x[n + k] = t[k]
      BY ONLY <2>3, <3>0, NameAndRest
    <3> QED
      BY ONLY <2>3, <3>1
  <2>5. \A k \in 1 .. 4 : d[(n + 2) + k] = FloatBytes[k]
    <3>1. \A k \in 1 .. 4 : (n + 2) + k = n + (k + 2) /\ k + 2 \in 1 .. 6
      BY <1>1
    <3>2. \A k \in 1 .. 4 : t[k + 2] = FloatBytes[k]
      BY <2>2, <2>3
    <3> QED
      BY <2>4, <3>1, <3>2
  <2>6. (n + 6) - 5 = n + 1 /\ (n + 6) - 6 = n /\ (n + 6) - 3 = (n + 2) + 1
    BY <1>1
  <2>7. /\ came("chart", Name(n), FloatBytes) /\ widgetinit(n + 1, Name(n))
        /\ float_value' = write_hex_to_float(SubSeq(d, (n + 2) + 1, n + 6))
    BY <1>8, <2>1, <2>4, <2>6 DEF control_chart_view_value
  <2>8. /\ OwnInv' /\ Terminated(widget') /\ CString(widget') = Name(n)
        /\ frame' = [kind |-> "chart", name |-> Name(n), carries |-> FloatBytes]
    BY <1>1, <2>7, NameUnpacked
  <2>9. \A k \in 1 .. 4 : float_value'[5 - k] = FloatBytes[k]
    <3>1. n + 6 = (n + 2) + 4
      BY <1>1
    <3> QED
      BY <1>1, <2>5, <2>7, <3>1, FloatTurned
  <2> QED
    BY <2>8, <2>9 DEF BuffersInv, FrameAsSent, Terminated, CString, NUL
<1>9. CASE displayed_window(n)
  <2>1. came("window", Name(n), <<>>) /\ widgetinit(n, Append(Name(n), NUL))
    BY <1>9 DEF displayed_window
  <2>2. /\ OwnInv' /\ Terminated(widget') /\ CString(widget') = Name(n)
        /\ frame' = [kind |-> "window", name |-> Name(n), carries |-> <<>>]
    BY <1>1, <2>1, NameUnpacked
  <2> QED
    BY <2>2 DEF BuffersInv, FrameAsSent, Terminated, CString, NUL
<1> QED
  BY <1>3, <1>4, <1>5, <1>6, <1>7, <1>8, <1>9

\* The text of a frame behind its name in quotes and a colon.
LEMMA Quoted ==
  ASSUME NEW n \in Nat, NEW t \in Nat
  PROVE  LET d == quoted(n, t)
         IN  /\ Len(d) = n + t + 3 /\ DOMAIN d = 1 .. n + t + 3
             /\ SubSeq(d, n + 4, n + t + 3) = TextBytes(t)
<1>1. PICK S, a, b, c, e : /\ S = {"quote", "n", ":", "t"} /\ a = <<"quote">> /\ b = Name(n)
                           /\ c = <<"quote", ":">> /\ e = TextBytes(t)
  OBVIOUS
<1>2. /\ a \in Seq(S) /\ b \in Seq(S) /\ c \in Seq(S) /\ e \in Seq(S)
      /\ Len(a) = 1 /\ Len(b) = n /\ Len(c) = 2 /\ Len(e) = t
  BY <1>1 DEF Name, TextBytes
<1>3. PICK u, v, d : u = a \o b /\ v = u \o c /\ d = v \o e
  OBVIOUS
<1>4. v \in Seq(S) /\ Len(v) = n + 3
  <2>1. u \in Seq(S) /\ Len(u) = Len(a) + Len(b)
    BY <1>2, <1>3, ConcatProperties
  <2>2. v \in Seq(S) /\ Len(v) = Len(u) + Len(c)
    BY <1>2, <1>3, <2>1, ConcatProperties
  <2> QED
    BY <1>2, <2>1, <2>2
<1>5. /\ d \in Seq(S) /\ Len(d) = n + 3 + t
      /\ \A k \in 1 .. n + 3 + t : d[k] = IF k <= n + 3 THEN v[k] ELSE e[k - (n + 3)]
  <2>1. /\ d \in Seq(S) /\ Len(d) = Len(v) + Len(e)
        /\ \A k \in 1 .. Len(v) + Len(e) : d[k] = IF k <= Len(v) THEN v[k] ELSE e[k - Len(v)]
    <3>1. v \in Seq(S) /\ e \in Seq(S) /\ d = v \o e
      BY <1>2, <1>3, <1>4
    <3> QED
      BY ONLY <3>1, ConcatProperties
  <2> QED
    BY <1>2, <1>4, <2>1
<1>6. d = quoted(n, t)
  BY <1>1, <1>3 DEF quoted
<1>7. SubSeq(d, n + 4, n + t + 3) = TextBytes(t)
  <2>1. PICK s : s = SubSeq(d, n + 4, n + t + 3)
    OBVIOUS
  <2>2. \A k \in n + 4 .. n + t + 3 : d[k] = "t"
    BY <1>1, <1>5 DEF TextBytes
  <2>3. s \in Seq({"t"}) /\ Len(s) = t
    <3>1. n + 4 \in Nat /\ n + t + 3 \in Nat /\ \A k \in n + 4 .. n + t + 3 : d[k] \in {"t"}
      BY <2>2
    <3>2. /\ s \in Seq({"t"})
          /\ Len(s) = IF n + 4 <= n + t + 3 THEN (n + t + 3) - (n + 4) + 1 ELSE 0
      BY <2>1, <3>1, SubSeqProperties
    <3> QED
      BY <3>2
  <2>4. s \in [1 .. t -> {"t"}]
    BY <2>3, LenProperties
  <2>5. s = [k \in 1 .. t |-> "t"]
    BY <2>4
  <2> QED
    BY <2>1, <2>5 DEF TextBytes
<1> QED
  BY <1>5, <1>6, <1>7, LenProperties

\* A name and a text, into buffers of their own.
LEMMA TextUnpacked ==
  ASSUME BuffersInv, NEW n \in NameLengths, NEW t \in TextLengths, case_data_text(n, t)
  PROVE  BuffersInv'
<1>1. n \in Nat /\ n <= WidgetRoom /\ WidgetRoom \in Nat /\ t \in Nat /\ t <= t
  BY BuffersConstantsOK
<1>2. PICK d : /\ d = quoted(n, t) /\ Len(d) = n + t + 3
               /\ SubSeq(d, n + 4, n + t + 3) = TextBytes(t)
  BY <1>1, Quoted
<1>3. (n + t + 3) - n - 3 = t
  BY <1>1
<1>4. /\ intact' => widget' = Copied(Fresh(WidgetRoom), Append(Name(n), NUL))
      /\ text' = Copied(Fresh(t), Append(TextBytes(t), NUL))
      /\ widget_last_len' = t
      /\ came("text", Name(n), TextBytes(t))
  <2>1. /\ text_frame(n, t, SubSeq(d, n + 4, Len(d)))
    BY <1>2 DEF case_data_text
  <2>2. intact' => Clears(text, WidgetRoom)
    BY <2>1 DEF text_frame
  <2>3. intact' => widget' = Copied(Fresh(WidgetRoom), Append(Name(n), NUL))
    BY <2>1, <2>2 DEF text_frame, Struck
  <2> QED
    BY <1>2, <1>3, <2>1, <2>3 DEF text_frame
<1>5. ASSUME intact' PROVE Terminated(widget') /\ CString(widget') = Name(n)
  <2>1. PICK b : b = Copied(Fresh(WidgetRoom), Append(Name(n), NUL)) /\ widget' = b
    BY <1>4, <1>5
  <2>2. Terminated(b) /\ CString(b) = Name(n)
    BY <1>1, <2>1, NameHeld
  <2> QED
    BY <2>1, <2>2 DEF Terminated, CString, NUL
<1>6. Terminated(text') /\ CString(text') = TextBytes(t)
  <2>1. PICK c : c = "t" /\ c # NUL
    BY DEF NUL
  <2>2. PICK s : s = TextBytes(t) /\ s \in Chars(c, t)
    <3>1. PICK s : s = TextBytes(t)
      OBVIOUS
    <3>2. s = [k \in 1 .. t |-> "t"]
      BY <3>1 DEF TextBytes
    <3>3. s \in [1 .. t -> {"t"}]
      BY <3>2
    <3> QED
      BY <2>1, <3>1, <3>3 DEF Chars
  <2>3. PICK b : b = Copied(Fresh(t), Append(s, NUL)) /\ text' = b
    BY <1>4, <2>2
  <2>4. Terminated(b) /\ CString(b) = s
    BY ONLY <1>1, <2>1, <2>2, <2>3, ClosedHeld
  <2> QED
    BY <2>2, <2>3, <2>4 DEF Terminated, CString, NUL
<1>7. /\ frame' = [kind |-> "text", name |-> Name(n), carries |-> TextBytes(t)]
      /\ shared'
  BY <1>4 DEF came
<1> QED
  BY <1>1, <1>4, <1>5, <1>6, <1>7
     DEF BuffersInv, FrameAsSent, OwnInv, Terminated, CString, NUL

\* A frame that is not unpacked as it was meant still has a buffer of its length.
LEMMA ScrollUnpacked ==
  ASSUME BuffersInv, NEW n \in NameLengths, NEW t \in TextLengths, control_hscroll_label(n, t)
  PROVE  BuffersInv'
<1>1. n \in Nat /\ t \in Nat
  BY BuffersConstantsOK
<1>2. PICK d : d = quoted(n, t) /\ Len(d) = n + t + 3 /\ DOMAIN d = 1 .. n + t + 3
  BY <1>1, Quoted
<1>3. PICK m \in Nat : m = n + t - 1 /\ Len(d) - 4 = m /\ Len(d) - 3 = m + 1 /\ m <= (m + 1) + 1
  BY <1>1, <1>2 DEF control_hscroll_label
<1>4. PICK bytes : bytes = SubSeq(d, 1, m)
  OBVIOUS
<1>5. Len(bytes) = m /\ DOMAIN bytes = 1 .. m
  <2>1. PICK V : V = {d[k] : k \in 1 .. m}
    OBVIOUS
  <2>2. \A k \in 1 .. m : d[k] \in V
    BY <2>1
  <2>3. bytes \in Seq(V) /\ Len(bytes) = IF 1 <= m THEN m - 1 + 1 ELSE 0
    BY <1>4, <2>2, SubSeqProperties
  <2> QED
    BY <2>3, LenProperties
<1>6. came("hscroll", Name(n), TextBytes(t)) /\ widgetinit(m + 1, bytes)
  BY <1>2, <1>3, <1>4 DEF control_hscroll_label, four_bytes
<1>7. Len(widget') = (m + 1) + 1
  <2>1. m + 1 \in Nat
    OBVIOUS
  <2>2. PICK b : b = Copied(Fresh(m + 1), bytes) /\ widget' = b
    BY <1>6 DEF widgetinit
  <2>3. Len(b) = (m + 1) + 1
    BY <1>3, <1>5, <2>1, <2>2, CopiedIs
  <2> QED
    BY <2>2, <2>3
<1>8. OwnInv'
  <2>1. m + 1 \in Nat /\ Len(bytes) <= (m + 1) + 1
    BY <1>5
  <2> QED
    BY <1>6, <1>7, <2>1, LengthIsOwn
<1>9. frame'.kind = "hscroll"
  BY <1>6 DEF came
<1> QED
  BY <1>8, <1>9 DEF BuffersInv, FrameAsSent, Sound

\* The buffers do not exist: before the first frame, and after a panic.
LEMMA NoBuffers ==
  /\ BuffersInit => BuffersInv
  /\ Panic => BuffersInv'
BY DEF BuffersInit, Panic, BuffersInv, FrameAsSent, OwnInv, NoFrame, Sound,
   Null

LEMMA SystemUnpacked ==
  ASSUME BuffersInv, NEW t \in TextLengths \ {0}, NEW ends \in BOOLEAN, sys_frame(t, ends)
  PROVE  BuffersInv'
<1>1. CASE Panic
  BY <1>1, NoBuffers
<1>2. CASE came("sys", <<>>, TextBytes(t)) /\ widget_last_len' = t + 1
  <2>1. frame'.kind = "sys" /\ shared'
    BY <1>2 DEF came
  <2>2. t + 1 \in Nat
    BY BuffersConstantsOK
  <2> QED
    BY <1>2, <2>1, <2>2 DEF BuffersInv, FrameAsSent, OwnInv, Sound
<1> QED
  BY <1>1, <1>2 DEF sys_frame

LEMMA Released ==
  ASSUME BuffersInv, NEW what \in Releases, _stone_recive_free(what)
  PROVE  BuffersInv'
<1>1. CASE Panic
  BY <1>1, NoBuffers
<1>2. CASE ~Panic
  <2> DEFINE buffer == [data |-> data, widget |-> widget, text |-> text]
             chosen == {b \in DOMAIN buffer : b = what \/ (what = "all" /\ buffer[b] # Null)}
             struck(b) == {buffer[b]} \union
                          UNION {Struck(buffer[b], buffer[c], widget_last_len) : c \in chosen}
             left(b) == IF b \in chosen THEN {Null} ELSE struck(b)
  <2>1. /\ data' \in left("data") /\ widget' \in left("widget") /\ text' \in left("text")
        /\ intact' = (intact /\ \A b \in chosen : Clears(buffer[b], widget_last_len))
        /\ frame' = NoFrame /\ widget_last_len' = widget_last_len /\ shared' = shared
    BY <1>2 DEF _stone_recive_free
  <2>2. ASSUME ~shared
        PROVE  /\ intact' /\ data' = Null /\ text' = Null
               /\ widget' = Null \/ widget' = widget
    <3>1. \A b \in DOMAIN buffer : Clears(buffer[b], widget_last_len)
      BY <2>2 DEF BuffersInv, OwnInv, Clears
    <3>2. \A b : struck(b) = {buffer[b]}
      BY <3>1 DEF Struck
    <3> HIDE DEF struck, chosen
    <3>3. data' \in {Null, data} /\ text' \in {Null, text} /\ widget' \in {Null, widget}
      BY <2>1, <3>2
    <3> QED
      BY <2>1, <2>2, <3>1, <3>3 DEF BuffersInv, OwnInv, chosen
  <2>3. OwnInv'
    BY <2>1, <2>2 DEF BuffersInv, OwnInv, Null
  <2> QED
    BY <2>1, <2>3 DEF BuffersInv, FrameAsSent, NoFrame, Sound
<1> QED
  BY <1>1, <1>2

LEMMA BuffersInvariance == BuffersSpec => []BuffersInv
<1>1. BuffersInit => BuffersInv
  BY NoBuffers
<1>2. BuffersInv /\ [BuffersNext]_buffersVars => BuffersInv'
  <2> SUFFICES ASSUME BuffersInv, [BuffersNext]_buffersVars PROVE BuffersInv'
    OBVIOUS
  <2>1. ASSUME receive_parse PROVE BuffersInv'
    <3>1. ASSUME NEW n \in NameLengths, unknown(n) PROVE BuffersInv'
      BY <3>1 DEF unknown, BuffersInv, FrameAsSent, OwnInv, Sound, Null
    <3> QED
      BY <2>1, <3>1, Unpacked, TextUnpacked, ScrollUnpacked, SystemUnpacked
         DEF receive_parse
  <2>2. ASSUME NEW what \in Releases, _stone_recive_free(what) PROVE BuffersInv'
    BY <2>2, Released
  <2>3. CASE Panic
    BY <2>3, NoBuffers
  <2>4. CASE UNCHANGED buffersVars
    BY <2>4
       DEF buffersVars, BuffersInv, FrameAsSent, OwnInv, Terminated, CString,
           Clears, Null
  <2> QED
    BY <2>1, <2>2, <2>3, <2>4 DEF BuffersNext
<1> QED
  BY <1>1, <1>2, PTL DEF BuffersSpec

\* What stone_cmd reads of a frame is what the display sent with it (the parsers of
\* stone_receive_group.c:73-360), in whatever lengths and after whatever frames and
\* releases, as long as none of them had a buffer cleared beyond its end.
THEOREM FramesUnpacked == BuffersSpec => []FrameAsSent
<1>1. BuffersInv => FrameAsSent
  BY DEF BuffersInv
<1> QED
  BY <1>1, BuffersInvariance, PTL

\* widget_last_len clears the buffer it was set for, and nothing behind it, until a text
\* or a system frame has come.
THEOREM ClearsWithinBuffer == BuffersSpec => []ClearsOwnBuffer
<1>1. BuffersInv => ClearsOwnBuffer
  BY DEF BuffersInv, OwnInv, ClearsOwnBuffer
<1> QED
  BY <1>1, BuffersInvariance, PTL

-----------------------------------------------------------------------------
(* The messages.  A message begins with its command; how its keys and      *)
(* values grow with its fields is all that the builders are told apart by. *)

Begins(F) == (\E S : F \in Seq(S)) /\ F # <<>> /\ F[1].key = "cmd_code"

Tells(F, cmd, K, V) ==
  /\ Begins(F) /\ F[1].value = Str(cmd)
  /\ KeysOf(F) = K /\ ValuesOf(F) = V

Plain(v) == v.quoted \/ v.of \in Literals

LEMMA HeaderTells ==
  ASSUME NEW cmd, NEW type
  PROVE  /\ Tells(Opened(cmd, type), cmd, {"cmd_code", "type"}, {cmd, type})
         /\ WellFormed(Opened(cmd, type))
<1> PICK f, g : f = Field("cmd_code", Str(cmd)) /\ g = Field("type", Str(type))
  OBVIOUS
<1>1. PICK F : F = <<f, g>>
  OBVIOUS
<1>2. /\ f.key = "cmd_code" /\ f.value = Str(cmd) /\ f.form = "key:value"
      /\ g.key = "type" /\ g.value = Str(type) /\ g.form = "key:value"
  BY <1>1 DEF Field
<1>3. F \in Seq({f, g}) /\ DOMAIN F = {1, 2} /\ F[1] = f /\ F[2] = g /\ F # <<>>
  BY <1>1
<1>4. Str(cmd).of = cmd /\ Str(cmd).quoted /\ Str(type).of = type /\ Str(type).quoted
  BY DEF Str
<1>5. KeysOf(F) = {"cmd_code", "type"} /\ ValuesOf(F) = {cmd, type}
  BY <1>2, <1>3, <1>4 DEF KeysOf, ValuesOf
<1>6. WellFormed(F)
  BY <1>2, <1>3, <1>4 DEF WellFormed
<1>7. Tells(F, cmd, {"cmd_code", "type"}, {cmd, type})
  <2>1. \E S : F \in Seq(S)
    BY <1>3
  <2> QED
    BY <1>2, <1>3, <1>5, <2>1 DEF Begins, Tells
<1>8. Opened(cmd, type) = F
  BY <1>1 DEF Opened
<1>9. PICK K, V : K = {"cmd_code", "type"} /\ V = {cmd, type} /\ Tells(F, cmd, K, V)
  BY <1>7
<1>10. Tells(Opened(cmd, type), cmd, K, V)
  BY ONLY <1>8, <1>9
<1>11. WellFormed(Opened(cmd, type))
  BY ONLY <1>6, <1>8
<1> QED
  BY ONLY <1>9, <1>10, <1>11

\* One more field.
LEMMA Grown ==
  ASSUME NEW F, NEW cmd, NEW K, NEW V, Tells(F, cmd, K, V), NEW g
  PROVE  /\ Tells(Append(F, g), cmd, K \union {g.key}, V \union {g.value.of})
         /\ WellFormed(F) /\ g.key \notin K /\ g.form = "key:value" /\ Plain(g.value)
              => WellFormed(Append(F, g))
<1>1. PICK S : F \in Seq(S)
  BY DEF Begins, Tells
<1>2. PICK T : T = S \union {g}
  OBVIOUS
<1>3. F \in Seq(T) /\ g \in T
  BY <1>1, <1>2, SeqMonotonic
<1>4. PICK G : G = Append(F, g)
  OBVIOUS
<1>5. PICK n \in Nat : n = Len(F) /\ n >= 1 /\ DOMAIN F = 1 .. n
  BY <1>3, EmptySeq, LenProperties DEF Begins, Tells
<1>6. /\ G \in Seq(T) /\ Len(G) = n + 1 /\ DOMAIN G = 1 .. n + 1
      /\ G[n + 1] = g /\ \A k \in 1 .. n : G[k] = F[k]
  BY <1>3, <1>4, <1>5, AppendProperties, LenProperties
<1>7. KeysOf(G) = K \union {g.key}
  BY <1>5, <1>6 DEF Begins, Tells, KeysOf
<1>8. ValuesOf(G) = V \union {g.value.of}
  BY <1>5, <1>6 DEF Begins, Tells, ValuesOf
<1>9. G # <<>> /\ G[1] = F[1]
  BY <1>5, <1>6
<1>10. ASSUME WellFormed(F), g.key \notin K, g.form = "key:value", Plain(g.value)
       PROVE  WellFormed(G)
  <2>1. \A k \in 1 .. n + 1 : G[k].form = "key:value" /\ Plain(G[k].value)
    BY <1>5, <1>6, <1>10 DEF WellFormed, Plain
  <2>2. \A k \in 1 .. n : F[k].key # g.key
    BY <1>5, <1>10 DEF Begins, Tells, KeysOf
  <2>3. \A j, k \in 1 .. n : F[j].key = F[k].key => j = k
    BY <1>5, <1>10 DEF WellFormed
  <2>4. \A j, k \in 1 .. n + 1 : G[j].key = G[k].key => j = k
    <3>1. \A k \in 1 .. n + 1 : k = n + 1 \/ k \in 1 .. n
      OBVIOUS
    <3> QED
      BY <1>6, <2>2, <2>3, <3>1
  <2> QED
    BY <1>6, <2>1, <2>4 DEF WellFormed, Plain
<1> QED
  BY <1>4, <1>6, <1>7, <1>8, <1>9, <1>10 DEF Begins, Tells

LEMMA Concat2 ==
  ASSUME NEW F, NEW S, F \in Seq(S), NEW g, NEW h
  PROVE  F \o <<g, h>> = Append(Append(F, g), h)
<1>1. PICK T : T = S \union {g, h}
  OBVIOUS
<1>2. F \in Seq(T) /\ g \in T /\ h \in T
  BY <1>1, SeqMonotonic
<1>3. PICK G, H, I, t : G = Append(F, g) /\ H = Append(G, h) /\ t = <<g, h>> /\ I = F \o t
  OBVIOUS
<1>4. t \in Seq(T) /\ Len(t) = 2 /\ t[1] = g /\ t[2] = h
  BY <1>2, <1>3
<1>5. PICK n \in Nat : n = Len(F)
  BY <1>2, LenProperties
<1>6. G \in Seq(T) /\ Len(G) = n + 1 /\ G[n + 1] = g /\ \A k \in 1 .. n : G[k] = F[k]
  BY <1>2, <1>3, <1>5, AppendProperties
<1>7. H \in Seq(T) /\ Len(H) = n + 2 /\ H[n + 2] = h /\ \A k \in 1 .. n + 1 : H[k] = G[k]
  <2>1. H \in Seq(T) /\ Len(H) = Len(G) + 1 /\ H[Len(G) + 1] = h /\ \A k \in 1 .. Len(G) : H[k] = G[k]
    BY <1>2, <1>3, <1>6, AppendProperties
  <2> QED
    BY <1>6, <2>1
<1>8. I \in Seq(T) /\ Len(I) = n + 2 /\ \A k \in 1 .. n + 2 : I[k] = IF k <= n THEN F[k] ELSE t[k - n]
  <2>1. /\ I \in Seq(T) /\ Len(I) = Len(F) + Len(t)
        /\ \A k \in 1 .. Len(F) + Len(t) : I[k] = IF k <= Len(F) THEN F[k] ELSE t[k - Len(F)]
    BY ONLY <1>2, <1>3, <1>4, ConcatProperties
  <2> QED
    BY <1>4, <1>5, <2>1
<1>9. \A k \in 1 .. n + 2 : H[k] = I[k]
  <2> TAKE k \in 1 .. n + 2
  <2>1. CASE k \in 1 .. n
    BY <1>6, <1>7, <1>8, <2>1
  <2>2. CASE k = n + 1
    BY <1>4, <1>6, <1>7, <1>8, <2>2
  <2>3. CASE k = n + 2
    BY <1>4, <1>7, <1>8, <2>3
  <2> QED
    BY <2>1, <2>2, <2>3
<1>10. H = I
  BY <1>7, <1>8, <1>9, SeqEqual
<1> QED
  BY <1>3, <1>10

-----------------------------------------------------------------------------
(* What a call says, from the keys and values of its message.              *)

CommandOf(fn, args) ==
  IF fn = "set_sys" THEN args[1]
  ELSE IF fn = "show_text" THEN "set_show_text"
  ELSE IF fn = "set_coordinate" THEN "set_xy"
  ELSE fn

Within(args, V) == \A k \in DOMAIN args : args[k] \in V

Fits(fn, args, cmd, K, V) ==
  /\ fn \notin Misnamed => cmd = CommandOf(fn, args)
  /\ fn \notin Nameless => Within(args, V)
  /\ fn \notin WrongKey /\ fn \in DOMAIN OwnKey => OwnKey[fn] \in K

Says(fn, args, F) ==
  /\ fn \notin Unreadable => WellFormed(F)
  /\ \E cmd, K, V :
       /\ Tells(F, cmd, K, V)
       /\ Fits(fn, args, cmd, K, V)

\* A step is a call that says what it was called with, one that sends nothing, or one
\* whose message is cut short.
Spoken ==
  \/ \E fn, args, F : Says(fn, args, F) /\ tx_create(fn, args, F)
  \/ \E fn, args : send_nothing(fn, args)
  \/ \E fn \in CutShort : \E args, F : send(fn, args, F, FALSE)

LEMMA SpokenIsAsCalled == Spoken => MessagesAsCalled'
<1>1. ASSUME NEW fn, NEW args, NEW F, Says(fn, args, F), tx_create(fn, args, F)
      PROVE  MessagesAsCalled'
  <2>1. /\ call' = [fn |-> fn, args |-> args]
        /\ message' = [fields |-> F, ended |-> TRUE]
    BY <1>1 DEF tx_create, send
  <2>2. PICK cmd, K, V :
          /\ Tells(F, cmd, K, V)
          /\ fn \notin Misnamed => cmd = CommandOf(fn, args)
          /\ fn \notin Nameless => Within(args, V)
          /\ fn \notin WrongKey /\ fn \in DOMAIN OwnKey => OwnKey[fn] \in K
    BY <1>1 DEF Says, Fits
  <2>3. /\ call'.fn = fn /\ call'.args = args
        /\ message'.fields = F /\ message'.ended = TRUE
    BY <2>1
  <2>4. MessagesEnd' /\ (fn \notin Unreadable => MessagesReadable')
    BY <1>1, <2>3 DEF MessagesEnd, MessagesReadable, Says, WellFormed
  <2>5. fn \notin Misnamed => CommandNamed'
    <3>1. Command' = CommandOf(fn, args)
      BY <2>3 DEF Command, CommandOf
    <3> QED
      BY <2>2, <2>3, <3>1 DEF CommandNamed, Tells, Str
  <2>6. fn \notin Nameless => ArgumentsCarried'
    BY <2>2, <2>3 DEF ArgumentsCarried, Tells, Within, ValuesOf
  <2>7. fn \notin WrongKey => ValueUnderOwnKey'
    BY <2>2, <2>3 DEF ValueUnderOwnKey, Tells, KeysOf, OwnKey
  <2> QED
    BY <2>3, <2>4, <2>5, <2>6, <2>7
       DEF MessagesAsCalled, Readable, SaysWhatWasCalled, CutShort, Unreadable, Misnamed,
           Nameless, WrongKey
<1>2. ASSUME NEW fn, NEW args, send_nothing(fn, args)
      PROVE  MessagesAsCalled'
  <2>1. ~Sent' /\ message'.ended
    BY <1>2 DEF send_nothing, Sent, Nothing
  <2> QED
    BY <2>1
       DEF MessagesAsCalled, Readable, SaysWhatWasCalled, MessagesEnd,
           MessagesReadable,
                CommandNamed, ArgumentsCarried, ValueUnderOwnKey
<1>3. ASSUME NEW fn \in CutShort, NEW args, NEW F, send(fn, args, F, FALSE)
      PROVE  MessagesAsCalled'
  <2>1. ~message'.ended /\ call'.fn = fn
    BY <1>3 DEF send
  <2> QED
    BY <2>1
       DEF MessagesAsCalled, Readable, SaysWhatWasCalled, MessagesReadable,
                CommandNamed, ArgumentsCarried, ValueUnderOwnKey, CutShort
<1> QED
  BY <1>1, <1>2, <1>3 DEF Spoken

-----------------------------------------------------------------------------
(* The builders.                                                           *)

LEMMA Values ==
  /\ \A v : Str(v).of = v /\ Plain(Str(v)) /\ Raw(v).of = v
  /\ \A v \in Literals : Plain(Raw(v))
BY DEF Str, Raw, Plain

LEMMA Fields ==
  \A k, v : /\ Field(k, v).key = k /\ Field(k, v).value = v
            /\ Field(k, v).form = "key:value"
            /\ Listed(k, v).key = k /\ Listed(k, v).value = v
            /\ HalfQuoted(k, v).key = k /\ HalfQuoted(k, v).value = v
BY DEF Field, Listed, HalfQuoted

LEMMA Tuples ==
  /\ \A V : Within(<<>>, V)
  /\ \A V, a : a \in V => Within(<<a>>, V)
  /\ \A V, a, b : a \in V /\ b \in V => Within(<<a, b>>, V)
  /\ \A V, a, b, c : a \in V /\ b \in V /\ c \in V => Within(<<a, b, c>>, V)
  /\ \A V, a, b, c, d : a \in V /\ b \in V /\ c \in V /\ d \in V =>
       Within(Append(<<a, b, c>>, d), V)
<1>1. \A V : Within(<<>>, V)
  BY DEF Within
<1>2. \A V, a : a \in V => Within(<<a>>, V)
  BY DEF Within
<1>3. \A V, a, b : a \in V /\ b \in V => Within(<<a, b>>, V)
  BY DEF Within
<1>4. \A V, a, b, c : a \in V /\ b \in V /\ c \in V => Within(<<a, b, c>>, V)
  BY DEF Within
<1>5. ASSUME NEW V, NEW a \in V, NEW b \in V, NEW c \in V, NEW d \in V
      PROVE  Within(Append(<<a, b, c>>, d), V)
  <2>1. PICK t : t = <<a, b, c>> /\ t \in Seq(V)
    <3>1. PICK t : t = <<a, b, c>>
      OBVIOUS
    <3>2. t \in Seq(V)
      BY <3>1
    <3> QED
      BY <3>1, <3>2
  <2>2. Append(t, d) \in Seq(V)
    BY <2>1, AppendProperties
  <2> QED
    BY <2>1, <2>2, ElementOfSeq, LenProperties DEF Within
<1> QED
  BY <1>1, <1>2, <1>3, <1>4, <1>5

\* What a builder needs of its fields.
LEMMA Told ==
  ASSUME NEW fn, NEW args, NEW F, NEW cmd, NEW K, NEW V,
         Tells(F, cmd, K, V), WellFormed(F) \/ fn \in Unreadable,
         Fits(fn, args, cmd, K, V), tx_create(fn, args, F) \/ send_nothing(fn, args)
  PROVE  Spoken
<1>1. Says(fn, args, F)
  BY DEF Says
<1> QED
  BY <1>1 DEF Spoken

LEMMA WidgetTells ==
  ASSUME NEW cmd, NEW type, NEW name
  PROVE  /\ Tells(Widget(cmd, type, name), cmd, {"cmd_code", "type", "widget"},
                  {cmd, type, name})
         /\ WellFormed(Widget(cmd, type, name))
<1>1. PICK O, K, V : /\ O = Opened(cmd, type) /\ K = {"cmd_code", "type"} /\ V = {cmd, type}
                     /\ Tells(O, cmd, K, V) /\ WellFormed(O)
  BY HeaderTells
<1>2. PICK g : /\ g = Field("widget", Str(name)) /\ g.key = "widget" /\ g.value.of = name
               /\ g.form = "key:value" /\ Plain(g.value)
  BY Fields, Values
<1>3. /\ Tells(Append(O, g), cmd, K \union {g.key}, V \union {g.value.of})
      /\ WellFormed(Append(O, g))
  BY <1>1, <1>2, Grown
<1>4. K \union {g.key} = {"cmd_code", "type", "widget"} /\ V \union {g.value.of} = {cmd, type, name}
  BY <1>1, <1>2
<1>5. Widget(cmd, type, name) = Append(O, g)
  BY <1>1, <1>2 DEF Widget
<1> QED
  BY <1>3, <1>4, <1>5

\* A field behind those of a message.
LEMMA FieldTells ==
  ASSUME NEW F, NEW cmd, NEW K, NEW V, Tells(F, cmd, K, V), WellFormed(F), NEW k, NEW v
  PROVE  /\ Tells(Append(F, Field(k, v)), cmd, K \union {k}, V \union {v.of})
         /\ k \notin K /\ Plain(v) => WellFormed(Append(F, Field(k, v)))
<1>1. PICK g : g = Field(k, v) /\ g.key = k /\ g.value = v /\ g.form = "key:value"
  BY Fields
<1>2. /\ Tells(Append(F, g), cmd, K \union {g.key}, V \union {g.value.of})
      /\ g.key \notin K /\ Plain(g.value) => WellFormed(Append(F, g))
  BY <1>1, Grown
<1> QED
  BY <1>1, <1>2

LEMMA SystemTold ==
  ASSUME NEW fn, NEW args, NEW cmd, NEW type,
         NEW K, NEW V, K = {"cmd_code", "type"}, V = {cmd, type},
         Fits(fn, args, cmd, K, V),
         \/ tx_create(fn, args, Opened(cmd, type))
         \/ send_nothing(fn, args)
  PROVE  Spoken
<1>1. PICK F : /\ F = Opened(cmd, type)
               /\ Tells(F, cmd, K, V) /\ WellFormed(F)
  BY HeaderTells
<1> QED
  BY <1>1, Told

LEMMA SystemFieldTold ==
  ASSUME NEW fn, NEW args, NEW cmd, NEW type, NEW k, NEW v,
         k \notin {"cmd_code", "type"}, Plain(v),
         NEW K, NEW V, K = {"cmd_code", "type", k}, V = {cmd, type, v.of},
         Fits(fn, args, cmd, K, V),
         \/ tx_create(fn, args, Append(Opened(cmd, type), Field(k, v)))
         \/ send_nothing(fn, args)
  PROVE  Spoken
<1>1. PICK F, M, X : /\ F = Opened(cmd, type) /\ M = {"cmd_code", "type"} /\ X = {cmd, type}
                     /\ Tells(F, cmd, M, X) /\ WellFormed(F)
  BY HeaderTells
<1>2. PICK G : /\ G = Append(F, Field(k, v))
               /\ Tells(G, cmd, K, V) /\ WellFormed(G)
  <2>1. /\ Tells(Append(F, Field(k, v)), cmd, M \union {k}, X \union {v.of})
        /\ WellFormed(Append(F, Field(k, v)))
    BY <1>1, FieldTells
  <2>2. M \union {k} = {"cmd_code", "type", k} /\ X \union {v.of} = {cmd, type, v.of}
    BY <1>1
  <2> QED
    BY <2>1, <2>2
<1> QED
  BY <1>1, <1>2, Told

LEMMA WidgetTold ==
  ASSUME NEW fn, NEW args, NEW cmd, NEW type, NEW name,
         NEW K, NEW V, K = {"cmd_code", "type", "widget"}, V = {cmd, type, name},
         Fits(fn, args, cmd, K, V),
         \/ tx_create(fn, args, Widget(cmd, type, name))
         \/ send_nothing(fn, args)
  PROVE  Spoken
<1>1. PICK F : /\ F = Widget(cmd, type, name)
               /\ Tells(F, cmd, K, V) /\ WellFormed(F)
  BY WidgetTells
<1> QED
  BY <1>1, Told

LEMMA OneFieldTells ==
  ASSUME NEW cmd, NEW type, NEW name, NEW k, k \notin {"cmd_code", "type", "widget"},
         NEW v, Plain(v)
  PROVE  LET F == Append(Widget(cmd, type, name), Field(k, v))
         IN  /\ Tells(F, cmd, {"cmd_code", "type", "widget", k}, {cmd, type, name, v.of})
             /\ WellFormed(F)
<1>1. PICK F, K, V : /\ F = Widget(cmd, type, name) /\ K = {"cmd_code", "type", "widget"}
                     /\ V = {cmd, type, name} /\ Tells(F, cmd, K, V) /\ WellFormed(F)
  BY WidgetTells
<1>2. /\ Tells(Append(F, Field(k, v)), cmd, K \union {k}, V \union {v.of})
      /\ WellFormed(Append(F, Field(k, v)))
  BY <1>1, FieldTells
<1>3. /\ K \union {k} = {"cmd_code", "type", "widget", k}
      /\ V \union {v.of} = {cmd, type, name, v.of}
  BY <1>1
<1> QED
  BY <1>1, <1>2, <1>3

LEMMA OneFieldTold ==
  ASSUME NEW fn, NEW args, NEW cmd, NEW type, NEW name, NEW k, NEW v,
         k \notin {"cmd_code", "type", "widget"}, Plain(v),
         NEW K, NEW V, K = {"cmd_code", "type", "widget", k}, V = {cmd, type, name, v.of},
         Fits(fn, args, cmd, K, V),
         \/ tx_create(fn, args, Append(Widget(cmd, type, name), Field(k, v)))
         \/ send_nothing(fn, args)
  PROVE  Spoken
<1>1. PICK F : /\ F = Append(Widget(cmd, type, name), Field(k, v))
               /\ Tells(F, cmd, K, V) /\ WellFormed(F)
  BY OneFieldTells
<1> QED
  BY <1>1, Told

LEMMA TwoFieldsTold ==
  ASSUME NEW fn, NEW args, NEW cmd, NEW type, NEW name,
         NEW k, NEW l, k \notin {"cmd_code", "type", "widget"},
         l \notin {"cmd_code", "type", "widget"}, k # l,
         NEW v, NEW w, Plain(v), Plain(w),
         NEW K, NEW V, K = {"cmd_code", "type", "widget", k, l}, V = {cmd, type, name, v.of, w.of},
         Fits(fn, args, cmd, K, V),
         \/ tx_create(fn, args, Append(Append(Widget(cmd, type, name), Field(k, v)),
                                       Field(l, w)))
         \/ tx_create(fn, args, Widget(cmd, type, name) \o <<Field(k, v), Field(l, w)>>)
         \/ send_nothing(fn, args)
  PROVE  Spoken
<1>1. PICK F, M, X : /\ F = Append(Widget(cmd, type, name), Field(k, v))
                     /\ M = {"cmd_code", "type", "widget", k} /\ X = {cmd, type, name, v.of}
                     /\ Tells(F, cmd, M, X) /\ WellFormed(F)
  BY OneFieldTells
<1>2. PICK G : G = Append(F, Field(l, w))
  OBVIOUS
<1>3. Tells(G, cmd, M \union {l}, X \union {w.of}) /\ WellFormed(G)
  <2>1. l \notin M
    BY <1>1
  <2> QED
    BY <1>1, <1>2, <2>1, FieldTells
<1>4. M \union {l} = K /\ X \union {w.of} = V
  BY <1>1
<1>5. G = Widget(cmd, type, name) \o <<Field(k, v), Field(l, w)>>
  <2>1. PICK S : Widget(cmd, type, name) \in Seq(S)
    BY WidgetTells DEF Begins, Tells
  <2> QED
    BY <1>1, <1>2, <2>1, Concat2
<1>6. Fits(fn, args, cmd, M \union {l}, X \union {w.of})
  BY <1>4
<1>7. tx_create(fn, args, G) \/ send_nothing(fn, args)
  BY <1>1, <1>2, <1>5
<1> QED
  BY <1>3, <1>6, <1>7, Told

LEMMA SystemCalls == SystemCall => Spoken
<1>1. ASSUME NEW c, set_sys(c) PROVE Spoken
  <2>1. PICK K, V : K = {"cmd_code", "type"} /\ V = {c, "system"}
    OBVIOUS
  <2>2. Fits("set_sys", <<c>>, c, K, V)
    BY <2>1, Tuples DEF Fits, CommandOf, OwnKey
  <2> QED
    BY <1>1, <2>1, <2>2, SystemTold DEF set_sys, checked, System
<1>2. ASSUME NEW tf, set_sleep(tf) PROVE Spoken
  <2>1. PICK K, V : K = {"cmd_code", "type", "sleep"} /\ V = {"set_sleep", "system", tf}
    OBVIOUS
  <2>2. Fits("set_sleep", <<tf>>, "set_sleep", K, V)
    BY <2>1, Tuples DEF Fits, CommandOf, OwnKey
  <2>3. Raw(tf).of = tf /\ (tf \in Booleans => Plain(Raw(tf)))
    BY MessagesConstantsOK, Values
  <2>4. CASE tf \in Booleans
    BY <1>2, <2>1, <2>2, <2>3, <2>4, SystemFieldTold
       DEF set_sleep, checked, System
  <2>5. CASE tf \notin Booleans
    BY <1>2, <2>5 DEF set_sleep, checked, System, Spoken
  <2> QED
    BY <2>4, <2>5
<1>3. ASSUME NEW v \in Numbers, set_buzzer(v) PROVE Spoken
  <2>1. PICK K, V : K = {"cmd_code", "type", "time"} /\ V = {"set_buzzer", "system", v}
    OBVIOUS
  <2>2. Fits("set_buzzer", <<v>>, "set_buzzer", K, V)
    BY <2>1, Tuples DEF Fits, CommandOf, OwnKey
  <2>3. Plain(Raw(v)) /\ Raw(v).of = v
    BY Values DEF Numbers
  <2> QED
    BY <1>3, <2>1, <2>2, <2>3, SystemFieldTold DEF set_buzzer, System
<1>4. ASSUME NEW v \in Numbers, set_brightness(v) PROVE Spoken
  <2>1. PICK K, V : /\ K = {"cmd_code", "type", "brightness"}
                    /\ V = {"set_brightness", "system", v}
    OBVIOUS
  <2>2. Fits("set_brightness", <<v>>, "set_brightness", K, V)
    BY <2>1, Tuples DEF Fits, CommandOf, OwnKey
  <2>3. Plain(Raw(v)) /\ Raw(v).of = v
    BY Values DEF Numbers
  <2> QED
    BY <1>4, <2>1, <2>2, <2>3, SystemFieldTold DEF set_brightness, System
<1>5. ASSUME set_touch_cal PROVE Spoken
  <2>1. PICK K, V : K = {"cmd_code", "type"} /\ V = {"set_touch_cal", "system"}
    OBVIOUS
  <2>2. Fits("set_touch_cal", <<>>, "set_touch_cal", K, V)
    BY <2>1, Tuples DEF Fits, CommandOf, OwnKey
  <2> QED
    BY <1>5, <2>1, <2>2, SystemTold DEF set_touch_cal, System
<1>6. ASSUME clear_touch_cal PROVE Spoken
  <2>1. PICK K, V : K = {"cmd_code", "type"} /\ V = {"clear_touch_cal", "system"}
    OBVIOUS
  <2>2. Fits("clear_touch_cal", <<>>, "clear_touch_cal", K, V)
    BY <2>1, Tuples DEF Fits, CommandOf, OwnKey
  <2> QED
    BY <1>6, <2>1, <2>2, SystemTold DEF clear_touch_cal, System
<1>7. ASSUME set_touch_test PROVE Spoken
  <2>1. PICK K, V : K = {"cmd_code", "type"} /\ V = {"set_touch_cal", "system"}
    OBVIOUS
  <2>2. Fits("set_touch_test", <<>>, "set_touch_cal", K, V)
    BY <2>1, Tuples DEF Fits, CommandOf, OwnKey, Misnamed
  <2> QED
    BY <1>7, <2>1, <2>2, SystemTold DEF set_touch_test, System
<1>8. ASSUME NEW fn \in {"set_enable", "set_visible"}, NEW n, NEW tf, set_enable(fn, n, tf)
       PROVE  Spoken
  <2>1. PICK visible \in BOOLEAN :
          /\ fn = "set_visible" => visible
          /\ checked(tf \in Booleans, fn, <<n, tf>>,
                     Append(System(IF visible THEN "set_visible" ELSE "set_enable"),
                            Field("sleep", Raw(tf))))
    BY <1>8 DEF set_enable
  <2>2. PICK cmd : cmd = IF visible THEN "set_visible" ELSE "set_enable"
    OBVIOUS
  <2>3. Fits(fn, <<n, tf>>, cmd, {"cmd_code", "type", "sleep"}, {cmd, "system", tf})
    BY <2>1, <2>2 DEF Fits, CommandOf, Misnamed, Nameless, WrongKey
  <2>4. CASE tf \in Booleans
    <3>1. Plain(Raw(tf)) /\ Raw(tf).of = tf
      BY <2>4, MessagesConstantsOK, Values
    <3> QED
      BY <2>1, <2>2, <2>3, <2>4, <3>1, SystemFieldTold DEF checked, System
  <2>5. CASE tf \notin Booleans
    BY <2>1, <2>5 DEF checked, Spoken
  <2> QED
    BY <2>4, <2>5
<1> QED
  BY <1>1, <1>2, <1>3, <1>4, <1>5, <1>6, <1>7, <1>8 DEF SystemCall

LEMMA WindowCalls == WindowCall => Spoken
<1>1. ASSUME NEW fn \in {"open_win", "close_win", "back_win_to"}, NEW n, open_win(fn, n)
      PROVE  Spoken
  <2>1. PICK cmd : /\ fn = cmd \/ fn = "open_win"
                   /\ tx_create(fn, <<n>>, Widget(cmd, "window", n))
    BY <1>1 DEF open_win, Window, Widget
  <2>2. Fits(fn, <<n>>, cmd, {"cmd_code", "type", "widget"}, {cmd, "window", n})
    BY <2>1, Tuples DEF Fits, CommandOf, OwnKey, Misnamed
  <2> QED
    BY <2>1, <2>2, WidgetTold
<1>2. ASSUME back_win PROVE Spoken
  <2>1. PICK K, V : K = {"cmd_code", "type"} /\ V = {"back_win", "window"}
    OBVIOUS
  <2>2. Fits("back_win", <<>>, "back_win", K, V)
    BY <2>1, Tuples DEF Fits, CommandOf, OwnKey
  <2> QED
    BY <1>2, <2>1, <2>2, SystemTold DEF back_win, Window
<1>3. ASSUME get_displayed_window PROVE Spoken
  <2>1. PICK K, V : K = {"cmd_code", "type"} /\ V = {"get_displayed_window", "window"}
    OBVIOUS
  <2>2. Fits("get_displayed_window", <<>>, "get_displayed_window", K, V)
    BY <2>1, Tuples DEF Fits, CommandOf, OwnKey
  <2> QED
    BY <1>3, <2>1, <2>2, SystemTold DEF get_displayed_window, Window
<1>4. ASSUME back_home PROVE Spoken
  <2>1. PICK K, V : K = {"cmd_code", "type"} /\ V = {"back_home", "window"}
    OBVIOUS
  <2>2. Fits("back_home", <<>>, "back_home", K, V)
    BY <2>1, Tuples DEF Fits, CommandOf, OwnKey
  <2> QED
    BY <1>4, <2>1, <2>2, SystemTold DEF back_home, Window
<1> QED
  BY <1>1, <1>2, <1>3, <1>4 DEF WindowCall

\* Fields that the display does not read.
LEMMA OddFieldTold ==
  ASSUME NEW fn \in Unreadable, NEW args, NEW F, NEW cmd, NEW K, NEW V, Tells(F, cmd, K, V),
         NEW g, Fits(fn, args, cmd, K \union {g.key}, V \union {g.value.of}),
         tx_create(fn, args, Append(F, g)) \/ send_nothing(fn, args)
  PROVE  Spoken
<1>1. Tells(Append(F, g), cmd, K \union {g.key}, V \union {g.value.of})
  BY Grown
<1> QED
  BY <1>1, Told

LEMMA OddPairTold ==
  ASSUME NEW fn \in Unreadable, NEW args, NEW F, NEW cmd, NEW K, NEW V, Tells(F, cmd, K, V),
         NEW g, NEW h,
         Fits(fn, args, cmd, (K \union {g.key}) \union {h.key},
              (V \union {g.value.of}) \union {h.value.of}),
         tx_create(fn, args, F \o <<g, h>>)
  PROVE  Spoken
<1>1. PICK G, L, W : /\ G = Append(F, g) /\ L = K \union {g.key} /\ W = V \union {g.value.of}
                     /\ Tells(G, cmd, L, W)
  BY Grown
<1>2. F \o <<g, h>> = Append(G, h)
  <2>1. PICK S : F \in Seq(S)
    BY DEF Tells, Begins
  <2> QED
    BY <1>1, <2>1, Concat2
<1>3. /\ fn \in Unreadable /\ Tells(G, cmd, L, W)
      /\ Fits(fn, args, cmd, L \union {h.key}, W \union {h.value.of})
      /\ tx_create(fn, args, Append(G, h))
  BY <1>1, <1>2
<1> QED
  BY ONLY <1>3, OddFieldTold

LEMMA TypedCalls == TypedCall => Spoken
<1>1. ASSUME NEW t, NEW n, get_text(t, n) PROVE Spoken
  <2>1. PICK K, V : K = {"cmd_code", "type", "widget"} /\ V = {"get_text", t, n}
    OBVIOUS
  <2>2. Fits("get_text", <<t, n>>, "get_text", K, V)
    BY <2>1, Tuples DEF Fits, CommandOf, OwnKey
  <2> QED
    BY <1>1, <2>1, <2>2, WidgetTold DEF get_text, checked
<1>2. ASSUME NEW t, NEW n, get_value(t, n) PROVE Spoken
  <2>1. PICK K, V : K = {"cmd_code", "type", "widget"} /\ V = {"get_value", t, n}
    OBVIOUS
  <2>2. Fits("get_value", <<t, n>>, "get_value", K, V)
    BY <2>1, Tuples DEF Fits, CommandOf, OwnKey
  <2> QED
    BY <1>2, <2>1, <2>2, WidgetTold DEF get_value, checked
<1>3. ASSUME NEW t, NEW n, NEW x, set_format(t, n, x) PROVE Spoken
  <2>1. PICK K, V : /\ K = {"cmd_code", "type", "widget", "format"}
                    /\ V = {"set_format", t, n, x}
    OBVIOUS
  <2>2. Fits("set_format", <<t, n, x>>, "set_format", K, V)
    BY <2>1, Tuples DEF Fits, CommandOf, OwnKey
  <2>3. Plain(Str(x)) /\ Str(x).of = x
    BY Values DEF Numbers
  <2> QED
    BY <1>3, <2>1, <2>2, <2>3, OneFieldTold DEF set_format, checked
<1>4. ASSUME NEW t, NEW n, NEW x, set_image(t, n, x) PROVE Spoken
  <2>1. PICK K, V : /\ K = {"cmd_code", "type", "widget", "image"}
                    /\ V = {"set_image", t, n, x}
    OBVIOUS
  <2>2. Fits("set_image", <<t, n, x>>, "set_image", K, V)
    BY <2>1, Tuples DEF Fits, CommandOf, OwnKey
  <2>3. Plain(Str(x)) /\ Str(x).of = x
    BY Values DEF Numbers
  <2> QED
    BY <1>4, <2>1, <2>2, <2>3, OneFieldTold DEF set_image, checked
<1>5. ASSUME NEW t, NEW n, NEW x, set_text(t, n, x, FALSE) PROVE Spoken
  <2>1. PICK K, V : /\ K = {"cmd_code", "type", "widget", "text"}
                    /\ V = {"set_text", t, n, x}
    OBVIOUS
  <2>2. Fits("set_text", <<t, n, x>>, "set_text", K, V)
    BY <2>1, Tuples DEF Fits, CommandOf, OwnKey
  <2>3. Plain(Str(x)) /\ Str(x).of = x
    BY Values DEF Numbers
  <2> QED
    BY <1>5, <2>1, <2>2, <2>3, OneFieldTold DEF set_text, checked
<1>6. ASSUME NEW t, NEW n, NEW v \in Numbers, set_text(t, n, v, TRUE) PROVE Spoken
  <2>1. PICK K, V : /\ K = {"cmd_code", "type", "widget", "text"}
                    /\ V = {"set_text", t, n, v}
    OBVIOUS
  <2>2. Fits("set_text", <<t, n, v>>, "set_text", K, V)
    BY <2>1, Tuples DEF Fits, CommandOf, OwnKey
  <2>3. Plain(Raw(v)) /\ Raw(v).of = v
    BY Values DEF Numbers
  <2> QED
    BY <1>6, <2>1, <2>2, <2>3, OneFieldTold DEF set_text, checked
<1>7. ASSUME NEW t, NEW n, NEW v \in Numbers, set_min(t, n, v) PROVE Spoken
  <2>1. PICK K, V : /\ K = {"cmd_code", "type", "widget", "max"}
                    /\ V = {"set_min", t, n, v}
    OBVIOUS
  <2>2. Fits("set_min", <<t, n, v>>, "set_min", K, V)
    BY <2>1, Tuples DEF Fits, CommandOf, OwnKey, WrongKey
  <2>3. Plain(Raw(v)) /\ Raw(v).of = v
    BY Values DEF Numbers
  <2> QED
    BY <1>7, <2>1, <2>2, <2>3, OneFieldTold DEF set_min, checked
<1>8. ASSUME NEW t, NEW n, NEW v \in Numbers, set_draw_type(t, n, v) PROVE Spoken
  <2>1. PICK K, V : /\ K = {"cmd_code", "type", "widget", "draw_type"}
                    /\ V = {"set_draw_type", t, n, v}
    OBVIOUS
  <2>2. Fits("set_draw_type", <<t, n, v>>, "set_draw_type", K, V)
    BY <2>1, Tuples DEF Fits, CommandOf, OwnKey
  <2>3. Plain(Raw(v)) /\ Raw(v).of = v
    BY Values DEF Numbers
  <2> QED
    BY <1>8, <2>1, <2>2, <2>3, OneFieldTold DEF set_draw_type, checked
<1>9. ASSUME NEW t, NEW n, NEW v, set_max(t, n, v) PROVE Spoken
  <2>1. PICK g : g = Listed("max", Raw(v)) /\ g.key = "max" /\ g.value.of = v
    BY Fields, Values
  <2>2. Fits("set_max", <<t, n, v>>, "set_max",
             {"cmd_code", "type", "widget"} \union {g.key}, {"set_max", t, n} \union {g.value.of})
    BY <2>1, Tuples DEF Fits, CommandOf, OwnKey
  <2> QED
    BY <1>9, <2>1, <2>2, WidgetTells, OddFieldTold
       DEF set_max, checked, Unreadable
<1>10. ASSUME NEW t, NEW n, NEW v \in Numbers, NEW f, set_value(t, n, v, f) PROVE Spoken
  <2>1. Plain(Raw(v)) /\ Raw(v).of = v
    BY Values DEF Numbers
  <2>2. ASSUME NEW args, args = <<t, n, v>>,
               checked(set_get_value_type(t), "set_value", args,
                       Append(Widget("set_value", t, n), Field("value", Raw(v))))
        PROVE  Spoken
    <3>1. Fits("set_value", args, "set_value", {"cmd_code", "type", "widget", "value"},
               {"set_value", t, n, v})
      BY <2>2, Tuples DEF Fits, CommandOf, OwnKey
    <3>2. \/ tx_create("set_value", args, Append(Widget("set_value", t, n), Field("value", Raw(v))))
          \/ send_nothing("set_value", args)
      BY <2>2 DEF checked
    <3> QED
      BY <2>1, <3>1, <3>2, OneFieldTold
  <2>3. ASSUME NEW args, NEW h, args = <<t, n, v>> \/ args = Append(<<t, n, v>>, h),
               checked(set_get_value_type(t), "set_value", args,
                       Append(Append(Widget("set_value", t, n), Field("value", Raw(v))),
                              Field("format", Str(h))))
        PROVE  Spoken
    <3>1. Fits("set_value", args, "set_value",
               {"cmd_code", "type", "widget", "value", "format"}, {"set_value", t, n, v, h})
      <4>1. Within(args, {"set_value", t, n, v, h})
        <5>1. CASE args = <<t, n, v>>
          BY <5>1, Tuples
        <5>2. CASE args = Append(<<t, n, v>>, h)
          BY <5>2, Tuples
        <5> QED
          BY <2>3, <5>1, <5>2
      <4> QED
        BY <4>1 DEF Fits, CommandOf, OwnKey
    <3>2. Plain(Str(h)) /\ Str(h).of = h
      BY Values
    <3>3. \/ tx_create("set_value", args,
                       Append(Append(Widget("set_value", t, n), Field("value", Raw(v))),
                              Field("format", Str(h))))
          \/ send_nothing("set_value", args)
      BY <2>3 DEF checked
    <3> QED
      BY <2>1, <3>1, <3>2, <3>3, TwoFieldsTold
  <2> QED
    BY <1>10, <2>2, <2>3 DEF set_value, Spoken
<1> QED
  BY <1>1, <1>2, <1>3, <1>4, <1>5, <1>6, <1>7, <1>8, <1>9, <1>10 DEF TypedCall

LEMMA Concat3 ==
  ASSUME NEW F, NEW S, F \in Seq(S), NEW g, NEW h, NEW e
  PROVE  F \o <<g, h, e>> = Append(Append(Append(F, g), h), e)
<1>1. PICK T : T = S \union {g, h, e}
  OBVIOUS
<1>2. F \in Seq(T) /\ g \in T /\ h \in T /\ e \in T
  BY <1>1, SeqMonotonic
<1>3. PICK u, v, w : u = <<g, h>> /\ v = <<e>> /\ w = <<g, h, e>>
  OBVIOUS
<1>4. u \in Seq(T) /\ v \in Seq(T)
  BY <1>2, <1>3
<1>5. w = u \o v
  BY <1>3
<1>6. (F \o u) \o v = F \o (u \o v)
  BY <1>2, <1>4, ConcatAssociative
<1>7. F \o u \in Seq(T)
  BY <1>2, <1>4, ConcatProperties
<1>8. Append(F \o u, e) = (F \o u) \o v
  BY <1>2, <1>3, <1>7, AppendIsConcat
<1>9. F \o u = Append(Append(F, g), h)
  BY <1>2, <1>3, Concat2
<1> QED
  BY <1>3, <1>5, <1>6, <1>8, <1>9

LEMMA NamedCalls == NamedCall => Spoken
<1>1. ASSUME NEW n, get_percent(n) PROVE Spoken
  <2>1. PICK K, V : /\ K = {"cmd_code", "type", "widget"}
                    /\ V = {"get_percent", "progress_bar", n}
    OBVIOUS
  <2>2. Fits("get_percent", <<n>>, "get_percent", K, V)
    BY <2>1, Tuples DEF Fits, CommandOf, OwnKey
  <2> QED
    BY <1>1, <2>1, <2>2, WidgetTold DEF get_percent
<1>2. ASSUME NEW n, get_selected(n) PROVE Spoken
  <2>1. PICK K, V : /\ K = {"cmd_code", "type", "widget"}
                    /\ V = {"get_selected", "image", n}
    OBVIOUS
  <2>2. Fits("get_selected", <<n>>, "get_selected", K, V)
    BY <2>1, Tuples DEF Fits, CommandOf, OwnKey
  <2> QED
    BY <1>2, <2>1, <2>2, WidgetTold DEF get_selected
<1>3. ASSUME NEW n, get_date(n) PROVE Spoken
  <2>1. PICK K, V : /\ K = {"cmd_code", "type", "widget"}
                    /\ V = {"get_date", "digit_clock", n}
    OBVIOUS
  <2>2. Fits("get_date", <<n>>, "get_date", K, V)
    BY <2>1, Tuples DEF Fits, CommandOf, OwnKey
  <2> QED
    BY <1>3, <2>1, <2>2, WidgetTold DEF get_date
<1>4. ASSUME NEW n, get_checked(n) PROVE Spoken
  <2>1. PICK K, V : /\ K = {"cmd_code", "type", "widget"}
                    /\ V = {"get_checked", "check_button", n}
    OBVIOUS
  <2>2. Fits("get_checked", <<n>>, "get_checked", K, V)
    BY <2>1, Tuples DEF Fits, CommandOf, OwnKey
  <2> QED
    BY <1>4, <2>1, <2>2, WidgetTold DEF get_checked
<1>5. ASSUME NEW fn \in {"set_play", "set_pause", "set_stop"}, NEW n, set_play(fn, n)
      PROVE  Spoken
  BY <1>5 DEF set_play, CutShort, Spoken
<1>6. ASSUME NEW n, NEW t, set_state(n, t) PROVE Spoken
  <2>1. PICK K, V : /\ K = {"cmd_code", "type", "widget", "state"}
                    /\ V = {"set_state", "widget", n, t}
    OBVIOUS
  <2>2. Fits("set_state", <<n, t>>, "set_state", K, V)
    BY <2>1, Tuples DEF Fits, CommandOf, OwnKey
  <2>3. Plain(Str(t)) /\ Str(t).of = t
    BY Values DEF Numbers
  <2> QED
    BY <1>6, <2>1, <2>2, <2>3, OneFieldTold DEF set_state
<1>7. ASSUME NEW n, NEW t, set_date(n, t) PROVE Spoken
  <2>1. PICK K, V : /\ K = {"cmd_code", "type", "widget", "date"}
                    /\ V = {"set_date", "digit_clock", n, t}
    OBVIOUS
  <2>2. Fits("set_date", <<n, t>>, "set_date", K, V)
    BY <2>1, Tuples DEF Fits, CommandOf, OwnKey
  <2>3. Plain(Str(t)) /\ Str(t).of = t
    BY Values DEF Numbers
  <2> QED
    BY <1>7, <2>1, <2>2, <2>3, OneFieldTold DEF set_date
<1>8. ASSUME NEW n, NEW tf, show_text(n, tf) PROVE Spoken
  <2>1. PICK K, V : /\ K = {"cmd_code", "type", "widget", "show_text"}
                    /\ V = {"set_show_text", "progress_bar", n, tf}
    OBVIOUS
  <2>2. Fits("show_text", <<n, tf>>, "set_show_text", K, V)
    BY <2>1, Tuples DEF Fits, CommandOf, OwnKey
  <2>3. Raw(tf).of = tf /\ (tf \in Booleans => Plain(Raw(tf)))
    BY MessagesConstantsOK, Values
  <2>4. CASE tf \in Booleans
    BY <1>8, <2>1, <2>2, <2>3, <2>4, OneFieldTold DEF show_text, checked
  <2>5. CASE tf \notin Booleans
    BY <1>8, <2>5 DEF show_text, checked, Spoken
  <2> QED
    BY <2>4, <2>5
<1>9. ASSUME NEW n, NEW tf, set_loop(n, tf) PROVE Spoken
  <2>1. PICK K, V : /\ K = {"cmd_code", "type", "widget", "loop"}
                    /\ V = {"set_loop", "image_animation", n, tf}
    OBVIOUS
  <2>2. Fits("set_loop", <<n, tf>>, "set_loop", K, V)
    BY <2>1, Tuples DEF Fits, CommandOf, OwnKey
  <2>3. Raw(tf).of = tf /\ (tf \in Booleans => Plain(Raw(tf)))
    BY MessagesConstantsOK, Values
  <2>4. CASE tf \in Booleans
    BY <1>9, <2>1, <2>2, <2>3, <2>4, OneFieldTold DEF set_loop, checked
  <2>5. CASE tf \notin Booleans
    BY <1>9, <2>5 DEF set_loop, checked, Spoken
  <2> QED
    BY <2>4, <2>5
<1>10. ASSUME NEW n, NEW v \in Numbers, set_step(n, v) PROVE Spoken
  <2>1. PICK K, V : /\ K = {"cmd_code", "type", "widget", "step"}
                    /\ V = {"set_step", "slider", n, v}
    OBVIOUS
  <2>2. Fits("set_step", <<n, v>>, "set_step", K, V)
    BY <2>1, Tuples DEF Fits, CommandOf, OwnKey
  <2>3. Plain(Raw(v)) /\ Raw(v).of = v
    BY Values DEF Numbers
  <2> QED
    BY <1>10, <2>1, <2>2, <2>3, OneFieldTold DEF set_step
<1>11. ASSUME NEW n, NEW v \in Numbers, set_interval(n, v) PROVE Spoken
  <2>1. PICK K, V : /\ K = {"cmd_code", "type", "widget", "interval"}
                    /\ V = {"set_interval", "image_animation", n, v}
    OBVIOUS
  <2>2. Fits("set_interval", <<n, v>>, "set_interval", K, V)
    BY <2>1, Tuples DEF Fits, CommandOf, OwnKey
  <2>3. Plain(Raw(v)) /\ Raw(v).of = v
    BY Values DEF Numbers
  <2> QED
    BY <1>11, <2>1, <2>2, <2>3, OneFieldTold DEF set_interval
<1>12. ASSUME NEW n, NEW v \in Numbers, set_row_height(n, v) PROVE Spoken
  <2>1. PICK K, V : /\ K = {"cmd_code", "type", "widget", "height"}
                    /\ V = {"set_row_height", "table_view", n, v}
    OBVIOUS
  <2>2. Fits("set_row_height", <<n, v>>, "set_row_height", K, V)
    BY <2>1, Tuples DEF Fits, CommandOf, OwnKey
  <2>3. Plain(Raw(v)) /\ Raw(v).of = v
    BY Values DEF Numbers
  <2> QED
    BY <1>12, <2>1, <2>2, <2>3, OneFieldTold DEF set_row_height
<1>13. ASSUME NEW n, NEW v \in Numbers, set_row_number(n, v) PROVE Spoken
  <2>1. PICK K, V : /\ K = {"cmd_code", "type", "widget", "num"}
                    /\ V = {"set_row_number", "table_view", n, v}
    OBVIOUS
  <2>2. Fits("set_row_number", <<n, v>>, "set_row_number", K, V)
    BY <2>1, Tuples DEF Fits, CommandOf, OwnKey
  <2>3. Plain(Raw(v)) /\ Raw(v).of = v
    BY Values DEF Numbers
  <2> QED
    BY <1>13, <2>1, <2>2, <2>3, OneFieldTold DEF set_row_number
<1>14. ASSUME NEW n, NEW v, set_angle(n, v) PROVE Spoken
  <2>1. PICK K, V : /\ K = {"cmd_code", "type", "widget", "angle"}
                    /\ V = {"set_angle", "gauge_pointer", n, v}
    OBVIOUS
  <2>2. Fits("set_angle", <<n, v>>, "set_angle", K, V)
    BY <2>1, Tuples DEF Fits, CommandOf, OwnKey
  <2>3. Plain(Str(v)) /\ Str(v).of = v
    BY Values DEF Numbers
  <2> QED
    BY <1>14, <2>1, <2>2, <2>3, OneFieldTold DEF set_angle
<1>15. ASSUME NEW n, NEW v \in Numbers, NEW w \in Numbers, set_coordinate(n, v, w)
       PROVE  Spoken
  <2>1. PICK K, V : /\ K = {"cmd_code", "type", "widget", "x", "y"}
                    /\ V = {"set_xy", "widget", n, v, w}
    OBVIOUS
  <2>2. Fits("set_coordinate", <<n, v, w>>, "set_xy", K, V)
    BY <2>1, Tuples DEF Fits, CommandOf, OwnKey
  <2>3. Plain(Raw(v)) /\ Raw(v).of = v /\ Plain(Raw(w)) /\ Raw(w).of = w
    BY Values DEF Numbers
  <2> QED
    BY <1>15, <2>1, <2>2, <2>3, TwoFieldsTold DEF set_coordinate
<1>16. ASSUME NEW n, NEW v \in Numbers, NEW w \in Numbers, set_range(n, v, w)
       PROVE  Spoken
  <2>1. PICK K, V : /\ K = {"cmd_code", "type", "widget", "start_index", "end_index"}
                    /\ V = {"set_range", "image_animation", n, v, w}
    OBVIOUS
  <2>2. Fits("set_range", <<n, v, w>>, "set_range", K, V)
    BY <2>1, Tuples DEF Fits, CommandOf, OwnKey
  <2>3. Plain(Raw(v)) /\ Raw(v).of = v /\ Plain(Raw(w)) /\ Raw(w).of = w
    BY Values DEF Numbers
  <2> QED
    BY <1>16, <2>1, <2>2, <2>3, TwoFieldsTold DEF set_range
<1>17. ASSUME NEW n, NEW v \in Numbers, NEW w \in Numbers, set_scale(n, v, w)
       PROVE  Spoken
  <2>1. PICK K, V : /\ K = {"cmd_code", "type", "widget", "scale_x", "scale_y"}
                    /\ V = {"set_scale", "image", n, v, w}
    OBVIOUS
  <2>2. Fits("set_scale", <<n, v, w>>, "set_scale", K, V)
    BY <2>1, Tuples DEF Fits, CommandOf, OwnKey
  <2>3. Plain(Raw(v)) /\ Raw(v).of = v /\ Plain(Raw(w)) /\ Raw(w).of = w
    BY Values DEF Numbers
  <2> QED
    BY <1>17, <2>1, <2>2, <2>3, TwoFieldsTold DEF set_scale
<1>18. ASSUME NEW n, NEW t, set_bg_image(n, t) PROVE Spoken
  <2>1. PICK g : g = HalfQuoted("bg_image", Str(t)) /\ g.key = "bg_image" /\ g.value.of = t
    BY Fields, Values
  <2>2. Fits("set_bg_image", <<n, t>>, "set_bg_image",
             {"cmd_code", "type", "widget"} \union {g.key},
             {"set_bg_image", "widget", n} \union {g.value.of})
    BY <2>1, Tuples DEF Fits, CommandOf, OwnKey
  <2> QED
    BY <1>18, <2>1, <2>2, WidgetTells, OddFieldTold
       DEF set_bg_image, Unreadable
<1>19. ASSUME NEW n, NEW t, NEW u, set_color(n, t, u) PROVE Spoken
  <2>1. PICK g, h : /\ g = Field("color_object", Str(t)) /\ g.key = "color_object"
                    /\ g.value.of = t
                    /\ h = Field("color", Raw(u)) /\ h.key = "color" /\ h.value.of = u
    BY Fields, Values
  <2>2. Fits("set_color", <<n, t, u>>, "set_color",
             ({"cmd_code", "type", "widget"} \union {g.key}) \union {h.key},
             ({"set_color", "widget", n} \union {g.value.of}) \union {h.value.of})
    BY <2>1, Tuples DEF Fits, CommandOf, OwnKey
  <2> QED
    BY <1>19, <2>1, <2>2, WidgetTells, OddPairTold DEF set_color, Unreadable
<1>20. ASSUME NEW n, NEW v, set_rotation(n, v) PROVE Spoken
  <2>1. PICK g, h : /\ g = Listed("widget", Str(n)) /\ g.key = "widget" /\ g.value.of = n
                    /\ h = Field("rotation", Raw(v)) /\ h.key = "rotation"
                    /\ h.value.of = v
    BY Fields, Values
  <2>2. Fits("set_rotation", <<n, v>>, "set_rotation",
             ({"cmd_code", "type"} \union {g.key}) \union {h.key},
             ({"set_rotation", "image"} \union {g.value.of}) \union {h.value.of})
    BY <2>1, Tuples DEF Fits, CommandOf, OwnKey
  <2> QED
    BY <1>20, <2>1, <2>2, HeaderTells, OddPairTold
       DEF set_rotation, Unreadable
<1>21. ASSUME NEW n, NEW v, set_selected(n, v) PROVE Spoken
  <2>1. PICK g, h : /\ g = Listed("widget", Str(n)) /\ g.key = "widget" /\ g.value.of = n
                    /\ h = Field("selected_index", Raw(v)) /\ h.key = "selected_index"
                    /\ h.value.of = v
    BY Fields, Values
  <2>2. Fits("set_selected", <<n, v>>, "set_selected",
             ({"cmd_code", "type"} \union {g.key}) \union {h.key},
             ({"set_selected", "image"} \union {g.value.of}) \union {h.value.of})
    BY <2>1, Tuples DEF Fits, CommandOf, OwnKey
  <2> QED
    BY <1>21, <2>1, <2>2, HeaderTells, OddPairTold
       DEF set_selected, Unreadable
<1>22. ASSUME NEW n, NEW v \in Numbers, NEW w \in Numbers, set_table_text(n, v, w)
       PROVE  Spoken
  <2>1. PICK F : F = Widget("set_table_text", "table_view", n)
    OBVIOUS
  <2>2. PICK G, H, I : /\ G = Append(F, Field("text", Raw(v)))
                       /\ H = Append(G, Field("mode", Str("row")))
                       /\ I = Append(H, Field("row", Raw(w)))
    OBVIOUS
  <2>3. PICK K, L, M, N :
          /\ K = {"cmd_code", "type", "widget"} /\ L = K \union {"text"}
          /\ M = L \union {"mode"} /\ N = M \union {"row"}
    OBVIOUS
  <2>4. PICK V, W, X, Y :
          /\ V = {"set_table_text", "table_view", n} /\ W = V \union {v}
          /\ X = W \union {"row"} /\ Y = X \union {w}
    OBVIOUS
  <2>5. /\ Plain(Raw(v)) /\ Raw(v).of = v /\ Plain(Raw(w)) /\ Raw(w).of = w
        /\ Plain(Str("row")) /\ Str("row").of = "row"
    BY Values DEF Numbers
  <2>6. Tells(F, "set_table_text", K, V) /\ WellFormed(F)
    BY <2>1, <2>3, <2>4, WidgetTells
  <2>7. Tells(G, "set_table_text", L, W) /\ WellFormed(G)
    <3>1. "text" \notin K
      BY <2>3
    <3> QED
      BY <2>2, <2>3, <2>4, <2>5, <2>6, <3>1, FieldTells
  <2>8. Tells(H, "set_table_text", M, X) /\ WellFormed(H)
    <3>1. "mode" \notin L
      BY <2>3
    <3> QED
      BY <2>2, <2>3, <2>4, <2>5, <2>7, <3>1, FieldTells
  <2>9. Tells(I, "set_table_text", N, Y) /\ WellFormed(I)
    <3>1. "row" \notin M
      BY <2>3
    <3> QED
      BY <2>2, <2>3, <2>4, <2>5, <2>8, <3>1, FieldTells
  <2>10. Fits("set_table_text", <<n, v, w>>, "set_table_text", N, Y)
    BY <2>3, <2>4, Tuples DEF Fits, CommandOf, OwnKey
  <2>11. I = F \o <<Field("text", Raw(v)), Field("mode", Str("row")), Field("row", Raw(w))>>
    <3>1. PICK S : F \in Seq(S)
      BY <2>6 DEF Tells, Begins
    <3> QED
      BY <2>2, <3>1, Concat3
  <2> QED
    BY <1>22, <2>1, <2>9, <2>10, <2>11, Told DEF set_table_text
<1> QED
  BY <1>1, <1>2, <1>3, <1>4, <1>5, <1>6, <1>7, <1>8, <1>9, <1>10, <1>11,
     <1>12, <1>13, <1>14, <1>15, <1>16, <1>17, <1>18, <1>19, <1>20, <1>21, <1>22
     DEF NamedCall

\* Whatever they are called with, all builders of stone_transport.c:72-985 but the named
\* ones print messages that the display can read and that say what was called.
THEOREM BuildersSayTheirCalls == MessagesSpec => []MessagesAsCalled
<1>1. MessagesInit => MessagesAsCalled
  BY DEF MessagesInit, MessagesAsCalled, Readable, SaysWhatWasCalled, MessagesEnd,
         MessagesReadable, CommandNamed, ArgumentsCarried, ValueUnderOwnKey, Sent, Nothing
<1>2. MessagesAsCalled /\ [MessagesNext]_messagesVars => MessagesAsCalled'
  <2>1. MessagesNext => MessagesAsCalled'
    BY SystemCalls, WindowCalls, NamedCalls, TypedCalls, SpokenIsAsCalled DEF MessagesNext
  <2>2. MessagesAsCalled /\ UNCHANGED messagesVars => MessagesAsCalled'
    BY DEF messagesVars, MessagesAsCalled, Readable, SaysWhatWasCalled, MessagesEnd,
           MessagesReadable, CommandNamed, ArgumentsCarried, ValueUnderOwnKey, Sent, Command
  <2> QED
    BY <2>1, <2>2
<1> QED
  BY <1>1, <1>2, PTL DEF MessagesSpec

====
