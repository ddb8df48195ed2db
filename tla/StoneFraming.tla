---------------------------- MODULE StoneFraming ----------------------------
(***************************************************************************)
(* How uart_task (stone_parser/stone_receive.c) cuts the bytes from the    *)
(* display into frames.                                                    *)
(*                                                                         *)
(*     ST<  CMD  LEN  DATA  >ET  CRC                                       *)
(*                                                                         *)
(* uart_read_bytes returns whatever arrived within 20 ms, so a frame can   *)
(* be split between two reads at any byte.  The scan copies the bytes to   *)
(* STONE_RX_BUF and calls receive_parse when the three bytes >ET stand     *)
(* next to each other in the chunk just read; the two bytes after them are *)
(* taken for the CRC, wherever the chunk ends.                             *)
(*                                                                         *)
(* A byte is the pair of the frame it belongs to and its place there; the  *)
(* three bytes >ET occur nowhere else in a frame.                          *)
(***************************************************************************)
EXTENDS Naturals, Sequences, SequencesExt

CONSTANTS
  RX_LEN,     \* size of the buffer of one read (stone_config.h)
  NFrames,    \* bound: frames the display sends
  MaxHead     \* the most bytes of a frame before its >ET

ASSUME ConstantsOK ==
  /\ RX_LEN \in Nat /\ RX_LEN >= 2
  /\ NFrames \in Nat
  /\ MaxHead \in Nat \ {0}

Frames == 1 .. NFrames
TrailerLen == 5    \* > E T and two bytes of CRC
NoByte == <<0, 0>> \* the '\0' after a chunk, and a byte nobody has written
MaxFrame == MaxHead + TrailerLen

VARIABLES
  head,          \* head[f]: the length of frame f before its >ET
  rest,          \* bytes that the display has still to send
  chunk,         \* data, the buffer of uart_read_bytes
  len, i,        \* what the last read returned, and the scan's position
  STONE_RX_BUF,  \* the frame being collected; its length is STONE_RX_CNT
  (* The next two only observe. *)
  parsed,        \* for each call of receive_parse: first byte, and its >ET
  cut            \* frames whose trailer two reads have shared

scan == <<len, i>>
vars == <<head, rest, chunk, scan, STONE_RX_BUF, parsed, cut>>

Bytes(f, h) == [k \in 1 .. h[f] + TrailerLen |-> <<f, k>>]
Stream(h) == FlattenSeq([f \in Frames |-> Bytes(f, h)])

\* The letter of the terminator that byte b is, "" if it is none.
Letter(b) ==
  IF b = NoByte THEN ""
  ELSE CASE b[2] = head[b[1]] + 1 -> ">"
         [] b[2] = head[b[1]] + 2 -> "E"
         [] b[2] = head[b[1]] + 3 -> "T"
         [] OTHER -> ""

Init ==
  /\ head \in [Frames -> 1 .. MaxHead]
  /\ rest = Stream(head)
  /\ chunk = [j \in 0 .. RX_LEN - 1 |-> NoByte]
  /\ len = 0 /\ i = 0
  /\ STONE_RX_BUF = <<>>
  /\ parsed = <<>>
  /\ cut = {}

-----------------------------------------------------------------------------
\* Some bytes of a trailer have been read and others have not.
CutBy(left) ==
  {f \in Frames : left # <<>> /\ left[1][1] = f /\ left[1][2] > head[f] + 1}

\* uart_read_bytes, and data[len] = '\0'; the bytes behind it are older ones.
uart_read_bytes_NoNul ==
  /\ i >= len
  /\ \E k \in 1 .. RX_LEN - 1 :
       /\ k <= Len(rest)
       /\ chunk' = [j \in 0 .. RX_LEN - 1 |->
                     IF j < k THEN rest[j + 1] ELSE chunk[j]]
       /\ len' = k
       /\ rest' = SubSeq(rest, k + 1, Len(rest))
  /\ i' = 0
  /\ cut' = cut \union CutBy(rest')
  /\ UNCHANGED <<head, STONE_RX_BUF, parsed>>
uart_read_bytes ==
  /\ i >= len
  /\ \E k \in 1 .. RX_LEN - 1 :
       /\ k <= Len(rest)
       /\ chunk' = [j \in 0 .. RX_LEN - 1 |->
                     IF j < k THEN rest[j + 1]
                     ELSE IF j = k THEN NoByte ELSE chunk[j]]
       /\ len' = k
       /\ rest' = SubSeq(rest, k + 1, Len(rest))
  /\ i' = 0
  /\ cut' = cut \union CutBy(rest')
  /\ UNCHANGED <<head, STONE_RX_BUF, parsed>>

\* data[i+4] can lie one byte behind the buffer.
At(j) == IF j < RX_LEN THEN chunk[j] ELSE NoByte

FrameEnds ==
  Letter(At(i)) = ">" /\ Letter(At(i + 1)) = "E" /\ Letter(At(i + 2)) = "T"

CopyByte ==
  /\ i < len /\ ~FrameEnds
  /\ STONE_RX_BUF' = Append(STONE_RX_BUF, chunk[i])
  /\ i' = i + 1
  /\ UNCHANGED <<head, rest, chunk, len, parsed, cut>>

\* receive_parse finds the command, the length and the data of the frame that
\* STONE_RX_BUF starts with, at fixed places.
CloseFrame_NoReset ==
  /\ i < len /\ FrameEnds
  /\ LET buf == STONE_RX_BUF \o [k \in 1 .. TrailerLen |-> At(i + k - 1)]
     IN  /\ parsed' = Append(parsed, [first |-> buf[1],
                                      end |-> <<At(i), At(i + 1), At(i + 2)>>])
         /\ STONE_RX_BUF' = buf
  /\ i' = i + TrailerLen
  /\ UNCHANGED <<head, rest, chunk, len, cut>>
CloseFrame_ShortStep ==
  /\ i < len /\ FrameEnds
  /\ LET buf == STONE_RX_BUF \o [k \in 1 .. TrailerLen |-> At(i + k - 1)]
     IN  parsed' = Append(parsed, [first |-> buf[1],
                                   end |-> <<At(i), At(i + 1), At(i + 2)>>])
  /\ STONE_RX_BUF' = <<>>
  /\ i' = i + TrailerLen - 1
  /\ UNCHANGED <<head, rest, chunk, len, cut>>
CloseFrame ==
  /\ i < len /\ FrameEnds
  /\ LET buf == STONE_RX_BUF \o [k \in 1 .. TrailerLen |-> At(i + k - 1)]
     IN  parsed' = Append(parsed, [first |-> buf[1],
                                   end |-> <<At(i), At(i + 1), At(i + 2)>>])
  /\ STONE_RX_BUF' = <<>>
  /\ i' = i + TrailerLen
  /\ UNCHANGED <<head, rest, chunk, len, cut>>

Next == uart_read_bytes \/ CopyByte \/ CloseFrame

Spec == Init /\ [][Next]_vars

-----------------------------------------------------------------------------
(* Properties.                                                             *)

Whole(p) == p.first[2] = 1
Delivered == {parsed[n].first[1] : n \in {m \in DOMAIN parsed : Whole(parsed[m])}}

\* All bytes of frame f have been read and scanned.
Seen(f) == i >= len /\ (rest = <<>> \/ rest[1][1] > f)

\* A frame is closed by its own three bytes, received in this chunk: bytes
\* left in the buffer by an older chunk never complete a terminator.
NoPhantomEnd ==
  \A n \in DOMAIN parsed :
    \E f \in Frames : parsed[n].end = [k \in 1 .. 3 |-> <<f, head[f] + k>>]

\* A trailer that two reads share spoils the frame after it and no other: each
\* frame between two uncut trailers is delivered.
DamageIsLocal ==
  \A f \in Frames :
    Seen(f) /\ f \notin cut /\ (f - 1) \notin cut => f \in Delivered

\* Frames reach receive_parse in their order and at most once.
OnceInOrder ==
  \A m, n \in DOMAIN parsed :
    m < n /\ Whole(parsed[m]) /\ Whole(parsed[n]) =>
      parsed[m].first[1] < parsed[n].first[1]

\* Whatever the reads split, frames reach receive_parse once and in order, and all
\* of them do but those behind a split trailer.
Delivery == DamageIsLocal /\ OnceInOrder

\* STONE_RX_CNT grows only by frames whose trailer was cut.
BufferBounded ==
  Len(STONE_RX_BUF) <= MaxFrame * Cardinality(cut) + MaxFrame

=============================================================================
