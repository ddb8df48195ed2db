----------------------------- MODULE StoneJson -----------------------------
(***************************************************************************)
(* STONE_JSON of stone_transport.c: a message is built by one call for     *)
(* each pair of a name and a value, the last of them with JSON_END.  The   *)
(* static json_create remembers, from one call to the next, whether the    *)
(* message has been begun.                                                 *)
(*                                                                         *)
(* What is printed is kept as a sequence of pieces: the head ST<{, a name  *)
(* with its value, a comma, the end }>ET.                                  *)
(***************************************************************************)
EXTENDS Naturals, Sequences, SequencesExt

CONSTANTS
  Pairs,      \* names with their values
  MaxPairs,   \* bound: pairs of one message
  MaxPackets, \* bound: messages
  Room,       \* pieces that STONE_TX_BUF has room for (TX_LEN)
  Byte        \* values of a char (256)

ASSUME JsonConstantsOK ==
  /\ MaxPairs \in Nat /\ MaxPackets \in Nat
  /\ Room \in Nat \ {0} /\ Byte \in Nat /\ Byte >= 2

VARIABLES
  json_create,   \* a static char
  STONE_TX_BUF,  \* the pieces printed, TX_CNT of them
  sent,          \* messages handed to tx_create, with their pairs
  given          \* observes: the pairs of the message being built

jsonVars == <<json_create, STONE_TX_BUF, sent, given>>

Opening == "ST<{"
Comma   == ","
Closing == "}>ET"

JsonInit ==
  /\ json_create = 0
  /\ STONE_TX_BUF = <<>>
  /\ sent = <<>>
  /\ given = <<>>

\* What the pair is printed behind: a new head when json_create is zero, and
\* nothing at all when that fills the buffer.  (A text saying so is sent first,
\* but with TX_CNT cleared, so none of it.)
Started == IF json_create = 0 THEN <<Opening>> ELSE STONE_TX_BUF
Begun == IF Len(Started) >= Room THEN <<>> ELSE Started

\* STONE_JSON(name, value).  The argument that is not there is read all the
\* same; should it be JSON_END by chance, the call is a LastPair.
Pair(p) ==
  /\ STONE_TX_BUF' = Begun \o <<p, Comma>>
  /\ json_create' = ((IF Begun = <<>> THEN 0 ELSE json_create) + 1) % Byte
  /\ given' = Append(given, p)
  /\ UNCHANGED sent

\* STONE_JSON(name, value, JSON_END)
LastPair(p) ==
  /\ STONE_TX_BUF' = Begun \o <<p, Closing>>
  /\ sent' = Append(sent, [text |-> STONE_TX_BUF', pairs |-> Append(given, p)])
  /\ json_create' = 1
  /\ given' = <<>>

STONE_JSON ==
  \E p \in Pairs :
    \/ Len(given) < MaxPairs - 1 /\ Pair(p)
    \/ Len(sent) < MaxPackets /\ LastPair(p)

JsonSpec == JsonInit /\ [][STONE_JSON]_jsonVars

-----------------------------------------------------------------------------
\* The pairs as they are printed, from the first to the end.
Body(pairs) ==
  [k \in 1 .. 2 * Len(pairs) |->
     IF k % 2 = 1 THEN pairs[(k + 1) \div 2]
     ELSE IF k = 2 * Len(pairs) THEN Closing ELSE Comma]

\* The pieces in front of message k: its own head, or all that is left of the
\* messages before it, because json_create is not zero when one has ended.
Before(k) == IF k = 1 THEN 1 ELSE Len(sent[k - 1].text)


\* The comment at STONE_JSON: a message reads ST<{ pair , pair ... pair }>ET,
\* with the pairs given since the last JSON_END.
Text(pairs) == <<Opening>> \o Body(pairs)

MessagesAsGiven ==
  \A k \in DOMAIN sent : sent[k].text = Text(sent[k].pairs)

=============================================================================
