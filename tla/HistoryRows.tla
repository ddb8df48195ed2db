---------------------------- MODULE HistoryRows ----------------------------
(***************************************************************************)
(* What push_history (history/spiffs.c) makes of the lines that            *)
(* save_history wrote.                                                     *)
(*                                                                         *)
(* A line is "date,period,mode,time".  push_history reads the log with     *)
(* fgets into line[30], splits what it read into str1 .. str4 and appends  *)
(* one element to each of five arrays, which hold the columns that the     *)
(* display shows.  A line of 29 characters fills line, and its newline is  *)
(* read by the next fgets, as a line of its own.  A time of four digits    *)
(* does not fit str4[4]: its final 0 is written to whatever the compiler   *)
(* has put behind.  A longer line does not fit buffer_time[30], a mode of  *)
(* two digits not str3[2], and of a time of five digits more than the 0    *)
(* lies behind str4: what the program does from then on is undefined, and  *)
(* the model goes no further (wild).                                       *)
(*                                                                         *)
(* A reset during a save leaves a beginning of the text, whose last line   *)
(* may be torn; it stays the last line of the file, as every later save    *)
(* writes it again as it is.  sscanf assigns no more strings than it       *)
(* finds in it.                                                            *)
(*                                                                         *)
(* Who may write and push when is in History; here the log keeps still     *)
(* while it is pushed, as it is open.                                      *)
(***************************************************************************)
EXTENDS HistoryLimits, Integers, Sequences, FiniteSets

CONSTANTS
  Dates,       \* dates, 19 characters each
  Modes,       \* modes of a run
  Times,       \* lengths of a run in seconds
  Newline,     \* the string of a newline
  NoText,      \* the empty string
  CutDate,     \* a date that a reset cut short
  Behinds,     \* what may lie behind str4: a string, a column's array, or none of them
  TX_LEN       \* size of STONE_TX_BUF (5000)

\* The period that is written beside a mode.
period(mode) == CASE mode = 1 -> 5 [] mode = 2 -> 10 [] mode = 3 -> 15
                  [] mode = 4 -> 20 [] mode = 5 -> 30 [] OTHER -> 1

\* Characters of %d.
Digits(n) == IF n < 10 THEN 1 ELSE IF n < 100 THEN 2 ELSE IF n < 1000 THEN 3
             ELSE IF n < 10000 THEN 4 ELSE 5

DateWidth == 19
Line(e) == DateWidth + 1 + Digits(period(e.mode)) + 1 + Digits(e.mode) + 1 + Digits(e.time)

buffer_time == 30   \* the size of the buffer in which save_history makes the line
line == 30          \* the size of the buffer that fgets fills

\* What an element of a column takes, by which the arrays are sized.
INDEX == 7
DATE == 22
TIME_MODE == 5
MODE == 4
TIME_RUN == 7
Room == <<INDEX, DATE, TIME_MODE, MODE, TIME_RUN>>
Columns == 1 .. 5

\* set_text: ST<{"cmd_code":"set_text","type":"label","widget":
\* "lable1_copy1_200","text": and }>ET beside the column.
Overhead == 80

Strings == {"str1", "str2", "str3"}
Arrays == <<"array_res_1", "array_res_2", "array_res_3", "array_res_4", "array_res_5">>

ASSUME LimitsOK ==
  /\ LOG_MAX \in Nat \ {0} /\ LOG_MAX <= 9999
  /\ MaxEntries \in Nat

\* uint8_t mode, uint16_t time.
ASSUME RunsOK ==
  /\ \A mode \in Modes : mode \in Nat /\ mode < 256
  /\ \A time \in Times : time \in Nat /\ time < 65536

ASSUME StringsOK ==
  /\ Behinds \subseteq Strings \union {Arrays[c] : c \in Columns} \union {"none"}
  /\ Newline \notin Dates \union {CutDate} /\ NoText \notin Dates \union {CutDate}
  /\ Newline # NoText
  /\ NoText \notin 0 .. 9999

ASSUME BufferOK == TX_LEN \in Nat /\ DATE * LOG_MAX + 1 + Overhead < TX_LEN

Entry == [date : Dates, mode : Modes, time : Times]

VARIABLES
  lines,       \* the whole lines of the file, newest first
  torn,        \* what a reset has left of one more line: the strings to be found in it
  at,          \* lines that fgets has begun to read
  split,       \* the newline of the last of them is still to be read
  str1, str2, str3, str4,  \* what sscanf found last
  line_count,
  array_res,   \* the length of the string in each of array_res_1 .. array_res_5
  rows,        \* what these strings list, row by row
  pushing,     \* push_history is at work
  behind,      \* what lies behind str4 in this build
  wild,        \* a string was written behind its buffer, or read before it was written
  fits         \* only observes: every run that was saved was as Fits says

strs == <<str1, str2, str3, str4>>
rowsVars ==
  <<lines, torn, at, split, strs, line_count, array_res, rows, pushing, behind, wild, fits>>

RowsInit ==
  /\ lines = <<>> /\ torn = <<>>
  /\ at = 0 /\ split = FALSE
  /\ str1 = NoText /\ str2 = NoText /\ str3 = NoText /\ str4 = NoText
  /\ line_count = 0
  /\ array_res = [c \in Columns |-> 0]
  /\ rows = <<>>
  /\ pushing = FALSE
  /\ behind \in Behinds
  /\ wild = FALSE /\ fits = TRUE

-----------------------------------------------------------------------------
(* The file.                                                               *)

\* The strings that sscanf finds in a line.
Fields(e) == <<e.date, period(e.mode), e.mode, e.time>>

\* Runs that the buffers were made for.
Fits(e) == e.mode <= 9 /\ e.time <= 9999

save_line(e) ==
  /\ ~wild /\ ~pushing /\ Len(lines) < MaxEntries
  /\ fits' = (fits /\ Fits(e))
  /\ IF Line(e) < buffer_time
     THEN lines' = <<e>> \o lines /\ UNCHANGED wild
     ELSE wild' = TRUE /\ UNCHANGED lines
  /\ UNCHANGED <<torn, at, split, strs, line_count, array_res, rows, pushing, behind>>

\* What may be left of string j of a line: a beginning that is not empty.
Beginnings(j, s) ==
  IF j = 1 THEN {s, CutDate}
           ELSE {s} \union ({s \div k : k \in {10, 100, 1000, 10000}} \ {0})

\* What is left of a line is nothing, or j strings, the last of them cut anywhere.
cut_line(fields) ==
  \/ torn' = <<>>
  \/ \E j \in 1 .. Len(fields) : \E s \in Beginnings(j, fields[j]) :
       torn' = [i \in 1 .. j |-> IF i < j THEN fields[i] ELSE s]

\* A save that a reset interrupts has written a beginning of its text.
cut_save(e) ==
  /\ ~wild /\ ~pushing /\ Len(lines) < MaxEntries /\ Line(e) < buffer_time
  /\ fits' = (fits /\ Fits(e))
  /\ LET text == <<e>> \o lines
     IN  \E n \in 0 .. Len(text) :
           /\ lines' = SubSeq(text, 1, n)
           /\ cut_line(IF n < Len(text) THEN Fields(text[n + 1]) ELSE torn)
  /\ UNCHANGED <<at, split, strs, line_count, array_res, rows, pushing, behind, wild>>

-----------------------------------------------------------------------------
(* push_history.                                                           *)

\* fopen, and "[" in each array.
push_open ==
  /\ ~wild /\ ~pushing
  /\ pushing' = TRUE
  /\ array_res' = [c \in Columns |-> 1]
  /\ UNCHANGED <<lines, torn, at, split, strs, line_count, rows, behind, wild, fits>>

\* The lines of the file, a torn one included, and the next of them.
FileLines == Len(lines) + (IF Len(torn) = 0 THEN 0 ELSE 1)
NextFields == IF at < Len(lines) THEN Fields(lines[at + 1]) ELSE torn
ReadsLine == ~split /\ at < FileLines

\* What sscanf would find does not fit str3 or str4, by more than a 0; or it leaves
\* strings as push_history found them on the stack.
Overrun ==
  /\ ReadsLine
  /\ LET f == NextFields
     IN  \/ Len(f) >= 3 /\ Digits(f[3]) > 1
         \/ Len(f) = 4 /\ Digits(f[4]) > 4
         \/ at = 0 /\ Len(f) < 4

\* Where the 0 goes that leaves str4.
Zeroed ==
  IF ReadsLine /\ Len(NextFields) = 4 /\ Digits(NextFields[4]) = 4 THEN behind ELSE "none"

\* sscanf "%[^,],%[^,],%[^,],%s" of a line.
scan(f) ==
  LET found(j, name, str) ==
        IF Zeroed = name THEN NoText ELSE IF j <= Len(f) THEN f[j] ELSE str
  IN  /\ str1' = found(1, "str1", str1)
      /\ str2' = found(2, "str2", str2)
      /\ str3' = found(3, "str3", str3)
      /\ str4' = found(4, "str4", str4)

\* sscanf of a newline fills str1 only.
scan_newline_Kept == UNCHANGED strs
scan_newline ==
  /\ str1' = Newline
  /\ UNCHANGED <<str2, str3, str4>>

\* The characters that %s prints, of a cut date at most.
DateText(s) == IF s = NoText THEN 0 ELSE IF s = Newline THEN 1 ELSE DateWidth
NumberText(s) == IF s = NoText THEN 0 ELSE Digits(s)

\* The newline that the last fgets left, or the next line.
fgets_line ==
  \/ /\ split
     /\ split' = FALSE /\ UNCHANGED at
     /\ scan_newline
  \/ /\ ReadsLine
     /\ at' = at + 1
     /\ split' = (at < Len(lines) /\ Line(lines[at + 1]) >= line - 1)
     /\ scan(NextFields)

\* The sprintfs of the loop: an element, two quotes and a comma.
append ==
  /\ line_count' = line_count + 1
  /\ LET text == <<Digits(line_count'), DateText(str1'), NumberText(str2'),
                   NumberText(str3'), NumberText(str4')>>
         left(c) == IF Zeroed = Arrays[c] THEN 0 ELSE array_res[c]
     IN  array_res' = [c \in Columns |-> left(c) + text[c] + 3]
  /\ rows' = Append(rows, [date |-> str1', period |-> str2', mode |-> str3', time |-> str4'])

fgets_NoBreak ==
  /\ ~wild /\ pushing
  /\ \/ ~Overrun /\ fgets_line /\ append /\ UNCHANGED wild
     \/ /\ Overrun /\ wild' = TRUE
        /\ UNCHANGED <<at, split, strs, line_count, array_res, rows>>
  /\ UNCHANGED <<lines, torn, pushing, behind, fits>>
fgets ==
  /\ ~wild /\ pushing /\ line_count < LOG_MAX
  /\ \/ ~Overrun /\ fgets_line /\ append /\ UNCHANGED wild
     \/ /\ Overrun /\ wild' = TRUE
        /\ UNCHANGED <<at, split, strs, line_count, array_res, rows>>
  /\ UNCHANGED <<lines, torn, pushing, behind, fits>>

\* The loop is over; "]" takes the place of the last comma, or of the "[".  The
\* five columns are sent, and nothing of what push_history has on its stack is left.
set_text ==
  /\ ~wild /\ pushing
  /\ line_count >= LOG_MAX \/ (at >= FileLines /\ ~split)
  /\ pushing' = FALSE
  /\ at' = 0 /\ split' = FALSE
  /\ str1' = NoText /\ str2' = NoText /\ str3' = NoText /\ str4' = NoText
  /\ line_count' = 0
  /\ array_res' = [c \in Columns |-> 0]
  /\ rows' = <<>>
  /\ UNCHANGED <<lines, torn, behind, wild, fits>>

RowsNext ==
  \/ \E e \in Entry : save_line(e) \/ cut_save(e)
  \/ push_open
  \/ fgets
  \/ set_text

RowsSpec == RowsInit /\ [][RowsNext]_rowsVars

-----------------------------------------------------------------------------
(* Properties.                                                             *)

DateStrings == Dates \union {CutDate, Newline, NoText}
NumberStrings == 0 .. 9999 \union {NoText}
Shown == [date : DateStrings, period : NumberStrings, mode : NumberStrings,
          time : NumberStrings]

RowsTypeOK ==
  /\ lines \in Seq(Entry) /\ Len(lines) <= MaxEntries
  /\ Len(torn) \in 0 .. 4
  /\ at \in 0 .. FileLines
  /\ split \in BOOLEAN /\ pushing \in BOOLEAN /\ wild \in BOOLEAN /\ fits \in BOOLEAN
  /\ str1 \in DateStrings
  /\ str2 \in NumberStrings /\ str3 \in NumberStrings /\ str4 \in NumberStrings
  /\ line_count \in 0 .. LOG_MAX
  /\ array_res \in [Columns -> Nat]
  /\ rows \in Seq(Shown)
  /\ behind \in Behinds

\* The string of each column and its final 0 fit the array, whose size is that
\* of LOG_MAX elements and 3 more, whichever lines were split or torn and whatever a
\* long time has written a 0 to.
ColumnsFit == \A c \in Columns : array_res[c] + 1 <= Room[c] * LOG_MAX + 3

\* Whenever a column is sent, the message and its final 0 fit STONE_TX_BUF.
MessagesFit == \A c \in Columns : array_res[c] + Overhead + 1 <= TX_LEN

\* Nothing is written behind buffer_time, the strings (but for the 0 of a time of four
\* digits), a column's array or STONE_TX_BUF, as long as every run that was saved has a
\* mode of one digit and a time of four at most: save_history takes any uint8_t and
\* uint16_t.  And no string is read before it is written, unless a reset has left the
\* file with nothing but a torn line.
BuffersHold ==
  /\ ColumnsFit /\ MessagesFit
  /\ wild => ~fits \/ (lines = <<>> /\ Len(torn) \in 1 .. 3)

\* Lines that line[30] holds with their newline, and times that str4[4] holds.
Plain(e) == Line(e) <= 28 /\ e.time < 1000
AllPlain ==
  /\ \A i \in 1 .. Len(lines) : Plain(lines[i])
  /\ Len(torn) = 4 => torn[4] < 1000
Row(e) == [date |-> e.date, period |-> period(e.mode), mode |-> e.mode, time |-> e.time]
Least(m, n) == IF m < n THEN m ELSE n

\* If every line is plain the display shows the newest LOG_MAX runs, each once
\* and in order, with the values they were saved with, and behind them one row of a
\* torn line if there is one.
PlainRowsAreRuns ==
  AllPlain =>
    /\ Len(rows) = Least(LOG_MAX, FileLines)
    /\ \A i \in 1 .. Least(LOG_MAX, Len(lines)) : rows[i] = Row(lines[i])

\* The rows without that of a torn line.
WholeRows == IF at > Len(lines) THEN Len(rows) - 1 ELSE Len(rows)

\* The rows with a date among the first n.
Dated(list, n) == Cardinality({i \in 1 .. n : list[i].date # Newline})

\* Row i is the run that its place among the rows with a date gives it, or repeats
\* the row before it without its date.
Listed(list, i) ==
  IF list[i].date # Newline
  THEN list[i] = Row(lines[Dated(list, i)])
  ELSE /\ i > 1 /\ list[i - 1].date # Newline
       /\ list[i] = [list[i - 1] EXCEPT !.date = Newline]

\* A long line does no more than add a row with an empty date behind its own, as
\* long as nothing else lies behind str4: the rows with a date are the newest runs,
\* each once and in order, and only a full list leaves runs out.  A torn line adds no
\* more than one row, the last.
OnlyBlankRowsAdded ==
  behind = "none" =>
    /\ Dated(rows, WholeRows) = Least(at, Len(lines))
    /\ at = FileLines \/ Len(rows) = LOG_MAX
    /\ \A i \in 1 .. WholeRows : Listed(rows, i)

\* What a push sends, unless the program's behaviour is undefined by then: each row
\* but that of a torn line is a run, in the log's order, or the newline of one.
RowsAreRuns ==
  [][ pushing /\ ~pushing' => PlainRowsAreRuns /\ OnlyBlankRowsAdded ]_rowsVars

=============================================================================
