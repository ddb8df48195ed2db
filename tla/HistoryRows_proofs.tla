------------------------ MODULE HistoryRows_proofs ------------------------
(***************************************************************************)
(* Proofs about the log of runs, for every number of tasks, of rows and of *)
(* entries.                                                                *)
(*                                                                         *)
(* HistoryRows: push_history stays within its five arrays and within       *)
(* STONE_TX_BUF, as long as its strings are what their buffers were made   *)
(* for.  The arrays are filled by a loop, so the invariant says how full   *)
(* they are after line_count elements: what one element takes at most,     *)
(* times line_count, and the bracket.  What the rows list is followed row  *)
(* by row: which line has been read, and whether its newline is still to   *)
(* be.                                                                     *)
(*                                                                         *)
(* History: what was saved alone stays, once and in order, and a push      *)
(* shows the file.  The invariant says where the entries are while         *)
(* save_history rewrites the file: in the file, or with the one task that  *)
(* has it open for writing, in what that task has read before; nobody can  *)
(* have completed a save between its read and its write that counts as     *)
(* alone.                                                                  *)
(***************************************************************************)
EXTENDS History, HistoryRows, FiniteSetTheorems, TLAPS

\* What sscanf finds prints in the characters that the columns reckon with.
StrInv ==
  /\ str2 \in 1 .. 30 \union {NoText}
  /\ str3 \in 0 .. 9 \union {NoText}

\* No column is fuller than the loop has made it.
FillInv == \A c \in Columns : array_res[c] <= Room[c] * line_count + 1

\* What sscanf can find in a line, or in what is left of one.
FieldsOK(f) ==
  /\ Len(f) \in 0 .. 4
  /\ Len(f) >= 1 => f[1] \in Dates \union {CutDate}
  /\ Len(f) >= 2 => f[2] \in 1 .. 30
  /\ Len(f) >= 3 => f[3] \in Nat
  /\ Len(f) = 4 => f[4] \in Nat

\* Between two pushes nothing is left of the last; only a whole line has a newline.
IdleInv ==
  /\ ~pushing => at = 0 /\ ~split /\ line_count = 0 /\ rows = <<>>
  /\ split => at <= Len(lines)

IInv == RowsTypeOK /\ StrInv /\ FieldsOK(torn) /\ FillInv /\ IdleInv

-----------------------------------------------------------------------------
(* What is known of the constants.                                         *)

LEMMA RowsBound == LOG_MAX \in Nat /\ LOG_MAX <= 9999 /\ LOG_MAX # 0
BY LimitsOK

LEMMA LinesBound == MaxEntries \in Nat
BY LimitsOK

LEMMA ModesBound == \A mode \in Modes : mode \in Nat
BY RunsOK

LEMMA TimesBound == \A time \in Times : time \in Nat
BY RunsOK

-----------------------------------------------------------------------------
(* What the conversions print.                                             *)

\* What NumberStrings has besides NoText.
FourDigits == 0 .. 9999
LEMMA NumbersOrNone ==
  /\ NumberStrings = FourDigits \union {NoText} /\ FourDigits \subseteq Nat
  /\ 0 .. 30 \subseteq FourDigits /\ 0 .. 9 \subseteq FourDigits
<1>1. NumberStrings = FourDigits \union {NoText}
  <2>1. \A x : x \in NumberStrings <=> x \in FourDigits \/ x = NoText
    BY SMTT(30) DEF NumberStrings, FourDigits
  <2> QED
    BY ONLY <2>1
<1>2. FourDigits \subseteq Nat
  BY DEF FourDigits
<1>3. 0 .. 30 \subseteq FourDigits /\ 0 .. 9 \subseteq FourDigits
  BY SMTT(30) DEF FourDigits
<1> QED
  BY ONLY <1>1, <1>2, <1>3

LEMMA DigitsBound ==
  ASSUME NEW n \in Nat
  PROVE  /\ Digits(n) \in 1 .. 5
         /\ n < 10 <=> Digits(n) = 1
         /\ n < 100 => Digits(n) <= 2
         /\ n < 10000 <=> Digits(n) <= 4
BY DEF Digits

LEMMA DateTextBound ==
  ASSUME NEW s PROVE DateText(s) \in 0 .. 19
BY DEF DateText, DateWidth

LEMMA NumberTextBound ==
  ASSUME NEW n \in Nat, NEW s \in 0 .. n \union {NoText}, n <= 9999
  PROVE  /\ NumberText(s) \in 0 .. 4
         /\ n < 10 => NumberText(s) <= 1
         /\ n < 100 => NumberText(s) <= 2
BY DigitsBound DEF NumberText

LEMMA PeriodBound == ASSUME NEW mode \in Nat PROVE period(mode) \in 1 .. 30
BY DEF period

\* The element of one row takes no more than its column has room for.
LEMMA ElementBound ==
  ASSUME IInv, StrInv', str4' \in NumberStrings,
         append, line_count < LOG_MAX
  PROVE  \A c \in Columns :
           /\ array_res'[c] \in Nat
           /\ array_res'[c] <= array_res[c] + Room[c]
<1>0. line_count \in 0 .. LOG_MAX /\ line_count' = line_count + 1 /\ LOG_MAX \in Nat
  BY RowsBound DEF append, IInv, RowsTypeOK
<1>1. Digits(line_count') \in 1 .. 4
  <2>1. line_count' \in Nat /\ line_count' < 10000
    BY <1>0, RowsBound
  <2> QED
    BY <2>1, DigitsBound
<1>2. DateText(str1') \in 0 .. 19
  BY DateTextBound
<1>3. NumberText(str2') \in 0 .. 2
  BY NumberTextBound, str2' \in 0 .. 30 \union {NoText} DEF StrInv
<1>4. NumberText(str3') \in 0 .. 1
  BY NumberTextBound, str3' \in 0 .. 9 \union {NoText} DEF StrInv
<1>5. NumberText(str4') \in 0 .. 4
  <2>1. CASE str4' = NoText
    BY <2>1 DEF NumberText
  <2>2. CASE str4' # NoText
    <3>1. str4' \in FourDigits
      BY <2>2, NumbersOrNone
    <3>2. Digits(str4') \in 1 .. 4
      <4>1. str4' \in Nat /\ str4' < 10000
        BY <3>1 DEF FourDigits
      <4> QED
        BY ONLY <4>1, DigitsBound
    <3> QED
      BY <2>2, <3>2 DEF NumberText
  <2> QED
    BY ONLY <2>1, <2>2
<1>6. array_res \in [Columns -> Nat]
  BY DEF IInv, RowsTypeOK
<1> DEFINE text == <<Digits(line_count'), DateText(str1'), NumberText(str2'),
                     NumberText(str3'), NumberText(str4')>>
<1> DEFINE left(c) == IF Zeroed = Arrays[c] THEN 0 ELSE array_res[c]
<1>7. array_res' = [c \in Columns |-> left(c) + text[c] + 3]
  BY DEF append
<1>10. \A c \in Columns : left(c) \in Nat /\ left(c) <= array_res[c]
  BY <1>6
<1> HIDE DEF left
<1>8. ASSUME NEW c \in Columns
      PROVE  text[c] \in Nat /\ text[c] + 3 <= Room[c]
  <2>1. CASE c = 1
    BY <1>1, <2>1 DEF Room, INDEX
  <2>2. CASE c = 2
    BY <1>2, <2>2 DEF Room, DATE
  <2>3. CASE c = 3
    BY <1>3, <2>3 DEF Room, TIME_MODE
  <2>4. CASE c = 4
    BY <1>4, <2>4 DEF Room, MODE
  <2>5. CASE c = 5
    BY <1>5, <2>5 DEF Room, TIME_RUN
  <2> QED
    BY <2>1, <2>2, <2>3, <2>4, <2>5 DEF Columns
<1> HIDE DEF text
<1>9. \A c \in Columns : Room[c] \in Nat
  BY DEF Columns, Room, INDEX, DATE, TIME_MODE, MODE, TIME_RUN
<1> QED
  BY <1>6, <1>7, <1>8, <1>9, <1>10

-----------------------------------------------------------------------------
(* The invariant.                                                          *)

LEMMA InitInv == RowsInit => IInv
<1> SUFFICES ASSUME RowsInit PROVE IInv
  OBVIOUS
<1>1. RowsTypeOK
  <2>1. line_count \in 0 .. LOG_MAX
    BY RowsBound DEF RowsInit
  <2>2. lines \in Seq(Entry) /\ Len(lines) = 0
    BY DEF RowsInit
  <2>3. Len(lines) <= MaxEntries
    BY <2>2, LinesBound
  <2>4. at \in 0 .. FileLines /\ Len(torn) \in 0 .. 4
    BY <2>2 DEF RowsInit, FileLines
  <2>5. /\ str1 \in DateStrings
        /\ str2 \in NumberStrings /\ str3 \in NumberStrings /\ str4 \in NumberStrings
    BY DEF RowsInit, DateStrings, NumberStrings
  <2>6. rows \in Seq(Shown)
    BY DEF RowsInit
  <2>7. array_res \in [Columns -> Nat]
    BY DEF RowsInit
  <2>8. /\ split \in BOOLEAN /\ pushing \in BOOLEAN /\ behind \in Behinds
        /\ wild \in BOOLEAN /\ fits \in BOOLEAN
    BY DEF RowsInit
  <2> QED
    BY <2>1, <2>2, <2>3, <2>4, <2>5, <2>6, <2>7, <2>8 DEF RowsTypeOK
<1>2. StrInv
  BY DEF RowsInit, StrInv
<1>3. FillInv
  BY DEF RowsInit, FillInv, Columns, Room, INDEX, DATE, TIME_MODE, MODE,
     TIME_RUN
<1>4. FieldsOK(torn) /\ IdleInv
  BY DEF RowsInit, FieldsOK, IdleInv
<1> QED
  BY <1>1, <1>2, <1>3, <1>4 DEF IInv

\* What sscanf finds in a line that was saved.
LEMMA LineFields ==
  ASSUME NEW e \in Entry
  PROVE  /\ Len(Fields(e)) = 4 /\ FieldsOK(Fields(e))
         /\ Fields(e)[1] = e.date /\ Fields(e)[2] = period(e.mode)
         /\ Fields(e)[3] = e.mode /\ Fields(e)[4] = e.time
<1>1. e.date \in Dates /\ e.mode \in Modes /\ e.time \in Times
  BY DEF Entry
<1>2. e.mode \in Nat /\ e.time \in Nat
  BY <1>1, ModesBound, TimesBound
<1>3. period(e.mode) \in 1 .. 30
  BY <1>2, PeriodBound
<1> QED
  BY <1>1, <1>2, <1>3 DEF Fields, FieldsOK

\* The beginning of a number is no greater.
LEMMA BeginningBound ==
  ASSUME NEW j, j # 1, NEW n \in Nat, NEW s \in Beginnings(j, n)
  PROVE  s \in Nat /\ s <= n /\ (n # 0 => s # 0)
<1>1. s = n \/ \E k \in {10, 100, 1000, 10000} : s = n \div k /\ s # 0
  BY DEF Beginnings
<1>2. ASSUME NEW k \in {10, 100, 1000, 10000}, s = n \div k, s # 0
      PROVE  s \in Nat /\ s <= n
  BY <1>2, SMTT(30)
<1> QED
  BY <1>1, <1>2

\* What is left of a line that is cut.
LEMMA CutFields ==
  ASSUME NEW f, FieldsOK(f), cut_line(f)
  PROVE  FieldsOK(torn)'
<1>1. CASE torn' = <<>>
  BY <1>1 DEF FieldsOK
<1>2. ASSUME NEW j \in 1 .. Len(f), NEW s \in Beginnings(j, f[j]),
             torn' = [i \in 1 .. j |-> IF i < j THEN f[i] ELSE s]
      PROVE  FieldsOK(torn)'
  <2>1. Len(f) \in 0 .. 4 /\ j \in 1 .. 4
    BY <1>2 DEF FieldsOK
  <2>2. Len(torn') = j /\ \A i \in 1 .. j : torn'[i] = IF i < j THEN f[i] ELSE s
    BY <1>2, <2>1
  <2>3. j = 1 => s \in Dates \union {CutDate}
    BY <1>2, <2>1 DEF Beginnings, FieldsOK
  <2>4. ASSUME j # 1, f[j] \in Nat
        PROVE  s \in Nat /\ s <= f[j] /\ (f[j] # 0 => s # 0)
    BY <1>2, <2>4, BeginningBound
  <2>5. j = 2 => s \in 1 .. 30
    <3>1. j = 2 => f[2] \in 1 .. 30 /\ f[2] \in Nat
      BY <1>2, <2>1 DEF FieldsOK
    <3>2. CASE j = 2
      <4>0. f[j] = f[2]
        BY ONLY <3>2
      <4>1. f[j] \in Nat /\ f[j] # 0 /\ f[j] <= 30
        <5>1. PICK b : b = f[2]
          OBVIOUS
        <5>2. b \in 1 .. 30
          BY ONLY <3>1, <3>2, <5>1
        <5>3. b \in Nat /\ b # 0 /\ b <= 30
          BY ONLY <5>2
        <5> QED
          BY ONLY <4>0, <5>1, <5>3
      <4>2. s \in Nat /\ s <= f[j] /\ s # 0
        BY ONLY <2>4, <3>2, <4>1
      <4> QED
        BY ONLY <4>1, <4>2
    <3> QED
      BY <3>2
  <2>6. j \in 3 .. 4 => s \in Nat
    <3>1. j \in 3 .. 4 => f[j] \in Nat
      BY <1>2, <2>1 DEF FieldsOK
    <3> QED
      BY <2>4, <3>1
  <2>7. torn'[j] = s /\ \A i \in 1 .. 3 : i < j => torn'[i] = f[i] /\ Len(f) >= i
    BY <2>1, <2>2
  <2>8. Len(torn') \in 0 .. 4
    BY <2>1, <2>2
  <2>9. /\ Len(torn') >= 1 => torn'[1] \in Dates \union {CutDate}
        /\ Len(torn') >= 2 => torn'[2] \in 1 .. 30
    <3>1. torn'[1] \in Dates \union {CutDate}
      <4>1. CASE j = 1
        BY <2>3, <2>7, <4>1
      <4>2. CASE j # 1
        <5>1. 1 < j /\ 1 \in 1 .. 3
          BY <2>1, <4>2
        <5>2. torn'[1] = f[1] /\ Len(f) >= 1
          BY ONLY <2>7, <5>1
        <5> QED
          BY <5>2 DEF FieldsOK
      <4> QED
        BY <4>1, <4>2
    <3>2. j >= 2 => torn'[2] \in 1 .. 30
      <4>1. CASE j = 2
        BY <2>5, <2>7, <4>1
      <4>2. CASE j > 2
        <5>1. torn'[2] = f[2] /\ Len(f) >= 2
          BY <2>7, <4>2
        <5> QED
          BY <5>1 DEF FieldsOK
      <4> QED
        BY <2>1, <4>1, <4>2
    <3> QED
      BY <2>2, <3>1, <3>2
  <2>10. /\ Len(torn') >= 3 => torn'[3] \in Nat
         /\ Len(torn') = 4 => torn'[4] \in Nat
    BY <2>1, <2>2, <2>6, <2>7 DEF FieldsOK
  <2> QED
    BY <2>8, <2>9, <2>10 DEF FieldsOK
<1> QED
  BY <1>1, <1>2 DEF cut_line

\* The next line of the file.
LEMMA NextLine ==
  ASSUME IInv, ReadsLine
  PROVE  /\ at \in Nat /\ at + 1 \in 0 .. FileLines /\ FieldsOK(NextFields)
         /\ \/ at < Len(lines) /\ lines[at + 1] \in Entry
               /\ NextFields = Fields(lines[at + 1])
            \/ at = Len(lines) /\ Len(torn) # 0 /\ NextFields = torn
<1>1. /\ lines \in Seq(Entry) /\ Len(lines) \in Nat /\ at \in 0 .. FileLines
      /\ at < FileLines /\ FieldsOK(torn)
  BY DEF IInv, RowsTypeOK, ReadsLine
<1>2. CASE at < Len(lines)
  <2>1. lines[at + 1] \in Entry
    BY <1>1, <1>2 DEF FileLines
  <2>2. FieldsOK(Fields(lines[at + 1]))
    BY <2>1, LineFields
  <2> QED
    BY <1>1, <1>2, <2>1, <2>2 DEF NextFields, FileLines
<1>3. CASE ~(at < Len(lines))
  BY <1>1, <1>3 DEF NextFields, FileLines
<1> QED
  BY <1>2, <1>3

\* Unless a buffer is overrun, sscanf leaves strings that the columns reckon with.
LEMMA ScannedStrings ==
  ASSUME IInv, ReadsLine, ~Overrun, scan(NextFields)
  PROVE  str1' \in DateStrings /\ StrInv' /\ str4' \in NumberStrings
<1>0. PICK f : f = NextFields
  OBVIOUS
<1>1. FieldsOK(f)
  BY <1>0, NextLine
<1>2. Len(f) >= 3 => f[3] \in 0 .. 9
  <2>1. Len(f) >= 3 => f[3] \in Nat /\ ~(Digits(f[3]) > 1)
    BY <1>0, <1>1 DEF Overrun, FieldsOK
  <2>2. ASSUME Len(f) >= 3 PROVE f[3] \in 0 .. 9
    <3>1. f[3] \in Nat /\ Digits(f[3]) = 1
      BY <2>1, <2>2, DigitsBound
    <3> QED
      BY <3>1, DigitsBound
  <2> QED
    BY <2>2
<1>3. Len(f) = 4 => f[4] \in NumberStrings
  <2>1. Len(f) = 4 => f[4] \in Nat /\ ~(Digits(f[4]) > 4)
    BY <1>0, <1>1 DEF Overrun, FieldsOK
  <2>2. ASSUME Len(f) = 4 PROVE f[4] \in FourDigits
    <3>1. f[4] \in Nat /\ Digits(f[4]) <= 4
      BY <2>1, <2>2, DigitsBound
    <3>2. f[4] < 10000
      BY <3>1, DigitsBound
    <3>3. \A x \in Nat : x < 10000 => x \in FourDigits
      BY DEF FourDigits
    <3> QED
      BY ONLY <3>1, <3>2, <3>3
  <2> QED
    BY <2>2, NumbersOrNone
<1>4. /\ str1' \in {NoText, str1} \/ (Len(f) >= 1 /\ str1' = f[1])
      /\ str2' \in {NoText, str2} \/ (Len(f) >= 2 /\ str2' = f[2])
      /\ str3' \in {NoText, str3} \/ (Len(f) >= 3 /\ str3' = f[3])
      /\ str4' \in {NoText, str4} \/ (Len(f) = 4 /\ str4' = f[4])
  <2>1. Len(f) \in 0 .. 4
    BY <1>1 DEF FieldsOK
  <2> QED
    BY <1>0, <2>1 DEF scan
<1>5. /\ str1 \in DateStrings /\ str4 \in NumberStrings
      /\ str2 \in 1 .. 30 \union {NoText} /\ str3 \in 0 .. 9 \union {NoText}
  BY DEF IInv, RowsTypeOK, StrInv
<1>6. str1' \in DateStrings
  BY <1>1, <1>4, <1>5 DEF DateStrings, FieldsOK
<1>7. str2' \in 1 .. 30 \union {NoText}
  BY <1>1, <1>4, <1>5 DEF FieldsOK
<1>8. str3' \in 0 .. 9 \union {NoText}
  BY <1>2, <1>4, <1>5
<1>9. str4' \in NumberStrings
  <2>1. NoText \in NumberStrings
    BY DEF NumberStrings
  <2> QED
    BY ONLY <1>3, <1>4, <1>5, <2>1
<1> QED
  BY <1>6, <1>7, <1>8, <1>9 DEF StrInv

\* fgets leaves strings that sscanf can find.
LEMMA StringsFound ==
  ASSUME IInv, ~Overrun, fgets_line
  PROVE  /\ at' \in 0 .. FileLines /\ split' \in BOOLEAN
         /\ split' => at' <= Len(lines)
         /\ str1' \in DateStrings
         /\ StrInv' /\ str4' \in NumberStrings
<1>1. CASE split /\ split' = FALSE /\ UNCHANGED at /\ scan_newline
  <2>1. at' \in 0 .. FileLines /\ split' \in BOOLEAN
    BY <1>1 DEF IInv, RowsTypeOK
  <2>2. str1' \in DateStrings
    BY <1>1 DEF scan_newline, DateStrings
  <2>3. StrInv'
    BY <1>1 DEF IInv, StrInv, scan_newline
  <2>4. str4' \in NumberStrings
    BY <1>1 DEF IInv, RowsTypeOK, scan_newline
  <2> QED
    BY <1>1, <2>1, <2>2, <2>3, <2>4
<1>2. CASE /\ ReadsLine /\ at' = at + 1
           /\ split' = (at < Len(lines) /\ Line(lines[at + 1]) >= line - 1)
           /\ scan(NextFields)
  <2>1. at' \in 0 .. FileLines
    BY <1>2, NextLine
  <2>2. str1' \in DateStrings /\ StrInv' /\ str4' \in NumberStrings
    BY <1>2, ScannedStrings
  <2>3. split' \in BOOLEAN
    BY <1>2
  <2>4. split' => at' <= Len(lines)
    <3>1. at \in Nat /\ Len(lines) \in Nat
      BY <1>2, NextLine DEF IInv, RowsTypeOK
    <3>2. at' = at + 1 /\ (split' => at < Len(lines))
      BY <1>2
    <3> QED
      BY ONLY <3>1, <3>2
  <2> QED
    BY <2>1, <2>2, <2>3, <2>4
<1> QED
  BY <1>1, <1>2 DEF fgets_line

\* What save_line and cut_save leave alone.
LEMMA SavedInv ==
  ASSUME IInv, ~pushing, lines' \in Seq(Entry), Len(lines') <= MaxEntries, FieldsOK(torn)',
         wild' \in BOOLEAN, fits' \in BOOLEAN,
         UNCHANGED <<at, split, str1, str2, str3, str4, line_count, array_res, rows,
                     pushing, behind>>
  PROVE  IInv'
<1>1. at = 0 /\ ~split
  BY DEF IInv, IdleInv
<1>2. at' \in 0 .. FileLines' /\ Len(torn') \in 0 .. 4
  <2>1. Len(lines') \in Nat
    OBVIOUS
  <2> QED
    BY <1>1, <2>1 DEF FileLines, FieldsOK
<1>3. RowsTypeOK'
  BY <1>2 DEF IInv, RowsTypeOK
<1>4. StrInv' /\ FillInv' /\ IdleInv'
  BY <1>1 DEF IInv, StrInv, FillInv, IdleInv
<1> QED
  BY <1>3, <1>4 DEF IInv

LEMMA NextInv == IInv /\ [RowsNext]_rowsVars => IInv'
<1> SUFFICES ASSUME IInv, [RowsNext]_rowsVars PROVE IInv'
  OBVIOUS
<1> USE DEF IInv
<1>1. ASSUME NEW e \in Entry, save_line(e)
      PROVE  IInv'
  <2>1. lines' \in Seq(Entry) /\ Len(lines') <= MaxEntries
    <3>1. lines \in Seq(Entry) /\ Len(lines) \in Nat /\ Len(lines) < MaxEntries
      BY <1>1 DEF save_line, RowsTypeOK
    <3>2. lines' = <<e>> \o lines \/ lines' = lines
      BY <1>1 DEF save_line
    <3>3. <<e>> \o lines \in Seq(Entry) /\ Len(<<e>> \o lines) = Len(lines) + 1
      BY ONLY <3>1, e \in Entry
    <3>4. CASE lines' = <<e>> \o lines
      BY ONLY <3>1, <3>3, <3>4, LinesBound
    <3>5. CASE lines' = lines
      BY ONLY <3>1, <3>5, LinesBound
    <3> QED
      BY ONLY <3>2, <3>4, <3>5
  <2>2. wild' \in BOOLEAN /\ fits' \in BOOLEAN
    BY <1>1 DEF save_line, RowsTypeOK
  <2>3. FieldsOK(torn)'
    BY <1>1 DEF save_line, FieldsOK
  <2>4. /\ ~pushing
        /\ UNCHANGED <<at, split, str1, str2, str3, str4, line_count, array_res, rows,
                       pushing, behind>>
    BY <1>1 DEF save_line, strs
  <2> QED
    BY <2>1, <2>2, <2>3, <2>4, SavedInv
<1>2. ASSUME NEW e \in Entry, cut_save(e)
      PROVE  IInv'
  <2>0. PICK text : text = <<e>> \o lines
    OBVIOUS
  <2>1. PICK n \in 0 .. Len(text) :
          /\ lines' = SubSeq(text, 1, n)
          /\ cut_line(IF n < Len(text) THEN Fields(text[n + 1]) ELSE torn)
    BY <1>2, <2>0 DEF cut_save
  <2>2. text \in Seq(Entry) /\ Len(text) = Len(lines) + 1 /\ Len(lines) \in Nat
    BY <2>0 DEF RowsTypeOK
  <2>3. lines' \in Seq(Entry) /\ Len(lines') = n
    BY <2>1, <2>2
  <2>4. Len(lines') <= MaxEntries
    BY <1>2, <2>1, <2>2, <2>3, LinesBound DEF cut_save
  <2>5. PICK f : f = IF n < Len(text) THEN Fields(text[n + 1]) ELSE torn
    OBVIOUS
  <2>6. FieldsOK(f)
    <3>1. CASE n < Len(text)
      <4>1. text[n + 1] \in Entry
        BY <2>1, <2>2, <3>1
      <4> QED
        BY <2>5, <3>1, <4>1, LineFields
    <3>2. CASE ~(n < Len(text))
      BY <2>5, <3>2
    <3> QED
      BY <3>1, <3>2
  <2>7. FieldsOK(torn)'
    BY <2>1, <2>5, <2>6, CutFields
  <2>8. /\ ~pushing /\ wild' \in BOOLEAN /\ fits' \in BOOLEAN
        /\ UNCHANGED <<at, split, str1, str2, str3, str4, line_count, array_res, rows,
                       pushing, behind>>
    BY <1>2 DEF cut_save, strs, RowsTypeOK
  <2> QED
    BY <2>3, <2>4, <2>7, <2>8, SavedInv
<1>3. CASE push_open
  <2>0. /\ UNCHANGED <<lines, torn, at, split, str1, str2, str3, str4, line_count, rows,
                       behind, wild, fits>>
        /\ pushing' = TRUE /\ array_res' = [c \in Columns |-> 1]
        /\ line_count = 0 /\ ~split
    BY <1>3 DEF push_open, strs, IdleInv
  <2>1. RowsTypeOK'
    <3>1. array_res' \in [Columns -> Nat]
      BY <2>0
    <3>2. FileLines' = FileLines
      BY <2>0 DEF FileLines
    <3> QED
      BY <2>0, <3>1, <3>2 DEF RowsTypeOK
  <2>2. StrInv' /\ FieldsOK(torn)' /\ IdleInv'
    BY <2>0 DEF StrInv, FieldsOK, IdleInv
  <2>3. FillInv'
    BY <2>0
       DEF FillInv, Columns, Room, INDEX, DATE, TIME_MODE, MODE, TIME_RUN
  <2> QED
    BY <2>1, <2>2, <2>3
<1>4. CASE fgets /\ Overrun
  <2>1. /\ UNCHANGED <<lines, torn, at, split, str1, str2, str3, str4, line_count,
                       array_res, rows, pushing, behind, fits>>
        /\ wild' = TRUE
    BY <1>4 DEF fgets, strs
  <2>2. RowsTypeOK'
    BY <2>1 DEF RowsTypeOK, FileLines
  <2>3. StrInv' /\ FieldsOK(torn)' /\ IdleInv' /\ FillInv'
    BY <2>1 DEF StrInv, FieldsOK, IdleInv, FillInv
  <2> QED
    BY <2>2, <2>3
<1>5. CASE fgets /\ ~Overrun
  <2>0. /\ fgets_line /\ append /\ pushing /\ line_count < LOG_MAX
        /\ UNCHANGED <<lines, torn, pushing, behind, wild, fits>>
    BY <1>5 DEF fgets
  <2>1. /\ at' \in 0 .. FileLines /\ split' \in BOOLEAN
        /\ split' => at' <= Len(lines)
        /\ str1' \in DateStrings
        /\ StrInv' /\ str4' \in NumberStrings
    BY <1>5, <2>0, StringsFound
  <2>2. \A c \in Columns :
          array_res'[c] \in Nat /\ array_res'[c] <= array_res[c] + Room[c]
    BY <2>0, <2>1, ElementBound
  <2>3. line_count' = line_count + 1 /\ line_count' \in 0 .. LOG_MAX
    <3>1. line_count \in 0 .. LOG_MAX /\ line_count < LOG_MAX /\ append
      BY <2>0 DEF RowsTypeOK
    <3> QED
      BY <3>1, RowsBound DEF append
  <2>4. RowsTypeOK'
    <3>1. array_res' \in [Columns -> Nat]
      BY <2>0, <2>2 DEF append
    <3>2. str2' \in NumberStrings /\ str3' \in NumberStrings
      <4>1. str2' \in 0 .. 30 \union {NoText} /\ str3' \in 0 .. 9 \union {NoText}
        BY <2>1 DEF StrInv
      <4> QED
        BY ONLY <4>1, NumbersOrNone
    <3>3. rows' \in Seq(Shown)
      <4>1. [date |-> str1', period |-> str2', mode |-> str3', time |-> str4'] \in Shown
        BY <2>1, <3>2 DEF Shown
      <4> QED
        BY <2>0, <4>1 DEF append, RowsTypeOK
    <3>4. FileLines' = FileLines
      BY <2>0 DEF FileLines
    <3> QED
      BY <2>0, <2>1, <2>3, <3>1, <3>2, <3>3, <3>4 DEF RowsTypeOK
  <2>5. FillInv'
    <3> SUFFICES ASSUME NEW c \in Columns
                 PROVE  array_res'[c] <= Room[c] * line_count' + 1
      BY DEF FillInv
    <3>1. Room[c] \in {4, 5, 7, 22}
      BY DEF Columns, Room, INDEX, DATE, TIME_MODE, MODE, TIME_RUN
    <3>2. /\ array_res[c] \in Nat /\ array_res[c] <= Room[c] * line_count + 1
          /\ line_count \in Nat
      BY DEF RowsTypeOK, FillInv
    <3> QED
      BY <2>2, <2>3, <3>1, <3>2
  <2>6. FieldsOK(torn)' /\ IdleInv'
    BY <2>0, <2>1 DEF FieldsOK, IdleInv
  <2> QED
    BY <2>1, <2>4, <2>5, <2>6
<1>6. CASE set_text
  <2>1. RowsTypeOK'
    <3>1. at' \in 0 .. FileLines' /\ line_count' \in 0 .. LOG_MAX
      BY <1>6, RowsBound DEF set_text, RowsTypeOK, FileLines
    <3>2. array_res' \in [Columns -> Nat] /\ rows' \in Seq(Shown)
      BY <1>6 DEF set_text
    <3>3. /\ str1' \in DateStrings
          /\ str2' \in NumberStrings /\ str3' \in NumberStrings /\ str4' \in NumberStrings
      BY <1>6 DEF set_text, DateStrings, NumberStrings
    <3>4. UNCHANGED <<lines, torn, behind, wild, fits>> /\ pushing' = FALSE /\ split' = FALSE
      BY <1>6 DEF set_text
    <3> QED
      BY <3>1, <3>2, <3>3, <3>4 DEF RowsTypeOK
  <2>2. StrInv' /\ FieldsOK(torn)' /\ IdleInv'
    BY <1>6 DEF set_text, StrInv, FieldsOK, IdleInv
  <2>3. FillInv'
    BY <1>6
       DEF set_text, FillInv, Columns, Room, INDEX, DATE, TIME_MODE, MODE,
           TIME_RUN
  <2> QED
    BY <2>1, <2>2, <2>3
<1>7. CASE UNCHANGED rowsVars
  <2>1. UNCHANGED <<lines, torn, at, split, str1, str2, str3, str4, line_count,
                    array_res, rows, pushing, behind, wild, fits>>
    BY <1>7 DEF rowsVars, strs
  <2>2. RowsTypeOK'
    BY <2>1 DEF RowsTypeOK, FileLines
  <2>3. StrInv' /\ FieldsOK(torn)' /\ IdleInv' /\ FillInv'
    BY <2>1 DEF StrInv, FieldsOK, IdleInv, FillInv
  <2> QED
    BY <2>2, <2>3
<1> QED
  BY <1>1, <1>2, <1>3, <1>4, <1>5, <1>6, <1>7 DEF RowsNext

\* Every behaviour keeps the invariant.
LEMMA Invariance == RowsSpec => []IInv
BY InitInv, NextInv, PTL DEF RowsSpec

-----------------------------------------------------------------------------
(* What overruns a buffer.                                                 *)

\* The strings of a line are what their buffers were made for.
FieldsFit(f) ==
  /\ Len(f) >= 3 => f[3] <= 9
  /\ Len(f) = 4 => f[4] <= 9999

\* They are, as long as the runs are; then only strings that were never written can be
\* read.
FitInv ==
  /\ fits => (\A i \in 1 .. Len(lines) : Fits(lines[i])) /\ FieldsFit(torn)
  /\ wild => ~fits \/ (lines = <<>> /\ Len(torn) \in 1 .. 3)

\* The line of such a run fits buffer_time.
LEMMA FitLine ==
  ASSUME NEW e \in Entry, Fits(e)
  PROVE  Line(e) < buffer_time /\ FieldsFit(Fields(e))
<1>1. e.mode \in Nat /\ e.time \in Nat /\ e.mode <= 9 /\ e.time <= 9999
  BY ModesBound, TimesBound DEF Entry, Fits
<1>2. Digits(e.mode) = 1 /\ Digits(e.time) \in 1 .. 4
  BY <1>1, DigitsBound
<1>3. Digits(period(e.mode)) \in 1 .. 2
  <2>1. period(e.mode) \in Nat /\ period(e.mode) < 100
    BY <1>1, PeriodBound
  <2> QED
    BY <2>1, DigitsBound
<1>4. Line(e) < buffer_time
  BY <1>2, <1>3 DEF Line, DateWidth, buffer_time
<1>5. FieldsFit(Fields(e))
  BY <1>1, LineFields DEF FieldsFit
<1> QED
  BY <1>4, <1>5

\* What is left of a line that is cut fits as the line does.
LEMMA CutFits ==
  ASSUME NEW f, FieldsOK(f), FieldsFit(f), cut_line(f)
  PROVE  FieldsFit(torn)'
<1>1. CASE torn' = <<>>
  BY <1>1 DEF FieldsFit
<1>2. ASSUME NEW j \in 1 .. Len(f), NEW s \in Beginnings(j, f[j]),
             torn' = [i \in 1 .. j |-> IF i < j THEN f[i] ELSE s]
      PROVE  FieldsFit(torn)'
  <2>1. Len(f) \in 0 .. 4 /\ j \in 1 .. 4
    BY <1>2 DEF FieldsOK
  <2>2. Len(torn') = j /\ \A i \in 1 .. j : torn'[i] = IF i < j THEN f[i] ELSE s
    BY <1>2, <2>1
  <2>3. ASSUME j \in 3 .. 4
        PROVE  f[j] \in Nat /\ s \in Nat /\ s <= f[j]
    <3>1. f[j] \in Nat
      BY <1>2, <2>1, <2>3 DEF FieldsOK
    <3>2. j # 1
      BY <2>3
    <3> QED
      BY <1>2, <3>1, <3>2, BeginningBound
  <2>4. j >= 3 => torn'[3] <= 9
    <3>1. CASE j = 3
      <4>1. f[3] <= 9 /\ f[3] \in Nat /\ s \in Nat /\ s <= f[3]
        BY <1>2, <2>3, <3>1 DEF FieldsFit
      <4> QED
        BY <2>2, <3>1, <4>1
    <3>2. CASE j = 4
      <4>1. f[3] <= 9
        BY <1>2, <2>1, <3>2 DEF FieldsFit
      <4> QED
        BY <2>2, <3>2, <4>1
    <3> QED
      BY <2>1, <3>1, <3>2
  <2>5. j = 4 => torn'[4] <= 9999
    <3>1. ASSUME j = 4 PROVE torn'[4] <= 9999
      <4>1. Len(f) = 4
        BY <1>2, <2>1, <3>1
      <4>2. f[4] <= 9999 /\ f[4] \in Nat /\ s \in Nat /\ s <= f[4]
        BY <2>3, <3>1, <4>1 DEF FieldsFit
      <4>3. torn'[4] = s
        BY <2>2, <3>1
      <4> QED
        BY <4>2, <4>3
    <3> QED
      BY <3>1
  <2> QED
    BY <2>2, <2>4, <2>5 DEF FieldsFit
<1> QED
  BY <1>1, <1>2 DEF cut_line

\* What sscanf overruns: nothing, if the line fits, but it may find too little in it.
LEMMA OverrunCause ==
  ASSUME IInv, FitInv, fits, Overrun
  PROVE  lines = <<>> /\ Len(torn) \in 1 .. 3
<1>0. PICK f : f = NextFields
  OBVIOUS
<1>1. ReadsLine
  BY DEF Overrun
<1>2. FieldsOK(f)
  BY <1>0, <1>1, NextLine
<1>3. FieldsFit(f)
  <2>1. CASE at < Len(lines) /\ lines[at + 1] \in Entry /\ f = Fields(lines[at + 1])
    <3>1. at + 1 \in 1 .. Len(lines)
      BY <1>1, <2>1, NextLine DEF IInv, RowsTypeOK
    <3>2. Fits(lines[at + 1])
      BY <3>1 DEF FitInv
    <3> QED
      BY <2>1, <3>2, FitLine
  <2>2. CASE f = torn
    BY <2>2 DEF FitInv
  <2> QED
    BY <1>0, <1>1, <2>1, <2>2, NextLine
<1>4. ~(Len(f) >= 3 /\ Digits(f[3]) > 1)
  <2>1. Len(f) >= 3 => f[3] \in Nat /\ f[3] < 10
    BY <1>2, <1>3 DEF FieldsOK, FieldsFit
  <2> QED
    BY <2>1, DigitsBound
<1>5. ~(Len(f) = 4 /\ Digits(f[4]) > 4)
  <2>1. Len(f) = 4 => f[4] \in Nat /\ f[4] < 10000
    BY <1>2, <1>3 DEF FieldsOK, FieldsFit
  <2>2. Len(f) = 4 => Digits(f[4]) <= 4 /\ Digits(f[4]) \in 1 .. 5
    BY <2>1, DigitsBound
  <2> QED
    BY <2>2
<1>6. at = 0 /\ Len(f) < 4
  BY <1>0, <1>4, <1>5 DEF Overrun
<1>7. at = Len(lines) /\ Len(torn) # 0 /\ f = torn
  <2>1. ASSUME lines[at + 1] \in Entry, f = Fields(lines[at + 1]) PROVE FALSE
    BY <1>2, <1>6, <2>1, LineFields
  <2> QED
    BY <1>0, <1>1, <2>1, NextLine
<1>8. lines = <<>>
  BY <1>6, <1>7 DEF IInv, RowsTypeOK
<1> QED
  BY <1>2, <1>6, <1>7, <1>8 DEF FieldsOK

LEMMA FitNext == IInv /\ FitInv /\ [RowsNext]_rowsVars => FitInv'
<1> SUFFICES ASSUME IInv, FitInv, [RowsNext]_rowsVars PROVE FitInv'
  OBVIOUS
<1>0. lines \in Seq(Entry) /\ Len(lines) \in Nat
  BY DEF IInv, RowsTypeOK
<1>1. ASSUME NEW e \in Entry, save_line(e) PROVE FitInv'
  <2>1. ~wild /\ fits' = (fits /\ Fits(e)) /\ torn' = torn
    BY <1>1 DEF save_line
  <2>2. CASE Line(e) < buffer_time
    <3>1. lines' = <<e>> \o lines /\ wild' = wild
      BY <1>1, <2>2 DEF save_line
    <3>2. PICK all : all = <<e>> \o lines
      OBVIOUS
    <3>3. Len(all) = Len(lines) + 1
          /\ \A i \in 1 .. Len(all) : all[i] = IF i = 1 THEN e ELSE lines[i - 1]
      BY ONLY <1>0, <3>2, e \in Entry
    <3>4. ASSUME fits' PROVE \A i \in 1 .. Len(all) : Fits(all[i])
      <4> SUFFICES ASSUME NEW i \in 1 .. Len(all) PROVE Fits(all[i])
        OBVIOUS
      <4>1. CASE i = 1
        BY <2>1, <3>3, <3>4, <4>1
      <4>2. CASE i # 1
        <5>1. i - 1 \in 1 .. Len(lines) /\ all[i] = lines[i - 1]
          BY <1>0, <3>3, <4>2
        <5> QED
          BY <2>1, <3>4, <5>1 DEF FitInv
      <4> QED
        BY <4>1, <4>2
    <3>5. fits' => FieldsFit(torn)'
      <4>1. FieldsFit(torn)' = FieldsFit(torn)
        BY <2>1 DEF FieldsFit
      <4>2. fits' => fits
        BY <2>1
      <4> QED
        BY <4>1, <4>2 DEF FitInv
    <3>6. lines' = all
      BY <3>1, <3>2
    <3>7. fits' => (\A i \in 1 .. Len(lines) : Fits(lines[i]))'
      BY <3>4, <3>6 DEF Fits
    <3> QED
      BY <2>1, <3>1, <3>5, <3>7 DEF FitInv
  <2>3. CASE ~(Line(e) < buffer_time)
    <3>1. ~Fits(e)
      BY <2>3, FitLine
    <3> QED
      BY <2>1, <3>1 DEF FitInv
  <2> QED
    BY <2>2, <2>3
<1>2. ASSUME NEW e \in Entry, cut_save(e) PROVE FitInv'
  <2>0. PICK all : all = <<e>> \o lines
    OBVIOUS
  <2>1. PICK n \in 0 .. Len(all) :
          /\ lines' = SubSeq(all, 1, n)
          /\ cut_line(IF n < Len(all) THEN Fields(all[n + 1]) ELSE torn)
    BY <1>2, <2>0 DEF cut_save
  <2>2. ~wild /\ wild' = wild /\ fits' = (fits /\ Fits(e))
    BY <1>2 DEF cut_save
  <2>3. /\ all \in Seq(Entry) /\ Len(all) = Len(lines) + 1
        /\ \A i \in 1 .. Len(all) : all[i] = IF i = 1 THEN e ELSE lines[i - 1]
    BY ONLY <1>0, <2>0, e \in Entry
  <2>4. ASSUME fits' PROVE \A i \in 1 .. Len(all) : Fits(all[i])
    <3> SUFFICES ASSUME NEW i \in 1 .. Len(all) PROVE Fits(all[i])
      OBVIOUS
    <3>1. CASE i = 1
      BY <2>2, <2>3, <2>4, <3>1
    <3>2. CASE i # 1
      <4>1. i - 1 \in 1 .. Len(lines) /\ all[i] = lines[i - 1]
        BY <1>0, <2>3, <3>2
      <4> QED
        BY <2>2, <2>4, <4>1 DEF FitInv
    <3> QED
      BY <3>1, <3>2
  <2>5. Len(lines') = n /\ \A i \in 1 .. n : i \in 1 .. Len(all) /\ lines'[i] = all[i]
    BY ONLY <2>1, <2>3
  <2>6. fits' => (\A i \in 1 .. Len(lines) : Fits(lines[i]))'
    BY <2>4, <2>5 DEF Fits
  <2>7. PICK f : f = IF n < Len(all) THEN Fields(all[n + 1]) ELSE torn
    OBVIOUS
  <2>8. FieldsOK(f) /\ (fits' => FieldsFit(f))
    <3>1. CASE n < Len(all)
      <4>1. n + 1 \in 1 .. Len(all) /\ all[n + 1] \in Entry
        BY <2>1, <2>3, <3>1
      <4> QED
        BY <2>4, <2>7, <3>1, <4>1, LineFields, FitLine
    <3>2. CASE ~(n < Len(all))
      BY <2>2, <2>7, <3>2 DEF FitInv, IInv
    <3> QED
      BY <3>1, <3>2
  <2>9. fits' => FieldsFit(torn)'
    BY <2>1, <2>7, <2>8, CutFits
  <2> QED
    BY <2>2, <2>6, <2>9 DEF FitInv
<1>3. CASE fgets
  <2>1. UNCHANGED <<lines, torn, fits>> /\ ~wild /\ (wild' => Overrun)
    BY <1>3 DEF fgets
  <2>2. fits' => (\A i \in 1 .. Len(lines) : Fits(lines[i]))' /\ FieldsFit(torn)'
    BY <2>1 DEF FitInv, Fits, FieldsFit
  <2>3. wild' => ~fits' \/ (lines' = <<>> /\ Len(torn') \in 1 .. 3)
    BY <2>1, OverrunCause
  <2> QED
    BY <2>2, <2>3 DEF FitInv
<1>4. CASE push_open \/ set_text \/ UNCHANGED rowsVars
  <2>1. UNCHANGED <<lines, torn, fits, wild>>
    BY <1>4 DEF push_open, set_text, rowsVars
  <2> QED
    BY <2>1 DEF FitInv, Fits, FieldsFit
<1> QED
  BY <1>1, <1>2, <1>3, <1>4 DEF RowsNext

\* Every behaviour keeps what is known of overruns.
LEMMA FitInvariance == RowsSpec => []FitInv
<1>1. RowsInit => FitInv
  BY DEF RowsInit, FitInv, FieldsFit
<1> QED
  BY <1>1, FitNext, Invariance, PTL DEF RowsSpec

-----------------------------------------------------------------------------
(* What the rows show.                                                     *)

LEMMA DigitsPrint == \A n : Digits(n) \in 1 .. 5
BY DEF Digits

LEMMA LineLength == \A e : Line(e) \in Nat
BY DigitsPrint DEF Line, DateWidth

LEMMA DatesDiffer == \A d \in Dates : d # Newline
BY StringsOK

\* A row that is appended counts if it has a date; the others count as before.
LEMMA DatedAppended ==
  ASSUME NEW list \in Seq(Shown), NEW row \in Shown
  PROVE  LET n == Len(list)
             longer == Append(list, row)
         IN  /\ Dated(list, n) \in Nat
             /\ \A i \in 0 .. n : Dated(longer, i) = Dated(list, i)
             /\ Dated(longer, n + 1) =
                  IF row.date # Newline THEN Dated(list, n) + 1 ELSE Dated(list, n)
<1> DEFINE n == Len(list)
           longer == Append(list, row)
           Places(s, m) == {i \in 1 .. m : s[i].date # Newline}
<1>1. n \in Nat /\ longer[n + 1] = row /\ \A i \in 1 .. n : longer[i] = list[i]
  OBVIOUS
<1>2. \A i \in 0 .. n : Places(longer, i) = Places(list, i)
  <2> SUFFICES ASSUME NEW i \in 0 .. n PROVE Places(longer, i) = Places(list, i)
    OBVIOUS
  <2>1. \A j \in 1 .. i : longer[j] = list[j]
    BY <1>1
  <2> HIDE DEF longer
  <2> QED
    BY <2>1
<1> HIDE DEF longer
<1>3. IsFiniteSet(Places(list, n)) /\ Cardinality(Places(list, n)) \in Nat
  <2>1. IsFiniteSet(1 .. n)
    BY <1>1, FS_Interval
  <2>2. Places(list, n) \in SUBSET (1 .. n)
    OBVIOUS
  <2>3. IsFiniteSet(Places(list, n))
    BY ONLY <2>1, <2>2, FS_Subset
  <2> QED
    BY ONLY <2>3, FS_CardinalityType
<1>4. n + 1 \notin Places(list, n)
  BY <1>1
<1>5. CASE row.date # Newline
  <2>1. Places(longer, n + 1) = Places(list, n) \union {n + 1}
    BY <1>1, <1>5
  <2> HIDE DEF Places
  <2>2. Cardinality(Places(longer, n + 1)) = Cardinality(Places(list, n)) + 1
    BY ONLY <1>3, <1>4, <2>1, FS_AddElement
  <2> USE DEF Places
  <2> QED
    BY <1>2, <1>3, <1>5, <2>2 DEF Dated, longer
<1>6. CASE row.date = Newline
  <2>1. Places(longer, n + 1) = Places(list, n)
    BY <1>1, <1>6
  <2> QED
    BY <1>2, <1>3, <1>6, <2>1 DEF Dated, longer
<1> QED
  BY ONLY <1>5, <1>6

\* If every line is plain, there is a row for every line that was read.
PlainInv ==
  AllPlain =>
    /\ ~split /\ Len(rows) = at
    /\ \A i \in 1 .. Least(at, Len(lines)) : rows[i] = Row(lines[i])

\* While a newline is still to be read, str2 .. str4 are those of the last row, which
\* has a date.
LastInv ==
  split => /\ Len(rows) # 0
           /\ rows[Len(rows)].date # Newline
           /\ rows[Len(rows)].period = str2 /\ rows[Len(rows)].mode = str3
           /\ rows[Len(rows)].time = str4

\* The rows with a date are the lines that were read, but for the torn one.
DatedInv ==
  behind = "none" =>
    /\ LastInv
    /\ Dated(rows, WholeRows) = Least(at, Len(lines))
    /\ \A i \in 1 .. WholeRows : Listed(rows, i)

PushInv == pushing => Len(rows) = line_count /\ PlainInv /\ DatedInv

\* The row that append adds.
row == [date |-> str1, period |-> str2, mode |-> str3, time |-> str4]

\* What sscanf finds in a line is the run, unless a long time reaches what lies behind
\* str4.
LEMMA ScannedRow ==
  ASSUME NEW e, scan(Fields(e)), ReadsLine => NextFields = Fields(e),
         behind = "none" \/ Plain(e)
  PROVE  row' = Row(e)
<1>1. Zeroed = "none"
  <2>1. CASE behind = "none"
    BY <2>1 DEF Zeroed
  <2>2. CASE Plain(e)
    <3>1. e.time < 1000
      BY <2>2 DEF Plain
    <3>2. Digits(e.time) \in 1 .. 3
      BY <3>1 DEF Digits
    <3>3. ReadsLine => Digits(NextFields[4]) \in 1 .. 3
      BY <3>2 DEF Fields
    <3> QED
      BY <3>3 DEF Zeroed
  <2> QED
    BY ONLY <2>1, <2>2, behind = "none" \/ Plain(e)
<1>2. str1' = e.date /\ str2' = period(e.mode) /\ str3' = e.mode /\ str4' = e.time
  <2>1. Len(Fields(e)) = 4
    BY DEF Fields
  <2> QED
    BY <1>1, <2>1 DEF scan, Fields
<1> QED
  BY ONLY <1>2 DEF row, Row

\* A read and what it appends, for the lines as they are.
LEMMA RowAppended ==
  ASSUME IInv, IInv', append
  PROVE  LET n == Len(rows)
         IN  /\ n \in Nat /\ Len(rows') = n + 1
             /\ \A i \in 1 .. n : rows'[i] = rows[i]
             /\ rows'[n + 1] = row'
             /\ Dated(rows, n) \in Nat
             /\ \A i \in 0 .. n : Dated(rows', i) = Dated(rows, i)
             /\ Dated(rows', n + 1) =
                  IF row'.date # Newline THEN Dated(rows, n) + 1 ELSE Dated(rows, n)
<1>1. rows \in Seq(Shown) /\ rows' = Append(rows, row')
  BY DEF IInv, RowsTypeOK, append, row
<1>2. row' \in Shown
  <2>1. /\ str1' \in DateStrings
        /\ str2' \in NumberStrings /\ str3' \in NumberStrings /\ str4' \in NumberStrings
    BY DEF IInv, RowsTypeOK
  <2> QED
    BY ONLY <2>1 DEF row, Shown
<1>3. /\ Dated(rows, Len(rows)) \in Nat
      /\ \A i \in 0 .. Len(rows) : Dated(rows', i) = Dated(rows, i)
      /\ Dated(rows', Len(rows) + 1) =
           IF row'.date # Newline THEN Dated(rows, Len(rows)) + 1 ELSE Dated(rows, Len(rows))
  BY ONLY <1>1, <1>2, DatedAppended
<1>4. /\ Len(rows) \in Nat /\ Len(rows') = Len(rows) + 1
      /\ \A i \in 1 .. Len(rows) : rows'[i] = rows[i]
      /\ rows'[Len(rows) + 1] = row'
  <2> DEFINE r == row'
  <2>1. rows \in Seq(Shown) /\ r \in Shown /\ rows' = Append(rows, r)
    BY <1>1, <1>2
  <2> HIDE DEF r
  <2>2. /\ Len(rows) \in Nat /\ Len(rows') = Len(rows) + 1
        /\ \A i \in 1 .. Len(rows) : rows'[i] = rows[i]
        /\ rows'[Len(rows) + 1] = r
    BY ONLY <2>1
  <2> QED
    BY <2>2 DEF r
<1> QED
  BY ONLY <1>3, <1>4

\* The rows that were listed stay listed.
LEMMA ListedKept ==
  ASSUME IInv, IInv', append, UNCHANGED lines
  PROVE  \A i \in 1 .. Len(rows) : Listed(rows, i) => Listed(rows', i)
<1> SUFFICES ASSUME NEW i \in 1 .. Len(rows), Listed(rows, i) PROVE Listed(rows', i)
  OBVIOUS
<1>1. /\ Len(rows) \in Nat /\ \A j \in 1 .. Len(rows) : rows'[j] = rows[j]
      /\ Dated(rows', i) = Dated(rows, i)
  BY RowAppended
<1>2. rows'[i] = rows[i] /\ (i > 1 => rows'[i - 1] = rows[i - 1])
  BY ONLY <1>1
<1>3. CASE rows[i].date # Newline
  BY ONLY <1>1, <1>2, <1>3, Listed(rows, i), UNCHANGED lines DEF Listed
<1>4. CASE rows[i].date = Newline
  BY ONLY <1>2, <1>4, Listed(rows, i) DEF Listed
<1> QED
  BY ONLY <1>3, <1>4

\* fgets and what follows it list one more line, the newline of the last one, or what is
\* left of a torn line.
LEMMA FgetsPushed ==
  ASSUME IInv, IInv', PushInv, fgets
  PROVE  PushInv'
<1>0. CASE Overrun
  <2>1. UNCHANGED <<lines, torn, at, split, str1, str2, str3, str4, line_count, rows,
                    pushing, behind>>
    BY <1>0 DEF fgets, strs
  <2>2. PlainInv' = PlainInv /\ LastInv' = LastInv
    BY <2>1 DEF PlainInv, AllPlain, LastInv
  <2>3. DatedInv' = DatedInv
    BY <2>1, <2>2 DEF DatedInv, WholeRows, Listed
  <2> QED
    BY <2>1, <2>2, <2>3 DEF PushInv
<1> SUFFICES ASSUME ~Overrun PROVE PushInv'
  BY <1>0
<1> DEFINE n == Len(rows)
           e == lines[at + 1]
<1>1. /\ pushing /\ fgets_line /\ append /\ UNCHANGED <<lines, torn, pushing, behind>>
      /\ n = line_count /\ PlainInv /\ DatedInv /\ Len(lines) \in Nat
      /\ (split => at <= Len(lines))
  BY DEF fgets, PushInv, IInv, RowsTypeOK, IdleInv
<1>2. /\ n \in Nat /\ Len(rows') = n + 1
      /\ \A i \in 1 .. n : rows'[i] = rows[i]
      /\ rows'[n + 1] = row'
      /\ Dated(rows, n) \in Nat
      /\ \A i \in 0 .. n : Dated(rows', i) = Dated(rows, i)
      /\ Dated(rows', n + 1) =
           IF row'.date # Newline THEN Dated(rows, n) + 1 ELSE Dated(rows, n)
  BY <1>1, RowAppended
<1>3. \A i \in 1 .. n : Listed(rows, i) => Listed(rows', i)
  BY <1>1, ListedKept
<1>4. Len(rows') = line_count'
  BY <1>1, <1>2 DEF append
<1>5. \A i : Listed(rows, i)' <=> Listed(rows', i)
  BY <1>1 DEF Listed
<1>6. ASSUME behind = "none", LastInv', at' <= Len(lines), at' \in Nat, WholeRows = n,
             Dated(rows', n + 1) = at', Listed(rows', n + 1)
      PROVE  DatedInv'
  <2>0. WholeRows' = n + 1 /\ Least(at, Len(lines))' = at'
    BY <1>1, <1>2, <1>6 DEF WholeRows, Least
  <2>1. Dated(rows, WholeRows)' = at'
    BY <1>2, <1>6, <2>0
  <2>2. \A i \in 1 .. n + 1 : i \in 1 .. n \/ i = n + 1
    BY <1>2
  <2>3. \A i \in 1 .. n + 1 : Listed(rows', i)
    <3>1. \A i \in 1 .. n : Listed(rows, i)
      BY <1>1, <1>6 DEF DatedInv
    <3> QED
      BY ONLY <1>3, <1>6, <2>2, <3>1
  <2>4. (\A i \in 1 .. WholeRows : Listed(rows, i))'
    BY ONLY <1>5, <2>0, <2>3
  <2> QED
    BY ONLY <1>1, <1>6, <2>0, <2>1, <2>4 DEF DatedInv
<1>7. CASE split /\ split' = FALSE /\ UNCHANGED at /\ scan_newline
  <2>0. at \in Nat /\ at <= Len(lines) /\ WholeRows = n /\ Least(at, Len(lines)) = at
    BY <1>1, <1>7 DEF IInv, RowsTypeOK, WholeRows, Least
  <2>1. PlainInv'
    <3>1. ~AllPlain
      BY <1>1, <1>7 DEF PlainInv
    <3>2. ~AllPlain'
      BY <1>1, <3>1 DEF AllPlain
    <3> QED
      BY <3>2 DEF PlainInv
  <2>2. ASSUME behind = "none" PROVE Dated(rows', n + 1) = at /\ Listed(rows', n + 1)
    <3>1. /\ n # 0 /\ rows[n].date # Newline /\ Dated(rows, n) = at
          /\ rows[n].period = str2 /\ rows[n].mode = str3 /\ rows[n].time = str4
      BY <1>1, <1>7, <2>0, <2>2 DEF DatedInv, LastInv
    <3>2. rows[n] \in Shown
      BY <1>2, <3>1 DEF IInv, RowsTypeOK
    <3>3. row' = [date |-> Newline, period |-> str2, mode |-> str3, time |-> str4]
      BY <1>7 DEF row, scan_newline
    <3>4. row' = [rows[n] EXCEPT !.date = Newline]
      BY <3>1, <3>2, <3>3 DEF Shown
    <3>5. n + 1 > 1 /\ (n + 1) - 1 = n /\ rows'[n] = rows[n]
      BY <1>2, <3>1
    <3>6. row'.date = Newline
      BY <3>3
    <3>7. Dated(rows', n + 1) = at
      BY <1>2, <3>1, <3>6
    <3>8. rows'[n + 1] = [rows'[n] EXCEPT !.date = Newline]
      BY <1>2, <3>4, <3>5
    <3>9. rows'[n + 1].date = Newline /\ rows'[n].date # Newline
      BY <1>2, <3>1, <3>5, <3>6
    <3>10. Listed(rows', n + 1)
      BY ONLY <3>5, <3>8, <3>9 DEF Listed
    <3> QED
      BY <3>7, <3>10
  <2>3. DatedInv'
    <3>1. LastInv'
      BY <1>7 DEF LastInv
    <3>2. CASE behind = "none"
      BY <1>7, <1>6, <2>0, <2>2, <3>1, <3>2
    <3>3. CASE behind # "none"
      BY <1>1, <3>3 DEF DatedInv
    <3> QED
      BY ONLY <3>2, <3>3
  <2> QED
    BY <1>4, <2>1, <2>3 DEF PushInv
<1>8. CASE /\ ReadsLine /\ at < Len(lines) /\ at' = at + 1
           /\ split' = (at < Len(lines) /\ Line(lines[at + 1]) >= line - 1)
           /\ scan(NextFields)
  <2>1. /\ at' = at + 1 /\ at \in Nat /\ at + 1 \in 1 .. Len(lines) /\ e \in Entry
        /\ split' = (Line(e) >= line - 1) /\ NextFields = Fields(e) /\ scan(Fields(e))
    BY <1>8, NextLine
  <2>0. WholeRows = n /\ Least(at, Len(lines)) = at /\ Least(at + 1, Len(lines)) = at + 1
        /\ at' <= Len(lines)
    BY <1>1, <2>1 DEF WholeRows, Least
  <2>2. behind = "none" \/ Plain(e) => row' = Row(e)
    BY <2>1, ScannedRow
  <2>3. ASSUME AllPlain
        PROVE  /\ ~split' /\ Len(rows') = at'
               /\ \A i \in 1 .. at' : rows'[i] = Row(lines[i])
    <3>1. Plain(e) /\ n = at /\ \A i \in 1 .. at : rows[i] = Row(lines[i])
      BY <1>1, <2>0, <2>1, <2>3 DEF PlainInv, AllPlain
    <3>2. ~split'
      <4>1. Line(e) <= 28 /\ Line(e) \in Nat
        BY <3>1, LineLength DEF Plain
      <4>2. ~(Line(e) >= line - 1)
        BY ONLY <4>1 DEF line
      <4> QED
        BY ONLY <2>1, <4>2, Zenon
    <3>3. rows'[at + 1] = Row(e)
      BY <1>2, <2>2, <3>1
    <3> QED
      BY <1>2, <2>1, <3>1, <3>2, <3>3
  <2>4. PlainInv'
    <3>1. AllPlain' => AllPlain
      BY <1>1 DEF AllPlain
    <3>2. Least(at, Len(lines))' = at'
      BY <1>1, <2>0, <2>1
    <3> QED
      BY <1>1, <2>3, <3>1, <3>2 DEF PlainInv
  <2>5. ASSUME behind = "none"
        PROVE  /\ LastInv' /\ Dated(rows', n + 1) = at' /\ Listed(rows', n + 1)
    <3>1. row' = Row(e) /\ Dated(rows, n) = at
      BY <1>1, <2>0, <2>2, <2>5 DEF DatedInv
    <3>2. e.date # Newline
      BY <2>1, DatesDiffer DEF Entry
    <3>3. row'.date # Newline
      BY <3>1, <3>2 DEF Row
    <3>4. Dated(rows', n + 1) = at'
      BY <1>2, <2>1, <3>1, <3>3
    <3>5. Listed(rows', n + 1)
      <4>1. rows'[n + 1] = Row(e) /\ rows'[n + 1].date # Newline
        BY <1>2, <3>1, <3>3
      <4>2. Dated(rows', n + 1) = at + 1
        BY <2>1, <3>4
      <4> QED
        BY ONLY <4>1, <4>2 DEF Listed
    <3>6. /\ row'.period = str2' /\ row'.mode = str3' /\ row'.time = str4'
      BY DEF row
    <3>7. LastInv'
      BY <1>2, <3>3, <3>6 DEF LastInv
    <3> QED
      BY <3>4, <3>5, <3>7
  <2>6. DatedInv'
    <3>1. CASE behind = "none"
      <4>1. at' \in Nat
        BY <2>1
      <4> QED
        BY <1>6, <2>0, <2>5, <3>1, <4>1
    <3>2. CASE behind # "none"
      BY <1>1, <3>2 DEF DatedInv
    <3> QED
      BY ONLY <3>1, <3>2
  <2> QED
    BY <1>4, <2>4, <2>6 DEF PushInv
<1>9. CASE /\ ReadsLine /\ ~(at < Len(lines)) /\ at' = at + 1
           /\ split' = (at < Len(lines) /\ Line(lines[at + 1]) >= line - 1)
           /\ scan(NextFields)
  <2>1. at = Len(lines) /\ at' = Len(lines) + 1 /\ ~split /\ ~split'
    BY <1>1, <1>9, NextLine DEF ReadsLine
  <2>2. WholeRows = n /\ WholeRows' = n
    BY <1>1, <1>2, <2>1 DEF WholeRows
  <2>3. Least(at, Len(lines)) = at /\ Least(at, Len(lines))' = at
    BY <1>1, <2>1 DEF Least
  <2>4. PlainInv'
    <3>1. AllPlain' => AllPlain
      BY <1>1 DEF AllPlain
    <3>2. ASSUME AllPlain
          PROVE  Len(rows') = at' /\ \A i \in 1 .. at : rows'[i] = Row(lines[i])
      <4>1. n = at /\ \A i \in 1 .. at : rows[i] = Row(lines[i])
        BY <1>1, <2>3, <3>2 DEF PlainInv
      <4> QED
        BY <1>2, <2>1, <4>1
    <3> QED
      BY <1>1, <2>1, <2>3, <3>1, <3>2 DEF PlainInv
  <2>5. DatedInv'
    <3>1. CASE behind = "none"
      <4>1. LastInv'
        BY <2>1 DEF LastInv
      <4>2. Dated(rows, n) = at /\ \A i \in 1 .. n : Listed(rows, i)
        BY <1>1, <2>2, <2>3, <3>1 DEF DatedInv
      <4>3. Dated(rows', n) = at
        BY <1>2, <4>2
      <4>4. Dated(rows, WholeRows)' = Least(at, Len(lines))'
        BY <2>2, <2>3, <4>3
      <4>5. (\A i \in 1 .. WholeRows : Listed(rows, i))'
        BY ONLY <1>3, <1>5, <2>2, <4>2
      <4> QED
        BY ONLY <4>1, <4>4, <4>5 DEF DatedInv
    <3>2. CASE behind # "none"
      BY <1>1, <3>2 DEF DatedInv
    <3> QED
      BY ONLY <3>1, <3>2
  <2> QED
    BY <1>4, <2>4, <2>5 DEF PushInv
<1> QED
  BY <1>1, <1>7, <1>8, <1>9 DEF fgets_line

LEMMA NextPushed == IInv /\ IInv' /\ PushInv /\ [RowsNext]_rowsVars => PushInv'
<1> SUFFICES ASSUME IInv, IInv', PushInv, [RowsNext]_rowsVars PROVE PushInv'
  OBVIOUS
<1>1. ASSUME NEW e \in Entry, save_line(e) \/ cut_save(e) PROVE PushInv'
  BY <1>1 DEF save_line, cut_save, PushInv
<1>2. CASE push_open
  <2>1. at' = 0 /\ split' = FALSE /\ line_count' = 0 /\ rows' = <<>>
    BY <1>2 DEF push_open, IInv, IdleInv
  <2>2. Len(rows') = 0 /\ \A i \in 1 .. 0 : FALSE
    BY <2>1
  <2>3. Len(lines') \in Nat /\ Least(0, Len(lines')) = 0
    BY DEF IInv, RowsTypeOK, Least
  <2>4. PlainInv'
    BY <2>1, <2>2, <2>3 DEF PlainInv
  <2>5. Dated(rows', 0) = 0
    <3>1. {i \in 1 .. 0 : rows'[i].date # Newline} = {}
      BY <2>2
    <3> QED
      BY <3>1, FS_EmptySet DEF Dated
  <2>6. WholeRows' = 0
    BY <2>1, <2>2, <2>3 DEF WholeRows
  <2>7. Dated(rows, WholeRows)' = Least(at, Len(lines))'
    BY <2>1, <2>3, <2>5, <2>6
  <2>8. DatedInv'
    BY <2>1, <2>2, <2>6, <2>7 DEF DatedInv, LastInv
  <2> QED
    BY <2>1, <2>2, <2>4, <2>8 DEF PushInv
<1>3. CASE fgets
  BY <1>3, FgetsPushed
<1>4. CASE set_text
  BY <1>4 DEF set_text, PushInv
<1>5. CASE UNCHANGED rowsVars
  <2>1. UNCHANGED <<lines, torn, at, split, str1, str2, str3, str4, line_count, rows,
                    pushing, behind>>
    BY <1>5 DEF rowsVars, strs
  <2>2. PlainInv' = PlainInv /\ LastInv' = LastInv
    BY <2>1 DEF PlainInv, AllPlain, LastInv
  <2>3. DatedInv' = DatedInv
    BY <2>1, <2>2 DEF DatedInv, WholeRows, Listed
  <2> QED
    BY <2>1, <2>2, <2>3 DEF PushInv
<1> QED
  BY <1>1, <1>2, <1>3, <1>4, <1>5 DEF RowsNext

\* Every behaviour keeps what is known of the rows.
LEMMA PushInvariance == RowsSpec => []PushInv
<1>1. RowsInit => PushInv
  BY DEF RowsInit, PushInv
<1> QED
  BY <1>1, NextPushed, Invariance, PTL DEF RowsSpec

-----------------------------------------------------------------------------
(* History: the file and the tasks that save and push.                     *)

FileSteps == {"read", "write", "push", "close"}
SaveSteps == {"open_r", "read", "open_w", "write"}

FileTypeOK ==
  /\ log \in Seq(Nat) /\ content \in [Tasks -> Seq(Nat)]
  /\ pc \in [Tasks -> {"idle", "open_r", "open_w"} \union FileSteps]
  /\ new \in [Tasks -> Nat]
  /\ calls \in Nat /\ alone \subseteq 1 .. calls

\* The tasks that have the file open are those between fopen and fclose, and there is
\* one at most.
OpenInv ==
  /\ open = {t \in Tasks : pc[t] \in FileSteps}
  /\ \A t, u \in open : t = u

\* Each task that is saving has an entry of its own.
NewInv ==
  \A t \in Tasks :
    /\ pc[t] \in SaveSteps <=> new[t] # 0
    /\ new[t] <= calls
    /\ \A u \in Tasks \ {t} : new[t] # 0 => new[u] # new[t]

\* What is shown of a log.
FirstRows(s) == SubSeq(s, 1, Min({Len(s), LOG_MAX}))

\* The file is empty while it is written again, and what it was while it is pushed.
ContentsInv ==
  \A t \in Tasks :
    /\ pc[t] = "write" => log = <<>>
    /\ pc[t] = "push" => pushed = log
    /\ pc[t] = "close" => shown = FirstRows(pushed)

\* Entries that were saved, once each; none is still being saved.
Old(s) ==
  \A i \in 1 .. Len(s) :
    /\ s[i] \in 1 .. calls
    /\ \A t \in Tasks : s[i] # new[t]
    /\ \A j \in 1 .. Len(s) : s[i] = s[j] => i = j
OldInv == Old(log) /\ \A t \in Tasks : Old(content[t])

\* An entry that is being saved alone is the newest, and the other tasks are idle.
AloneInv ==
  \A t \in Tasks : new[t] \in alone =>
    new[t] = calls /\ \A u \in Tasks \ {t} : pc[u] = "idle"

\* The entries that were saved alone are all there, newest first.
Holds(s) ==
  /\ \A n \in alone : (\E i \in 1 .. Len(s) : s[i] = n) \/ \E t \in Tasks : n = new[t]
  /\ \A i, j \in 1 .. Len(s) : i < j /\ s[i] \in alone /\ s[j] \in alone => s[i] > s[j]

\* They are in the file, and while the file is rewritten in what its writer has read.
HoldInv ==
  /\ (\A t \in Tasks : pc[t] # "write") => Holds(log)
  /\ \A t \in Tasks : pc[t] \in {"open_w", "write"} => Holds(content[t])

FileIInv ==
  FileTypeOK /\ OpenInv /\ NewInv /\ ContentsInv /\ OldInv /\ AloneInv /\ HoldInv

\* What is known of the constants.
LEMMA EntriesBound == MaxEntries \in Nat /\ HeapLines \in Nat
BY ConstantsOK

LEMMA FileInit == Init => FileIInv
<1> SUFFICES ASSUME Init PROVE FileIInv
  OBVIOUS
<1>1. FileTypeOK
  BY DEF Init, FileTypeOK
<1>2. OpenInv /\ NewInv /\ ContentsInv /\ AloneInv
  BY DEF Init, OpenInv, NewInv, ContentsInv, AloneInv, FileSteps, SaveSteps
<1>3. OldInv /\ HoldInv
  BY DEF Init, OldInv, Old, HoldInv, Holds
<1> QED
  BY <1>1, <1>2, <1>3 DEF FileIInv

\* The entries that are being saved.
LEMMA SavingEntries ==
  ASSUME FileIInv
  PROVE  /\ Saving = {new[t] : t \in Tasks} \ {0}
         /\ \A t \in Tasks : new[t] \in alone => pc[t] # "idle" /\ new[t] \in Saving
<1>1. \A t \in Tasks : new[t] \in Nat /\ (new[t] # 0 <=> pc[t] \in SaveSteps)
  BY DEF FileIInv, FileTypeOK, NewInv
<1>2. \A n \in alone : n # 0
  BY DEF FileIInv, FileTypeOK
<1>3. Saving = {new[t] : t \in Tasks} \ {0}
  BY <1>1 DEF Saving, SaveSteps
<1> QED
  BY <1>1, <1>2, <1>3 DEF SaveSteps

\* A call of save_history: if another task is at work, nothing is saved alone now.
LEMMA SaveHistoryFile ==
  ASSUME FileIInv, NEW t \in Tasks, save_history(t)
  PROVE  FileIInv'
<1>1. /\ pc[t] = "idle" /\ calls' = calls + 1 /\ calls' \in Nat
      /\ new' = [new EXCEPT ![t] = calls'] /\ pc' = [pc EXCEPT ![t] = "open_r"]
      /\ UNCHANGED <<log, open, content, shown, pushed>>
  BY DEF save_history, Goto, FileIInv, FileTypeOK
<1>2. \/ alone' = alone \union {calls'} /\ \A u \in Tasks : pc[u] = "idle"
      \/ alone' = alone \ Saving
  BY DEF save_history, Busy
<1>3. FileTypeOK'
  <2>1. alone \subseteq 1 .. calls /\ calls \in Nat
    BY DEF FileIInv, FileTypeOK
  <2>2. 1 .. calls \subseteq 1 .. calls' /\ calls' \in 1 .. calls'
    BY <1>1, <2>1
  <2>3. alone' \subseteq 1 .. calls'
    BY <1>2, <2>1, <2>2
  <2> QED
    BY <1>1, <2>3 DEF FileIInv, FileTypeOK
<1>4. /\ \A u \in Tasks : new'[u] = IF u = t THEN calls' ELSE new[u]
      /\ \A u \in Tasks : pc'[u] = IF u = t THEN "open_r" ELSE pc[u]
      /\ \A u \in Tasks : new[u] \in Nat /\ new[u] <= calls
  BY <1>1 DEF FileIInv, FileTypeOK, NewInv
<1>5. OpenInv' /\ ContentsInv'
  <2>1. OpenInv'
    BY <1>1, <1>4 DEF FileIInv, OpenInv, FileSteps
  <2>2. ContentsInv'
    BY <1>1, <1>4 DEF FileIInv, ContentsInv
  <2> QED
    BY <2>1, <2>2
<1>6. NewInv'
  BY <1>1, <1>4 DEF FileIInv, NewInv, SaveSteps, FileTypeOK
<1>7. ASSUME NEW s \in Seq(Nat), Old(s) PROVE Old(s)'
  BY <1>1, <1>4, <1>7 DEF Old, FileIInv, FileTypeOK
<1>8. OldInv'
  BY <1>1, <1>7 DEF FileIInv, FileTypeOK, OldInv
<1>9. AloneInv'
  BY <1>1, <1>2, <1>4, SavingEntries
     DEF FileIInv, FileTypeOK, AloneInv, NewInv, SaveSteps
<1>10. ASSUME NEW s \in Seq(Nat), Old(s), Holds(s) PROVE Holds(s)'
  <2>1. \A i \in 1 .. Len(s) : s[i] \in alone' => s[i] \in alone
    BY <1>1, <1>2, <1>10 DEF Old, FileIInv, FileTypeOK
  <2>3. \A n \in alone' : n = calls' \/ (n \in alone /\ n # 0)
    BY <1>2 DEF FileIInv, FileTypeOK
  <2>4. new[t] = 0
    BY <1>1 DEF FileIInv, NewInv, SaveSteps
  <2>5. \A n \in alone' : (\E i \in 1 .. Len(s) : s[i] = n) \/ \E u \in Tasks : n = new'[u]
    BY <1>4, <1>10, <2>3, <2>4 DEF Holds
  <2> QED
    BY <1>10, <2>1, <2>5 DEF Holds
<1>11. HoldInv'
  <2>1. (\A u \in Tasks : pc'[u] # "write") => Holds(log)'
    BY <1>1, <1>4, <1>10 DEF FileIInv, FileTypeOK, OldInv, HoldInv
  <2>2. ASSUME NEW u \in Tasks, pc'[u] \in {"open_w", "write"} PROVE Holds(content[u])'
    BY <1>1, <1>4, <1>10, <2>2 DEF FileIInv, FileTypeOK, OldInv, HoldInv
  <2> QED
    BY <2>1, <2>2 DEF HoldInv
<1> QED
  BY <1>3, <1>5, <1>6, <1>8, <1>9, <1>11 DEF FileIInv

\* Old entries stay old when a call ends.
LEMMA OldKept ==
  ASSUME FileIInv, NEW t \in Tasks, NEW s \in Seq(Nat), Old(s), calls' = calls,
         new' \in {new, [new EXCEPT ![t] = 0]}
  PROVE  Old(s)'
<1>1. \A u \in Tasks : new'[u] = new[u] \/ new'[u] = 0
  BY DEF FileIInv, FileTypeOK
<1> QED
  BY <1>1 DEF Old

\* Fewer entries count as saved alone: what held them holds them.
LEMMA HoldsKept ==
  ASSUME FileIInv, NEW s \in Seq(Nat), Holds(s), alone' \subseteq alone,
         \A u \in Tasks : new[u] \in alone' => new'[u] = new[u]
  PROVE  Holds(s)'
BY DEF Holds

\* A call of save_history that gives up.
LEMMA EndedFile ==
  ASSUME FileIInv, NEW t \in Tasks, pc[t] \in SaveSteps, Done(t),
         alone' \in {alone, alone \ {new[t]}}, new[t] \notin alone',
         content' \in {content, [content EXCEPT ![t] = <<>>]},
         open' = {u \in Tasks \ {t} : pc[u] \in FileSteps},
         pc[t] # "write", UNCHANGED <<log, calls, pushed, shown>>
  PROVE  FileIInv'
<1>1. /\ new' = [new EXCEPT ![t] = 0] /\ pc' = [pc EXCEPT ![t] = "idle"]
      /\ \A u \in Tasks : pc'[u] = IF u = t THEN "idle" ELSE pc[u]
      /\ \A u \in Tasks : new'[u] = IF u = t THEN 0 ELSE new[u]
      /\ \A u \in Tasks : content'[u] \in {content[u], <<>>}
      /\ \A u \in Tasks \ {t} : content'[u] = content[u]
      /\ alone' \subseteq alone /\ content' \in [Tasks -> Seq(Nat)]
  <2>1. new' = [new EXCEPT ![t] = 0] /\ pc' = [pc EXCEPT ![t] = "idle"]
    BY DEF Done, Goto
  <2>2. /\ \A u \in Tasks : pc'[u] = IF u = t THEN "idle" ELSE pc[u]
        /\ \A u \in Tasks : new'[u] = IF u = t THEN 0 ELSE new[u]
    BY <2>1 DEF FileIInv, FileTypeOK
  <2>3. content \in [Tasks -> Seq(Nat)] /\ <<>> \in Seq(Nat)
    BY DEF FileIInv, FileTypeOK
  <2> QED
    BY <2>1, <2>2, <2>3
<1>2. FileTypeOK'
  BY <1>1 DEF FileIInv, FileTypeOK
<1>3. OpenInv'
  BY <1>1 DEF FileIInv, OpenInv, FileSteps
<1>4. NewInv'
  BY <1>1 DEF FileIInv, NewInv, SaveSteps, FileTypeOK
<1>5. ContentsInv'
  BY <1>1 DEF FileIInv, ContentsInv
<1>6. \A s \in Seq(Nat) : Old(s) => Old(s)'
  BY <1>1, OldKept
<1>7. Old(<<>>)'
  BY DEF Old
<1>8. OldInv'
  <2>1. Old(log)'
    BY <1>6 DEF FileIInv, OldInv, FileTypeOK
  <2>2. ASSUME NEW u \in Tasks PROVE Old(content[u])'
    <3>1. Old(content[u]) /\ content[u] \in Seq(Nat)
      BY DEF FileIInv, OldInv, FileTypeOK
    <3>2. CASE content'[u] = content[u]
      BY <1>6, <3>1, <3>2
    <3>3. CASE content'[u] = <<>>
      BY <1>7, <3>3
    <3> QED
      BY <1>1, <3>2, <3>3
  <2> QED
    BY <2>1, <2>2 DEF OldInv
<1>9. 0 \notin alone
  BY DEF FileIInv, FileTypeOK
<1>10. AloneInv'
  BY <1>1, <1>9 DEF FileIInv, AloneInv
<1>11. \A s \in Seq(Nat) : Holds(s) => Holds(s)'
  BY <1>1, HoldsKept
<1>12. HoldInv'
  <2>1. (\A u \in Tasks : pc'[u] # "write") => Holds(log)'
    <3>1. (\A u \in Tasks : pc'[u] # "write") => \A u \in Tasks : pc[u] # "write"
      BY <1>1
    <3> QED
      BY <1>11, <3>1 DEF FileIInv, HoldInv, FileTypeOK
  <2>2. ASSUME NEW u \in Tasks, pc'[u] \in {"open_w", "write"} PROVE Holds(content[u])'
    <3>1. u # t /\ content'[u] = content[u] /\ pc[u] \in {"open_w", "write"}
      BY <1>1, <2>2
    <3>2. Holds(content[u]) /\ content[u] \in Seq(Nat)
      BY <3>1 DEF FileIInv, HoldInv, FileTypeOK
    <3> QED
      BY <1>11, <3>1, <3>2
  <2> QED
    BY <2>1, <2>2 DEF HoldInv
<1> QED
  BY <1>2, <1>3, <1>4, <1>5, <1>8, <1>10, <1>12 DEF FileIInv

\* fopen finds the file open only when another task is at work, and then the entry was
\* not being saved alone.
LEMMA OpenMeansBusy ==
  ASSUME FileIInv, NEW t \in Tasks, pc[t] \notin FileSteps, open # {}
  PROVE  new[t] \notin alone
BY DEF FileIInv, OpenInv, AloneInv, FileSteps

\* fopen to read fails, or the call goes on; neither the entries nor what was saved
\* alone changes.
LEMMA OpenReadFile ==
  ASSUME FileIInv, NEW t \in Tasks, fopen_r(t)
  PROVE  FileIInv'
<1>1. CASE open # {}
  <2>1. new[t] \notin alone
    BY <1>1, OpenMeansBusy DEF fopen_r, FileSteps
  <2>2. open' = {u \in Tasks \ {t} : pc[u] \in FileSteps}
    BY <1>1 DEF fopen_r, FileIInv, OpenInv, FileSteps
  <2> QED
    BY <1>1, <2>1, <2>2, EndedFile DEF fopen_r, SaveSteps
<1>2. CASE open = {}
  <2>1. /\ pc[t] = "open_r" /\ pc' = [pc EXCEPT ![t] = "read"] /\ open' = {t}
        /\ \A u \in Tasks : pc'[u] = IF u = t THEN "read" ELSE pc[u]
        /\ UNCHANGED <<new, log, content, shown, calls, alone, pushed>>
    BY <1>2 DEF fopen_r, Goto, FileIInv, FileTypeOK
  <2>2. FileTypeOK'
    BY <2>1 DEF FileIInv, FileTypeOK, FileSteps
  <2>3. OpenInv'
    BY <1>2, <2>1 DEF FileIInv, OpenInv, FileSteps
  <2>4. NewInv' /\ AloneInv'
    BY <2>1 DEF FileIInv, NewInv, AloneInv, SaveSteps
  <2>5. ContentsInv'
    BY <2>1 DEF FileIInv, ContentsInv
  <2>6. OldInv'
    BY <2>1 DEF FileIInv, OldInv, Old
  <2>7. HoldInv'
    BY <2>1 DEF FileIInv, HoldInv, Holds
  <2> QED
    BY <2>2, <2>3, <2>4, <2>5, <2>6, <2>7 DEF FileIInv
<1> QED
  BY <1>1, <1>2

\* fread copies the file, unless malloc finds no room.
LEMMA ReadFile ==
  ASSUME FileIInv, NEW t \in Tasks, fread(t)
  PROVE  FileIInv'
<1>1. /\ pc[t] = "read" /\ new[t] # 0 /\ open' = {u \in Tasks \ {t} : pc[u] \in FileSteps}
      /\ \A u \in Tasks : pc[u] # "write"
  BY DEF fread, FileIInv, OpenInv, FileSteps, NewInv, SaveSteps
<1>2. CASE Len(log) > HeapLines
  <2>1. ~(Len(log) <= HeapLines)
    BY <1>2, EntriesBound DEF FileIInv, FileTypeOK
  <2> QED
    BY <1>1, <2>1, EndedFile DEF fread, SaveSteps
<1>3. CASE Len(log) <= HeapLines
  <2>1. /\ pc' = [pc EXCEPT ![t] = "open_w"] /\ content' = [content EXCEPT ![t] = log]
        /\ UNCHANGED <<new, log, shown, calls, alone, pushed>>
    BY <1>3 DEF fread, Goto
  <2>2. /\ \A u \in Tasks : pc'[u] = IF u = t THEN "open_w" ELSE pc[u]
        /\ \A u \in Tasks : content'[u] = IF u = t THEN log ELSE content[u]
    BY <2>1 DEF FileIInv, FileTypeOK
  <2>3. FileTypeOK'
    BY <2>1 DEF FileIInv, FileTypeOK
  <2>4. OpenInv'
    BY <1>1, <2>2 DEF FileIInv, OpenInv, FileSteps
  <2>5. NewInv' /\ AloneInv'
    BY <1>1, <2>1, <2>2 DEF FileIInv, NewInv, AloneInv, SaveSteps
  <2>6. ContentsInv'
    BY <2>1, <2>2 DEF FileIInv, ContentsInv
  <2>7. \A s : (Old(s) <=> Old(s)') /\ (Holds(s) <=> Holds(s)')
    BY <2>1 DEF Old, Holds
  <2>8. OldInv'
    BY <2>1, <2>2, <2>7 DEF FileIInv, OldInv
  <2>9. HoldInv'
    BY <1>1, <2>1, <2>2, <2>7 DEF FileIInv, HoldInv
  <2> QED
    BY <2>3, <2>4, <2>5, <2>6, <2>8, <2>9 DEF FileIInv
<1> QED
  BY <1>2, <1>3, EntriesBound DEF FileIInv, FileTypeOK

\* The file is emptied: what it held is with the task that has read it.
LEMMA OpenWriteFile ==
  ASSUME FileIInv, NEW t \in Tasks, fopen_w(t)
  PROVE  FileIInv'
<1>1. CASE open # {}
  <2>1. new[t] \notin alone
    BY <1>1, OpenMeansBusy DEF fopen_w, FileSteps
  <2>2. open' = {u \in Tasks \ {t} : pc[u] \in FileSteps}
    BY <1>1 DEF fopen_w, FileIInv, OpenInv, FileSteps
  <2> QED
    BY <1>1, <2>1, <2>2, EndedFile DEF fopen_w, SaveSteps
<1>2. CASE open = {}
  <2>1. /\ pc[t] = "open_w" /\ pc' = [pc EXCEPT ![t] = "write"] /\ open' = {t}
        /\ \A u \in Tasks : pc'[u] = IF u = t THEN "write" ELSE pc[u]
        /\ log' = <<>>
        /\ UNCHANGED <<new, content, shown, calls, alone, pushed>>
    BY <1>2 DEF fopen_w, Goto, FileIInv, FileTypeOK
  <2>2. \A u \in Tasks : pc[u] \notin FileSteps
    BY <1>2 DEF FileIInv, OpenInv
  <2>3. FileTypeOK'
    BY <2>1 DEF FileIInv, FileTypeOK, FileSteps
  <2>4. OpenInv'
    BY <2>1, <2>2 DEF OpenInv, FileSteps
  <2>5. NewInv' /\ AloneInv'
    BY <2>1 DEF FileIInv, NewInv, AloneInv, SaveSteps
  <2>6. ContentsInv'
    <3>1. ASSUME NEW u \in Tasks, pc'[u] \in {"push", "close"} PROVE FALSE
      BY <2>1, <2>2, <3>1 DEF FileSteps
    <3> QED
      BY <2>1, <3>1 DEF ContentsInv
  <2>7. \A s : (Old(s) <=> Old(s)') /\ (Holds(s) <=> Holds(s)')
    BY <2>1 DEF Old, Holds
  <2>8. OldInv'
    <3>1. Old(log)'
      BY <2>1 DEF Old
    <3> QED
      BY <2>1, <2>7, <3>1 DEF FileIInv, OldInv
  <2>9. HoldInv'
    BY <2>1, <2>7 DEF FileIInv, HoldInv
  <2> QED
    BY <2>3, <2>4, <2>5, <2>6, <2>8, <2>9 DEF FileIInv
<1> QED
  BY <1>1, <1>2

\* The new entry and the old contents are the file again.
LEMMA WriteFile ==
  ASSUME FileIInv, NEW t \in Tasks, fwrite(t)
  PROVE  FileIInv'
<1>0. PICK n, old, text : n = new[t] /\ old = content[t] /\ text = <<n>> \o old
  OBVIOUS
<1>1. /\ pc[t] = "write" /\ log = <<>> /\ n # 0 /\ n \in Nat /\ old \in Seq(Nat)
      /\ Old(old) /\ Holds(old)
      /\ \A u \in Tasks \ {t} : pc[u] \notin FileSteps
  BY <1>0
     DEF fwrite, FileIInv, FileTypeOK, OpenInv, NewInv, ContentsInv, OldInv,
         HoldInv,
              FileSteps, SaveSteps
<1>2. /\ new' = [new EXCEPT ![t] = 0] /\ pc' = [pc EXCEPT ![t] = "idle"]
      /\ content' = [content EXCEPT ![t] = <<>>]
      /\ log' = log \o text
      /\ open' = open \ {t}
      /\ UNCHANGED <<shown, calls, alone, pushed>>
  BY <1>0 DEF fwrite, Rewritten, Done, Goto
<1>3. /\ \A u \in Tasks : pc'[u] = IF u = t THEN "idle" ELSE pc[u]
      /\ \A u \in Tasks : new'[u] = IF u = t THEN 0 ELSE new[u]
      /\ \A u \in Tasks : content'[u] = IF u = t THEN <<>> ELSE content[u]
  BY <1>2 DEF FileIInv, FileTypeOK
<1>4. /\ text \in Seq(Nat) /\ Len(text) = Len(old) + 1 /\ Len(old) \in Nat
      /\ text[1] = n /\ \A i \in 2 .. Len(text) : i - 1 \in 1 .. Len(old) /\ text[i] = old[i - 1]
      /\ \A i \in 1 .. Len(old) : i + 1 \in 1 .. Len(text) /\ text[i + 1] = old[i]
  <2>1. /\ text = <<n>> \o old /\ n \in Nat /\ old \in Seq(Nat)
    BY <1>0, <1>1
  <2>2. /\ text \in Seq(Nat) /\ Len(text) = Len(old) + 1 /\ Len(old) \in Nat /\ text[1] = n
    BY ONLY <2>1
  <2>3. \A i \in 1 .. Len(text) : text[i] = IF i = 1 THEN n ELSE old[i - 1]
    BY ONLY <2>1
  <2>4. ASSUME NEW i \in 2 .. Len(text)
        PROVE  i - 1 \in 1 .. Len(old) /\ text[i] = old[i - 1]
    BY ONLY <2>2, <2>3
  <2>5. ASSUME NEW i \in 1 .. Len(old)
        PROVE  i + 1 \in 1 .. Len(text) /\ text[i + 1] = old[i]
    <3>1. i + 1 \in 1 .. Len(text) /\ i + 1 # 1 /\ (i + 1) - 1 = i
      BY ONLY <2>2
    <3> QED
      BY ONLY <2>3, <3>1
  <2> QED
    BY ONLY <2>2, <2>4, <2>5
<1>5. log' = text
  BY <1>0, <1>1, <1>2
<1>6. FileTypeOK'
  <2>1. content' \in [Tasks -> Seq(Nat)]
    <3>1. content \in [Tasks -> Seq(Nat)] /\ <<>> \in Seq(Nat)
      BY DEF FileIInv, FileTypeOK
    <3> QED
      BY <1>2, <3>1
  <2>2. log' \in Seq(Nat)
    BY <1>4, <1>5
  <2> QED
    BY <1>2, <2>1, <2>2 DEF FileIInv, FileTypeOK
<1>7. OpenInv'
  BY <1>2, <1>3 DEF FileIInv, OpenInv, FileSteps
<1>8. NewInv'
  BY <1>2, <1>3 DEF FileIInv, NewInv, SaveSteps, FileTypeOK
<1>9. ContentsInv'
  BY <1>1, <1>3 DEF ContentsInv, FileSteps
<1>10. 0 \notin alone /\ n \in 1 .. calls
  BY <1>0, <1>1 DEF FileIInv, FileTypeOK, NewInv
<1>11. AloneInv'
  BY <1>2, <1>3, <1>10 DEF FileIInv, AloneInv
<1>12. Old(text)'
  <2>1. \A i \in 1 .. Len(text) :
          \/ i = 1 /\ text[i] = n
          \/ i # 1 /\ i - 1 \in 1 .. Len(old) /\ text[i] = old[i - 1]
    BY <1>4
  <2>2. \A i \in 1 .. Len(old) :
          /\ old[i] \in 1 .. calls /\ old[i] # n
          /\ \A u \in Tasks : old[i] # new[u]
          /\ \A j \in 1 .. Len(old) : old[i] = old[j] => i = j
    BY <1>0, <1>1 DEF Old
  <2>3. \A u \in Tasks : n # new'[u]
    BY <1>0, <1>1, <1>3 DEF FileIInv, NewInv
  <2>4. \A i \in 1 .. Len(text) : text[i] \in 1 .. calls /\ \A u \in Tasks : text[i] # new'[u]
    <3> SUFFICES ASSUME NEW i \in 1 .. Len(text)
                 PROVE  text[i] \in 1 .. calls /\ \A u \in Tasks : text[i] # new'[u]
      OBVIOUS
    <3>1. CASE i = 1 /\ text[i] = n
      BY ONLY <1>10, <2>3, <3>1
    <3>2. CASE i # 1 /\ i - 1 \in 1 .. Len(old) /\ text[i] = old[i - 1]
      <4>1. text[i] \in 1 .. calls /\ text[i] # n /\ \A u \in Tasks : text[i] # new[u]
        BY ONLY <2>2, <3>2
      <4>2. text[i] # 0
        BY ONLY <4>1
      <4> QED
        BY ONLY <1>3, <4>1, <4>2
    <3> QED
      BY <2>1, <3>1, <3>2
  <2>5. \A i, j \in 1 .. Len(text) : text[i] = text[j] => i = j
    <3>1. ASSUME NEW i \in 1 .. Len(text), NEW j \in 1 .. Len(text), text[i] = text[j]
          PROVE  i = j
      <4>1. CASE i = 1
        BY <2>1, <2>2, <3>1, <4>1
      <4>2. CASE j = 1
        BY <2>1, <2>2, <3>1, <4>2
      <4>3. CASE i # 1 /\ j # 1
        <5>1. i - 1 = j - 1
          BY <2>1, <2>2, <3>1, <4>3
        <5> QED
          BY <1>4, <5>1
      <4> QED
        BY <4>1, <4>2, <4>3
    <3> QED
      BY <3>1
  <2> QED
    BY <1>2, <2>4, <2>5 DEF Old
<1>13. OldInv'
  <2>1. \A s \in Seq(Nat) : Old(s) => Old(s)'
    BY <1>2, OldKept
  <2>2. ASSUME NEW u \in Tasks PROVE Old(content[u])'
    <3>1. Old(content[u]) /\ content[u] \in Seq(Nat)
      BY DEF FileIInv, OldInv, FileTypeOK
    <3>2. CASE u = t
      BY <1>3, <3>2 DEF Old
    <3>3. CASE u # t
      BY <1>3, <2>1, <3>1, <3>3
    <3> QED
      BY <3>2, <3>3
  <2> QED
    BY <1>5, <1>12, <2>2 DEF OldInv
<1>14. Holds(text)'
  <2>1. ASSUME NEW m \in alone
        PROVE  (\E i \in 1 .. Len(text) : text[i] = m) \/ \E u \in Tasks : m = new'[u]
    <3>1. CASE m = n
      <4>1. 1 \in 1 .. Len(text) /\ text[1] = m
        BY ONLY <1>4, <3>1
      <4> QED
        BY ONLY <4>1
    <3>2. CASE m # n
      <4>1. (\E i \in 1 .. Len(old) : old[i] = m) \/ \E u \in Tasks \ {t} : m = new[u]
        BY <1>0, <1>1, <3>2 DEF Holds
      <4> QED
        BY <1>3, <1>4, <4>1
    <3> QED
      BY <3>1, <3>2
  <2>2. ASSUME NEW i \in 1 .. Len(text), NEW j \in 1 .. Len(text), i < j,
               text[i] \in alone, text[j] \in alone
        PROVE  text[i] > text[j]
    <3>1. j - 1 \in 1 .. Len(old) /\ text[j] = old[j - 1] /\ old[j - 1] \in alone
      BY <1>4, <2>2
    <3>2. CASE i = 1
      <4>1. n \in alone /\ text[i] = n
        BY <1>4, <2>2, <3>2
      <4>2. n = calls
        BY <1>0, <4>1 DEF FileIInv, AloneInv
      <4>3. old[j - 1] \in 1 .. calls /\ old[j - 1] # n
        BY <1>0, <1>1, <3>1 DEF Old
      <4> QED
        BY <3>1, <4>1, <4>2, <4>3 DEF FileIInv, FileTypeOK
    <3>3. CASE i # 1
      <4>1. i - 1 \in 1 .. Len(old) /\ text[i] = old[i - 1] /\ i - 1 < j - 1
        BY <1>4, <2>2, <3>3
      <4> QED
        BY <1>1, <2>2, <3>1, <4>1 DEF Holds
    <3> QED
      BY <3>2, <3>3
  <2> QED
    BY <1>2, <2>1, <2>2 DEF Holds
<1>15. HoldInv'
  <2>1. ASSUME NEW u \in Tasks, pc'[u] \in {"open_w", "write"} PROVE Holds(content[u])'
    <3>1. u # t /\ content'[u] = content[u] /\ pc[u] \in {"open_w", "write"} /\ pc[u] # "idle"
      BY <1>3, <2>1
    <3>2. Holds(content[u]) /\ content[u] \in Seq(Nat)
      BY <3>1 DEF FileIInv, HoldInv, FileTypeOK
    <3>3. n \notin alone
      BY <1>0, <3>1 DEF FileIInv, AloneInv
    <3>4. \A v \in Tasks : new[v] \in alone' => new'[v] = new[v]
      BY <1>0, <1>2, <1>3, <3>3
    <3>5. Holds(content[u])'
      BY <1>2, <3>1, <3>2, <3>4, HoldsKept
    <3> QED
      BY <3>5
  <2> QED
    BY <1>5, <1>14, <2>1 DEF HoldInv
<1> QED
  BY <1>6, <1>7, <1>8, <1>9, <1>11, <1>13, <1>15 DEF FileIInv

\* A push begins: what is being saved meanwhile is not saved alone.
LEMMA PushHistoryFile ==
  ASSUME FileIInv, NEW t \in Tasks, push_history(t)
  PROVE  FileIInv'
<1>1. /\ pc[t] = "idle" /\ alone' = alone \ Saving
      /\ UNCHANGED <<log, new, content, shown, calls>>
  BY DEF push_history
<1>2. \A u \in Tasks : new[u] \notin alone'
  BY <1>1, SavingEntries
<1>3. \/ /\ open = {} /\ open' = {t} /\ pushed' = log /\ pc' = [pc EXCEPT ![t] = "push"]
         /\ \A u \in Tasks : pc'[u] = IF u = t THEN "push" ELSE pc[u]
      \/ UNCHANGED <<open, pc, pushed>>
  BY DEF push_history, Goto, FileIInv, FileTypeOK
<1>4. FileTypeOK'
  BY <1>1, <1>3 DEF FileIInv, FileTypeOK, FileSteps
<1>5. OpenInv'
  BY <1>3 DEF FileIInv, OpenInv, FileSteps
<1>6. NewInv'
  BY <1>1, <1>3 DEF FileIInv, NewInv, SaveSteps
<1>7. ContentsInv'
  <2>1. CASE UNCHANGED <<open, pc, pushed>>
    BY <1>1, <2>1 DEF FileIInv, ContentsInv
  <2>2. CASE /\ open = {} /\ pushed' = log
             /\ \A u \in Tasks : pc'[u] = IF u = t THEN "push" ELSE pc[u]
    <3>1. \A u \in Tasks : pc[u] # "close"
      BY <2>2 DEF FileIInv, OpenInv, FileSteps
    <3>2. \A u \in Tasks : pc'[u] # "close"
      BY <2>2, <3>1
    <3>3. \A u \in Tasks : pc'[u] # "write"
      BY <2>2 DEF FileIInv, OpenInv, FileSteps
    <3> QED
      BY <1>1, <2>2, <3>2, <3>3 DEF ContentsInv
  <2> QED
    BY <1>3, <2>1, <2>2
<1>8. OldInv'
  BY <1>1 DEF FileIInv, OldInv, Old
<1>9. AloneInv'
  BY <1>1, <1>2 DEF AloneInv
<1>10. \A s \in Seq(Nat) : Holds(s) => Holds(s)'
  BY <1>1, <1>2, HoldsKept
<1>11. \A u \in Tasks : pc'[u] \in {"open_w", "write"} <=> pc[u] \in {"open_w", "write"}
  BY <1>1, <1>3
<1>12. \A u \in Tasks : pc'[u] = "write" <=> pc[u] = "write"
  BY <1>1, <1>3
<1>13. HoldInv'
  BY <1>1, <1>10, <1>11, <1>12 DEF FileIInv, FileTypeOK, HoldInv
<1> QED
  BY <1>4, <1>5, <1>6, <1>7, <1>8, <1>9, <1>13 DEF FileIInv

\* The rest of a push: the file is open, so it holds still what it held.
LEMMA PushedFile ==
  ASSUME FileIInv, NEW t \in Tasks, push_rows(t) \/ push_close(t)
  PROVE  FileIInv'
<1>1. /\ UNCHANGED <<log, new, content, calls, alone, pushed>>
      /\ \/ /\ pc[t] = "push" /\ pc' = [pc EXCEPT ![t] = "close"] /\ open' = open
            /\ shown' = FirstRows(log)
            /\ \A u \in Tasks : pc'[u] = IF u = t THEN "close" ELSE pc[u]
         \/ /\ pc[t] = "close" /\ pc' = [pc EXCEPT ![t] = "idle"] /\ open' = open \ {t}
            /\ shown' = shown
            /\ \A u \in Tasks : pc'[u] = IF u = t THEN "idle" ELSE pc[u]
  BY DEF push_rows, push_close, Goto, FirstRows, FileIInv, FileTypeOK
<1>2. FileTypeOK'
  BY <1>1 DEF FileIInv, FileTypeOK, FileSteps
<1>3. OpenInv'
  BY <1>1 DEF FileIInv, OpenInv, FileSteps
<1>4. NewInv' /\ AloneInv'
  BY <1>1 DEF FileIInv, NewInv, AloneInv, SaveSteps
<1>5. \A u \in Tasks \ {t} : pc[u] \notin FileSteps
  BY <1>1 DEF FileIInv, OpenInv, FileSteps
<1>6. ContentsInv'
  <2>1. ASSUME NEW u \in Tasks
        PROVE  /\ pc'[u] = "write" => log' = <<>>
               /\ pc'[u] = "push" => pushed' = log'
               /\ pc'[u] = "close" => shown' = FirstRows(pushed')
    <3>1. CASE u = t
      <4>1. pc'[t] \in {"close", "idle"}
        BY <1>1
      <4>2. pc'[t] = "close" => shown' = FirstRows(log) /\ pushed = log
        BY <1>1 DEF FileIInv, ContentsInv
      <4> QED
        BY <1>1, <3>1, <4>1, <4>2
    <3>2. CASE u # t
      BY <1>1, <1>5, <3>2 DEF FileSteps
    <3> QED
      BY <3>1, <3>2
  <2> QED
    BY <2>1 DEF ContentsInv
<1>7. OldInv'
  BY <1>1 DEF FileIInv, OldInv, Old
<1>8. \A s : Holds(s) <=> Holds(s)'
  BY <1>1 DEF Holds
<1>9. \A u \in Tasks : /\ pc'[u] \in {"open_w", "write"} <=> pc[u] \in {"open_w", "write"}
                       /\ pc'[u] = "write" <=> pc[u] = "write"
  BY <1>1
<1>10. HoldInv'
  BY <1>1, <1>8, <1>9 DEF FileIInv, HoldInv
<1> QED
  BY <1>2, <1>3, <1>4, <1>6, <1>7, <1>10 DEF FileIInv

\* After a reset nothing is being saved, and of an entry that was saved alone the file
\* still has the line unless it was being rewritten.
LEMMA ResetFile ==
  ASSUME FileIInv, Reset
  PROVE  FileIInv'
<1>1. /\ open' = {} /\ pc' = [u \in Tasks |-> "idle"] /\ new' = [u \in Tasks |-> 0]
      /\ content' = [u \in Tasks |-> <<>>] /\ UNCHANGED <<shown, calls, pushed>>
      /\ alone' \subseteq alone /\ alone' \subseteq alone \ Saving
  BY DEF Reset
<1>2. log \in Seq(Nat) /\ Old(log) /\ 0 \notin alone
  BY DEF FileIInv, FileTypeOK, OldInv
<1>3. \A u \in Tasks : new[u] \notin alone'
  BY <1>1, SavingEntries
<1>4. /\ OpenInv' /\ NewInv' /\ ContentsInv' /\ AloneInv'
  <2>1. OpenInv' /\ ContentsInv'
    BY <1>1 DEF OpenInv, ContentsInv, FileSteps
  <2>2. NewInv' /\ AloneInv'
    BY <1>1, <1>2 DEF NewInv, AloneInv, SaveSteps, FileIInv, FileTypeOK
  <2> QED
    BY <2>1, <2>2
<1>5. /\ log' \in Seq(Nat)
      /\ Old(log)' /\ Holds(log)'
  <2>1. CASE (\A t \in Tasks : pc[t] # "write") /\ UNCHANGED log
    <3>1. Old(log)'
      BY <1>1, <1>2, <2>1 DEF Old
    <3>2. Holds(log)
      BY <2>1 DEF FileIInv, HoldInv
    <3>3. Holds(log)'
      BY <1>1, <1>3, <2>1, <3>2 DEF Holds
    <3> QED
      BY <1>2, <2>1, <3>1, <3>3
  <2>2. ASSUME NEW t \in Tasks, pc[t] = "write",
               log' \in Prefixes(Rewritten(t))
        PROVE  log' \in Seq(Nat) /\ Old(log)' /\ Holds(log)'
    <3>1. PICK n, old, text : n = new[t] /\ old = content[t] /\ text = <<n>> \o old
      OBVIOUS
    <3>2. /\ n \in Nat /\ n # 0 /\ n <= calls /\ old \in Seq(Nat) /\ Old(old) /\ Holds(old)
      BY <2>2, <3>1
         DEF FileIInv, FileTypeOK, NewInv, OldInv, HoldInv, SaveSteps
    <3>3. PICK l \in 0 .. Len(text) : log' = SubSeq(text, 1, l)
      BY <2>2, <3>1 DEF Prefixes, Rewritten
    <3>4. /\ text \in Seq(Nat) /\ Len(text) = Len(old) + 1 /\ Len(old) \in Nat
          /\ \A i \in 1 .. Len(text) :
               \/ i = 1 /\ text[i] = n
               \/ i # 1 /\ i - 1 \in 1 .. Len(old) /\ text[i] = old[i - 1]
      BY <3>1, <3>2
    <3>5. /\ log' \in Seq(Nat) /\ Len(log') = l
          /\ \A i \in 1 .. l : i \in 1 .. Len(text) /\ log'[i] = text[i]
      BY <3>3, <3>4
    <3>6. \A i \in 1 .. l :
               \/ i = 1 /\ log'[i] = n
               \/ i # 1 /\ i - 1 \in 1 .. Len(old) /\ log'[i] = old[i - 1]
      BY <3>4, <3>5
    <3>7. \A i \in 1 .. Len(old) : old[i] \in 1 .. calls /\ old[i] # n
                                   /\ \A j \in 1 .. Len(old) : old[i] = old[j] => i = j
      BY <3>1, <3>2 DEF Old
    <3>8. \A i \in 1 .. l : log'[i] \in 1 .. calls
      <4>1. n \in 1 .. calls
        BY <3>2 DEF FileIInv, FileTypeOK
      <4> QED
        BY <3>6, <3>7, <4>1
    <3>9. ASSUME NEW i \in 1 .. l, NEW j \in 1 .. l, log'[i] = log'[j] PROVE i = j
      <4>1. CASE i = 1 \/ j = 1
        BY <3>6, <3>7, <3>9, <4>1
      <4>2. CASE i # 1 /\ j # 1
        <5>1. /\ i - 1 \in 1 .. Len(old) /\ log'[i] = old[i - 1]
              /\ j - 1 \in 1 .. Len(old) /\ log'[j] = old[j - 1]
          BY ONLY <3>6, <4>2
        <5>2. old[i - 1] = old[j - 1]
          BY ONLY <3>9, <5>1
        <5>3. i - 1 = j - 1
          BY ONLY <3>7, <5>1, <5>2
        <5> QED
          BY ONLY <5>3
      <4> QED
        BY <4>1, <4>2
    <3>10. Old(log)'
      BY <1>1, <3>5, <3>8, <3>9 DEF Old
    <3>11. alone' \subseteq Range(log') /\ n \notin alone'
      BY <1>3, <2>2, <3>1 DEF Reset
    <3>12. ASSUME NEW i \in 1 .. l, NEW j \in 1 .. l, i < j,
                  log'[i] \in alone', log'[j] \in alone'
           PROVE  log'[i] > log'[j]
      <4>1. i # 1 /\ j # 1
        BY <3>6, <3>11, <3>12
      <4>2. /\ i - 1 \in 1 .. Len(old) /\ log'[i] = old[i - 1] /\ i - 1 < j - 1
            /\ j - 1 \in 1 .. Len(old) /\ log'[j] = old[j - 1]
        BY <3>6, <3>12, <4>1
      <4> QED
        BY <1>1, <3>2, <3>12, <4>2 DEF Holds
    <3>13. DOMAIN log' = 1 .. l
      BY <3>5
    <3>14. Holds(log)'
      BY <3>5, <3>11, <3>12, <3>13 DEF Holds, Range
    <3> QED
      BY <3>5, <3>10, <3>14
  <2> QED
    BY <2>1, <2>2 DEF Reset
<1>6. FileTypeOK'
  BY <1>1, <1>5 DEF FileIInv, FileTypeOK
<1>7. OldInv'
  BY <1>1, <1>5 DEF OldInv, Old
<1>8. HoldInv'
  BY <1>1, <1>5 DEF HoldInv
<1> QED
  BY <1>4, <1>6, <1>7, <1>8 DEF FileIInv

\* What a reset leaves of the entries that were saved alone, or were being written.
LEMMA ResetLoses ==
  ASSUME FileIInv, Reset
  PROVE  LET kept == alone \ {new[t] : t \in {u \in Tasks : pc[u] # "write"}}
         IN  /\ (\A t \in Tasks : pc[t] # "write") => kept \subseteq Range(log')
             /\ \A m, n \in kept : m < n /\ m \in Range(log') => n \in Range(log')
<1> DEFINE kept == alone \ {new[t] : t \in {u \in Tasks : pc[u] # "write"}}
<1>1. alone \subseteq 1 .. calls /\ calls \in Nat /\ log \in Seq(Nat)
  BY DEF FileIInv, FileTypeOK
<1>2. CASE (\A t \in Tasks : pc[t] # "write") /\ UNCHANGED log
  <2>1. Holds(log)
    BY <1>2 DEF FileIInv, HoldInv
  <2>2. ASSUME NEW n \in kept PROVE n \in Range(log')
    <3>1. PICK i \in 1 .. Len(log) : log[i] = n
      BY <1>2, <2>1, <2>2 DEF Holds
    <3>2. DOMAIN log' = 1 .. Len(log) /\ log'[i] = n
      BY <1>1, <1>2, <3>1
    <3> QED
      BY <3>1, <3>2 DEF Range
  <2> QED
    BY <2>2
<1>3. ASSUME NEW t \in Tasks, pc[t] = "write", log' \in Prefixes(Rewritten(t)),
             NEW m \in kept, NEW n \in kept, m < n, m \in Range(log')
      PROVE  n \in Range(log')
  <2>1. PICK first, old, text :
          first = new[t] /\ old = content[t] /\ text = <<first>> \o old
    OBVIOUS
  <2>2. first \in Nat /\ old \in Seq(Nat) /\ Holds(old)
    BY <1>3, <2>1 DEF FileIInv, FileTypeOK, HoldInv
  <2>3. PICK l \in 0 .. Len(text) : log' = SubSeq(text, 1, l)
    BY <1>3, <2>1 DEF Prefixes, Rewritten
  <2>4. /\ text \in Seq(Nat) /\ Len(text) = Len(old) + 1 /\ Len(old) \in Nat
        /\ \A i \in 1 .. Len(text) : text[i] = IF i = 1 THEN first ELSE old[i - 1]
    BY ONLY <2>1, <2>2
  <2>5. DOMAIN log' = 1 .. l /\ \A i \in 1 .. l : i \in 1 .. Len(text) /\ log'[i] = text[i]
    BY ONLY <2>3, <2>4
  <2>6. PICK j \in 1 .. l : text[j] = m
    BY <1>3, <2>5 DEF Range
  <2>7. m \in 1 .. calls /\ n \in 1 .. calls /\ m \in alone /\ n \in alone
    BY <1>1
  <2>8. \A u \in Tasks \ {t} : pc[u] # "write"
    BY <1>3 DEF FileIInv, OpenInv, FileSteps
  <2>9. CASE n = first
    <3>1. 1 \in 1 .. l /\ log'[1] = n
      BY <2>3, <2>4, <2>5, <2>6, <2>9
    <3> QED
      BY <2>5, <3>1 DEF Range
  <2>10. CASE n # first
    <3>1. \A u \in Tasks : n # new[u]
      BY <2>1, <2>8, <2>10
    <3>2. PICK i \in 1 .. Len(old) : old[i] = n
      BY <2>2, <2>7, <3>1 DEF Holds
    <3>3. j # 1
      <4>1. ASSUME j = 1 PROVE FALSE
        <5>1. m = new[t]
          BY <2>1, <2>3, <2>4, <2>6, <4>1
        <5>2. m = calls
          BY <2>7, <5>1 DEF FileIInv, AloneInv
        <5> QED
          BY ONLY <1>1, <1>3, <2>7, <5>2
      <4> QED
        BY <4>1
    <3>4. j - 1 \in 1 .. Len(old) /\ old[j - 1] = m
      BY <2>3, <2>4, <2>6, <3>3
    <3>5. ~(j - 1 < i)
      <4>1. j - 1 < i => m > n
        BY <2>2, <2>7, <3>2, <3>4 DEF Holds
      <4> QED
        BY ONLY <1>1, <1>3, <2>7, <4>1
    <3>6. j - 1 # i
      <4>1. m # n
        BY ONLY <1>3, <2>7
      <4> QED
        BY ONLY <3>2, <3>4, <4>1
    <3>9. i \in Nat /\ i >= 1 /\ j \in Nat /\ l \in Nat /\ j <= l
      <4>1. j \in 1 .. l
        BY <2>6
      <4>2. i \in 1 .. Len(old)
        BY <3>2
      <4> QED
        BY ONLY <2>3, <2>4, <4>1, <4>2
    <3>7. i + 1 \in 1 .. l /\ i + 1 # 1 /\ (i + 1) - 1 = i
      BY ONLY <3>5, <3>6, <3>9
    <3>8. log'[i + 1] = n
      BY ONLY <2>4, <2>5, <3>2, <3>7
    <3> QED
      BY <2>5, <3>7, <3>8 DEF Range
  <2> QED
    BY <2>9, <2>10
<1>4. CASE \E t \in Tasks : pc[t] = "write" /\ log' \in Prefixes(Rewritten(t))
  BY <1>3, <1>4
<1> QED
  BY <1>2, <1>4 DEF Reset

LEMMA FileNext == FileIInv /\ [Next]_vars => FileIInv'
<1> SUFFICES ASSUME FileIInv, [Next]_vars PROVE FileIInv'
  OBVIOUS
<1>1. CASE UNCHANGED vars
  <2>1. UNCHANGED <<log, open, pc, new, content, shown, calls, alone, pushed>>
    BY <1>1 DEF vars
  <2>2. FileTypeOK' /\ OpenInv' /\ NewInv' /\ AloneInv'
    BY <2>1 DEF FileIInv, FileTypeOK, OpenInv, NewInv, AloneInv
  <2>3. ContentsInv'
    BY <2>1 DEF FileIInv, ContentsInv
  <2>4. OldInv' /\ HoldInv'
    BY <2>1 DEF FileIInv, OldInv, Old, HoldInv, Holds
  <2> QED
    BY <2>2, <2>3, <2>4 DEF FileIInv
<1>2. ASSUME NEW t \in Tasks, save_history(t) \/ Step(t) \/ push_history(t) PROVE FileIInv'
  BY <1>2, SaveHistoryFile, OpenReadFile, ReadFile, OpenWriteFile, WriteFile,
     PushHistoryFile, PushedFile DEF Step
<1>3. \A t \in Pushers : t \in Tasks
  BY ConstantsOK
<1> QED
  BY <1>1, <1>2, <1>3, ResetFile DEF Next

\* Every behaviour keeps the invariant.
LEMMA FileInvariance == Spec => []FileIInv
BY FileInit, FileNext, PTL DEF Spec

-----------------------------------------------------------------------------
(* The theorems.                                                           *)

\* The variables keep their types: push_history (spiffs.c:110-186) never lists
\* more than LOG_MAX rows, however many lines are split.
THEOREM TypeCorrect == RowsSpec => []RowsTypeOK
BY Invariance, PTL DEF IInv

\* The five arrays of push_history (spiffs.c:126) hold the strings that the loop
\* prints into them, with their final 0, as long as no string before them was overrun
\* (NothingBehindBuffers says when none is): whichever lines were split or torn, and
\* whichever string or array a time of four digits has written its 0 to.
THEOREM ArraysHoldColumns == RowsSpec => []ColumnsFit
<1>1. IInv => ColumnsFit
  <2> SUFFICES ASSUME IInv, NEW c \in Columns
               PROVE  array_res[c] + 1 <= Room[c] * LOG_MAX + 3
    BY DEF ColumnsFit
  <2>1. Room[c] \in {4, 5, 7, 22}
    BY DEF Columns, Room, INDEX, DATE, TIME_MODE, MODE, TIME_RUN
  <2>2. array_res[c] \in Nat /\ array_res[c] <= Room[c] * line_count + 1
    BY DEF IInv, RowsTypeOK, FillInv
  <2>3. line_count \in Nat /\ LOG_MAX \in Nat /\ line_count <= LOG_MAX
    BY RowsBound DEF IInv, RowsTypeOK
  <2> QED
    BY <2>1, <2>2, <2>3
<1> QED
  BY <1>1, Invariance, PTL

\* The five messages of push_history (spiffs.c:159-181) fit STONE_TX_BUF with their
\* final 0, as long as no string before them was overrun.
THEOREM BufferHoldsMessages == RowsSpec => []MessagesFit
<1>1. IInv => MessagesFit
  <2> SUFFICES ASSUME IInv, NEW c \in Columns
               PROVE  array_res[c] + Overhead + 1 <= TX_LEN
    BY DEF MessagesFit
  <2>1. Room[c] \in {4, 5, 7, 22}
    BY DEF Columns, Room, INDEX, DATE, TIME_MODE, MODE, TIME_RUN
  <2>2. array_res[c] \in Nat /\ array_res[c] <= Room[c] * line_count + 1
    BY DEF IInv, RowsTypeOK, FillInv
  <2>3. line_count \in Nat /\ LOG_MAX \in Nat /\ line_count <= LOG_MAX
    BY RowsBound DEF IInv, RowsTypeOK
  <2>4. TX_LEN \in Nat /\ 22 * LOG_MAX + 1 + 80 < TX_LEN
    BY BufferOK DEF DATE, Overhead
  <2>5. array_res[c] <= 22 * LOG_MAX + 1
    BY <2>1, <2>2, <2>3
  <2> QED
    BY <2>2, <2>3, <2>4, <2>5 DEF Overhead
<1> QED
  BY <1>1, Invariance, PTL

\* save_history and push_history (spiffs.c:89-186) write nothing behind buffer_time, the
\* strings (but for one 0), the arrays or STONE_TX_BUF, as long as every run that was
\* saved has a mode of one digit and a time of four at most, which their types do not
\* guarantee; and they read no string that was never written, unless a reset has left
\* nothing but a torn line.
THEOREM NothingBehindBuffers == RowsSpec => []BuffersHold
BY ArraysHoldColumns, BufferHoldsMessages, FitInvariance, PTL DEF BuffersHold, FitInv

\* What push_history (spiffs.c:110-186) sends, as long as nothing was overrun: if every
\* line fits line[30] with its newline and every time fits str4[4], the newest LOG_MAX
\* runs, each once and in order; and with long lines too, as long as nothing else lies
\* behind str4, these runs and no more than a row with an empty date behind a long one.
\* A line that a reset has torn adds one row at the end at most.
THEOREM RowsShowRuns == RowsSpec => RowsAreRuns
<1>1. ASSUME IInv, PushInv, [RowsNext]_rowsVars, pushing, ~pushing'
      PROVE  PlainRowsAreRuns /\ OnlyBlankRowsAdded
  <2>1. set_text
    BY <1>1 DEF RowsNext, save_line, cut_save, push_open, fgets, set_text, rowsVars
  <2>2. /\ line_count >= LOG_MAX \/ (at >= FileLines /\ ~split)
        /\ line_count \in 0 .. LOG_MAX /\ at \in 0 .. FileLines /\ LOG_MAX \in Nat
        /\ FileLines \in Len(lines) .. Len(lines) + 1
        /\ Len(lines) \in Nat /\ Len(rows) = line_count /\ PlainInv /\ DatedInv
    BY <1>1, <2>1, RowsBound DEF set_text, IInv, RowsTypeOK, PushInv, FileLines
  <2>3. PlainRowsAreRuns
    <3> SUFFICES ASSUME AllPlain
                 PROVE  /\ Len(rows) = Least(LOG_MAX, FileLines)
                        /\ \A i \in 1 .. Least(LOG_MAX, Len(lines)) : rows[i] = Row(lines[i])
      BY DEF PlainRowsAreRuns
    <3>1. /\ Len(rows) = at
          /\ \A i \in 1 .. Least(at, Len(lines)) : rows[i] = Row(lines[i])
      BY <2>2 DEF PlainInv
    <3>2. at = Least(LOG_MAX, FileLines)
      BY ONLY <2>2, <3>1 DEF Least
    <3>3. Least(at, Len(lines)) = Least(LOG_MAX, Len(lines))
      BY ONLY <2>2, <3>2 DEF Least
    <3> QED
      BY ONLY <3>1, <3>2, <3>3
  <2>4. OnlyBlankRowsAdded
    <3>1. at = FileLines \/ Len(rows) = LOG_MAX
      BY ONLY <2>2
    <3> QED
      BY ONLY <2>2, <3>1 DEF DatedInv, OnlyBlankRowsAdded
  <2> QED
    BY <2>3, <2>4
<1>2. IInv /\ PushInv /\ [RowsNext]_rowsVars =>
        [pushing /\ ~pushing' => PlainRowsAreRuns /\ OnlyBlankRowsAdded]_rowsVars
  BY <1>1
<1> QED
  BY <1>2, Invariance, PushInvariance, PTL DEF RowsSpec, RowsAreRuns

\* An entry that save_history (spiffs.c:89-109) saved while no other task was at work
\* stays in the log, newest first, whatever later calls do in whatever order, until a
\* reset catches the rewriting of the file (ResetKeepsNewer says what is left then).
THEOREM SavedAloneIsKept == Spec => []AloneKept
<1>1. FileIInv => AloneKept
  <2> SUFFICES ASSUME FileIInv, \A t \in Tasks : pc[t] = "idle"
               PROVE  /\ alone \subseteq Range(log)
                      /\ \A i, j \in DOMAIN log :
                           i < j /\ log[i] \in alone /\ log[j] \in alone => log[i] > log[j]
    BY DEF AloneKept
  <2>1. Holds(log) /\ DOMAIN log = 1 .. Len(log) /\ 0 \notin alone
    BY DEF FileIInv, FileTypeOK, HoldInv
  <2>2. \A t \in Tasks : new[t] \notin alone
    BY <2>1 DEF FileIInv, NewInv, SaveSteps
  <2> QED
    BY <2>1, <2>2 DEF Holds, Range
<1> QED
  BY <1>1, FileInvariance, PTL

\* A reset loses nothing that was saved alone unless it comes between the fopen that
\* empties the file and the end of the fprintf (spiffs.c:263-270), and then the oldest:
\* of the entries saved alone and the one being written, a newer one is in the file
\* wherever an older one is.
THEOREM ResetKeepsNewer == Spec => ResetLosesOldest
<1>1. FileIInv /\ [Next]_vars =>
        [ Reset =>
            LET kept == alone \ {new[t] : t \in {u \in Tasks : pc[u] # "write"}}
            IN  /\ (\A t \in Tasks : pc[t] # "write") => kept \subseteq Range(log')
                /\ \A m, n \in kept : m < n /\ m \in Range(log') => n \in Range(log')
        ]_vars
  BY ResetLoses
<1> QED
  BY <1>1, FileInvariance, PTL DEF Spec, ResetLosesOldest

\* However the calls of save_history come in between each other, no entry is in the log
\* twice.
THEOREM EntriesOnce == Spec => []NoDuplicates
<1>1. FileIInv => NoDuplicates
  <2> SUFFICES ASSUME FileIInv PROVE NoDuplicates
    OBVIOUS
  <2>1. ASSUME NEW s \in Seq(Nat), Old(s)
        PROVE  IsInjective(s) /\ \A t \in Tasks : new[t] \notin Range(s)
    <3>1. DOMAIN s = 1 .. Len(s)
      OBVIOUS
    <3>2. IsInjective(s)
      BY <2>1, <3>1 DEF Old, IsInjective
    <3>3. \A t \in Tasks : new[t] \notin Range(s)
      BY <2>1, <3>1 DEF Old, Range
    <3> QED
      BY <3>2, <3>3
  <2> QED
    BY <2>1 DEF FileIInv, FileTypeOK, OldInv, NoDuplicates
<1> QED
  BY <1>1, FileInvariance, PTL

\* push_history (spiffs.c:110-186) shows what the file held when it opened it.
THEOREM PushesSnapshot == Spec => []PushIsSnapshot
<1>1. FileIInv => PushIsSnapshot
  BY DEF FileIInv, ContentsInv, FirstRows, PushIsSnapshot
<1> QED
  BY <1>1, FileInvariance, PTL

===========================================================================
