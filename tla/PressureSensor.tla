--------------------------- MODULE PressureSensor ---------------------------
(***************************************************************************)
(* pressure_read (main.c) and read_sensor_one_shot (XDB305/xdb305.c): the  *)
(* task reads a number of samples over I2C, averages them, and shows the   *)
(* pressure as a percentage.                                               *)
(*                                                                         *)
(* A sample is three transactions: a command that starts a conversion,     *)
(* reads of the command register until the conversion has ended, and a     *)
(* read of the result.  Any transaction can fail; the sample is then begun *)
(* anew.  The sensor converts on its own, at its own pace.                 *)
(*                                                                         *)
(* Pressures are kept as the signed contents of the result register; the   *)
(* code's floats scale them by FullScale / Half.  Rounding of floats is    *)
(* left out, the final round() is not.  The temperature is summed likewise *)
(* and never shown; it is left out.                                        *)
(***************************************************************************)
EXTENDS Integers

CONSTANTS
  Samples,    \* samples of one average (100)
  Half,       \* 2^23, half the range of the result register
  FullScale,  \* the pressure that Half stands for (300 bar)
  Span,       \* the pressure shown as 100 percent (130 bar)
  RawValues   \* contents of the result register

ASSUME ConstantsOK ==
  /\ Samples \in Nat \ {0} /\ Half \in Nat \ {0}
  /\ FullScale \in Nat \ {0} /\ Span \in Nat \ {0}
  /\ RawValues \subseteq 0 .. 2 * Half - 1 /\ RawValues # {}

VARIABLES
  converting,  \* the sensor: a conversion is in progress
  result,      \* the sensor: contents of the result register
  p_pc,        \* pressure_read: next transaction
  i, pres,     \* number and sum of the samples so far
  shown,       \* what the labels show
  (* The next two only observe. *)
  lo, hi       \* least and greatest sample of this average

sensor == <<converting, result>>
vars == <<sensor, p_pc, i, pres, shown, lo, hi>>

-----------------------------------------------------------------------------
\* What the command register reads: 0x0A is written, the sensor clears bit 3
\* when the conversion has ended.
SCO == IF converting THEN 10 ELSE 2

\* ((SCO >> 2) & 0x1) == 1
StillConverting_Bit1 == (SCO \div 2) % 2 = 1
StillConverting == (SCO \div 4) % 2 = 1

Signed(r) == IF r > Half THEN r - 2 * Half ELSE r

\* round(n / d), halves away from zero, for a positive d.
Round(n, d) == IF n >= 0 THEN (2 * n + d) \div (2 * d)
                         ELSE -((d - 2 * n) \div (2 * d))

\* round(pres * 100 / 130), of the mean.
Percentage(sum) == Round(sum * FullScale * 100, Samples * Half * Span)

Clamp(p) == CASE p < 3 -> 0
              [] p > 98 -> 100
              [] OTHER -> p

-----------------------------------------------------------------------------
Init ==
  /\ converting = FALSE /\ result \in RawValues
  /\ p_pc = "command"
  /\ i = 0 /\ pres = 0
  /\ shown = 0
  /\ lo = 2 * Half /\ hi = -2 * Half

\* The sensor ends a conversion.
Converted ==
  /\ converting
  /\ converting' = FALSE
  /\ result' \in RawValues
  /\ UNCHANGED <<p_pc, i, pres, shown, lo, hi>>

\* sensor_register_write_byte(0x30, 0x0A)
StartConversion ==
  /\ p_pc = "command"
  /\ converting' = TRUE
  /\ p_pc' = "poll"
  /\ UNCHANGED <<result, i, pres, shown, lo, hi>>

\* sensor_register_read(0x30, &SCO, 1), and the test of the loop.
PollSCO ==
  /\ p_pc = "poll"
  /\ p_pc' = IF StillConverting THEN "poll" ELSE "data"
  /\ UNCHANGED <<sensor, i, pres, shown, lo, hi>>

\* sensor_register_read(0x06, REG_Data, 5)
ReadResult ==
  /\ p_pc = "data"
  /\ LET x == Signed(result)
     IN  /\ pres' = pres + x
         /\ lo' = IF x < lo THEN x ELSE lo
         /\ hi' = IF x > hi THEN x ELSE hi
  /\ i' = i + 1
  /\ p_pc' = IF i' < Samples THEN "command" ELSE "show"
  /\ UNCHANGED <<sensor, shown>>

\* A transaction returns an error: the sample does not count.  A command may
\* have reached the sensor all the same.
TransactionFails_Counted ==
  /\ p_pc \in {"command", "poll", "data"}
  /\ converting' \in {converting, converting \/ p_pc = "command"}
  /\ i' = i + 1
  /\ p_pc' = IF i' < Samples THEN "command" ELSE "show"
  /\ UNCHANGED <<result, pres, shown, lo, hi>>
TransactionFails ==
  /\ p_pc \in {"command", "poll", "data"}
  /\ converting' \in {converting, converting \/ p_pc = "command"}
  /\ p_pc' = "command"
  /\ UNCHANGED <<result, i, pres, shown, lo, hi>>

\* Both labels are written, and the next average begun.
ShowPressure ==
  /\ p_pc = "show"
  /\ shown' = Clamp(Percentage(pres))
  /\ i' = 0 /\ pres' = 0
  /\ lo' = 2 * Half /\ hi' = -2 * Half
  /\ p_pc' = "command"
  /\ UNCHANGED sensor

pressure_read == StartConversion \/ PollSCO \/ ReadResult \/ ShowPressure

Next == pressure_read \/ TransactionFails \/ Converted

Spec == Init /\ [][Next]_vars

\* The task is scheduled.
FairSpec == Spec /\ WF_vars(pressure_read)

-----------------------------------------------------------------------------
(* Properties.                                                             *)

TypeOK ==
  /\ converting \in BOOLEAN /\ result \in RawValues
  /\ p_pc \in {"command", "poll", "data", "show"}
  /\ i \in 0 .. Samples /\ (i = Samples <=> p_pc = "show")
  /\ pres \in Int
  /\ shown \in {0, 100} \union 3 .. 98
  /\ lo \in -2 * Half .. 2 * Half /\ hi \in -2 * Half .. 2 * Half

\* The labels are written with a value between those of the least and of the
\* greatest sample of the average, however many transactions failed between
\* them: a failed sample is neither counted nor added.
ShownIsMean ==
  [][ShowPressure =>
       /\ Clamp(Percentage(Samples * lo)) <= shown'
       /\ shown' <= Clamp(Percentage(Samples * hi))]_vars

\* A sensor that answers from some time on is shown again and again: no failed
\* transaction before that leaves the task waiting.
ShownAgain == <>[][~TransactionFails]_vars => []<><<ShowPressure>>_vars

\* The comment in read_sensor_one_shot: the result is read when bit 3 of the
\* command register has become zero.
WaitsForResult == p_pc = "data" => (SCO \div 8) % 2 = 0

=============================================================================
